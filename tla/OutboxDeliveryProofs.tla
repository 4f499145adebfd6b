------------------------ MODULE OutboxDeliveryProofs ------------------------
(***************************************************************************)
(* Theorems about OutboxDelivery, for any number of events, workers and    *)
(* attempts.                                                               *)
(***************************************************************************)
EXTENDS OutboxDelivery, TLAPS

-----------------------------------------------------------------------------
(* The inductive invariant *)

\* What a claim has locked is still what it picked.
ClaimsAreCurrent ==
  \A w \in Workers : worker[w].phase = "claiming" =>
    /\ worker[w].event # None => worker[w].event \in Due
    /\ worker[w].exhausted \subseteq Exhausted

\* Open claims have locked different rows.
ClaimsAreApart ==
  \A v, w \in Workers : v # w => Locked(v) \cap Locked(w) = {}

AtWork(w) == worker[w].phase \in {"sending", "replied"}

\* No attempt lies ahead of the count in the row, so the next one is new.
AttemptsAreCounted ==
  /\ \A w \in Workers : AtWork(w) => worker[w].attempt <= row[worker[w].event].attempts
  /\ \A a \in answers : a.attempt <= row[a.event].attempts

\* No two workers are at work on the same attempt.
AttemptsArePrivate ==
  \A v, w \in Workers :
    /\ AtWork(v) /\ AtWork(w)
    /\ worker[v].event = worker[w].event /\ worker[v].attempt = worker[w].attempt
    => v = w

\* A worker sends an attempt that nobody has answered.
SendsAreNew ==
  \A w \in Workers : worker[w].phase = "sending" =>
    \A a \in answers : ~(a.event = worker[w].event /\ a.attempt = worker[w].attempt)

\* A worker that is to record a final reply has received it.
RepliesWereGiven ==
  \A w \in Workers : worker[w].phase = "replied" /\ worker[w].reply # "temporary" =>
    \E a \in answers : a.event = worker[w].event /\ a.reply = worker[w].reply

IInv ==
  /\ TypeOK
  /\ ClaimsAreCurrent
  /\ ClaimsAreApart
  /\ AttemptsAreCounted
  /\ AttemptsArePrivate
  /\ SendsAreNew
  /\ RepliesWereGiven
  /\ DeliveredWasAccepted
  /\ FailureIsExplained

-----------------------------------------------------------------------------
(* Initial states *)

LEMMA InitIInv == Init => IInv
<1> SUFFICES ASSUME Init PROVE IInv
  OBVIOUS
<1> USE MaxAttemptsAssumption DEF Init, Idle
<1>1. TypeOK
  BY DEF TypeOK, Row
<1>2. ClaimsAreCurrent /\ ClaimsAreApart
  BY DEF ClaimsAreCurrent, ClaimsAreApart, Locked
<1>3. AttemptsAreCounted /\ AttemptsArePrivate /\ SendsAreNew /\ RepliesWereGiven
  BY DEF AttemptsAreCounted, AttemptsArePrivate, AtWork, SendsAreNew, RepliesWereGiven
<1>4. DeliveredWasAccepted /\ FailureIsExplained
  BY DEF DeliveredWasAccepted, FailureIsExplained
<1> QED BY <1>1, <1>2, <1>3, <1>4 DEF IInv

-----------------------------------------------------------------------------
(* Types *)

\* The fields of a worker's state, phase by phase.
LEMMA WorkerFields ==
  ASSUME TypeOK, NEW w \in Workers
  PROVE  /\ worker[w].phase = "claiming" =>
              worker[w].event \in Events \cup {None} /\ worker[w].exhausted \subseteq Events
         /\ AtWork(w) => worker[w].event \in Events /\ worker[w].attempt \in Attempts
         /\ worker[w].phase = "replied" => worker[w].reply \in Replies
         /\ worker[w].phase = "idle" => worker[w] = Idle
  BY DEF TypeOK, AtWork, Idle, Down, Claiming, Delivering

\* No event is None, so a claim with an event locks it.
LEMMA NoneIsNoEvent == None \notin Events
  BY EventsAssumption DEF None

\* Every update of a row keeps its type.
LEMMA RowTypes ==
  ASSUME NEW r \in Row
  PROVE  /\ [r EXCEPT !.status = "pending"] \in Row
         /\ [r EXCEPT !.lapsed = TRUE] \in Row
         /\ r.attempts < MaxAttempts => Claimed(r) \in Row
         /\ GivenUp(r) \in Row
         /\ Acknowledged(r) \in Row
         /\ \A reply \in Replies : Refused(r, reply) \in Row
<1> USE MaxAttemptsAssumption DEF Row
<1>1. [r EXCEPT !.status = "pending"] \in Row /\ [r EXCEPT !.lapsed = TRUE] \in Row
  OBVIOUS
<1>2. ASSUME r.attempts < MaxAttempts PROVE Claimed(r) \in Row
  <2>1. r.attempts + 1 \in 0..MaxAttempts
    BY <1>2
  <2> QED BY <2>1 DEF Claimed
<1>3. GivenUp(r) \in Row /\ Acknowledged(r) \in Row
  BY DEF GivenUp, Acknowledged
<1>4. \A reply \in Replies : Refused(r, reply) \in Row
  BY DEF Refused
<1> QED BY <1>1, <1>2, <1>3, <1>4

-----------------------------------------------------------------------------
(* One lemma per kind of step *)

\* Events appear and leases run out: only rows change, their attempts do not,
\* and no row that a claim has locked stops being due or exhausted.
LEMMA SurroundingsKeepIInv ==
  ASSUME IInv, NEW e \in Events, Enqueue(e) \/ Lapse(e)
  PROVE  IInv'
<1> USE DEF IInv
<1>1. UNCHANGED <<worker, answers>>
  BY DEF Enqueue, Lapse
<1>2. row[e] \in Row
  BY DEF TypeOK
<1>3. row' \in [Events -> Row]
  <2>1. [row[e] EXCEPT !.status = "pending"] \in Row /\ [row[e] EXCEPT !.lapsed = TRUE] \in Row
    BY <1>2, RowTypes
  <2> QED BY <2>1 DEF Enqueue, Lapse, TypeOK
<1>4. \A f \in Events :
        /\ row'[f].attempts = row[f].attempts
        /\ row'[f].error = row[f].error
        /\ \/ row'[f].status = row[f].status
           \/ row[f].status = "absent" /\ row'[f].status = "pending"
        /\ row[f].lapsed => row'[f].lapsed
  <2>1. CASE Enqueue(e)
    BY <2>1, <1>2 DEF Enqueue, TypeOK, Row
  <2>2. CASE Lapse(e)
    BY <2>2, <1>2 DEF Lapse, TypeOK, Row
  <2> QED BY <2>1, <2>2
<1>5. TypeOK'
  BY <1>1, <1>3 DEF TypeOK
<1>6. ClaimsAreCurrent'
  <2>1. Due \subseteq Due' /\ Exhausted \subseteq Exhausted'
    BY <1>4 DEF Due, Exhausted
  <2> QED BY <1>1, <2>1 DEF ClaimsAreCurrent
<1>7. ClaimsAreApart'
  BY <1>1 DEF ClaimsAreApart, Locked
<1>8. AttemptsAreCounted'
  BY <1>1, <1>4, WorkerFields DEF AttemptsAreCounted, AtWork, TypeOK, Answer
<1>9. AttemptsArePrivate' /\ SendsAreNew' /\ RepliesWereGiven'
  BY <1>1 DEF AttemptsArePrivate, AtWork, SendsAreNew, RepliesWereGiven
<1>10. DeliveredWasAccepted' /\ FailureIsExplained'
  BY <1>1, <1>4 DEF DeliveredWasAccepted, FailureIsExplained
<1> QED BY <1>5, <1>6, <1>7, <1>8, <1>9, <1>10

\* A claim locks rows that no other claim has locked.
LEMMA PickKeepsIInv ==
  ASSUME IInv, NEW w \in Workers, Pick(w)
  PROVE  IInv'
<1> USE DEF IInv
<1>1. UNCHANGED <<row, answers>> /\ Due' = Due /\ Exhausted' = Exhausted
  BY DEF Pick, Due, Exhausted
<1>2. PICK picked \in Events \cup {None} :
        /\ OldestOf(picked, {f \in Due : Free(f)})
        /\ Become(w, [phase |-> "claiming", event |-> picked, exhausted |-> Exhausted])
  BY DEF Pick
<1>3. picked = None \/ (picked \in Due /\ Free(picked))
  BY <1>2 DEF OldestOf
<1>4. TypeOK'
  <2>1. [phase |-> "claiming", event |-> picked, exhausted |-> Exhausted] \in Claiming
    BY <1>3 DEF Claiming, Exhausted, Due
  <2> QED BY <1>1, <1>2, <2>1 DEF TypeOK, Become
<1>5. \A v \in Workers : v # w => worker'[v] = worker[v]
  BY <1>2 DEF TypeOK, Become
<1>6. worker'[w] = [phase |-> "claiming", event |-> picked, exhausted |-> Exhausted]
  BY <1>2 DEF TypeOK, Become
<1>7. ClaimsAreCurrent'
  BY <1>1, <1>3, <1>5, <1>6 DEF ClaimsAreCurrent
<1>8. ClaimsAreApart'
  <2>1. Locked(w)' = Exhausted \cup ({picked} \ {None})
    BY <1>6 DEF Locked
  <2>2. \A v \in Workers : v # w => Locked(v)' = Locked(v)
    BY <1>5 DEF Locked
  <2>3. \A e \in Locked(w)' : Free(e)
    BY <2>1, <1>3 DEF Pick
  <2> QED BY <2>2, <2>3 DEF ClaimsAreApart, Free
<1>9. AttemptsAreCounted' /\ AttemptsArePrivate' /\ SendsAreNew' /\ RepliesWereGiven'
  <2>1. \A v \in Workers : worker'[v].phase # "claiming" => v # w
    BY <1>6
  <2>2. \A v \in Workers : AtWork(v)' => v # w /\ AtWork(v)
    BY <2>1, <1>5 DEF AtWork
  <2>3. AttemptsAreCounted' /\ AttemptsArePrivate'
    BY <1>1, <1>5, <2>2 DEF AttemptsAreCounted, AttemptsArePrivate
  <2>4. SendsAreNew' /\ RepliesWereGiven'
    BY <1>1, <1>5, <2>1 DEF SendsAreNew, RepliesWereGiven
  <2> QED BY <2>3, <2>4
<1>10. DeliveredWasAccepted' /\ FailureIsExplained'
  BY <1>1 DEF DeliveredWasAccepted, FailureIsExplained
<1> QED BY <1>4, <1>7, <1>8, <1>9, <1>10

\* A committed claim counts an attempt that nobody has made, on rows that no
\* other claim has locked.
LEMMA ClaimKeepsIInv ==
  ASSUME IInv, NEW w \in Workers, Claim(w)
  PROVE  IInv'
<1> USE DEF IInv
<1> DEFINE c == worker[w]
<1>1. /\ c.phase = "claiming" /\ c.event \in Events \cup {None} /\ c.exhausted \subseteq Events
      /\ c.event # None => c.event \in Due
      /\ c.exhausted \subseteq Exhausted
      /\ UNCHANGED answers
  BY WorkerFields DEF Claim, ClaimsAreCurrent
<1>2. \A e \in Events :
        row'[e] = IF e = c.event THEN Claimed(row[e])
                  ELSE IF e \in c.exhausted THEN GivenUp(row[e]) ELSE row[e]
  BY DEF Claim
<1>3. \A e \in Events : row[e] \in Row
  BY DEF TypeOK
<1>4. /\ c.event = None => worker'[w] = Idle
      /\ c.event # None =>
           worker'[w] = [phase |-> "sending", event |-> c.event,
                         attempt |-> row[c.event].attempts + 1]
      /\ \A v \in Workers : v # w => worker'[v] = worker[v]
  BY DEF Claim, Become, TypeOK
<1>5. \A e \in Events : e = c.event =>
        /\ row[e].attempts + 1 \in Attempts
        /\ row[e].status \in {"pending", "processing"}
        /\ row'[e].status = "processing"
        /\ row'[e].attempts = row[e].attempts + 1
        /\ row'[e] \in Row
  <2> SUFFICES ASSUME NEW e \in Events, e = c.event
               PROVE  /\ row[e].attempts + 1 \in Attempts
                      /\ row[e].status \in {"pending", "processing"}
                      /\ row'[e].status = "processing"
                      /\ row'[e].attempts = row[e].attempts + 1
                      /\ row'[e] \in Row
    OBVIOUS
  <2>1. row[e].attempts < MaxAttempts /\ row[e].status \in {"pending", "processing"}
    BY <1>1, NoneIsNoEvent DEF Due
  <2>2. row'[e] = Claimed(row[e])
    BY <1>2
  <2>3. row[e].attempts + 1 \in Attempts
    BY <2>1, <1>3, MaxAttemptsAssumption DEF Row, Attempts
  <2>4. row'[e].status = "processing" /\ row'[e].attempts = row[e].attempts + 1
    BY <2>2, <1>3 DEF Claimed, Row
  <2>5. row'[e] \in Row
    BY <2>1, <2>2, <1>3, RowTypes
  <2> QED BY <2>1, <2>3, <2>4, <2>5
<1>6. \A e \in Events : e # c.event /\ e \in c.exhausted =>
        /\ row[e].attempts = MaxAttempts
        /\ row'[e].status = "failed" /\ row'[e].error = "max_attempts"
        /\ row'[e].attempts = row[e].attempts
        /\ row'[e] \in Row
  <2> SUFFICES ASSUME NEW e \in Events, e # c.event, e \in c.exhausted
               PROVE  /\ row[e].attempts = MaxAttempts
                      /\ row'[e].status = "failed" /\ row'[e].error = "max_attempts"
                      /\ row'[e].attempts = row[e].attempts
                      /\ row'[e] \in Row
    OBVIOUS
  <2>1. row[e].attempts = MaxAttempts
    BY <1>1, <1>3, MaxAttemptsAssumption DEF Exhausted, Row
  <2>2. row'[e] = GivenUp(row[e])
    BY <1>2
  <2>3. /\ row'[e].status = "failed" /\ row'[e].error = "max_attempts"
        /\ row'[e].attempts = row[e].attempts
    BY <2>2, <1>3 DEF GivenUp, Row
  <2>4. row'[e] \in Row
    BY <2>2, <1>3, RowTypes
  <2> QED BY <2>1, <2>3, <2>4
<1>7. \A e \in Events : e # c.event /\ e \notin c.exhausted => row'[e] = row[e]
  BY <1>2
<1>8. \A e \in Events : row'[e].attempts >= row[e].attempts
  BY <1>3, <1>5, <1>6, <1>7 DEF Row
<1>9. /\ worker'[w] = Idle \/ worker'[w].phase = "sending"
      /\ worker'[w].phase \notin {"claiming", "replied"}
  BY <1>4 DEF Idle
<1>10. \A v \in Workers : AtWork(v)' => \/ v # w /\ AtWork(v)
                                        \/ v = w /\ c.event # None
  BY <1>4 DEF AtWork, Idle
<1> HIDE DEF c
<1>11. TypeOK'
  <2>1. row' \in [Events -> Row]
    <3>1. \A e \in Events : row'[e] \in Row
      BY <1>3, <1>5, <1>6, <1>7
    <3>2. row' = [e \in Events |-> row'[e]]
      BY DEF Claim
    <3> QED BY <3>1, <3>2
  <2>2. worker'[w] \in {Idle, Down} \cup Claiming \cup Delivering
    BY <1>1, <1>4, <1>5 DEF Delivering
  <2>3. worker' = [worker EXCEPT ![w] = worker'[w]]
    BY DEF Claim, Become, TypeOK
  <2> QED BY <1>1, <2>1, <2>2, <2>3 DEF TypeOK
<1>12. ClaimsAreCurrent'
  <2> SUFFICES ASSUME NEW v \in Workers, worker'[v].phase = "claiming"
               PROVE  /\ worker'[v].event # None => worker'[v].event \in Due'
                      /\ worker'[v].exhausted \subseteq Exhausted'
    BY DEF ClaimsAreCurrent
  <2>1. v # w /\ worker'[v] = worker[v]
    BY <1>4, <1>9
  <2>2. \A e \in Locked(v) : e \notin Locked(w)
    BY <2>1 DEF ClaimsAreApart
  <2>3. \A e \in Events : e \in Locked(v) => row'[e] = row[e]
    BY <2>2, <1>1, <1>7, NoneIsNoEvent DEF Locked, c
  <2>4. /\ worker[v].event # None => worker[v].event \in Due \cap Locked(v)
        /\ worker[v].exhausted \subseteq Exhausted \cap Locked(v)
    BY <2>1 DEF ClaimsAreCurrent, Locked
  <2> QED BY <2>1, <2>3, <2>4 DEF Due, Exhausted
<1>13. ClaimsAreApart'
  <2>1. Locked(w)' = {}
    BY <1>9 DEF Locked
  <2>2. \A v \in Workers : v # w => Locked(v)' = Locked(v)
    BY <1>4 DEF Locked
  <2> QED BY <2>1, <2>2 DEF ClaimsAreApart
<1>14. AttemptsAreCounted'
  <2>1. \A v \in Workers : AtWork(v)' => worker'[v].attempt <= row'[worker'[v].event].attempts
    <3> SUFFICES ASSUME NEW v \in Workers, AtWork(v)'
                 PROVE  worker'[v].attempt <= row'[worker'[v].event].attempts
      OBVIOUS
    <3>1. CASE v = w
      BY <3>1, <1>1, <1>3, <1>4, <1>5, <1>10 DEF Row
    <3>2. CASE v # w
      <4>1. AtWork(v) /\ worker'[v] = worker[v]
        BY <3>2, <1>4, <1>10
      <4>2. worker[v].event \in Events /\ worker[v].attempt \in Attempts
        BY <4>1, WorkerFields
      <4>3. worker[v].attempt <= row[worker[v].event].attempts
        BY <4>1 DEF AttemptsAreCounted
      <4>4. row[worker[v].event] \in Row
            /\ row'[worker[v].event].attempts \in Nat
        BY <4>2, <1>3, <1>11 DEF TypeOK, Row
      <4> QED BY <4>1, <4>2, <4>3, <4>4, <1>8 DEF Row, Attempts
    <3> QED BY <3>1, <3>2
  <2>2. \A a \in answers : a.attempt <= row'[a.event].attempts
    <3> SUFFICES ASSUME NEW a \in answers PROVE a.attempt <= row'[a.event].attempts
      OBVIOUS
    <3>1. a.event \in Events /\ a.attempt \in Attempts /\ a.attempt <= row[a.event].attempts
      BY DEF TypeOK, Answer, AttemptsAreCounted
    <3>2. row[a.event].attempts \in Nat /\ row'[a.event].attempts \in Nat
      BY <3>1, <1>3, <1>11 DEF TypeOK, Row
    <3> QED BY <3>1, <3>2, <1>8 DEF Attempts
  <2> QED BY <1>1, <2>1, <2>2 DEF AttemptsAreCounted
<1>15. AttemptsArePrivate'
  <2>1. \A v \in Workers : v # w /\ AtWork(v) /\ worker[v].event = c.event =>
          worker[v].attempt # row[c.event].attempts + 1
    BY <1>3, WorkerFields DEF AttemptsAreCounted, Row, Attempts
  <2> QED BY <2>1, <1>4, <1>10 DEF AttemptsArePrivate
<1>16. SendsAreNew'
  <2>1. \A a \in answers : a.event = c.event => a.attempt # row[c.event].attempts + 1
    BY <1>3 DEF AttemptsAreCounted, TypeOK, Answer, Row, Attempts
  <2>2. \A v \in Workers : worker'[v].phase = "sending" =>
          \/ v # w /\ worker'[v] = worker[v]
          \/ worker'[v].event = c.event /\ worker'[v].attempt = row[c.event].attempts + 1
    BY <1>4 DEF Idle
  <2> QED BY <1>1, <2>1, <2>2 DEF SendsAreNew
<1>17. RepliesWereGiven'
  BY <1>1, <1>4, <1>9 DEF RepliesWereGiven
<1>18. DeliveredWasAccepted'
  BY <1>1, <1>5, <1>6, <1>7 DEF DeliveredWasAccepted
<1>19. FailureIsExplained'
  <2>1. \A e \in Events : row'[e].status = "failed" =>
          \/ row'[e].error = "max_attempts" /\ row'[e].attempts = MaxAttempts
          \/ row'[e] = row[e]
    BY <1>5, <1>6, <1>7
  <2> QED BY <1>1, <2>1 DEF FailureIsExplained
<1> QED BY <1>11, <1>12, <1>13, <1>14, <1>15, <1>16, <1>17, <1>18, <1>19

\* The answer to an attempt is recorded once, by the only worker that makes it.
LEMMA DeliverKeepsIInv ==
  ASSUME IInv, NEW w \in Workers, Deliver(w)
  PROVE  IInv'
<1> USE DEF IInv
<1>1. worker[w].phase = "sending" /\ worker[w].event \in Events /\ worker[w].attempt \in Attempts
  BY WorkerFields DEF Deliver, AtWork
<1>2. PICK reply \in Replies :
        /\ answers' = answers \cup
             {[event |-> worker[w].event, attempt |-> worker[w].attempt, reply |-> reply]}
        /\ Become(w, [phase |-> "replied", event |-> worker[w].event,
                      attempt |-> worker[w].attempt, reply |-> reply])
  BY DEF Deliver
<1>3. UNCHANGED row
  BY DEF Deliver
<1>4. /\ worker'[w] = [phase |-> "replied", event |-> worker[w].event,
                       attempt |-> worker[w].attempt, reply |-> reply]
      /\ \A v \in Workers : v # w => worker'[v] = worker[v]
  BY <1>2 DEF Become, TypeOK
<1>5. \A v \in Workers : AtWork(v)' =>
        AtWork(v) /\ worker'[v].event = worker[v].event /\ worker'[v].attempt = worker[v].attempt
  BY <1>1, <1>4 DEF AtWork
<1>6. TypeOK'
  <2>1. worker'[w] \in Delivering
    BY <1>1, <1>4 DEF Delivering
  <2>2. worker' = [worker EXCEPT ![w] = worker'[w]]
    BY <1>2, <1>4 DEF Become
  <2>3. answers' \subseteq Answer
    BY <1>1, <1>2 DEF TypeOK, Answer
  <2> QED BY <1>3, <2>1, <2>2, <2>3 DEF TypeOK
<1>7. ClaimsAreCurrent' /\ ClaimsAreApart'
  <2>1. \A v \in Workers : worker'[v].phase = "claiming" => worker'[v] = worker[v]
    BY <1>4
  <2>2. Due' = Due /\ Exhausted' = Exhausted
    BY <1>3 DEF Due, Exhausted
  <2>3. \A v \in Workers : Locked(v)' = Locked(v)
    BY <1>1, <1>4 DEF Locked
  <2> QED BY <2>1, <2>2, <2>3 DEF ClaimsAreCurrent, ClaimsAreApart
<1>8. AttemptsAreCounted'
  <2>1. worker[w].attempt <= row[worker[w].event].attempts
    BY <1>1 DEF AttemptsAreCounted, AtWork
  <2> QED BY <1>2, <1>3, <1>5, <2>1 DEF AttemptsAreCounted
<1>9. AttemptsArePrivate'
  BY <1>5 DEF AttemptsArePrivate
<1>10. SendsAreNew'
  <2>1. \A v \in Workers : worker'[v].phase = "sending" =>
          /\ v # w /\ worker'[v] = worker[v]
          /\ ~(worker[v].event = worker[w].event /\ worker[v].attempt = worker[w].attempt)
    BY <1>1, <1>4 DEF AttemptsArePrivate, AtWork
  <2> QED BY <1>2, <2>1 DEF SendsAreNew
<1>11. RepliesWereGiven'
  <2> SUFFICES ASSUME NEW v \in Workers,
                      worker'[v].phase = "replied", worker'[v].reply # "temporary"
               PROVE  \E a \in answers' :
                        a.event = worker'[v].event /\ a.reply = worker'[v].reply
    BY DEF RepliesWereGiven
  <2>1. CASE v = w
    <3> DEFINE a == [event |-> worker[w].event, attempt |-> worker[w].attempt, reply |-> reply]
    <3>1. a \in answers' /\ a.event = worker[w].event /\ a.reply = reply
      BY <1>2
    <3>2. worker'[v].event = worker[w].event /\ worker'[v].reply = reply
      BY <1>4, <2>1
    <3> QED BY <3>1, <3>2
  <2>2. CASE v # w
    BY <1>2, <1>4, <2>2 DEF RepliesWereGiven
  <2> QED BY <2>1, <2>2
<1>12. DeliveredWasAccepted' /\ FailureIsExplained'
  BY <1>2, <1>3 DEF DeliveredWasAccepted, FailureIsExplained
<1> QED BY <1>6, <1>7, <1>8, <1>9, <1>10, <1>11, <1>12

\* Recording a reply in a row that no claim has locked: the attempts stay, and
\* what the row says of its end is true.
LEMMA RecordKeepsIInv ==
  ASSUME IInv, NEW w \in Workers, NEW e \in Events, Free(e), NEW r \in Row,
         row' = [row EXCEPT ![e] = r],
         r.attempts = row[e].attempts,
         r.status = "delivered" => \E a \in answers : a.event = e /\ a.reply = "accepted",
         r.status = "failed" =>
           \/ /\ r.error = "permanent"
              /\ \E a \in answers : a.event = e /\ a.reply = "permanent"
           \/ r.error = "max_attempts" /\ r.attempts = MaxAttempts,
         worker[w].phase = "replied",
         \/ worker' = [worker EXCEPT ![w] = Idle]
         \/ worker' = [worker EXCEPT ![w].reply = "temporary"],
         UNCHANGED answers
  PROVE  IInv'
<1> USE DEF IInv
<1>1. /\ row'[e] = r
      /\ \A f \in Events : f # e => row'[f] = row[f]
      /\ \A f \in Events : row'[f].attempts = row[f].attempts
  BY DEF TypeOK
<1>2. /\ \/ worker'[w] = Idle
         \/ worker'[w] = [worker[w] EXCEPT !.reply = "temporary"]
      /\ \A v \in Workers : v # w => worker'[v] = worker[v]
  BY DEF TypeOK
<1>3. worker[w] \in Delivering /\ worker[w].event \in Events /\ worker[w].attempt \in Attempts
  BY WorkerFields DEF TypeOK, AtWork, Idle, Down, Claiming
<1>4. \/ worker'[w] = Idle
      \/ worker'[w] = [phase |-> "replied", event |-> worker[w].event,
                       attempt |-> worker[w].attempt, reply |-> "temporary"]
  BY <1>2, <1>3 DEF Delivering
<1>5. \A v \in Workers : AtWork(v)' =>
        AtWork(v) /\ worker'[v].event = worker[v].event /\ worker'[v].attempt = worker[v].attempt
  BY <1>2, <1>4 DEF AtWork, Idle
<1>6. \A v \in Workers : worker'[v].phase \in {"claiming", "sending"} =>
        v # w /\ worker'[v] = worker[v]
  BY <1>2, <1>4 DEF Idle
<1>7. TypeOK'
  <2>1. worker'[w] \in {Idle} \cup Delivering
    BY <1>3, <1>4 DEF Delivering, Replies
  <2>2. worker' = [worker EXCEPT ![w] = worker'[w]]
    BY DEF TypeOK
  <2>3. row' \in [Events -> Row]
    BY DEF TypeOK
  <2> QED BY <2>1, <2>2, <2>3 DEF TypeOK
<1>8. ClaimsAreCurrent'
  <2> SUFFICES ASSUME NEW v \in Workers, worker'[v].phase = "claiming"
               PROVE  /\ worker'[v].event # None => worker'[v].event \in Due'
                      /\ worker'[v].exhausted \subseteq Exhausted'
    BY DEF ClaimsAreCurrent
  <2>1. worker'[v] = worker[v] /\ e \notin Locked(v)
    BY <1>6 DEF Free
  <2>2. /\ worker[v].event # None => worker[v].event \in Due /\ worker[v].event # e
        /\ worker[v].exhausted \subseteq Exhausted /\ e \notin worker[v].exhausted
    BY <2>1 DEF ClaimsAreCurrent, Locked
  <2> QED BY <1>1, <2>1, <2>2 DEF Due, Exhausted
<1>9. ClaimsAreApart'
  <2>1. \A v \in Workers : Locked(v)' = Locked(v)
    BY <1>2, <1>4, <1>6 DEF Locked
  <2> QED BY <2>1 DEF ClaimsAreApart
<1>10. AttemptsAreCounted'
  BY <1>1, <1>5, WorkerFields DEF AttemptsAreCounted, TypeOK, Answer
<1>11. AttemptsArePrivate'
  BY <1>5 DEF AttemptsArePrivate
<1>12. SendsAreNew' /\ RepliesWereGiven'
  <2>1. \A v \in Workers : worker'[v].phase = "replied" /\ worker'[v].reply # "temporary" =>
          worker'[v] = worker[v]
    BY <1>2, <1>4 DEF Idle
  <2> QED BY <1>6, <2>1 DEF SendsAreNew, RepliesWereGiven
<1>13. DeliveredWasAccepted' /\ FailureIsExplained'
  BY <1>1 DEF DeliveredWasAccepted, FailureIsExplained
<1> QED BY <1>7, <1>8, <1>9, <1>10, <1>11, <1>12, <1>13

\* The same when the row is left as it is.
LEMMA LeaveRowKeepsIInv ==
  ASSUME IInv, NEW w \in Workers, NEW e \in Events, Free(e), UNCHANGED <<row, answers>>,
         worker[w].phase = "replied",
         \/ worker' = [worker EXCEPT ![w] = Idle]
         \/ worker' = [worker EXCEPT ![w].reply = "temporary"]
  PROVE  IInv'
<1>1. row' = [row EXCEPT ![e] = row[e]] /\ row[e] \in Row
  BY DEF IInv, TypeOK
<1>2. /\ row[e].status = "delivered" => \E a \in answers : a.event = e /\ a.reply = "accepted"
      /\ row[e].status = "failed" =>
           \/ /\ row[e].error = "permanent"
              /\ \E a \in answers : a.event = e /\ a.reply = "permanent"
           \/ row[e].error = "max_attempts" /\ row[e].attempts = MaxAttempts
  BY DEF IInv, DeliveredWasAccepted, FailureIsExplained
<1> QED BY <1>1, <1>2, RecordKeepsIInv

\* markDelivered, done or lost.
LEMMA AcknowledgementKeepsIInv ==
  ASSUME IInv, NEW w \in Workers, MarkDelivered(w) \/ AcknowledgementLost(w)
  PROVE  IInv'
<1> DEFINE e == worker[w].event
<1>1. /\ worker[w].phase = "replied" /\ worker[w].reply = "accepted" /\ Free(e)
      /\ UNCHANGED answers
      /\ Acknowledge(e) \/ UNCHANGED row
      /\ \/ worker' = [worker EXCEPT ![w] = Idle]
         \/ worker' = [worker EXCEPT ![w].reply = "temporary"]
  BY DEF MarkDelivered, AcknowledgementLost, Become
<1>2. e \in Events /\ row[e] \in Row /\ Acknowledged(row[e]) \in Row
  BY <1>1, WorkerFields, RowTypes DEF IInv, AtWork, TypeOK
<1>3. \E a \in answers : a.event = e /\ a.reply = "accepted"
  BY <1>1 DEF IInv, RepliesWereGiven
<1> HIDE DEF e
<1>4. CASE UNCHANGED row
  BY <1>1, <1>2, <1>4, LeaveRowKeepsIInv
<1>5. CASE row' = [row EXCEPT ![e] = Acknowledged(row[e])]
  <2>1. /\ Acknowledged(row[e]).status = "delivered"
        /\ Acknowledged(row[e]).attempts = row[e].attempts
    BY <1>2 DEF Acknowledged, Row
  <2> QED BY <1>1, <1>2, <1>3, <1>5, <2>1, RecordKeepsIInv
<1> QED BY <1>1, <1>4, <1>5 DEF Acknowledge

\* markFailed.
LEMMA MarkFailedKeepsIInv ==
  ASSUME IInv, NEW w \in Workers, MarkFailed(w)
  PROVE  IInv'
<1> DEFINE e == worker[w].event
           r == Refused(row[e], worker[w].reply)
<1>1. /\ worker[w].phase = "replied" /\ worker[w].reply # "accepted" /\ Free(e)
      /\ UNCHANGED answers
      /\ \/ row' = [row EXCEPT ![e] = r]
         \/ UNCHANGED row
      /\ worker' = [worker EXCEPT ![w] = Idle]
  BY DEF MarkFailed, Become
<1>2. e \in Events /\ row[e] \in Row /\ worker[w].reply \in {"temporary", "permanent"} /\ r \in Row
  <2>1. e \in Events /\ row[e] \in Row /\ worker[w].reply \in Replies
    BY <1>1, WorkerFields DEF IInv, AtWork, TypeOK
  <2> QED BY <1>1, <2>1, RowTypes DEF Replies
<1>3. worker[w].reply = "permanent" => \E a \in answers : a.event = e /\ a.reply = "permanent"
  BY <1>1 DEF IInv, RepliesWereGiven
<1>4. /\ r.attempts = row[e].attempts
      /\ r.status \in {"pending", "failed"}
      /\ r.status = "failed" =>
           \/ r.error = "permanent" /\ worker[w].reply = "permanent"
           \/ r.error = "max_attempts" /\ r.attempts = MaxAttempts
  BY <1>2, MaxAttemptsAssumption DEF Refused, Row
<1> HIDE DEF e, r
<1>5. CASE UNCHANGED row
  BY <1>1, <1>2, <1>5, LeaveRowKeepsIInv
<1>6. CASE row' = [row EXCEPT ![e] = r]
  BY <1>1, <1>2, <1>3, <1>4, <1>6, RecordKeepsIInv
<1> QED BY <1>1, <1>5, <1>6

\* A worker that dies takes its open claim with it and leaves the rows alone.
LEMMA CrashKeepsIInv ==
  ASSUME IInv, NEW w \in Workers, Crash(w) \/ Restart(w)
  PROVE  IInv'
<1> USE DEF IInv
<1>1. UNCHANGED <<row, answers>> /\ Due' = Due /\ Exhausted' = Exhausted
  BY DEF Crash, Restart, Due, Exhausted
<1>2. /\ worker'[w] \in {Idle, Down}
      /\ \A v \in Workers : v # w => worker'[v] = worker[v]
      /\ worker' = [worker EXCEPT ![w] = worker'[w]]
  BY DEF Crash, Restart, Become, TypeOK
<1>3. \A v \in Workers : worker'[v].phase \in {"claiming", "sending", "replied"} =>
        v # w /\ worker'[v] = worker[v]
  BY <1>2 DEF Idle, Down
<1>4. TypeOK'
  BY <1>1, <1>2 DEF TypeOK
<1>5. ClaimsAreCurrent'
  BY <1>1, <1>3 DEF ClaimsAreCurrent
<1>6. ClaimsAreApart'
  <2>1. \A v \in Workers : Locked(v)' \subseteq Locked(v)
    BY <1>3 DEF Locked
  <2> QED BY <2>1 DEF ClaimsAreApart
<1>7. AttemptsAreCounted' /\ AttemptsArePrivate'
  BY <1>1, <1>3 DEF AttemptsAreCounted, AttemptsArePrivate, AtWork
<1>8. SendsAreNew' /\ RepliesWereGiven'
  BY <1>1, <1>3 DEF SendsAreNew, RepliesWereGiven
<1>9. DeliveredWasAccepted' /\ FailureIsExplained'
  BY <1>1 DEF DeliveredWasAccepted, FailureIsExplained
<1> QED BY <1>4, <1>5, <1>6, <1>7, <1>8, <1>9

LEMMA NextKeepsIInv == IInv /\ [Next]_vars => IInv'
<1> SUFFICES ASSUME IInv, [Next]_vars PROVE IInv'
  OBVIOUS
<1>1. CASE \E e \in Events : Enqueue(e) \/ Lapse(e)
  BY <1>1, SurroundingsKeepIInv
<1>2. ASSUME NEW w \in Workers, Round(w) \/ AcknowledgementLost(w) \/ Crash(w) \/ Restart(w)
      PROVE  IInv'
  <2>1. CASE Pick(w)
    BY <2>1, PickKeepsIInv
  <2>2. CASE Claim(w)
    BY <2>2, ClaimKeepsIInv
  <2>3. CASE Deliver(w)
    BY <2>3, DeliverKeepsIInv
  <2>4. CASE MarkDelivered(w) \/ AcknowledgementLost(w)
    BY <2>4, AcknowledgementKeepsIInv
  <2>5. CASE MarkFailed(w)
    BY <2>5, MarkFailedKeepsIInv
  <2>6. CASE Crash(w) \/ Restart(w)
    BY <2>6, CrashKeepsIInv
  <2> QED BY <1>2, <2>1, <2>2, <2>3, <2>4, <2>5, <2>6 DEF Round
<1>3. CASE UNCHANGED vars
  BY <1>3 DEF vars, IInv, TypeOK, ClaimsAreCurrent, ClaimsAreApart, Locked, Due, Exhausted,
      AttemptsAreCounted, AttemptsArePrivate, AtWork, SendsAreNew, RepliesWereGiven,
      DeliveredWasAccepted, FailureIsExplained
<1> QED BY <1>1, <1>2, <1>3 DEF Next

\* The invariant holds in every reachable state.
LEMMA Invariance == Spec => []IInv
  BY InitIInv, NextKeepsIInv, PTL DEF Spec

-----------------------------------------------------------------------------
(* Theorems *)

\* Rows, rounds and answers have their types: in particular attempts stay
\* within maxAttempts, as the CHECK of booking_outbox and mapRow demand.
THEOREM OutboxTypeCorrectness == Spec => []TypeOK
<1>1. IInv => TypeOK
  BY DEF IInv
<1> QED BY <1>1, Invariance, PTL

\* No event is marked delivered that the receiver has not accepted.
THEOREM NoFalseDelivery == Spec => []DeliveredWasAccepted
<1>1. IInv => DeliveredWasAccepted
  BY DEF IInv
<1> QED BY <1>1, Invariance, PTL

\* No event is abandoned before its last attempt unless the receiver said so.
THEOREM NoEarlyFailure == Spec => []FailureIsExplained
<1>1. IInv => FailureIsExplained
  BY DEF IInv
<1> QED BY <1>1, Invariance, PTL

\* The receiver is called at most once per counted attempt.
THEOREM OneCallPerAttempt == Spec => []NoAttemptIsSentTwice
<1>1. ASSUME IInv PROVE NoAttemptIsSentTwice
  <2> SUFFICES ASSUME NEW w \in Workers, NEW e \in Events, NEW n \in Attempts, Sending(w, e, n)
               PROVE  /\ \A a \in answers : ~(a.event = e /\ a.attempt = n)
                      /\ \A v \in Workers : Sending(v, e, n) => v = w
    BY DEF NoAttemptIsSentTwice
  <2>1. \A a \in answers : ~(a.event = e /\ a.attempt = n)
    BY <1>1 DEF IInv, SendsAreNew, Sending
  <2>2. \A v \in Workers : Sending(v, e, n) => v = w
    BY <1>1 DEF IInv, AttemptsArePrivate, AtWork, Sending
  <2> QED BY <2>1, <2>2
<1> QED BY <1>1, Invariance, PTL

-----------------------------------------------------------------------------
(* Action properties *)

\* What a step may do to one event's row: nothing, or one of the writes, each
\* under the guard that keeps it from undoing somebody else's.
LEMMA RowSteps ==
  ASSUME IInv, [Next]_vars, NEW e \in Events
  PROVE  \/ row'[e] = row[e]
         \/ row[e].status = "absent"
         \/ row[e].status = "pending"
         \/ /\ row[e].status = "processing"
            /\ \/ row[e].lapsed
               \/ row'[e] = [row[e] EXCEPT !.lapsed = TRUE]
               \/ row'[e].status = "delivered"
               \/ \E w \in Workers : AtWork(w) /\ worker[w].event = e /\ StillMine(w)
                                     /\ worker'[w] = Idle
<1> DEFINE Allowed ==
      \/ row'[e] = row[e]
      \/ row[e].status = "absent"
      \/ row[e].status = "pending"
      \/ /\ row[e].status = "processing"
         /\ \/ row[e].lapsed
            \/ row'[e] = [row[e] EXCEPT !.lapsed = TRUE]
            \/ row'[e].status = "delivered"
            \/ \E w \in Workers : AtWork(w) /\ worker[w].event = e /\ StillMine(w)
                                  /\ worker'[w] = Idle
<1> SUFFICES Allowed
  OBVIOUS
<1>1. TypeOK /\ row[e] \in Row
  BY DEF IInv, TypeOK
<1>2. ASSUME NEW f \in Events, Enqueue(f) \/ Lapse(f) PROVE Allowed
  BY <1>1, <1>2 DEF Enqueue, Lapse, TypeOK
<1>3. ASSUME NEW w \in Workers, Claim(w) PROVE Allowed
  <2>1. e = worker[w].event => e \in Due
    BY <1>3, NoneIsNoEvent DEF IInv, ClaimsAreCurrent, Claim
  <2>2. e \in worker[w].exhausted => e \in Exhausted
    BY <1>3 DEF IInv, ClaimsAreCurrent, Claim
  <2>3. e # worker[w].event /\ e \notin worker[w].exhausted => row'[e] = row[e]
    BY <1>3 DEF Claim
  <2> QED BY <2>1, <2>2, <2>3 DEF Due, Exhausted
<1>4. ASSUME NEW w \in Workers, MarkDelivered(w) \/ AcknowledgementLost(w) PROVE Allowed
  <2>1. worker[w].event \in Events
    BY <1>1, <1>4, WorkerFields DEF MarkDelivered, AcknowledgementLost, AtWork
  <2>2. Acknowledge(worker[w].event) \/ UNCHANGED row
    BY <1>4 DEF MarkDelivered, AcknowledgementLost
  <2>3. Acknowledged(row[e]).status = "delivered"
    BY <1>1 DEF Acknowledged, Row
  <2> QED BY <1>1, <2>1, <2>2, <2>3 DEF Acknowledge, TypeOK
<1>5. ASSUME NEW w \in Workers, MarkFailed(w) PROVE Allowed
  <2>1. AtWork(w) /\ worker[w].event \in Events /\ worker'[w] = Idle
    BY <1>1, <1>5, WorkerFields DEF MarkFailed, AtWork, Become, TypeOK
  <2>2. CASE e = worker[w].event /\ StillMine(w)
    BY <2>1, <2>2 DEF StillMine
  <2>3. CASE e # worker[w].event \/ ~StillMine(w)
    BY <1>1, <1>5, <2>1, <2>3 DEF MarkFailed, TypeOK
  <2> QED BY <2>2, <2>3
<1>6. ASSUME NEW w \in Workers, Pick(w) \/ Deliver(w) \/ Crash(w) \/ Restart(w) PROVE Allowed
  BY <1>6 DEF Pick, Deliver, Crash, Restart
<1>7. CASE UNCHANGED vars
  BY <1>7 DEF vars
<1> QED BY <1>2, <1>3, <1>4, <1>5, <1>6, <1>7 DEF Next, Round

\* A delivered or failed event is never written again.
THEOREM SettledEventsStay == Spec => SettledIsFinal
<1>1. ASSUME IInv, [Next]_vars PROVE \A e \in Events : Settled(e) => row'[e] = row[e]
  BY <1>1, RowSteps DEF Settled
<1>2. IInv /\ [Next]_vars => [\A e \in Events : Settled(e) => row'[e] = row[e]]_vars
  BY <1>1
<1> QED BY <1>2, Invariance, PTL DEF Spec, SettledIsFinal

\* The fence of markFailed protects the worker that has taken an event over.
THEOREM TakeoversAreSafe == Spec => LateFailuresAreIgnored
<1> DEFINE Fenced ==
      \A w \in Workers, e \in Events :
        Holds(w, e) /\ worker'[w] = worker[w] =>
          \/ row'[e] = [row[e] EXCEPT !.lapsed = row'[e].lapsed]
          \/ row'[e].status = "delivered"
<1>1. ASSUME IInv, [Next]_vars PROVE Fenced
  <2> SUFFICES ASSUME NEW w \in Workers, NEW e \in Events, Holds(w, e), worker'[w] = worker[w]
               PROVE  \/ row'[e] = [row[e] EXCEPT !.lapsed = row'[e].lapsed]
                      \/ row'[e].status = "delivered"
    OBVIOUS
  <2>1. row[e] \in Row /\ row[e].status = "processing" /\ ~row[e].lapsed
    BY <1>1 DEF IInv, TypeOK, Holds
  <2>2. \A v \in Workers : AtWork(v) /\ worker[v].event = e /\ StillMine(v) => v = w
    BY <1>1 DEF IInv, AttemptsArePrivate, Holds, AtWork, StillMine
  <2>3. worker'[w] # Idle
    BY DEF Holds, Idle
  <2>4. \/ row'[e] = row[e]
        \/ row'[e] = [row[e] EXCEPT !.lapsed = TRUE]
        \/ row'[e].status = "delivered"
    BY <1>1, <2>1, <2>2, <2>3, RowSteps
  <2>5. row'[e] = row[e] => row'[e] = [row[e] EXCEPT !.lapsed = row'[e].lapsed]
    BY <2>1 DEF Row
  <2>6. row'[e] = [row[e] EXCEPT !.lapsed = TRUE] =>
          row'[e] = [row[e] EXCEPT !.lapsed = row'[e].lapsed]
    BY <2>1 DEF Row
  <2> QED BY <2>4, <2>5, <2>6
<1>2. IInv /\ [Next]_vars => [Fenced]_vars
  BY <1>1
<1> QED BY <1>2, Invariance, PTL DEF Spec, LateFailuresAreIgnored

=============================================================================
