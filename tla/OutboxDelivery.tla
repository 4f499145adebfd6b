--------------------------- MODULE OutboxDelivery ---------------------------
(***************************************************************************)
(* Workers that hand the events of booking_outbox to a receiver.           *)
(*                                                                         *)
(* A round of deliverPending is four steps, each of which another worker   *)
(* or a crash can come between:                                            *)
(*                                                                         *)
(*   pick an event (and the claims that are out of attempts), row locked;  *)
(*   commit the claim, which counts the attempt and starts a lease;        *)
(*   call the receiver, outside of any transaction;                        *)
(*   acknowledge the answer in a transaction of its own.                   *)
(*                                                                         *)
(* A lease says when an event may be claimed again.  It stops nobody: the  *)
(* worker it belonged to can still be calling the receiver.                *)
(***************************************************************************)
EXTENDS Integers

CONSTANTS
  Events,        \* outbox rows, numbered in the order created_at, outbox_id
  Workers,       \* callers of deliverPending
  MaxAttempts    \* option maxAttempts

ASSUME EventsAssumption == Events \subseteq Nat
ASSUME MaxAttemptsAssumption == MaxAttempts \in Nat \ {0}

VARIABLES
  row,           \* the delivery columns of each event
  worker,        \* the round each worker is in
  answers        \* history: what the receiver answered to which attempt

vars == <<row, worker, answers>>

-----------------------------------------------------------------------------
(* State *)

Attempts == 1..MaxAttempts

\* lapsed: locked_at is processingTimeoutMs or more in the past.
Row == [status: {"absent", "pending", "processing", "delivered", "failed"},
        attempts: 0..MaxAttempts, lapsed: BOOLEAN,
        error: {"none", "temporary", "permanent", "max_attempts"}]

\* No event.
None == -1

\* "accepted" is a promise that resolved, the others one that was rejected: an
\* error that is no OutboxDeliveryError counts as temporary.
Replies == {"accepted", "temporary", "permanent"}

Answer == [event: Events, attempt: Attempts, reply: Replies]

Idle == [phase |-> "idle"]
Down == [phase |-> "down"]

\* claiming: inside the claim's transaction, with the rows it has locked;
\* sending: about to call the receiver; replied: about to write the reply.
Claiming == [phase: {"claiming"}, event: Events \cup {None}, exhausted: SUBSET Events]
Delivering == [phase: {"sending"}, event: Events, attempt: Attempts]
                \cup [phase: {"replied"}, event: Events, attempt: Attempts, reply: Replies]

TypeOK ==
  /\ row \in [Events -> Row]
  /\ worker \in [Workers -> {Idle, Down} \cup Claiming \cup Delivering]
  /\ answers \subseteq Answer

Init ==
  /\ row = [e \in Events |->
              [status |-> "absent", attempts |-> 0, lapsed |-> FALSE, error |-> "none"]]
  /\ worker = [w \in Workers |-> Idle]
  /\ answers = {}

\* The row locks of an open claim.
Locked(w) ==
  IF worker[w].phase = "claiming" THEN worker[w].exhausted \cup ({worker[w].event} \ {None})
  ELSE {}

Free(e) == \A w \in Workers : e \notin Locked(w)

Become(w, state) == worker' = [worker EXCEPT ![w] = state]

-----------------------------------------------------------------------------
(* Around the workers *)

\* A booking transaction commits its event.
Enqueue(e) ==
  /\ row[e].status = "absent"
  /\ row' = [row EXCEPT ![e].status = "pending"]
  /\ UNCHANGED <<worker, answers>>

\* Time passes, and a lease runs out.
Lapse(e) ==
  /\ row[e].status = "processing" /\ ~row[e].lapsed
  /\ row' = [row EXCEPT ![e].lapsed = TRUE]
  /\ UNCHANGED <<worker, answers>>

-----------------------------------------------------------------------------
(* A round *)

\* Mutation: claims that are out of attempts are not cleared.
ExhaustedNever == {}

\* Mutation: any claim is given up as soon as its lease runs out.
ExhaustedTooSoon == {e \in Events : row[e].status = "processing" /\ row[e].lapsed}

\* A claim whose lease ran out and which was the last one allowed.
Exhausted ==
  {e \in Events : row[e].status = "processing" /\ row[e].attempts >= MaxAttempts /\ row[e].lapsed}

\* An event that is due.  A pending event always is: available_at is a reading
\* of the clock from before it was written.
Due ==
  {e \in Events : /\ row[e].attempts < MaxAttempts
                  /\ \/ row[e].status = "pending"
                     \/ row[e].status = "processing" /\ row[e].lapsed}

\* ORDER BY created_at, outbox_id LIMIT 1.
OldestOf(e, S) == IF S = {} THEN e = None ELSE e \in S /\ \A f \in S : e <= f

\* The UPDATE of exhausted claims waits for rows that another claim has
\* locked; the SELECT of the oldest due event skips them.
Pick(w) ==
  /\ worker[w] = Idle
  /\ \A e \in Exhausted : Free(e)
  /\ \E e \in Events \cup {None} :
       /\ OldestOf(e, {f \in Due : Free(f)})
       /\ Become(w, [phase |-> "claiming", event |-> e, exhausted |-> Exhausted])
  /\ UNCHANGED <<row, answers>>

\* Mutation: the attempt is counted when it fails, not when it starts.
ClaimedUncounted(r) == [r EXCEPT !.status = "processing", !.lapsed = FALSE]

\* Mutation: the event is acknowledged with the claim, before it is sent.
ClaimedAsDelivered(r) == [r EXCEPT !.status = "delivered", !.attempts = @ + 1, !.lapsed = FALSE]

\* Claiming counts the attempt and starts a new lease.
Claimed(r) == [r EXCEPT !.status = "processing", !.attempts = @ + 1, !.lapsed = FALSE]

GivenUp(r) == [r EXCEPT !.status = "failed", !.lapsed = FALSE, !.error = "max_attempts"]

\* COMMIT of the claim.  Without an event the round ends.
Claim(w) ==
  /\ worker[w].phase = "claiming"
  /\ LET c == worker[w]
     IN  /\ row' = [e \in Events |-> IF e = c.event THEN Claimed(row[e])
                                     ELSE IF e \in c.exhausted THEN GivenUp(row[e])
                                     ELSE row[e]]
         /\ Become(w, IF c.event = None THEN Idle
                      ELSE [phase |-> "sending", event |-> c.event,
                            attempt |-> row[c.event].attempts + 1])
  /\ UNCHANGED answers

\* The receiver is called and answers.
Deliver(w) ==
  /\ worker[w].phase = "sending"
  /\ \E reply \in Replies :
       /\ answers' = answers \cup
            {[event |-> worker[w].event, attempt |-> worker[w].attempt, reply |-> reply]}
       /\ Become(w, [phase |-> "replied", event |-> worker[w].event,
                     attempt |-> worker[w].attempt, reply |-> reply])
  /\ UNCHANGED row

\* Row r with the delivery acknowledged.
Acknowledged(r) == [r EXCEPT !.status = "delivered", !.lapsed = FALSE, !.error = "none"]

\* Mutation: the acknowledgement does not look at the status.
AcknowledgeAnyway(e) == row' = [row EXCEPT ![e] = Acknowledged(@)]

\* The write of markDelivered.  It does not ask whose claim the row is under.
Acknowledge(e) ==
  IF row[e].status = "processing" THEN row' = [row EXCEPT ![e] = Acknowledged(@)]
  ELSE UNCHANGED row

\* markDelivered of an accepted event.
MarkDelivered(w) ==
  LET e == worker[w].event
  IN  /\ worker[w].phase = "replied" /\ worker[w].reply = "accepted" /\ Free(e)
      /\ row[e].status = "processing"
      /\ Acknowledge(e)
      /\ Become(w, Idle)
      /\ UNCHANGED answers

\* markDelivered throws inside the try block, so the event goes on as a
\* temporary failure: the row is not under a claim any more, or the database
\* failed, before its COMMIT took effect or after it.
AcknowledgementLost(w) ==
  LET e == worker[w].event
  IN  /\ worker[w].phase = "replied" /\ worker[w].reply = "accepted" /\ Free(e)
      /\ \/ Acknowledge(e)
         \/ UNCHANGED row
      /\ worker' = [worker EXCEPT ![w].reply = "temporary"]
      /\ UNCHANGED answers

\* Row r after its attempt failed: over if the receiver said so or it was the
\* last attempt, else due again at once.
Refused(r, reply) ==
  IF reply = "permanent" \/ r.attempts >= MaxAttempts
  THEN [r EXCEPT !.status = "failed", !.lapsed = FALSE,
                 !.error = IF reply = "permanent" THEN "permanent" ELSE "max_attempts"]
  ELSE [r EXCEPT !.status = "pending", !.lapsed = FALSE, !.error = "temporary"]

\* Mutation: the failure is not fenced by the attempt.
MineIfProcessing(w) == row[worker[w].event].status = "processing"

\* The claim is still the one under which the worker made its attempt.
StillMine(w) ==
  LET r == row[worker[w].event]
  IN  r.status = "processing" /\ r.attempts = worker[w].attempt

\* markFailed.  A claim that was taken over is left alone, and the round ends
\* with an exception.
MarkFailed(w) ==
  LET e == worker[w].event
  IN  /\ worker[w].phase = "replied" /\ worker[w].reply # "accepted" /\ Free(e)
      /\ row' = IF StillMine(w) THEN [row EXCEPT ![e] = Refused(@, worker[w].reply)] ELSE row
      /\ Become(w, Idle)
      /\ UNCHANGED answers

\* The process dies.  An open claim is rolled back.
Crash(w) ==
  /\ worker[w] # Down
  /\ Become(w, Down)
  /\ UNCHANGED <<row, answers>>

Restart(w) ==
  /\ worker[w] = Down
  /\ Become(w, Idle)
  /\ UNCHANGED <<row, answers>>

-----------------------------------------------------------------------------
(* Specification *)

Round(w) == Pick(w) \/ Claim(w) \/ Deliver(w) \/ MarkDelivered(w) \/ MarkFailed(w)

Next ==
  \/ \E e \in Events : Enqueue(e) \/ Lapse(e)
  \/ \E w \in Workers : Round(w) \/ AcknowledgementLost(w) \/ Crash(w) \/ Restart(w)

Spec == Init /\ [][Next]_vars

\* The deployment keeps calling deliverPending, the receiver answers or its
\* call fails, and leases run out.
FairSpec ==
  /\ Spec
  /\ \A w \in Workers : WF_vars(Round(w) \/ AcknowledgementLost(w))
  /\ \A e \in Events : WF_vars(Lapse(e))

-----------------------------------------------------------------------------
(* Properties *)

\* An event that is marked delivered was accepted by the receiver, if not by
\* the attempt that is counted last: markDelivered (outbox.ts:264) takes the
\* word of a worker whose lease is over.
DeliveredWasAccepted ==
  \A e \in Events : row[e].status = "delivered" =>
    \E a \in answers : a.event = e /\ a.reply = "accepted"

\* An event is abandoned for one of two reasons, the one its row gives: the
\* receiver refused it for good, or every attempt was used.
FailureIsExplained ==
  \A e \in Events : row[e].status = "failed" =>
    \/ /\ row[e].error = "permanent"
       /\ \E a \in answers : a.event = e /\ a.reply = "permanent"
    \/ row[e].error = "max_attempts" /\ row[e].attempts = MaxAttempts

\* Worker w has not yet called the receiver for attempt n of event e.
Sending(w, e, n) ==
  worker[w].phase = "sending" /\ worker[w].event = e /\ worker[w].attempt = n

\* The receiver is called once per counted attempt, so never more often than
\* maxAttempts for an event, however workers crash, stall and take over: no
\* worker is about to make an attempt that another one is making or has made.
NoAttemptIsSentTwice ==
  \A w \in Workers, e \in Events, n \in Attempts : Sending(w, e, n) =>
    /\ \A a \in answers : ~(a.event = e /\ a.attempt = n)
    /\ \A v \in Workers : Sending(v, e, n) => v = w

\* Worker w is at work on the attempt under which event e is claimed.
Holds(w, e) ==
  /\ worker[w].phase \in {"sending", "replied"}
  /\ worker[w].event = e
  /\ worker[w].attempt = row[e].attempts
  /\ row[e].status = "processing" /\ ~row[e].lapsed

\* While its lease runs, a claim ends by a step of its own worker, or because
\* an earlier attempt turned out to be accepted: a slow worker that reports a
\* failure late never takes the event from the worker that has taken over.
LateFailuresAreIgnored ==
  [][\A w \in Workers, e \in Events :
       Holds(w, e) /\ worker'[w] = worker[w] =>
         \/ row'[e] = [row[e] EXCEPT !.lapsed = row'[e].lapsed]
         \/ row'[e].status = "delivered"]_vars

Settled(e) == row[e].status \in {"delivered", "failed"}

\* A delivered or failed event is never claimed or written again, whatever the
\* workers that still have attempts of it in flight report.
SettledIsFinal == [][\A e \in Events : Settled(e) => row'[e] = row[e]]_vars

\* Every event is delivered or given up in the end, those of workers that died
\* at work included, if one worker stays up and no other keeps dying.
EveryEventSettles ==
  LET Up(w) == <>[](worker[w] # Down)
      Gone(w) == <>[](worker[w] = Down)
  IN  (\A w \in Workers : Up(w) \/ Gone(w)) /\ (\E w \in Workers : Up(w)) =>
        \A e \in Events : row[e].status = "pending" ~> Settled(e)

=============================================================================
