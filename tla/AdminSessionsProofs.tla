------------------------- MODULE AdminSessionsProofs -------------------------
(***************************************************************************)
(* Theorems about the sessions of the admin API, for any number of         *)
(* requests in progress, any clocks, and any capacity.                     *)
(*                                                                         *)
(* That a session that has ended stays so follows from what its row is     *)
(* like, whoever writes rows later.  That sessions are bounded needs an    *)
(* argument about the order in which overlapping logins trim: see Counted. *)
(***************************************************************************)
EXTENDS AdminSessions, FiniteSetTheorems, TLAPS

-----------------------------------------------------------------------------
(* Types *)

\* The tokens of cookies and fields were drawn, or there are none.
LEMMA TokensSent ==
  ASSUME TypeOK
  PROVE  /\ Cookies \subseteq drawn \cup {NoToken}
         /\ Presented \subseteq drawn
<1>1. \A v \in {<<>>} \cup {<<t>> : t \in drawn} \cup (drawn \X drawn) :
        ParsedCookie(v) \in drawn \cup {NoToken}
  BY DEF ParsedCookie
<1>2. Cookies \subseteq drawn \cup {NoToken}
  BY <1>1 DEF Cookies
<1> QED BY <1>2 DEF Presented

\* Routes are of one of the kinds.
LEMMA KindsOfRoutes ==
  Kinds \subseteq {"logout", "view", "read", "mutate", "decide", "refused"}
  BY DEF Kinds, KindOf

\* Clocks show natural numbers.
LEMMA Clocks ==
  ASSUME TypeOK, NEW h \in Handlers
  PROVE  Clock(h) \in Nat /\ Clock(h) + Ttl \in Nat
  BY AdminSessionsAssumption DEF TypeOK, Clock

\* A request that ends is idle.
LEMMA Ended ==
  ASSUME TypeOK, NEW h \in Handlers, Ends(h)
  PROVE  /\ handler' \in [Handlers -> Request]
         /\ handler' = [handler EXCEPT ![h] = Idle] /\ ~At(h, "act")' /\ ~At(h, "trimming")'
<1>1. Idle \in Request
  BY DEF Idle, Request, Phases
<1> QED BY <1>1 DEF Ends, TypeOK, At, Idle

\* Revoking keeps the rows rows, and makes none live.
LEMMA Revoked ==
  ASSUME TypeOK, NEW t \in Tokens, Revoke(t)
  PROVE  /\ session' \in [Tokens -> Row] /\ ended' \subseteq Tokens
         /\ \A u \in Tokens :
              /\ session'[u].there = session[u].there /\ session'[u].seen = session[u].seen
              /\ ~session'[u].revoked => ~session[u].revoked
         /\ session'[t].there => session'[t].revoked
<1>1. session[t] \in Row
  BY DEF TypeOK
<1> DEFINE b == session[t].revoked \/ session[t].there
<1>2. /\ b \in BOOLEAN /\ (~b => ~session[t].revoked)
      /\ session[t].there => b
  OBVIOUS
<1>3. session' = [session EXCEPT ![t].revoked = b]
  BY DEF Revoke
<1> HIDE DEF b
<1>4. session'[t] = [session[t] EXCEPT !.revoked = b]
  BY <1>3 DEF TypeOK
<1>5. /\ session'[t] \in Row /\ session'[t].there = session[t].there
      /\ session'[t].seen = session[t].seen /\ session'[t].revoked = b
  BY <1>1, <1>2, <1>4 DEF Row
<1>6. \A u \in Tokens : u # t => session'[u] = session[u]
  BY <1>3 DEF TypeOK
<1>7. session' = [session EXCEPT ![t] = session'[t]]
  BY <1>3, <1>4 DEF TypeOK
<1>8. ended' \subseteq Tokens
  BY DEF Revoke, TypeOK
<1> QED BY <1>2, <1>5, <1>6, <1>7, <1>8 DEF TypeOK

\* The next phase of a request is one, with the instant and the rows it may have.
LEMMA Proceeds ==
  ASSUME TypeOK, NEW h \in Handlers, NEW phase \in Phases, NEW at \in Nat, NEW want \in SUBSET Tokens
  PROVE  /\ [handler EXCEPT ![h].phase = phase] \in [Handlers -> Request]
         /\ [handler EXCEPT ![h].phase = phase, ![h].at = at] \in [Handlers -> Request]
         /\ [handler EXCEPT ![h].phase = phase, ![h].want = want] \in [Handlers -> Request]
<1>1. handler[h] \in Request
  BY DEF TypeOK
<1>2. /\ [handler[h] EXCEPT !.phase = phase] \in Request
      /\ [handler[h] EXCEPT !.phase = phase, !.at = at] \in Request
      /\ [handler[h] EXCEPT !.phase = phase, !.want = want] \in Request
  BY <1>1 DEF Request
<1>3. \A r \in Request : [handler EXCEPT ![h] = r] \in [Handlers -> Request]
  BY DEF TypeOK
<1>4. /\ [handler EXCEPT ![h].phase = phase] = [handler EXCEPT ![h] = [handler[h] EXCEPT !.phase = phase]]
      /\ [handler EXCEPT ![h].phase = phase, ![h].at = at]
           = [handler EXCEPT ![h] = [handler[h] EXCEPT !.phase = phase, !.at = at]]
      /\ [handler EXCEPT ![h].phase = phase, ![h].want = want]
           = [handler EXCEPT ![h] = [handler[h] EXCEPT !.phase = phase, !.want = want]]
  BY DEF TypeOK
<1> HIDE DEF Request
<1> QED BY <1>2, <1>3, <1>4

\* The initial state is typed.
LEMMA InitTyped == Init => TypeOK
<1>1. Idle \in Request /\ NoRow \in Row
  BY DEF Idle, Request, Phases, NoRow, Row
<1>2. IsFiniteSet({})
  BY FS_EmptySet
<1> QED BY <1>1, <1>2, AdminSessionsAssumption DEF Init, TypeOK

\* Every step is.
LEMMA StepTyped == TypeOK /\ [Next]_vars => TypeOK'
<1> SUFFICES ASSUME TypeOK, [Next]_vars PROVE TypeOK'
  OBVIOUS
<1> USE DEF TypeOK
<1>1. CASE UNCHANGED vars
  BY <1>1 DEF vars
<1>2. CASE Tick
  BY <1>2, AdminSessionsAssumption DEF Tick
<1>3. CASE RevokeMembership
  BY <1>3 DEF RevokeMembership
<1>4. ASSUME NEW h \in Handlers, Fails(h) PROVE TypeOK'
  BY <1>4, Ended DEF Fails
<1>5. ASSUME NEW h \in Handlers, Authenticate(h) PROVE TypeOK'
  <2>1. PICK cookie \in Cookies :
          handler' = [handler EXCEPT ![h] =
            [Idle EXCEPT !.phase = "rotate", !.kind = "login", !.cookie = cookie]]
    BY <1>5 DEF Authenticate
  <2>2. [Idle EXCEPT !.phase = "rotate", !.kind = "login", !.cookie = cookie] \in Request
    BY TokensSent DEF Idle, Request, Phases
  <2> QED BY <1>5, <2>1, <2>2 DEF Authenticate
<1>6. ASSUME NEW h \in Handlers, Rotate(h) PROVE TypeOK'
  <2>1. handler[h].cookie \in Tokens \cup {NoToken} /\ handler[h] \in Request
    BY DEF Request
  <2>2. session' \in [Tokens -> Row] /\ ended' \subseteq Tokens
    BY <1>6, <2>1, Revoked DEF Rotate
  <2>3. handler' \in [Handlers -> Request]
    BY <1>6, <2>1 DEF Rotate, Request, Phases
  <2> QED BY <1>6, <2>2, <2>3 DEF Rotate
<1>7. ASSUME NEW h \in Handlers, Create(h) PROVE TypeOK'
  <2>1. CASE Active
    <3>1. handler' \in [Handlers -> Request]
      <4>1. "purge" \in Phases /\ Clock(h) \in Nat /\ {} \in SUBSET Tokens
        BY Clocks DEF Phases
      <4>2. handler' = [handler EXCEPT ![h].phase = "purge", ![h].at = Clock(h)]
        BY <1>7, <2>1 DEF Create
      <4>3. [handler EXCEPT ![h].phase = "purge", ![h].at = Clock(h)] \in [Handlers -> Request]
        BY <4>1, Proceeds
      <4> QED BY <4>2, <4>3
    <3> QED BY <1>7, <2>1, <3>1 DEF Create
  <2>2. CASE ~Active
    BY <1>7, <2>2, Ended DEF Create
  <2> QED BY <2>1, <2>2
<1>8. ASSUME NEW h \in Handlers, Purge(h) \/ Trim(h) PROVE TypeOK'
  <2>1. CASE Purge(h)
    <3> DEFINE W == {t \in Seen(h) : session[t].revoked \/ session[t].expires <= handler[h].at}
    <3>0. "purging" \in Phases /\ W \in SUBSET Tokens
      BY DEF Phases, Seen
    <3>1. handler' \in [Handlers -> Request]
      BY <2>1, <3>0, Proceeds DEF Purge
    <3> QED BY <2>1, <3>1 DEF Purge
  <2>2. CASE Trim(h)
    <3>1. PICK V \in Beyond({t \in Seen(h) : ~session[t].revoked}, MaxSessions - 1) :
            handler' = [handler EXCEPT ![h].phase = "trimming", ![h].want = V]
      BY <2>2 DEF Trim
    <3>2. V \in SUBSET Tokens /\ "trimming" \in Phases
      BY <3>1 DEF Beyond, Seen, Phases
    <3>3. handler' \in [Handlers -> Request]
      BY <3>1, <3>2, Proceeds
    <3> QED BY <2>2, <3>3 DEF Trim
  <2> QED BY <1>8, <2>1, <2>2
<1>9. ASSUME NEW h \in Handlers, DeleteRow(h) PROVE TypeOK'
  <2>1. PICK t \in handler[h].want :
          /\ handler' = [handler EXCEPT ![h].want = @ \ {t}]
          /\ doomed' = [doomed EXCEPT ![h] = IF Exists(t) THEN @ \cup {t} ELSE @]
    BY <1>9 DEF DeleteRow
  <2>2. t \in Tokens
    BY <2>1 DEF Request
  <2>3. handler' \in [Handlers -> Request]
    BY <2>1 DEF Request
  <2>4. doomed' \in [Handlers -> SUBSET Tokens]
    BY <2>1, <2>2
  <2> QED BY <1>9, <2>3, <2>4 DEF DeleteRow
<1>10. ASSUME NEW h \in Handlers, Insert(h) PROVE TypeOK'
  <2>1. PICK t \in Tokens \ drawn :
          /\ session' = [u \in Tokens |-> IF u = t THEN NewRow(handler[h].at)
                                          ELSE IF u \in doomed[h] THEN NoRow ELSE session[u]]
          /\ drawn' = drawn \cup {t}
    BY <1>10 DEF Insert
  <2>2. NewRow(handler[h].at) \in Row /\ NoRow \in Row
    BY AdminSessionsAssumption DEF NewRow, NoRow, Row, Request
  <2>3. session' \in [Tokens -> Row]
    BY <2>1, <2>2
  <2>4. drawn' \subseteq Tokens /\ IsFiniteSet(drawn')
    BY <2>1, FS_AddElement
  <2>5. ended' \subseteq Tokens
    BY <1>10 DEF Insert
  <2> QED BY <1>10, <2>3, <2>4, <2>5, Ended DEF Insert
<1>11. ASSUME NEW h \in Handlers, Get(h) PROVE TypeOK'
  <2>1. PICK t \in Cookies \cap drawn, kind \in Kinds :
          /\ session' = [session EXCEPT ![t].seen = Clock(h)]
          /\ IF ~Allowed(membership, kind) \/ ~Changes(kind)
             THEN UNCHANGED handler
             ELSE \E csrf \in Presented :
                    handler' = [handler EXCEPT ![h] =
                      [Idle EXCEPT !.phase = "csrf", !.kind = kind, !.cookie = t, !.csrf = csrf]]
    BY <1>11 DEF Get
  <2>2. session' \in [Tokens -> Row]
    BY <2>1, Clocks DEF Row
  <2>3. CASE UNCHANGED handler
    BY <1>11, <2>2, <2>3 DEF Get
  <2>4. ASSUME NEW csrf \in Presented,
               handler' = [handler EXCEPT ![h] =
                 [Idle EXCEPT !.phase = "csrf", !.kind = kind, !.cookie = t, !.csrf = csrf]]
        PROVE  TypeOK'
    <3>1. t \in Tokens /\ csrf \in Tokens
           /\ kind \in {"none", "login", "logout", "view", "read", "mutate", "decide", "refused"}
      BY TokensSent, KindsOfRoutes
    <3>2. [Idle EXCEPT !.phase = "csrf", !.kind = kind, !.cookie = t, !.csrf = csrf] \in Request
      BY <3>1 DEF Idle, Request, Phases
    <3>3. handler' \in [Handlers -> Request]
      BY <2>4, <3>2
    <3> QED BY <1>11, <2>2, <3>3 DEF Get
  <2> QED BY <2>1, <2>3, <2>4
<1>12. ASSUME NEW h \in Handlers, VerifyCsrf(h) PROVE TypeOK'
  <2>1. CASE Go(h, "act")
    <3>1. handler' \in [Handlers -> Request]
      <4>1. "act" \in Phases
        BY DEF Phases
      <4> QED BY <2>1, <4>1, Proceeds DEF Go
    <3> QED BY <1>12, <2>1, <3>1 DEF VerifyCsrf
  <2>2. CASE Ends(h)
    BY <1>12, <2>2, Ended DEF VerifyCsrf
  <2> QED BY <1>12, <2>1, <2>2 DEF VerifyCsrf
<1>13. ASSUME NEW h \in Handlers, Act(h) PROVE TypeOK'
  <2>1. session' \in [Tokens -> Row] /\ ended' \subseteq Tokens
    <3>1. CASE handler[h].kind = "logout"
      <4>1. Revoke(handler[h].cookie)
        BY <1>13, <3>1 DEF Act
      <4>2. CASE handler[h].cookie \in Tokens
        BY <4>1, <4>2, Revoked
      <4>3. CASE handler[h].cookie \notin Tokens
        BY <4>1, <4>3 DEF Revoke
      <4> QED BY <4>2, <4>3
    <3>2. CASE handler[h].kind # "logout"
      BY <1>13, <3>2 DEF Act
    <3> QED BY <3>1, <3>2
  <2> QED BY <1>13, <2>1, Ended DEF Act
<1> QED
  BY <1>1, <1>2, <1>3, <1>4, <1>5, <1>6, <1>7, <1>8, <1>9, <1>10, <1>11, <1>12, <1>13
     DEF Next, DeadlockVictim

-----------------------------------------------------------------------------
(* What has ended *)

\* A token that was drawn and lets nobody in, by any clock.
Over(t) == t \in drawn /\ (~Exists(t) \/ session[t].revoked \/ ~Active)

\* Rows are of tokens that were drawn, those about to be deleted too; and what
\* has ended is over.
EndedOver ==
  /\ \A t \in Tokens : Exists(t) => t \in drawn
  /\ \A h \in Handlers : doomed[h] \subseteq drawn
  /\ \A t \in ended : Over(t)

\* Handlers other than the one that takes a step keep their request.
LEMMA OthersKeep ==
  ASSUME TypeOK, NEW h \in Handlers, NEW k \in Handlers \ {h},
         \/ Fails(h) \/ Authenticate(h) \/ Rotate(h) \/ Create(h) \/ Purge(h) \/ Trim(h)
         \/ DeleteRow(h) \/ DeadlockVictim(h) \/ Insert(h)
         \/ Get(h) \/ VerifyCsrf(h) \/ Act(h)
  PROVE  handler'[k] = handler[k] /\ doomed'[k] = doomed[k]
<1> USE DEF TypeOK
<1>1. CASE Fails(h) \/ DeadlockVictim(h)
  BY <1>1 DEF Fails, DeadlockVictim, Ends
<1>2. CASE Authenticate(h) \/ Rotate(h) \/ Create(h)
  BY <1>2 DEF Authenticate, Rotate, Create, Ends
<1>3. CASE Purge(h) \/ Trim(h) \/ DeleteRow(h)
  BY <1>3 DEF Purge, Trim, DeleteRow
<1>4. CASE Insert(h)
  BY <1>4 DEF Insert, Ends
<1>5. CASE Get(h)
  BY <1>5 DEF Get
<1>6. CASE VerifyCsrf(h) \/ Act(h)
  BY <1>6 DEF VerifyCsrf, Act, Ends, Go
<1> QED BY <1>1, <1>2, <1>3, <1>4, <1>5, <1>6

\* A step that writes no row, deletes none and ends no session changes nothing.
LEMMA RowsKept ==
  ASSUME EndedOver, session' = session, drawn' = drawn, membership' = membership,
         ended' = ended, \A h \in Handlers : doomed'[h] \subseteq drawn
  PROVE  EndedOver'
BY DEF EndedOver, Over, Exists, Active

\* A logout, or a login with the cookie of a session, ends that session.
LEMMA RevokedIsOver ==
  ASSUME TypeOK, EndedOver, NEW t, Revoke(t),
         drawn' = drawn, membership' = membership, doomed' = doomed
  PROVE  EndedOver'
<1>1. ended' = ended \cup ({t} \cap drawn)
  BY DEF Revoke
<1>2. CASE t \in Tokens
  <2>1. \A u \in Tokens :
          /\ session'[u].there = session[u].there
          /\ session[u].revoked => session'[u].revoked
    BY <1>2, Revoked
  <2>2. session'[t].there => session'[t].revoked
    BY <1>2, Revoked
  <2>3. \A u \in ended : Over(u)'
    BY <2>1 DEF EndedOver, Over, Exists, Active, TypeOK
  <2>4. t \in drawn => Over(t)'
    BY <2>2 DEF Over, Exists
  <2>5. \A u \in Tokens : Exists(u)' => u \in drawn'
    BY <2>1 DEF EndedOver, Exists
  <2> QED BY <1>1, <2>3, <2>4, <2>5 DEF EndedOver
<1>3. CASE t \notin Tokens
  BY <1>1, <1>3, RowsKept DEF Revoke, TypeOK, EndedOver
<1> QED BY <1>2, <1>3

\* A new session is of a token that had none; what the login deletes is over.
LEMMA InsertedIsNew ==
  ASSUME TypeOK, EndedOver, NEW h \in Handlers, Insert(h)
  PROVE  /\ EndedOver'
         /\ \A u \in ended : Exists(u)' => session'[u] = session[u]
<1>1. PICK t \in Tokens \ drawn :
        /\ session' = [u \in Tokens |-> IF u = t THEN NewRow(handler[h].at)
                                        ELSE IF u \in doomed[h] THEN NoRow ELSE session[u]]
        /\ drawn' = drawn \cup {t}
        /\ ended' = ended \cup doomed[h] \cup (IF Active THEN {} ELSE {t})
  BY DEF Insert
<1>2. membership' = membership /\ doomed' = [doomed EXCEPT ![h] = {}]
  BY DEF Insert
<1>3. ~NoRow.there
  BY DEF NoRow
<1>4. \A u \in Tokens \ {t} : session'[u] = IF u \in doomed[h] THEN NoRow ELSE session[u]
  BY <1>1
<1>5. doomed[h] \subseteq Tokens \ {t} /\ ended \subseteq Tokens \ {t}
  BY DEF EndedOver, Over, TypeOK
<1>6. \A u \in doomed[h] : Over(u)'
  BY <1>1, <1>3, <1>4, <1>5 DEF EndedOver, Over, Exists
<1>7. \A u \in ended \ doomed[h] : Over(u)'
  BY <1>1, <1>2, <1>4, <1>5 DEF EndedOver, Over, Exists, Active
<1>8. ~Active => Over(t)'
  BY <1>1, <1>2 DEF Over, Active
<1>9. \A u \in Tokens : Exists(u)' => u \in drawn'
  BY <1>1, <1>3, <1>4 DEF EndedOver, Exists
<1>10. \A k \in Handlers : doomed'[k] \subseteq drawn'
  BY <1>1, <1>2 DEF EndedOver, TypeOK
<1>11. \A u \in ended' : Over(u)'
  BY <1>1, <1>6, <1>7, <1>8
<1>12. EndedOver'
  BY <1>9, <1>10, <1>11 DEF EndedOver
<1> QED BY <1>3, <1>4, <1>5, <1>12 DEF Exists

\* A request is let in by a session that is not over, and writes no other row.
LEMMA LetInByOne ==
  ASSUME TypeOK, EndedOver, NEW h \in Handlers, Get(h)
  PROVE  /\ EndedOver'
         /\ \A u \in ended : session'[u] = session[u]
<1>1. PICK t \in Tokens : /\ session' = [session EXCEPT ![t].seen = Clock(h)]
                          /\ LetIn(t, Clock(h))
  BY DEF Get, TypeOK
<1>2. /\ drawn' = drawn /\ membership' = membership /\ doomed' = doomed /\ ended' = ended
  BY DEF Get
<1>3. \A u \in Tokens : session'[u].there = session[u].there /\ session'[u].revoked = session[u].revoked
  BY <1>1 DEF TypeOK, Row
<1>4. t \notin ended
  BY <1>1 DEF EndedOver, Over, LetIn
<1>5. \A u \in ended : session'[u] = session[u]
  BY <1>1, <1>4 DEF TypeOK
<1>6. \A u \in ended : Over(u)'
  BY <1>2, <1>5 DEF EndedOver, Over, Exists, Active
<1>7. \A u \in Tokens : Exists(u)' => u \in drawn'
  BY <1>2, <1>3 DEF EndedOver, Exists
<1> QED BY <1>2, <1>5, <1>6, <1>7 DEF EndedOver

\* No step brings back what is over.
LEMMA StepEnded == TypeOK /\ EndedOver /\ [Next]_vars => EndedOver'
<1> SUFFICES ASSUME TypeOK, EndedOver, [Next]_vars PROVE EndedOver'
  OBVIOUS
<1>1. CASE Tick \/ UNCHANGED vars
  BY <1>1, RowsKept DEF Tick, vars, EndedOver
<1>2. CASE RevokeMembership
  BY <1>2 DEF RevokeMembership, EndedOver, Over, Exists, Active
<1>3. ASSUME NEW h \in Handlers, Fails(h) PROVE EndedOver'
  <2>1. \A k \in Handlers : doomed'[k] \subseteq drawn
    BY <1>3 DEF Fails, EndedOver, TypeOK
  <2> QED BY <1>3, <2>1, RowsKept DEF Fails
<1>4. ASSUME NEW h \in Handlers,
             Authenticate(h) \/ Create(h) \/ Purge(h) \/ Trim(h) \/ VerifyCsrf(h)
      PROVE  EndedOver'
  BY <1>4, RowsKept DEF Authenticate, Create, Purge, Trim, VerifyCsrf, EndedOver
<1>5. ASSUME NEW h \in Handlers, Rotate(h) \/ Act(h) PROVE EndedOver'
  <2>1. /\ drawn' = drawn /\ membership' = membership /\ doomed' = doomed
        /\ Revoke(handler[h].cookie) \/ UNCHANGED <<session, ended>>
    BY <1>5 DEF Rotate, Act
  <2> QED BY <2>1, RevokedIsOver, RowsKept DEF EndedOver
<1>6. ASSUME NEW h \in Handlers, DeleteRow(h) PROVE EndedOver'
  <2>1. PICK t \in handler[h].want :
          doomed' = [doomed EXCEPT ![h] = IF Exists(t) THEN @ \cup {t} ELSE @]
    BY <1>6 DEF DeleteRow
  <2>2. t \in Tokens
    BY <2>1 DEF TypeOK, Request
  <2>3. \A k \in Handlers : doomed'[k] \subseteq drawn
    BY <2>1, <2>2 DEF EndedOver, TypeOK
  <2> QED BY <1>6, <2>3, RowsKept DEF DeleteRow
<1>7. ASSUME NEW h \in Handlers, Insert(h) PROVE EndedOver'
  BY <1>7, InsertedIsNew
<1>8. ASSUME NEW h \in Handlers, Get(h) PROVE EndedOver'
  BY <1>8, LetInByOne
<1> QED BY <1>1, <1>2, <1>3, <1>4, <1>5, <1>6, <1>7, <1>8 DEF Next, DeadlockVictim

\* Nobody is let in by a session that has ended.
LEMMA SeenNoMore ==
  ASSUME TypeOK, EndedOver, [Next]_vars, NEW t \in ended, Exists(t)'
  PROVE  session'[t].seen = session[t].seen
<1>1. t \in Tokens
  BY DEF TypeOK
<1>2. CASE session' = session
  BY <1>2
<1>3. ASSUME NEW h \in Handlers, Rotate(h) \/ Act(h), session' # session
      PROVE  session'[t].seen = session[t].seen
  <2>1. Revoke(handler[h].cookie)
    BY <1>3 DEF Rotate, Act
  <2>2. CASE handler[h].cookie \in Tokens
    BY <1>1, <2>1, <2>2, Revoked
  <2>3. CASE handler[h].cookie \notin Tokens
    BY <2>1, <2>3 DEF Revoke, TypeOK
  <2> QED BY <2>2, <2>3
<1>4. ASSUME NEW h \in Handlers, Insert(h) \/ Get(h)
      PROVE  session'[t].seen = session[t].seen
  BY <1>4, InsertedIsNew, LetInByOne
<1> QED
  BY <1>2, <1>3, <1>4 DEF Next, Tick, RevokeMembership, Fails, DeadlockVictim, Authenticate,
     Create, Purge, Trim, DeleteRow, VerifyCsrf, vars

\* The CSRF query is the only way to what a request changes.
LEMMA OnlyByTheQuery ==
  ASSUME TypeOK, [Next]_vars, NEW h \in Handlers, At(h, "csrf"), At(h, "act")'
  PROVE  CsrfHolds(handler[h].cookie, handler[h].csrf)
<1>1. handler'[h] # handler[h] /\ handler[h].phase = "csrf" /\ ~Ends(h)
  BY DEF At, Ends, Idle, TypeOK
<1>2. PICK k \in Handlers :
        \/ Fails(k) \/ Authenticate(k) \/ Rotate(k) \/ Create(k) \/ Purge(k) \/ Trim(k)
        \/ DeleteRow(k) \/ DeadlockVictim(k) \/ Insert(k)
        \/ Get(k) \/ VerifyCsrf(k) \/ Act(k)
  BY <1>1 DEF Next, Tick, RevokeMembership, vars
<1>3. k = h
  BY <1>1, <1>2, OthersKeep
<1>4. VerifyCsrf(h)
  BY <1>1, <1>2, <1>3 DEF Fails, Authenticate, Rotate, Create, Purge, Trim, DeleteRow,
     DeadlockVictim, Insert, Get, Act, At
<1> QED BY <1>1, <1>4 DEF VerifyCsrf

\* A session that has ended, by whichever request and however that raced, lets
\* nobody in again; and what was let in before changes nothing if the CSRF
\* query finds the session ended or expired (create, get, verifyCsrf, destroy).
THEOREM EndedSessionsAreOver == Spec => EndedSessionsStayEnded
<1> DEFINE Untouched == \A t \in ended : Exists(t)' => session'[t].seen = session[t].seen
           Judged == \A h \in Handlers :
                       At(h, "csrf") /\ At(h, "act")' =>
                         /\ handler[h].cookie \notin ended
                         /\ session[handler[h].cookie].expires > DatabaseClock
<1>1. Init => EndedOver
  BY DEF Init, EndedOver, Exists, NoRow
<1>2. ASSUME TypeOK, EndedOver, [Next]_vars
      PROVE  [Untouched /\ Judged]_vars
  <2>1. Untouched
    BY <1>2, SeenNoMore
  <2>2. ASSUME NEW h \in Handlers, At(h, "csrf"), At(h, "act")'
        PROVE  /\ handler[h].cookie \notin ended
               /\ session[handler[h].cookie].expires > DatabaseClock
    <3>1. LetIn(handler[h].cookie, DatabaseClock)
      BY <1>2, <2>2, OnlyByTheQuery DEF CsrfHolds
    <3> QED BY <1>2, <3>1 DEF LetIn, EndedOver, Over
  <2> QED BY <2>1, <2>2
<1> QED BY InitTyped, StepTyped, StepEnded, <1>1, <1>2, PTL DEF Spec, EndedSessionsStayEnded

-----------------------------------------------------------------------------
(* How many sessions there are                                              *)
(*                                                                          *)
(* A login that trims leaves itself at most maxSessions - 1 sessions to     *)
(* keep, but others insert theirs before it inserts its own.  A login that  *)
(* inserts twice meanwhile has trimmed in between, after the first, and has *)
(* counted its first session then.  So what a login that has trimmed may    *)
(* find is maxSessions - 1 and one session for each of the others.          *)

Live == {t \in Tokens : Exists(t) /\ ~session[t].revoked}

\* What h is about to keep of them.
Kept(h) == Live \ (doomed[h] \cup handler[h].want)

Later(h, k, order) == <<h, k>> \in order

IsOrder(order) ==
  /\ \A h \in Handlers : ~Later(h, h, order)
  /\ \A h, k, j \in Handlers : Later(h, k, order) /\ Later(k, j, order) => Later(h, j, order)

\* since[h] are the handlers that inserted a session since h trimmed; those
\* of them that have trimmed again did so later than h.
Counted(since, order) ==
  \A h \in Handlers : At(h, "trimming") =>
    /\ Cardinality(Kept(h)) <= MaxSessions - 1 + Cardinality(since[h])
    /\ h \notin since[h]
    /\ \A k \in since[h] : At(k, "trimming") => Later(h, k, order)

LiveCounted ==
  /\ Live \subseteq drawn
  /\ SessionsStayBounded
  /\ \E since \in [Handlers -> SUBSET Handlers], order \in SUBSET (Handlers \X Handlers) :
       IsOrder(order) /\ Counted(since, order)

\* There are finitely many of each.
LEMMA Finite ==
  ASSUME TypeOK, LiveCounted
  PROVE  /\ IsFiniteSet(Live) /\ Cardinality(Live) \in Nat
         /\ \A S \in SUBSET Live : IsFiniteSet(S) /\ Cardinality(S) \in Nat
                                   /\ Cardinality(S) <= Cardinality(Live)
         /\ \A S \in SUBSET Handlers : IsFiniteSet(S) /\ Cardinality(S) \in Nat
                                       /\ Cardinality(S) <= Cardinality(Handlers)
         /\ Cardinality(Handlers) \in Nat
<1>1. IsFiniteSet(drawn) /\ IsFiniteSet(Handlers)
  BY AdminSessionsAssumption DEF TypeOK
<1>2. IsFiniteSet(Live)
  BY <1>1, FS_Subset DEF LiveCounted
<1> QED BY <1>1, <1>2, FS_Subset, FS_CardinalityType

\* One more element counts one more at most, and exactly one more if it is new.
LEMMA OneMore ==
  ASSUME NEW S, IsFiniteSet(S), NEW x, NEW T \in SUBSET (S \cup {x})
  PROVE  /\ IsFiniteSet(T) /\ Cardinality(T) \in Nat
         /\ Cardinality(T) <= Cardinality(S) + 1
         /\ x \notin S => Cardinality(S \cup {x}) = Cardinality(S) + 1
<1>1. /\ IsFiniteSet(S \cup {x}) /\ Cardinality(S \cup {x}) \in Nat /\ Cardinality(S) \in Nat
      /\ Cardinality(S \cup {x}) = IF x \in S THEN Cardinality(S) ELSE Cardinality(S) + 1
  BY FS_AddElement, FS_CardinalityType
<1>2. IsFiniteSet(T) /\ Cardinality(T) <= Cardinality(S \cup {x})
  BY <1>1, FS_Subset
<1>3. Cardinality(T) \in Nat
  BY <1>2, FS_CardinalityType
<1> QED BY <1>1, <1>2, <1>3

\* What a step that adds no session does to the count: nothing, if the
\* handlers that have trimmed keep no more than they did.
LEMMA NothingAdded ==
  ASSUME TypeOK, LiveCounted, Live' \subseteq Live, drawn' = drawn,
         \A h \in Handlers : At(h, "trimming")' =>
           At(h, "trimming") /\ Kept(h)' \subseteq Kept(h)
  PROVE  LiveCounted'
<1>1. Live' \subseteq drawn'
  BY DEF LiveCounted
<1>2. SessionsStayBounded'
  <2>1. Cardinality(Live') <= Cardinality(Live) /\ Cardinality(Live') \in Nat /\ Cardinality(Live) \in Nat
    BY Finite
  <2>2. Cardinality(Live) <= MaxSessions - 1 + Cardinality(Handlers)
    BY DEF LiveCounted, SessionsStayBounded, Live
  <2>3. Cardinality(Live') <= MaxSessions - 1 + Cardinality(Handlers)
    BY <2>1, <2>2, Finite, AdminSessionsAssumption
  <2> QED BY <2>3 DEF SessionsStayBounded, Live
<1>3. PICK since \in [Handlers -> SUBSET Handlers], order \in SUBSET (Handlers \X Handlers) :
        IsOrder(order) /\ Counted(since, order)
  BY DEF LiveCounted
<1>4. Counted(since, order)'
  <2> SUFFICES ASSUME NEW h \in Handlers, At(h, "trimming")'
               PROVE  /\ Cardinality(Kept(h)') <= MaxSessions - 1 + Cardinality(since[h])
                      /\ h \notin since[h]
                      /\ \A k \in since[h] : At(k, "trimming")' => Later(h, k, order)
    BY DEF Counted
  <2>1. At(h, "trimming") /\ Kept(h)' \subseteq Kept(h)
    OBVIOUS
  <2>2. /\ Cardinality(Kept(h)) <= MaxSessions - 1 + Cardinality(since[h])
        /\ h \notin since[h]
        /\ \A k \in since[h] : At(k, "trimming") => Later(h, k, order)
    BY <1>3, <2>1 DEF Counted
  <2>3. IsFiniteSet(Kept(h)) /\ Cardinality(Kept(h)) \in Nat
    BY Finite DEF Kept
  <2>4. Cardinality(Kept(h)') <= Cardinality(Kept(h)) /\ Cardinality(Kept(h)') \in Nat
    BY <2>1, <2>3, FS_Subset, FS_CardinalityType
  <2>5. Cardinality(since[h]) \in Nat
    BY Finite
  <2> QED BY <2>2, <2>3, <2>4, <2>5, AdminSessionsAssumption
<1>5. IsOrder(order)'
  BY <1>3 DEF IsOrder, Later
<1> QED BY <1>1, <1>2, <1>3, <1>4, <1>5 DEF LiveCounted

\* Trimming leaves maxSessions - 1 sessions to keep.
LEMMA Trimmed ==
  ASSUME TypeOK, LiveCounted, NEW h \in Handlers, Trim(h)
  PROVE  /\ Live' = Live /\ At(h, "trimming")'
         /\ Cardinality(Kept(h)') <= MaxSessions - 1
<1> DEFINE S == {t \in Seen(h) : ~session[t].revoked}
<1>1. PICK V \in Beyond(S, MaxSessions - 1) :
        handler' = [handler EXCEPT ![h].phase = "trimming", ![h].want = V]
  BY DEF Trim
<1>2. S = Live \ doomed[h]
  BY DEF Live, Seen, Exists
<1>3. V \in SUBSET S /\ Cardinality(V) = IF Cardinality(S) > MaxSessions - 1
                                         THEN Cardinality(S) - (MaxSessions - 1) ELSE 0
  BY <1>1 DEF Beyond
<1> HIDE DEF S
<1>4. handler'[h].phase = "trimming" /\ handler'[h].want = V
  BY <1>1 DEF TypeOK, Request
<1>5. session' = session /\ doomed' = doomed
  BY DEF Trim
<1>6. Live' = Live
  BY <1>5 DEF Live, Exists
<1>7. Kept(h)' = S \ V
  BY <1>2, <1>4, <1>5, <1>6 DEF Kept
<1>8. IsFiniteSet(S) /\ Cardinality(S) \in Nat
  BY <1>2, Finite
<1>9. Cardinality(S \ V) = Cardinality(S) - Cardinality(V)
  <2>1. S \cap V = V
    BY <1>3
  <2> QED BY <1>8, <2>1, FS_Difference
<1> QED BY <1>3, <1>4, <1>6, <1>7, <1>8, <1>9, AdminSessionsAssumption DEF At

\* The handler that trims is later than all others, and has counted all.
LEMMA TrimCounted ==
  ASSUME TypeOK, LiveCounted, NEW h \in Handlers, Trim(h)
  PROVE  LiveCounted'
<1>1. /\ Live' = Live /\ drawn' = drawn /\ session' = session /\ doomed' = doomed
      /\ At(h, "trimming")'
      /\ Cardinality(Kept(h)') <= MaxSessions - 1
  BY Trimmed DEF Trim
<1>2. \A k \in Handlers \ {h} : handler'[k] = handler[k]
  BY OthersKeep
<1>3. Live' \subseteq drawn' /\ SessionsStayBounded'
  BY <1>1 DEF LiveCounted, SessionsStayBounded, Exists
<1>4. PICK since \in [Handlers -> SUBSET Handlers], order \in SUBSET (Handlers \X Handlers) :
        IsOrder(order) /\ Counted(since, order)
  BY DEF LiveCounted
<1> DEFINE since2 == [since EXCEPT ![h] = {}]
           order2 == {p \in order : p[1] # h} \cup {<<k, h>> : k \in Handlers \ {h}}
<1>5. \A k, j \in Handlers : Later(k, j, order2) <=> k # h /\ (j = h \/ Later(k, j, order))
  BY DEF Later
<1>6. since2 \in [Handlers -> SUBSET Handlers] /\ order2 \in SUBSET (Handlers \X Handlers)
  OBVIOUS
<1>7. since2[h] = {} /\ \A k \in Handlers \ {h} : since2[k] = since[k]
  OBVIOUS
<1> HIDE DEF since2, order2
<1>8. IsOrder(order2)
  BY <1>4, <1>5 DEF IsOrder
<1>9. Counted(since2, order2)'
  <2> SUFFICES ASSUME NEW k \in Handlers, At(k, "trimming")'
               PROVE  /\ Cardinality(Kept(k)') <= MaxSessions - 1 + Cardinality(since2[k])
                      /\ k \notin since2[k]
                      /\ \A j \in since2[k] : At(j, "trimming")' => Later(k, j, order2)
    BY DEF Counted
  <2>1. CASE k = h
    BY <1>1, <1>7, <2>1, FS_EmptySet, AdminSessionsAssumption, Finite
  <2>2. CASE k # h
    <3>1. At(k, "trimming") /\ Kept(k)' = Kept(k)
      BY <1>1, <1>2, <2>2 DEF At, Kept
    <3>2. /\ Cardinality(Kept(k)) <= MaxSessions - 1 + Cardinality(since[k])
          /\ k \notin since[k]
          /\ \A j \in since[k] : At(j, "trimming") => Later(k, j, order)
      BY <1>4, <3>1 DEF Counted
    <3>3. ASSUME NEW j \in since[k], At(j, "trimming")' PROVE Later(k, j, order2)
      <4>1. j \in Handlers
        OBVIOUS
      <4>2. CASE j = h
        BY <1>5, <2>2, <4>2
      <4>3. CASE j # h
        <5>1. At(j, "trimming")
          BY <1>2, <3>3, <4>1, <4>3 DEF At
        <5> QED BY <1>5, <2>2, <3>2, <4>1, <5>1
      <4> QED BY <4>2, <4>3
    <3> QED BY <1>7, <2>2, <3>1, <3>2, <3>3
  <2> QED BY <2>1, <2>2
<1>10. IsOrder(order2)'
  BY <1>8 DEF IsOrder, Later
<1> QED BY <1>3, <1>6, <1>9, <1>10 DEF LiveCounted

\* An insert adds one session to what its login kept, and the table loses
\* what the login has deleted.
LEMMA Inserted ==
  ASSUME TypeOK, LiveCounted, NEW h \in Handlers, Insert(h)
  PROVE  \E t \in Tokens \ drawn :
           /\ drawn' = drawn \cup {t}
           /\ Live' \subseteq Kept(h) \cup {t}
           /\ At(h, "trimming") /\ ~At(h, "trimming")'
           /\ \A k \in Handlers \ {h} : At(k, "trimming")' =>
                At(k, "trimming") /\ Kept(k)' \subseteq Kept(k) \cup {t}
<1>1. PICK t \in Tokens \ drawn :
        /\ session' = [u \in Tokens |-> IF u = t THEN NewRow(handler[h].at)
                                        ELSE IF u \in doomed[h] THEN NoRow ELSE session[u]]
        /\ drawn' = drawn \cup {t}
  BY DEF Insert
<1>2. At(h, "trimming") /\ handler[h].want = {}
  BY DEF Insert
<1>3. \A u \in Tokens : u # t => session'[u] = IF u \in doomed[h] THEN NoRow ELSE session[u]
  BY <1>1
<1>4. ~NoRow.there
  BY DEF NoRow
<1>5. \A u \in Live' : u = t \/ (u \in Live /\ u \notin doomed[h])
  BY <1>3, <1>4 DEF Live, Exists
<1>6. Live' \subseteq Kept(h) \cup {t}
  BY <1>2, <1>5 DEF Kept
<1>7. ~At(h, "trimming")'
  BY Ended DEF Insert
<1>8. \A k \in Handlers \ {h} : handler'[k] = handler[k] /\ doomed'[k] = doomed[k]
  BY OthersKeep
<1>9. \A k \in Handlers \ {h} : At(k, "trimming")' =>
        At(k, "trimming") /\ Kept(k)' \subseteq Kept(k) \cup {t}
  BY <1>5, <1>8 DEF At, Kept
<1> QED BY <1>1, <1>2, <1>6, <1>7, <1>9

\* What the insert is counted as by the logins that have trimmed: by those
\* it has not been counted by, as one more; by the others, as what the login
\* that inserted kept, and one more.
LEMMA InsertCounted ==
  ASSUME TypeOK, LiveCounted, NEW h \in Handlers, Insert(h)
  PROVE  LiveCounted'
<1>1. PICK t \in Tokens \ drawn :
        /\ drawn' = drawn \cup {t}
        /\ Live' \subseteq Kept(h) \cup {t}
        /\ At(h, "trimming") /\ ~At(h, "trimming")'
        /\ \A k \in Handlers \ {h} : At(k, "trimming")' =>
             At(k, "trimming") /\ Kept(k)' \subseteq Kept(k) \cup {t}
  BY Inserted
<1>2. PICK since \in [Handlers -> SUBSET Handlers], order \in SUBSET (Handlers \X Handlers) :
        IsOrder(order) /\ Counted(since, order)
  BY DEF LiveCounted
<1>3. /\ Cardinality(Kept(h)) <= MaxSessions - 1 + Cardinality(since[h])
      /\ h \notin since[h]
      /\ \A k \in since[h] : At(k, "trimming") => Later(h, k, order)
  BY <1>1, <1>2 DEF Counted
<1>4. Cardinality(since[h] \cup {h}) = Cardinality(since[h]) + 1
  <2>1. IsFiniteSet(since[h])
    BY Finite
  <2> QED BY <1>3, <2>1, OneMore
<1>5. /\ IsFiniteSet(Kept(h)) /\ Cardinality(Kept(h)) \in Nat
      /\ \A S \in SUBSET Handlers : Cardinality(S) \in Nat /\ Cardinality(S) <= Cardinality(Handlers)
      /\ Cardinality(Handlers) \in Nat
      /\ MaxSessions - 1 \in Nat
  BY Finite, AdminSessionsAssumption DEF Kept
<1>6. /\ IsFiniteSet(Live') /\ Cardinality(Live') \in Nat
      /\ Cardinality(Live') <= MaxSessions - 1 + Cardinality(since[h] \cup {h})
  <2>1. /\ IsFiniteSet(Live') /\ Cardinality(Live') \in Nat
        /\ Cardinality(Live') <= Cardinality(Kept(h)) + 1
    BY <1>1, <1>5, OneMore
  <2>2. Cardinality(since[h]) \in Nat
    BY <1>5
  <2> QED BY <1>3, <1>4, <1>5, <2>1, <2>2
<1>7. SessionsStayBounded'
  <2>1. Cardinality(Live') <= MaxSessions - 1 + Cardinality(Handlers)
    <3>1. /\ Cardinality(since[h] \cup {h}) \in Nat
          /\ Cardinality(since[h] \cup {h}) <= Cardinality(Handlers)
      BY <1>5
    <3> QED BY <1>5, <1>6, <3>1
  <2> QED BY <2>1 DEF SessionsStayBounded, Live
<1>8. Live' \subseteq drawn'
  BY <1>1 DEF LiveCounted, Kept
<1> DEFINE since2 == [k \in Handlers |-> IF h \in since[k] THEN since[h] \cup {h}
                                         ELSE since[k] \cup {h}]
<1>9. since2 \in [Handlers -> SUBSET Handlers]
  OBVIOUS
<1>10. Counted(since2, order)'
  <2> SUFFICES ASSUME NEW k \in Handlers, At(k, "trimming")'
               PROVE  /\ Cardinality(Kept(k)') <= MaxSessions - 1 + Cardinality(since2[k])
                      /\ k \notin since2[k]
                      /\ \A j \in since2[k] : At(j, "trimming")' => Later(k, j, order)
    BY DEF Counted
  <2>1. k # h /\ At(k, "trimming") /\ Kept(k)' \subseteq Kept(k) \cup {t}
    BY <1>1
  <2>2. /\ Cardinality(Kept(k)) <= MaxSessions - 1 + Cardinality(since[k])
        /\ k \notin since[k]
        /\ \A j \in since[k] : At(j, "trimming") => Later(k, j, order)
    BY <1>2, <2>1 DEF Counted
  <2>3. \A j \in Handlers : At(j, "trimming")' => j # h /\ At(j, "trimming")
    BY <1>1
  <2>4. CASE h \in since[k]
    <3>1. since2[k] = since[h] \cup {h}
      BY <2>4
    <3>2. Later(k, h, order)
      BY <1>1, <2>2, <2>4
    <3>3. k \notin since[h]
      <4>1. k \in since[h] => Later(h, k, order)
        BY <1>3, <2>1
      <4> QED BY <1>2, <3>2, <4>1 DEF IsOrder
    <3>4. ASSUME NEW j \in since[h], At(j, "trimming")' PROVE Later(k, j, order)
      <4>1. j \in Handlers /\ Later(h, j, order)
        BY <1>3, <2>3, <3>4
      <4> QED BY <1>2, <3>2, <4>1 DEF IsOrder
    <3>5. Cardinality(Kept(k)') <= Cardinality(Live')
      <4>1. Kept(k)' \in SUBSET Live'
        BY DEF Kept
      <4> QED BY <1>6, <4>1, FS_Subset
    <3>6. Cardinality(Kept(k)') \in Nat
      <4>1. Kept(k)' \in SUBSET Live'
        BY DEF Kept
      <4> QED BY <1>6, <4>1, FS_Subset, FS_CardinalityType
    <3>7. Cardinality(since[h] \cup {h}) \in Nat
      BY <1>5
    <3> HIDE DEF since2
    <3>8. Cardinality(Kept(k)') <= MaxSessions - 1 + Cardinality(since2[k])
      BY <1>5, <1>6, <3>1, <3>5, <3>6, <3>7
    <3> QED BY <2>1, <2>3, <3>1, <3>3, <3>4, <3>8
  <2>5. CASE h \notin since[k]
    <3>1. since2[k] = since[k] \cup {h}
      BY <2>5
    <3>2. Cardinality(since[k] \cup {h}) = Cardinality(since[k]) + 1 /\ Cardinality(since[k]) \in Nat
      <4>1. IsFiniteSet(since[k]) /\ Cardinality(since[k]) \in Nat
        BY Finite
      <4> QED BY <2>5, <4>1, OneMore
    <3>3. Cardinality(Kept(k)') \in Nat /\ Cardinality(Kept(k)') <= Cardinality(Kept(k)) + 1
      <4>1. IsFiniteSet(Kept(k))
        BY Finite DEF Kept
      <4> QED BY <2>1, <4>1, OneMore
    <3>4. Cardinality(Kept(k)) \in Nat
      BY Finite DEF Kept
    <3> HIDE DEF since2
    <3>5. Cardinality(Kept(k)') <= MaxSessions - 1 + Cardinality(since2[k])
      BY <1>5, <2>2, <3>1, <3>2, <3>3, <3>4
    <3> QED BY <2>1, <2>2, <2>3, <3>1, <3>5
  <2> QED BY <2>4, <2>5
<1>11. IsOrder(order)'
  BY <1>2 DEF IsOrder, Later
<1> HIDE DEF since2
<1> QED BY <1>7, <1>8, <1>9, <1>10, <1>11 DEF LiveCounted

\* Every step keeps the count.
LEMMA StepCounted == TypeOK /\ LiveCounted /\ [Next]_vars => LiveCounted'
<1> SUFFICES ASSUME TypeOK, LiveCounted, [Next]_vars PROVE LiveCounted'
  OBVIOUS
<1>1. CASE Tick \/ RevokeMembership \/ UNCHANGED vars
  BY <1>1, NothingAdded DEF Tick, RevokeMembership, vars, Live, Exists, Kept, At
<1>2. ASSUME NEW h \in Handlers,
             Live' \subseteq Live, drawn' = drawn, ~At(h, "trimming")',
             \A k \in Handlers \ {h} : handler'[k] = handler[k] /\ doomed'[k] = doomed[k]
      PROVE  LiveCounted'
  <2>1. \A k \in Handlers : At(k, "trimming")' =>
          At(k, "trimming") /\ Kept(k)' \subseteq Kept(k)
    BY <1>2 DEF At, Kept
  <2> QED BY <1>2, <2>1, NothingAdded
<1>3. ASSUME NEW h \in Handlers, Fails(h) PROVE LiveCounted'
  <2>1. Live' \subseteq Live /\ drawn' = drawn /\ ~At(h, "trimming")'
    BY <1>3, Ended DEF Fails, Live, Exists
  <2> QED BY <1>2, <1>3, <2>1, OthersKeep
<1>4. ASSUME NEW h \in Handlers, Authenticate(h) \/ Create(h) \/ Purge(h) \/ VerifyCsrf(h)
      PROVE  LiveCounted'
  <2>1. Live' \subseteq Live /\ drawn' = drawn
    BY <1>4 DEF Authenticate, Create, Purge, VerifyCsrf, Live, Exists
  <2>2. ~At(h, "trimming")'
    <3>0. handler[h] \in Request
      BY DEF TypeOK
    <3>1. CASE Authenticate(h)
      BY <3>1 DEF Authenticate, TypeOK, At, Idle
    <3>2. CASE Create(h)
      <4>1. CASE Active
        BY <3>0, <3>2, <4>1 DEF Create, TypeOK, At, Request
      <4> QED BY <3>2, <4>1, Ended DEF Create
    <3>3. CASE Purge(h)
      BY <3>0, <3>3 DEF Purge, TypeOK, At, Request
    <3>4. CASE VerifyCsrf(h)
      <4>1. CASE Go(h, "act")
        BY <3>0, <4>1 DEF Go, TypeOK, At, Request
      <4> QED BY <3>4, <4>1, Ended DEF VerifyCsrf
    <3> QED BY <1>4, <3>1, <3>2, <3>3, <3>4
  <2> QED BY <1>2, <1>4, <2>1, <2>2, OthersKeep
<1>5. ASSUME NEW h \in Handlers, Rotate(h) \/ Act(h) PROVE LiveCounted'
  <2> DEFINE t == handler[h].cookie
  <2>1. drawn' = drawn /\ (session' = session \/ (Revoke(t) /\ t \in Tokens \cup {NoToken}))
    BY <1>5 DEF Rotate, Act, TypeOK, Request
  <2>2. Live' \subseteq Live
    <3>1. CASE t \in Tokens /\ Revoke(t)
      BY <3>1, Revoked DEF Live, Exists
    <3>2. CASE t \notin Tokens /\ Revoke(t)
      BY <3>2 DEF Revoke, TypeOK, Live, Exists
    <3>3. CASE session' = session
      BY <3>3 DEF Live, Exists
    <3> QED BY <2>1, <3>1, <3>2, <3>3
  <2>3. ~At(h, "trimming")'
    <3>0. handler[h] \in Request
      BY DEF TypeOK
    <3>1. CASE Rotate(h)
      BY <3>0, <3>1 DEF Rotate, TypeOK, At, Request
    <3> QED BY <1>5, <3>1, Ended DEF Act
  <2> QED BY <1>2, <1>5, <2>1, <2>2, <2>3, OthersKeep
<1>6. ASSUME NEW h \in Handlers, Trim(h) PROVE LiveCounted'
  BY <1>6, TrimCounted
<1>7. ASSUME NEW h \in Handlers, DeleteRow(h) PROVE LiveCounted'
  <2>1. PICK t \in handler[h].want :
          /\ handler' = [handler EXCEPT ![h].want = @ \ {t}]
          /\ doomed' = [doomed EXCEPT ![h] = IF Exists(t) THEN @ \cup {t} ELSE @]
    BY <1>7 DEF DeleteRow
  <2>2. /\ handler'[h].phase = handler[h].phase /\ handler'[h].want = handler[h].want \ {t}
        /\ doomed'[h] = IF Exists(t) THEN doomed[h] \cup {t} ELSE doomed[h]
    BY <2>1 DEF TypeOK, Request
  <2>3. Live' = Live /\ drawn' = drawn
    BY <1>7 DEF DeleteRow, Live, Exists
  <2>4. Kept(h)' \subseteq Kept(h)
    BY <2>2, <2>3 DEF Kept, Live
  <2>5. \A k \in Handlers \ {h} : handler'[k] = handler[k] /\ doomed'[k] = doomed[k]
    BY <1>7, OthersKeep
  <2>6. \A k \in Handlers : At(k, "trimming")' =>
          At(k, "trimming") /\ Kept(k)' \subseteq Kept(k)
    BY <2>2, <2>3, <2>4, <2>5 DEF At, Kept
  <2> QED BY <2>3, <2>6, NothingAdded
<1>8. ASSUME NEW h \in Handlers, Insert(h) PROVE LiveCounted'
  BY <1>8, InsertCounted
<1>9. ASSUME NEW h \in Handlers, Get(h) PROVE LiveCounted'
  <2>1. PICK t \in Tokens : session' = [session EXCEPT ![t].seen = Clock(h)]
    BY <1>9 DEF Get, TypeOK
  <2>2. Live' \subseteq Live
    BY <2>1 DEF TypeOK, Row, Live, Exists
  <2>3. ~At(h, "trimming")'
    <3>1. handler'[h] = handler[h] \/ handler'[h].phase = "csrf"
      <4>1. PICK cookie \in Cookies \cap drawn, kind \in Kinds :
              IF ~Allowed(membership, kind) \/ ~Changes(kind)
              THEN UNCHANGED handler
              ELSE \E csrf \in Presented :
                     handler' = [handler EXCEPT ![h] =
                       [Idle EXCEPT !.phase = "csrf", !.kind = kind, !.cookie = cookie, !.csrf = csrf]]
        BY <1>9 DEF Get
      <4>2. ASSUME NEW csrf \in Presented,
                   handler' = [handler EXCEPT ![h] =
                     [Idle EXCEPT !.phase = "csrf", !.kind = kind, !.cookie = cookie, !.csrf = csrf]]
            PROVE  handler'[h].phase = "csrf"
        BY <4>2 DEF TypeOK, Idle
      <4> QED BY <4>1, <4>2
    <3> QED BY <1>9, <3>1 DEF Get, At
  <2> QED BY <1>2, <1>9, <2>2, <2>3, OthersKeep DEF Get
<1> QED
  BY <1>1, <1>3, <1>4, <1>5, <1>6, <1>7, <1>8, <1>9 DEF Next, DeadlockVictim

\* However many logins overlap, whatever they see of each other and however
\* often a client logs in again, an owner has at most maxSessions sessions and
\* one more for each login beyond the first that is in progress (create).
THEOREM SessionsAreBounded == Spec => []SessionsStayBounded
<1>1. Init => LiveCounted
  <2> SUFFICES ASSUME Init PROVE LiveCounted
    OBVIOUS
  <2>1. Live = {}
    BY DEF Init, Live, Exists, NoRow
  <2>2. SessionsStayBounded
    <3>1. Cardinality(Live) = 0 /\ Cardinality(Handlers) \in Nat
      BY <2>1, FS_EmptySet, FS_CardinalityType, AdminSessionsAssumption
    <3> QED BY <3>1, AdminSessionsAssumption DEF SessionsStayBounded, Live
  <2>3. IsOrder({}) /\ Counted([h \in Handlers |-> {}], {})
    BY DEF IsOrder, Later, Counted, Init, At, Idle
  <2> QED BY <2>1, <2>2, <2>3 DEF LiveCounted
<1>2. LiveCounted => SessionsStayBounded
  BY DEF LiveCounted
<1> QED BY InitTyped, StepTyped, StepCounted, <1>1, <1>2, PTL DEF Spec
=============================================================================
