---------------------------- MODULE AdminSessions ----------------------------
(***************************************************************************)
(* The sessions of one owner in the admin API, over the Postgres store:    *)
(* login, logout, and requests that read or change something.              *)
(*                                                                         *)
(* Handlers run on nodes whose clocks differ.  A login's transaction reads *)
(* under READ COMMITTED: each statement sees what was committed when it    *)
(* began, deletes row by row, and waits for a row another transaction is   *)
(* deleting.  The other handlers use transactions that one step stands for.*)
(***************************************************************************)
EXTENDS Integers, FiniteSets, Sequences

CONSTANTS
  Handlers,       \* HTTP requests in progress at one time
  Tokens,         \* session tokens that will be drawn; each stands for its CSRF token too
  NoToken,
  Skew,           \* Skew[h]: how far h's node is ahead of the slowest clock
  DatabaseSkew,   \* how far the database is
  Ttl,            \* ttlMs
  MaxSessions,
  Roles,          \* roles the owner may have
  MaxTime         \* bound: the last instant

ASSUME AdminSessionsAssumption ==
  /\ IsFiniteSet(Handlers)
  /\ Ttl \in Nat \ {0}
  /\ MaxSessions \in Nat \ {0}
  /\ MaxTime \in Nat
  /\ NoToken \notin Tokens
  /\ DatabaseSkew \in Nat /\ \A h \in Handlers : Skew[h] \in Nat
  /\ Roles \subseteq {"owner", "admin", "manager", "viewer"}

VARIABLES
  now,            \* the slowest clock
  membership,     \* the owner's role, or "inactive"
  session,        \* session[t]: its row of admin_sessions, or NoRow
  drawn,          \* tokens handed to an insert so far
  handler,        \* handler[h]: the request h works on
  doomed,         \* doomed[h]: rows h's transaction has deleted and not committed
  ended           \* history: tokens whose session was logged out, deleted, or left by its owner

vars == <<now, membership, session, drawn, handler, doomed, ended>>

NoRow == [created |-> 0, seen |-> 0, expires |-> 0, revoked |-> FALSE, there |-> FALSE]

Idle == [phase |-> "idle", kind |-> "none", cookie |-> NoToken, csrf |-> NoToken,
         at |-> 0, want |-> {}]

Row == [created: Nat, seen: Nat, expires: Nat, revoked: BOOLEAN, there: BOOLEAN]

Phases == {"idle", "rotate", "create", "purge", "purging", "trimming", "csrf", "act"}

Request ==
  [phase: Phases, kind: {"none", "login", "logout", "view", "read", "mutate", "decide", "refused"},
   cookie: Tokens \cup {NoToken}, csrf: Tokens \cup {NoToken}, at: Nat,
   want: SUBSET Tokens]

\* Handlers are in a phase of their request, and hold rows of the table.
TypeOK ==
  /\ now \in 0 .. MaxTime
  /\ membership \in Roles \cup {"inactive"}
  /\ session \in [Tokens -> Row]
  /\ drawn \subseteq Tokens /\ IsFiniteSet(drawn)
  /\ handler \in [Handlers -> Request]
  /\ doomed \in [Handlers -> SUBSET Tokens]
  /\ ended \subseteq Tokens

Init ==
  /\ now = 0
  /\ membership \in Roles
  /\ session = [t \in Tokens |-> NoRow]
  /\ drawn = {}
  /\ handler = [h \in Handlers |-> Idle]
  /\ doomed = [h \in Handlers |-> {}]
  /\ ended = {}

-----------------------------------------------------------------------------

Active == membership # "inactive"

Exists(t) == session[t].there

Clock(h) == now + Skew[h]

\* CURRENT_TIMESTAMP.
DatabaseClock == now + DatabaseSkew

\* Rows another transaction holds: a statement that wants them waits.
LockedFor(h, t) == \E k \in Handlers \ {h} : t \in doomed[k]

At(h, phase) == handler[h].phase = phase

Go(h, phase) == handler' = [handler EXCEPT ![h].phase = phase]

Ends(h) == handler' = [handler EXCEPT ![h] = Idle]

Tick ==
  /\ now < MaxTime
  /\ now' = now + 1
  /\ UNCHANGED <<membership, session, drawn, handler, doomed, ended>>

\* revokeMembership.
RevokeMembership ==
  /\ Active
  /\ membership' = "inactive"
  /\ ended' = drawn
  /\ UNCHANGED <<now, session, drawn, handler, doomed>>

\* Any statement may fail: its transaction rolls back, the answer is a 500.
Fails(h) ==
  /\ ~At(h, "idle")
  /\ Ends(h)
  /\ doomed' = [doomed EXCEPT ![h] = {}]
  /\ UNCHANGED <<now, membership, session, drawn, ended>>

-----------------------------------------------------------------------------
(* What a client sends *)

\* parseCookies: a name that is given twice counts as not given.
ParsedCookie(values) == IF Len(values) = 1 THEN values[1] ELSE NoToken

Cookies == {ParsedCookie(v) : v \in {<<>>} \cup {<<t>> : t \in drawn} \cup (drawn \X drawn)}

\* requestCsrfToken: of the header and the form's field, if they agree.
Candidate(header, form) ==
  IF header # NoToken /\ form # NoToken /\ header # form THEN NoToken
  ELSE IF header # NoToken THEN header ELSE form

\* The tokens requireCsrf may be given: from the admin's own origin, in the
\* request and in the cookie alike.
Presented ==
  (Cookies \cap {Candidate(header, form) : header, form \in drawn \cup {NoToken}}) \ {NoToken}

\* The routes under a session, by what they do with the methods they take.
\* Any other method of a route is refused.
ViewRoutes == {"session", "dashboard"}
PrivateRoutes == {"property", "rates", "manualBlocks", "bookingRequests", "icalHealth", "bookingRequest"}

KindOf(route, method) ==
  CASE route = "logout" /\ method = "POST" -> "logout"
    [] route \in ViewRoutes /\ method = "GET" -> "view"
    [] route \in PrivateRoutes /\ method = "GET" -> "read"
    [] route \in {"content", "rates"} /\ method \in {"PUT", "POST"} -> "mutate"
    [] route = "manualBlocks" /\ method = "POST" -> "mutate"
    [] route = "manualBlock" /\ method = "DELETE" -> "mutate"
    [] route \in {"approve", "reject", "recheck"} /\ method = "POST" -> "decide"
    [] OTHER -> "refused"

Kinds ==
  {KindOf(route, method) :
     route \in {"logout", "content", "manualBlock", "approve", "reject", "recheck"}
                 \cup ViewRoutes \cup PrivateRoutes,
     method \in {"GET", "PUT", "POST", "DELETE"}}

-----------------------------------------------------------------------------
(* handleLogin *)

\* findByEmail: one identity with one active membership.
FoundByEmail == Active

\* A login comes in, with the cookie its client kept and the CSRF token of the
\* login page.  authenticateOwner finds the owner, or the login is refused; the
\* password is verified without the database.
Authenticate(h) ==
  /\ At(h, "idle")
  /\ FoundByEmail
  /\ \E cookie \in Cookies :
       handler' = [handler EXCEPT ![h] =
         [Idle EXCEPT !.phase = "rotate", !.kind = "login", !.cookie = cookie]]
  /\ UNCHANGED <<now, membership, session, drawn, doomed, ended>>

Revoke(t) ==
  /\ session' = [session EXCEPT ![t].revoked = @ \/ session[t].there]
  /\ ended' = ended \cup ({t} \cap drawn)

\* The session of the cookie that came with the login is destroyed.
Rotate(h) ==
  LET old == handler[h].cookie
  IN  /\ At(h, "rotate")
      /\ IF old = NoToken THEN UNCHANGED <<session, ended>>
         ELSE ~LockedFor(h, old) /\ Revoke(old)
      /\ handler' = [handler EXCEPT ![h].phase = "create", ![h].cookie = NoToken]
      /\ UNCHANGED <<now, membership, drawn, doomed>>

\* create reads its clock, and then the membership inside the transaction.
Create(h) ==
  /\ At(h, "create")
  /\ IF Active
     THEN handler' = [handler EXCEPT ![h].phase = "purge", ![h].at = Clock(h)]
     ELSE Ends(h)
  /\ UNCHANGED <<now, membership, session, drawn, doomed, ended>>

\* What h's next statement sees: committed rows but those it deleted itself.
Seen(h) == {t \in Tokens : Exists(t) /\ t \notin doomed[h]}

\* DELETE ... WHERE revoked_at IS NOT NULL OR expires_at <= now.
Purge(h) ==
  /\ At(h, "purge")
  /\ handler' = [handler EXCEPT ![h].phase = "purging",
       ![h].want = {t \in Seen(h) : session[t].revoked \/ session[t].expires <= handler[h].at}]
  /\ UNCHANGED <<now, membership, session, drawn, doomed, ended>>

MoreRecent(t, u) ==
  \/ session[t].seen > session[u].seen
  \/ session[t].seen = session[u].seen /\ session[t].created > session[u].created

\* Sets the OFFSET may leave: the least recent ones, beyond the first n.
Beyond(S, n) ==
  {V \in SUBSET S :
     /\ Cardinality(V) = IF Cardinality(S) > n THEN Cardinality(S) - n ELSE 0
     /\ \A v \in V, k \in S \ V : ~MoreRecent(v, k)}

\* Mutation: the new session is not counted.
TrimTooLate(h) ==
  /\ At(h, "purging") /\ handler[h].want = {}
  /\ \E V \in Beyond({t \in Seen(h) : ~session[t].revoked}, MaxSessions) :
       handler' = [handler EXCEPT ![h].phase = "trimming", ![h].want = V]
  /\ UNCHANGED <<now, membership, session, drawn, doomed, ended>>

\* DELETE of the sessions beyond the first maxSessions - 1.
Trim(h) ==
  /\ At(h, "purging") /\ handler[h].want = {}
  /\ \E V \in Beyond({t \in Seen(h) : ~session[t].revoked}, MaxSessions - 1) :
       handler' = [handler EXCEPT ![h].phase = "trimming", ![h].want = V]
  /\ UNCHANGED <<now, membership, session, drawn, doomed, ended>>

\* A row of the statement is deleted, once no other transaction holds it; one
\* that is gone by then is passed over.
DeleteRow(h) ==
  /\ handler[h].phase \in {"purging", "trimming"}
  /\ \E t \in handler[h].want :
       /\ ~LockedFor(h, t)
       /\ handler' = [handler EXCEPT ![h].want = @ \ {t}]
       /\ doomed' = [doomed EXCEPT ![h] = IF Exists(t) THEN @ \cup {t} ELSE @]
  /\ UNCHANGED <<now, membership, session, drawn, ended>>

\* Two logins wait for each other's rows: the database ends one of them.
DeadlockVictim(h) ==
  /\ \E k \in Handlers \ {h} :
       handler[h].want \cap doomed[k] # {} /\ handler[k].want \cap doomed[h] # {}
  /\ Fails(h)

NewRow(at) ==
  [created |-> at, seen |-> at, expires |-> at + Ttl, revoked |-> FALSE, there |-> TRUE]

\* INSERT and commit; the ticket goes to the client.  The membership is not
\* asked for again: the new session may have no active owner any more.
Insert(h) ==
  /\ At(h, "trimming") /\ handler[h].want = {}
  /\ \E t \in Tokens \ drawn :
       /\ session' = [u \in Tokens |-> IF u = t THEN NewRow(handler[h].at)
                                       ELSE IF u \in doomed[h] THEN NoRow ELSE session[u]]
       /\ drawn' = drawn \cup {t}
       /\ ended' = ended \cup doomed[h] \cup (IF Active THEN {} ELSE {t})
  /\ doomed' = [doomed EXCEPT ![h] = {}]
  /\ Ends(h)
  /\ UNCHANGED <<now, membership>>

-----------------------------------------------------------------------------
(* Requests under a session *)

Allowed(role, kind) ==
  CASE kind \in {"logout", "view"} -> TRUE
    [] kind = "decide" -> role \in {"owner", "admin"}
    [] OTHER -> role # "viewer"

Changes(kind) == kind \in {"logout", "mutate", "decide"}

\* The join of get.
LetIn(t, at) == Exists(t) /\ ~session[t].revoked /\ session[t].expires > at /\ Active

\* A request comes in: requireSession, then the gates that need no other state.  The row may not
\* be seen before it was created, by a clock that is behind: CHECK refuses.
Get(h) ==
  /\ At(h, "idle")
  /\ \E t \in Cookies \cap drawn, kind \in Kinds :
       /\ ~LockedFor(h, t)
       /\ LetIn(t, Clock(h)) /\ Clock(h) >= session[t].created
       /\ session' = [session EXCEPT ![t].seen = Clock(h)]
       /\ IF ~Allowed(membership, kind) \/ ~Changes(kind)
          THEN UNCHANGED handler
          ELSE \E csrf \in Presented :
                 handler' = [handler EXCEPT ![h] =
                   [Idle EXCEPT !.phase = "csrf", !.kind = kind, !.cookie = t, !.csrf = csrf]]
  /\ UNCHANGED <<now, membership, drawn, doomed, ended>>

\* Mutation: verifyCsrf trusts what get has found.
CsrfHoldsOnce(t, candidate) == Exists(t) /\ candidate = t

\* The query of verifyCsrf: the candidate is of this session, which still holds.
CsrfHolds(t, candidate) == candidate = t /\ LetIn(t, DatabaseClock)

\* verifyCsrf: a query of its own, without a lock.
VerifyCsrf(h) ==
  /\ At(h, "csrf")
  /\ IF CsrfHolds(handler[h].cookie, handler[h].csrf) THEN Go(h, "act") ELSE Ends(h)
  /\ UNCHANGED <<now, membership, session, drawn, doomed, ended>>

\* The request is carried out: a logout destroys its session, the others
\* call a repository.
Act(h) ==
  LET t == handler[h].cookie
  IN  /\ At(h, "act")
      /\ IF handler[h].kind = "logout" THEN ~LockedFor(h, t) /\ Revoke(t)
         ELSE UNCHANGED <<session, ended>>
      /\ Ends(h)
      /\ UNCHANGED <<now, membership, drawn, doomed>>

Next ==
  \/ Tick \/ RevokeMembership
  \/ \E h \in Handlers :
       \/ Fails(h) \/ Authenticate(h) \/ Rotate(h) \/ Create(h) \/ Purge(h) \/ Trim(h)
       \/ DeleteRow(h) \/ DeadlockVictim(h) \/ Insert(h)
       \/ Get(h) \/ VerifyCsrf(h) \/ Act(h)

Spec == Init /\ [][Next]_vars

-----------------------------------------------------------------------------
(* Properties *)

\* A session that a logout, a login with its cookie, an eviction or the end of
\* the membership has ended lets nobody in again, whoever inserts, deletes or
\* updates rows meanwhile; and a request that was let in before the session
\* ended, or expired by the database's clock, changes nothing once its CSRF
\* query finds it so (create, get, verifyCsrf, destroy).
EndedSessionsStayEnded ==
  [][/\ \A t \in ended : Exists(t)' => session'[t].seen = session[t].seen
     /\ \A h \in Handlers :
          At(h, "csrf") /\ At(h, "act")' =>
            /\ handler[h].cookie \notin ended
            /\ session[handler[h].cookie].expires > DatabaseClock]_vars

\* Sessions of an owner exceed maxSessions only by logins that ran at the
\* same time: each trims to one less than the capacity, by what it sees
\* (create).
SessionsStayBounded ==
  Cardinality({t \in Tokens : Exists(t) /\ ~session[t].revoked})
    <= MaxSessions - 1 + Cardinality(Handlers)
=============================================================================
