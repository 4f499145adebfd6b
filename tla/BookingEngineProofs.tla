------------------------ MODULE BookingEngineProofs ------------------------
(***************************************************************************)
(* Theorems about BookingEngine, for any number of properties, records,    *)
(* requests and calls in flight.                                           *)
(*                                                                         *)
(* The argument for the nights is in three layers: types; what a step of   *)
(* one call leaves Undisturbed of the others, so that a verdict reached    *)
(* under a lock stays true; and a write after a true verdict, which keeps  *)
(* a property free of overlaps.  IInv joins the three.                     *)
(*                                                                         *)
(* Then every write is summed up as what it does to one row of each table  *)
(* (RowMoves, RequestMoves, StoryMoves).  The invariants about requests,   *)
(* their inventory and the outbox, the action properties and the           *)
(* refinement of Calendar follow from these three.                         *)
(***************************************************************************)
EXTENDS BookingEngine, TLAPS

-----------------------------------------------------------------------------
(* Types *)

\* A call is of the kind its operation names.
LEMMA CallKinds ==
  ASSUME NEW c \in Calls
  PROVE  /\ c.op = "submit" => c \in SubmitCalls
         /\ c.op \in {"approve", "reject", "recheck", "expire"} => c \in DecideCalls
         /\ c.op = "insert" => c \in InsertCalls
         /\ c.op = "release" => c \in ReleaseCalls
         /\ c.op = "confirm" => c \in ConfirmCalls
         /\ c.op = "upsert" => c \in UpsertCalls
         /\ c.op = "withdraw" => c \in WithdrawCalls
         /\ c.op # "sweep" => c.prop \in Properties
  BY CallsAssumption
     DEF RequestCalls, AvailabilityCalls, ICalCalls, SubmitCalls, DecideCalls, InsertCalls,
         ReleaseCalls, ConfirmCalls, SweepCalls, UpsertCalls, WithdrawCalls

\* A process that is not idle has a call in flight.
LEMMA InFlight ==
  ASSUME TypeOK, NEW p \in Procs, txn[p].phase # "idle"
  PROVE  txn[p] \in Running
  BY DEF TypeOK, Idle

\* The initial tables are well typed.
LEMMA InitTypeOK == Init => TypeOK
  BY LegacyAssumption DEF Init, TypeOK, NoRow, Idle

\* Releasing active rows keeps the type of the table.
LEMMA ReleasedType ==
  ASSUME NEW rows \in [Ids -> {NoRow} \cup Block], NEW R \in SUBSET Ids,
         \A i \in R : rows[i].status = "active"
  PROVE  Released(rows, R) \in [Ids -> {NoRow} \cup Block]
  BY DEF Released, Block, NoRow

\* Turning a hold into an occupancy keeps the type of the table.
LEMMA PromotedType ==
  ASSUME TypeOK, NEW P \in Properties, NEW i \in Ids, block[P][i] \in Block
  PROVE  Promoted(P, i) \in [Properties -> [Ids -> {NoRow} \cup Block]]
<1>1. [block[P][i] EXCEPT !.kind = "occupancy", !.expires = 0] \in Block
  BY DEF Block, Kinds
<1> QED BY <1>1 DEF Promoted, TypeOK

\* Releasing an imported event keeps the type of its row.
LEMMA WithdrawnRowType ==
  ASSUME NEW row \in {NoRow} \cup FeedBlock, NEW version \in Nat \cup {NoVersion}
  PROVE  WithdrawnRow(row, version) \in {NoRow} \cup FeedBlock
<1>1. CASE row = NoRow
  BY <1>1 DEF WithdrawnRow, NoRow
<1>2. CASE row \in FeedBlock
  <2>1. [row EXCEPT !.status = "released"] \in FeedBlock
    BY <1>2 DEF FeedBlock
  <2>2. version \in Nat => [row EXCEPT !.status = "released", !.version = version] \in FeedBlock
    BY <1>2 DEF FeedBlock
  <2> QED BY <1>2, <2>1, <2>2 DEF WithdrawnRow
<1> QED BY <1>1, <1>2

\* Ending a call keeps the types of locks and calls.
LEMMA FinishType ==
  ASSUME TypeOK, NEW p \in Procs, Finish(p)
  PROVE  /\ now' \in Nat
         /\ lock' \in [Properties -> Procs \cup {NoProc}]
         /\ txn' \in [Procs -> {Idle} \cup Running]
  BY DEF TypeOK, Finish

\* A call that takes its locks and decides stays well typed.
LEMMA DecideType ==
  ASSUME TypeOK, NEW p \in Procs, txn[p] \in Running, NEW v \in Verdicts, Decide(p, v)
  PROVE  TypeOK'
<1>1. txn'[p] \in Running /\ txn' \in [Procs -> {Idle} \cup Running]
  BY DEF TypeOK, Decide, Running
<1>2. lock' \in [Properties -> Procs \cup {NoProc}]
  BY DEF TypeOK, Decide
<1> QED BY <1>1, <1>2 DEF TypeOK, Decide, tables

\* A call that is refused leaves a well-typed process.
LEMMA RefuseType ==
  ASSUME TypeOK, NEW p \in Procs, Refuse(p)
  PROVE  TypeOK'
  BY DEF TypeOK, Refuse, tables

\* A crash keeps the types.
LEMMA CrashType ==
  ASSUME TypeOK, NEW p \in Procs, Crash(p)
  PROVE  TypeOK'
  BY FinishType DEF TypeOK, Crash, tables

\* A client that begins a call keeps the types.
LEMMA BeginType ==
  ASSUME TypeOK, NEW p \in Procs, Begin(p)
  PROVE  TypeOK'
<1>0. PICK c \in Calls : \E at \in Instants(c) :
        txn' = [txn EXCEPT ![p] = [phase |-> "waiting", call |-> c, at |-> at,
                                   verdict |-> "none", todo |-> {}]]
  BY DEF Begin
<1>1. PICK at \in Instants(c) :
        txn' = [txn EXCEPT ![p] = [phase |-> "waiting", call |-> c, at |-> at,
                                   verdict |-> "none", todo |-> {}]]
  BY <1>0
<1>2. at \in Nat
  BY MaxTimeAssumption DEF Instants, TypeOK
<1>3. [phase |-> "waiting", call |-> c, at |-> at, verdict |-> "none", todo |-> {}] \in Running
  BY <1>2 DEF Running, Verdicts
<1> QED BY <1>1, <1>3 DEF TypeOK, Begin, tables

\* The read of any call about one property keeps the types.
LEMMA ReadType ==
  ASSUME TypeOK, NEW p \in Procs,
         \/ InsertRead(p) \/ ReleaseRead(p) \/ ConfirmRead(p)
         \/ SubmitRead(p) \/ DecideRead(p)
         \/ UpsertRead(p) \/ WithdrawRead(p)
  PROVE  TypeOK'
<1>1. txn[p] \in Running
  BY InFlight DEF InsertRead, ReleaseRead, ConfirmRead, SubmitRead, DecideRead, UpsertRead,
     WithdrawRead, Entering
<1>2. (\E v \in Verdicts : Decide(p, v)) \/ Refuse(p)
  <2>1. CASE InsertRead(p) BY <2>1 DEF InsertRead, Verdicts
  <2>2. CASE ReleaseRead(p) BY <2>2 DEF ReleaseRead, Verdicts
  <2>3. CASE ConfirmRead(p) BY <2>3 DEF ConfirmRead, Verdicts
  <2>4. CASE SubmitRead(p) BY <2>4 DEF SubmitRead, Verdicts
  <2>5. CASE DecideRead(p)
    <3> DEFINE v == Verdict(Call(p).op, Call(p).prop, Call(p).id, txn[p].at)
    <3>1. Call(p).op \in {"approve", "reject", "recheck", "expire"}
      BY <2>5 DEF DecideRead, Entering
    <3>2. v \in Verdicts
      BY <3>1 DEF Verdict, ApproveVerdict, Verdicts
    <3> QED BY <2>5, <3>2 DEF DecideRead
  <2>6. CASE UpsertRead(p) BY <2>6 DEF UpsertRead, Verdicts
  <2>7. CASE WithdrawRead(p) BY <2>7 DEF WithdrawRead, Verdicts
  <2> QED BY <2>1, <2>2, <2>3, <2>4, <2>5, <2>6, <2>7
<1> QED BY <1>1, <1>2, DecideType, RefuseType

\* The steps in which a sweep takes its locks keep the types.
LEMMA SweepReadType ==
  ASSUME TypeOK, NEW p \in Procs, SweepScan(p) \/ SweepLock(p)
  PROVE  TypeOK'
<1>1. txn[p] \in Running
  BY InFlight DEF SweepScan, SweepLock
<1>2. CASE SweepScan(p)
  <2>1. [txn[p] EXCEPT !.phase = "sweeping",
                       !.todo = {P \in Properties : ExpiredHolds(P, txn[p].at) # {}}] \in Running
    BY <1>1 DEF Running
  <2> QED BY <1>2, <2>1 DEF SweepScan, TypeOK, tables
<1>3. CASE SweepLock(p)
  <2>1. [txn[p] EXCEPT !.todo = @ \ {NextProperty(p)}] \in Running
    BY <1>1 DEF Running
  <2> QED BY <1>3, <2>1 DEF SweepLock, TypeOK, tables
<1> QED BY <1>2, <1>3

\* The writes of the availability repository keep the types.
LEMMA AvailabilityWriteType ==
  ASSUME TypeOK, NEW p \in Procs,
         InsertWrite(p) \/ ReleaseWrite(p) \/ ConfirmWrite(p) \/ SweepWrite(p)
  PROVE  TypeOK'
<1> DEFINE c == Call(p)
<1>1. txn[p] \in Running /\ Finish(p) /\ UNCHANGED <<feed, request, outbox>>
  BY InFlight DEF InsertWrite, ReleaseWrite, ConfirmWrite, SweepWrite, Holding
<1>2. c \in Calls
  BY <1>1 DEF Call, Running
<1>3. block' \in [Properties -> [Ids -> {NoRow} \cup Block]]
  <2>1. CASE InsertWrite(p)
    <3>1. c \in InsertCalls
      BY <1>2, <2>1, CallKinds DEF InsertWrite, Holding
    <3>2. NewBlock(c.kind, c.stay, c.expires) \in Block
      BY <3>1 DEF NewBlock, Block, InsertCalls
    <3> QED BY <2>1, <3>1, <3>2 DEF InsertWrite, TypeOK, InsertCalls
  <2>2. CASE ReleaseWrite(p)
    <3>1. c \in ReleaseCalls
      BY <1>2, <2>2, CallKinds DEF ReleaseWrite, Holding
    <3> DEFINE R == {i \in {c.id} : Releasable(c.prop, i, c.kind)}
    <3>2. Released(block[c.prop], R) \in [Ids -> {NoRow} \cup Block]
      <4>1. R \in SUBSET Ids /\ block[c.prop] \in [Ids -> {NoRow} \cup Block]
        BY <3>1 DEF ReleaseCalls, TypeOK
      <4>2. \A i \in R : block[c.prop][i].status = "active"
        BY DEF Releasable, ActiveAt
      <4> QED BY <4>1, <4>2, ReleasedType
    <3> QED BY <2>2, <3>1, <3>2 DEF ReleaseWrite, TypeOK, ReleaseCalls
  <2>3. CASE ConfirmWrite(p)
    <3>1. c \in ConfirmCalls
      BY <1>2, <2>3, CallKinds DEF ConfirmWrite, Holding
    <3>2. LiveHold(c.prop, c.id) => block[c.prop][c.id] \in Block
      BY <3>1 DEF LiveHold, ActiveAt, TypeOK, NoRow, ConfirmCalls
    <3>3. LiveHold(c.prop, c.id) =>
            Promoted(c.prop, c.id) \in [Properties -> [Ids -> {NoRow} \cup Block]]
      BY <3>1, <3>2, PromotedType DEF ConfirmCalls
    <3> QED BY <2>3, <3>3 DEF ConfirmWrite, TypeOK
  <2>4. CASE SweepWrite(p)
    <3> DEFINE at == txn[p].at
    <3>1. \A P \in Properties :
            Released(block[P], ExpiredHolds(P, at)) \in [Ids -> {NoRow} \cup Block]
      <4> SUFFICES ASSUME NEW P \in Properties
                   PROVE  Released(block[P], ExpiredHolds(P, at)) \in [Ids -> {NoRow} \cup Block]
        OBVIOUS
      <4>1. ExpiredHolds(P, at) \in SUBSET Ids /\ block[P] \in [Ids -> {NoRow} \cup Block]
        BY DEF ExpiredHolds, TypeOK
      <4>2. \A i \in ExpiredHolds(P, at) : block[P][i].status = "active"
        BY DEF ExpiredHolds, LiveHold, ActiveAt
      <4> QED BY <4>1, <4>2, ReleasedType
    <3> QED BY <2>4, <3>1 DEF SweepWrite, TypeOK
  <2> QED BY <2>1, <2>2, <2>3, <2>4
<1> QED BY <1>1, <1>3, FinishType DEF TypeOK

\* The writes of the imported calendar keep the types.
LEMMA ICalWriteType ==
  ASSUME TypeOK, NEW p \in Procs, UpsertWrite(p) \/ WithdrawWrite(p)
  PROVE  TypeOK'
<1> DEFINE c == Call(p)
<1>1. txn[p] \in Running /\ Finish(p) /\ UNCHANGED <<block, request, outbox>>
  BY InFlight DEF UpsertWrite, WithdrawWrite, Holding
<1>2. c \in Calls
  BY <1>1 DEF Call, Running
<1>3. feed' \in [Properties -> [Uids -> {NoRow} \cup FeedBlock]]
  <2>1. CASE UpsertWrite(p)
    <3>1. c \in UpsertCalls
      BY <1>2, <2>1, CallKinds DEF UpsertWrite, Holding
    <3>2. [status |-> "active", stay |-> c.stay, version |-> c.version] \in FeedBlock
      BY <3>1 DEF FeedBlock, UpsertCalls
    <3> QED BY <2>1, <3>1, <3>2 DEF UpsertWrite, TypeOK, UpsertCalls
  <2>2. CASE WithdrawWrite(p)
    <3>1. c \in WithdrawCalls
      BY <1>2, <2>2, CallKinds DEF WithdrawWrite, Holding
    <3>2. WithdrawnRow(feed[c.prop][c.uid], c.version) \in {NoRow} \cup FeedBlock
      <4>1. feed[c.prop][c.uid] \in {NoRow} \cup FeedBlock
        BY <3>1 DEF TypeOK, WithdrawCalls
      <4>2. c.version \in Nat \cup {NoVersion}
        BY <3>1 DEF WithdrawCalls
      <4> HIDE DEF c
      <4> QED BY <4>1, <4>2, WithdrawnRowType
    <3> QED BY <2>2, <3>1, <3>2 DEF WithdrawWrite, TypeOK, WithdrawCalls
  <2> QED BY <2>1, <2>2
<1> QED BY <1>1, <1>3, FinishType DEF TypeOK

\* Deciding requests keeps the type of their table.
LEMMA WithStatusType ==
  ASSUME TypeOK, NEW R \in SUBSET Ids, \A r \in R : Exists(r), NEW s \in Decisions
  PROVE  /\ WithStatus(R, s) \in [Ids -> {NoRow} \cup Request]
         /\ \A r \in Ids : Exists(r) => WithStatus(R, s)[r] \in Request
<1>1. \A r \in Ids : request[r] \in Request =>
        [request[r] EXCEPT !.status = s] \in Request
  BY DEF Request
<1> QED BY <1>1 DEF WithStatus, TypeOK, Exists

\* Announcing a set of requests keeps the type of the outbox.
LEMMA EmitType ==
  ASSUME TypeOK, NEW R \in SUBSET Ids, NEW e \in Events
  PROVE  Emit(R, e) \in SUBSET (Ids \X Events)
  BY DEF Emit, TypeOK

\* The inventory and the requests a submission sweeps stay well typed.
LEMMA SweptType ==
  ASSUME TypeOK, NEW P \in Properties, NEW at
  PROVE  Swept(P, at) \in [Ids -> {NoRow} \cup Block]
<1> DEFINE R == HoldsOf(P, Due(P, at)) \cup {i \in Ids : LiveHold(P, i) /\ block[P][i].expires <= at}
<1>1. R \in SUBSET Ids /\ block[P] \in [Ids -> {NoRow} \cup Block]
  BY DEF HoldsOf, TypeOK
<1>2. \A i \in R : block[P][i].status = "active"
  BY DEF HoldsOf, LiveHold, ActiveAt
<1>3. Released(block[P], R) \in [Ids -> {NoRow} \cup Block]
  <2> HIDE DEF R
  <2> QED BY <1>1, <1>2, ReleasedType
<1> QED BY <1>3 DEF Swept

\* What is due is a set of requests of the table.
LEMMA DueType ==
  ASSUME NEW P, NEW at
  PROVE  Due(P, at) \in SUBSET Ids /\ \A r \in Due(P, at) : Exists(r)
  BY DEF Due, IsPending

\* The writes of submit keep the types.
LEMMA SubmitWriteType ==
  ASSUME TypeOK, NEW p \in Procs, ReplayWrite(p) \/ SubmitWrite(p)
  PROVE  TypeOK'
<1> DEFINE c == Call(p)
           at == txn[p].at
           due == Due(c.prop, at)
           rows == Swept(c.prop, at)
<1>1. txn[p] \in Running /\ Finish(p) /\ UNCHANGED feed
  BY InFlight DEF ReplayWrite, SubmitWrite, Holding
<1>2. c \in SubmitCalls /\ at \in Nat
  BY <1>1, CallKinds DEF Call, Running, ReplayWrite, SubmitWrite, Holding
<1>3. rows \in [Ids -> {NoRow} \cup Block]
  BY <1>2, SweptType DEF SubmitCalls
<1>4. due \in SUBSET Ids /\ \A r \in due : Exists(r)
  BY DueType
<1>5. /\ WithStatus(due, "expired") \in [Ids -> {NoRow} \cup Request]
      /\ \A r \in Ids : Exists(r) => WithStatus(due, "expired")[r] \in Request
  <2> HIDE DEF due
  <2> QED BY <1>4, WithStatusType DEF Decisions
<1>6. Emit(due, "expired") \in SUBSET (Ids \X Events)
  <2> HIDE DEF due
  <2> QED BY <1>4, EmitType DEF Decisions, Events
<1>7. CASE ReplayWrite(p)
  <2>1. block' \in [Properties -> [Ids -> {NoRow} \cup Block]]
    <3> HIDE DEF c, at
    <3> QED BY <1>7, <1>2, <1>3 DEF ReplayWrite, TypeOK, SubmitCalls, c, at
  <2>2. request' \in [Ids -> {NoRow} \cup Request]
    <3>1. \A r \in Ids : Exists(r) =>
            [WithStatus(due, "expired")[r] EXCEPT !.fingerprint = "sha256"] \in Request
      <4> HIDE DEF due
      <4> QED BY <1>5 DEF Request
    <3>2. \A r \in SameKey(c) : Exists(r)
      BY DEF SameKey
    <3> QED BY <1>7, <1>5, <3>1, <3>2 DEF ReplayWrite
  <2>3. outbox' \in SUBSET (Ids \X Events)
    BY <1>6, <1>7 DEF ReplayWrite
  <2> QED BY <1>1, <2>1, <2>2, <2>3, FinishType DEF TypeOK
<1>8. CASE SubmitWrite(p)
  <2> DEFINE hold == NewBlock("hold", c.stay, at + HoldDuration)
  <2>1. hold \in Block
    BY <1>2, HoldDurationAssumption DEF NewBlock, Block, Kinds, SubmitCalls
  <2>2. NewRequest(c, at) \in Request
    BY <1>2, HoldDurationAssumption DEF NewRequest, Request, SubmitCalls
  <2>3. block' \in [Properties -> [Ids -> {NoRow} \cup Block]]
    <3>1. [rows EXCEPT ![c.id] = hold] \in [Ids -> {NoRow} \cup Block]
      BY <1>3, <2>1
    <3> QED BY <1>8, <1>2, <1>3, <3>1 DEF SubmitWrite, TypeOK, SubmitCalls
  <2>4. request' \in [Ids -> {NoRow} \cup Request]
    BY <1>8, <1>5, <2>2 DEF SubmitWrite, TypeOK
  <2>5. outbox' \in SUBSET (Ids \X Events)
    BY <1>8, <1>2, <1>6 DEF SubmitWrite, TypeOK, Events, SubmitCalls
  <2> QED BY <1>1, <2>3, <2>4, <2>5, FinishType DEF TypeOK
<1> QED BY <1>7, <1>8

\* The writes of the decisions keep the types.
LEMMA DecisionWriteType ==
  ASSUME TypeOK, NEW p \in Procs, OccupyWrite(p) \/ PromoteWrite(p) \/ CloseWrite(p)
  PROVE  TypeOK'
<1> DEFINE c == Call(p)
           P == c.prop
           r == c.id
<1>1. txn[p] \in Running /\ Finish(p) /\ UNCHANGED feed
  BY InFlight DEF OccupyWrite, PromoteWrite, CloseWrite, Deciding
<1>2. P \in Properties /\ r \in Ids
  <2>1. c \in DecideCalls
    BY <1>1, CallKinds DEF Call, Running, OccupyWrite, PromoteWrite, CloseWrite, Deciding
  <2> QED BY <2>1 DEF DecideCalls
<1>3. Exists(r) => request[r] \in Request
  BY <1>2 DEF Exists, TypeOK
<1>4. ASSUME NEW s \in Decisions, Exists(r)
      PROVE  /\ WithStatus({r}, s) \in [Ids -> {NoRow} \cup Request]
             /\ Emit({r}, s) \in SUBSET (Ids \X Events)
  <2>1. {r} \in SUBSET Ids /\ s \in Events
    BY <1>2 DEF Events
  <2> HIDE DEF r
  <2> QED BY <1>4, <2>1, WithStatusType, EmitType
<1>5. CASE block' = block /\ request' = request /\ outbox' = outbox
  BY <1>1, <1>5, FinishType DEF TypeOK
<1>6. CASE OccupyWrite(p) /\ IsPending(P, r)
  <2>0. Exists(r)
    BY <1>6 DEF IsPending
  <2>1. NewBlock("occupancy", request[r].stay, 0) \in Block
    BY <1>3, <2>0 DEF NewBlock, Block, Kinds, Request
  <2>2. [request[r] EXCEPT !.status = "approved", !.hold = r] \in Request
    BY <1>2, <1>3, <2>0 DEF Request, Decisions
  <2>3. Emit({r}, "approved") \in SUBSET (Ids \X Events)
    BY <1>4, <2>0 DEF Decisions
  <2>4. CASE Insertable(block[P], r, request[r].stay)
    <3>1. block' \in [Properties -> [Ids -> {NoRow} \cup Block]]
      <4> DEFINE new == NewBlock("occupancy", request[r].stay, 0)
      <4>1. block' = [block EXCEPT ![P][r] = new]
        BY <1>6, <2>4 DEF OccupyWrite
      <4> HIDE DEF new, c
      <4> QED BY <1>2, <2>1, <4>1 DEF TypeOK, new
    <3>2. request' \in [Ids -> {NoRow} \cup Request]
      BY <1>2, <1>6, <2>2, <2>4 DEF OccupyWrite, TypeOK
    <3>3. outbox' \in SUBSET (Ids \X Events)
      BY <1>6, <2>3, <2>4 DEF OccupyWrite
    <3> QED BY <1>1, <3>1, <3>2, <3>3, FinishType DEF TypeOK
  <2> QED BY <1>5, <1>6, <2>4 DEF OccupyWrite
<1>7. CASE PromoteWrite(p) /\ IsPending(P, r)
  <2>0. Exists(r)
    BY <1>7 DEF IsPending
  <2>1. CASE HasHold(r) /\ LiveHold(P, request[r].hold)
    <3>1. block' \in [Properties -> [Ids -> {NoRow} \cup Block]]
      <4>1. request[r].hold \in Ids
        BY <1>3, <2>0, <2>1 DEF HasHold, Request
      <4>2. block[P][request[r].hold] \in Block
        BY <1>2, <2>1, <4>1 DEF LiveHold, ActiveAt, TypeOK, NoRow
      <4>3. Promoted(P, request[r].hold) \in [Properties -> [Ids -> {NoRow} \cup Block]]
        BY <1>2, <4>1, <4>2, PromotedType
      <4> QED BY <1>7, <2>1, <4>3 DEF PromoteWrite
    <3>2. request' \in [Ids -> {NoRow} \cup Request]
      BY <1>4, <1>7, <2>0, <2>1 DEF PromoteWrite, Decisions
    <3>3. outbox' \in SUBSET (Ids \X Events)
      BY <1>4, <1>7, <2>0, <2>1 DEF PromoteWrite, Decisions
    <3> QED BY <1>1, <3>1, <3>2, <3>3, FinishType DEF TypeOK
  <2> QED BY <1>5, <1>7, <2>1 DEF PromoteWrite
<1>8. CASE CloseWrite(p) /\ IsPending(P, r)
  <2> DEFINE s == IF txn[p].verdict = "reject" THEN "rejected" ELSE "expired"
  <2>0. Exists(r) /\ s \in Decisions
    BY <1>8 DEF IsPending, Decisions
  <2>1. Released(block[P], HoldsOf(P, {r})) \in [Ids -> {NoRow} \cup Block]
    <3>1. HoldsOf(P, {r}) \in SUBSET Ids /\ block[P] \in [Ids -> {NoRow} \cup Block]
      BY <1>2 DEF HoldsOf, TypeOK
    <3>2. \A i \in HoldsOf(P, {r}) : block[P][i].status = "active"
      BY DEF HoldsOf, LiveHold, ActiveAt
    <3> QED BY <3>1, <3>2, ReleasedType
  <2>2. block' \in [Properties -> [Ids -> {NoRow} \cup Block]]
    BY <1>2, <1>8, <2>1 DEF CloseWrite, TypeOK
  <2>3. request' = WithStatus({r}, s) /\ outbox' = Emit({r}, s)
    BY <1>8 DEF CloseWrite
  <2>4. request' \in [Ids -> {NoRow} \cup Request] /\ outbox' \in SUBSET (Ids \X Events)
    BY <1>4, <2>0, <2>3
  <2> QED BY <1>1, <2>2, <2>4, FinishType DEF TypeOK
<1> QED BY <1>5, <1>6, <1>7, <1>8 DEF OccupyWrite, PromoteWrite, CloseWrite

\* Every step keeps the types.
LEMMA NextTypeOK == TypeOK /\ [Next]_vars => TypeOK'
<1> SUFFICES ASSUME TypeOK, [Next]_vars PROVE TypeOK'
  OBVIOUS
<1>1. CASE UNCHANGED vars
  BY <1>1 DEF vars, tables, TypeOK
<1>2. CASE Tick
  BY <1>2 DEF Tick, TypeOK, tables
<1>3. ASSUME NEW p \in Procs, Step(p) PROVE TypeOK'
  <2>1. CASE Begin(p) \/ Crash(p)
    BY <2>1, BeginType, CrashType
  <2>2. CASE RequestStep(p)
    BY <2>2, ReadType, SubmitWriteType, DecisionWriteType DEF RequestStep
  <2>3. CASE AvailabilityStep(p)
    BY <2>3, ReadType, SweepReadType, AvailabilityWriteType DEF AvailabilityStep
  <2>4. CASE ICalStep(p)
    BY <2>4, ReadType, ICalWriteType DEF ICalStep
  <2> QED BY <1>3, <2>1, <2>2, <2>3, <2>4 DEF Step, Progress
<1> QED BY <1>1, <1>2, <1>3 DEF Next

\* Every reachable state has the tables' types: constraints and handlers never
\* write a row the schema has no column values for.
THEOREM TypeCorrectness == Spec => []TypeOK
<1>1. Init => TypeOK
  BY InitTypeOK
<1>2. TypeOK /\ [Next]_vars => TypeOK'
  BY NextTypeOK
<1> QED BY <1>1, <1>2, PTL DEF Spec

-----------------------------------------------------------------------------
(* No double booking *)

\* Releasing rows makes no overlap.
LEMMA ReleasedDisjoint ==
  ASSUME NEW rows \in [Ids -> {NoRow} \cup Block], NEW events, NEW R, Disjoint(rows, events)
  PROVE  Disjoint(Released(rows, R), events)
<1>1. \A i \in Ids : Released(rows, R)[i].status = "active" =>
        rows[i].status = "active" /\ Released(rows, R)[i] = rows[i]
  <2> SUFFICES ASSUME NEW i \in Ids, Released(rows, R)[i].status = "active"
               PROVE  rows[i].status = "active" /\ Released(rows, R)[i] = rows[i]
    OBVIOUS
  <2>1. CASE i \in R
    <3>1. Released(rows, R)[i].status = "released"
      BY <2>1 DEF Released, Block, NoRow
    <3> QED BY <3>1
  <2> QED BY <2>1 DEF Released
<1> QED BY <1>1 DEF Disjoint

\* A row that the constraint and the imported calendar allow makes no overlap.
LEMMA InsertedDisjoint ==
  ASSUME NEW rows \in [Ids -> {NoRow} \cup Block], NEW events, NEW i \in Ids,
         NEW kind, NEW s, NEW expires,
         Disjoint(rows, events),
         Insertable(rows, i, s),
         \A u \in Uids : ~(events[u].status = "active" /\ Overlaps(events[u].stay, s))
  PROVE  Disjoint([rows EXCEPT ![i] = NewBlock(kind, s, expires)], events)
<1> DEFINE new == NewBlock(kind, s, expires)
           rows2 == [rows EXCEPT ![i] = new]
<1>1. new.stay = s
  BY DEF NewBlock
<1>2. rows2[i] = new /\ \A j \in Ids : j # i => rows2[j] = rows[j]
  OBVIOUS
<1>3. \A j \in Ids : rows[j].status = "active" => ~Overlaps(rows[j].stay, s) /\ ~Overlaps(s, rows[j].stay)
  BY DEF Insertable, Overlaps
<1> HIDE DEF rows2, new
<1>4. Disjoint(rows2, events)
  BY <1>1, <1>2, <1>3 DEF Disjoint
<1> QED BY <1>4 DEF rows2, new

\* A sweep makes no overlap.
LEMMA SweptDisjoint ==
  ASSUME TypeOK, NEW P \in Properties, NEW at, NEW events, Disjoint(block[P], events)
  PROVE  Disjoint(Swept(P, at), events)
  BY ReleasedDisjoint DEF Swept, TypeOK

\* Turning a hold into an occupancy of the same stay makes no overlap.
LEMMA PromotedDisjoint ==
  ASSUME TypeOK, NEW P \in Properties, NEW i \in Ids, block[P][i] \in Block,
         NEW Q \in Properties, Disjoint(block[Q], feed[Q])
  PROVE  Disjoint(Promoted(P, i)[Q], feed[Q])
<1>1. \A j \in Ids : /\ Promoted(P, i)[Q][j].status = block[Q][j].status
                     /\ Promoted(P, i)[Q][j].stay = block[Q][j].stay
  BY DEF Promoted, TypeOK, Block
<1> QED BY <1>1 DEF Disjoint

\* An imported event that no native record overlaps makes no overlap.
LEMMA UpsertedDisjoint ==
  ASSUME NEW rows, NEW events \in [Uids -> {NoRow} \cup FeedBlock], NEW u \in Uids,
         NEW row, Disjoint(rows, events),
         row.status = "active" => \A i \in Ids : ~(rows[i].status = "active" /\ Overlaps(row.stay, rows[i].stay))
  PROVE  Disjoint(rows, [events EXCEPT ![u] = row])
  BY DEF Disjoint

\* A released event keeps its stay or is not active.
LEMMA WithdrawnRowQuiet ==
  ASSUME NEW row \in {NoRow} \cup FeedBlock, NEW version \in Nat \cup {NoVersion},
         WithdrawnRow(row, version).status = "active"
  PROVE  WithdrawnRow(row, version) = row
<1>1. CASE row = NoRow
  BY <1>1 DEF WithdrawnRow, NoRow
<1>2. CASE row \in FeedBlock
  <2>1. /\ [row EXCEPT !.status = "released"].status = "released"
        /\ [row EXCEPT !.status = "released", !.version = version].status = "released"
    BY <1>2 DEF FeedBlock
  <2> QED BY <2>1 DEF WithdrawnRow
<1> QED BY <1>1, <1>2

\* What a step of p leaves as it was: the locks and the calls of the others,
\* the rows of every property whose lock p does not own, and the property and
\* stay of every request.
Undisturbed(p) ==
  /\ \A q \in Procs \ {p} :
       /\ txn'[q] = txn[q]
       /\ \A P \in Properties : lock[P] = q => lock'[P] = q
  /\ \A P \in Properties : lock[P] # p => block'[P] = block[P] /\ feed'[P] = feed[P]
  /\ \A r \in Ids : Exists(r) =>
       /\ request'[r] # NoRow
       /\ request'[r].prop = request[r].prop
       /\ request'[r].stay = request[r].stay

\* Ending a call disturbs no other one.
LEMMA FinishUndisturbed ==
  ASSUME TypeOK, NEW p \in Procs, Finish(p), NEW q \in Procs \ {p}
  PROVE  txn'[q] = txn[q] /\ \A P \in Properties : lock[P] = q => lock'[P] = q
  BY DEF Finish, TypeOK

\* A decision changes neither the property nor the stay of a request.
LEMMA WithStatusUndisturbed ==
  ASSUME TypeOK, NEW R, NEW s, NEW r \in Ids, Exists(r)
  PROVE  /\ WithStatus(R, s)[r].prop = request[r].prop
         /\ WithStatus(R, s)[r].stay = request[r].stay
         /\ WithStatus(R, s)[r] # NoRow
<1>1. request[r] \in Request
  BY DEF TypeOK, Exists
<1> QED BY <1>1 DEF WithStatus, Request, NoRow

Reads(p) ==
  \/ InsertRead(p) \/ ReleaseRead(p) \/ ConfirmRead(p)
  \/ SubmitRead(p) \/ DecideRead(p)
  \/ UpsertRead(p) \/ WithdrawRead(p)

\* A read disturbs nobody.
LEMMA ReadUndisturbed ==
  ASSUME TypeOK, NEW p \in Procs,
         Begin(p) \/ Crash(p) \/ Reads(p) \/ SweepScan(p) \/ SweepLock(p)
  PROVE  Undisturbed(p) /\ UNCHANGED tables
<1>1. UNCHANGED tables
  BY DEF Begin, Crash, Reads, InsertRead, ReleaseRead, ConfirmRead, SubmitRead, DecideRead,
     UpsertRead, WithdrawRead, SweepScan, SweepLock, Decide, Refuse
<1>2. \A r \in Ids : Exists(r) =>
       /\ request'[r] # NoRow
       /\ request'[r].prop = request[r].prop
       /\ request'[r].stay = request[r].stay
  BY <1>1 DEF tables, Exists
<1>3. ASSUME NEW q \in Procs \ {p}
      PROVE  txn'[q] = txn[q] /\ \A P \in Properties : lock[P] = q => lock'[P] = q
  <2>1. CASE Begin(p) \/ Refuse(p) \/ SweepScan(p)
    BY <2>1 DEF Begin, Refuse, SweepScan, TypeOK
  <2>2. CASE Crash(p)
    BY <2>2, FinishUndisturbed DEF Crash
  <2>3. CASE SweepLock(p)
    BY <2>3, ProcsAssumption DEF SweepLock, LockFree, TypeOK
  <2>4. ASSUME NEW op, NEW v, Entering(p, op), Decide(p, v)
        PROVE  txn'[q] = txn[q] /\ \A P \in Properties : lock[P] = q => lock'[P] = q
    BY <2>4, ProcsAssumption DEF Entering, Decide, LockFree, TypeOK
  <2>5. CASE Reads(p)
    BY <2>1, <2>4, <2>5 DEF Reads, InsertRead, ReleaseRead, ConfirmRead, SubmitRead, DecideRead,
       UpsertRead, WithdrawRead
  <2> QED BY <2>1, <2>2, <2>3, <2>5
<1> QED BY <1>1, <1>2, <1>3 DEF Undisturbed, tables

\* What a call that owns its lock has read, operation by operation.
LEMMA HoldingFacts ==
  ASSUME TypeOK, VerdictsHold, NEW p \in Procs, txn[p].phase = "holding"
  PROVE  /\ txn[p] \in Running
         /\ Call(p) \in Calls
         /\ Call(p).prop \in Properties
         /\ lock[Call(p).prop] = p
         /\ VerdictHolds(p)
<1>1. txn[p] \in Running /\ VerdictHolds(p)
  BY InFlight DEF VerdictsHold
<1>2. Call(p) \in Calls /\ Call(p).op # "sweep" /\ lock[Call(p).prop] = p
  BY <1>1 DEF Call, Running, VerdictHolds
<1> QED BY <1>1, <1>2, CallKinds

\* The writes of the availability repository keep every property disjoint and
\* disturb no other call.
LEMMA AvailabilityWriteKeeps ==
  ASSUME TypeOK, VerdictsHold, NoDoubleBooking, NEW p \in Procs,
         InsertWrite(p) \/ ReleaseWrite(p) \/ ConfirmWrite(p) \/ SweepWrite(p)
  PROVE  Undisturbed(p) /\ NoDoubleBooking'
<1> DEFINE c == Call(p)
<1>1. Finish(p) /\ UNCHANGED <<feed, request, outbox>>
  BY DEF InsertWrite, ReleaseWrite, ConfirmWrite, SweepWrite
<1>2. \A r \in Ids : Exists(r) =>
       /\ request'[r] # NoRow
       /\ request'[r].prop = request[r].prop
       /\ request'[r].stay = request[r].stay
  BY <1>1 DEF Exists
<1>3. ASSUME NEW P \in Properties
      PROVE  /\ lock[P] # p => block'[P] = block[P]
             /\ Disjoint(block'[P], feed[P])
  <2>1. block[P] \in [Ids -> {NoRow} \cup Block] /\ Disjoint(block[P], feed[P])
    BY DEF TypeOK, NoDoubleBooking
  <2>2. CASE InsertWrite(p)
    <3>1. c \in InsertCalls /\ lock[c.prop] = p /\ ~FeedConflict(c.prop, c.stay)
      BY <2>2, HoldingFacts, CallKinds DEF InsertWrite, Holding, VerdictHolds
    <3>2. CASE P = c.prop /\ Insertable(block[c.prop], c.id, c.stay)
      <4>1. block'[P] = [block[P] EXCEPT ![c.id] = NewBlock(c.kind, c.stay, c.expires)]
        BY <2>2, <3>2 DEF InsertWrite, TypeOK
      <4>2. Disjoint(block'[P], feed[P])
        BY <2>1, <3>1, <3>2, <4>1, InsertedDisjoint DEF FeedConflict, InsertCalls
      <4> QED BY <3>1, <3>2, <4>2
    <3>3. CASE ~(P = c.prop /\ Insertable(block[c.prop], c.id, c.stay))
      <4>1. block'[P] = block[P]
        BY <2>2, <3>3 DEF InsertWrite, TypeOK
      <4> QED BY <2>1, <4>1
    <3> QED BY <3>2, <3>3
  <2>3. CASE ReleaseWrite(p)
    <3> DEFINE R == {i \in {c.id} : Releasable(c.prop, i, c.kind)}
    <3>1. lock[c.prop] = p
      BY <2>3, HoldingFacts DEF ReleaseWrite, Holding
    <3>2. block'[P] = IF P = c.prop THEN Released(block[P], R) ELSE block[P]
      BY <2>3 DEF ReleaseWrite, TypeOK
    <3> HIDE DEF R
    <3> QED BY <2>1, <3>1, <3>2, ReleasedDisjoint
  <2>4. CASE ConfirmWrite(p)
    <3>1. c \in ConfirmCalls /\ lock[c.prop] = p
      BY <2>4, HoldingFacts, CallKinds DEF ConfirmWrite, Holding
    <3>2. CASE LiveHold(c.prop, c.id)
      <4>1. c.prop \in Properties /\ c.id \in Ids
        BY <3>1 DEF ConfirmCalls
      <4>2. block[c.prop][c.id] \in Block
        BY <3>2, <4>1 DEF LiveHold, ActiveAt, TypeOK, NoRow
      <4>3. block' = Promoted(c.prop, c.id)
        BY <2>4, <3>2 DEF ConfirmWrite
      <4>4. Disjoint(Promoted(c.prop, c.id)[P], feed[P])
        BY <2>1, <4>1, <4>2, PromotedDisjoint
      <4>5. P # c.prop => Promoted(c.prop, c.id)[P] = block[P]
        BY DEF Promoted, TypeOK
      <4> QED BY <3>1, <4>3, <4>4, <4>5
    <3> QED BY <2>1, <2>4, <3>2 DEF ConfirmWrite
  <2>5. CASE SweepWrite(p)
    <3>1. block'[P] = IF lock[P] = p THEN Released(block[P], ExpiredHolds(P, txn[p].at)) ELSE block[P]
      BY <2>5 DEF SweepWrite
    <3> QED BY <2>1, <3>1, ReleasedDisjoint
  <2> QED BY <2>2, <2>3, <2>4, <2>5
<1>4. Undisturbed(p)
  BY <1>1, <1>2, <1>3, FinishUndisturbed DEF Undisturbed
<1>5. NoDoubleBooking'
  BY <1>1, <1>3 DEF NoDoubleBooking
<1> QED BY <1>4, <1>5

\* The writes of the imported calendar do the same.
LEMMA ICalWriteKeeps ==
  ASSUME TypeOK, VerdictsHold, NoDoubleBooking, NEW p \in Procs,
         UpsertWrite(p) \/ WithdrawWrite(p)
  PROVE  Undisturbed(p) /\ NoDoubleBooking'
<1> DEFINE c == Call(p)
<1>1. Finish(p) /\ UNCHANGED <<block, request, outbox>>
  BY DEF UpsertWrite, WithdrawWrite
<1>2. \A r \in Ids : Exists(r) =>
       /\ request'[r] # NoRow
       /\ request'[r].prop = request[r].prop
       /\ request'[r].stay = request[r].stay
  BY <1>1 DEF Exists
<1>3. lock[c.prop] = p /\ c.prop \in Properties
  BY HoldingFacts DEF UpsertWrite, WithdrawWrite, Holding
<1>4. ASSUME NEW P \in Properties
      PROVE  /\ P # c.prop => feed'[P] = feed[P]
             /\ Disjoint(block[P], feed'[P])
  <2>1. feed[P] \in [Uids -> {NoRow} \cup FeedBlock] /\ Disjoint(block[P], feed[P])
    BY DEF TypeOK, NoDoubleBooking
  <2>2. CASE UpsertWrite(p)
    <3> DEFINE row == [status |-> "active", stay |-> c.stay, version |-> c.version]
    <3>1. c \in UpsertCalls /\ ~NativeConflict(c.prop, c.stay)
      BY <2>2, HoldingFacts, CallKinds DEF UpsertWrite, Holding, VerdictHolds
    <3>2. CASE P = c.prop /\ NotStale(feed[c.prop][c.uid], c)
      <4>1. feed'[P] = [feed[P] EXCEPT ![c.uid] = row]
        BY <2>2, <3>2 DEF UpsertWrite, TypeOK
      <4>2. row.stay = c.stay /\ c.uid \in Uids
        BY <3>1 DEF UpsertCalls
      <4>3. \A i \in Ids : ~(block[P][i].status = "active" /\ Overlaps(row.stay, block[P][i].stay))
        BY <3>1, <3>2, <4>2 DEF NativeConflict, ActiveAt, Overlaps
      <4> HIDE DEF row, c
      <4>4. Disjoint(block[P], feed'[P])
        BY <2>1, <4>1, <4>2, <4>3, UpsertedDisjoint
      <4> QED BY <3>2, <4>4
    <3>3. CASE ~(P = c.prop /\ NotStale(feed[c.prop][c.uid], c))
      <4>1. feed'[P] = feed[P]
        BY <2>2, <3>3 DEF UpsertWrite, TypeOK
      <4> QED BY <2>1, <4>1
    <3> QED BY <3>2, <3>3
  <2>3. CASE WithdrawWrite(p)
    <3> DEFINE row == WithdrawnRow(feed[P][c.uid], c.version)
    <3>1. c.uid \in Uids /\ c.version \in Nat \cup {NoVersion}
      BY <2>3, HoldingFacts, CallKinds DEF WithdrawWrite, Holding, WithdrawCalls
    <3>2. feed'[P] = IF P = c.prop THEN [feed[P] EXCEPT ![c.uid] = row] ELSE feed[P]
      BY <2>3 DEF WithdrawWrite, TypeOK
    <3>3. row.status = "active" => row = feed[P][c.uid]
      BY <2>1, <3>1, WithdrawnRowQuiet
    <3>4. row.status = "active" =>
            \A i \in Ids : ~(block[P][i].status = "active" /\ Overlaps(row.stay, block[P][i].stay))
      BY <2>1, <3>1, <3>3 DEF Disjoint
    <3> HIDE DEF row, c
    <3> QED BY <2>1, <3>1, <3>2, <3>4, UpsertedDisjoint
  <2> QED BY <2>2, <2>3
<1>5. Undisturbed(p)
  BY <1>1, <1>2, <1>3, <1>4, FinishUndisturbed DEF Undisturbed
<1>6. NoDoubleBooking'
  BY <1>1, <1>4 DEF NoDoubleBooking
<1> QED BY <1>5, <1>6

\* The writes of submit do the same, with or without an inventory row.
LEMMA SubmitWriteKeeps ==
  ASSUME TypeOK, VerdictsHold, NoDoubleBooking, NEW p \in Procs,
         ReplayWrite(p) \/ SubmitWrite(p)
  PROVE  Undisturbed(p) /\ NoDoubleBooking'
<1> DEFINE c == Call(p)
           at == txn[p].at
           due == Due(c.prop, at)
           rows == Swept(c.prop, at)
<1>1. Finish(p) /\ UNCHANGED feed
  BY DEF ReplayWrite, SubmitWrite
<1>2. c \in SubmitCalls /\ lock[c.prop] = p /\ c.prop \in Properties /\ at \in Nat
  BY HoldingFacts, CallKinds DEF ReplayWrite, SubmitWrite, Holding, Running
<1>3. /\ rows \in [Ids -> {NoRow} \cup Block]
      /\ Disjoint(rows, feed[c.prop])
  <2>1. Disjoint(block[c.prop], feed[c.prop])
    BY <1>2 DEF NoDoubleBooking
  <2> HIDE DEF c, at
  <2> QED BY <1>2, <2>1, SweptType, SweptDisjoint
<1>4. due \in SUBSET Ids /\ \A r \in due : Exists(r)
  BY DueType
<1>5. \A r \in Ids : Exists(r) =>
        /\ WithStatus(due, "expired")[r] \in Request
        /\ WithStatus(due, "expired")[r].prop = request[r].prop
        /\ WithStatus(due, "expired")[r].stay = request[r].stay
  <2> HIDE DEF due
  <2> QED BY <1>4, WithStatusType, WithStatusUndisturbed DEF Decisions
<1>6. \A r \in Ids : Exists(r) =>
       /\ request'[r] # NoRow
       /\ request'[r].prop = request[r].prop
       /\ request'[r].stay = request[r].stay
  <2> SUFFICES ASSUME NEW r \in Ids, Exists(r)
               PROVE  /\ request'[r] # NoRow
                      /\ request'[r].prop = request[r].prop
                      /\ request'[r].stay = request[r].stay
    OBVIOUS
  <2> DEFINE row == WithStatus(due, "expired")[r]
  <2>1. /\ row \in Request
        /\ row.prop = request[r].prop
        /\ row.stay = request[r].stay
    BY <1>5
  <2> HIDE DEF row, due, c, at, rows
  <2>2. CASE ReplayWrite(p)
    <3>1. request'[r] = IF r \in SameKey(c) THEN [row EXCEPT !.fingerprint = "sha256"] ELSE row
      BY <2>2 DEF ReplayWrite, row, due, c, at
    <3>2. [row EXCEPT !.fingerprint = "sha256"] \in Request
      BY <2>1 DEF Request
    <3> QED BY <2>1, <3>1, <3>2 DEF Request, NoRow
  <2>3. CASE SubmitWrite(p)
    <3>1. request'[r] = row \/ request' = request
      <4>1. CASE Accepted(c, rows)
        <5>1. r # c.id
          BY <4>1 DEF Accepted
        <5>2. request' = [WithStatus(due, "expired") EXCEPT ![c.id] = NewRequest(c, at)]
          BY <2>3, <4>1 DEF SubmitWrite, rows, due, c, at
        <5> QED BY <5>1, <5>2 DEF row, WithStatus
      <4> QED BY <2>3, <4>1 DEF SubmitWrite, rows, due, c, at
    <3> QED BY <2>1, <3>1 DEF Request, NoRow, Exists
  <2> QED BY <2>2, <2>3
<1>7. ASSUME NEW P \in Properties
      PROVE  /\ P # c.prop => block'[P] = block[P]
             /\ Disjoint(block'[P], feed[P])
  <2>1. Disjoint(block[P], feed[P])
    BY DEF NoDoubleBooking
  <2>2. CASE ReplayWrite(p)
    <3>1. block'[P] = IF P = c.prop THEN rows ELSE block[P]
      BY <2>2 DEF ReplayWrite, TypeOK
    <3> QED BY <1>3, <2>1, <3>1
  <2>3. CASE SubmitWrite(p)
    <3> DEFINE hold == NewBlock("hold", c.stay, at + HoldDuration)
               added == IF c.defer THEN rows ELSE [rows EXCEPT ![c.id] = hold]
    <3>1. CASE Accepted(c, rows)
      <4>1. block'[P] = IF P = c.prop THEN added ELSE block[P]
        BY <2>3, <3>1 DEF SubmitWrite, TypeOK
      <4>2. Disjoint(added, feed[c.prop])
        <5>1. CASE ~c.defer
          <6>1. Insertable(rows, c.id, c.stay) /\ c.id \in Ids
            BY <1>2, <3>1, <5>1 DEF Accepted, SubmitCalls
          <6>2. ~FeedConflict(c.prop, c.stay)
            BY <2>3, <5>1, HoldingFacts DEF SubmitWrite, Holding, VerdictHolds
          <6>3. \A u \in Uids : ~(feed[c.prop][u].status = "active" /\ Overlaps(feed[c.prop][u].stay, c.stay))
            BY <6>2 DEF FeedConflict
          <6> HIDE DEF rows, c
          <6> QED BY <1>3, <5>1, <6>1, <6>3, InsertedDisjoint
        <5> QED BY <1>3, <5>1
      <4> QED BY <2>1, <4>1, <4>2
    <3>2. CASE ~Accepted(c, rows)
      <4>1. block' = block
        BY <2>3, <3>2 DEF SubmitWrite
      <4> QED BY <2>1, <4>1
    <3> QED BY <3>1, <3>2
  <2> QED BY <2>2, <2>3
<1>8. Undisturbed(p)
  BY <1>1, <1>2, <1>6, <1>7, FinishUndisturbed DEF Undisturbed
<1>9. NoDoubleBooking'
  BY <1>1, <1>7 DEF NoDoubleBooking
<1> QED BY <1>8, <1>9

\* The writes of the decisions do the same.
LEMMA DecisionWriteKeeps ==
  ASSUME TypeOK, VerdictsHold, NoDoubleBooking, NEW p \in Procs,
         OccupyWrite(p) \/ PromoteWrite(p) \/ CloseWrite(p)
  PROVE  Undisturbed(p) /\ NoDoubleBooking'
<1> DEFINE P == Call(p).prop
           r == Call(p).id
<1>1. Finish(p) /\ UNCHANGED feed
  BY DEF OccupyWrite, PromoteWrite, CloseWrite
<1>2. txn[p].phase = "holding"
  BY DEF OccupyWrite, PromoteWrite, CloseWrite, Deciding
<1>3. lock[P] = p /\ P \in Properties /\ r \in Ids
  <2>1. Call(p) \in DecideCalls
    BY <1>2, HoldingFacts, CallKinds DEF OccupyWrite, PromoteWrite, CloseWrite, Deciding
  <2> QED BY <1>2, <2>1, HoldingFacts DEF DecideCalls
<1>4. /\ \A q \in Ids : Exists(q) => request[q] \in Request
      /\ block[P] \in [Ids -> {NoRow} \cup Block]
      /\ \A Q \in Properties : Disjoint(block[Q], feed[Q])
  BY <1>3 DEF TypeOK, Exists, NoDoubleBooking
<1>5. ASSUME NEW s
      PROVE  \A q \in Ids : Exists(q) =>
               /\ WithStatus({r}, s)[q] # NoRow
               /\ WithStatus({r}, s)[q].prop = request[q].prop
               /\ WithStatus({r}, s)[q].stay = request[q].stay
  BY WithStatusUndisturbed
<1>6. CASE block' = block /\ request' = request
  <2>1. Undisturbed(p)
    BY <1>1, <1>6, FinishUndisturbed DEF Undisturbed, Exists
  <2> QED BY <1>1, <1>6, <2>1 DEF NoDoubleBooking
<1>7. CASE OccupyWrite(p) /\ IsPending(P, r) /\ Insertable(block[P], r, request[r].stay)
  <2> DEFINE new == NewBlock("occupancy", request[r].stay, 0)
             row == [request[r] EXCEPT !.status = "approved", !.hold = r]
  <2>1. block' = [block EXCEPT ![P][r] = new]
    BY <1>7 DEF OccupyWrite
  <2>2. request' = [request EXCEPT ![r] = row]
    BY <1>7 DEF OccupyWrite
  <2>3. ~FeedConflict(P, request[r].stay)
    BY <1>2, <1>7, HoldingFacts DEF OccupyWrite, Deciding, VerdictHolds
  <2>4. Disjoint([block[P] EXCEPT ![r] = new], feed[P])
    <3>1. \A u \in Uids : ~(feed[P][u].status = "active" /\ Overlaps(feed[P][u].stay, request[r].stay))
      BY <2>3 DEF FeedConflict
    <3> HIDE DEF P, r
    <3> QED BY <1>3, <1>4, <1>7, <3>1, InsertedDisjoint
  <2>5. \A Q \in Properties : block'[Q] = IF Q = P THEN [block[P] EXCEPT ![r] = new] ELSE block[Q]
    <3> HIDE DEF new, P, r
    <3> QED BY <1>3, <2>1 DEF TypeOK
  <2>6. \A q \in Ids : Exists(q) =>
          /\ request'[q] # NoRow
          /\ request'[q].prop = request[q].prop
          /\ request'[q].stay = request[q].stay
    <3>1. row # NoRow /\ row.prop = request[r].prop /\ row.stay = request[r].stay
      BY <1>3, <1>4, <1>7 DEF IsPending, Request, NoRow
    <3>2. \A q \in Ids : request'[q] = IF q = r THEN row ELSE request[q]
      <4> HIDE DEF row, r
      <4> QED BY <1>3, <2>2 DEF TypeOK
    <3> QED BY <3>1, <3>2 DEF Exists
  <2>7. Undisturbed(p)
    <3> HIDE DEF P, r, new
    <3> QED BY <1>1, <1>3, <2>5, <2>6, FinishUndisturbed DEF Undisturbed
  <2>8. NoDoubleBooking'
    <3> HIDE DEF P, r, new
    <3> QED BY <1>1, <1>4, <2>4, <2>5 DEF NoDoubleBooking
  <2> QED BY <2>7, <2>8
<1>8. CASE PromoteWrite(p) /\ IsPending(P, r) /\ HasHold(r) /\ LiveHold(P, request[r].hold)
  <2> DEFINE h == request[r].hold
  <2>1. h \in Ids
    BY <1>3, <1>4, <1>8 DEF IsPending, HasHold, Request
  <2>2. block[P][h] \in Block
    BY <1>4, <1>8, <2>1 DEF LiveHold, ActiveAt, NoRow
  <2>3. block' = Promoted(P, h) /\ request' = WithStatus({r}, "approved")
    BY <1>8 DEF PromoteWrite
  <2>4. \A Q \in Properties : /\ Disjoint(Promoted(P, h)[Q], feed[Q])
                              /\ Q # P => Promoted(P, h)[Q] = block[Q]
    <3>1. \A Q \in Properties : Q # P => Promoted(P, h)[Q] = block[Q]
      BY DEF Promoted, TypeOK
    <3> HIDE DEF P, h
    <3> QED BY <1>3, <1>4, <2>1, <2>2, <3>1, PromotedDisjoint
  <2>5. Undisturbed(p)
    <3> HIDE DEF h
    <3> QED BY <1>1, <1>3, <1>5, <2>3, <2>4, FinishUndisturbed DEF Undisturbed
  <2> QED BY <1>1, <2>3, <2>4, <2>5 DEF NoDoubleBooking
<1>9. CASE CloseWrite(p) /\ IsPending(P, r)
  <2> DEFINE R == HoldsOf(P, {r})
             s == IF txn[p].verdict = "reject" THEN "rejected" ELSE "expired"
  <2>1. block' = [block EXCEPT ![P] = Released(@, R)] /\ request' = WithStatus({r}, s)
    BY <1>9 DEF CloseWrite
  <2> HIDE DEF R, s
  <2>2. \A Q \in Properties : block'[Q] = IF Q = P THEN Released(block[P], R) ELSE block[Q]
    BY <2>1 DEF TypeOK
  <2>3. Disjoint(Released(block[P], R), feed[P])
    BY <1>3, <1>4, ReleasedDisjoint
  <2>4. Undisturbed(p)
    BY <1>1, <1>3, <1>5, <2>1, <2>2, FinishUndisturbed DEF Undisturbed
  <2> QED BY <1>1, <1>4, <2>2, <2>3, <2>4 DEF NoDoubleBooking
<1> QED BY <1>6, <1>7, <1>8, <1>9 DEF OccupyWrite, PromoteWrite, CloseWrite

\* A step that leaves a call undisturbed leaves its verdict true.
LEMMA OthersVerdictsHold ==
  ASSUME TypeOK, VerdictsHold, NEW p \in Procs, Undisturbed(p),
         NEW q \in Procs \ {p}, txn'[q].phase = "holding"
  PROVE  VerdictHolds(q)'
<1> DEFINE c == Call(q)
<1>1. txn'[q] = txn[q] /\ txn[q].phase = "holding" /\ VerdictHolds(q)
  BY DEF Undisturbed, VerdictsHold
<1>2. c \in Calls /\ c.prop \in Properties /\ lock[c.prop] = q
  BY <1>1, HoldingFacts
<1>3. lock'[c.prop] = q /\ block'[c.prop] = block[c.prop] /\ feed'[c.prop] = feed[c.prop]
  BY <1>2 DEF Undisturbed
<1>4. Exists(c.id) /\ c.id \in Ids =>
        request'[c.id] # NoRow /\ request'[c.id].prop = request[c.id].prop
        /\ request'[c.id].stay = request[c.id].stay
  BY DEF Undisturbed
<1>5. txn[q].verdict = "occupy" => c.id \in Ids
  <2>1. txn[q].verdict = "occupy" => c \in DecideCalls
    BY <1>1, <1>2, CallKinds DEF VerdictHolds
  <2> QED BY <2>1 DEF DecideCalls
<1>6. Call(q)' = c
  BY <1>1 DEF Call
<1> HIDE DEF c
<1> QED BY <1>1, <1>2, <1>3, <1>4, <1>5, <1>6 DEF VerdictHolds, FeedConflict, NativeConflict, ActiveAt, Exists, c

\* A verdict is true when it is reached.
LEMMA OwnVerdictHolds ==
  ASSUME TypeOK, NEW p \in Procs, Reads(p), txn'[p].phase = "holding"
  PROVE  VerdictHolds(p)'
<1> DEFINE c == Call(p)
<1>1. PICK op, v : Entering(p, op) /\ Decide(p, v)
  <2>1. ~Refuse(p)
    BY DEF Refuse, TypeOK, Idle
  <2> QED BY <2>1 DEF Reads, InsertRead, ReleaseRead, ConfirmRead, SubmitRead, DecideRead,
               UpsertRead, WithdrawRead
<1>2. txn[p] \in Running /\ c \in Calls /\ c.op = op
  BY <1>1, InFlight DEF Entering, Call, Running
<1>3. Call(p)' = c /\ txn'[p].verdict = v /\ UNCHANGED tables
  BY <1>1, <1>2 DEF Decide, TypeOK, Call, Running
<1>4. c.op # "sweep"
  BY <1>1 DEF Reads, InsertRead, ReleaseRead, ConfirmRead, SubmitRead, DecideRead, UpsertRead,
     WithdrawRead, Entering
<1>5. lock'[c.prop] = p
  BY <1>1, <1>2, <1>4, CallKinds DEF Decide, TypeOK
<1>6. c.op = "insert" => ~FeedConflict(c.prop, c.stay)
  <2>1. c.op = "insert" => InsertRead(p)
    BY DEF Reads, InsertRead, ReleaseRead, ConfirmRead, SubmitRead, DecideRead, UpsertRead,
       WithdrawRead, Entering
  <2>2. ~Refuse(p)
    BY DEF Refuse, TypeOK, Idle
  <2> QED BY <2>1, <2>2 DEF InsertRead
<1>7. c.op = "upsert" => ~NativeConflict(c.prop, c.stay)
  <2>1. c.op = "upsert" => UpsertRead(p)
    BY DEF Reads, InsertRead, ReleaseRead, ConfirmRead, SubmitRead, DecideRead, UpsertRead,
       WithdrawRead, Entering
  <2>2. ~Refuse(p)
    BY DEF Refuse, TypeOK, Idle
  <2> QED BY <2>1, <2>2 DEF UpsertRead
<1>8. c.op = "submit" /\ v = "insert" /\ ~c.defer => ~FeedConflict(c.prop, c.stay)
  <2>1. c.op = "submit" => SubmitRead(p)
    BY DEF Reads, InsertRead, ReleaseRead, ConfirmRead, SubmitRead, DecideRead, UpsertRead,
       WithdrawRead, Entering
  <2>2. ~Refuse(p)
    BY DEF Refuse, TypeOK, Idle
  <2>3. v = "insert" => ~Decide(p, "replay")
    BY <1>2, <1>3 DEF Decide, TypeOK, Running
  <2> QED BY <2>1, <2>2, <2>3 DEF SubmitRead
<1>9. v = "occupy" =>
        /\ c.op = "approve"
        /\ Exists(c.id)
        /\ request[c.id].prop = c.prop
        /\ ~FeedConflict(c.prop, request[c.id].stay)
  <2> SUFFICES ASSUME v = "occupy"
               PROVE  /\ c.op = "approve"
                      /\ Exists(c.id)
                      /\ request[c.id].prop = c.prop
                      /\ ~FeedConflict(c.prop, request[c.id].stay)
    OBVIOUS
  <2> DEFINE w == Verdict(c.op, c.prop, c.id, txn[p].at)
  <2>1. \A x : Decide(p, x) => x = "occupy"
    BY <1>2, <1>3 DEF Decide, TypeOK, Running
  <2>2. ~Refuse(p)
    BY DEF Refuse, TypeOK, Idle
  <2>3. DecideRead(p)
    BY <2>1, <2>2 DEF Reads, InsertRead, ReleaseRead, ConfirmRead, SubmitRead, UpsertRead,
       WithdrawRead
  <2>4. w = "occupy" /\ c.op \in {"approve", "reject", "recheck", "expire"}
    BY <2>1, <2>2, <2>3 DEF DecideRead, Entering
  <2>5. /\ c.op = "approve"
        /\ IsPending(c.prop, c.id)
        /\ ApproveVerdict(c.prop, c.id, txn[p].at) = "occupy"
    BY <2>4 DEF Verdict
  <2>6. ~FeedConflict(c.prop, request[c.id].stay)
    BY <2>5 DEF ApproveVerdict
  <2> QED BY <2>5, <2>6 DEF IsPending
<1>10. UNCHANGED <<block, feed, request>>
  BY <1>3 DEF tables
<1> HIDE DEF c
<1> QED BY <1>3, <1>4, <1>5, <1>6, <1>7, <1>8, <1>9, <1>10
        DEF VerdictHolds, FeedConflict, NativeConflict, ActiveAt, Exists, c

\* What a step of the engine preserves.
IInv == TypeOK /\ VerdictsHold /\ NoDoubleBooking

\* A call owns its property's lock, with a verdict, only once it has read.
LEMMA HoldsAfterRead ==
  ASSUME TypeOK, NEW p \in Procs, Step(p), txn'[p].phase = "holding"
  PROVE  Reads(p)
<1> DEFINE Writes == \/ InsertWrite(p) \/ ReleaseWrite(p) \/ ConfirmWrite(p) \/ SweepWrite(p)
                     \/ UpsertWrite(p) \/ WithdrawWrite(p)
                     \/ ReplayWrite(p) \/ SubmitWrite(p)
                     \/ OccupyWrite(p) \/ PromoteWrite(p) \/ CloseWrite(p)
<1>0. Begin(p) \/ Crash(p) \/ Reads(p) \/ SweepScan(p) \/ SweepLock(p) \/ Writes
  BY DEF Step, Progress, RequestStep, AvailabilityStep, ICalStep, Reads
<1>1. Writes \/ Crash(p) => txn'[p] = Idle
  BY DEF Crash, InsertWrite, ReleaseWrite, ConfirmWrite, SweepWrite, UpsertWrite,
     WithdrawWrite, ReplayWrite, SubmitWrite, OccupyWrite, PromoteWrite, CloseWrite, Finish, TypeOK
<1>2. Begin(p) => txn'[p].phase = "waiting"
  BY DEF Begin, TypeOK
<1>3. SweepScan(p) \/ SweepLock(p) => txn'[p].phase = "sweeping"
  <2>1. ASSUME SweepScan(p) PROVE txn'[p].phase = "sweeping"
    <3>1. txn[p] \in Running /\ txn \in [Procs -> {Idle} \cup Running]
      BY <2>1, InFlight DEF SweepScan, TypeOK
    <3>2. txn'[p] = [txn[p] EXCEPT !.phase = "sweeping", !.todo = txn'[p].todo]
      BY <2>1, <3>1 DEF SweepScan, Running
    <3> QED BY <3>1, <3>2 DEF Running
  <2>2. ASSUME SweepLock(p) PROVE txn'[p].phase = "sweeping"
    <3>1. txn[p] \in Running /\ txn \in [Procs -> {Idle} \cup Running]
      BY <2>2, InFlight DEF SweepLock, TypeOK
    <3>2. txn'[p] = [txn[p] EXCEPT !.todo = txn'[p].todo]
      BY <2>2, <3>1 DEF SweepLock, Running
    <3> QED BY <2>2, <3>1, <3>2 DEF SweepLock, Running
  <2> QED BY <2>1, <2>2
<1> QED BY <1>0, <1>1, <1>2, <1>3 DEF Idle

\* A step of one process keeps the invariant.
LEMMA StepPreservesIInv ==
  ASSUME IInv, NEW p \in Procs, Step(p)
  PROVE  VerdictsHold' /\ NoDoubleBooking'
<1> DEFINE Quiet == Begin(p) \/ Crash(p) \/ Reads(p) \/ SweepScan(p) \/ SweepLock(p)
           Writes == \/ InsertWrite(p) \/ ReleaseWrite(p) \/ ConfirmWrite(p) \/ SweepWrite(p)
                     \/ UpsertWrite(p) \/ WithdrawWrite(p)
                     \/ ReplayWrite(p) \/ SubmitWrite(p)
                     \/ OccupyWrite(p) \/ PromoteWrite(p) \/ CloseWrite(p)
<1>1. TypeOK /\ VerdictsHold /\ NoDoubleBooking
  BY DEF IInv
<1>2. Quiet \/ Writes
  BY DEF Step, Progress, RequestStep, AvailabilityStep, ICalStep, Reads
<1>3. Undisturbed(p)
  BY <1>1, <1>2, ReadUndisturbed, AvailabilityWriteKeeps, ICalWriteKeeps, SubmitWriteKeeps,
     DecisionWriteKeeps
<1>4. NoDoubleBooking'
  <2>1. CASE Quiet
    BY <1>1, <2>1, ReadUndisturbed DEF NoDoubleBooking, Disjoint, tables
  <2>2. CASE Writes
    BY <1>1, <2>2, AvailabilityWriteKeeps, ICalWriteKeeps, SubmitWriteKeeps, DecisionWriteKeeps
  <2> QED BY <1>2, <2>1, <2>2
<1>5. txn'[p].phase = "holding" => Reads(p)
  BY <1>1, HoldsAfterRead
<1>6. VerdictsHold'
  <2> SUFFICES ASSUME NEW q \in Procs, txn'[q].phase = "holding" PROVE VerdictHolds(q)'
    BY DEF VerdictsHold
  <2>1. CASE q = p
    BY <1>1, <1>5, <2>1, OwnVerdictHolds
  <2>2. CASE q # p
    BY <1>1, <1>3, <2>2, OthersVerdictsHold
  <2> QED BY <2>1, <2>2
<1> QED BY <1>4, <1>6

\* The invariant holds initially.
LEMMA InitIInv == Init => IInv
<1> SUFFICES ASSUME Init PROVE IInv
  OBVIOUS
<1>1. VerdictsHold
  BY DEF Init, VerdictsHold, Idle
<1>2. NoDoubleBooking
  BY DEF Init, NoDoubleBooking, Disjoint, NoRow
<1> QED BY <1>1, <1>2, InitTypeOK DEF IInv

\* Every step keeps the invariant.
LEMMA NextIInv == IInv /\ [Next]_vars => IInv'
<1> SUFFICES ASSUME IInv, [Next]_vars PROVE IInv'
  OBVIOUS
<1>1. TypeOK'
  BY NextTypeOK DEF IInv
<1>2. CASE UNCHANGED vars \/ Tick
  <2>1. UNCHANGED <<lock, txn, block, feed, request>>
    BY <1>2 DEF vars, tables, Tick
  <2>2. VerdictsHold'
    BY <2>1 DEF IInv, VerdictsHold, VerdictHolds, Call, FeedConflict, NativeConflict, ActiveAt,
       Exists
  <2>3. NoDoubleBooking'
    BY <2>1 DEF IInv, NoDoubleBooking, Disjoint
  <2> QED BY <1>1, <2>2, <2>3 DEF IInv
<1>3. ASSUME NEW p \in Procs, Step(p) PROVE IInv'
  BY <1>1, <1>3, StepPreservesIInv DEF IInv
<1> QED BY <1>2, <1>3 DEF Next

\* No night of a property is claimed twice, whatever the numbers of processes,
\* properties, records, events and calls: the exclusion constraint and the
\* check under the advisory lock keep native records and imported events apart.
THEOREM NoNightIsSoldTwice == Spec => []NoDoubleBooking
<1>1. IInv => NoDoubleBooking
  BY DEF IInv
<1> QED BY InitIInv, NextIInv, <1>1, PTL DEF Spec

\* What a call decided under the lock is still true when it writes.
THEOREM VerdictsStayTrue == Spec => []VerdictsHold
<1>1. IInv => VerdictsHold
  BY DEF IInv
<1> QED BY InitIInv, NextIInv, <1>1, PTL DEF Spec

\* The overlap test of the SQL operator decides whether two stays share a night.
THEOREM OverlapsIffNightShared ==
  ASSUME NEW s, NEW t, IsStay(s), IsStay(t)
  PROVE  Overlaps(s, t) <=> Nights(s) \cap Nights(t) # {}
<1>1. /\ s.arrival \in Int /\ s.departure \in Int /\ s.arrival < s.departure
      /\ t.arrival \in Int /\ t.departure \in Int /\ t.arrival < t.departure
  BY DEF IsStay
<1>2. ASSUME Overlaps(s, t) PROVE Nights(s) \cap Nights(t) # {}
  <2>1. CASE s.arrival <= t.arrival
    <3>1. t.arrival \in Nights(s) \cap Nights(t)
      BY <1>1, <1>2, <2>1 DEF Overlaps, Nights
    <3> QED BY <3>1
  <2>2. CASE ~(s.arrival <= t.arrival)
    <3>1. s.arrival \in Nights(s) \cap Nights(t)
      BY <1>1, <1>2, <2>2 DEF Overlaps, Nights
    <3> QED BY <3>1
  <2> QED BY <2>1, <2>2
<1>3. ASSUME Nights(s) \cap Nights(t) # {} PROVE Overlaps(s, t)
  <2>1. PICK n \in Nights(s) : n \in Nights(t)
    BY <1>3
  <2> QED BY <1>1, <2>1 DEF Overlaps, Nights
<1> QED BY <1>2, <1>3

-----------------------------------------------------------------------------
(* Inventory rows *)

Writes(p) ==
  \/ InsertWrite(p) \/ ReleaseWrite(p) \/ ConfirmWrite(p) \/ SweepWrite(p)
  \/ UpsertWrite(p) \/ WithdrawWrite(p)
  \/ ReplayWrite(p) \/ SubmitWrite(p)
  \/ OccupyWrite(p) \/ PromoteWrite(p) \/ CloseWrite(p)

\* A row stays, appears, is a live hold that is released or confirmed, or is
\* released by the write of a call that asked for this.
RowMoves(p, P, i) ==
  LET old == block[P][i]
      new == block'[P][i]
  IN  \/ new = old
      \/ old = NoRow
      \/ /\ LiveHold(P, i)
         /\ \/ new = [old EXCEPT !.status = "released"]
            \/ new = [old EXCEPT !.kind = "occupancy", !.expires = 0]
      \/ /\ ReleaseWrite(p)
         /\ Call(p).prop = P /\ Call(p).id = i /\ Call(p).kind = old.kind
         /\ ActiveAt(P, i)
         /\ new = [old EXCEPT !.status = "released"]

\* A sweep of live holds moves each row as a row may move.
LEMMA SweptRowMoves ==
  ASSUME TypeOK, NEW p \in Procs, NEW P \in Properties, NEW i \in Ids,
         NEW R \in SUBSET Ids, \A j \in R : LiveHold(P, j),
         block'[P][i] = Released(block[P], R)[i]
  PROVE  RowMoves(p, P, i)
  BY DEF Released, RowMoves

\* Confirming a live hold moves each row as a row may move.
LEMMA PromotedRowMoves ==
  ASSUME TypeOK, NEW p \in Procs, NEW P \in Properties, NEW i \in Ids,
         NEW Q \in Properties, NEW j \in Ids, LiveHold(Q, j), block' = Promoted(Q, j)
  PROVE  RowMoves(p, P, i)
<1>1. block[P] \in [Ids -> {NoRow} \cup Block]
  BY DEF TypeOK
<1>2. CASE P = Q /\ i = j
  BY <1>1, <1>2 DEF Promoted, RowMoves, TypeOK
<1>3. CASE ~(P = Q /\ i = j)
  BY <1>1, <1>3 DEF Promoted, RowMoves, TypeOK
<1> QED BY <1>2, <1>3

\* The live holds of a set of requests are live holds.
LEMMA HoldsAreLive ==
  ASSUME NEW P, NEW R
  PROVE  HoldsOf(P, R) \in SUBSET Ids /\ \A j \in HoldsOf(P, R) : LiveHold(P, j)
  BY DEF HoldsOf

\* What a submission sweeps are live holds.
LEMMA SweptIsReleased ==
  ASSUME NEW P, NEW at
  PROVE  \E R \in SUBSET Ids : /\ \A j \in R : LiveHold(P, j)
                               /\ HoldsOf(P, Due(P, at)) \subseteq R
                               /\ Swept(P, at) = Released(block[P], R)
<1> DEFINE R == HoldsOf(P, Due(P, at)) \cup {i \in Ids : LiveHold(P, i) /\ block[P][i].expires <= at}
<1>1. R \in SUBSET Ids /\ (\A j \in R : LiveHold(P, j)) /\ HoldsOf(P, Due(P, at)) \subseteq R
  BY HoldsAreLive
<1> QED BY <1>1 DEF Swept

\* Every write moves every row as a row may move.
LEMMA RowsMove ==
  ASSUME TypeOK, VerdictsHold, NEW p \in Procs, Writes(p),
         NEW P \in Properties, NEW i \in Ids
  PROVE  RowMoves(p, P, i)
<1> DEFINE c == Call(p)
<1>0. /\ block[P] \in [Ids -> {NoRow} \cup Block]
      /\ block \in [Properties -> [Ids -> {NoRow} \cup Block]]
  BY DEF TypeOK
<1>1. CASE InsertWrite(p)
  <2>1. c \in InsertCalls
    BY <1>1, HoldingFacts, CallKinds DEF InsertWrite, Holding
  <2>2. CASE P = c.prop /\ i = c.id
    BY <1>0, <1>1, <2>1, <2>2 DEF InsertWrite, RowMoves, Insertable
  <2>3. CASE ~(P = c.prop /\ i = c.id)
    BY <1>0, <1>1, <2>1, <2>3 DEF InsertWrite, RowMoves
  <2> QED BY <2>2, <2>3
<1>2. CASE ReleaseWrite(p)
  <2> DEFINE R == {j \in {c.id} : Releasable(c.prop, j, c.kind)}
  <2>1. block'[P] = IF P = c.prop THEN Released(block[P], R) ELSE block[P]
    BY <1>0, <1>2 DEF ReleaseWrite
  <2> QED BY <1>2, <2>1 DEF Released, Releasable, RowMoves
<1>3. CASE ConfirmWrite(p)
  <2>1. c \in ConfirmCalls
    BY <1>3, HoldingFacts, CallKinds DEF ConfirmWrite, Holding
  <2>2. CASE LiveHold(c.prop, c.id)
    BY <1>3, <2>1, <2>2, PromotedRowMoves DEF ConfirmWrite, ConfirmCalls
  <2> QED BY <1>3, <2>2 DEF ConfirmWrite, RowMoves
<1>4. CASE SweepWrite(p)
  <2> DEFINE R == ExpiredHolds(P, txn[p].at)
  <2>1. R \in SUBSET Ids /\ \A j \in R : LiveHold(P, j)
    BY DEF ExpiredHolds
  <2>2. block'[P] = IF lock[P] = p THEN Released(block[P], R) ELSE block[P]
    BY <1>4 DEF SweepWrite
  <2> HIDE DEF R
  <2>3. CASE lock[P] = p
    BY <2>1, <2>2, <2>3, SweptRowMoves
  <2> QED BY <2>2, <2>3 DEF RowMoves
<1>5. CASE UpsertWrite(p) \/ WithdrawWrite(p)
  BY <1>5 DEF UpsertWrite, WithdrawWrite, RowMoves
<1>6. CASE ReplayWrite(p) \/ SubmitWrite(p)
  <2> DEFINE at == txn[p].at
             rows == Swept(c.prop, at)
  <2>1. c \in SubmitCalls /\ c.prop \in Properties /\ c.id \in Ids
    <3>1. c \in SubmitCalls
      BY <1>6, HoldingFacts, CallKinds DEF ReplayWrite, SubmitWrite, Holding
    <3> QED BY <3>1 DEF SubmitCalls
  <2>2. PICK R \in SUBSET Ids : (\A j \in R : LiveHold(c.prop, j)) /\ rows = Released(block[c.prop], R)
    BY SweptIsReleased
  <2>3. CASE block' = [block EXCEPT ![c.prop] = rows]
    <3>1. CASE P = c.prop
      <4>1. block'[P][i] = Released(block[P], R)[i]
        BY <1>0, <2>2, <2>3, <3>1
      <4> HIDE DEF c
      <4> QED BY <2>1, <2>2, <3>1, <4>1, SweptRowMoves
    <3>2. CASE P # c.prop
      BY <1>0, <2>3, <3>2 DEF RowMoves
    <3> QED BY <3>1, <3>2
  <2>4. CASE SubmitWrite(p) /\ Accepted(c, rows) /\ ~c.defer
    <3> DEFINE hold == NewBlock("hold", c.stay, at + HoldDuration)
    <3>1. block' = [block EXCEPT ![c.prop] = [rows EXCEPT ![c.id] = hold]]
      BY <2>4 DEF SubmitWrite
    <3>2. rows[c.id] = NoRow
      BY <2>4 DEF Accepted, Insertable
    <3>3. block[c.prop][c.id] = NoRow
      <4>1. c.id \in R => FALSE
        <5>1. ASSUME c.id \in R PROVE FALSE
          <6>1. block[c.prop][c.id] \in Block
            BY <1>0, <2>1, <2>2, <5>1 DEF LiveHold, ActiveAt, NoRow
          <6>2. rows[c.id] = [block[c.prop][c.id] EXCEPT !.status = "released"]
            BY <2>1, <2>2, <5>1 DEF Released
          <6> QED BY <3>2, <6>1, <6>2 DEF NoRow, Block
        <5> QED BY <5>1
      <4> QED BY <2>1, <2>2, <3>2, <4>1 DEF Released
    <3> HIDE DEF hold, rows, c
    <3>4. CASE P = c.prop /\ i = c.id
      BY <3>3, <3>4 DEF RowMoves
    <3>5. CASE P = c.prop /\ i # c.id
      <4>1. block'[P][i] = Released(block[P], R)[i]
        BY <1>0, <2>1, <2>2, <3>1, <3>5
      <4> QED BY <2>2, <3>5, <4>1, SweptRowMoves
    <3>6. CASE P # c.prop
      BY <1>0, <3>1, <3>6 DEF RowMoves
    <3> QED BY <3>4, <3>5, <3>6
  <2>5. CASE block' = block
    BY <2>5 DEF RowMoves
  <2> QED BY <1>6, <2>3, <2>4, <2>5 DEF ReplayWrite, SubmitWrite
<1>7. CASE OccupyWrite(p) \/ PromoteWrite(p) \/ CloseWrite(p)
  <2> DEFINE Q == c.prop
             r == c.id
  <2>1. Q \in Properties /\ r \in Ids
    <3>1. c \in DecideCalls
      BY <1>7, HoldingFacts, CallKinds DEF OccupyWrite, PromoteWrite, CloseWrite, Deciding
    <3> QED BY <3>1 DEF DecideCalls
  <2>2. CASE block' = block
    BY <2>2 DEF RowMoves
  <2>3. CASE OccupyWrite(p) /\ IsPending(Q, r) /\ Insertable(block[Q], r, request[r].stay)
    <3> DEFINE new == NewBlock("occupancy", request[r].stay, 0)
    <3>1. block' = [block EXCEPT ![Q][r] = new]
      BY <2>3 DEF OccupyWrite
    <3>2. block[Q][r] = NoRow
      BY <2>3 DEF Insertable
    <3> HIDE DEF new, Q, r
    <3> QED BY <1>0, <2>1, <3>1, <3>2 DEF RowMoves
  <2>4. CASE PromoteWrite(p) /\ IsPending(Q, r) /\ HasHold(r) /\ LiveHold(Q, request[r].hold)
    <3>1. request[r].hold \in Ids
      BY <2>1, <2>4 DEF IsPending, Exists, HasHold, TypeOK, Request
    <3>2. block' = Promoted(Q, request[r].hold)
      BY <2>4 DEF PromoteWrite
    <3> HIDE DEF Q, r
    <3> QED BY <2>1, <2>4, <3>1, <3>2, PromotedRowMoves
  <2>5. CASE CloseWrite(p) /\ IsPending(Q, r)
    <3> DEFINE R == HoldsOf(Q, {r})
    <3>1. block' = [block EXCEPT ![Q] = Released(block[Q], R)]
      BY <2>5 DEF CloseWrite
    <3>2. R \in SUBSET Ids /\ \A j \in R : LiveHold(Q, j)
      BY HoldsAreLive
    <3> HIDE DEF R, Q
    <3>3. CASE P = Q
      BY <1>0, <3>1, <3>2, <3>3, SweptRowMoves
    <3>4. CASE P # Q
      BY <1>0, <3>1, <3>4 DEF RowMoves
    <3> QED BY <3>3, <3>4
  <2> QED BY <1>7, <2>2, <2>3, <2>4, <2>5 DEF OccupyWrite, PromoteWrite, CloseWrite
<1> QED BY <1>1, <1>2, <1>3, <1>4, <1>5, <1>6, <1>7 DEF Writes

\* A row that moves keeps its stay and never comes back to life.
LEMMA RowsKeep ==
  ASSUME TypeOK, NEW p \in Procs, NEW P \in Properties, NEW i \in Ids,
         RowMoves(p, P, i), block[P][i] # NoRow
  PROVE  /\ block'[P][i] # NoRow
         /\ block'[P][i].stay = block[P][i].stay
         /\ block[P][i].kind = "occupancy" => block'[P][i].kind = "occupancy"
         /\ block'[P][i].status = "active" => block[P][i].status = "active"
         /\ block'[P][i].status = "active" /\ block'[P][i].kind = "hold" => LiveHold(P, i)
<1>1. block[P][i] \in Block
  BY DEF TypeOK
<1>2. NoRow \notin Block
  BY DEF NoRow, Block
<1>3. \/ block'[P][i] = block[P][i]
      \/ block'[P][i] = [block[P][i] EXCEPT !.status = "released"]
      \/ LiveHold(P, i) /\ block'[P][i] = [block[P][i] EXCEPT !.kind = "occupancy", !.expires = 0]
  BY DEF RowMoves
<1> QED BY <1>1, <1>2, <1>3 DEF Block, Kinds, LiveHold, ActiveAt, NoRow

-----------------------------------------------------------------------------
(* Requests and what is told of them *)

\* A decision is about a request of the call's property, and was reached in
\* time: nothing is approved after its deadline, and what expires is past it
\* or has lost its hold.
Timely(p) ==
  LET r == Call(p).id
      at == txn[p].at
  IN  /\ Exists(r) /\ request[r].prop = Call(p).prop
      /\ txn[p].verdict \in {"occupy", "promote"} => Call(p).op = "approve" /\ ~Lapsed(r, at)
      /\ txn[p].verdict = "expire" => MayExpire(p, r)

IsDecision(c) == c.op \in {"approve", "reject", "recheck", "expire"}

DecisionsAreTimely ==
  \A p \in Procs : txn[p].phase = "holding" /\ IsDecision(Call(p)) => Timely(p)

\* The requests of the repair are still there.
LegacyStays == \A r \in DOMAIN Legacy : Exists(r)

\* A submission opens the request it names, under a key nobody used.
Opens(p, r) ==
  LET new == request'[r]
  IN  /\ ~Exists(r) /\ r = Call(p).id /\ SameKey(Call(p)) = {}
      /\ new \in Request /\ new.status = "pending" /\ new.key = Call(p).key
      /\ new.hold # NoId => /\ new.hold = r
                            /\ block'[new.prop][r] # NoRow
                            /\ block'[new.prop][r].stay = new.stay

\* A pending request of a property whose lock p owns is turned down, with its
\* hold, if it has one, no longer alive.
Closes(p, r) ==
  LET old == request[r]
      new == request'[r]
      hold == block'[old.prop][old.hold]
  IN  /\ Exists(r) /\ old.status = "pending" /\ lock[old.prop] = p
      /\ new.status \in {"rejected", "expired"}
      /\ new = [old EXCEPT !.status = new.status, !.fingerprint = new.fingerprint]
      /\ new.fingerprint \in {"legacy", "sha256"}
      /\ HasHold(r) => ~(hold.status = "active" /\ hold.kind = "hold")
      /\ new.status = "expired" => MayExpire(p, r)

\* A pending request is approved, and its occupancy is there.
Approves(p, r) ==
  LET old == request[r]
      row == block'[old.prop][r]
  IN  /\ Exists(r) /\ old.status = "pending" /\ lock[old.prop] = p
      /\ Call(p).op = "approve" /\ Call(p).id = r /\ ~Lapsed(r, txn[p].at)
      /\ request'[r] = [old EXCEPT !.status = "approved", !.hold = r]
      /\ row # NoRow /\ row.stay = old.stay
      /\ row.status = "active" /\ row.kind = "occupancy"

\* The fingerprint of a legacy request is replaced.
Upgrades(r) ==
  /\ Exists(r)
  /\ request'[r] = [request[r] EXCEPT !.fingerprint = "sha256"]

RequestMoves(p, r) ==
  request'[r] = request[r] \/ Upgrades(r) \/ Opens(p, r) \/ Closes(p, r) \/ Approves(p, r)

Told(r) == {e \in Events : <<r, e>> \in outbox}

\* What a step adds to the outbox is what it does to the request.
StoryMoves(r) ==
  Told(r)' = Told(r) \cup
    (IF request'[r].status = request[r].status THEN {}
     ELSE {IF Exists(r) THEN request'[r].status ELSE "submitted"})

\* The records agree with each other.
RecordsInv ==
  /\ OneRequestPerKey /\ OutboxTellsTheStory
  /\ InventoryMatchesRequest /\ NoHoldOutlivesItsRequest
  /\ LegacyStays /\ DecisionsAreTimely

\* A pending request's hold that is among the released ones is not alive after.
LEMMA ReleasedHoldIsGone ==
  ASSUME TypeOK, NEW P \in Properties, NEW i \in Ids, NEW R,
         LiveHold(P, i) => i \in R
  PROVE  ~(Released(block[P], R)[i].status = "active" /\ Released(block[P], R)[i].kind = "hold")
<1>1. block[P][i] \in {NoRow} \cup Block
  BY DEF TypeOK
<1>2. CASE i \in R
  BY <1>1, <1>2 DEF Released, Block, NoRow
<1>3. CASE i \notin R
  BY <1>3 DEF Released, LiveHold, ActiveAt
<1> QED BY <1>2, <1>3

\* A submission moves every request, and tells of it, as it may.
LEMMA SubmissionMoves ==
  ASSUME IInv, RecordsInv, NEW p \in Procs, ReplayWrite(p) \/ SubmitWrite(p), NEW r \in Ids
  PROVE  RequestMoves(p, r) /\ StoryMoves(r)
<1> DEFINE c == Call(p)
           at == txn[p].at
           due == Due(c.prop, at)
           rows == Swept(c.prop, at)
<1>0. TypeOK /\ VerdictsHold /\ request[r] \in {NoRow} \cup Request /\ NoRow \notin Request
  BY DEF IInv, TypeOK, NoRow, Request, Decisions
<1>1. c \in SubmitCalls /\ c.prop \in Properties /\ c.id \in Ids /\ lock[c.prop] = p
  <2>1. c \in SubmitCalls /\ lock[c.prop] = p
    BY <1>0, HoldingFacts, CallKinds DEF ReplayWrite, SubmitWrite, Holding
  <2> QED BY <2>1 DEF SubmitCalls
<1>2. PICK R \in SUBSET Ids : /\ \A j \in R : LiveHold(c.prop, j)
                              /\ HoldsOf(c.prop, due) \subseteq R
                              /\ rows = Released(block[c.prop], R)
  BY SweptIsReleased
<1>3. r \in due => /\ Exists(r) /\ request[r] \in Request
                   /\ request[r].prop = c.prop /\ request[r].status = "pending"
                   /\ Lapsed(r, at)
  BY <1>0 DEF Due, IsPending, Exists
<1>11. r \in due => MayExpire(p, r)
  <2>1. c.op = "submit"
    BY <1>1 DEF SubmitCalls
  <2> HIDE DEF due
  <2> QED BY <1>3, <2>1 DEF MayExpire
<1>4. r \in due /\ HasHold(r) =>
        /\ request[r].hold = r /\ block[c.prop][r] # NoRow
        /\ ~(rows[r].status = "active" /\ rows[r].kind = "hold")
  <2> SUFFICES ASSUME r \in due, HasHold(r)
               PROVE  /\ request[r].hold = r /\ block[c.prop][r] # NoRow
                      /\ ~(rows[r].status = "active" /\ rows[r].kind = "hold")
    OBVIOUS
  <2>1. request[r].hold = r /\ block[c.prop][r] # NoRow
    BY <1>3 DEF RecordsInv, InventoryMatchesRequest
  <2>2. LiveHold(c.prop, r) => r \in R
    BY <1>2, <2>1 DEF HoldsOf
  <2> HIDE DEF rows, c
  <2> QED BY <1>0, <1>1, <1>2, <2>1, <2>2, ReleasedHoldIsGone
<1>5. WithStatus(due, "expired")[r] =
        IF r \in due THEN [request[r] EXCEPT !.status = "expired"] ELSE request[r]
  BY DEF WithStatus
<1>6. \A e \in Events : <<r, e>> \in Emit(due, "expired") <=>
                          <<r, e>> \in outbox \/ (r \in due /\ e = "expired")
  BY DEF Emit
<1>7. /\ block \in [Properties -> [Ids -> {NoRow} \cup Block]]
      /\ block[c.prop] \in [Ids -> {NoRow} \cup Block]
  BY <1>0, <1>1 DEF TypeOK
<1>8. CASE ReplayWrite(p)
  <2>1. block'[c.prop] = rows
    BY <1>7, <1>1, <1>8 DEF ReplayWrite
  <2>2. request'[r] = IF r \in SameKey(c)
                      THEN [WithStatus(due, "expired")[r] EXCEPT !.fingerprint = "sha256"]
                      ELSE WithStatus(due, "expired")[r]
    BY <1>8 DEF ReplayWrite
  <2>3. RequestMoves(p, r)
    <3>1. CASE r \in due
      <4>1. \/ request'[r] = [request[r] EXCEPT !.status = "expired"]
            \/ request'[r] = [request[r] EXCEPT !.status = "expired", !.fingerprint = "sha256"]
        BY <1>5, <2>2, <3>1
      <4>2. /\ request'[r].status = "expired"
            /\ request'[r].fingerprint \in {"legacy", "sha256"}
            /\ request'[r] = [request[r] EXCEPT !.status = request'[r].status,
                                                !.fingerprint = request'[r].fingerprint]
        BY <1>3, <3>1, <4>1 DEF Request
      <4>3. Closes(p, r)
        <5> HIDE DEF due, c
        <5> QED BY <1>1, <1>3, <1>4, <1>11, <2>1, <3>1, <4>2 DEF Closes
      <4> QED BY <4>3 DEF RequestMoves
    <3>2. CASE r \notin due
      BY <1>5, <2>2, <3>2 DEF RequestMoves, Upgrades, SameKey
    <3> QED BY <3>1, <3>2
  <2>4. StoryMoves(r)
    <3>1. request'[r].status = IF r \in due THEN "expired" ELSE request[r].status
      <4>1. r \in SameKey(c) => request[r] \in Request
        BY <1>0 DEF SameKey, Exists
      <4> QED BY <1>3, <1>5, <2>2, <4>1 DEF Request
    <3>2. outbox' = Emit(due, "expired")
      BY <1>8 DEF ReplayWrite
    <3> HIDE DEF due, c
    <3> QED BY <1>3, <1>6, <3>1, <3>2 DEF StoryMoves, Told, Events, Decisions
  <2> QED BY <2>3, <2>4
<1>9. CASE SubmitWrite(p) /\ Accepted(c, rows)
  <2> DEFINE new == NewRequest(c, at)
             hold == NewBlock("hold", c.stay, at + HoldDuration)
  <2>1. /\ block'[c.prop] = IF c.defer THEN rows ELSE [rows EXCEPT ![c.id] = hold]
        /\ rows \in [Ids -> {NoRow} \cup Block]
    <3>1. rows \in [Ids -> {NoRow} \cup Block]
      BY <1>0, <1>1, SweptType
    <3> HIDE DEF rows, hold
    <3> QED BY <1>7, <1>1, <1>9, <3>1 DEF SubmitWrite, rows, hold
  <2>2. request'[r] = IF r = c.id THEN new ELSE WithStatus(due, "expired")[r]
    <3>1. WithStatus(due, "expired") = [s \in Ids |-> WithStatus(due, "expired")[s]]
      BY DEF WithStatus
    <3>2. request' = [WithStatus(due, "expired") EXCEPT ![c.id] = new]
      BY <1>9 DEF SubmitWrite
    <3> HIDE DEF new, due, c
    <3> QED BY <3>1, <3>2
  <2>3. outbox' = Emit(due, "expired") \cup {<<c.id, "submitted">>}
    BY <1>9 DEF SubmitWrite
  <2>4. ~Exists(c.id) /\ SameKey(c) = {}
    BY <1>9 DEF Accepted
  <2>5. new \in Request /\ new.status = "pending" /\ new.key = c.key /\ new.prop = c.prop
        /\ new.stay = c.stay /\ new.hold = IF c.defer THEN NoId ELSE c.id
    <3>1. at \in Nat
      BY <1>0, <1>9, InFlight DEF SubmitWrite, Holding, Running
    <3> QED BY <1>1, <3>1, HoldDurationAssumption DEF NewRequest, Request, SubmitCalls
  <2>6. CASE r = c.id
    <3>1. Opens(p, r)
      <4>1. hold # NoRow /\ hold.stay = c.stay
        BY DEF NewBlock, NoRow
      <4>2. ~c.defer => block'[c.prop][r] = hold
        <5> HIDE DEF c, hold, rows
        <5> QED BY <2>1, <2>6
      <4>3. request'[r] = new
        BY <2>2, <2>6
      <4> HIDE DEF hold, rows, new
      <4> QED BY <2>4, <2>5, <2>6, <4>1, <4>2, <4>3 DEF Opens
    <3>2. StoryMoves(r)
      <4>1. request'[r].status = "pending" /\ request[r].status = "absent" /\ r \notin due
        BY <1>3, <2>2, <2>4, <2>5, <2>6 DEF Exists, NoRow
      <4> HIDE DEF due, c
      <4> QED BY <1>6, <2>3, <2>4, <2>6, <4>1 DEF StoryMoves, Told, Events
    <3> QED BY <3>1, <3>2 DEF RequestMoves
  <2>7. CASE r # c.id
    <3>1. CASE r \in due
      <4>1. request'[r] = [request[r] EXCEPT !.status = "expired"]
        BY <1>5, <2>2, <2>7, <3>1
      <4>2. /\ request'[r].status = "expired"
            /\ request'[r].fingerprint \in {"legacy", "sha256"}
            /\ request'[r] = [request[r] EXCEPT !.status = request'[r].status,
                                                !.fingerprint = request'[r].fingerprint]
        BY <1>3, <3>1, <4>1 DEF Request
      <4>3. block'[c.prop][r] = rows[r]
        <5> HIDE DEF rows, hold, c
        <5> QED BY <2>1, <2>7
      <4>4. Closes(p, r)
        <5> HIDE DEF due, c, rows
        <5> QED BY <1>1, <1>3, <1>4, <1>11, <3>1, <4>2, <4>3 DEF Closes
      <4>5. StoryMoves(r)
        <5> HIDE DEF due, c
        <5> QED BY <1>3, <1>6, <2>3, <2>7, <3>1, <4>2 DEF StoryMoves, Told, Events, Decisions
      <4> QED BY <4>4, <4>5 DEF RequestMoves
    <3>2. CASE r \notin due
      <4>1. request'[r] = request[r]
        BY <1>5, <2>2, <2>7, <3>2
      <4>2. StoryMoves(r)
        <5> HIDE DEF due, c
        <5> QED BY <1>6, <2>3, <2>7, <3>2, <4>1 DEF StoryMoves, Told
      <4> QED BY <4>1, <4>2 DEF RequestMoves
    <3> QED BY <3>1, <3>2
  <2> QED BY <2>6, <2>7
<1>10. CASE request' = request /\ outbox' = outbox
  BY <1>10 DEF RequestMoves, StoryMoves, Told
<1> QED BY <1>8, <1>9, <1>10 DEF SubmitWrite

\* A decision moves every request, and tells of it, as it may.
LEMMA DecisionMoves ==
  ASSUME IInv, RecordsInv, NEW p \in Procs,
         OccupyWrite(p) \/ PromoteWrite(p) \/ CloseWrite(p), NEW s \in Ids
  PROVE  RequestMoves(p, s) /\ StoryMoves(s)
<1> DEFINE P == Call(p).prop
           r == Call(p).id
           at == txn[p].at
<1>0. TypeOK /\ VerdictsHold /\ request[r] \in {NoRow} \cup Request /\ NoRow \notin Request
  <2>1. TypeOK /\ VerdictsHold /\ NoRow \notin Request
    BY DEF IInv, NoRow, Request, Decisions
  <2>2. Call(p) \in DecideCalls
    BY <2>1, HoldingFacts, CallKinds DEF OccupyWrite, PromoteWrite, CloseWrite, Deciding
  <2> QED BY <2>1, <2>2 DEF TypeOK, DecideCalls
<1>1. P \in Properties /\ r \in Ids /\ lock[P] = p
  <2>1. Call(p) \in DecideCalls /\ lock[P] = p
    BY <1>0, HoldingFacts, CallKinds DEF OccupyWrite, PromoteWrite, CloseWrite, Deciding
  <2> QED BY <2>1 DEF DecideCalls
<1>2. /\ Exists(r) /\ request[r].prop = P
      /\ txn[p].verdict \in {"occupy", "promote"} => Call(p).op = "approve" /\ ~Lapsed(r, at)
      /\ txn[p].verdict = "expire" => MayExpire(p, r)
  BY DEF RecordsInv, DecisionsAreTimely, Timely, IsDecision, OccupyWrite, PromoteWrite, CloseWrite, Deciding
<1>3. request[r] \in Request
  BY <1>0, <1>2 DEF Exists
<1>4. ASSUME NEW st \in Decisions, IsPending(P, r),
             \A x \in Ids : x # r => request'[x] = request[x],
             request'[r].status = st, outbox' = Emit({r}, st)
      PROVE  StoryMoves(s)
  <2>1. request[r].status = "pending" /\ st # "pending" /\ st \in Events
    BY <1>4 DEF IsPending, Decisions, Events
  <2>2. \A e \in Events : <<s, e>> \in outbox' <=> <<s, e>> \in outbox \/ (s = r /\ e = st)
    BY <1>4 DEF Emit
  <2> HIDE DEF r
  <2>3. CASE s = r
    BY <1>2, <1>4, <2>1, <2>2, <2>3 DEF StoryMoves, Told
  <2>4. CASE s # r
    BY <1>4, <2>2, <2>4 DEF StoryMoves, Told
  <2> QED BY <2>3, <2>4
<1>5. CASE request' = request /\ outbox' = outbox
  BY <1>5 DEF RequestMoves, StoryMoves, Told
<1>6. CASE OccupyWrite(p) /\ IsPending(P, r) /\ Insertable(block[P], r, request[r].stay)
  <2> DEFINE new == NewBlock("occupancy", request[r].stay, 0)
             row == [request[r] EXCEPT !.status = "approved", !.hold = r]
  <2>1. block' = [block EXCEPT ![P][r] = new] /\ request' = [request EXCEPT ![r] = row]
        /\ outbox' = Emit({r}, "approved")
    BY <1>6 DEF OccupyWrite
  <2>2. block'[P][r] = new /\ request'[r] = row /\ \A x \in Ids : x # r => request'[x] = request[x]
    <3> HIDE DEF new, row, P, r
    <3> QED BY <1>0, <1>1, <2>1 DEF TypeOK
  <2>3. row.status = "approved" /\ new # NoRow /\ new.stay = request[r].stay
        /\ new.status = "active" /\ new.kind = "occupancy"
    BY <1>3 DEF NewBlock, NoRow, Request
  <2>4. StoryMoves(s)
    BY <1>4, <1>6, <2>1, <2>2, <2>3 DEF Decisions
  <2>5. Call(p).op = "approve" /\ Call(p).id = r /\ ~Lapsed(r, at)
    BY <1>2, <1>6 DEF OccupyWrite, Deciding
  <2>6. s = r => Approves(p, s)
    <3> HIDE DEF new, P, r
    <3> QED BY <1>1, <1>2, <1>6, <2>2, <2>3, <2>5 DEF Approves, IsPending
  <2> QED BY <2>2, <2>4, <2>6 DEF RequestMoves
<1>7. CASE PromoteWrite(p) /\ IsPending(P, r) /\ HasHold(r) /\ LiveHold(P, request[r].hold)
  <2>1. request[r].hold = r /\ block[P][r] # NoRow /\ block[P][r].stay = request[r].stay
    BY <1>1, <1>2, <1>7 DEF RecordsInv, InventoryMatchesRequest
  <2>2. block' = Promoted(P, r) /\ request' = WithStatus({r}, "approved")
        /\ outbox' = Emit({r}, "approved")
    BY <1>7, <2>1 DEF PromoteWrite
  <2>3. block[P][r] \in Block /\ block[P][r].status = "active"
    BY <1>0, <1>1, <1>7, <2>1 DEF TypeOK, LiveHold, ActiveAt
  <2>4. block'[P][r] = [block[P][r] EXCEPT !.kind = "occupancy", !.expires = 0]
    <3> HIDE DEF P, r
    <3> QED BY <1>0, <1>1, <2>2 DEF Promoted, TypeOK
  <2>5. /\ block'[P][r] # NoRow /\ block'[P][r].stay = request[r].stay
        /\ block'[P][r].status = "active" /\ block'[P][r].kind = "occupancy"
    BY <2>1, <2>3, <2>4 DEF Block, NoRow
  <2>6. /\ request'[r] = [request[r] EXCEPT !.status = "approved", !.hold = r]
        /\ request'[r].status = "approved"
        /\ \A x \in Ids : x # r => request'[x] = request[x]
    BY <1>1, <1>3, <2>1, <2>2 DEF WithStatus, Request
  <2>7. StoryMoves(s)
    BY <1>4, <1>7, <2>2, <2>6 DEF Decisions
  <2>8. Call(p).op = "approve" /\ Call(p).id = r /\ ~Lapsed(r, at)
    BY <1>2, <1>7 DEF PromoteWrite, Deciding
  <2>9. s = r => Approves(p, s)
    <3> HIDE DEF P, r
    <3> QED BY <1>1, <1>2, <1>7, <2>5, <2>6, <2>8 DEF Approves, IsPending
  <2> QED BY <2>6, <2>7, <2>9 DEF RequestMoves
<1>8. CASE CloseWrite(p) /\ IsPending(P, r)
  <2> DEFINE st == IF txn[p].verdict = "reject" THEN "rejected" ELSE "expired"
             R == HoldsOf(P, {r})
  <2>1. /\ block' = [block EXCEPT ![P] = Released(block[P], R)]
        /\ request' = WithStatus({r}, st) /\ outbox' = Emit({r}, st)
    BY <1>8 DEF CloseWrite
  <2>2. block'[P] = Released(block[P], R)
    <3> HIDE DEF P, R
    <3> QED BY <1>0, <1>1, <2>1 DEF TypeOK
  <2>3. /\ request'[r] = [request[r] EXCEPT !.status = st]
        /\ request'[r].status = st
        /\ \A x \in Ids : x # r => request'[x] = request[x]
    <3> HIDE DEF st
    <3> QED BY <1>1, <1>3, <2>1 DEF WithStatus, Request
  <2>4. st \in {"rejected", "expired"} /\ st \in Decisions
    BY DEF Decisions
  <2>5. StoryMoves(s)
    <3> HIDE DEF st
    <3> QED BY <1>4, <1>8, <2>1, <2>3, <2>4
  <2>6. HasHold(r) => ~(block'[P][r].status = "active" /\ block'[P][r].kind = "hold")
                      /\ request[r].hold = r
    <3> SUFFICES ASSUME HasHold(r)
                 PROVE  ~(block'[P][r].status = "active" /\ block'[P][r].kind = "hold")
                        /\ request[r].hold = r
      OBVIOUS
    <3>1. request[r].hold = r
      BY <1>1, <1>2 DEF RecordsInv, InventoryMatchesRequest
    <3>2. LiveHold(P, r) => r \in R
      BY <1>1, <3>1 DEF HoldsOf
    <3> HIDE DEF R, P, r
    <3> QED BY <1>0, <1>1, <2>2, <3>1, <3>2, ReleasedHoldIsGone
  <2>7. st = "expired" => MayExpire(p, r)
    BY <1>2, <1>8 DEF CloseWrite, Deciding
  <2>8. s = r => Closes(p, s)
    <3>1. /\ request'[r].fingerprint \in {"legacy", "sha256"}
          /\ request'[r] = [request[r] EXCEPT !.status = request'[r].status,
                                              !.fingerprint = request'[r].fingerprint]
      <4> HIDE DEF st
      <4> QED BY <1>3, <2>3 DEF Request
    <3> HIDE DEF st, P, r
    <3> QED BY <1>1, <1>2, <1>8, <2>3, <2>4, <2>6, <2>7, <3>1 DEF Closes, IsPending
  <2> QED BY <2>3, <2>5, <2>8 DEF RequestMoves
<1> QED BY <1>5, <1>6, <1>7, <1>8 DEF OccupyWrite, PromoteWrite, CloseWrite

\* Every step moves every row, request and story as it may.
LEMMA StepMoves ==
  ASSUME IInv, RecordsInv, NEW p \in Procs, Step(p)
  PROVE  /\ \A P \in Properties, i \in Ids : RowMoves(p, P, i)
         /\ \A r \in Ids : RequestMoves(p, r) /\ StoryMoves(r)
<1> DEFINE Quiet == Begin(p) \/ Crash(p) \/ Reads(p) \/ SweepScan(p) \/ SweepLock(p)
<1>1. TypeOK /\ VerdictsHold
  BY DEF IInv
<1>2. Quiet \/ Writes(p)
  BY DEF Step, Progress, RequestStep, AvailabilityStep, ICalStep, Reads, Writes
<1>3. CASE Quiet
  <2>1. UNCHANGED tables
    BY <1>1, <1>3, ReadUndisturbed
  <2> QED BY <2>1 DEF tables, RowMoves, RequestMoves, StoryMoves, Told
<1>4. CASE Writes(p)
  <2>1. \A P \in Properties, i \in Ids : RowMoves(p, P, i)
    BY <1>1, <1>4, RowsMove
  <2>2. CASE ReplayWrite(p) \/ SubmitWrite(p)
    BY <2>1, <2>2, SubmissionMoves
  <2>3. CASE OccupyWrite(p) \/ PromoteWrite(p) \/ CloseWrite(p)
    BY <2>1, <2>3, DecisionMoves
  <2>4. CASE \/ InsertWrite(p) \/ ReleaseWrite(p) \/ ConfirmWrite(p) \/ SweepWrite(p)
             \/ UpsertWrite(p) \/ WithdrawWrite(p)
    <3>1. request' = request /\ outbox' = outbox
      BY <2>4 DEF InsertWrite, ReleaseWrite, ConfirmWrite, SweepWrite, UpsertWrite, WithdrawWrite
    <3> QED BY <2>1, <3>1 DEF RequestMoves, StoryMoves, Told
  <2> QED BY <1>4, <2>2, <2>3, <2>4 DEF Writes
<1> QED BY <1>2, <1>3, <1>4

\* A request that moves keeps what it is about; only its decision gives it a
\* new status or a new hold.
LEMMA RequestsKeep ==
  ASSUME TypeOK, NEW p \in Procs, NEW r \in Ids, RequestMoves(p, r), Exists(r)
  PROVE  /\ request[r] \in Request /\ request'[r] \in Request /\ request'[r] # NoRow
         /\ request'[r].prop = request[r].prop /\ request'[r].stay = request[r].stay
         /\ request'[r].key = request[r].key /\ request'[r].expires = request[r].expires
         /\ \/ /\ request'[r].status = request[r].status
               /\ request'[r].hold = request[r].hold
               /\ request'[r] = [request[r] EXCEPT !.fingerprint = request'[r].fingerprint]
            \/ Closes(p, r) /\ request'[r].hold = request[r].hold
            \/ Approves(p, r) /\ request'[r].hold = r
<1>1. request[r] \in Request /\ NoRow \notin Request
  BY DEF TypeOK, Exists, NoRow, Request, Decisions
<1>2. CASE request'[r] = request[r]
  BY <1>1, <1>2 DEF Request
<1>3. CASE Upgrades(r)
  BY <1>1, <1>3 DEF Upgrades, Request
<1>4. CASE Opens(p, r)
  BY <1>4 DEF Opens
<1>5. CASE Closes(p, r)
  <2> DEFINE st == request'[r].status
             fp == request'[r].fingerprint
  <2>1. st \in Decisions /\ fp \in {"legacy", "sha256"}
    BY <1>5 DEF Closes, Decisions
  <2>2. request'[r] = [request[r] EXCEPT !.status = st, !.fingerprint = fp]
    BY <1>5 DEF Closes
  <2>3. /\ request'[r] \in Request
        /\ request'[r].prop = request[r].prop /\ request'[r].stay = request[r].stay
        /\ request'[r].key = request[r].key /\ request'[r].expires = request[r].expires
        /\ request'[r].hold = request[r].hold
    <3> HIDE DEF st, fp
    <3> QED BY <1>1, <2>1, <2>2 DEF Request
  <2> QED BY <1>1, <1>5, <2>3
<1>6. CASE Approves(p, r)
  <2>1. request'[r] = [request[r] EXCEPT !.status = "approved", !.hold = r]
    BY <1>6 DEF Approves
  <2>2. /\ request'[r] \in Request
        /\ request'[r].prop = request[r].prop /\ request'[r].stay = request[r].stay
        /\ request'[r].key = request[r].key /\ request'[r].expires = request[r].expires
        /\ request'[r].hold = r
    BY <1>1, <2>1 DEF Request, Decisions
  <2> QED BY <1>1, <1>6, <2>2
<1> QED BY <1>2, <1>3, <1>4, <1>5, <1>6 DEF RequestMoves

\* No step lets two requests have one key.
LEMMA KeysStayApart ==
  ASSUME TypeOK, OneRequestPerKey, NEW p \in Procs, \A r \in Ids : RequestMoves(p, r)
  PROVE  OneRequestPerKey'
<1> SUFFICES ASSUME NEW r \in Ids, NEW s \in Ids, request'[r] # NoRow, request'[s] # NoRow,
                    request'[r].key = request'[s].key
             PROVE  r = s
  BY DEF OneRequestPerKey, Exists
<1>1. \A x \in Ids : Exists(x) => request'[x].key = request[x].key
  BY RequestsKeep
<1>2. \A x \in Ids : ~Exists(x) /\ request'[x] # NoRow =>
        x = Call(p).id /\ SameKey(Call(p)) = {} /\ request'[x].key = Call(p).key
  BY DEF RequestMoves, Upgrades, Opens, Closes, Approves, Exists
<1>3. CASE Exists(r) /\ Exists(s)
  BY <1>1, <1>3 DEF OneRequestPerKey
<1>4. ASSUME NEW x \in Ids, NEW y \in Ids, ~Exists(x), request'[x] # NoRow, Exists(y)
      PROVE  request'[x].key # request'[y].key
  BY <1>1, <1>2, <1>4 DEF SameKey
<1>5. CASE ~Exists(r) /\ ~Exists(s)
  BY <1>2, <1>5
<1> QED BY <1>3, <1>4, <1>5

\* No step makes a request disagree with its inventory.
LEMMA InventoryStaysMatched ==
  ASSUME IInv, RecordsInv, TypeOK', NEW p \in Procs, Step(p)
  PROVE  InventoryMatchesRequest' /\ NoHoldOutlivesItsRequest'
<1>0. TypeOK /\ \A P \in Properties, i \in Ids : RowMoves(p, P, i)
  BY StepMoves DEF IInv
<1> SUFFICES ASSUME NEW r \in Ids, request'[r] # NoRow
             PROVE  /\ request'[r].hold # NoId =>
                         /\ request'[r].hold = r
                         /\ block'[request'[r].prop][r] # NoRow
                         /\ block'[request'[r].prop][r].stay = request'[r].stay
                    /\ request'[r].status = "approved" =>
                         request'[r].hold # NoId /\ block'[request'[r].prop][r].kind = "occupancy"
                    /\ request'[r].status \in {"rejected", "expired"} /\ request'[r].hold # NoId =>
                         ~(/\ block'[request'[r].prop][request'[r].hold].status = "active"
                           /\ block'[request'[r].prop][request'[r].hold].kind = "hold")
  BY DEF InventoryMatchesRequest, NoHoldOutlivesItsRequest, Exists, HasHold, LiveHold, ActiveAt
<1>1. RequestMoves(p, r)
  BY StepMoves
<1>2. CASE ~Exists(r)
  <2>1. Opens(p, r)
    BY <1>1, <1>2 DEF RequestMoves, Upgrades, Closes, Approves, Exists
  <2> QED BY <2>1 DEF Opens
<1>3. CASE Exists(r)
  <2> DEFINE P == request[r].prop
  <2>1. /\ request[r] \in Request /\ P \in Properties
        /\ request'[r].prop = P /\ request'[r].stay = request[r].stay
        /\ \/ /\ request'[r].status = request[r].status
              /\ request'[r].hold = request[r].hold
           \/ Closes(p, r) /\ request'[r].hold = request[r].hold
           \/ Approves(p, r) /\ request'[r].hold = r
    BY <1>0, <1>1, <1>3, RequestsKeep DEF Request
  <2>2. HasHold(r) => /\ request[r].hold = r
                      /\ block[P][r] # NoRow /\ block[P][r].stay = request[r].stay
    BY <1>3 DEF RecordsInv, InventoryMatchesRequest
  <2>3. block[P][r] # NoRow =>
          /\ block'[P][r] # NoRow
          /\ block'[P][r].stay = block[P][r].stay
          /\ block[P][r].kind = "occupancy" => block'[P][r].kind = "occupancy"
          /\ block'[P][r].status = "active" /\ block'[P][r].kind = "hold" => LiveHold(P, r)
    BY <1>0, <2>1, RowsKeep
  <2>4. CASE request'[r].status = request[r].status /\ request'[r].hold = request[r].hold
    <3>1. request[r].status = "approved" => HasHold(r) /\ block[P][r].kind = "occupancy"
      BY <1>3 DEF RecordsInv, InventoryMatchesRequest
    <3>2. request[r].status \in {"rejected", "expired"} /\ HasHold(r) => ~LiveHold(P, r)
      BY <1>3, <2>2 DEF RecordsInv, NoHoldOutlivesItsRequest
    <3> HIDE DEF P
    <3> QED BY <2>1, <2>2, <2>3, <2>4, <3>1, <3>2 DEF HasHold
  <2>5. CASE Closes(p, r) /\ request'[r].hold = request[r].hold
    BY <2>1, <2>2, <2>3, <2>5 DEF Closes, HasHold
  <2>6. CASE Approves(p, r) /\ request'[r].hold = r
    <3>1. request'[r].status = "approved" /\ r # NoId
      <4>1. request'[r] = [request[r] EXCEPT !.status = "approved", !.hold = r]
        BY <2>6 DEF Approves
      <4> QED BY <2>1, <4>1, IdsAssumption DEF Request
    <3> QED BY <2>1, <2>6, <3>1 DEF Approves
  <2> QED BY <2>1, <2>4, <2>5, <2>6
<1> QED BY <1>2, <1>3

\* No step makes the outbox tell another story.
LEMMA StoriesStayTrue ==
  ASSUME IInv, RecordsInv, NEW p \in Procs, Step(p)
  PROVE  OutboxTellsTheStory' /\ LegacyStays'
<1>0. TypeOK /\ \A r \in Ids : RequestMoves(p, r) /\ StoryMoves(r)
  BY StepMoves DEF IInv
<1>1. LegacyStays'
  <2>1. \A r \in Ids : Exists(r) => request'[r] # NoRow
    BY <1>0, RequestsKeep
  <2> QED BY <2>1, LegacyAssumption DEF RecordsInv, LegacyStays, Exists
<1>2. ASSUME NEW r \in Ids
      PROVE  Told(r)' =
               IF request'[r] # NoRow
               THEN (IF r \in DOMAIN Legacy THEN {} ELSE {"submitted"})
                      \cup ({request'[r].status} \cap Decisions)
               ELSE {}
  <2>1. Told(r) = IF Exists(r)
                  THEN (IF r \in DOMAIN Legacy THEN {} ELSE {"submitted"})
                         \cup ({request[r].status} \cap Decisions)
                  ELSE {}
    BY DEF RecordsInv, OutboxTellsTheStory, Told
  <2>2. RequestMoves(p, r) /\ StoryMoves(r)
    BY <1>0
  <2>3. CASE Exists(r)
    <3>1. /\ request'[r] # NoRow
          /\ \/ request'[r].status = request[r].status
             \/ request[r].status = "pending" /\ request'[r].status \in Decisions
      <4>1. request'[r] # NoRow
        BY <1>0, <2>2, <2>3, RequestsKeep
      <4>2. Closes(p, r) => request[r].status = "pending" /\ request'[r].status \in Decisions
        BY DEF Closes, Decisions
      <4>3. Approves(p, r) => request[r].status = "pending" /\ request'[r].status \in Decisions
        <5>1. request[r] \in Request
          BY <1>0, <2>3 DEF TypeOK, Exists
        <5> QED BY <5>1 DEF Approves, Request, Decisions
      <4> QED BY <1>0, <2>2, <2>3, <4>1, <4>2, <4>3, RequestsKeep
    <3>2. CASE request'[r].status = request[r].status
      BY <2>1, <2>2, <2>3, <3>1, <3>2 DEF StoryMoves
    <3>3. CASE request[r].status = "pending" /\ request'[r].status \in Decisions
      <4>1. Told(r)' = Told(r) \cup {request'[r].status}
        BY <2>2, <2>3, <3>3 DEF StoryMoves, Decisions
      <4>2. {request[r].status} \cap Decisions = {}
        BY <3>3 DEF Decisions
      <4> QED BY <2>1, <2>3, <3>1, <3>3, <4>1, <4>2
    <3> QED BY <3>1, <3>2, <3>3
  <2>4. CASE ~Exists(r) /\ request'[r] # NoRow
    <3>1. Opens(p, r)
      BY <2>2, <2>4 DEF RequestMoves, Upgrades, Closes, Approves, Exists
    <3>2. request'[r].status = "pending" /\ request[r].status = "absent" /\ r \notin DOMAIN Legacy
      BY <2>4, <3>1 DEF Opens, Exists, NoRow, RecordsInv, LegacyStays
    <3>3. Told(r)' = {"submitted"}
      BY <2>1, <2>2, <2>4, <3>2 DEF StoryMoves
    <3> QED BY <2>4, <3>2, <3>3 DEF Decisions
  <2>5. CASE ~Exists(r) /\ request'[r] = NoRow
    <3>1. Told(r)' = {}
      BY <2>1, <2>2, <2>5 DEF StoryMoves, Exists
    <3> QED BY <2>5, <3>1
  <2> QED BY <2>3, <2>4, <2>5
<1>3. OutboxTellsTheStory'
  BY <1>2 DEF OutboxTellsTheStory, Told, Exists
<1> QED BY <1>1, <1>3

\* A step of one call leaves the others undisturbed.
LEMMA StepUndisturbed ==
  ASSUME IInv, NEW p \in Procs, Step(p)
  PROVE  Undisturbed(p)
<1>1. TypeOK /\ VerdictsHold /\ NoDoubleBooking
  BY DEF IInv
<1> QED BY <1>1, ReadUndisturbed, AvailabilityWriteKeeps, ICalWriteKeeps, SubmitWriteKeeps,
           DecisionWriteKeeps
        DEF Step, Progress, RequestStep, AvailabilityStep, ICalStep, Reads

\* A decision that another call has reached stays timely.
LEMMA OthersStayTimely ==
  ASSUME IInv, RecordsInv, NEW p \in Procs, Step(p), NEW q \in Procs \ {p},
         txn'[q].phase = "holding", IsDecision(Call(q)')
  PROVE  Timely(q)'
<1> DEFINE c == Call(q)
           r == c.id
           P == c.prop
           t == txn[q]
<1>0. TypeOK /\ VerdictsHold /\ Undisturbed(p)
  BY StepUndisturbed DEF IInv
<1>1. txn'[q] = t /\ Call(q)' = c /\ t.phase = "holding" /\ IsDecision(c)
  BY <1>0 DEF Undisturbed, Call
<1>2. P \in Properties /\ r \in Ids /\ lock[P] = q
  <2>1. c \in DecideCalls /\ lock[P] = q
    BY <1>0, <1>1, HoldingFacts, CallKinds DEF IsDecision
  <2> QED BY <2>1 DEF DecideCalls
<1>3. Timely(q)
  BY <1>1 DEF RecordsInv, DecisionsAreTimely
<1>4. block'[P] = block[P]
  BY <1>0, <1>2 DEF Undisturbed
<1>5. RequestMoves(p, r) /\ Exists(r)
  BY <1>2, <1>3, StepMoves DEF Timely
<1>6. /\ request'[r] # NoRow /\ request'[r].prop = request[r].prop
      /\ request'[r].expires = request[r].expires /\ request'[r].hold = request[r].hold
  <2>1. ~Closes(p, r) /\ ~Approves(p, r)
    BY <1>2, <1>3 DEF Closes, Approves, Timely
  <2> HIDE DEF r
  <2> QED BY <1>0, <1>2, <1>5, <2>1, RequestsKeep
<1> HIDE DEF c, t
<1> QED BY <1>1, <1>3, <1>4, <1>6
        DEF Timely, MayExpire, Exists, Lapsed, HasHold, HoldInForce, LiveHold, ActiveAt, c, t

\* A decision is timely when it is reached.
LEMMA OwnIsTimely ==
  ASSUME TypeOK, NEW p \in Procs, Step(p), txn'[p].phase = "holding", IsDecision(Call(p)')
  PROVE  Timely(p)'
<1> DEFINE c == Call(p)
           r == c.id
           at == txn[p].at
           v == Verdict(c.op, c.prop, r, at)
<1>1. Reads(p)
  BY HoldsAfterRead
<1>2. ~Refuse(p)
  BY DEF Refuse, TypeOK, Idle
<1>3. PICK op, w : Entering(p, op) /\ Decide(p, w)
  BY <1>1, <1>2 DEF Reads, InsertRead, ReleaseRead, ConfirmRead, SubmitRead, DecideRead,
     UpsertRead, WithdrawRead
<1>4. txn[p] \in Running
  BY <1>3, InFlight DEF Entering
<1>5. Call(p)' = c /\ txn'[p].at = at /\ txn'[p].verdict = w /\ UNCHANGED <<block, request>>
  BY <1>3, <1>4 DEF Decide, TypeOK, Call, Running, tables
<1>6. IsDecision(c)
  BY <1>5
<1>7. DecideRead(p)
  BY <1>1, <1>6 DEF Reads, InsertRead, ReleaseRead, ConfirmRead, SubmitRead, UpsertRead,
     WithdrawRead, Entering, IsDecision
<1>8. v # "none" /\ w = v
  <2>1. v # "none" /\ Decide(p, v)
    BY <1>2, <1>7 DEF DecideRead
  <2>2. txn'[p].verdict = v
    BY <1>4, <2>1 DEF Decide, TypeOK, Running
  <2> QED BY <1>5, <2>1, <2>2
<1>9. /\ IsPending(c.prop, r)
      /\ v \in {"occupy", "promote"} => c.op = "approve" /\ ~Lapsed(r, at)
      /\ v = "expire" => MayExpire(p, r)
  <2>1. IsPending(c.prop, r)
    BY <1>8 DEF Verdict
  <2>2. v \in {"occupy", "promote"} => c.op = "approve" /\ ~Lapsed(r, at)
    BY <1>6, <2>1 DEF Verdict, IsDecision
  <2>3. v = "expire" /\ ~Lapsed(r, at) =>
          c.op \in {"approve", "recheck"} /\ HasHold(r) /\ ~HoldInForce(c.prop, r, at)
    <3> SUFFICES ASSUME v = "expire", ~Lapsed(r, at)
                 PROVE  c.op \in {"approve", "recheck"} /\ HasHold(r) /\ ~HoldInForce(c.prop, r, at)
      OBVIOUS
    <3>1. CASE c.op = "approve"
      BY <2>1, <3>1 DEF Verdict, ApproveVerdict
    <3>2. CASE c.op = "recheck"
      BY <2>1, <3>2 DEF Verdict
    <3>3. CASE c.op \in {"reject", "expire"}
      BY <2>1, <3>3 DEF Verdict
    <3> QED BY <1>6, <3>1, <3>2, <3>3 DEF IsDecision
  <2>4. v = "expire" => MayExpire(p, r)
    <3>1. request[r].prop = c.prop
      BY <2>1 DEF IsPending
    <3> HIDE DEF v
    <3> QED BY <1>6, <2>3, <3>1 DEF MayExpire, IsDecision
  <2> QED BY <2>1, <2>2, <2>4
<1> HIDE DEF c, v
<1> QED BY <1>5, <1>8, <1>9
        DEF Timely, MayExpire, IsPending, Exists, Lapsed, HasHold, HoldInForce, LiveHold, ActiveAt, c

\* The records agree initially.
LEMMA InitRecordsInv == Init => RecordsInv
<1> SUFFICES ASSUME Init PROVE RecordsInv
  OBVIOUS
<1>1. \A r \in Ids : Exists(r) <=> r \in DOMAIN Legacy
  BY LegacyAssumption DEF Init, Exists, NoRow, Request, Decisions
<1>2. \A r \in DOMAIN Legacy : /\ r \in Ids /\ request[r] = Legacy[r]
                               /\ request[r].status = "pending" /\ request[r].hold = NoId
  BY LegacyAssumption DEF Init
<1>3. OneRequestPerKey
  BY <1>1, <1>2, LegacyAssumption DEF OneRequestPerKey
<1>4. OutboxTellsTheStory
  BY <1>1, <1>2 DEF Init, OutboxTellsTheStory, Decisions
<1>5. InventoryMatchesRequest /\ NoHoldOutlivesItsRequest
  BY <1>1, <1>2 DEF InventoryMatchesRequest, NoHoldOutlivesItsRequest, HasHold
<1>6. LegacyStays
  BY <1>1, <1>2 DEF LegacyStays
<1>7. DecisionsAreTimely
  BY DEF Init, DecisionsAreTimely, Idle
<1> QED BY <1>3, <1>4, <1>5, <1>6, <1>7 DEF RecordsInv

\* Every step keeps the records in agreement.
LEMMA NextRecordsInv == IInv /\ RecordsInv /\ [Next]_vars => RecordsInv'
<1> SUFFICES ASSUME IInv, RecordsInv, [Next]_vars PROVE RecordsInv'
  OBVIOUS
<1>1. TypeOK /\ TypeOK'
  BY NextTypeOK DEF IInv
<1>2. CASE UNCHANGED vars \/ Tick
  <2>1. UNCHANGED <<txn, block, request, outbox>>
    BY <1>2 DEF vars, tables, Tick
  <2>2. OneRequestPerKey' /\ OutboxTellsTheStory' /\ LegacyStays'
    BY <2>1 DEF RecordsInv, OneRequestPerKey, OutboxTellsTheStory, LegacyStays, Exists
  <2>3. InventoryMatchesRequest' /\ NoHoldOutlivesItsRequest'
    BY <2>1 DEF RecordsInv, InventoryMatchesRequest, NoHoldOutlivesItsRequest, Exists, HasHold,
       LiveHold, ActiveAt
  <2>4. DecisionsAreTimely'
    BY <2>1 DEF RecordsInv, DecisionsAreTimely, Timely, MayExpire, IsDecision, Call, Exists, Lapsed, HasHold,
       HoldInForce, LiveHold, ActiveAt
  <2> QED BY <2>2, <2>3, <2>4 DEF RecordsInv
<1>3. ASSUME NEW p \in Procs, Step(p) PROVE RecordsInv'
  <2>1. OneRequestPerKey'
    <3>1. \A r \in Ids : RequestMoves(p, r)
      BY <1>3, StepMoves
    <3> QED BY <1>1, <3>1, KeysStayApart DEF RecordsInv
  <2>2. InventoryMatchesRequest' /\ NoHoldOutlivesItsRequest'
    BY <1>1, <1>3, InventoryStaysMatched
  <2>3. OutboxTellsTheStory' /\ LegacyStays'
    BY <1>3, StoriesStayTrue
  <2>4. DecisionsAreTimely'
    <3> SUFFICES ASSUME NEW q \in Procs, txn'[q].phase = "holding", IsDecision(Call(q)')
                 PROVE  Timely(q)'
      BY DEF DecisionsAreTimely
    <3>1. CASE q = p
      BY <1>1, <1>3, <3>1, OwnIsTimely
    <3>2. CASE q # p
      BY <1>3, <3>2, OthersStayTimely
    <3> QED BY <3>1, <3>2
  <2> QED BY <2>1, <2>2, <2>3, <2>4 DEF RecordsInv
<1> QED BY <1>2, <1>3 DEF Next

\* Whatever calls race, the two invariants hold together.
LEMMA SpecInv == Spec => [](IInv /\ RecordsInv)
  BY InitIInv, NextIInv, InitRecordsInv, NextRecordsInv, PTL DEF Spec

\* An idempotency key names one request, though submissions of one key for
\* different properties do not wait for each other's lock: the unique index
\* decides between them.
THEOREM KeysNameOneRequest == Spec => []OneRequestPerKey
<1>1. RecordsInv => OneRequestPerKey
  BY DEF RecordsInv
<1> QED BY SpecInv, <1>1, PTL

\* The outbox holds, of each request, its submission and its one decision,
\* each written in the transaction that made it.
THEOREM OutboxMatchesRequests == Spec => []OutboxTellsTheStory
<1>1. RecordsInv => OutboxTellsTheStory
  BY DEF RecordsInv
<1> QED BY SpecInv, <1>1, PTL

\* A request's inventory record is its own and of its stay, and an approved
\* request has its occupancy, through every expiry, sweep, confirmation and
\* retry.
THEOREM RequestsOwnTheirInventory == Spec => []InventoryMatchesRequest
<1>1. RecordsInv => InventoryMatchesRequest
  BY DEF RecordsInv
<1> QED BY SpecInv, <1>1, PTL

\* No rejected or expired request keeps its nights blocked by a live hold.
THEOREM TurnedDownMeansFreed == Spec => []NoHoldOutlivesItsRequest
<1>1. RecordsInv => NoHoldOutlivesItsRequest
  BY DEF RecordsInv
<1> QED BY SpecInv, <1>1, PTL

-----------------------------------------------------------------------------
(* Action properties *)

\* A step that changes a table is that of a call in flight, and its last.
LEMMA WriterIsRunning ==
  ASSUME IInv, NEW p \in Procs, Step(p), tables' # tables
  PROVE  txn[p] # Idle /\ Ending(p) /\ Writes(p)
<1> DEFINE Quiet == Begin(p) \/ Crash(p) \/ Reads(p) \/ SweepScan(p) \/ SweepLock(p)
<1>1. Quiet \/ Writes(p)
  BY DEF Step, Progress, RequestStep, AvailabilityStep, ICalStep, Reads, Writes
<1>2. ~Quiet
  <2>1. TypeOK /\ VerdictsHold
    BY DEF IInv
  <2> QED BY <2>1, ReadUndisturbed
<1>3. Writes(p) => txn[p].phase \in {"holding", "sweeping"}
  BY DEF Writes, InsertWrite, ReleaseWrite, ConfirmWrite, SweepWrite, UpsertWrite, WithdrawWrite,
     ReplayWrite, SubmitWrite, OccupyWrite, PromoteWrite, CloseWrite, Holding, Deciding
<1>4. Writes(p) => Finish(p)
  BY DEF Writes, InsertWrite, ReleaseWrite, ConfirmWrite, SweepWrite, UpsertWrite, WithdrawWrite,
     ReplayWrite, SubmitWrite, OccupyWrite, PromoteWrite, CloseWrite
<1>5. Finish(p) => txn'[p] = Idle
  BY DEF Finish, IInv, TypeOK
<1> QED BY <1>1, <1>2, <1>3, <1>4, <1>5 DEF Idle, Ending

\* Approvals, rejections and expirations of one request race, and one wins.
THEOREM FirstDecisionWins == Spec => DecisionsAreFinal
<1> DEFINE Final == \A r \in Ids : Exists(r) /\ request[r].status # "pending" =>
                      request'[r] = [request[r] EXCEPT !.fingerprint = request'[r].fingerprint]
<1>1. IInv /\ RecordsInv /\ [Next]_vars => [Final]_vars
  <2> SUFFICES ASSUME IInv, RecordsInv, [Next]_vars, NEW r \in Ids, Exists(r),
                      request[r].status # "pending"
               PROVE  request'[r] = [request[r] EXCEPT !.fingerprint = request'[r].fingerprint]
    OBVIOUS
  <2>1. TypeOK /\ request[r] \in Request
    BY DEF IInv, TypeOK, Exists
  <2>2. CASE UNCHANGED vars \/ Tick
    BY <2>1, <2>2 DEF vars, tables, Tick, Request
  <2>3. ASSUME NEW p \in Procs, Step(p)
        PROVE  request'[r] = [request[r] EXCEPT !.fingerprint = request'[r].fingerprint]
    <3>1. RequestMoves(p, r)
      BY <2>3, StepMoves
    <3>2. ~Closes(p, r) /\ ~Approves(p, r)
      BY DEF Closes, Approves
    <3> QED BY <2>1, <3>1, <3>2, RequestsKeep
  <2> QED BY <2>2, <2>3 DEF Next
<1> QED BY SpecInv, <1>1, PTL DEF Spec, DecisionsAreFinal

\* However long a call waited for the lock, the instant it read before decides
\* on which side of the deadline it is; no other call's does.
THEOREM NothingIsApprovedLate == Spec => DeadlineDecides
<1> DEFINE Decides(r) ==
      /\ request'[r].status = "expired" => \E p \in Procs : Ending(p) /\ MayExpire(p, r)
      /\ request'[r].status = "approved" =>
           \E p \in Procs :
             /\ Ending(p)
             /\ Call(p).op = "approve" /\ Call(p).id = r /\ ~Lapsed(r, txn[p].at)
<1>1. ASSUME IInv, RecordsInv, [Next]_vars, NEW r \in Ids, Exists(r), request[r].status = "pending"
      PROVE  Decides(r)
  <2>1. CASE request'[r].status \notin {"expired", "approved"}
    BY <2>1
  <2>2. CASE request'[r].status \in {"expired", "approved"}
    <3>1. PICK p \in Procs : Step(p)
      BY <1>1, <2>2 DEF Next, Tick, vars, tables
    <3>2. TypeOK /\ RequestMoves(p, r) /\ Ending(p)
      BY <1>1, <2>2, <3>1, StepMoves, WriterIsRunning DEF IInv, tables
    <3>3. \/ Closes(p, r) /\ request'[r].status \in {"rejected", "expired"}
          \/ Approves(p, r) /\ request'[r].status = "approved"
      <4>1. Closes(p, r) \/ Approves(p, r)
        BY <1>1, <2>2, <3>2, RequestsKeep
      <4>2. Approves(p, r) => request'[r].status = "approved"
        BY <1>1, <3>2 DEF Approves, TypeOK, Exists, Request
      <4> QED BY <4>1, <4>2 DEF Closes
    <3> QED BY <3>2, <3>3 DEF Closes, Approves
  <2> QED BY <2>1, <2>2
<1> HIDE DEF Decides
<1>2. IInv /\ RecordsInv /\ [Next]_vars =>
        [\A r \in Ids : Exists(r) /\ request[r].status = "pending" => Decides(r)]_vars
  BY <1>1
<1>3. Spec => [][\A r \in Ids : Exists(r) /\ request[r].status = "pending" => Decides(r)]_vars
  BY SpecInv, <1>2, PTL DEF Spec
<1> QED BY <1>3 DEF Decides, DeadlineDecides

\* Sold nights come free only at the hands of the call that releases this
\* occupancy of this property.
THEOREM SoldNightsStaySold == Spec => OnlyAReleaseFreesOccupancy
<1> DEFINE Freed(P, i) ==
             \E p \in Procs :
               /\ Ending(p)
               /\ Call(p).op = "release" /\ Call(p).kind = "occupancy"
               /\ Call(p).prop = P /\ Call(p).id = i
<1> DEFINE Kept == \A P \in Properties, i \in Ids :
             ActiveAt(P, i) /\ block[P][i].kind = "occupancy" /\ block'[P][i] # block[P][i] =>
               Freed(P, i)
<1>1. IInv /\ RecordsInv /\ [Next]_vars => [Kept]_vars
  <2> SUFFICES ASSUME IInv, RecordsInv, [Next]_vars, NEW P \in Properties, NEW i \in Ids,
                      ActiveAt(P, i), block[P][i].kind = "occupancy", block'[P][i] # block[P][i]
               PROVE  Freed(P, i)
    OBVIOUS
  <2>1. PICK p \in Procs : Step(p)
    BY DEF Next, Tick, vars, tables
  <2>2. RowMoves(p, P, i)
    BY <2>1, StepMoves
  <2>3. /\ ReleaseWrite(p)
        /\ Call(p).prop = P /\ Call(p).id = i /\ Call(p).kind = "occupancy"
    BY <2>2 DEF RowMoves, LiveHold, ActiveAt, NoRow
  <2>4. Ending(p)
    BY <2>1, WriterIsRunning DEF tables
  <2>5. Call(p).op = "release"
    BY <2>3 DEF ReleaseWrite, Holding
  <2> QED BY <2>3, <2>4, <2>5
<1> QED BY SpecInv, <1>1, PTL DEF Spec, OnlyAReleaseFreesOccupancy

\* What an import writes over an earlier row of its event.
FeedMoves(P, u) ==
  LET old == feed[P][u]
      new == feed'[P][u]
  IN  \/ new = old
      \/ /\ new.version > old.version
         /\ new \in FeedBlock
      \/ /\ new.version = old.version
         /\ new.status = "active" => old.status = "active"

\* An upsert or a release writes a newer version, or the row's own without
\* bringing a released event back.
LEMMA ImportMoves ==
  ASSUME TypeOK, VerdictsHold, NEW p \in Procs, UpsertWrite(p) \/ WithdrawWrite(p),
         NEW P \in Properties, NEW u \in Uids, feed[P][u] # NoRow
  PROVE  FeedMoves(P, u)
<1> DEFINE c == Call(p)
           old == feed[P][u]
<1>1. old \in FeedBlock /\ feed[P] \in [Uids -> {NoRow} \cup FeedBlock]
  BY DEF TypeOK
<1>2. CASE UpsertWrite(p)
  <2>1. c \in UpsertCalls
    BY <1>2, HoldingFacts, CallKinds DEF UpsertWrite, Holding
  <2>2. CASE feed' = feed \/ P # c.prop \/ u # c.uid
    BY <1>2, <2>2 DEF UpsertWrite, FeedMoves, TypeOK
  <2>3. CASE feed' # feed /\ P = c.prop /\ u = c.uid
    <3>1. feed'[P][u] = [status |-> "active", stay |-> c.stay, version |-> c.version]
      BY <1>2, <2>3 DEF UpsertWrite, TypeOK
    <3>2. \/ c.version > old.version
          \/ old = [status |-> "active", stay |-> c.stay, version |-> c.version]
      BY <1>2, <2>3 DEF UpsertWrite, NotStale
    <3>3. [status |-> "active", stay |-> c.stay, version |-> c.version] \in FeedBlock
      BY <2>1 DEF UpsertCalls, FeedBlock
    <3> HIDE DEF c
    <3> QED BY <3>1, <3>2, <3>3 DEF FeedMoves
  <2> QED BY <2>2, <2>3
<1>3. CASE WithdrawWrite(p)
  <2>1. c \in WithdrawCalls
    BY <1>3, HoldingFacts, CallKinds DEF WithdrawWrite, Holding
  <2>2. CASE P # c.prop \/ u # c.uid
    BY <1>3, <2>2 DEF WithdrawWrite, FeedMoves, TypeOK
  <2>3. CASE P = c.prop /\ u = c.uid
    <3>1. feed'[P][u] = WithdrawnRow(old, c.version)
      BY <1>3, <2>3 DEF WithdrawWrite, TypeOK
    <3>2. c.version \in Nat \cup {NoVersion}
      BY <2>1 DEF WithdrawCalls
    <3>3. [old EXCEPT !.status = "released"] \in FeedBlock
      BY <1>1 DEF FeedBlock
    <3> HIDE DEF c, old
    <3>4. CASE c.version = NoVersion
      BY <1>1, <3>1, <3>4 DEF WithdrawnRow, FeedMoves, FeedBlock, old
    <3>5. CASE c.version # NoVersion
      <4>1. c.version \in Nat
        BY <3>2, <3>5
      <4>2. [old EXCEPT !.status = "released", !.version = c.version] \in FeedBlock
        BY <1>1, <4>1 DEF FeedBlock
      <4> QED BY <1>1, <3>1, <3>5, <4>1, <4>2 DEF WithdrawnRow, FeedMoves, FeedBlock, old
    <3> QED BY <3>4, <3>5
  <2> QED BY <2>2, <2>3
<1> QED BY <1>2, <1>3

\* Snapshots of one event that arrive out of order never turn it back.
THEOREM OldNewsChangesNothing == Spec => ImportsMoveForward
<1> DEFINE Forward == \A P \in Properties, u \in Uids : feed[P][u] # NoRow =>
             /\ feed'[P][u].version >= feed[P][u].version
             /\ feed[P][u].status = "released" /\ feed'[P][u].status = "active" =>
                  feed'[P][u].version > feed[P][u].version
<1>1. IInv /\ RecordsInv /\ [Next]_vars => [Forward]_vars
  <2> SUFFICES ASSUME IInv, RecordsInv, [Next]_vars, NEW P \in Properties, NEW u \in Uids,
                      feed[P][u] # NoRow
               PROVE  /\ feed'[P][u].version >= feed[P][u].version
                      /\ feed[P][u].status = "released" /\ feed'[P][u].status = "active" =>
                           feed'[P][u].version > feed[P][u].version
    OBVIOUS
  <2>1. TypeOK /\ VerdictsHold /\ feed[P][u] \in FeedBlock
    BY DEF IInv, TypeOK
  <2>2. FeedMoves(P, u)
    <3>1. CASE feed' = feed
      BY <3>1 DEF FeedMoves
    <3>2. CASE feed' # feed
      <4>1. PICK p \in Procs : Step(p)
        BY <3>2 DEF Next, Tick, vars, tables
      <4>2. Writes(p)
        BY <3>2, <4>1, WriterIsRunning DEF tables
      <4>3. UpsertWrite(p) \/ WithdrawWrite(p)
        BY <3>2, <4>2 DEF Writes, InsertWrite, ReleaseWrite, ConfirmWrite, SweepWrite,
           ReplayWrite, SubmitWrite, OccupyWrite, PromoteWrite, CloseWrite
      <4> QED BY <2>1, <4>3, ImportMoves
    <3> QED BY <3>1, <3>2
  <2> QED BY <2>1, <2>2 DEF FeedMoves, FeedBlock
<1> QED BY SpecInv, <1>1, PTL DEF Spec, ImportsMoveForward

-----------------------------------------------------------------------------
(* BookingEngine implements Calendar: every step of the repositories is a  *)
(* trade, the giving up of one firm claim, one import, or nothing that the *)
(* calendar can see.  And no step of Calendar gives a night to two owners. *)

-----------------------------------------------------------------------------
(* The nights a record or an import stands for *)

\* A stay has nights, and they are integers.
LEMMA StaysHaveNights ==
  ASSUME NEW s \in Stays
  PROVE  Nights(s) \in SUBSET Int /\ Nights(s) # {}
<1>1. IsStay(s)
  BY StaysAssumption
<1>2. s.arrival \in Int /\ s.departure \in Int /\ s.arrival < s.departure
  BY <1>1 DEF IsStay
<1>3. s.arrival \in Nights(s) /\ Nights(s) \in SUBSET Int
  BY <1>2 DEF Nights
<1> QED BY <1>3

\* A state of the engine stands for a state of the calendar.
LEMMA CalendarTyped == TypeOK => Abstract!CalendarTypeOK
<1> SUFFICES ASSUME TypeOK PROVE Abstract!CalendarTypeOK
  OBVIOUS
<1>1. ASSUME NEW P \in Properties, NEW i \in Ids PROVE ClaimOf(P, i) \in Abstract!Claim
  <2>1. CASE ActiveAt(P, i)
    <3>1. block[P][i] \in Block
      BY <2>1 DEF TypeOK, ActiveAt, NoRow
    <3>2. Nights(block[P][i].stay) \in SUBSET Int /\ Nights(block[P][i].stay) # {}
      BY <3>1, StaysHaveNights DEF Block
    <3>3. CASE block[P][i].kind = "hold"
      BY <2>1, <3>2, <3>3 DEF ClaimOf, Abstract!Claim
    <3>4. CASE block[P][i].kind # "hold"
      BY <2>1, <3>2, <3>4 DEF ClaimOf, Abstract!Claim
    <3> QED BY <3>3, <3>4
  <2>2. CASE ~ActiveAt(P, i)
    BY <2>2 DEF ClaimOf, Abstract!Claim, Abstract!Free
  <2> QED BY <2>1, <2>2
<1>2. ASSUME NEW P \in Properties, NEW u \in Uids PROVE ImportOf(P, u) \in SUBSET Int
  <2>1. CASE feed[P][u].status = "active"
    <3>1. feed[P][u] \in FeedBlock
      BY <2>1 DEF TypeOK, NoRow
    <3> QED BY <2>1, <3>1, StaysHaveNights DEF ImportOf, FeedBlock
  <2>2. CASE feed[P][u].status # "active"
    BY <2>2 DEF ImportOf
  <2> QED BY <2>1, <2>2
<1>3. ASSUME NEW r \in Ids PROVE request[r].status \in Abstract!Statuses
  BY DEF TypeOK, NoRow, Request, Decisions, Abstract!Statuses
<1> QED BY <1>1, <1>2, <1>3 DEF Abstract!CalendarTypeOK, claims, imports, statuses

\* Rows that do not overlap stand for claims and imports that share no night.
LEMMA NightsApart == TypeOK /\ NoDoubleBooking => Abstract!NoNightOwnedTwice
<1> SUFFICES ASSUME TypeOK, NoDoubleBooking, NEW P \in Properties, NEW i \in Ids
             PROVE  /\ \A j \in Ids \ {i} : ClaimOf(P, i).nights \cap ClaimOf(P, j).nights = {}
                    /\ \A u \in Uids : ClaimOf(P, i).nights \cap ImportOf(P, u) = {}
  BY DEF Abstract!NoNightOwnedTwice, claims, imports
<1>1. CASE ~ActiveAt(P, i)
  BY <1>1 DEF ClaimOf
<1>2. CASE ActiveAt(P, i)
  <2>1. IsStay(block[P][i].stay)
    BY <1>2, StaysAssumption DEF TypeOK, ActiveAt, NoRow, Block
  <2>2. ASSUME NEW j \in Ids \ {i}, ActiveAt(P, j)
        PROVE  Nights(block[P][i].stay) \cap Nights(block[P][j].stay) = {}
    <3>1. IsStay(block[P][j].stay)
      BY <2>2, StaysAssumption DEF TypeOK, ActiveAt, NoRow, Block
    <3>2. ~Overlaps(block[P][i].stay, block[P][j].stay)
      BY <1>2, <2>2 DEF NoDoubleBooking, Disjoint, ActiveAt
    <3> QED BY <2>1, <3>1, <3>2, OverlapsIffNightShared
  <2>3. ASSUME NEW u \in Uids, feed[P][u].status = "active"
        PROVE  Nights(block[P][i].stay) \cap Nights(feed[P][u].stay) = {}
    <3>1. IsStay(feed[P][u].stay)
      BY <2>3, StaysAssumption DEF TypeOK, NoRow, FeedBlock
    <3>2. ~Overlaps(feed[P][u].stay, block[P][i].stay)
      BY <1>2, <2>3 DEF NoDoubleBooking, Disjoint, ActiveAt
    <3> QED BY <2>1, <3>1, <3>2, OverlapsIffNightShared
  <2> QED BY <1>2, <2>2, <2>3 DEF ClaimOf, ImportOf
<1> QED BY <1>1, <1>2

\* The same of the state a step leads to.
LEMMA NextCalendar ==
  /\ TypeOK' => Abstract!CalendarTypeOK'
  /\ TypeOK' /\ NoDoubleBooking' => Abstract!NoNightOwnedTwice'
  BY CalendarTyped, NightsApart, PTL

-----------------------------------------------------------------------------
(* Steps *)

\* A record that moves moves its claim, unless a release gives it up.
LEMMA ClaimsMove ==
  ASSUME IInv, IInv', NEW p \in Procs, NEW P \in Properties, NEW i \in Ids,
         RowMoves(p, P, i), feed' = feed, claims'[P][i] # claims[P][i],
         ~(ReleaseWrite(p) /\ Call(p).kind # "hold")
  PROVE  Abstract!ClaimMoves(P, i)
<1>1. /\ claims[P][i] = ClaimOf(P, i) /\ claims'[P][i] = ClaimOf(P, i)'
      /\ block[P][i] \in {NoRow} \cup Block
  BY DEF IInv, claims, TypeOK
<1>2. Abstract!CalendarTypeOK' /\ Abstract!NoNightOwnedTwice'
  BY NextCalendar DEF IInv
<1>3. CASE block[P][i] = NoRow
  <2>1. claims[P][i] = Abstract!Free
    BY <1>1, <1>3 DEF ClaimOf, ActiveAt, NoRow, Abstract!Free
  <2>2. claims'[P][i] \in Abstract!Claim
    BY <1>2 DEF Abstract!CalendarTypeOK
  <2>3. Abstract!Unclaimed(P, i, claims'[P][i].nights)
    BY <1>2 DEF Abstract!Unclaimed, Abstract!NoNightOwnedTwice
  <2> QED BY <2>1, <2>2, <2>3 DEF Abstract!ClaimMoves
<1>4. CASE LiveHold(P, i) /\ block'[P][i] = [block[P][i] EXCEPT !.status = "released"]
  <2>1. claims[P][i] = [nights |-> Nights(block[P][i].stay), firm |-> FALSE]
    BY <1>1, <1>4 DEF ClaimOf, LiveHold
  <2>2. claims'[P][i] = Abstract!Free
    BY <1>1, <1>4 DEF ClaimOf, LiveHold, ActiveAt, NoRow, Block, Abstract!Free
  <2> QED BY <2>1, <2>2 DEF Abstract!ClaimMoves
<1>5. CASE LiveHold(P, i) /\ block'[P][i] = [block[P][i] EXCEPT !.kind = "occupancy", !.expires = 0]
  <2>1. block[P][i] \in Block /\ block[P][i].status = "active" /\ block[P][i].kind = "hold"
    BY <1>1, <1>5 DEF LiveHold, ActiveAt, NoRow
  <2>2. /\ block'[P][i].status = "active" /\ block'[P][i].kind = "occupancy"
        /\ block'[P][i].stay = block[P][i].stay
    BY <1>5, <2>1 DEF Block
  <2>3. claims[P][i] = [nights |-> Nights(block[P][i].stay), firm |-> FALSE]
    BY <1>1, <2>1 DEF ClaimOf, ActiveAt
  <2>4. claims'[P][i] = [nights |-> Nights(block[P][i].stay), firm |-> TRUE]
    BY <1>1, <2>2 DEF ClaimOf, ActiveAt
  <2>5. Nights(block[P][i].stay) # {}
    BY <2>1, StaysHaveNights DEF Block
  <2>6. claims'[P][i] = [nights |-> claims[P][i].nights, firm |-> TRUE]
    BY <2>3, <2>4
  <2>7. claims[P][i] # Abstract!Free
    BY <2>3, <2>5 DEF Abstract!Free
  <2> QED BY <2>6, <2>7 DEF Abstract!ClaimMoves
<1>6. CASE /\ ReleaseWrite(p) /\ Call(p).kind = block[P][i].kind
           /\ ActiveAt(P, i)
           /\ block'[P][i] = [block[P][i] EXCEPT !.status = "released"]
  BY <1>4, <1>6 DEF LiveHold
<1>7. CASE block'[P][i] = block[P][i]
  BY <1>1, <1>7 DEF ClaimOf, ActiveAt
<1> QED BY <1>1, <1>3, <1>4, <1>5, <1>6, <1>7 DEF RowMoves

\* A request that moves moves its status, and an approval has its firm nights.
LEMMA StatusMoves ==
  ASSUME IInv, NEW p \in Procs, NEW r \in Ids, RequestMoves(p, r), statuses'[r] # statuses[r]
  PROVE  Abstract!StatusMoves(r)
<1>1. /\ statuses[r] = request[r].status /\ statuses'[r] = request'[r].status
      /\ TypeOK
  BY DEF statuses, IInv
<1>2. CASE ~Exists(r)
  BY <1>1, <1>2 DEF RequestMoves, Upgrades, Opens, Closes, Approves, Exists, NoRow,
     Abstract!StatusMoves
<1>3. CASE Exists(r)
  <2>1. Closes(p, r) \/ Approves(p, r)
    BY <1>1, <1>3, RequestsKeep
  <2>2. CASE Closes(p, r)
    BY <1>1, <2>2 DEF Closes, Abstract!StatusMoves
  <2>3. CASE Approves(p, r)
    <3> DEFINE P == request[r].prop
    <3>1. P \in Properties /\ request[r] \in Request
      BY <1>1, <1>3 DEF TypeOK, Exists, Request
    <3>2. request[r].status = "pending" /\ request'[r].status = "approved"
      BY <2>3, <3>1 DEF Approves, Request
    <3>3. claims'[P][r] # Abstract!Free /\ claims'[P][r].firm
      <4>1. block'[P][r].status = "active" /\ block'[P][r].kind = "occupancy"
        BY <2>3 DEF Approves
      <4>2. claims'[P][r] = [nights |-> Nights(block'[P][r].stay), firm |-> TRUE]
        BY <3>1, <4>1 DEF claims, ClaimOf, ActiveAt
      <4> QED BY <4>2 DEF Abstract!Free
    <3> HIDE DEF P
    <3> QED BY <1>1, <3>1, <3>2, <3>3 DEF Abstract!StatusMoves
  <2> QED BY <2>1, <2>2, <2>3
<1> QED BY <1>2, <1>3

\* A step that leaves the imports alone and is not the release of a record
\* that is firm is a trade.
LEMMA StepTrades ==
  ASSUME IInv, IInv', RecordsInv, NEW p \in Procs, Step(p), feed' = feed,
         ~(ReleaseWrite(p) /\ Call(p).kind # "hold")
  PROVE  Abstract!Trade
<1>1. Abstract!CalendarTypeOK'
  BY NextCalendar DEF IInv
<1>2. ASSUME NEW P \in Properties, NEW i \in Ids, claims'[P][i] # claims[P][i]
      PROVE  Abstract!ClaimMoves(P, i)
  BY <1>2, StepMoves, ClaimsMove
<1>3. ASSUME NEW r \in Ids, statuses'[r] # statuses[r]
      PROVE  Abstract!StatusMoves(r)
  BY <1>3, StepMoves, StatusMoves
<1>4. imports' = imports
  BY DEF imports, ImportOf
<1> QED BY <1>1, <1>2, <1>3, <1>4 DEF Abstract!Trade, Abstract!CalendarTypeOK

\* Two tables that differ in one entry at most differ by the change of it.
LEMMA OneEntryChanges ==
  ASSUME NEW S, NEW T, NEW V, NEW f \in [S -> [T -> V]], NEW g \in [S -> [T -> V]],
         NEW a \in S, NEW b \in T,
         \A s \in S, t \in T : ~(s = a /\ t = b) => g[s][t] = f[s][t]
  PROVE  g = [f EXCEPT ![a][b] = g[a][b]]
<1>1. g[a] = [f[a] EXCEPT ![b] = g[a][b]]
  <2>1. g[a] \in [T -> V] /\ f[a] \in [T -> V]
    OBVIOUS
  <2>2. \A t \in T : g[a][t] = [f[a] EXCEPT ![b] = g[a][b]][t]
    BY <2>1
  <2> QED BY <2>1, <2>2
<1>2. ASSUME NEW s \in S, s # a PROVE g[s] = f[s]
  <2>1. g[s] \in [T -> V] /\ f[s] \in [T -> V]
    OBVIOUS
  <2>2. \A t \in T : g[s][t] = f[s][t]
    BY <1>2
  <2> QED BY <2>1, <2>2
<1> QED BY <1>1, <1>2

\* The release of a firm record gives up one claim.
LEMMA ReleaseGivesUp ==
  ASSUME IInv, IInv', NEW p \in Procs, ReleaseWrite(p)
  PROVE  \/ \E P \in Properties, i \in Ids : Abstract!GiveUp(P, i)
         \/ UNCHANGED <<claims, imports, statuses>>
<1> DEFINE P == Call(p).prop
           i == Call(p).id
<1>1. TypeOK /\ P \in Properties /\ i \in Ids
  <2>1. TypeOK /\ Call(p) \in ReleaseCalls
    BY HoldingFacts, CallKinds DEF IInv, ReleaseWrite, Holding
  <2> QED BY <2>1 DEF ReleaseCalls
<1>2. imports' = imports /\ statuses' = statuses
  BY DEF ReleaseWrite, imports, ImportOf, statuses
<1>3. CASE Releasable(P, i, Call(p).kind)
  <2>1. block[P][i] \in Block
    BY <1>1, <1>3 DEF Releasable, ActiveAt, TypeOK, NoRow
  <2>2. block'[P] = Released(block[P], {i}) /\ \A Q \in Properties \ {P} : block'[Q] = block[Q]
    <3>1. {j \in {i} : Releasable(P, j, Call(p).kind)} = {i}
      BY <1>3
    <3> QED BY <1>1, <3>1 DEF ReleaseWrite, TypeOK
  <2>3. \A j \in Ids : block'[P][j] = IF j = i THEN [block[P][j] EXCEPT !.status = "released"]
                                      ELSE block[P][j]
    BY <2>2 DEF Released
  <2> HIDE DEF P, i
  <2>4. claims'[P][i] = Abstract!Free
    <3>1. block'[P][i].status = "released"
      BY <1>1, <2>1, <2>3 DEF Block
    <3> QED BY <1>1, <3>1 DEF claims, ClaimOf, ActiveAt, Abstract!Free
  <2>5. \A Q \in Properties, j \in Ids : ~(Q = P /\ j = i) => claims'[Q][j] = claims[Q][j]
    BY <2>2, <2>3 DEF claims, ClaimOf, ActiveAt
  <2>6. /\ claims \in [Properties -> [Ids -> Abstract!Claim]]
        /\ claims' \in [Properties -> [Ids -> Abstract!Claim]]
    BY <1>1, CalendarTyped, NextCalendar DEF IInv, Abstract!CalendarTypeOK
  <2>7. claims' = [claims EXCEPT ![P][i] = Abstract!Free]
    BY <1>1, <2>4, <2>5, <2>6, OneEntryChanges
  <2>8. Abstract!GiveUp(P, i)
    BY <1>2, <2>7 DEF Abstract!GiveUp
  <2> QED BY <1>1, <2>8
<1>4. CASE ~Releasable(P, i, Call(p).kind)
  <2>1. block' = block
    BY <1>1, <1>4 DEF ReleaseWrite, Released, TypeOK
  <2> QED BY <1>2, <2>1 DEF claims, ClaimOf, ActiveAt
<1> QED BY <1>3, <1>4

\* The write of an upsert or a release of an event is one import.
LEMMA WriteImports ==
  ASSUME IInv, IInv', NEW p \in Procs, UpsertWrite(p) \/ WithdrawWrite(p)
  PROVE  \E P \in Properties, u \in Uids : Abstract!Import(P, u)
<1> DEFINE P == Call(p).prop
           u == Call(p).uid
<1>1. TypeOK /\ P \in Properties /\ u \in Uids
  <2>1. TypeOK /\ Call(p) \in UpsertCalls \cup WithdrawCalls
    BY HoldingFacts, CallKinds DEF IInv, UpsertWrite, WithdrawWrite, Holding
  <2> QED BY <2>1 DEF UpsertCalls, WithdrawCalls
<1>2. claims' = claims /\ statuses' = statuses
  BY DEF UpsertWrite, WithdrawWrite, claims, ClaimOf, ActiveAt, statuses
<1>3. \A Q \in Properties, v \in Uids : ~(Q = P /\ v = u) => feed'[Q][v] = feed[Q][v]
  BY <1>1 DEF UpsertWrite, WithdrawWrite, TypeOK
<1> HIDE DEF P, u
<1>4. imports' = [imports EXCEPT ![P][u] = imports'[P][u]]
  <2>1. \A Q \in Properties, v \in Uids : ~(Q = P /\ v = u) => imports'[Q][v] = imports[Q][v]
    BY <1>3 DEF imports, ImportOf
  <2>2. /\ imports \in [Properties -> [Uids -> SUBSET Int]]
        /\ imports' \in [Properties -> [Uids -> SUBSET Int]]
    BY <1>1, CalendarTyped, NextCalendar DEF IInv, Abstract!CalendarTypeOK
  <2> QED BY <1>1, <2>1, <2>2, OneEntryChanges
<1>5. imports'[P][u] \in SUBSET Int
  BY <1>1, NextCalendar DEF IInv, Abstract!CalendarTypeOK
<1>6. \A c \in Ids : imports'[P][u] \cap claims[P][c].nights = {}
  BY <1>1, <1>2, NextCalendar DEF IInv, Abstract!NoNightOwnedTwice
<1>7. Abstract!Import(P, u)
  BY <1>2, <1>4, <1>5, <1>6 DEF Abstract!Import
<1> QED BY <1>1, <1>7

-----------------------------------------------------------------------------
(* The refinement *)

\* The empty tables, and the repaired requests, stand for a free calendar.
LEMMA InitCalendar == Init => Abstract!CalendarInit
<1> SUFFICES ASSUME Init PROVE Abstract!CalendarInit
  OBVIOUS
<1>1. claims = [P \in Properties |-> [i \in Ids |-> Abstract!Free]]
  BY DEF Init, claims, ClaimOf, ActiveAt, NoRow, Abstract!Free
<1>2. imports = [P \in Properties |-> [u \in Uids |-> {}]]
  BY DEF Init, imports, ImportOf, NoRow
<1>3. statuses \in [Ids -> {"absent", "pending"}]
  BY LegacyAssumption DEF Init, statuses, NoRow
<1> QED BY <1>1, <1>2, <1>3 DEF Abstract!CalendarInit

\* Every step of the engine is a step of the calendar, or none.
LEMMA NextCalendarStep ==
  ASSUME IInv, IInv', RecordsInv, [Next]_vars
  PROVE  [Abstract!CalendarNext]_<<claims, imports, statuses>>
<1>1. CASE UNCHANGED vars \/ Tick
  <2>1. UNCHANGED <<block, feed, request>>
    BY <1>1 DEF vars, tables, Tick
  <2> QED BY <2>1 DEF claims, ClaimOf, ActiveAt, imports, ImportOf, statuses
<1>2. ASSUME NEW p \in Procs, Step(p)
      PROVE  [Abstract!CalendarNext]_<<claims, imports, statuses>>
  <2>1. CASE ReleaseWrite(p)
    BY <2>1, ReleaseGivesUp DEF Abstract!CalendarNext
  <2>2. CASE UpsertWrite(p) \/ WithdrawWrite(p)
    BY <2>2, WriteImports DEF Abstract!CalendarNext
  <2>3. CASE ~(ReleaseWrite(p) \/ UpsertWrite(p) \/ WithdrawWrite(p))
    <3>1. feed' = feed
      <4>1. CASE tables' = tables
        BY <4>1 DEF tables
      <4>2. CASE Writes(p)
        BY <2>3, <4>2 DEF Writes, InsertWrite, ConfirmWrite, SweepWrite,
           ReplayWrite, SubmitWrite, OccupyWrite, PromoteWrite, CloseWrite
      <4> QED BY <1>2, <4>1, <4>2, WriterIsRunning
    <3> QED BY <1>2, <2>3, <3>1, StepTrades DEF Abstract!CalendarNext
  <2> QED BY <2>1, <2>2, <2>3
<1> QED BY <1>1, <1>2 DEF Next

\* With all their locks, clocks, retries and crashes the repositories keep the
\* promise of Calendar: what they commit is always one of its steps.
THEOREM EngineImplementsCalendar == Spec => ImplementsCalendar
<1>1. IInv /\ IInv' /\ RecordsInv /\ [Next]_vars =>
        [Abstract!CalendarNext]_<<claims, imports, statuses>>
  BY NextCalendarStep
<1> QED BY SpecInv, InitCalendar, <1>1, PTL
        DEF Spec, ImplementsCalendar, Abstract!CalendarSpec, Abstract!cvars

-----------------------------------------------------------------------------
(* What the calendar promises *)

\* The steps of Calendar keep its types.
LEMMA CalendarKeepsTypes ==
  ASSUME Abstract!CalendarTypeOK, [Abstract!CalendarNext]_<<claims, imports, statuses>>
  PROVE  Abstract!CalendarTypeOK'
<1>1. CASE UNCHANGED <<claims, imports, statuses>>
  BY <1>1 DEF Abstract!CalendarTypeOK
<1>2. CASE Abstract!Trade
  BY <1>2 DEF Abstract!Trade, Abstract!CalendarTypeOK
<1>3. ASSUME NEW P \in Properties, NEW c \in Ids, Abstract!GiveUp(P, c)
      PROVE  Abstract!CalendarTypeOK'
  <2>1. Abstract!Free \in Abstract!Claim
    BY DEF Abstract!Claim
  <2> QED BY <1>3, <2>1 DEF Abstract!GiveUp, Abstract!CalendarTypeOK
<1>4. ASSUME NEW P \in Properties, NEW u \in Uids, Abstract!Import(P, u)
      PROVE  Abstract!CalendarTypeOK'
  <2> DEFINE N == imports'[P][u]
  <2>1. N \in SUBSET Int /\ imports' = [imports EXCEPT ![P][u] = N] /\ UNCHANGED <<claims, statuses>>
    BY <1>4 DEF Abstract!Import
  <2> HIDE DEF N
  <2>2. [imports EXCEPT ![P][u] = N] \in [Properties -> [Uids -> SUBSET Int]]
    BY <2>1 DEF Abstract!CalendarTypeOK
  <2> QED BY <2>1, <2>2 DEF Abstract!CalendarTypeOK
<1> QED BY <1>1, <1>2, <1>3, <1>4 DEF Abstract!CalendarNext

\* After a trade a claimant has nights it had before, or nights nobody has.
LEMMA TradedNights ==
  ASSUME Abstract!Trade, NEW P \in Properties, NEW c \in Ids
  PROVE  \/ claims'[P][c].nights \subseteq claims[P][c].nights
         \/ Abstract!Unclaimed(P, c, claims'[P][c].nights)
<1>1. claims'[P][c] = claims[P][c] \/ Abstract!ClaimMoves(P, c)
  BY DEF Abstract!Trade
<1> QED BY <1>1 DEF Abstract!ClaimMoves, Abstract!Free

\* Whatever implements the calendar never gives a night to two owners: the
\* actions of Calendar, and so what the refinement is worth, imply it alone.
THEOREM CalendarKeepsItsPromise == Abstract!CalendarSpec => []Abstract!NoNightOwnedTwice
<1> DEFINE Inv == Abstract!CalendarTypeOK /\ Abstract!NoNightOwnedTwice
<1>1. Abstract!CalendarInit => Inv
  BY DEF Abstract!CalendarInit, Abstract!NoNightOwnedTwice, Abstract!CalendarTypeOK, Abstract!Free,
     Abstract!Claim, Abstract!Statuses
<1>2. Inv /\ [Abstract!CalendarNext]_<<claims, imports, statuses>> => Inv'
  <2> SUFFICES ASSUME Inv, [Abstract!CalendarNext]_<<claims, imports, statuses>>
               PROVE  Abstract!NoNightOwnedTwice'
    BY CalendarKeepsTypes
  <2>1. CASE UNCHANGED <<claims, imports, statuses>>
    BY <2>1 DEF Abstract!NoNightOwnedTwice
  <2>2. CASE Abstract!Trade
    <3> SUFFICES ASSUME NEW P \in Properties, NEW c \in Ids
                 PROVE  /\ \A d \in Ids \ {c} : claims'[P][c].nights \cap claims'[P][d].nights = {}
                        /\ \A u \in Uids : claims'[P][c].nights \cap imports'[P][u] = {}
      BY DEF Abstract!NoNightOwnedTwice
    <3>1. imports' = imports
      BY <2>2 DEF Abstract!Trade
    <3>2. ASSUME NEW d \in Ids \ {c}
          PROVE  claims'[P][c].nights \cap claims'[P][d].nights = {}
      BY <2>2, TradedNights DEF Abstract!NoNightOwnedTwice, Abstract!Unclaimed
    <3>3. ASSUME NEW u \in Uids PROVE claims'[P][c].nights \cap imports'[P][u] = {}
      BY <2>2, <3>1, TradedNights DEF Abstract!NoNightOwnedTwice, Abstract!Unclaimed
    <3> QED BY <3>2, <3>3
  <2>3. ASSUME NEW Q \in Properties, NEW d \in Ids, Abstract!GiveUp(Q, d)
        PROVE  Abstract!NoNightOwnedTwice'
    <3>1. /\ imports' = imports
          /\ \A P \in Properties, e \in Ids : claims'[P][e].nights \subseteq claims[P][e].nights
      BY <2>3 DEF Abstract!GiveUp, Abstract!CalendarTypeOK, Abstract!Free
    <3> QED BY <3>1 DEF Abstract!NoNightOwnedTwice
  <2>4. ASSUME NEW Q \in Properties, NEW v \in Uids, Abstract!Import(Q, v)
        PROVE  Abstract!NoNightOwnedTwice'
    <3>1. /\ claims' = claims
          /\ \A P \in Properties, u \in Uids :
               imports'[P][u] = imports[P][u] \/ (P = Q /\ u = v)
      BY <2>4 DEF Abstract!Import, Abstract!CalendarTypeOK
    <3>2. \A c \in Ids : imports'[Q][v] \cap claims[Q][c].nights = {}
      BY <2>4 DEF Abstract!Import
    <3> QED BY <3>1, <3>2 DEF Abstract!NoNightOwnedTwice
  <2> QED BY <2>1, <2>2, <2>3, <2>4 DEF Abstract!CalendarNext
<1> QED BY <1>1, <1>2, PTL DEF Abstract!CalendarSpec, Abstract!cvars
=============================================================================
