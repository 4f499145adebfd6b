---------------------------- MODULE PropertyEdits ----------------------------
(***************************************************************************)
(* A property's row, and the admin requests that edit it.                  *)
(*                                                                         *)
(* The content route loads the property, waits for the CSRF check, merges  *)
(* what it was sent over what it loaded, and writes every column.  The     *)
(* session and the role of a request belong to AdminSessions.              *)
(***************************************************************************)
EXTENDS PropertyConfiguration

CONSTANTS
  Handlers,       \* content requests in progress at one time
  Id,             \* the property of the path
  Inputs,         \* configurations a client may send
  Creations,      \* those the property is created from
  Bodies,         \* bodies of content requests, without their CSRF token
  NoProperty,
  NoBody

\* What JSON gives a field: lengths are counted, numbers are whole, arrays have
\* an end.  (The parser refuses other numbers as it refuses a text for a count.)
Texts == [is: {"text"}, word: STRING, length: Nat, padding: Nat, clean: BOOLEAN]

IsScalar(v) == (v.is = "text" => v \in Texts) /\ (v.is = "count" => v.n \in Int)

IsItem(v) ==
  /\ IsScalar(v)
  /\ v.is = "record" => \A f \in DOMAIN v.fields : IsScalar(v.fields[f])

IsValue(v) ==
  /\ IsScalar(v)
  /\ v.is = "array" => /\ v.items \in Seq(ToSet(v.items))
                        /\ \A i \in DOMAIN v.items : IsItem(v.items[i])

IsInput(input) == \A f \in DOMAIN input : IsValue(input[f])

ASSUME InputsAssumption == \A input \in Inputs \cup Creations \cup Bodies : IsInput(input)

VARIABLES
  row,            \* the row of properties, or NoProperty
  handler,        \* handler[h]: what a request has been sent, loaded and checked
  overtaken       \* history: overtaken[h], the row was written since h loaded it

vars == <<row, handler, overtaken>>

Idle == [phase |-> "idle", body |-> NoBody, loaded |-> NoProperty, input |-> NoProperty]

Init ==
  /\ row = NoProperty
  /\ handler = [h \in Handlers |-> Idle]
  /\ overtaken = [h \in Handlers |-> FALSE]

Ends(h) == handler' = [handler EXCEPT ![h] = Idle]

\* Every request that has loaded the row is now behind.
Written == overtaken' = [h \in Handlers |-> handler[h].phase # "idle"]

\* PropertyRepository.create; a duplicate is refused by the primary key.
Create ==
  /\ row = NoProperty
  /\ \E input \in Creations :
       /\ Accepted(input) /\ Checked(Canonical(input))
       /\ row' = Canonical(input)
  /\ Written
  /\ UNCHANGED handler

Delete ==
  /\ row # NoProperty
  /\ row' = NoProperty
  /\ Written
  /\ UNCHANGED handler

\* Mutation: the public view of the property is loaded.
LoadedFromView == PublicProjection(row)

\* loadProperty: findById parses the row, and canonicalProperty parses it once more.
Loaded == Canonical(Canonical(row))

\* A row that does not read back ends the request.
Load(h) ==
  /\ handler[h].phase = "idle"
  /\ row # NoProperty /\ Accepted(row) /\ row.id.word = Id
  /\ \E body \in Bodies :
       handler' = [handler EXCEPT ![h] =
         [Idle EXCEPT !.phase = "csrf", !.body = body, !.loaded = Loaded]]
  /\ overtaken' = [overtaken EXCEPT ![h] = FALSE]
  /\ UNCHANGED row

ContentFields == Plain

\* A body that sends content only is filled up with what was loaded; any
\* other is the whole configuration.
UpdateInput(loaded, body) ==
  IF DOMAIN body \subseteq ContentFields
  THEN [f \in Fields |-> IF f \in DOMAIN body THEN body[f] ELSE loaded[f]]
  ELSE body

Updatable(body, input) ==
  /\ DOMAIN body # {} /\ DOMAIN body \subseteq Fields
  /\ Accepted(input)
  /\ Canonical(input).id.word = Id

\* The CSRF check has come back: validatePropertyUpdate, and what update does
\* before its transaction.
Validate(h) ==
  LET input == UpdateInput(handler[h].loaded, handler[h].body)
  IN  /\ handler[h].phase = "csrf"
      /\ Updatable(handler[h].body, input)
      /\ handler' = [handler EXCEPT ![h].phase = "write", ![h].loaded = NoProperty,
                                         ![h].input = Canonical(input)]
      /\ UNCHANGED <<row, overtaken>>

\* It has refused the request, or the body is not valid.
Refuse(h) ==
  /\ handler[h].phase = "csrf"
  /\ Ends(h)
  /\ UNCHANGED <<row, overtaken>>

\* UPDATE of all columns under the property's lock; no row, no answer but 404.
Write(h) ==
  /\ handler[h].phase = "write"
  /\ IF row # NoProperty /\ Checked(handler[h].input)
     THEN row' = handler[h].input /\ Written
     ELSE UNCHANGED <<row, overtaken>>
  /\ Ends(h)

\* The transaction fails or the process dies.
Fail(h) ==
  /\ handler[h].phase = "write"
  /\ Ends(h)
  /\ UNCHANGED <<row, overtaken>>

Next ==
  \/ Create \/ Delete
  \/ \E h \in Handlers : Load(h) \/ Validate(h) \/ Refuse(h) \/ Write(h) \/ Fail(h)

Spec == Init /\ [][Next]_vars

-----------------------------------------------------------------------------
(* Properties *)

\* The parser has one reason, and no other, to refuse what it made itself: the
\* runtime's name of the time zone has not the shape it asks for.
RefusedForItsZone(c) == ConfigurationErrors(c) = ShapeErrors(c.timezone)

Kept(c) ==
  /\ Checked(c) /\ Canonical(c) = c
  /\ RefusedForItsZone(c) /\ RefusedForItsZone(PublicProjection(c))

\* The three places that judge a configuration agree but for time zones: what
\* the parser takes, the CHECK constraints take, and what the table holds is
\* parsed as itself, for the owner and in the public view, unless the runtime's
\* name of its time zone has not the shape the parser asks for; then both are
\* refused, and for that alone (createPropertyConfiguration, fromStoredRow,
\* fromPublicRow, migration 001).
ConfigurationsReadBack ==
  /\ (row = NoProperty /\ \A h \in Handlers : handler[h] = Idle) =>
       \A input \in Inputs : Accepted(input) => Kept(Canonical(input))
  /\ \A h \in Handlers : handler[h].phase = "write" => Checked(handler[h].input)
  /\ row # NoProperty => Kept(row)

\* "Persistence returns canonical domain properties": every row does.  The code
\* stores +03 as the runtime's +03:00, which fromStoredRow refuses.
PersistenceReturnsCanonical == row # NoProperty => ReadsBack(row)

\* An edit leaves the columns it was not sent as they were, private notes
\* included, unless another request wrote the row after this one had loaded it
\* (loadProperty, validatePropertyUpdate, update).
EditsKeepTheRest ==
  [][\A h \in Handlers :
       (/\ handler[h].phase = "write" /\ handler'[h].phase = "idle"
        /\ row' # row /\ ~overtaken[h])
       => \A f \in Fields \ DOMAIN handler[h].body : row'[f] = row[f]]_vars
=============================================================================
