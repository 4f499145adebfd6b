--------------------------- MODULE MCPropertyEdits ---------------------------
(* A property created from many inputs, and edited by two requests. *)
EXTENDS PropertyEdits

CONSTANTS h1, h2

AnyHandler == Permutations(Handlers)

UpperCaseChosen == [w \in {"pt", "eur"} |-> IF w = "pt" THEN "PT" ELSE "EUR"]
LowerCaseChosen == [w \in {"Pool", "POOL"} |-> "pool"]
\* "+03:00" is a zone of the runtime whose name is not of the shape asked for.
ZonesChosen ==
  [w \in {"Portugal", "Europe/Lisbon", "+03", "+03:00"} |->
     IF w \in {"+03", "+03:00"} THEN [word |-> "+03:00", length |-> 6]
     ELSE [word |-> "Europe/Lisbon", length |-> 13]]

Padded(v) == [v EXCEPT !.padding = 1]
Unclean(v) == [v EXCEPT !.clean = FALSE]

Bed(type, n) == Record([type |-> Text(type, 6), quantity |-> Count(n)])
Beds(n) == Array(<<Bed("double", n), Padded(Text("single", 6))>>)

Base ==
  [id |-> Text("p1", 2), name |-> Text("casa", 4), summary |-> Text("nice", 4),
   country |-> Text("pt", 2), timezone |-> Text("Portugal", 8), currency |-> Text("EUR", 3),
   propertyType |-> Text("house", 5), bedroomCount |-> Count(1),
   bedConfiguration |-> Array(<<Bed("double", 1)>>), bathroomCount |-> Count(1),
   maximumGuests |-> Count(2), amenities |-> Array(<<Text("pool", 4)>>),
   hostNotes |-> Text("host", 4), operationalNotes |-> Text("ops", 3)]

With(field, v) == [Base EXCEPT ![field] = v]

NotWords(field) ==
  {Missing, Count(1), Unclean(Base[field]), Padded(Base[field]), Text("", 0),
   Text(Base[field].word, Limits[field] + 1)}

\* Lengths at a field's limit, with white space that counts and is dropped.
Lengths(field) ==
  LET Of(n) == Text(Base[field].word, n)
  IN  {Of(1), Of(Limits[field]), Padded(Of(Limits[field])), Padded(Of(Limits[field] - 1))}

CountsOf(field) ==
  {Missing, Text("two", 3)}
    \cup {Count(n) : n \in {-1, 0, 1, 2, 3, Limits[field], Limits[field] + 1}}

Words ==
  {<<"country", Text("PT", 2)>>, <<"country", Text("ZZ", 2)>>, <<"country", Text("p1", 2)>>, <<"country", Text("EUR", 3)>>,
   <<"currency", Text("eur", 3)>>, <<"currency", Text("XXX", 3)>>,
   <<"timezone", Text("Nowhere", 7)>>, <<"timezone", Text("not a zone", 10)>>,
   <<"timezone", Text("+03", 3)>>, <<"timezone", Text("+03:00", 6)>>, <<"propertyType", Text("castle", 6)>>,
   <<"propertyType", Text("studio", 6)>>, <<"id", Text("a b", 3)>>, <<"id", Text("p2", 2)>>}

BedArrays ==
  {Missing, Array(<<>>), Array(<<Count(1)>>), Array(<<Bed("double", 0)>>),
   Array(<<Bed("sofa", 1)>>), Array(<<Bed("single", 1)>>), Array(<<Bed("single", 2)>>),
   Array(<<Bed("double", 1), Bed("double", 1)>>), Array(<<Bed("double", 101)>>),
   Array(<<Bed("double", 1), Bed("king", 1)>>), Array([i \in 1 .. 17 |-> Bed("king", 1)]),
   Array(<<Record([type |-> Padded(Text("double", 6)), quantity |-> Count(1)]), Bed("double", 1)>>),
   Array(<<Record([type |-> Text("double", 6), quantity |-> Count(1), note |-> Missing])>>)}

AmenityArrays ==
  {Missing, Array(<<>>), Array(<<Text("pool", 4), Text("Pool", 4)>>),
   Array(<<Text("pool", 4), Padded(Text("pool", 4))>>),
   Array(<<Padded(Text("pool", 4)), Padded(Text("bbq", 3))>>),
   Array(<<Text("pool", 80), Text("bbq", 81)>>), Array(<<Text("", 0)>>),
   Array([i \in 1 .. 33 |-> Text("bbq", 3)])}

InputsChosen ==
  {Base, [Base EXCEPT !.bedroomCount = Count(0), !.propertyType = Text("studio", 6)]}
    \cup UNION {{With(f, v) : v \in NotWords(f)} : f \in Fields \ (Counts \cup {"bedConfiguration", "amenities"})}
    \cup UNION {{With(f, v) : v \in Lengths(f)} : f \in Plain}
    \cup UNION {{With(f, v) : v \in CountsOf(f)} : f \in Counts}
    \cup {With(w[1], w[2]) : w \in Words}
    \cup {With("bedConfiguration", v) : v \in BedArrays}
    \cup {With("amenities", v) : v \in AmenityArrays}
    \cup {[Base EXCEPT !.bedroomCount = Count(b), !.maximumGuests = Count(g),
                       !.bedConfiguration = Array(<<Bed("double", d), Bed("single", 1)>>)] :
            b \in 1 .. 4, g \in 1 .. 6, d \in 1 .. 2}

CreationsChosen ==
  {Base, With("amenities", Array(<<Padded(Text("Pool", 4)), Text("bbq", 3)>>)),
   With("timezone", Text("+03", 3))}

\* What two requests send: content, a whole configuration, and what is refused.
BodiesChosen ==
  {[name |-> Padded(Text("new", 3))], [operationalNotes |-> Text("new", 3)],
   [name |-> Text("", 0)], [maximumGuests |-> Count(1)], [name |-> Text("new", 3), page |-> Count(1)],
   [Base EXCEPT !.summary = Text("full", 4)],
   [Base EXCEPT !.maximumGuests = Count(1)], [Base EXCEPT !.maximumGuests = Count(3)],
   With("id", Text("p2", 2)), With("timezone", Text("+03", 3))}
=============================================================================
