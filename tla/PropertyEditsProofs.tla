------------------------- MODULE PropertyEditsProofs -------------------------
(***************************************************************************)
(* Proofs about PropertyEdits, for any inputs, bodies and handlers.        *)
(*                                                                         *)
(* Most of it is about values: what the parser accepts it makes canonical, *)
(* field by field, and takes again unchanged, the shape of a time zone's   *)
(* name set aside.  What the rooms and beds of a configuration add up to   *)
(* needs no proof, since a canonical value is its own canonical value (the *)
(* sums are recursive, and stay opaque).                                   *)
(***************************************************************************)
EXTENDS PropertyEdits, SequenceTheorems, TLAPS

-----------------------------------------------------------------------------
(* Texts and counts *)

\* A text without errors is a text, clean, not empty and short enough.
LEMMA GoodText ==
  ASSUME NEW v, IsScalar(v), NEW m \in Nat, TextErrors(v, m) = {}
  PROVE  /\ v.is = "text" /\ v \in Texts
         /\ v.length + v.padding <= m /\ v.clean /\ v.length # 0
<1>1. v.is = "text"
  BY DEF TextErrors
<1>2. v \in Texts
  BY <1>1 DEF IsScalar
<1> QED BY <1>1, <1>2 DEF TextErrors, Texts

\* Trimming it changes nothing but the white space, and not twice.
LEMMA TrimmedText ==
  ASSUME NEW v \in Texts
  PROVE  /\ Trimmed(v) \in Texts
         /\ Trimmed(v).is = "text" /\ Trimmed(v).word = v.word
         /\ Trimmed(v).length = v.length /\ Trimmed(v).padding = 0
         /\ Trimmed(v).clean = v.clean
         /\ Trimmed(Trimmed(v)) = Trimmed(v)
BY DEF Texts, Trimmed

\* What passes the test of texts passes it again once trimmed.
LEMMA TrimmedIsGood ==
  ASSUME NEW v, IsScalar(v), NEW m \in Nat, TextErrors(v, m) = {}
  PROVE  TextErrors(Trimmed(v), m) = {} /\ IsScalar(Trimmed(v))
<1>1. /\ v \in Texts /\ v.length + v.padding <= m /\ v.clean /\ v.length # 0
  BY GoodText
<1>2. v.length <= m
  BY <1>1 DEF Texts
<1> QED BY <1>1, <1>2, TrimmedText DEF TextErrors, IsScalar, Texts

\* A text with these parts has no errors.
LEMMA TextOf ==
  ASSUME NEW word \in STRING, NEW length \in Nat, NEW m \in Nat, length \in 1 .. m
  PROVE  /\ Text(word, length) \in Texts /\ IsScalar(Text(word, length))
         /\ TextErrors(Text(word, length), m) = {}
BY DEF Text, Texts, IsScalar, TextErrors

LEMMA GoodCount ==
  ASSUME NEW v, IsScalar(v), NEW m \in Nat, CountErrors(v, m) = {}
  PROVE  v.is = "count" /\ v.n \in 0 .. m
<1>1. v.is = "count"
  BY DEF CountErrors
<1> QED BY <1>1 DEF CountErrors, IsScalar, If

\* Both sides of a test have to be empty.
LEMMA AndThenEmpty ==
  ASSUME NEW S, NEW T
  PROVE  (AndThen(S, T) = {}) <=> (S = {} /\ T = {})
BY DEF AndThen

LEMMA IfEmpty ==
  ASSUME NEW test \in BOOLEAN, NEW code
  PROVE  (If(test, code) = {}) <=> ~test
BY DEF If

-----------------------------------------------------------------------------
(* Fields with a test of their own *)

\* A field whose value passes its test is canonical, and canonical again, and
\* passes the test again.
LEMMA IdField ==
  ASSUME NEW v, IsScalar(v), IdErrors(v) = {}
  PROVE  /\ IdErrors(Trimmed(v)) = {} /\ IsScalar(Trimmed(v))
         /\ Trimmed(Trimmed(v)) = Trimmed(v)
         /\ Trimmed(v).word \in Identifiers /\ Trimmed(v).length \in 1 .. 64
<1>1. TextErrors(v, 64) = {} /\ ~(v.padding > 0 \/ v.word \notin Identifiers)
  BY AndThenEmpty, IfEmpty DEF IdErrors, Limits
<1>2. /\ v \in Texts /\ v.length + v.padding <= 64 /\ v.length # 0
  BY <1>1, GoodText
<1>3. /\ Trimmed(v).word = v.word /\ Trimmed(v).length = v.length /\ Trimmed(v).padding = 0
      /\ Trimmed(Trimmed(v)) = Trimmed(v)
  BY <1>2, TrimmedText
<1>4. TextErrors(Trimmed(v), 64) = {} /\ IsScalar(Trimmed(v))
  BY <1>1, TrimmedIsGood
<1>5. ~(Trimmed(v).padding > 0 \/ Trimmed(v).word \notin Identifiers)
  BY <1>1, <1>3
<1>6. IdErrors(Trimmed(v)) = {}
  BY <1>4, <1>5, AndThenEmpty, IfEmpty DEF IdErrors, Limits
<1>7. v.length \in 1 .. 64
  BY <1>2 DEF Texts
<1> QED BY <1>1, <1>3, <1>4, <1>6, <1>7

LEMMA TypeField ==
  ASSUME NEW v, IsScalar(v), TypeErrors(v) = {}
  PROVE  /\ TypeErrors(Trimmed(v)) = {} /\ IsScalar(Trimmed(v))
         /\ Trimmed(Trimmed(v)) = Trimmed(v)
         /\ Trimmed(v).word \in PropertyTypes
<1>1. TextErrors(v, 32) = {} /\ ~(v.word \notin PropertyTypes)
  BY AndThenEmpty, IfEmpty DEF TypeErrors, Limits
<1>2. v \in Texts
  BY <1>1, GoodText
<1>3. Trimmed(v).word = v.word /\ Trimmed(Trimmed(v)) = Trimmed(v)
  BY <1>2, TrimmedText
<1>4. TextErrors(Trimmed(v), 32) = {} /\ IsScalar(Trimmed(v))
  BY <1>1, TrimmedIsGood
<1>5. TypeErrors(Trimmed(v)) = {}
  BY <1>1, <1>3, <1>4, AndThenEmpty, IfEmpty DEF TypeErrors, Limits
<1> QED BY <1>1, <1>3, <1>4, <1>5

\* The white space of notes counts when they are sent, and is gone when they
\* are stored.
LEMMA PlainField ==
  ASSUME NEW v, IsScalar(v), NEW m \in Nat, TextErrors(v, m) = {}
  PROVE  /\ TextErrors(Trimmed(v), m) = {} /\ IsScalar(Trimmed(v))
         /\ Trimmed(Trimmed(v)) = Trimmed(v)
         /\ Trimmed(v).length \in 1 .. m
         /\ CharLength(Trimmed(v)) \in 1 .. m
<1>1. /\ v \in Texts /\ v.length + v.padding <= m /\ v.length # 0
  BY GoodText
<1>2. v.length \in 1 .. m
  BY <1>1 DEF Texts
<1>3. /\ Trimmed(v).length = v.length /\ Trimmed(v).padding = 0
      /\ Trimmed(Trimmed(v)) = Trimmed(v)
  BY <1>1, TrimmedText
<1>4. CharLength(Trimmed(v)) \in 1 .. m
  BY <1>2, <1>3 DEF CharLength
<1> QED BY <1>2, <1>3, <1>4, TrimmedIsGood

\* A code in capitals stays as it is.
LEMMA FoldedCode ==
  ASSUME NEW w, Folded(w, UpperCase) \in Capitals
  PROVE  Folded(Folded(w, UpperCase), UpperCase) = Folded(w, UpperCase)
BY VocabularyAssumption DEF Folded

Coded(v) == [Trimmed(v) EXCEPT !.word = Folded(@, UpperCase)]

LEMMA CodeField ==
  ASSUME NEW v, IsScalar(v), NEW m \in Nat, NEW codes, NEW code, CodeErrors(v, m, codes, code) = {}
  PROVE  /\ CodeErrors(Coded(v), m, codes, code) = {} /\ IsScalar(Coded(v))
         /\ Coded(Coded(v)) = Coded(v)
         /\ Coded(v).word \in Capitals /\ Coded(v).length = m
<1> DEFINE word == Folded(v.word, UpperCase)
<1> DEFINE Tests(t) == IF t.word \notin Ascii \/ Folded(t.word, UpperCase) \notin Capitals \/ t.length # m
                       THEN {"malformed_code"}
                       ELSE If(Folded(t.word, UpperCase) \notin codes, code)
<1>1. TextErrors(v, m) = {} /\ Tests(v) = {}
  BY AndThenEmpty DEF CodeErrors
<1>2. word \in Capitals /\ v.length = m /\ word \in codes
  BY <1>1, IfEmpty
<1>3. v \in Texts
  BY <1>1, GoodText
<1>4. TextErrors(Trimmed(v), m) = {} /\ Trimmed(v) \in Texts /\ Trimmed(v).word = v.word
      /\ Trimmed(v).length = v.length /\ Trimmed(v).padding = 0
  BY <1>1, <1>3, TrimmedIsGood, TrimmedText
<1>5. Coded(v) = [Trimmed(v) EXCEPT !.word = word]
  BY <1>4 DEF Coded, Texts
<1>6. word \in STRING
  BY <1>2, VocabularyAssumption
<1>7. Folded(word, UpperCase) = word
  BY <1>2, FoldedCode
<1>8. word \in Ascii
  BY <1>2, VocabularyAssumption
<1> HIDE DEF word
<1>9. /\ Coded(v) \in Texts /\ Coded(v).is = "text" /\ Coded(v).word = word
      /\ Coded(v).length = v.length /\ Coded(v).padding = 0 /\ Coded(v).clean = Trimmed(v).clean
  BY <1>4, <1>5, <1>6 DEF Texts
<1>10. TextErrors(Coded(v), m) = {}
  <2>1. /\ Trimmed(v).clean /\ Trimmed(v).length # 0 /\ Trimmed(v).length + Trimmed(v).padding <= m
    BY <1>4, GoodText, TrimmedIsGood, <1>1
  <2> QED BY <2>1, <1>9, <1>4 DEF TextErrors
<1>11. Tests(Coded(v)) = {}
  BY <1>2, <1>7, <1>8, <1>9, IfEmpty
<1>12. CodeErrors(Coded(v), m, codes, code) = {}
  BY <1>10, <1>11, AndThenEmpty DEF CodeErrors
<1>13. Coded(Coded(v)) = Coded(v)
  <2>1. Trimmed(Coded(v)) = Coded(v)
    BY <1>9 DEF Trimmed, Texts
  <2>2. Coded(Coded(v)) = [Coded(v) EXCEPT !.word = Folded(Coded(v).word, UpperCase)]
    BY <2>1, <1>9 DEF Coded, Texts
  <2> QED BY <2>2, <1>9, <1>7 DEF Texts
<1>14. IsScalar(Coded(v))
  BY <1>9 DEF IsScalar
<1> QED BY <1>2, <1>9, <1>12, <1>13, <1>14

Zoned(v) == Text(Zones[v.word].word, Zones[v.word].length)

\* The runtime's name of a zone is its own name for it; only the parser's test of
\* its shape may refuse it.
LEMMA ZoneField ==
  ASSUME NEW v, IsScalar(v), ZoneErrors(v) = {}
  PROVE  /\ ZoneErrors(Zoned(v)) = ShapeErrors(Zoned(v)) /\ IsScalar(Zoned(v))
         /\ Zoned(Zoned(v)) = Zoned(v)
         /\ Zoned(v).length \in 1 .. 64
<1>1. v.word \in DOMAIN Zones
  <2>1. If(v.word \notin DOMAIN Zones, "unsupported_timezone") = {}
    BY AndThenEmpty DEF ZoneErrors
  <2> QED BY <2>1, IfEmpty
<1>2. /\ Zones[v.word].word \in DOMAIN Zones
      /\ Zones[Zones[v.word].word] = Zones[v.word]
      /\ Zones[v.word].length \in 1 .. 64
      /\ Zones[v.word].word \in STRING
  BY <1>1, VocabularyAssumption
<1>3. IsScalar(Zoned(v)) /\ TextErrors(Zoned(v), 64) = {}
  <2>1. Zones[v.word].length \in Nat
    BY <1>2
  <2> QED BY <1>2, <2>1, TextOf DEF Zoned
<1>4. Zoned(v).word = Zones[v.word].word /\ Zoned(v).length = Zones[v.word].length
  BY DEF Zoned, Text
<1>5. ZoneErrors(Zoned(v)) = ShapeErrors(Zoned(v))
  <2>1. If(Zoned(v).word \notin DOMAIN Zones, "unsupported_timezone") = {}
    BY <1>2, <1>4, IfEmpty
  <2>2. TextErrors(Zoned(v), Limits.timezone) = {}
    BY <1>3 DEF Limits
  <2> QED BY <2>1, <2>2 DEF ZoneErrors, AndThen
<1>6. Zoned(Zoned(v)) = Zoned(v)
  BY <1>2, <1>4 DEF Zoned
<1> QED BY <1>2, <1>3, <1>4, <1>5, <1>6

-----------------------------------------------------------------------------
(* Arrays *)

\* An array has a length, and none only if it is empty.
LEMMA ArrayLength ==
  ASSUME NEW v, IsValue(v), v.is = "array"
  PROVE  /\ Len(v.items) \in Nat /\ DOMAIN v.items = 1 .. Len(v.items)
         /\ v.items # <<>> => Len(v.items) # 0
         /\ \A i \in DOMAIN v.items : IsItem(v.items[i])
BY LenProperties, EmptySeq DEF IsValue

\* Items made of those of an array, one by one, are an array of the same length.
LEMMA MappedArray ==
  ASSUME NEW n \in Nat, NEW items, items = [i \in 1 .. n |-> items[i]]
  PROVE  items \in Seq(ToSet(items)) /\ Len(items) = n /\ DOMAIN items = 1 .. n
<1> DEFINE S == ToSet(items)
<1>1. DOMAIN items = 1 .. n
  OBVIOUS
<1>2. items \in [1 .. n -> S]
  BY <1>1 DEF ToSet
<1> HIDE DEF S
<1>3. items \in Seq(S)
  BY <1>2, SeqDef
<1>4. Len(items) \in Nat /\ DOMAIN items = 1 .. Len(items)
  BY <1>3, LenProperties
<1>5. n = Len(items)
  BY <1>1, <1>4
<1> QED BY <1>1, <1>3, <1>5 DEF S

\* What is asked of an array of beds, one by one.
LEMMA BedsAsked ==
  ASSUME NEW v, v.is = "array"
  PROVE  (BedConfigurationErrors(v) = {}) <=>
           /\ v.items # <<>> /\ ~(Len(v.items) > 16)
           /\ \A i \in DOMAIN v.items : BedErrors(v.items[i]) = {}
           /\ \A i, j \in DOMAIN v.items :
                i < j /\ HasBedType(v.items[i]) /\ HasBedType(v.items[j])
                  => BedTypeOf(v.items[i]) # BedTypeOf(v.items[j])
<1> DEFINE Each == UNION {BedErrors(b) : b \in ToSet(v.items)}
<1> DEFINE Twice == \E i, j \in DOMAIN v.items :
                      i < j /\ HasBedType(v.items[i]) /\ HasBedType(v.items[j])
                        /\ BedTypeOf(v.items[i]) = BedTypeOf(v.items[j])
<1>1. BedConfigurationErrors(v) =
        CASE v.items = <<>> -> {"empty_array"}
          [] Len(v.items) > 16 -> {"array_too_long"}
          [] OTHER -> Each \cup If(Twice, "duplicate_bed_type")
  BY Zenon DEF BedConfigurationErrors, Limits, Repeats
<1>2. (Each = {}) <=> \A i \in DOMAIN v.items : BedErrors(v.items[i]) = {}
  BY DEF ToSet
<1>3. (If(Twice, "duplicate_bed_type") = {}) <=> ~Twice
  BY DEF If
<1> QED BY <1>1, <1>2, <1>3

LEMMA AmenitiesAsked ==
  ASSUME NEW v, v.is = "array"
  PROVE  (AmenityErrors(v) = {}) <=>
           /\ ~(Len(v.items) > 32)
           /\ \A i \in DOMAIN v.items : TextErrors(v.items[i], 80) = {}
           /\ \A i, j \in DOMAIN v.items :
                i < j /\ IsAmenity(v.items[i]) /\ IsAmenity(v.items[j])
                  => AmenityKey(v.items[i]) # AmenityKey(v.items[j])
<1> DEFINE Each == UNION {TextErrors(a, 80) : a \in ToSet(v.items)}
<1> DEFINE Twice == \E i, j \in DOMAIN v.items :
                      i < j /\ IsAmenity(v.items[i]) /\ IsAmenity(v.items[j])
                        /\ AmenityKey(v.items[i]) = AmenityKey(v.items[j])
<1>1. AmenityErrors(v) = IF Len(v.items) > 32 THEN {"array_too_long"}
                         ELSE Each \cup If(Twice, "duplicate_amenity")
  BY Zenon DEF AmenityErrors, Limits, Repeats
<1>2. (Each = {}) <=> \A i \in DOMAIN v.items : TextErrors(v.items[i], 80) = {}
  BY DEF ToSet
<1>3. (If(Twice, "duplicate_amenity") = {}) <=> ~Twice
  BY DEF If
<1> QED BY <1>1, <1>2, <1>3

\* A bed without errors is made canonical, once.
LEMMA BedItem ==
  ASSUME NEW b, IsItem(b), BedErrors(b) = {}
  PROVE  /\ BedErrors(CanonicalBed(b)) = {} /\ IsItem(CanonicalBed(b))
         /\ CanonicalBed(CanonicalBed(b)) = CanonicalBed(b)
         /\ HasBedType(b) /\ BedTypeOf(CanonicalBed(b)) = BedTypeOf(b)
<1> DEFINE type == ReadOwn(b.fields, "type")
<1> DEFINE quantity == ReadOwn(b.fields, "quantity")
<1>1. /\ b.is = "record"
      /\ BedTypeErrors(type) = {}
      /\ CountErrors(quantity, 100) = {}
      /\ quantity # Count(0)
  BY IfEmpty DEF BedErrors, Limits
<1>2. TextErrors(type, 16) = {} /\ type.word \in DOMAIN BedCapacity
  BY <1>1, AndThenEmpty, IfEmpty DEF BedTypeErrors, Limits
<1>3. "type" \in DOMAIN b.fields /\ type = b.fields.type
  <2>1. type # Missing
    BY <1>2 DEF Missing, TextErrors
  <2> QED BY <2>1 DEF ReadOwn
<1>4. "quantity" \in DOMAIN b.fields /\ quantity = b.fields.quantity
  <2>1. quantity # Missing
    BY <1>1 DEF Missing, CountErrors
  <2> QED BY <2>1 DEF ReadOwn
<1>5. IsScalar(type) /\ IsScalar(quantity)
  BY <1>1, <1>3, <1>4 DEF IsItem
<1> HIDE DEF type, quantity
<1>6. /\ TextErrors(Trimmed(type), 16) = {} /\ IsScalar(Trimmed(type))
      /\ Trimmed(Trimmed(type)) = Trimmed(type) /\ Trimmed(type).word = type.word
  BY <1>2, <1>5, GoodText, TrimmedIsGood, TrimmedText
<1> DEFINE c == CanonicalBed(b)
<1>7. c = Record([type |-> Trimmed(type), quantity |-> quantity])
  BY <1>3, <1>4 DEF CanonicalBed
<1>8. /\ c.is = "record" /\ DOMAIN c.fields = {"type", "quantity"}
      /\ c.fields.type = Trimmed(type) /\ c.fields.quantity = quantity
  BY <1>7 DEF Record
<1> HIDE DEF c
<1>9. ReadOwn(c.fields, "type") = Trimmed(type) /\ ReadOwn(c.fields, "quantity") = quantity
  BY <1>8 DEF ReadOwn
<1>10. BedTypeErrors(Trimmed(type)) = {}
  BY <1>2, <1>6, AndThenEmpty, IfEmpty DEF BedTypeErrors, Limits
<1>11. BedErrors(c) = {}
  <2>1. If(DOMAIN c.fields \ {"type", "quantity"} # {}, "unknown_field") = {}
    BY <1>8 DEF If
  <2>2. If(quantity = Count(0), "impossible_configuration") = {}
    BY <1>1 DEF If
  <2> QED BY <1>1, <1>8, <1>9, <1>10, <2>1, <2>2 DEF BedErrors, Limits
<1>12. IsItem(c)
  BY <1>5, <1>6, <1>8 DEF IsItem, IsScalar
<1>13. CanonicalBed(c) = c
  <2>1. CanonicalBed(c) = Record([type |-> Trimmed(Trimmed(type)), quantity |-> quantity])
    BY <1>8 DEF CanonicalBed
  <2> QED BY <2>1, <1>6, <1>7
<1>14. HasBedType(b) /\ BedTypeOf(c) = BedTypeOf(b)
  BY <1>1, <1>3, <1>6, <1>8 DEF HasBedType, BedTypeOf, type
<1> QED BY <1>11, <1>12, <1>13, <1>14 DEF c

LEMMA BedsField ==
  ASSUME NEW v, IsValue(v), BedConfigurationErrors(v) = {}
  PROVE  LET c == Mapped(v, CanonicalBed)
         IN  /\ BedConfigurationErrors(c) = {} /\ IsValue(c)
             /\ Mapped(c, CanonicalBed) = c
             /\ Len(c.items) \in 1 .. 16
<1> DEFINE c == Mapped(v, CanonicalBed)
<1> DEFINE items == [i \in DOMAIN v.items |-> CanonicalBed(v.items[i])]
<1>1. v.is = "array"
  BY DEF BedConfigurationErrors
<1>2. /\ Len(v.items) \in Nat /\ DOMAIN v.items = 1 .. Len(v.items)
      /\ v.items # <<>> => Len(v.items) # 0
      /\ \A i \in DOMAIN v.items : IsItem(v.items[i])
  BY <1>1, ArrayLength
<1>3. /\ v.items # <<>> /\ ~(Len(v.items) > 16)
      /\ \A i \in DOMAIN v.items : BedErrors(v.items[i]) = {}
      /\ \A i, j \in DOMAIN v.items :
           i < j /\ HasBedType(v.items[i]) /\ HasBedType(v.items[j])
             => BedTypeOf(v.items[i]) # BedTypeOf(v.items[j])
  BY <1>1, BedsAsked
<1>4. c = Array(items)
  BY Zenon DEF Mapped
<1>5. c.is = "array" /\ c.items = items
  BY <1>4 DEF Array
<1>6. DOMAIN items = DOMAIN v.items /\ \A i \in DOMAIN v.items : items[i] = CanonicalBed(v.items[i])
  OBVIOUS
<1>7. items \in Seq(ToSet(items)) /\ Len(items) = Len(v.items)
  BY <1>2, MappedArray
<1>8. Len(items) # 0
  BY <1>2, <1>3, <1>7
<1> HIDE DEF items, c
<1>9. ASSUME NEW i \in DOMAIN items
      PROVE  /\ BedErrors(items[i]) = {} /\ IsItem(items[i])
             /\ CanonicalBed(items[i]) = items[i]
             /\ HasBedType(v.items[i]) /\ BedTypeOf(items[i]) = BedTypeOf(v.items[i])
  BY <1>2, <1>3, <1>6, BedItem
<1>10. IsValue(c)
  BY <1>2, <1>5, <1>6, <1>7, <1>9 DEF IsValue, IsScalar
<1>11. BedConfigurationErrors(c) = {}
  <2>1. ~(Len(items) > 16)
    BY <1>3, <1>7
  <2>2. items # <<>>
    BY <1>8
  <2>3. \A i, j \in DOMAIN items :
          i < j /\ HasBedType(items[i]) /\ HasBedType(items[j])
            => BedTypeOf(items[i]) # BedTypeOf(items[j])
    BY <1>3, <1>6, <1>9
  <2> QED BY <2>1, <2>2, <2>3, <1>5, <1>9, BedsAsked
<1>12. Mapped(c, CanonicalBed) = c
  <2>1. Mapped(c, CanonicalBed) = Array([i \in DOMAIN c.items |-> CanonicalBed(c.items[i])])
    BY Zenon DEF Mapped
  <2>2. [i \in DOMAIN items |-> CanonicalBed(items[i])] = [i \in DOMAIN items |-> items[i]]
    BY <1>9
  <2>3. [i \in DOMAIN items |-> items[i]] = items
    BY DEF items
  <2> QED BY <2>1, <2>2, <2>3, <1>4, <1>5
<1>13. Len(c.items) \in 1 .. 16
  <2> DEFINE n == Len(v.items)
  <2>1. n \in Nat /\ ~(n > 16)
    BY <1>2, <1>3
  <2>2. n # 0 /\ Len(c.items) = n
    BY <1>5, <1>7, <1>8
  <2> HIDE DEF n
  <2>3. n \in 1 .. 16
    BY <2>1, <2>2
  <2> QED BY <2>2, <2>3
<1> QED BY <1>10, <1>11, <1>12, <1>13 DEF c

LEMMA AmenitiesField ==
  ASSUME NEW v, IsValue(v), AmenityErrors(v) = {}
  PROVE  LET c == Mapped(v, Trimmed)
         IN  /\ AmenityErrors(c) = {} /\ IsValue(c)
             /\ Mapped(c, Trimmed) = c
             /\ Len(c.items) <= 32
<1> DEFINE c == Mapped(v, Trimmed)
<1> DEFINE items == [i \in DOMAIN v.items |-> Trimmed(v.items[i])]
<1>1. v.is = "array"
  BY DEF AmenityErrors
<1>2. /\ Len(v.items) \in Nat /\ DOMAIN v.items = 1 .. Len(v.items)
      /\ v.items # <<>> => Len(v.items) # 0
      /\ \A i \in DOMAIN v.items : IsItem(v.items[i])
  BY <1>1, ArrayLength
<1>3. /\ ~(Len(v.items) > 32)
      /\ \A i \in DOMAIN v.items : TextErrors(v.items[i], 80) = {}
      /\ \A i, j \in DOMAIN v.items :
           i < j /\ IsAmenity(v.items[i]) /\ IsAmenity(v.items[j])
             => AmenityKey(v.items[i]) # AmenityKey(v.items[j])
  BY <1>1, AmenitiesAsked
<1>4. c = Array(items)
  BY Zenon DEF Mapped
<1>5. c.is = "array" /\ c.items = items
  BY <1>4 DEF Array
<1>6. DOMAIN items = DOMAIN v.items /\ \A i \in DOMAIN v.items : items[i] = Trimmed(v.items[i])
  OBVIOUS
<1>7. items \in Seq(ToSet(items)) /\ Len(items) = Len(v.items)
  BY <1>2, MappedArray
<1> HIDE DEF items, c
<1>8. ASSUME NEW i \in DOMAIN items
      PROVE  /\ TextErrors(items[i], 80) = {} /\ IsItem(items[i])
             /\ Trimmed(items[i]) = items[i]
             /\ IsAmenity(v.items[i]) /\ AmenityKey(items[i]) = AmenityKey(v.items[i])
  <2>1. items[i] = Trimmed(v.items[i]) /\ IsScalar(v.items[i]) /\ TextErrors(v.items[i], 80) = {}
    BY <1>2, <1>3, <1>6 DEF IsItem
  <2>2. v.items[i] \in Texts
    BY <2>1, GoodText
  <2>3. /\ TextErrors(items[i], 80) = {} /\ IsScalar(items[i])
        /\ Trimmed(items[i]) = items[i] /\ items[i].word = v.items[i].word /\ items[i].is = "text"
    BY <2>1, <2>2, TrimmedIsGood, TrimmedText
  <2> QED BY <2>1, <2>3 DEF IsItem, IsAmenity, AmenityKey, Limits
<1>9. IsValue(c)
  BY <1>2, <1>5, <1>6, <1>7, <1>8 DEF IsValue, IsScalar
<1>10. AmenityErrors(c) = {}
  <2>1. ~(Len(items) > 32)
    BY <1>3, <1>7
  <2>2. \A i, j \in DOMAIN items :
          i < j /\ IsAmenity(items[i]) /\ IsAmenity(items[j])
            => AmenityKey(items[i]) # AmenityKey(items[j])
    BY <1>3, <1>6, <1>8
  <2> QED BY <2>1, <2>2, <1>5, <1>8, AmenitiesAsked
<1>11. Mapped(c, Trimmed) = c
  <2>1. Mapped(c, Trimmed) = Array([i \in DOMAIN c.items |-> Trimmed(c.items[i])])
    BY Zenon DEF Mapped
  <2>2. [i \in DOMAIN items |-> Trimmed(items[i])] = [i \in DOMAIN items |-> items[i]]
    BY <1>8
  <2>3. [i \in DOMAIN items |-> items[i]] = items
    BY DEF items
  <2> QED BY <2>1, <2>2, <2>3, <1>4, <1>5
<1>12. Len(c.items) <= 32
  BY <1>2, <1>3, <1>5, <1>7
<1> QED BY <1>9, <1>10, <1>11, <1>12 DEF c

-----------------------------------------------------------------------------
(* Configurations *)

\* Every field is given, no other is, and each but the time zone passes its test.
PassesButZone(g) ==
  /\ DOMAIN g = Fields
  /\ IdErrors(g.id) = {} /\ TypeErrors(g.propertyType) = {}
  /\ CodeErrors(g.country, 2, Countries, "unsupported_country") = {}
  /\ CodeErrors(g.currency, 3, Currencies, "unsupported_currency") = {}
  /\ \A f \in Plain : TextErrors(g[f], Limits[f]) = {}
  /\ \A f \in Counts : CountErrors(g[f], Limits[f]) = {}
  /\ BedConfigurationErrors(g.bedConfiguration) = {}
  /\ AmenityErrors(g.amenities) = {}

Passes(g) == PassesButZone(g) /\ ZoneErrors(g.timezone) = {}

\* What is asked of the fields, the time zone apart.
AskedButZone(g) ==
  /\ DOMAIN g \subseteq Fields
  /\ IdErrors(ReadOwn(g, "id")) = {} /\ TypeErrors(ReadOwn(g, "propertyType")) = {}
  /\ CodeErrors(ReadOwn(g, "country"), 2, Countries, "unsupported_country") = {}
  /\ CodeErrors(ReadOwn(g, "currency"), 3, Currencies, "unsupported_currency") = {}
  /\ \A f \in Plain : TextErrors(ReadOwn(g, f), Limits[f]) = {}
  /\ \A f \in Counts : CountErrors(ReadOwn(g, f), Limits[f]) = {}
  /\ BedConfigurationErrors(ReadOwn(g, "bedConfiguration")) = {}
  /\ AmenityErrors(ReadOwn(g, "amenities")) = {}

LEMMA FieldsAsked ==
  ASSUME NEW g
  PROVE  /\ (FieldErrors(g) = {}) <=>
              AskedButZone(g) /\ ZoneErrors(ReadOwn(g, "timezone")) = {}
         /\ AskedButZone(g) => FieldErrors(g) = ZoneErrors(ReadOwn(g, "timezone"))
<1> DEFINE Notes == UNION {TextErrors(ReadOwn(g, f), Limits[f]) : f \in Plain}
<1> DEFINE Numbers == UNION {CountErrors(ReadOwn(g, f), Limits[f]) : f \in Counts}
<1> DEFINE Unknown == If(DOMAIN g \ Fields # {}, "unknown_field")
<1>1. FieldErrors(g) =
        Unknown
          \cup IdErrors(ReadOwn(g, "id")) \cup ZoneErrors(ReadOwn(g, "timezone"))
          \cup TypeErrors(ReadOwn(g, "propertyType"))
          \cup CodeErrors(ReadOwn(g, "country"), Limits.country, Countries, "unsupported_country")
          \cup CodeErrors(ReadOwn(g, "currency"), Limits.currency, Currencies, "unsupported_currency")
          \cup Notes \cup Numbers
          \cup BedConfigurationErrors(ReadOwn(g, "bedConfiguration"))
          \cup AmenityErrors(ReadOwn(g, "amenities"))
  BY DEF FieldErrors
<1>2. (Notes = {}) <=> \A f \in Plain : TextErrors(ReadOwn(g, f), Limits[f]) = {}
  OBVIOUS
<1>3. (Numbers = {}) <=> \A f \in Counts : CountErrors(ReadOwn(g, f), Limits[f]) = {}
  OBVIOUS
<1>4. (Unknown = {}) <=> DOMAIN g \subseteq Fields
  BY DEF If
<1>5. Limits.country = 2 /\ Limits.currency = 3
  BY DEF Limits
<1> HIDE DEF Notes, Numbers, Unknown
<1> QED BY <1>1, <1>2, <1>3, <1>4, <1>5 DEF AskedButZone

\* A field that is not given passes no test.
LEMMA MissingFails ==
  /\ \A m : TextErrors(Missing, m) # {} /\ CountErrors(Missing, m) # {}
  /\ IdErrors(Missing) # {} /\ ZoneErrors(Missing) # {} /\ TypeErrors(Missing) # {}
  /\ \A m, codes, code : CodeErrors(Missing, m, codes, code) # {}
  /\ BedConfigurationErrors(Missing) # {} /\ AmenityErrors(Missing) # {}
<1>1. \A m : TextErrors(Missing, m) # {} /\ CountErrors(Missing, m) # {}
  BY DEF TextErrors, CountErrors, Missing
<1>2. IdErrors(Missing) # {} /\ ZoneErrors(Missing) # {} /\ TypeErrors(Missing) # {}
  BY <1>1, AndThenEmpty DEF IdErrors, ZoneErrors, TypeErrors
<1>3. \A m, codes, code : CodeErrors(Missing, m, codes, code) # {}
  BY <1>1, AndThenEmpty DEF CodeErrors
<1>4. BedConfigurationErrors(Missing) # {}
  <2>1. Missing.is # "array"
    BY DEF Missing
  <2> QED BY <2>1 DEF BedConfigurationErrors
<1>5. AmenityErrors(Missing) # {}
  <2>1. Missing.is # "array"
    BY DEF Missing
  <2> QED BY <2>1 DEF AmenityErrors
<1> QED BY <1>1, <1>2, <1>3, <1>4, <1>5

LEMMA GivenFields ==
  ASSUME NEW g, DOMAIN g = Fields
  PROVE  AskedButZone(g) <=> PassesButZone(g)
<1>1. \A f \in Fields : ReadOwn(g, f) = g[f]
  BY DEF ReadOwn
<1> QED BY <1>1 DEF PassesButZone, AskedButZone, Fields

LEMMA FieldsPass ==
  ASSUME NEW g
  PROVE  /\ (FieldErrors(g) = {}) <=> Passes(g)
         /\ PassesButZone(g) => FieldErrors(g) = ZoneErrors(g.timezone)
<1>1. ASSUME DOMAIN g = Fields
      PROVE  ReadOwn(g, "timezone") = g.timezone
  BY <1>1 DEF ReadOwn, Fields
<1>2. ASSUME FieldErrors(g) = {}
      PROVE  DOMAIN g = Fields
  <2>1. ASSUME NEW f \in Fields, f \notin DOMAIN g
        PROVE  FALSE
    <3>1. ReadOwn(g, f) = Missing
      BY <2>1 DEF ReadOwn
    <3>2. f \in Plain \/ f \in Counts
          \/ f \in {"id", "country", "timezone", "currency", "propertyType",
                    "bedConfiguration", "amenities"}
      BY <2>1 DEF Fields
    <3> QED BY <1>2, <3>1, <3>2, FieldsAsked, MissingFails DEF AskedButZone
  <2> QED BY <1>2, <2>1, FieldsAsked DEF AskedButZone
<1>3. ASSUME FieldErrors(g) = {}
      PROVE  Passes(g)
  BY <1>1, <1>2, <1>3, FieldsAsked, GivenFields DEF Passes
<1>4. ASSUME PassesButZone(g)
      PROVE  FieldErrors(g) = ZoneErrors(g.timezone)
  <2>1. DOMAIN g = Fields
    BY <1>4 DEF PassesButZone
  <2> QED BY <1>1, <1>4, <2>1, FieldsAsked, GivenFields
<1> QED BY <1>3, <1>4 DEF Passes

\* What becomes of each field.
LEMMA CanonicalFields ==
  ASSUME NEW g
  PROVE  /\ Canonical(g) = [f \in Fields |-> Canonical(g)[f]]
         /\ Canonical(g).id = Trimmed(g.id)
         /\ Canonical(g).propertyType = Trimmed(g.propertyType)
         /\ Canonical(g).timezone = Zoned(g.timezone)
         /\ Canonical(g).country = Coded(g.country)
         /\ Canonical(g).currency = Coded(g.currency)
         /\ \A f \in Plain : Canonical(g)[f] = Trimmed(g[f])
         /\ \A f \in Counts : Canonical(g)[f] = g[f]
         /\ Canonical(g).bedConfiguration = Mapped(g.bedConfiguration, CanonicalBed)
         /\ Canonical(g).amenities = Mapped(g.amenities, Trimmed)
<1>1. \A f \in Fields : Canonical(g)[f] = CanonicalField(f, g[f])
  BY DEF Canonical
<1>2. Canonical(g) = [f \in Fields |-> Canonical(g)[f]]
  BY DEF Canonical
<1>3. /\ Plain \subseteq Fields /\ Counts \subseteq Fields
      /\ {"id", "country", "timezone", "currency", "propertyType", "bedConfiguration",
          "amenities"} \subseteq Fields
  BY DEF Fields
<1>4. \A v : /\ CanonicalField("id", v) = Trimmed(v)
             /\ CanonicalField("propertyType", v) = Trimmed(v)
             /\ CanonicalField("timezone", v) = Zoned(v)
             /\ CanonicalField("country", v) = Coded(v)
             /\ CanonicalField("currency", v) = Coded(v)
  BY DEF CanonicalField, Counts, Zoned, Coded
<1>5. \A v : \A f \in Plain : CanonicalField(f, v) = Trimmed(v)
  BY DEF CanonicalField, Counts, Plain
<1>6. \A v : \A f \in Counts : CanonicalField(f, v) = v
  BY DEF CanonicalField, Counts
<1>7. \A v : CanonicalField("bedConfiguration", v) = Mapped(v, CanonicalBed)
  BY DEF CanonicalField, Counts, Mapped
<1>8. \A v : CanonicalField("amenities", v) = Mapped(v, Trimmed)
  BY DEF CanonicalField, Counts, Mapped
<1> QED BY <1>1, <1>2, <1>3, <1>4, <1>5, <1>6, <1>7, <1>8

\* What passes is canonical afterwards, passes again unchanged but for the shape
\* of its time zone, and is taken by the table.
LEMMA CanonicalPasses ==
  ASSUME NEW g, IsInput(g), Passes(g)
  PROVE  LET c == Canonical(g)
         IN  /\ PassesButZone(c) /\ ZoneErrors(c.timezone) = ShapeErrors(c.timezone)
             /\ IsInput(c) /\ Canonical(c) = c /\ Checked(c)
<1> DEFINE c == Canonical(g)
<1> DEFINE cc == Canonical(c)
<1>1. /\ c = [f \in Fields |-> c[f]]
      /\ c.id = Trimmed(g.id) /\ c.propertyType = Trimmed(g.propertyType)
      /\ c.timezone = Zoned(g.timezone)
      /\ c.country = Coded(g.country) /\ c.currency = Coded(g.currency)
      /\ \A f \in Plain : c[f] = Trimmed(g[f])
      /\ \A f \in Counts : c[f] = g[f]
      /\ c.bedConfiguration = Mapped(g.bedConfiguration, CanonicalBed)
      /\ c.amenities = Mapped(g.amenities, Trimmed)
  BY CanonicalFields
<1>2. /\ cc = [f \in Fields |-> cc[f]]
      /\ cc.id = Trimmed(c.id) /\ cc.propertyType = Trimmed(c.propertyType)
      /\ cc.timezone = Zoned(c.timezone)
      /\ cc.country = Coded(c.country) /\ cc.currency = Coded(c.currency)
      /\ \A f \in Plain : cc[f] = Trimmed(c[f])
      /\ \A f \in Counts : cc[f] = c[f]
      /\ cc.bedConfiguration = Mapped(c.bedConfiguration, CanonicalBed)
      /\ cc.amenities = Mapped(c.amenities, Trimmed)
  BY CanonicalFields
<1> HIDE DEF c, cc
<1>3. /\ \A f \in Fields : IsValue(g[f])
      /\ \A f \in Fields : IsScalar(g[f])
  BY DEF IsInput, Passes, PassesButZone, IsValue
<1>4. \A f \in Plain \cup Counts : f \in Fields /\ Limits[f] \in Nat
  BY DEF Fields, Limits, Plain, Counts
<1>5. /\ IdErrors(c.id) = {} /\ IsScalar(c.id) /\ cc.id = c.id
      /\ c.id.word \in Identifiers /\ c.id.length \in 1 .. 64
  <2>1. IsScalar(g.id) /\ IdErrors(g.id) = {}
    BY <1>3 DEF Passes, PassesButZone, Fields
  <2> QED BY <2>1, <1>1, <1>2, IdField
<1>6. /\ TypeErrors(c.propertyType) = {} /\ IsScalar(c.propertyType)
      /\ cc.propertyType = c.propertyType
      /\ c.propertyType.word \in PropertyTypes
  <2>1. IsScalar(g.propertyType) /\ TypeErrors(g.propertyType) = {}
    BY <1>3 DEF Passes, PassesButZone, Fields
  <2> QED BY <2>1, <1>1, <1>2, TypeField
<1>7. /\ ZoneErrors(c.timezone) = ShapeErrors(c.timezone) /\ IsScalar(c.timezone) /\ cc.timezone = c.timezone
      /\ c.timezone.length \in 1 .. 64
  <2>1. IsScalar(g.timezone) /\ ZoneErrors(g.timezone) = {}
    BY <1>3 DEF Passes, PassesButZone, Fields
  <2> QED BY <2>1, <1>1, <1>2, ZoneField
<1>8. /\ CodeErrors(c.country, 2, Countries, "unsupported_country") = {}
      /\ IsScalar(c.country) /\ cc.country = c.country
      /\ c.country.word \in Capitals /\ c.country.length = 2
  <2>1. IsScalar(g.country) /\ CodeErrors(g.country, 2, Countries, "unsupported_country") = {}
    BY <1>3 DEF Passes, PassesButZone, Fields
  <2> QED BY <2>1, <1>1, <1>2, CodeField
<1>9. /\ CodeErrors(c.currency, 3, Currencies, "unsupported_currency") = {}
      /\ IsScalar(c.currency) /\ cc.currency = c.currency
      /\ c.currency.word \in Capitals /\ c.currency.length = 3
  <2>1. IsScalar(g.currency) /\ CodeErrors(g.currency, 3, Currencies, "unsupported_currency") = {}
    BY <1>3 DEF Passes, PassesButZone, Fields
  <2> QED BY <2>1, <1>1, <1>2, CodeField
<1>10. ASSUME NEW f \in Plain
       PROVE  /\ TextErrors(c[f], Limits[f]) = {} /\ IsScalar(c[f]) /\ cc[f] = c[f]
              /\ c[f].length \in 1 .. Limits[f]
              /\ CharLength(c[f]) \in 1 .. Limits[f]
  <2>1. IsScalar(g[f]) /\ TextErrors(g[f], Limits[f]) = {} /\ Limits[f] \in Nat
    BY <1>3, <1>4 DEF Passes, PassesButZone
  <2>2. c[f] = Trimmed(g[f]) /\ cc[f] = Trimmed(c[f])
    BY <1>1, <1>2
  <2> QED BY <2>1, <2>2, PlainField
<1>11. ASSUME NEW f \in Counts
       PROVE  /\ CountErrors(c[f], Limits[f]) = {} /\ IsScalar(c[f]) /\ cc[f] = c[f]
              /\ c[f].n \in 0 .. Limits[f]
  <2>1. IsScalar(g[f]) /\ CountErrors(g[f], Limits[f]) = {} /\ Limits[f] \in Nat
    BY <1>3, <1>4 DEF Passes, PassesButZone
  <2>2. c[f] = g[f] /\ cc[f] = c[f]
    BY <1>1, <1>2
  <2> QED BY <2>1, <2>2, GoodCount
<1>12. /\ BedConfigurationErrors(c.bedConfiguration) = {} /\ IsValue(c.bedConfiguration)
       /\ cc.bedConfiguration = c.bedConfiguration
       /\ Len(c.bedConfiguration.items) \in 1 .. 16
  <2>1. IsValue(g.bedConfiguration) /\ BedConfigurationErrors(g.bedConfiguration) = {}
    BY <1>3 DEF Passes, PassesButZone, Fields
  <2> QED BY <2>1, <1>1, <1>2, BedsField
<1>13. /\ AmenityErrors(c.amenities) = {} /\ IsValue(c.amenities)
       /\ cc.amenities = c.amenities
       /\ Len(c.amenities.items) <= 32
  <2>1. IsValue(g.amenities) /\ AmenityErrors(g.amenities) = {}
    BY <1>3 DEF Passes, PassesButZone, Fields
  <2> QED BY <2>1, <1>1, <1>2, AmenitiesField
<1>14. PassesButZone(c)
  <2>1. DOMAIN c = Fields
    BY <1>1
  <2> QED BY <2>1, <1>5, <1>6, <1>7, <1>8, <1>9, <1>10, <1>11, <1>12, <1>13 DEF PassesButZone
<1>15. ASSUME NEW f \in Fields
       PROVE  cc[f] = c[f]
  BY <1>5, <1>6, <1>7, <1>8, <1>9, <1>10, <1>11, <1>12, <1>13 DEF Fields
<1>16. cc = c
  BY <1>1, <1>2, <1>15
<1>17. IsInput(c)
  <2>1. DOMAIN c = Fields
    BY <1>1
  <2>2. ASSUME NEW f \in Fields
        PROVE  (IsScalar(c[f]) /\ c[f].is # "array") \/ IsValue(c[f])
    <3>1. \A f2 \in {"id", "propertyType", "timezone", "country", "currency"} \cup Plain \cup Counts :
            IsScalar(c[f2]) /\ c[f2].is # "array"
      <4>1. c.id.is = "text"
        BY <1>5, GoodText, AndThenEmpty DEF IdErrors, Limits
      <4>2. c.propertyType.is = "text"
        BY <1>6, GoodText, AndThenEmpty DEF TypeErrors, Limits
      <4>3. c.timezone.is = "text"
        BY <1>1 DEF Zoned, Text
      <4>4. c.country.is = "text"
        BY <1>8, GoodText, AndThenEmpty DEF CodeErrors
      <4>5. c.currency.is = "text"
        BY <1>9, GoodText, AndThenEmpty DEF CodeErrors
      <4>6. \A f2 \in Plain : c[f2].is = "text"
        BY <1>10, <1>4, GoodText
      <4>7. \A f2 \in Counts : c[f2].is = "count"
        BY <1>11, <1>4, GoodCount
      <4> QED BY <4>1, <4>2, <4>3, <4>4, <4>5, <4>6, <4>7,
                 <1>5, <1>6, <1>7, <1>8, <1>9, <1>10, <1>11
    <3> QED BY <3>1, <1>12, <1>13 DEF Fields
  <2> QED BY <2>1, <2>2 DEF IsInput, IsValue
<1>18. Checked(c)
  <2>1. /\ c.name.length \in 1 .. 120 /\ c.summary.length \in 1 .. 500
        /\ CharLength(c.hostNotes) \in 1 .. 2000
        /\ CharLength(c.operationalNotes) \in 1 .. 4000
    <3>1. {"name", "summary", "hostNotes", "operationalNotes"} \subseteq Plain
      BY DEF Plain
    <3>2. /\ Limits.name = 120 /\ Limits.summary = 500
          /\ Limits.hostNotes = 2000 /\ Limits.operationalNotes = 4000
      BY DEF Limits
    <3>3. c.name.length \in 1 .. Limits.name /\ c.summary.length \in 1 .. Limits.summary
      BY <3>1, <1>10
    <3>4. /\ CharLength(c.hostNotes) \in 1 .. Limits.hostNotes
          /\ CharLength(c.operationalNotes) \in 1 .. Limits.operationalNotes
      BY <3>1, <1>10
    <3>5. c.name.length \in 1 .. 120 /\ c.summary.length \in 1 .. 500
      BY <3>2, <3>3
    <3>6. CharLength(c.hostNotes) \in 1 .. 2000
      BY <3>2, <3>4
    <3>7. CharLength(c.operationalNotes) \in 1 .. 4000
      BY <3>2, <3>4
    <3> QED BY <3>5, <3>6, <3>7, SMT
  <2>2. /\ c.bedroomCount.n \in 0 .. 100 /\ c.bathroomCount.n \in 0 .. 100
        /\ c.maximumGuests.n \in 0 .. 200
    BY <1>11 DEF Counts, Limits
  <2>3. /\ c.id.word \in Identifiers /\ c.id.length \in 1 .. 64
        /\ c.country.word \in Capitals /\ c.country.length = 2
        /\ c.currency.word \in Capitals /\ c.currency.length = 3
        /\ c.timezone.length \in 1 .. 64 /\ c.propertyType.word \in PropertyTypes
    BY <1>5, <1>6, <1>7, <1>8, <1>9
  <2>4. Len(c.bedConfiguration.items) \in 1 .. 16 /\ Len(c.amenities.items) <= 32
    BY <1>12, <1>13
  <2>5. CodesChecked(c)
    BY <2>3 DEF CodesChecked
  <2>6. TextsChecked(c)
    BY <2>1, SMT DEF TextsChecked
  <2>7. NumbersChecked(c)
    BY <2>2, <2>4 DEF NumbersChecked
  <2> QED BY <2>5, <2>6, <2>7 DEF Checked
<1> QED BY <1>7, <1>14, <1>16, <1>17, <1>18 DEF c, cc

\* What the database keeps of an accepted configuration.
IsSound(c) == IsInput(c) /\ DOMAIN c = Fields /\ Kept(c)

\* The sums over the beds are those of the canonical value, which does not
\* change any more; the public view has the same zone and the same beds.
LEMMA AcceptedIsSound ==
  ASSUME NEW g, IsInput(g), Accepted(g)
  PROVE  IsSound(Canonical(g))
<1> DEFINE c == Canonical(g)
<1> DEFINE view == PublicProjection(c)
<1>1. FieldErrors(g) = {} /\ CrossFieldErrors(c) = {}
  BY AndThenEmpty DEF Accepted, ConfigurationErrors
<1>2. /\ PassesButZone(c) /\ ZoneErrors(c.timezone) = ShapeErrors(c.timezone)
      /\ IsInput(c) /\ Canonical(c) = c /\ Checked(c)
  BY <1>1, FieldsPass, CanonicalPasses
<1> HIDE DEF c
<1>3. RefusedForItsZone(c)
  BY <1>1, <1>2, FieldsPass DEF RefusedForItsZone, ConfigurationErrors, AndThen
<1>4. DOMAIN c = Fields
  BY <1>2 DEF PassesButZone
<1>5. /\ DOMAIN view = Fields
      /\ \A f \in Fields \ {"operationalNotes"} : view[f] = c[f]
      /\ view.operationalNotes = Text("sentinel", 37)
  BY <1>4 DEF PublicProjection, Fields, Plain
<1> HIDE DEF view
<1>6. PassesButZone(view) /\ view.timezone = c.timezone
  <2>1. \A f \in Plain : TextErrors(view[f], Limits[f]) = {}
    <3>1. TextErrors(view.operationalNotes, Limits.operationalNotes) = {}
      <4>1. TextErrors(Text("sentinel", 37), 4000) = {}
        BY DEF Text, TextErrors
      <4>2. Limits.operationalNotes = 4000
        BY DEF Limits
      <4> QED BY <4>1, <4>2, <1>5
    <3> QED BY <3>1, <1>2, <1>5 DEF PassesButZone, Fields
  <2>2. \A f \in Counts : view[f] = c[f]
    BY <1>5 DEF Fields, Counts
  <2>3. /\ view.id = c.id /\ view.timezone = c.timezone /\ view.propertyType = c.propertyType
        /\ view.country = c.country /\ view.currency = c.currency
        /\ view.bedConfiguration = c.bedConfiguration /\ view.amenities = c.amenities
    BY <1>5 DEF Fields
  <2> QED BY <2>1, <2>2, <2>3, <1>2, <1>5 DEF PassesButZone
<1>7. CrossFieldErrors(Canonical(view)) = {}
  <2>1. /\ Canonical(view).propertyType = Trimmed(view.propertyType)
        /\ Canonical(view).bedConfiguration = Mapped(view.bedConfiguration, CanonicalBed)
        /\ \A f \in Counts : Canonical(view)[f] = view[f]
    BY CanonicalFields
  <2>2. /\ Canonical(c).propertyType = Trimmed(c.propertyType)
        /\ Canonical(c).bedConfiguration = Mapped(c.bedConfiguration, CanonicalBed)
    BY CanonicalFields
  <2>3. /\ view.propertyType = c.propertyType /\ view.bedConfiguration = c.bedConfiguration
        /\ \A f \in Counts : view[f] = c[f]
    BY <1>5 DEF Fields, Counts
  <2>4. /\ Canonical(view).propertyType = c.propertyType
        /\ Canonical(view).bedConfiguration = c.bedConfiguration
    BY <2>1, <2>2, <2>3, <1>2
  <2>5. /\ Canonical(view).bedroomCount = c.bedroomCount
        /\ Canonical(view).bathroomCount = c.bathroomCount
        /\ Canonical(view).maximumGuests = c.maximumGuests
    BY <2>1, <2>3 DEF Counts
  <2> QED BY <2>4, <2>5, <1>1 DEF CrossFieldErrors
<1>8. RefusedForItsZone(view)
  BY <1>2, <1>6, <1>7, FieldsPass DEF RefusedForItsZone, ConfigurationErrors, AndThen
<1> QED BY <1>2, <1>3, <1>4, <1>8 DEF IsSound, Kept, c, view

-----------------------------------------------------------------------------
(* The row and the requests *)

\* Where a request stands, and what it then holds: a property as it was parsed,
\* which was the row if nobody has written since; a configuration that may be
\* written, and that keeps what the row has for the fields it was not sent.
RequestOK(h) ==
  /\ handler[h].phase \in {"idle", "csrf", "write"}
  /\ handler[h].phase = "csrf" =>
       /\ handler[h].body \in Bodies /\ IsSound(handler[h].loaded)
       /\ ~overtaken[h] => handler[h].loaded = row
  /\ handler[h].phase = "write" =>
       /\ IsSound(handler[h].input)
       /\ ~overtaken[h] => \A f \in Fields \ DOMAIN handler[h].body :
                             handler[h].input[f] = row[f]

EditsInv ==
  /\ row # NoProperty => IsSound(row)
  /\ DOMAIN handler = Handlers /\ DOMAIN overtaken = Handlers
  /\ \A h \in Handlers : DOMAIN handler[h] = {"phase", "body", "loaded", "input"}
  /\ \A h \in Handlers : RequestOK(h)

\* What is written is sound, and differs from what was loaded only in the fields
\* of the body.
LEMMA UpdateIsSound ==
  ASSUME NEW body \in Bodies, NEW loaded, IsSound(loaded),
         NEW input, input = UpdateInput(loaded, body), Updatable(body, input)
  PROVE  /\ IsSound(Canonical(input))
         /\ \A f \in Fields \ DOMAIN body : Canonical(input)[f] = loaded[f]
<1>1. IsInput(body) /\ IsInput(loaded) /\ DOMAIN loaded = Fields /\ Canonical(loaded) = loaded
  BY InputsAssumption DEF IsSound, Kept
<1>2. Accepted(input)
  BY DEF Updatable
<1>3. CASE DOMAIN body \subseteq ContentFields
  <2>1. input = [f \in Fields |-> IF f \in DOMAIN body THEN body[f] ELSE loaded[f]]
    BY <1>3 DEF UpdateInput
  <2>2. IsInput(input)
    BY <2>1, <1>1 DEF IsInput
  <2>3. ASSUME NEW f \in Fields, f \notin DOMAIN body
        PROVE  Canonical(input)[f] = loaded[f]
    <3>1. input[f] = loaded[f]
      BY <2>1, <2>3
    <3>2. Canonical(input)[f] = CanonicalField(f, input[f])
      BY DEF Canonical
    <3>3. Canonical(loaded)[f] = CanonicalField(f, loaded[f])
      BY DEF Canonical
    <3> QED BY <3>1, <3>2, <3>3, <1>1
  <2> QED BY <2>2, <2>3, <1>2, AcceptedIsSound
<1>4. CASE ~(DOMAIN body \subseteq ContentFields)
  <2>1. input = body
    BY <1>4 DEF UpdateInput
  <2>2. Passes(body)
    BY <2>1, <1>2, FieldsPass, AndThenEmpty DEF Accepted, ConfigurationErrors
  <2>3. DOMAIN body = Fields
    BY <2>2 DEF Passes, PassesButZone
  <2> QED BY <2>1, <2>3, <1>1, <1>2, AcceptedIsSound
<1> QED BY <1>3, <1>4

LEMMA EditsInit == Init => EditsInv
BY DEF Init, EditsInv, RequestOK, Idle

\* A step of one request leaves the others where they were.
LEMMA OthersStay ==
  ASSUME EditsInv, NEW h \in Handlers, NEW k \in Handlers, k # h,
         handler'[k] = handler[k], overtaken'[k] = overtaken[k], row' = row
  PROVE  RequestOK(k)'
BY DEF EditsInv, RequestOK

\* When the row changes, every request in progress is overtaken.
LEMMA BehindAfterWrite ==
  ASSUME EditsInv, NEW k \in Handlers, handler'[k] = handler[k], Written
  PROVE  RequestOK(k)'
<1>1. overtaken'[k] = (handler[k].phase # "idle")
  BY DEF Written
<1> QED BY <1>1 DEF EditsInv, RequestOK

LEMMA EditsStep ==
  ASSUME EditsInv, [Next]_vars
  PROVE  EditsInv'
<1>1. CASE Create
  <2>1. PICK input \in Creations : Accepted(input) /\ row' = Canonical(input)
    BY <1>1 DEF Create
  <2>2. IsSound(row')
    BY <2>1, InputsAssumption, AcceptedIsSound
  <2>3. handler' = handler /\ Written
    BY <1>1 DEF Create
  <2>4. \A k \in Handlers : RequestOK(k)'
    BY <2>3, BehindAfterWrite
  <2>5. DOMAIN overtaken' = Handlers
    BY <2>3 DEF Written
  <2>6. (IsSound(row))'
    BY <2>2 DEF IsSound
  <2> QED BY <2>3, <2>4, <2>5, <2>6 DEF EditsInv
<1>2. CASE Delete
  <2>1. row' = NoProperty /\ handler' = handler /\ Written
    BY <1>2 DEF Delete
  <2>2. \A k \in Handlers : RequestOK(k)'
    BY <2>1, BehindAfterWrite
  <2>3. DOMAIN overtaken' = Handlers
    BY <2>1 DEF Written
  <2> QED BY <2>1, <2>2, <2>3 DEF EditsInv
<1>3. ASSUME NEW h \in Handlers, Load(h)
      PROVE  EditsInv'
  <2>1. PICK body \in Bodies :
          handler' = [handler EXCEPT ![h] =
            [Idle EXCEPT !.phase = "csrf", !.body = body, !.loaded = Loaded]]
    BY <1>3 DEF Load
  <2>2. /\ row # NoProperty /\ row' = row
        /\ overtaken' = [overtaken EXCEPT ![h] = FALSE]
    BY <1>3 DEF Load
  <2>3. Loaded = row /\ IsSound(row)
    BY <2>2 DEF EditsInv, IsSound, Kept, Loaded
  <2>4. /\ handler'[h].phase = "csrf" /\ handler'[h].body = body
        /\ handler'[h].loaded = row
        /\ DOMAIN handler'[h] = {"phase", "body", "loaded", "input"}
    BY <2>1, <2>3 DEF EditsInv, Idle
  <2>5. RequestOK(h)'
    BY <2>2, <2>3, <2>4 DEF RequestOK
  <2>6. ASSUME NEW k \in Handlers, k # h
        PROVE  RequestOK(k)' /\ DOMAIN handler'[k] = {"phase", "body", "loaded", "input"}
    <3>1. handler'[k] = handler[k] /\ overtaken'[k] = overtaken[k]
      BY <2>1, <2>2, <2>6 DEF EditsInv
    <3> QED BY <3>1, <2>2, <2>6, OthersStay DEF EditsInv
  <2>7. DOMAIN handler' = Handlers /\ DOMAIN overtaken' = Handlers
    BY <2>1, <2>2 DEF EditsInv
  <2> QED BY <2>2, <2>3, <2>4, <2>5, <2>6, <2>7 DEF EditsInv
<1>4. ASSUME NEW h \in Handlers, Validate(h)
      PROVE  EditsInv'
  <2> DEFINE input == UpdateInput(handler[h].loaded, handler[h].body)
  <2>1. /\ handler[h].phase = "csrf" /\ Updatable(handler[h].body, input)
        /\ handler' = [handler EXCEPT ![h].phase = "write", ![h].loaded = NoProperty,
                                         ![h].input = Canonical(input)]
        /\ row' = row /\ overtaken' = overtaken
    BY <1>4 DEF Validate
  <2>2. /\ handler[h].body \in Bodies /\ IsSound(handler[h].loaded)
        /\ ~overtaken[h] => handler[h].loaded = row
    BY <2>1 DEF EditsInv, RequestOK
  <2>3. /\ IsSound(Canonical(input))
        /\ \A f \in Fields \ DOMAIN handler[h].body :
             Canonical(input)[f] = handler[h].loaded[f]
    BY <2>1, <2>2, UpdateIsSound
  <2> HIDE DEF input
  <2>4. /\ handler'[h].phase = "write" /\ handler'[h].body = handler[h].body
        /\ handler'[h].input = Canonical(input)
        /\ DOMAIN handler'[h] = {"phase", "body", "loaded", "input"}
    BY <2>1 DEF EditsInv
  <2>5. RequestOK(h)'
    BY <2>1, <2>2, <2>3, <2>4 DEF RequestOK
  <2>6. ASSUME NEW k \in Handlers, k # h
        PROVE  RequestOK(k)' /\ DOMAIN handler'[k] = {"phase", "body", "loaded", "input"}
    <3>1. handler'[k] = handler[k] /\ overtaken'[k] = overtaken[k]
      BY <2>1, <2>6 DEF EditsInv
    <3> QED BY <3>1, <2>1, <2>6, OthersStay DEF EditsInv
  <2>7. DOMAIN handler' = Handlers
    BY <2>1 DEF EditsInv
  <2> QED BY <2>1, <2>4, <2>5, <2>6, <2>7 DEF EditsInv
<1>5. ASSUME NEW h \in Handlers, Ends(h), row' = row, overtaken' = overtaken
      PROVE  EditsInv'
  <2>1. /\ handler'[h] = Idle /\ DOMAIN handler' = Handlers
        /\ \A k \in Handlers \ {h} : handler'[k] = handler[k]
    BY <1>5 DEF Ends, EditsInv
  <2>2. RequestOK(h)' /\ DOMAIN handler'[h] = {"phase", "body", "loaded", "input"}
    BY <2>1 DEF RequestOK, Idle
  <2>3. \A k \in Handlers \ {h} : RequestOK(k)'
    BY <2>1, <1>5, OthersStay
  <2> QED BY <2>1, <2>2, <2>3, <1>5 DEF EditsInv
<1>6. ASSUME NEW h \in Handlers, Write(h)
      PROVE  EditsInv'
  <2>1. CASE row' = row /\ overtaken' = overtaken
    BY <2>1, <1>5, <1>6 DEF Write
  <2>2. CASE row' = handler[h].input /\ Written
    <3>1. /\ handler'[h] = Idle /\ DOMAIN handler' = Handlers
          /\ \A k \in Handlers \ {h} : handler'[k] = handler[k]
      BY <1>6 DEF Write, Ends, EditsInv
    <3>2. RequestOK(h)' /\ DOMAIN handler'[h] = {"phase", "body", "loaded", "input"}
      BY <3>1 DEF RequestOK, Idle
    <3>3. \A k \in Handlers \ {h} : RequestOK(k)'
      BY <3>1, <2>2, BehindAfterWrite
    <3>4. IsSound(handler[h].input)
      BY <1>6 DEF Write, EditsInv, RequestOK
    <3>5. (IsSound(row))'
      BY <3>4, <2>2 DEF IsSound
    <3>6. DOMAIN overtaken' = Handlers
      BY <2>2 DEF Written
    <3> QED BY <3>1, <3>2, <3>3, <3>5, <3>6 DEF EditsInv
  <2> QED BY <1>6, <2>1, <2>2 DEF Write
<1>7. CASE UNCHANGED vars
  BY <1>7 DEF vars, EditsInv, RequestOK
<1> QED BY <1>1, <1>2, <1>3, <1>4, <1>5, <1>6, <1>7 DEF Next, Refuse, Fail

LEMMA EditsHold == Spec => []EditsInv
BY EditsInit, EditsStep, PTL DEF Spec

\* Whatever the parser takes, the table takes, and what the table then holds is
\* parsed as itself, for the owner and for the public, unless its time zone has
\* a name of another shape, and then it is refused for nothing else; what is
\* waiting to be written will be taken too.  (createPropertyConfiguration, migration 001,
\* fromStoredRow, fromPublicRow.)
THEOREM RowsReadBack == Spec => []ConfigurationsReadBack
<1>1. ASSUME NEW g \in Inputs, Accepted(g)
      PROVE  Kept(Canonical(g))
  BY <1>1, InputsAssumption, AcceptedIsSound DEF IsSound
<1>2. EditsInv => ConfigurationsReadBack
  BY <1>1 DEF EditsInv, RequestOK, IsSound, Kept, ConfigurationsReadBack
<1> QED BY <1>2, EditsHold, PTL

\* An edit that nobody overtook leaves every column it was not sent as it found
\* it (loadProperty, validatePropertyUpdate, update).
THEOREM EditsAreWhole == Spec => EditsKeepTheRest
<1> DEFINE Keeps ==
      \A h \in Handlers :
        (/\ handler[h].phase = "write" /\ handler'[h].phase = "idle"
         /\ row' # row /\ ~overtaken[h])
        => \A f \in Fields \ DOMAIN handler[h].body : row'[f] = row[f]
<1>1. ASSUME EditsInv, [Next]_vars
      PROVE  [Keeps]_vars
  <2>1. SUFFICES ASSUME NEW h \in Handlers,
                        handler[h].phase = "write", handler'[h].phase = "idle",
                        row' # row, ~overtaken[h]
                 PROVE  \A f \in Fields \ DOMAIN handler[h].body : row'[f] = row[f]
    OBVIOUS
  <2>2. PICK k \in Handlers : Write(k)
    BY <2>1, <1>1 DEF Next, Create, Delete, Load, Validate, Refuse, Fail, vars
  <2>3. k = h /\ row' = handler[h].input
    BY <2>1, <2>2, <1>1 DEF Write, Ends, EditsInv
  <2> QED BY <2>1, <2>3, <1>1 DEF EditsInv, RequestOK
<1> QED BY <1>1, EditsHold, PTL DEF Spec, EditsKeepTheRest
=============================================================================
