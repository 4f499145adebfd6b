------------------------ MODULE PropertyConfiguration ------------------------
(***************************************************************************)
(* What a property's configuration may say, and what becomes of it.        *)
(*                                                                         *)
(* An input is a function whose domain is the fields it gives.  A text is  *)
(* a word with the code points it has and the white space around it; what  *)
(* a regular expression, a list of codes or the runtime's time zones say   *)
(* of a word is given by the constants.  The code collects errors; here    *)
(* they are a set of codes, and an input is accepted when it is empty.     *)
(***************************************************************************)
EXTENDS Integers, Sequences, SequencesExt, FiniteSetsExt

CONSTANTS
  Identifiers,    \* words of letters, digits, hyphens and underscores
  Countries,      \* ISO 3166-1 codes
  Currencies,     \* active ISO 4217 codes
  Ascii,          \* words of ASCII characters
  Capitals,       \* words of the letters A to Z
  UpperCase,      \* UpperCase[w]: w in capitals, for the words that change
  LowerCase,
  ZoneShapes,     \* words of the shape of an IANA time zone
  Zones           \* Zones[w]: the runtime's name of the time zone w, and its length

\* A name the runtime gives to a time zone is its own name for it; nothing says
\* that it has the shape the parser asks for.
ASSUME VocabularyAssumption ==
  /\ Countries \cup Currencies \subseteq Capitals
  /\ Capitals \subseteq Ascii /\ Ascii \subseteq STRING
  /\ \A w \in Capitals \cap DOMAIN UpperCase : UpperCase[w] = w
  /\ \A w \in DOMAIN Zones :
       /\ Zones[w].word \in DOMAIN Zones \cap STRING /\ Zones[Zones[w].word] = Zones[w]
       /\ Zones[w].length \in 1 .. 64

Limits ==
  [id |-> 64, name |-> 120, summary |-> 500, country |-> 2, timezone |-> 64,
   currency |-> 3, propertyType |-> 32, bedType |-> 16, amenity |-> 80,
   hostNotes |-> 2000, operationalNotes |-> 4000, bedroomCount |-> 100,
   bathroomCount |-> 100, maximumGuests |-> 200, beds |-> 16, bedQuantity |-> 100,
   amenities |-> 32]

PropertyTypes ==
  {"apartment", "bungalow", "cabin", "cottage", "house", "studio", "villa"}

BedCapacity ==
  [t \in {"bunk", "double", "king", "queen", "single", "sofa-bed"} |->
     IF t = "single" THEN 1 ELSE 2]

Plain == {"name", "summary", "hostNotes", "operationalNotes"}
Counts == {"bedroomCount", "bathroomCount", "maximumGuests"}
Fields == Plain \cup Counts \cup {"id", "country", "timezone", "currency",
                                  "propertyType", "bedConfiguration", "amenities"}

If(failed, code) == IF failed THEN {code} ELSE {}

-----------------------------------------------------------------------------
(* Values of a field, as JSON has them *)

Missing == [is |-> "missing"]
Text(word, length) ==
  [is |-> "text", word |-> word, length |-> length, padding |-> 0, clean |-> TRUE]
Count(n) == [is |-> "count", n |-> n]
Array(items) == [is |-> "array", items |-> items]
Record(fields) == [is |-> "record", fields |-> fields]

ReadOwn(r, field) == IF field \in DOMAIN r THEN r[field] ELSE Missing

Folded(word, fold) == IF word \in DOMAIN fold THEN fold[word] ELSE word

TextErrors(v, maximum) ==
  CASE v.is = "missing" -> {"missing_field"}
    [] v.is \notin {"missing", "text"} -> {"invalid_string"}
    [] OTHER -> CASE v.length + v.padding > maximum -> {"string_too_long"}
                  [] ~v.clean -> {"malformed_string"}
                  [] v.length = 0 -> {"empty_string"}
                  [] OTHER -> {}

Trimmed(v) == [v EXCEPT !.padding = 0]

CountErrors(v, maximum) ==
  CASE v.is = "missing" -> {"missing_field"}
    [] v.is \notin {"missing", "count"} -> {"invalid_count"}
    [] OTHER -> If(v.n < 0, "negative_count") \cup If(v.n > maximum, "count_too_large")

\* A text that is one must pass the tests of its field as well.
AndThen(errors, more) == IF errors = {} THEN more ELSE errors

IdErrors(v) ==
  AndThen(TextErrors(v, Limits.id),
          If(v.padding > 0 \/ v.word \notin Identifiers, "malformed_id"))

\* ASCII is asked of the word before its case is folded.
CodeErrors(v, maximum, codes, unsupported) ==
  LET code == Folded(v.word, UpperCase)
  IN  AndThen(TextErrors(v, maximum),
        IF v.word \notin Ascii \/ code \notin Capitals \/ v.length # maximum
        THEN {"malformed_code"}
        ELSE If(code \notin codes, unsupported))

ShapeErrors(v) == If(v.word \notin ZoneShapes, "malformed_timezone")

\* The shape is tested before the runtime is asked; its answer is not.
ZoneErrors(v) ==
  AndThen(AndThen(TextErrors(v, Limits.timezone), ShapeErrors(v)),
          If(v.word \notin DOMAIN Zones, "unsupported_timezone"))

TypeErrors(v) ==
  AndThen(TextErrors(v, Limits.propertyType),
          If(v.word \notin PropertyTypes, "unsupported_property_type"))

-----------------------------------------------------------------------------
(* Arrays *)

BedTypeErrors(v) ==
  AndThen(TextErrors(v, Limits.bedType), If(v.word \notin DOMAIN BedCapacity, "unsupported_bed_type"))

BedErrors(v) ==
  IF v.is # "record" THEN {"invalid_input"}
  ELSE LET quantity == ReadOwn(v.fields, "quantity")
       IN  If(DOMAIN v.fields \ {"type", "quantity"} # {}, "unknown_field")
             \cup BedTypeErrors(ReadOwn(v.fields, "type"))
             \cup CountErrors(quantity, Limits.bedQuantity)
             \cup If(quantity = Count(0), "impossible_configuration")

\* Entries that repeat what an earlier entry is called; those without a name do not.
Repeats(items, Named(_), Name(_)) ==
  \E i, j \in DOMAIN items :
    i < j /\ Named(items[i]) /\ Named(items[j]) /\ Name(items[i]) = Name(items[j])

HasBedType(v) == v.is = "record" /\ BedTypeErrors(ReadOwn(v.fields, "type")) = {}
BedTypeOf(v) == v.fields.type.word

BedConfigurationErrors(v) ==
  CASE v.is # "array" -> {"invalid_array"}
    [] v.is = "array" ->
         CASE v.items = <<>> -> {"empty_array"}
           [] Len(v.items) > Limits.beds -> {"array_too_long"}
           [] OTHER -> (UNION {BedErrors(b) : b \in ToSet(v.items)})
                         \cup If(Repeats(v.items, HasBedType, BedTypeOf), "duplicate_bed_type")

IsAmenity(v) == TextErrors(v, Limits.amenity) = {}

\* Mutation: the white space around an amenity makes it another one.
AmenityKeyUntrimmed(v) == <<Folded(v.word, LowerCase), v.padding>>

\* readText has trimmed it.
AmenityKey(v) == Folded(v.word, LowerCase)

AmenityErrors(v) ==
  CASE v.is # "array" -> {"invalid_array"}
    [] v.is = "array" ->
         IF Len(v.items) > Limits.amenities THEN {"array_too_long"}
         ELSE (UNION {TextErrors(a, Limits.amenity) : a \in ToSet(v.items)})
                \cup If(Repeats(v.items, IsAmenity, AmenityKey), "duplicate_amenity")

-----------------------------------------------------------------------------
(* parsePropertyConfiguration *)

FieldErrors(input) ==
  LET v(field) == ReadOwn(input, field)
  IN  If(DOMAIN input \ Fields # {}, "unknown_field")
        \cup IdErrors(v("id")) \cup ZoneErrors(v("timezone")) \cup TypeErrors(v("propertyType"))
        \cup CodeErrors(v("country"), Limits.country, Countries, "unsupported_country")
        \cup CodeErrors(v("currency"), Limits.currency, Currencies, "unsupported_currency")
        \cup (UNION {TextErrors(v(field), Limits[field]) : field \in Plain})
        \cup (UNION {CountErrors(v(field), Limits[field]) : field \in Counts})
        \cup BedConfigurationErrors(v("bedConfiguration"))
        \cup AmenityErrors(v("amenities"))

CanonicalBed(v) ==
  Record([type |-> Trimmed(v.fields.type), quantity |-> v.fields.quantity])

Mapped(v, Op(_)) == Array([i \in DOMAIN v.items |-> Op(v.items[i])])

CanonicalField(field, v) ==
  CASE field \in Counts -> v
    [] field = "bedConfiguration" -> Mapped(v, CanonicalBed)
    [] field = "amenities" -> Mapped(v, Trimmed)
    [] field \in {"country", "currency"} -> [Trimmed(v) EXCEPT !.word = Folded(@, UpperCase)]
    [] field = "timezone" -> Text(Zones[v.word].word, Zones[v.word].length)
    [] OTHER -> Trimmed(v)

Canonical(input) == [field \in Fields |-> CanonicalField(field, input[field])]

SumOver(beds, Weight(_)) ==
  FoldSeq(LAMBDA b, sum : sum + Weight(b), 0, beds.items)

Units(bed) == bed.fields.quantity.n
Sleeps(bed) == BedCapacity[bed.fields.type.word] * Units(bed)

AllBeds(beds) == SumOver(beds, Units)
AllSleep(beds) == SumOver(beds, Sleeps)

CrossFieldErrors(c) ==
  LET bedrooms == c.bedroomCount.n
      guests == c.maximumGuests.n
  IN  If(\/ (c.propertyType.word = "studio") # (bedrooms = 0)
         \/ c.bathroomCount.n = 0
         \/ guests = 0
         \/ bedrooms > AllBeds(c.bedConfiguration), "impossible_configuration")
        \cup If(guests > AllSleep(c.bedConfiguration), "exceeds_bed_capacity")

ConfigurationErrors(input) ==
  AndThen(FieldErrors(input), CrossFieldErrors(Canonical(input)))

Accepted(input) == ConfigurationErrors(input) = {}

-----------------------------------------------------------------------------
(* The table *)

\* char_length, of a text as it is stored.
CharLength(v) == v.length + v.padding

\* The CHECK constraints of properties: on codes, on free texts, on numbers.
CodesChecked(c) ==
  /\ c.id.word \in Identifiers /\ c.id.length \in 1 .. 64
  /\ c.country.word \in Capitals /\ c.country.length = 2
  /\ c.currency.word \in Capitals /\ c.currency.length = 3
  /\ c.timezone.length \in 1 .. 64
  /\ c.propertyType.word \in PropertyTypes

TextsChecked(c) ==
  /\ c.name.length \in 1 .. 120 /\ c.summary.length \in 1 .. 500
  /\ CharLength(c.hostNotes) \in 1 .. 2000
  /\ CharLength(c.operationalNotes) \in 1 .. 4000

NumbersChecked(c) ==
  /\ c.bedroomCount.n \in 0 .. 100 /\ c.bathroomCount.n \in 0 .. 100
  /\ c.maximumGuests.n \in 0 .. 200
  /\ Len(c.bedConfiguration.items) \in 1 .. 16 /\ Len(c.amenities.items) <= 32

Checked(c) == CodesChecked(c) /\ TextsChecked(c) /\ NumbersChecked(c)

\* fromPublicRow: the view has no operational notes, a sentinel stands for them.
PublicProjection(row) == [row EXCEPT !.operationalNotes = Text("sentinel", 37)]

\* The row is the parser's input again.
ReadsBack(row) == Accepted(row) /\ Canonical(row) = row
=============================================================================
