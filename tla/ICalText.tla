------------------------------ MODULE ICalText ------------------------------
(***************************************************************************)
(* Reading and writing iCalendar documents.                                *)
(*                                                                         *)
(* A document is a sequence of physical lines: a content line, or a        *)
(* continuation of the line before it.  A content line is its name and its *)
(* value, whose lexical form the line carries: a civil date, a number, a   *)
(* word, or text as a sequence of characters of a few classes.  The        *)
(* characters of the other forms are left out, and so are parameters       *)
(* beyond what they make of the form ("timed" is a DATE-TIME or a TZID).   *)
(***************************************************************************)
EXTENDS LocalDates, SequencesExt

CONSTANTS
  MaxEvents,      \* ICAL_PARSE_LIMITS.maxEvents
  MaxLine,        \* maxLineLength, for a physical and for an unfolded line
  MaxText,        \* maxTextLength and maxUidLength
  MaxNights,
  MaxReservations, \* ICAL_EXPORT_LIMITS.maxReservations, more than MaxEvents
  MaxSequence,    \* ICAL_SEQUENCE_MAX
  FoldAt          \* bytes of a line before exportICalCalendar folds it

\* A text fits a line, every character of it escaped.
ASSUME TextLimitsAssumption ==
  /\ {MaxEvents, MaxReservations, MaxLine, MaxText, MaxNights, MaxSequence} \subseteq Nat
  /\ MaxText >= 1 /\ 2 * MaxText < MaxLine
  /\ FoldAt \in Nat /\ FoldAt >= 2

\* Character classes: letters stand for what needs no escape.
Controls == {"tab", "lf", "ctl"}
Escaped == {"\\", ";", ","}

Line(name, form, value) == [kind |-> "content", name |-> name, form |-> form, value |-> value]
Marker(name, component) == Line(name, "word", component)
Text(name, value) == Line(name, "text", value)
Fold(value) == [kind |-> "fold", name |-> "", form |-> "text", value |-> value]

\* Lines no content line is: an empty one, one without a name or a value.
Blank == [kind |-> "blank", name |-> "", form |-> "none", value |-> <<>>]
Broken == [kind |-> "broken", name |-> "", form |-> "none", value |-> <<>>]

\* A line of a body that was split: what goes on, or is no content line, has
\* no name, and three numbers make a date.
PhysicalLine(line) ==
  /\ DOMAIN line = {"kind", "name", "form", "value"}
  /\ line.kind \in {"content", "fold", "blank", "broken"}
  /\ line.kind # "content" => line.name = ""
  /\ line.form = "date" => line.value \in DateParts

IsMarker(line, name, component) ==
  line.form = "word" /\ line.name = name /\ line.value = component

\* ICalParseErrorCode.
ParseCodes ==
  {"invalid_line", "line_too_long", "missing_calendar", "invalid_component", "event_limit",
   "unsupported_recurrence", "duplicate_property", "missing_property", "duplicate_uid",
   "invalid_uid", "text_too_long", "invalid_date", "ambiguous_timezone", "invalid_interval",
   "invalid_status", "invalid_transparency", "invalid_sequence", "invalid_timestamp"}

NotGiven == Line("", "absent", <<>>)

\* Of what the checks of an event say, the first that is a code.
FirstFailure(codes) ==
  LET failed == {i \in DOMAIN codes : codes[i] # "none"}
  IN  IF failed = {} THEN "none" ELSE codes[CHOOSE i \in failed : \A j \in failed : i <= j]

-----------------------------------------------------------------------------
(* unfoldLines *)

\* A line of a form other than text stands for one byte.
Bytes(line) == IF line.form = "text" THEN 1 + Len(line.value) ELSE 1

\* A line goes on: what is no text means nothing any more.
Continued(line, more) ==
  IF line.form = "text" THEN [line EXCEPT !.value = @ \o more]
  ELSE [line EXCEPT !.form = "junk"]

UnfoldOne(st, line) ==
  LET n    == Len(st.lines)
      last == st.lines[n]
  IN  IF st.error # "none" THEN st
      ELSE IF Bytes(line) > MaxLine THEN [st EXCEPT !.error = "line_too_long"]
      ELSE IF line.kind = "fold"
      THEN IF n = 0 THEN [st EXCEPT !.error = "invalid_line"]
           ELSE IF Bytes(last) + Len(line.value) > MaxLine
           THEN [st EXCEPT !.error = "line_too_long"]
           ELSE [st EXCEPT !.lines[n] = Continued(last, line.value)]
      ELSE IF line.kind = "blank" THEN [st EXCEPT !.error = "invalid_line"]
      ELSE [st EXCEPT !.lines = Append(@, line)]

Unfold(doc) == FoldLeft(UnfoldOne, [lines |-> <<>>, error |-> "none"], doc)

-----------------------------------------------------------------------------
(* Text values *)

UnescapeOne(st, c) ==
  IF st.pending
  THEN [out |-> Append(st.out, IF c = "n" THEN "lf" ELSE c), pending |-> FALSE,
        bad |-> st.bad \/ c \notin Escaped \cup {"n"}]
  ELSE IF c = "\\" THEN [st EXCEPT !.pending = TRUE]
  ELSE [st EXCEPT !.out = Append(@, c)]

Unescaping(value) == FoldLeft(UnescapeOne, [out |-> <<>>, pending |-> FALSE, bad |-> FALSE], value)

Unescape(value) == Unescaping(value).out

\* unescapeText throws; a tab or a line feed is not unsafe to it.
TextError(value) ==
  LET u == Unescaping(value)
  IN  IF u.bad \/ u.pending THEN "invalid_line"
      ELSE IF Len(u.out) > MaxText \/ "ctl" \in ToSet(u.out) THEN "text_too_long"
      ELSE "none"

-----------------------------------------------------------------------------
(* parseEvent *)

Unique ==
  {"UID", "DTSTART", "DTEND", "STATUS", "TRANSP", "SEQUENCE", "LAST-MODIFIED", "SUMMARY"}

Recurrence == {"RRULE", "RDATE", "EXDATE", "EXRULE", "RECURRENCE-ID"}

Given(props, name) == IF name \in DOMAIN props THEN props[name] ELSE NotGiven

MissingValue(line) ==
  line.form \in {"absent", "empty"} \/ (line.form = "text" /\ line.value = <<>>)

BoundaryBlank(value) == value # <<>> /\ {Head(value), Last(value)} \cap {" ", "tab"} # {}

UidError(line) ==
  LET raw == line.value
  IN  IF MissingValue(line) THEN "missing_property"
      ELSE IF BoundaryBlank(raw) \/ ToSet(raw) \cap Controls # {} THEN "invalid_uid"
      ELSE IF TextError(raw) # "none" THEN TextError(raw)
      ELSE IF Unescape(raw) = <<>> \/ ToSet(Unescape(raw)) \cap Controls # {}
      THEN "invalid_uid" ELSE "none"

DateError(line) ==
  IF MissingValue(line) THEN "missing_property"
  ELSE IF line.form = "timed" THEN "ambiguous_timezone"
  ELSE IF line.form # "date" \/ ~ValidDate(line.value) THEN "invalid_date"
  ELSE "none"

NightsBetween(from, to) == DayNumber(to) - DayNumber(from)

IntervalError(start, end) ==
  LET nights == NightsBetween(start.value, end.value)
  IN  IF nights <= 0 \/ nights > MaxNights THEN "invalid_interval" ELSE "none"

WordError(line, words, code) ==
  IF line.form = "absent" \/ (line.form = "word" /\ line.value \in words) THEN "none" ELSE code

SequenceError(line) ==
  IF line.form = "absent" \/ (line.form = "number" /\ line.value \in 0 .. MaxSequence)
  THEN "none" ELSE "invalid_sequence"

StampError(line) ==
  CASE line.form \in {"absent", "stamp"} -> "none"
    [] line.form = "timed" -> "ambiguous_timezone"
    [] OTHER -> "invalid_timestamp"

Statuses == {"CONFIRMED", "TENTATIVE", "CANCELLED"}

EventError(p) ==
  LET start == Given(p, "DTSTART")
      end   == Given(p, "DTEND")
      dates == {DateError(start), DateError(end)}
  IN  FirstFailure(<<
        UidError(Given(p, "UID")),
        DateError(start),
        DateError(end),
        IF dates = {"none"} THEN IntervalError(start, end) ELSE "none",
        WordError(Given(p, "STATUS"), Statuses, "invalid_status"),
        WordError(Given(p, "TRANSP"), {"OPAQUE", "TRANSPARENT"}, "invalid_transparency"),
        SequenceError(Given(p, "SEQUENCE")),
        StampError(Given(p, "LAST-MODIFIED")),
        StampError(Given(p, "DTSTAMP")),
        IF "SUMMARY" \in DOMAIN p THEN TextError(p["SUMMARY"].value) ELSE "none" >>)

Null == "null"

ValueOr(line, default) == IF line.form = "absent" THEN default ELSE line.value

\* A transparent event blocks nothing: it is read as a cancellation.
EventOf(p) ==
  [uid |-> Unescape(p["UID"].value),
   arrival |-> p["DTSTART"].value, departure |-> p["DTEND"].value,
   status |-> IF ValueOr(Given(p, "TRANSP"), "OPAQUE") = "TRANSPARENT" THEN "CANCELLED"
              ELSE ValueOr(Given(p, "STATUS"), "CONFIRMED"),
   sequence |-> ValueOr(Given(p, "SEQUENCE"), Null),
   lastModified |-> ValueOr(Given(p, "LAST-MODIFIED"), Null),
   summary |-> IF "SUMMARY" \in DOMAIN p THEN Unescape(p["SUMMARY"].value) ELSE Null]

-----------------------------------------------------------------------------
(* parseICalCalendar: one content line at a time *)

NoEvent == "none"

Outside == [component |-> "none", ended |-> FALSE, event |-> NoEvent, events |-> <<>>,
            error |-> "none"]

Throw(st, code) == [st EXCEPT !.error = code]

BeginEvent(st) ==
  IF st.component # "VCALENDAR" THEN Throw(st, "invalid_component")
  ELSE IF Len(st.events) >= MaxEvents THEN Throw(st, "event_limit")
  ELSE [st EXCEPT !.event = <<>>, !.component = "VEVENT"]

\* Mutation: the uids of a calendar may repeat.
EndEventTwice(st) ==
  IF st.component # "VEVENT" THEN Throw(st, "invalid_component")
  ELSE IF EventError(st.event) # "none" THEN Throw(st, EventError(st.event))
  ELSE [st EXCEPT !.events = Append(@, EventOf(st.event)), !.event = NoEvent,
                  !.component = "VCALENDAR"]

EndEvent(st) ==
  IF st.component # "VEVENT" THEN Throw(st, "invalid_component")
  ELSE IF EventError(st.event) # "none" THEN Throw(st, EventError(st.event))
  ELSE IF \E i \in DOMAIN st.events : st.events[i].uid = EventOf(st.event).uid
  THEN Throw(st, "duplicate_uid")
  ELSE [st EXCEPT !.events = Append(@, EventOf(st.event)), !.event = NoEvent,
                  !.component = "VCALENDAR"]

EndCalendar(st) ==
  IF st.component # "VCALENDAR" THEN Throw(st, "invalid_component")
  ELSE [st EXCEPT !.ended = TRUE, !.component = "none"]

\* A property of an event, of the calendar (only PRODID is read), or outside.
ReadProperty(st, line) ==
  IF st.component = "VEVENT"
  THEN IF line.name \in Recurrence THEN Throw(st, "unsupported_recurrence")
       ELSE IF line.name \in Unique \cap DOMAIN st.event THEN Throw(st, "duplicate_property")
       ELSE [st EXCEPT !.event = [n \in DOMAIN @ \cup {line.name} |->
                                    IF n = line.name THEN line ELSE @[n]]]
  ELSE IF st.component # "VCALENDAR" THEN Throw(st, "invalid_component")
  ELSE IF line.name = "PRODID" /\ TextError(line.value) # "none"
  THEN Throw(st, TextError(line.value))
  ELSE st

ReadLine(st, line) ==
  IF st.error # "none" THEN st
  ELSE IF IsMarker(line, "BEGIN", "VEVENT") THEN BeginEvent(st)
  ELSE IF IsMarker(line, "END", "VEVENT") THEN EndEvent(st)
  ELSE IF IsMarker(line, "END", "VCALENDAR") THEN EndCalendar(st)
  ELSE IF line.kind = "broken" THEN Throw(st, "invalid_line")
  ELSE IF line.name \in {"BEGIN", "END"} THEN Throw(st, "invalid_component")
  ELSE ReadProperty(st, line)

Rejected(code) == [error |-> code, events |-> <<>>]

ParseCalendar(doc) ==
  LET unfolded == Unfold(doc)
      lines    == unfolded.lines
      st       == FoldLeft(ReadLine, [Outside EXCEPT !.component = "VCALENDAR"], Tail(lines))
  IN  IF unfolded.error # "none" THEN Rejected(unfolded.error)
      ELSE IF lines = <<>> \/ ~IsMarker(lines[1], "BEGIN", "VCALENDAR")
      THEN Rejected("missing_calendar")
      ELSE IF st.error # "none" THEN Rejected(st.error)
      ELSE IF ~st.ended THEN Rejected("missing_calendar")
      ELSE [error |-> "none", events |-> st.events]

-----------------------------------------------------------------------------
(* exportICalCalendar *)

\* safeText: a run of unsafe characters becomes one space; tabs are kept.
SafeOne(out, c) ==
  IF c \notin {"lf", "ctl"} THEN Append(out, c)
  ELSE IF out # <<>> /\ Last(out) = " " THEN out
  ELSE Append(out, " ")

Blanks == {" ", "tab"}

\* String.prototype.trim.
Trim(s) ==
  LET solid == {i \in DOMAIN s : s[i] \notin Blanks}
  IN  IF solid = {} THEN <<>> ELSE SubSeq(s, Min(solid), Max(solid))

SafeText(s) == Trim(FoldLeft(SafeOne, <<>>, s))

\* Mutation: the escape character is not escaped.
EscapeForgetsBackslash(s) ==
  FoldLeft(LAMBDA out, c : out \o (IF c \in {";", ","} THEN <<"\\", c>> ELSE <<c>>), <<>>, s)

EscapeOne(out, c) == out \o (IF c \in Escaped THEN <<"\\", c>> ELSE <<c>>)

EscapeText(s) == FoldLeft(EscapeOne, <<>>, s)

\* foldLine: a continuation begins with the fold's own space.
FoldLine(line) ==
  LET room == FoldAt - 1
      n    == Len(line.value)
      more == IF line.form # "text" \/ n <= room THEN 0 ELSE (n - 1) \div room
      Part(k) == SubSeq(line.value, k * room + 1, IF (k + 1) * room < n THEN (k + 1) * room ELSE n)
  IN  IF more = 0 THEN <<line>>
      ELSE [i \in 1 .. more + 1 |->
              IF i = 1 THEN [line EXCEPT !.value = Part(0)] ELSE Fold(Part(i - 1))]

\* ICalExportReservation.
IsReservation(r) ==
  /\ r.uid \in Seq(ToSet(r.uid)) /\ r.summary \in Seq(ToSet(r.summary))
  /\ r.arrival \in DateParts /\ r.departure \in DateParts

\* validateReservation.
Exportable(r) ==
  /\ r.uid # <<>> /\ r.uid = Trim(r.uid) /\ Len(r.uid) <= MaxText
  /\ ToSet(r.uid) \cap Controls = {}
  /\ Len(SafeText(r.summary)) \in 1 .. MaxText
  /\ ValidByCounting(r.arrival) /\ ValidByCounting(r.departure)
  /\ NightsBetween(r.arrival, r.departure) \in 1 .. MaxNights

ExportedEvent(r) ==
  << Marker("BEGIN", "VEVENT"),
     Text("UID", EscapeText(r.uid)),
     Line("DTSTAMP", "stamp", r.updatedAt),
     Line("DTSTART", "date", r.arrival),
     Line("DTEND", "date", r.departure),
     Line("STATUS", "word", "CONFIRMED"),
     Line("SEQUENCE", "number", 0),
     Text("SUMMARY", EscapeText(SafeText(r.summary))),
     Line("LAST-MODIFIED", "stamp", r.updatedAt),
     Marker("END", "VEVENT") >>

ExportHead == << Marker("BEGIN", "VCALENDAR"), Text("PRODID", <<"a">>) >>

WriteEvent(lines, r) == lines \o ExportedEvent(r)

ExportedLines(reservations) ==
  Append(FoldLeft(WriteEvent, ExportHead, reservations), Marker("END", "VCALENDAR"))

WriteLine(doc, line) == doc \o FoldLine(line)

ExportCalendar(reservations) == FoldLeft(WriteLine, <<>>, ExportedLines(reservations))

\* The array as a whole: it is bounded, every reservation is exportable and no
\* uid repeats.
ExportableAll(reservations) ==
  Len(reservations) <= MaxReservations /\ \A i, j \in DOMAIN reservations :
    /\ Exportable(reservations[i])
    /\ reservations[i].uid = reservations[j].uid => i = j
=============================================================================
