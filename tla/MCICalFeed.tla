---- MODULE MCICalFeed ----
(* A small instance of fetching and parsing a calendar.  Documents are a   *)
(* few that parse, a few that do not, and exports of this very program.    *)
EXTENDS ICalFeed

\* 8.8.8.8, 2600:: are routable; 10.0.0.1 and the IPv4-mapped ::ffff:8.8.8.8 are not.
Public == <<8 * 256 + 8, 8 * 256 + 8>>
Private == <<10 * 256, 1>>
Mapped == <<0, 0, 0, 0, 0, 65535, 2056, 2056>>

AddressesChosen == {Public, <<9728, 0, 0, 0, 0, 0, 0, 1>>, Private}

UrlFaultChosen == [u \in Urls |-> CASE u = "http" -> "insecure_protocol"
                                    [] u = "garbled" -> "invalid_url" [] OTHER -> "none"]
LiteralChosen == [u \in Urls |-> IF u = "mapped" THEN Mapped ELSE NoAddress]

Feb28 == Date(2024, 2, 28)
Mar1 == Date(2024, 3, 1)
Feb28of2100 == Date(2100, 2, 28)
Mar1of2100 == Date(2100, 3, 1)
Dec31 == Date(2023, 12, 31)
Jan1 == Date(2024, 1, 1)

Reservation(uid, summary, arrival, departure) ==
  [uid |-> uid, summary |-> summary, arrival |-> arrival, departure |-> departure,
   updatedAt |-> 1]

\* What the engine may export: summaries are free text, uids nearly so.
ExportsChosen ==
  { << Reservation(<<"a", ";", "\\">>, <<" ", "b", "lf", "ctl", "\\", "n", ",", "tab", "b">>,
                   Feb28, Mar1) >>,
    << Reservation(<<",", "n">>, <<"lf", "a", "a", "a", "a", "a">>, Feb28of2100, Mar1of2100) >>,
    << >> }

EventLines(uid, start, end, more) ==
  << Marker("BEGIN", "VEVENT"), Text("UID", uid), Line("DTSTART", "date", start),
     Line("DTEND", "date", end) >> \o more \o << Marker("END", "VEVENT") >>

InCalendar(lines) ==
  << Marker("BEGIN", "VCALENDAR") >> \o lines \o << Marker("END", "VCALENDAR") >>

Plain(uid) == EventLines(uid, Feb28, Mar1, << >>)

Written ==
  { InCalendar(EventLines(<<"a">>, Dec31, Jan1,
      << Line("TRANSP", "word", "TRANSPARENT"), Text("SUMMARY", <<"b", "\\", "n">>),
         Fold(<<"tab">>) >>)),
    InCalendar(Plain(<<"a">>) \o Plain(<<"\\", ";">>)),
    InCalendar(Plain(<<"a">>) \o Plain(<<"a">>)),
    InCalendar(Plain(<<"a">>) \o Plain(<<"b">>) \o Plain(<<"c">>)),
    InCalendar(EventLines(<<"a">>, Mar1, Feb28, << >>)),
    InCalendar(EventLines(<<"a">>, Date(2023, 2, 29), Mar1, << >>)),
    InCalendar(EventLines(<<"a">>, Feb28, Mar1, << Line("RRULE", "word", "DAILY") >>)),
    InCalendar(EventLines(<<"a">>, Feb28, Mar1, << Line("SEQUENCE", "number", 9) >>)),
    InCalendar(<< Marker("BEGIN", "VEVENT") >> \o Plain(<<"a">>)),
    InCalendar(<< Blank >>), InCalendar(<< Broken >>),
    Append(InCalendar(Plain(<<"a">>)), Text("SUMMARY", <<"a">>)),
    << Fold(<<"a">>) >>,
    << Marker("BEGIN", "VCALENDAR") >>,
    InCalendar(EventLines(<<"a">>, Feb28, Mar1,
      << Text("SUMMARY", [i \in 1 .. MaxLine |-> "a"]) >>)),
    InCalendar(EventLines(<<"a">>, Feb28, Mar1,
      << Text("SUMMARY", <<"a">>), Fold([i \in 1 .. MaxLine - 1 |-> "a"]) >>)),
    [i \in 1 .. MaxBody + 1 |-> Blank] }

DocumentsChosen == Written \cup {Exported[e] : e \in Exports}
====
