------------------------------ MODULE ICalFeed ------------------------------
(***************************************************************************)
(* Getting the calendar of a source: the fetch loop, and the parse of what *)
(* it read.                                                                *)
(*                                                                         *)
(* Every hop of a fetch validates its url, resolves its host twice under   *)
(* one timer, and then sends its request and reads the answer under        *)
(* another.  Resolver and server may answer anything, or never.  A body    *)
(* arrives in chunks of one line.                                          *)
(***************************************************************************)
EXTENDS ICalText, AddressPolicy, FiniteSets

CONSTANTS
  Urls,           \* urls of the source and of redirects to come
  UrlFault,       \* UrlFault[u]: what validateUrl finds wrong with u by its text, or "none"
  Literal,        \* Literal[u]: the address u names instead of a host, or NoAddress
  NoAddress,
  Addresses,      \* addresses the resolver may answer with
  Documents,      \* bodies a server may send: sequences of physical lines
  Exports,        \* reservations that a server of this program may have exported
  MaxRedirects,
  TimeoutMs,      \* one timer's span, in ticks of the clock
  MaxBody         \* maxBodyBytes, in chunks

VARIABLES
  now,            \* time since the fetch began
  deadline,       \* when the running timer fires
  fetch,          \* the hop in progress
  answer,         \* the response being read
  result          \* what the caller got

fetchVars == <<now, deadline, fetch, answer, result>>

ASSUME FetchLimitsAssumption ==
  /\ MaxRedirects \in Nat
  /\ TimeoutMs \in Nat \ {0}
  /\ MaxBody \in Nat \ {0}

\* A body is a sequence of lines: it has an end.
ASSUME DocumentsAssumption ==
  \A d \in Documents : d \in Seq(ToSet(d)) /\ \A i \in DOMAIN d : PhysicalLine(d[i])

\* Only what may be exported is.
ASSUME ExportsAssumption ==
  \A e \in Exports :
    /\ e \in Seq(ToSet(e)) /\ \A i \in DOMAIN e : IsReservation(e[i])
    /\ ExportableAll(e)

\* The bodies of these servers.
Exported == [e \in Exports |-> ExportCalendar(e)]

NoUrl == "none"

\* length is the Content-Length header: absent, not a number, or a number.
Responses ==
  [kind: {"redirect"}, location: Urls \cup {NoUrl}, destroyable: BOOLEAN, body: Documents]
    \cup [kind: {"unsuccessful"}, destroyable: BOOLEAN, body: Documents]
    \cup [kind: {"success"}, length: {-1, -2} \cup {Len(d) : d \in Documents}, utf8: BOOLEAN,
          destroyable: {TRUE}, body: Documents]

NoLength == -1
BadLength == -2

NoAnswer == [kind |-> "none"]

Pending == [code |-> "pending", events |-> <<>>, body |-> <<>>]
Failed(code) == [Pending EXCEPT !.code = code]

FetchInit ==
  /\ now = 0
  /\ deadline = 0
  /\ \E u \in Urls :
       fetch = [phase |-> "validate", url |-> u, hop |-> 0, first |-> {}, second |-> {},
                taken |-> <<>>]
  /\ answer = NoAnswer
  /\ result = Pending

-----------------------------------------------------------------------------

In(phase) == fetch.phase = phase

GoTo(phase) == fetch' = [fetch EXCEPT !.phase = phase]

\* Every throw ends the fetch: run of the job catches it.
FailsWith(code) ==
  /\ GoTo("done")
  /\ result' = Failed(code)
  /\ UNCHANGED <<now, deadline, answer>>

SetTimer == deadline' = now + TimeoutMs

Timed == {"lookup1", "lookup2", "connect", "read", "drain"}

\* Timers fire when they are due: the clock does not pass one that runs.
Tick ==
  /\ fetch.phase \in Timed
  /\ now < deadline
  /\ now' = now + 1
  /\ UNCHANGED <<deadline, fetch, answer, result>>

\* Mutation: the timer of a hop ends with its lookups.
TimeoutOfLookups ==
  /\ fetch.phase \in {"lookup1", "lookup2"}
  /\ now >= deadline
  /\ FailsWith("timeout")

\* An answer may still be handled in the instant its timer is due.
Timeout ==
  /\ fetch.phase \in Timed
  /\ now >= deadline
  /\ FailsWith("timeout")

-----------------------------------------------------------------------------
(* One hop *)

\* validateUrl: the url's text, then the address it may name.
UrlError(u) ==
  IF UrlFault[u] # "none" THEN UrlFault[u]
  ELSE IF Literal[u] # NoAddress /\ ~IsGlobalRoutable(Literal[u]) THEN "blocked_address"
  ELSE "none"

\* A redirect to an url that is no url is a fault of the redirect.
RedirectError(code) == IF code = "invalid_url" THEN "redirect_location" ELSE code

Validate ==
  /\ In("validate")
  /\ LET code == UrlError(fetch.url)
     IN  IF code # "none"
         THEN FailsWith(IF fetch.hop = 0 THEN code ELSE RedirectError(code))
         ELSE /\ SetTimer
              /\ IF Literal[fetch.url] = NoAddress
                 THEN GoTo("lookup1")
                 ELSE fetch' = [fetch EXCEPT !.phase = "connect", !.first = {Literal[fetch.url]},
                                             !.second = {Literal[fetch.url]}]
              /\ UNCHANGED <<now, answer, result>>

\* The resolver fails, or answers with addresses.
Lookup1 ==
  /\ In("lookup1")
  /\ \E A \in SUBSET Addresses :
       IF A = {} THEN FailsWith("dns_error")
       ELSE IF \E a \in A : ~IsGlobalRoutable(a) THEN FailsWith("blocked_address")
       ELSE /\ fetch' = [fetch EXCEPT !.phase = "lookup2", !.first = A]
            /\ UNCHANGED <<now, deadline, answer, result>>

\* Mutation: the first answer is enough.
SecondLookupIgnored ==
  /\ In("lookup2")
  /\ \E A \in SUBSET Addresses :
       /\ fetch' = [fetch EXCEPT !.phase = "connect", !.second = A]
       /\ SetTimer
       /\ UNCHANGED <<now, answer, result>>

\* The addresses agree: the request gets a timer of its own.
Lookup2 ==
  /\ In("lookup2")
  /\ \E A \in SUBSET Addresses :
       IF A = {} THEN FailsWith("dns_error")
       ELSE IF A # fetch.first THEN FailsWith("dns_rebinding")
       ELSE /\ fetch' = [fetch EXCEPT !.phase = "connect", !.second = A]
            /\ SetTimer
            /\ UNCHANGED <<now, answer, result>>

\* The server answers the request sent to the addresses that were agreed on.
\* The headers decide what becomes of the body.
Respond ==
  /\ In("connect")
  /\ \E r \in Responses :
       /\ answer' = r
       /\ GoTo(IF r.kind = "success" /\ r.length # BadLength /\ r.length <= MaxBody
             THEN "read" ELSE "drain")
       /\ UNCHANGED <<now, deadline, result>>

ConnectionFails ==
  /\ fetch.phase \in {"connect", "read", "drain"}
  /\ FailsWith("network_error")

\* A chunk is read, or skipped, and counted.
Chunk ==
  /\ fetch.phase \in {"read", "drain"}
  /\ ~(In("drain") /\ answer.destroyable)
  /\ Len(fetch.taken) < Len(answer.body)
  /\ IF Len(fetch.taken) + 1 > MaxBody THEN FailsWith("body_limit")
     ELSE /\ fetch' = [fetch EXCEPT !.taken = Append(@, answer.body[Len(@) + 1])]
          /\ UNCHANGED <<now, deadline, answer, result>>

BodyEnds == answer.destroyable \/ Len(fetch.taken) = Len(answer.body)

\* disposeBody is done: what the fetch disposed of the body for happens.
Disposed ==
  /\ In("drain")
  /\ BodyEnds
  /\ CASE answer.kind = "unsuccessful" -> FailsWith("http_error")
       [] answer.kind = "success" ->
            FailsWith(IF answer.length = BadLength THEN "network_error" ELSE "body_limit")
       [] answer.kind = "redirect" ->
            IF fetch.hop >= MaxRedirects THEN FailsWith("redirect_limit")
            ELSE IF answer.location = NoUrl THEN FailsWith("redirect_location")
            ELSE /\ fetch' = [phase |-> "validate", url |-> answer.location,
                              hop |-> fetch.hop + 1, first |-> {}, second |-> {}, taken |-> <<>>]
                 /\ answer' = NoAnswer
                 /\ UNCHANGED <<now, deadline, result>>

\* The last chunk was read: the body is decoded, and the job parses it.
ReadAndParse ==
  /\ In("read")
  /\ Len(fetch.taken) = Len(answer.body)
  /\ IF ~answer.utf8 THEN FailsWith("invalid_encoding")
     ELSE LET calendar == ParseCalendar(fetch.taken)
          IN  IF calendar.error # "none" THEN FailsWith(calendar.error)
              ELSE /\ GoTo("done")
                   /\ result' = [code |-> "none", events |-> calendar.events,
                                 body |-> fetch.taken]
                   /\ UNCHANGED <<now, deadline, answer>>

Done == In("done") /\ UNCHANGED fetchVars

Internal == Validate \/ (answer # NoAnswer /\ answer.destroyable /\ Disposed)

FetchNext ==
  \/ Tick \/ Timeout
  \/ Validate \/ Lookup1 \/ Lookup2 \/ Respond \/ ConnectionFails
  \/ Chunk \/ Disposed \/ ReadAndParse \/ Done

\* Nothing is assumed of the resolver and of the server.  The process runs
\* its own code, and the timers of the runtime fire.
FetchSpec ==
  /\ FetchInit /\ [][FetchNext]_fetchVars
  /\ WF_fetchVars(Internal) /\ WF_fetchVars(Tick) /\ WF_fetchVars(Timeout)

-----------------------------------------------------------------------------

\* A fetch asks a server only at addresses that both lookups gave and that
\* are routable, follows at most maxRedirects redirects, keeps no more than
\* maxBodyBytes, and is over within one timer span per lookup and per request
\* (createICalFetcher's loop, withTimeout, readBody).
FetchStaysInBounds ==
  /\ fetch.hop <= MaxRedirects
  /\ now <= 2 * TimeoutMs * (MaxRedirects + 1)
  /\ fetch.phase \in {"connect", "read", "drain"} =>
       fetch.first = fetch.second /\ \A a \in fetch.first : IsGlobalRoutable(a)
  /\ Len(fetch.taken) <= MaxBody

\* A calendar the parser accepts is the whole body the server sent: each of
\* its events is one that a BEGIN and an END of the body enclose, their uids
\* differ, and a stay counts the nights the calendar does (parseICalCalendar,
\* parseEvent, dayNumber).
CalendarsAreWhole ==
  result.code = "none" =>
    /\ result.body = answer.body
    /\ Len(result.events) = Cardinality({i \in DOMAIN answer.body :
                                           IsMarker(answer.body[i], "END", "VEVENT")})
    /\ \A i, j \in DOMAIN result.events :
         result.events[i].uid = result.events[j].uid => i = j
    /\ \A i \in DOMAIN result.events :
         \E n \in 1 .. MaxNights : DaysAfter(result.events[i].arrival, n) = result.events[i].departure

\* What exportICalCalendar wrote of reservations comes back as these
\* reservations, over folding and escaping, whenever all of it arrives; free
\* text only loses what safeText takes.  The exporter writes more reservations
\* than the parser takes events: this is about calendars the parser has room for
\* (exportICalCalendar against parseICalCalendar).
ExportsComeBack ==
  \A e \in Exports :
    /\ In("done") /\ answer # NoAnswer
    /\ answer.body = Exported[e] /\ Len(e) <= MaxEvents
    => \/ result.code \notin ParseCodes \cup {"none"}
       \/ /\ result.code = "none"
          /\ Len(result.events) = Len(e)
          /\ \A i \in DOMAIN e :
               /\ result.events[i].uid = e[i].uid
               /\ result.events[i].arrival = e[i].arrival
               /\ result.events[i].departure = e[i].departure
               /\ result.events[i].status = "CONFIRMED"
               /\ result.events[i].summary = SafeText(e[i].summary)

\* Every fetch ends, also if no resolver and no server ever answers
\* (withTimeout around the lookups and around the request).
FetchEnds == <>In("done")
=============================================================================
