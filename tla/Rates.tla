-------------------------------- MODULE Rates --------------------------------
(***************************************************************************)
(* Rate plans, quotes and the snapshots of quotes that requests keep.      *)
(*                                                                         *)
(* The code collects every error of an input; here they are a set of       *)
(* codes, and an input is accepted when the set is empty.  Amounts are in  *)
(* minor units; MaxSafe stands for Number.MAX_SAFE_INTEGER.                *)
(***************************************************************************)
EXTENDS LocalDates, SequencesExt

CONSTANTS
  Currencies,     \* active ISO 4217 codes
  MaxSafe,
  MaxAmount,      \* maximumMinorAmount
  MaxStay,        \* maximumNights, and the bound of minimumStayNights
  MaxOverrides    \* maximumSeasonalOverrides

ASSUME RateLimitsAssumption ==
  /\ {MaxSafe, MaxAmount, MaxStay, MaxOverrides} \subseteq Nat
  /\ MaxAmount <= MaxSafe

If(failed, code) == IF failed THEN {code} ELSE {}

-----------------------------------------------------------------------------
(* createLocalDateInterval *)

NightsOf(s) == DayNumber(s.departure) - DayNumber(s.arrival)

IntervalErrors(s) ==
  IF ~ValidDate(s.arrival) \/ ~ValidDate(s.departure) THEN {"invalid_date"}
  ELSE If(NightsOf(s) <= 0, "non_positive_length")
         \cup If(NightsOf(s) > MaxStay, "interval_too_long")

\* Strings of dates are compared as strings.
Overlap(s, t) == Earlier(s.arrival, t.departure) /\ Earlier(t.arrival, s.departure)

\* arrival <= date and date < departure.
Covers(s, date) == ~Earlier(date, s.arrival) /\ Earlier(date, s.departure)

DateAtOffset(s, n) == CivilFromDays(DayNumber(s.arrival) + n)

-----------------------------------------------------------------------------
(* createRatePlan *)

IsAmount(n) == n \in 0 .. MaxAmount

\* A season with an error of its own is not compared with the others.
Comparable(season) == IntervalErrors(season) = {} /\ IsAmount(season.rate)

Crowded(seasons) ==
  \E i, j \in DOMAIN seasons :
    /\ i < j /\ Comparable(seasons[i]) /\ Comparable(seasons[j])
    /\ Overlap(seasons[i], seasons[j])

PlanErrors(plan) ==
  If(plan.currency \notin Currencies, "unsupported_currency")
    \cup If(~IsAmount(plan.base) \/ ~IsAmount(plan.cleaning), "invalid_minor_amount")
    \cup If(plan.minimumStay \notin 1 .. MaxStay, "invalid_minimum_stay")
    \cup (IF Len(plan.seasons) > MaxOverrides THEN {"seasonal_overrides_too_many"}
         ELSE (UNION {IntervalErrors(s) \cup If(~IsAmount(s.rate), "invalid_minor_amount") :
                        s \in ToSet(plan.seasons)})
                \cup If(Crowded(plan.seasons), "overlapping_override"))

-----------------------------------------------------------------------------
(* quoteRatePlan *)

\* One night: the first season that covers it, or the base rate.
NightAt(plan, date) ==
  LET covering == {i \in DOMAIN plan.seasons : Covers(plan.seasons[i], date)}
  IN  IF covering = {}
      THEN [date |-> date, amount |-> plan.base, source |-> "base"]
      ELSE [date |-> date, source |-> "seasonal_override",
            amount |-> plan.seasons[CHOOSE i \in covering : \A j \in covering : i <= j].rate]

AddNight(st, night) ==
  IF st.tooLarge \/ st.subtotal > MaxSafe - night.amount THEN [st EXCEPT !.tooLarge = TRUE]
  ELSE [nightly |-> Append(st.nightly, night), subtotal |-> st.subtotal + night.amount,
        tooLarge |-> FALSE]

Priced(plan, s) ==
  FoldLeft(AddNight, [nightly |-> <<>>, subtotal |-> 0, tooLarge |-> FALSE],
           [n \in 1 .. NightsOf(s) |-> NightAt(plan, DateAtOffset(s, n - 1))])

\* The cleaning fee is added before it is compared, so the sum may be rounded;
\* a sum of two safe integers compares correctly with the bound.
QuoteErrors(plan, s) ==
  IF IntervalErrors(s) # {} THEN IntervalErrors(s)
  ELSE IF NightsOf(s) < plan.minimumStay THEN {"minimum_stay"}
  ELSE If(Priced(plan, s).tooLarge \/ Priced(plan, s).subtotal + plan.cleaning > MaxSafe,
          "quote_total_too_large")

QuoteOf(plan, s) ==
  [arrival |-> s.arrival, departure |-> s.departure, nights |-> NightsOf(s),
   currency |-> plan.currency, nightly |-> Priced(plan, s).nightly,
   subtotal |-> Priced(plan, s).subtotal, cleaning |-> plan.cleaning,
   total |-> Priced(plan, s).subtotal + plan.cleaning, minimumStay |-> plan.minimumStay]

-----------------------------------------------------------------------------
(* createQuoteSnapshot *)

SumOf(amounts) == FoldLeft(+, 0, amounts)

\* Only well-formed nights are summed.
SnapshotErrors(q) ==
  LET Sound(night) == IsAmount(night.amount) /\ night.source \in {"base", "seasonal_override"}
      sound == SelectSeq(q.nightly, Sound)
      subtotal == SumOf([i \in DOMAIN sound |-> sound[i].amount])
  IN  If(IntervalErrors(q) # {}, "invalid_quote")
        \cup If(q.currency \notin Currencies, "invalid_currency")
        \cup If({q.nights, q.minimumStay} \notin SUBSET (1 .. MaxStay), "invalid_quote")
        \cup If(IntervalErrors(q) = {} /\ q.nights # NightsOf(q), "nights_mismatch")
        \cup If(~IsAmount(q.cleaning), "invalid_amount")
        \cup If(Len(q.nightly) # q.nights, "nightly_count_mismatch")
        \cup If(\E i \in DOMAIN q.nightly :
                  \/ ~Sound(q.nightly[i])
                  \/ (IntervalErrors(q) = {} /\ q.nightly[i].date # DateAtOffset(q, i - 1)),
                "invalid_nightly_entry")
        \cup If(q.subtotal # subtotal, "nightly_subtotal_mismatch")
        \cup If(q.total # subtotal + q.cleaning, "quote_total_mismatch")

-----------------------------------------------------------------------------
(* What a quote is meant to be: every night of the calendar between arrival  *)
(* and departure once, each at the rate of the one season it lies in.        *)

StayNights(s) == {DaysAfter(s.arrival, n) : n \in {k \in 0 .. MaxStay - 1 :
                                                     Earlier(DaysAfter(s.arrival, k), s.departure)}}

RateOn(plan, date) ==
  LET seasons == {s \in ToSet(plan.seasons) : Covers(s, date)}
  IN  IF seasons = {} THEN {plan.base} ELSE {s.rate : s \in seasons}

\* q prices stay s by plan, with no room for a second reading of the plan.
IsQuoteOf(q, plan, s) ==
  /\ q.arrival = s.arrival /\ q.departure = s.departure
  /\ {q.nightly[i].date : i \in DOMAIN q.nightly} = StayNights(s)
  /\ Len(q.nightly) = q.nights
  /\ Cardinality(StayNights(s)) = q.nights
  /\ \A i \in DOMAIN q.nightly : RateOn(plan, q.nightly[i].date) = {q.nightly[i].amount}
  /\ q.total = SumOf([i \in DOMAIN q.nightly |-> q.nightly[i].amount]) + plan.cleaning
  /\ q.total <= MaxSafe
  /\ q.currency = plan.currency
  /\ q.nights >= plan.minimumStay
=============================================================================
