---------------------------- MODULE DayTelemetry ----------------------------
(***************************************************************************)
(* The telemetry report of one day of a provider:                          *)
(* get_provider_telemetry of app/api/routes/provider_measurements.py.      *)
(*                                                                         *)
(* The handler queries the readings of the day twice, first for the        *)
(* day's energy by hour (_build_provider_energy_series), then for the      *)
(* revenue (_build_matched_revenue_summary).  The workers that poll the    *)
(* providers save readings meanwhile, in any order of their measured_at.   *)
(***************************************************************************)
EXTENDS PowerWindow

CONSTANTS
    Start, End,   \* the day's window
    Times,        \* measured_at of the readings
    Powers,       \* powers, positive for export
    Expecteds,    \* expected intervals between readings, or Null
    EnergyUnit,   \* "kWh", "Wh" or Null, from the provider's unit
    Markets,      \* possible lists of market entries, sorted by their start
    MaxReadings   \* bound: saved readings

ASSUME DayAssumption ==
    /\ Start \in Int /\ End \in Int /\ Start <= End
    /\ Start % Day = 0 /\ Start % Hour = 0
    /\ Times \subseteq Int /\ Powers \subseteq Int
    /\ \A e \in Expecteds : e = Null \/ e \in Int
    /\ MaxReadings \in Nat

Reading == [ts : Times, power : Powers]

(***************************************************************************)
(* A market entry holds over from..to-1.  Its price is per its unit, which *)
(* may be missing.                                                         *)
(***************************************************************************)
ASSUME MarketAssumption ==
    \A m \in Markets : Len(m) \in Nat /\ DOMAIN m = 1..Len(m) /\ \A i \in DOMAIN m :
        /\ m[i].from \in Int /\ m[i].to \in Int
        /\ m[i].price \in Int
        /\ \A j \in DOMAIN m : i < j => m[i].from <= m[j].from

VARIABLES
    expected, \* default_expected_interval_sec of the provider
    stored,   \* the readings, in the order they were saved
    market,   \* the market entries of the day
    pc,       \* "energy", "revenue", "intervals", "segments", "done"
    read1,    \* how many readings were saved at the first query
    read2,    \* and at the second
    hours,    \* net energy of each hour of the day
    todo,     \* intervals the revenue loop has not visited
    interval, \* the one it is in, or Null
    cursor,   \* where it is there
    export,   \* hourly_export_energy
    revenue,  \* hourly_revenue
    totals    \* total_export_energy, total_revenue and matched_intervals

Hold == HoldSeconds(expected)

given == <<expected, market>>
result == <<hours, export, revenue, totals>>
vars == <<stored, given, pc, read1, read2, hours, todo, interval, cursor,
          export, revenue, totals>>

-----------------------------------------------------------------------------

(* What the two queries of the day see of the readings saved so far.        *)
Samples == DaySamples(stored, Start, End, Hold)

(***************************************************************************)
(* _find_market_entry_for_timestamp: the first entry that holds, Null when *)
(* none does.                                                              *)
(***************************************************************************)

(* A bug: an entry still holds at its end.                                  *)
MarketEntryClosed(t) ==
    LET holds == {i \in DOMAIN market : market[i].from <= t /\ t <= market[i].to}
    IN  IF holds = {} THEN Null ELSE market[Min(holds)]

MarketEntryAt(t) ==
    LET holds == {i \in DOMAIN market : market[i].from <= t /\ t < market[i].to}
    IN  IF holds = {} THEN Null ELSE market[Min(holds)]

(***************************************************************************)
(* _convert_market_price_to_energy_unit: the price of a unit of energy of  *)
(* the provider, Null when the units do not convert.                       *)
(***************************************************************************)
EnergyPrice(entry) ==
    IF EnergyUnit = Null \/ entry.unit = Null THEN Null
    ELSE IF entry.unit = "MWh" /\ EnergyUnit = "kWh" THEN entry.price \div 1000
    ELSE IF entry.unit = "MWh" /\ EnergyUnit = "Wh" THEN entry.price \div 1000000
    ELSE IF entry.unit = EnergyUnit THEN entry.price
    ELSE Null

(***************************************************************************)
(* A segment ends with the interval, with the market entry or with the     *)
(* hour.                                                                   *)
(***************************************************************************)

(* A bug: the market entry alone ends the segment.                          *)
SegmentEndMarketOnly(t, entry) == entry.to

(* A bug: a segment runs on into the next hour.                             *)
SegmentEndNoHour(t, entry) == Min({interval.to, entry.to})

SegmentEnd(t, entry) == Min({interval.to, entry.to, HourOf(t) + Hour})

(* A bug: the last segment of an hour overwrites the others.                *)
Put(f, h, x) == [k \in DOMAIN f \cup {h} |-> IF k = h THEN x ELSE f[k]]

(* hourly_revenue[hour] += x on a defaultdict.                              *)
Add(f, h, x) ==
    [k \in DOMAIN f \cup {h} |->
        (IF k \in DOMAIN f THEN f[k] ELSE 0) + (IF k = h THEN x ELSE 0)]

-----------------------------------------------------------------------------

NoTotals == [export |-> 0, revenue |-> 0, matched |-> 0]
Empty == [h \in {} |-> 0]

Init ==
    /\ stored = << >>
    /\ expected \in Expecteds
    /\ market \in Markets
    /\ pc = "energy"
    /\ read1 = 0 /\ read2 = 0
    /\ hours = Empty
    /\ todo = {} /\ interval = Null /\ cursor = Start
    /\ export = Empty /\ revenue = Empty
    /\ totals = NoTotals

(***************************************************************************)
(* A worker saves a reading.  It matters to the report until its second    *)
(* query.                                                                  *)
(***************************************************************************)
Save(r) ==
    /\ Len(stored) < MaxReadings
    /\ pc \in {"energy", "revenue"}
    /\ stored' = Append(stored, r)
    /\ UNCHANGED <<given, pc, read1, read2, hours, todo, interval, cursor,
                   export, revenue, totals>>

(***************************************************************************)
(* The first query and the day's energy by hour.                           *)
(***************************************************************************)
BuildEnergy ==
    /\ pc = "energy"
    /\ read1' = Len(stored)
    /\ hours' = IntegrateHourly(Intervals(Samples, Hold))
    /\ pc' = "revenue"
    /\ UNCHANGED <<stored, given, read2, todo, interval, cursor, export,
                   revenue, totals>>

(***************************************************************************)
(* The second query.  Without two samples, or without prices, there is no  *)
(* revenue to report.                                                      *)
(***************************************************************************)
BuildRevenue ==
    /\ pc = "revenue"
    /\ read2' = Len(stored)
    /\ LET samples == Samples
       IN  IF Cardinality(DOMAIN samples) < 2 \/ market = << >>
           THEN pc' = "done" /\ UNCHANGED todo
           ELSE pc' = "intervals" /\ todo' = Intervals(samples, Hold)
    /\ UNCHANGED <<stored, given, read1, hours, interval, cursor, export,
                   revenue, totals>>

(***************************************************************************)
(* The outer loop takes the intervals in the order of time.                *)
(***************************************************************************)
NextInterval ==
    /\ pc = "intervals"
    /\ \E i \in todo :
        /\ \A j \in todo : i.from <= j.from
        /\ interval' = i
        /\ cursor' = i.from
        /\ todo' = todo \ {i}
    /\ pc' = "segments"
    /\ UNCHANGED <<stored, given, read1, read2, result>>

LastInterval ==
    /\ pc = "intervals"
    /\ todo = {}
    /\ pc' = "done"
    /\ UNCHANGED <<stored, given, read1, read2, todo, interval, cursor, result>>

(***************************************************************************)
(* The interval is used up, or no price is known where the cursor is and   *)
(* the rest of the interval is left out, or the segment would be empty.    *)
(***************************************************************************)

(* A bug: the loop waits for a price that never comes.                      *)
LeaveAtEnd ==
    /\ pc = "segments"
    /\ interval.to <= cursor
    /\ pc' = "intervals"
    /\ interval' = Null
    /\ UNCHANGED <<stored, given, read1, read2, todo, cursor, result>>

LeaveInterval ==
    /\ pc = "segments"
    /\ (cursor < interval.to /\ MarketEntryAt(cursor) # Null) =>
           SegmentEnd(cursor, MarketEntryAt(cursor)) <= cursor
    /\ pc' = "intervals"
    /\ interval' = Null
    /\ UNCHANGED <<stored, given, read1, read2, todo, cursor, result>>

(***************************************************************************)
(* One segment: export that has a price is counted, and the cursor moves.  *)
(***************************************************************************)
MatchSegment ==
    LET entry == MarketEntryAt(cursor)
        to == SegmentEnd(cursor, entry)
        energy == LaterOf(0, interval.power * (to - cursor))
        h == HourOf(cursor)
    IN  /\ pc = "segments"
        /\ cursor < interval.to
        /\ entry # Null
        /\ to > cursor
        /\ \/ /\ energy > 0
              /\ EnergyPrice(entry) # Null
              /\ export' = Add(export, h, energy)
              /\ revenue' = Add(revenue, h, energy * EnergyPrice(entry))
              /\ totals' = [export |-> totals.export + energy,
                            revenue |-> totals.revenue + energy * EnergyPrice(entry),
                            matched |-> totals.matched + 1]
           \/ /\ energy <= 0 \/ EnergyPrice(entry) = Null
              /\ UNCHANGED <<export, revenue, totals>>
        /\ cursor' = to
        /\ UNCHANGED <<stored, given, pc, read1, read2, hours, todo, interval>>

Report ==
    \/ BuildEnergy \/ BuildRevenue
    \/ NextInterval \/ LastInterval
    \/ LeaveInterval \/ MatchSegment

Next == Report \/ \E r \in Reading : Save(r)

(***************************************************************************)
(* A request that can take a step does: its thread is scheduled.           *)
(***************************************************************************)
Spec == Init /\ [][Next]_vars /\ WF_vars(Report)

-----------------------------------------------------------------------------
(* Properties.                                                             *)

Numbers == [export : Nat, revenue : Int, matched : Nat]

Interval == [from : Int, to : Int, power : Powers]

TypeOK ==
    /\ stored \in Seq(Reading) /\ Len(stored) <= MaxReadings
    /\ expected \in Expecteds /\ market \in Markets
    /\ pc \in {"energy", "revenue", "intervals", "segments", "done"}
    /\ read1 \in 0..MaxReadings /\ read2 \in 0..MaxReadings
    /\ \A h \in DOMAIN hours : HourOf(h) = h /\ hours[h] \in Int
    /\ todo \subseteq Interval /\ interval \in Interval \cup {Null}
    /\ cursor \in Start..End
    /\ DOMAIN export = DOMAIN revenue
    /\ \A h \in DOMAIN export : export[h] \in Nat /\ revenue[h] \in Int
    /\ totals \in Numbers

(***************************************************************************)
(* The definition the reports are checked against, unit of time by unit of *)
(* time: of the first n readings, the one that stands at t is the latest   *)
(* of the window up to t, and it stands for the hold time.                 *)
(***************************************************************************)
StandsAt(n, t) ==
    {i \in 1..n :
        /\ Start <= stored[i].ts /\ stored[i].ts <= t
        /\ Hold = Null \/ t < stored[i].ts + Hold
        /\ \A j \in 1..n : stored[j].ts <= t =>
              \/ stored[j].ts < stored[i].ts
              \/ stored[j].ts = stored[i].ts /\ j <= i}

PowerAt(n, t) ==
    SumFunction([i \in StandsAt(n, t) |-> stored[i].power])

Units(h) == (h..(h + Hour - 1)) \cap (Start..(End - 1))

At(f, h) == IF h \in DOMAIN f THEN f[h] ELSE 0

Hours == {HourOf(t) : t \in Start..End}

(***************************************************************************)
(* The energy of every hour is the sum of the power that stood in it,      *)
(* whatever the order in which the readings were saved, however many share *)
(* a time, and wherever the gaps are; nothing of the day before counts     *)
(* (_build_day_power_samples, _build_window_samples, integrate_hourly).    *)
(***************************************************************************)
DayExact ==
    pc = "done" =>
        \A h \in Hours :
            At(hours, h) =
                SumFunction([t \in Units(h) |-> PowerAt(read1, t)])

(***************************************************************************)
(* A unit of time earns revenue when its power is exported at a known      *)
(* price and every unit since the reading that stands there has a market   *)
(* entry: the loop leaves an interval at its first gap.                    *)
(***************************************************************************)
Priced(t) == MarketEntryAt(t) # Null

Earns(t) ==
    \E i \in StandsAt(read2, t) :
        /\ stored[i].power > 0
        /\ \A u \in stored[i].ts..t : Priced(u)
        /\ EnergyPrice(MarketEntryAt(t)) # Null

Earning(h) == {t \in Units(h) : Earns(t)}

(***************************************************************************)
(* The revenue loop counts every such unit once, in its own hour and at    *)
(* the price of its own market entry, and the totals are the sums of the   *)
(* hours (_build_matched_revenue_summary).                                 *)
(***************************************************************************)
RevenueExact ==
    pc = "done" =>
        /\ \A h \in Hours :
            /\ At(export, h) =
                 SumFunction([t \in Earning(h) |-> PowerAt(read2, t)])
            /\ At(revenue, h) =
                 SumFunction([t \in Earning(h) |->
                     PowerAt(read2, t) * EnergyPrice(MarketEntryAt(t))])
        /\ totals.export = SumFunction([h \in Hours |-> At(export, h)])
        /\ totals.revenue = SumFunction([h \in Hours |-> At(revenue, h)])
        /\ totals.matched = 0 <=> DOMAIN export = {}

(***************************************************************************)
(* The loop never leaves an interval because a segment would be empty:     *)
(* the break on dt_hours <= 0 is dead code, for whatever market entries.   *)
(***************************************************************************)
SegmentsAdvance ==
    (pc = "segments" /\ cursor < interval.to /\ Priced(cursor)) =>
        SegmentEnd(cursor, MarketEntryAt(cursor)) > cursor

(***************************************************************************)
(* The two halves of one report agree when no reading was saved between    *)
(* its two queries: every hour that earned is one of the hours of the day, *)
(* and, where all prices are known, the export that earned is at least the *)
(* net export of the hour (import in the same hour is netted only there).  *)
(***************************************************************************)
HalvesAgree ==
    (pc = "done" /\ read1 = read2) =>
        /\ DOMAIN export \subseteq DOMAIN hours
        /\ (\A t \in Start..(End - 1) :
               Priced(t) /\ EnergyPrice(MarketEntryAt(t)) # Null) =>
              \A h \in DOMAIN hours : LaterOf(0, hours[h]) <= At(export, h)

(***************************************************************************)
(* The report is answered: the revenue loop ends whatever the readings and *)
(* the market entries are.                                                 *)
(***************************************************************************)
Answered == <>(pc = "done")
=============================================================================
