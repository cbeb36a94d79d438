---------------------------- MODULE PowerWindow ----------------------------
(***************************************************************************)
(* How app/api/routes/provider_measurements.py turns stored power readings *)
(* into a step function over a window: _build_window_samples,              *)
(* _iter_effective_power_intervals and the hold time that limits how long  *)
(* one reading counts.  Times are whole units, and energy is power times   *)
(* units of time.                                                          *)
(*                                                                         *)
(* A list of samples that is sorted and free of duplicates is a function   *)
(* from its times to powers.                                               *)
(***************************************************************************)
EXTENDS Integers, Sequences, FiniteSetsExt

CONSTANTS
    Hour,     \* units of time in an hour
    Day,      \* units of time in a day
    MinHold,  \* 300 s, the shortest hold time
    MaxHold,  \* 900 s, the longest
    HoldFactor, \* 5, expected intervals in a hold time
    Null      \* None

ASSUME HourAssumption == Hour \in Nat \ {0} /\ Day \in Nat \ {0}
ASSUME HoldAssumption ==
    /\ MinHold \in Nat \ {0} /\ MaxHold \in Nat /\ MinHold <= MaxHold
    /\ HoldFactor \in Nat \ {0}

HourOf(t) == (t \div Hour) * Hour
DateOf(t) == t \div Day

(***************************************************************************)
(* _resolve_sample_hold_seconds: a few expected intervals, within limits.  *)
(* Null lets a reading count until the next one.                           *)
(***************************************************************************)
HoldSeconds(expected) ==
    IF expected = Null THEN Null
    ELSE IF expected <= 0 THEN Null
    ELSE Min({Max({HoldFactor * expected, MinHold}), MaxHold})

(***************************************************************************)
(* _is_sample_fresh_for_boundary.                                          *)
(***************************************************************************)

(* A bug: a reading of any age is carried.                                  *)
AnyAge(ts, boundary, hold) == TRUE

IsFresh(ts, boundary, hold) ==
    IF hold = Null THEN TRUE ELSE boundary - ts <= hold

(***************************************************************************)
(* The readings of the window; of two at one time the later in the list    *)
(* stays.                                                                  *)
(***************************************************************************)
Readings(raw, start, end) ==
    [t \in {raw[i].ts : i \in DOMAIN raw} \cap (start..end) |->
        raw[Max({i \in DOMAIN raw : raw[i].ts = t})].power]

(***************************************************************************)
(* The last reading before the window stands at its start, if it is fresh, *)
(* unless the window has one there.                                        *)
(***************************************************************************)
CarryIn(points, previous, start, hold) ==
    IF previous = Null THEN points
    ELSE IF IsFresh(previous.ts, start, hold) /\ start \notin DOMAIN points
    THEN [t \in DOMAIN points \cup {start} |->
            IF t = start THEN previous.power ELSE points[t]]
    ELSE points

(***************************************************************************)
(* The last sample is held for the hold time, or to the end of the window. *)
(***************************************************************************)
CarryOut(points, end, hold) ==
    LET last == Max(DOMAIN points)
        until == IF hold = Null THEN end ELSE Min({end, last + hold})
    IN  IF DOMAIN points = {} THEN points
        ELSE IF until <= last THEN points
        ELSE [t \in DOMAIN points \cup {until} |->
                IF t = until THEN points[last] ELSE points[t]]

(***************************************************************************)
(* _build_window_samples.                                                  *)
(***************************************************************************)
WindowSamples(raw, previous, start, end, hold) ==
    CarryOut(CarryIn(Readings(raw, start, end), previous, start, hold),
             end, hold)

(***************************************************************************)
(* get_last_power_sample_before: the latest reading before the window.     *)
(***************************************************************************)
LastBefore(raw, start) ==
    LET before == {i \in DOMAIN raw : raw[i].ts < start}
    IN  IF before = {} THEN Null
        ELSE raw[Max({i \in before : \A j \in before : raw[j].ts <= raw[i].ts})]

(* A bug: the last reading of the night is carried into the day.            *)
AnyDate(previous, start) == previous

(***************************************************************************)
(* _build_day_power_samples: the reading before the window is dropped      *)
(* unless it is of the same date.                                          *)
(***************************************************************************)
SameDate(previous, start) ==
    IF previous = Null THEN Null
    ELSE IF DateOf(previous.ts) # DateOf(start) THEN Null
    ELSE previous

DaySamples(raw, start, end, hold) ==
    WindowSamples(raw, SameDate(LastBefore(raw, start), start), start, end, hold)

(***************************************************************************)
(* _iter_effective_power_intervals: from each sample to the next one, at   *)
(* most the hold time.                                                     *)
(***************************************************************************)
IntervalFrom(samples, t, hold) ==
    LET right == Min({u \in DOMAIN samples : t < u})
    IN  [from |-> t, power |-> samples[t],
         to |-> IF hold = Null THEN right ELSE Min({right, t + hold})]

Intervals(samples, hold) ==
    {IntervalFrom(samples, t, hold) :
        t \in {s \in DOMAIN samples : \E u \in DOMAIN samples : s < u}}

(***************************************************************************)
(* EnergyCalculationService.integrate_hourly, as the routes use it: the    *)
(* intervals are split at the hours they cross, and each hour they touch   *)
(* has the sum of its parts.                                               *)
(***************************************************************************)
LaterOf(a, b) == IF a < b THEN b ELSE a
EarlierOf(a, b) == IF a < b THEN a ELSE b

Overlap(i, h) ==
    LaterOf(0, EarlierOf(i.to, h + Hour) - LaterOf(i.from, h))

IntegrateHourly(intervals) ==
    LET hours == UNION {{HourOf(t) : t \in i.from..(i.to - 1)} : i \in intervals}
    IN  [h \in hours |->
            SumFunction([i \in intervals |-> i.power * Overlap(i, h)])]
=============================================================================
