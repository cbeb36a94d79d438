---------------------------- MODULE DayReports ----------------------------
(***************************************************************************)
(* The other reports of a day of app/api/routes/provider_measurements.py:  *)
(* energy and power (list_provider_energy, list_provider_power), one       *)
(* metric (get_provider_metric_series), and the metrics and the price that *)
(* the telemetry report shows beside the energy (get_provider_telemetry).  *)
(*                                                                         *)
(* Each report asks the database several times.  Between two questions,    *)
(* pollers save readings and metrics and define metrics, and an importer   *)
(* publishes and corrects market prices.                                   *)
(*                                                                         *)
(* A metric's values are listed in the order the repository returns them   *)
(* and, for an hourly one, handed to integrate_hourly as they are; both    *)
(* are of smart_common.  Here a series says which values it was made of.   *)
(***************************************************************************)
EXTENDS PowerWindow, SequencesExt

CONSTANTS
    Providers,    \* [kind, expected, storage, meter], or Null for none found
    Requests,     \* [route, date, now, key]: what is asked, and when
    Keys,         \* keys of metrics
    Definitions,  \* [unit, mode] that a poller may define for a metric
    Readings0,    \* [ts, power]: readings a poller may save, power Null for none
    Samples0,     \* [ts, power]: values of a metric that it may save
    Prices,       \* [from, to, price]: market entries that may be published
    MaxSaves      \* bound: saves of any kind

ASSUME ReportKeys == {"battery_soc", "grid_power"} \subseteq Keys
ASSUME SavesBound == MaxSaves \in Nat
ASSUME WholeHours == Day % Hour = 0
ASSUME ReportAssumption ==
    /\ \A p \in Providers : p = Null \/ p.expected = Null \/ p.expected \in Int
    /\ \A q \in Requests :
        /\ q.now \in Int /\ (q.date = Null \/ q.date \in Int)
        /\ q.route \in {"energy", "power", "telemetry", "metric"} /\ q.key \in Keys
    /\ \A r \in Readings0 : r.ts \in Int /\ (r.power = Null \/ r.power \in Int)
    /\ \A s \in Samples0 : s.ts \in Int /\ s.power \in Int
ASSUME DefinitionAssumption ==
    Null \notin Definitions /\ \A d \in Definitions : d.mode \in {"raw", "hourly"}
ASSUME PriceAssumption ==
    Null \notin Prices /\ \A e \in Prices : e.from \in Int /\ e.to \in Int /\ e.from < e.to

VARIABLES
    request, provider,
    readings,  \* readings of the provider, in the order they were saved
    metrics,   \* values of each metric, in the order they were saved
    defined,   \* stored definition of each metric, or Null
    prices,    \* the market entries
    saves,     \* number of saves
    pc, window,
    hours,     \* energy by hour, until the entries are read
    days,      \* answer: the entries and the hours of each date
    todo,      \* definitions whose series is not built yet
    series,    \* answer: the series built
    shown,     \* answer: the market entry shown, or Null
    history,   \* answer: the market entries of the day
    early,     \* history: of each metric, when they were listed, the values
               \* there were and the stored definition
    republished \* history: prices were saved since the report asked for one

table == <<readings, metrics, defined, prices, saves>>
answer == <<hours, days, todo, series, shown, history>>
vars == <<request, provider, table, pc, window, answer, early, republished>>

start == window[1]
end == window[2]
Hold == HoldSeconds(provider.expected)
Empty == [h \in {} |-> 0]

Init ==
    /\ request \in Requests /\ provider \in Providers
    /\ readings = << >> /\ metrics = [k \in Keys |-> << >>]
    /\ defined = [k \in Keys |-> Null] /\ prices = {} /\ saves = 0
    /\ pc = "idle" /\ window = <<0, 0>>
    /\ hours = Empty /\ days = Empty /\ todo = {} /\ series = {}
    /\ shown = Null /\ history = {}
    /\ early = [k \in Keys |-> [values |-> 0, definition |-> Null]]
    /\ republished = FALSE

-----------------------------------------------------------------------------
(* Pollers and the importer.  What they save matters to a report while it  *)
(* has questions of that kind left.                                        *)

SaveReading(r) ==
    /\ pc \in {"samples", "measurements"}
    /\ readings' = Append(readings, r)
    /\ UNCHANGED <<metrics, defined, prices, republished>>

Asks(k) ==
    /\ pc \in {"definitions", "series"}
    /\ request.route = "telemetry" \/ request.key = k

SaveMetric(k, s) ==
    /\ Asks(k)
    /\ metrics' = [metrics EXCEPT ![k] = Append(@, s)]
    /\ UNCHANGED <<readings, defined, prices, republished>>

(* A new metric is defined, or the definition of one is replaced.           *)
DefineMetric(k, d) ==
    /\ Asks(k) /\ defined[k] # d
    /\ defined' = [defined EXCEPT ![k] = d]
    /\ UNCHANGED <<readings, metrics, prices, republished>>

(* A price of an interval that has one replaces it.                         *)
Publish(e) ==
    /\ pc \in {"active", "latest", "history"}
    /\ prices' = {p \in prices : p.from # e.from} \cup {e}
    /\ republished' = TRUE
    /\ UNCHANGED <<readings, metrics, defined>>

World ==
    /\ saves < MaxSaves
    /\ \/ \E r \in Readings0 : SaveReading(r)
       \/ \E k \in Keys, s \in Samples0 : SaveMetric(k, s)
       \/ \E k \in Keys, d \in Definitions : DefineMetric(k, d)
       \/ \E e \in Prices : Publish(e)
    /\ saves' = saves + 1
    /\ UNCHANGED <<request, provider, pc, window, answer, early>>

-----------------------------------------------------------------------------
(* A day ends a unit of time before the next begins, today ends now.        *)

(* A bug: midnight belongs to both days.                                    *)
DayToMidnight(date, now) ==
    LET day == IF date = Null THEN DateOf(now) ELSE date
    IN  IF day = DateOf(now) THEN <<day * Day, now>> ELSE <<day * Day, (day + 1) * Day>>

(***************************************************************************)
(* _resolve_day_window.                                                    *)
(***************************************************************************)
DayWindow(date, now) ==
    LET day == IF date = Null THEN DateOf(now) ELSE date
    IN  <<day * Day, IF day = DateOf(now) THEN now ELSE (day + 1) * Day - 1>>

(* 404 without a provider; only POWER providers have raw power (422).       *)
Served ==
    /\ provider # Null
    /\ request.route = "power" => provider.kind = "power"

Reject ==
    /\ pc = "idle" /\ ~Served
    /\ pc' = "rejected"
    /\ UNCHANGED <<window, answer, early, republished>>

Open ==
    /\ pc = "idle" /\ Served
    /\ window' = DayWindow(request.date, request.now)
    /\ pc' = IF request.route \in {"energy", "power"} THEN "samples" ELSE "definitions"
    /\ UNCHANGED <<answer, early, republished>>

-----------------------------------------------------------------------------
(* Power and energy.                                                       *)

(* A bug: the first instant of the window is left out.                      *)
InDayAfter(r) == start < r.ts /\ r.ts <= end

InDay(r) == start <= r.ts /\ r.ts <= end

WithPower(r) == r.power # Null

(* list_power_samples: the readings with a power.                           *)
Powered == Restrict(readings, {i \in DOMAIN readings : WithPower(readings[i])})

(* The day of the window is there even when nothing falls on it.            *)
ByDay(entries, hourly) ==
    LET dates == {DateOf(start)} \cup {DateOf(readings[i].ts) : i \in entries}
                    \cup {DateOf(h) : h \in DOMAIN hourly}
    IN  [d \in dates |->
            [entries |-> {i \in entries : DateOf(readings[i].ts) = d},
             hours |-> {h \in DOMAIN hourly : DateOf(h) = d}]]

ListPower ==
    /\ pc = "samples" /\ request.route = "power"
    /\ days' = ByDay({i \in DOMAIN readings : InDay(readings[i]) /\ WithPower(readings[i])},
                    Empty)
    /\ pc' = "done"
    /\ UNCHANGED <<window, hours, todo, series, shown, history, early, republished>>

IntegrateEnergy ==
    /\ pc = "samples" /\ request.route = "energy"
    /\ hours' = IntegrateHourly(Intervals(
            DaySamples(Powered, start, end, Hold), Hold))
    /\ pc' = "measurements"
    /\ UNCHANGED <<window, days, todo, series, shown, history, early, republished>>

ListMeasurements ==
    /\ pc = "measurements"
    /\ days' = ByDay({i \in DOMAIN readings : InDay(readings[i])}, hours)
    /\ pc' = "done"
    /\ UNCHANGED <<window, hours, todo, series, shown, history, early, republished>>

-----------------------------------------------------------------------------
(* Metrics.                                                                *)

(* The metrics a provider has by its equipment, stored or not.              *)
Synthetic(k) ==
    IF k = "battery_soc" THEN [unit |-> "%", mode |-> "raw"]
    ELSE [unit |-> "W", mode |-> "hourly"]

Equipped(k) ==
    \/ provider.storage /\ k = "battery_soc"
    \/ provider.meter /\ k = "grid_power"

(* A bug: only what a poller has stored is listed.                          *)
StoredDefinitions ==
    {[key |-> k, definition |-> defined[k]] : k \in {x \in Keys : defined[x] # Null}}

(***************************************************************************)
(* _list_metric_definitions_for_provider.                                  *)
(***************************************************************************)
MetricDefinitions ==
    LET stored == {k \in Keys : defined[k] # Null}
    IN  {[key |-> k, definition |-> defined[k]] : k \in stored}
        \cup {[key |-> k, definition |-> Synthetic(k)] :
                k \in {x \in Keys \ stored : Equipped(x)}}

(***************************************************************************)
(* _get_metric_definition_for_provider: none, or the one of the key.       *)
(***************************************************************************)
MetricDefinition(k) ==
    IF defined[k] # Null THEN {[key |-> k, definition |-> defined[k]]}
    ELSE IF Equipped(k) THEN {[key |-> k, definition |-> Synthetic(k)]}
    ELSE {}

Listed == [k \in Keys |-> [values |-> Len(metrics[k]), definition |-> defined[k]]]

ListDefinitions ==
    /\ pc = "definitions" /\ request.route = "telemetry"
    /\ todo' = MetricDefinitions
    /\ early' = Listed
    /\ pc' = "series"
    /\ UNCHANGED <<window, hours, days, series, shown, history, republished>>

GetDefinition ==
    /\ pc = "definitions" /\ request.route = "metric"
    /\ todo' = MetricDefinition(request.key)
    /\ early' = Listed
    /\ pc' = IF todo' = {} THEN "rejected" ELSE "series"
    /\ UNCHANGED <<window, hours, days, series, shown, history, republished>>

(* A bug: energy is given in the unit of power.                             *)
EnergyUnitKept(unit) == unit

(* _energy_unit_from_unit: other units stay.                                *)
EnergyUnitOf(unit) ==
    CASE unit = "kW" -> "kWh" [] unit = "W" -> "Wh" [] OTHER -> unit

(***************************************************************************)
(* _build_metric_series: of the values of the window, as they are or as    *)
(* their integral by hour.                                                 *)
(***************************************************************************)
MetricSeries(k, definition) ==
    [key |-> k, mode |-> definition.mode, seen |-> Len(metrics[k]),
     unit |-> IF definition.mode = "raw" THEN definition.unit
              ELSE EnergyUnitOf(definition.unit),
     values |-> {i \in DOMAIN metrics[k] : InDay(metrics[k][i])}]

BuildSeries ==
    /\ pc = "series"
    /\ \E d \in todo :
        /\ series' = series \cup {MetricSeries(d.key, d.definition)}
        /\ todo' = todo \ {d}
    /\ UNCHANGED <<pc, window, hours, days, shown, history, early, republished>>

AllSeries ==
    /\ pc = "series" /\ todo = {}
    /\ pc' = IF request.route = "metric" THEN "done" ELSE "active"
    /\ UNCHANGED <<window, answer, early, republished>>

-----------------------------------------------------------------------------
(* The price: the entry in force at the end of the window, or the latest   *)
(* before it, and the entries of the whole day.                            *)
(* _build_market_price_context, called for the settlement prices and for   *)
(* the forecast; here for one of them.                                     *)

GetActive ==
    /\ pc = "active"
    /\ LET active == {e \in prices : e.from <= end /\ end < e.to}
       IN  \/ active # {} /\ shown' \in active /\ pc' = "history"
           \/ active = {} /\ shown' = Null /\ pc' = "latest"
    /\ republished' = FALSE
    /\ UNCHANGED <<window, hours, days, todo, series, history, early>>

GetLatest ==
    /\ pc = "latest"
    /\ LET before == {e \in prices : e.from < end}
       IN  \/ /\ before # {} /\ pc' = "history"
              /\ shown' \in {e \in before : \A f \in before : f.from <= e.from}
           \/ before = {} /\ shown' = Null /\ pc' = "done"
    /\ UNCHANGED <<window, hours, days, todo, series, history, early, republished>>

(* A bug: the history ends where the report does.                           *)
HistoryToEnd == end

(* list_between takes a half-open range, so that the day is taken whole.    *)
HistoryEnd == start + Day - 1 + 1

ListHistory ==
    /\ pc = "history"
    /\ history' = {e \in prices : start <= e.from /\ e.from < HistoryEnd}
    /\ pc' = "done"
    /\ UNCHANGED <<window, hours, days, todo, series, shown, early, republished>>

Report ==
    /\ \/ Reject \/ Open \/ ListPower \/ IntegrateEnergy \/ ListMeasurements
       \/ ListDefinitions \/ GetDefinition \/ BuildSeries \/ AllSeries
       \/ GetActive \/ GetLatest \/ ListHistory
    /\ UNCHANGED <<request, provider, table>>

Next == World \/ Report

Spec == Init /\ [][Next]_vars
-----------------------------------------------------------------------------
(* Properties.                                                             *)

TypeOK ==
    /\ request \in Requests /\ provider \in Providers
    /\ readings \in Seq(Readings0) /\ metrics \in [Keys -> Seq(Samples0)]
    /\ defined \in [Keys -> Definitions \cup {Null}] /\ prices \subseteq Prices
    /\ saves \in 0..MaxSaves
    /\ window \in Int \X Int
    /\ \A s \in series :
        /\ s.key \in Keys /\ s.mode \in {"raw", "hourly"} /\ s.seen \in 0..MaxSaves
        /\ s.values \subseteq 1..s.seen
        /\ s.mode = "hourly" => s.unit \notin {"W", "kW"}
    /\ shown \in Prices \cup {Null} /\ history \subseteq Prices

(***************************************************************************)
(* A report of a day has one day: no entry and no hour falls on another    *)
(* date, whatever date is asked for and however near midnight the readings *)
(* are, so that telemetry finds its day in the energy series.              *)
(***************************************************************************)
OneDay ==
    (pc = "done" /\ request.route \in {"energy", "power"}) =>
        DOMAIN days = {DateOf(start)}

(***************************************************************************)
(* Every hour with energy has an entry that explains it: a reading with a  *)
(* power in that hour or before, and not older than the hold time,         *)
(* although hours and entries come from two queries                        *)
(* (_build_provider_energy_series).                                        *)
(***************************************************************************)
HoursExplained ==
    (pc = "done" /\ request.route = "energy") =>
        \A h \in DOMAIN hours : \E i \in days[DateOf(h)].entries :
            /\ WithPower(readings[i]) /\ readings[i].ts < h + Hour
            /\ Hold # Null => h - readings[i].ts < Hold

(***************************************************************************)
(* A report has one series, and only one, of each metric that was stored   *)
(* or that the provider had by its equipment when the metrics were listed, *)
(* or of the one asked for, and of no other metric; in the way its stored  *)
(* definition said then, which goes before that of the equipment; and of   *)
(* every value of the window that was saved by then, whatever is saved or  *)
(* defined while the series are built one by one.                          *)
(***************************************************************************)
Wanted(k) ==
    /\ early[k].definition # Null \/ Equipped(k)
    /\ request.route = "telemetry" \/ request.key = k

SeriesComplete ==
    (pc = "done" /\ request.route \in {"telemetry", "metric"}) =>
        /\ \A s, t \in series : s.key = t.key => s = t
        /\ {s.key : s \in series} = {k \in Keys : Wanted(k)}
        /\ \A s \in series :
            /\ early[s.key].definition # Null => s.mode = early[s.key].definition.mode
            /\ \A i \in 1..early[s.key].values :
                  metrics[s.key][i].ts \in start..end => i \in s.values

(***************************************************************************)
(* The price shown is in force at the end of the report's window or, when  *)
(* none is, the latest that began before; if it began on the day, its      *)
(* interval is in the history, also when prices are published between the  *)
(* questions; and with none published the entry itself is.                 *)
(***************************************************************************)
PriceShown ==
    (pc = "done" /\ request.route = "telemetry") =>
        /\ shown # Null =>
              /\ shown.from <= end
              /\ shown.from \in start..end =>
                    \E e \in history : e.from = shown.from
        /\ ~republished =>
              /\ shown = Null <=> \A e \in prices : e.from > end
              /\ shown # Null /\ shown.from \in start..end => shown \in history
              /\ \A e \in prices : e.from <= end =>
                    e.from <= shown.from \/ end < shown.to
===========================================================================
