-------------------------- MODULE DayReportsProofs --------------------------
(***************************************************************************)
(* Theorems about DayReports, for every provider, request, reading, metric *)
(* and price, and any number of saves between the questions of a report.   *)
(***************************************************************************)
EXTENDS DayReports, PowerWindowProofs

(***************************************************************************)
(* The window lies in one date, and so does every hour of it.              *)
(***************************************************************************)
IsDay(w) ==
    /\ w \in Int \X Int /\ w[1] % Day = 0 /\ w[2] < w[1] + Day
    /\ \A t \in w[1]..w[2] :
        /\ DateOf(t) = DateOf(w[1])
        /\ w[1] <= HourOf(t) /\ DateOf(HourOf(t)) = DateOf(w[1])

LEMMA DateOfTime ==
    ASSUME NEW d \in Int, NEW t \in Int, d * Day <= t, t < d * Day + Day
    PROVE  DateOf(t) = d
<1>1. Day \in Int /\ Day > 0
  BY HourAssumption
<1>2. PICK q \in Int : q = t \div Day
  BY <1>1
<1>3. q * Day <= t /\ t < q * Day + Day
  BY <1>1, <1>2
<1>4. q * Day < (d + 1) * Day /\ d * Day < (q + 1) * Day
  BY <1>1, <1>3
<1>5. q < d + 1 /\ d < q + 1
  BY <1>1, <1>4
<1> QED
  BY <1>2, <1>5 DEF DateOf

LEMMA HourAfterMidnight ==
    ASSUME NEW d \in Int, NEW t \in Int, d * Day <= t
    PROVE  d * Day <= HourOf(t)
<1>1. Hour \in Int /\ Hour > 0 /\ Day \in Int /\ Day > 0 /\ Day % Hour = 0
  BY HourAssumption, WholeHours
<1>2. PICK m \in Int : Day = m * Hour
  <2>1. Day = Hour * (Day \div Hour) /\ Day \div Hour \in Int
    BY <1>1
  <2> QED
    BY <1>1, <2>1
<1>3. PICK n \in Int : n = d * m
  OBVIOUS
<1>4. d * Day = n * Hour
  BY <1>1, <1>2, <1>3
<1>5. PICK q \in Int : q = t \div Hour
  BY <1>1
<1>6. q * Hour <= t /\ t < (q + 1) * Hour /\ HourOf(t) = q * Hour
  BY <1>1, <1>5 DEF HourOf
<1>7. n * Hour < (q + 1) * Hour
  BY <1>1, <1>4, <1>6
<1>8. n < q + 1
  BY <1>1, <1>7
<1>9. n * Hour <= q * Hour
  BY <1>1, <1>8
<1> QED
  BY <1>4, <1>6, <1>9

LEMMA DayIs ==
    ASSUME NEW d \in Int, NEW e \in Int, e < d * Day + Day
    PROVE  IsDay(<<d * Day, e>>)
<1>1. Day \in Int /\ Day > 0
  BY HourAssumption
<1>2. PICK a \in Int : a = d * Day
  BY <1>1
<1>3. a % Day = 0
  BY <1>1, <1>2
<1>4. DateOf(a) = d
  BY <1>1, <1>2, DateOfTime
<1>5. ASSUME NEW t \in a..e
      PROVE  /\ DateOf(t) = DateOf(a)
             /\ a <= HourOf(t) /\ DateOf(HourOf(t)) = DateOf(a)
  <2>1. t \in Int /\ a <= t /\ t < a + Day
    BY <1>1, <1>2
  <2>2. DateOf(t) = d
    BY <1>2, <2>1, DateOfTime
  <2>3. a <= HourOf(t) /\ HourOf(t) \in Int /\ HourOf(t) <= t
    BY <1>2, <2>1, HourAfterMidnight, HourOfTime
  <2>4. PICK h \in Int : h = HourOf(t)
    BY <2>3
  <2>5. DateOf(h) = d
    BY <1>1, <1>2, <2>1, <2>3, <2>4, DateOfTime
  <2> QED
    BY <1>4, <2>2, <2>3, <2>4, <2>5
<1>6. PICK w : w = <<a, e>>
  OBVIOUS
<1>7. w \in Int \X Int /\ w[1] = a /\ w[2] = e
  BY <1>6
<1>8. IsDay(w)
  BY <1>2, <1>3, <1>5, <1>7 DEF IsDay
<1> QED
  BY <1>2, <1>6, <1>8

(* _resolve_day_window gives such a window.                                 *)
LEMMA WindowIs ==
    ASSUME NEW q \in Requests PROVE IsDay(DayWindow(q.date, q.now))
<1>1. q.now \in Int /\ (q.date = Null \/ q.date \in Int)
  BY ReportAssumption
<1>2. Day \in Int /\ Day > 0
  BY HourAssumption
<1>3. PICK n \in Int : n = DateOf(q.now)
  BY <1>1, <1>2 DEF DateOf
<1>4. q.now < n * Day + Day
  BY <1>1, <1>2, <1>3 DEF DateOf
<1>5. PICK d : d = IF q.date = Null THEN DateOf(q.now) ELSE q.date
  OBVIOUS
<1>6. d \in Int
  BY <1>1, <1>3, <1>5
<1>7. PICK e : e = IF d = DateOf(q.now) THEN q.now ELSE (d + 1) * Day - 1
  OBVIOUS
<1>8. e \in Int /\ e < d * Day + Day
  BY <1>1, <1>2, <1>3, <1>4, <1>6, <1>7
<1>9. DayWindow(q.date, q.now) = <<d * Day, e>>
  BY <1>5, <1>7, Zenon DEF DayWindow
<1> QED
  BY <1>6, <1>8, <1>9, DayIs

-----------------------------------------------------------------------------
(* What each invariant says, as functions of what the state holds.          *)

Routes ==
    /\ pc \in {"samples", "measurements"} => request.route \in {"energy", "power"}
    /\ pc = "measurements" => request.route = "energy"
    /\ pc \in {"definitions", "series"} => request.route \in {"telemetry", "metric"}
    /\ pc \in {"active", "latest", "history"} => request.route = "telemetry"
    /\ pc \notin {"idle", "rejected"} => provider # Null

BaseInv ==
    /\ request \in Requests /\ provider \in Providers
    /\ readings \in Seq(Readings0) /\ metrics \in [Keys -> Seq(Samples0)]
    /\ defined \in [Keys -> Definitions \cup {Null}] /\ prices \subseteq Prices
    /\ saves \in 0..MaxSaves /\ \A k \in Keys : Len(metrics[k]) <= saves
    /\ IsDay(window)
    /\ Routes

(* The hours are explained by readings in the window.                       *)
Explains(r, h, w, hold) ==
    /\ w[1] <= r.ts /\ r.ts <= w[2] /\ WithPower(r) /\ r.ts < h + Hour
    /\ hold # Null => h - r.ts < hold

HourIn(h, w) == h \in Int /\ \E t \in w[1]..w[2] : HourOf(t) = h

EnergyInv ==
    pc \in {"measurements", "done"} /\ request.route = "energy" =>
        \A h \in DOMAIN hours :
            /\ HourIn(h, window)
            /\ \E i \in DOMAIN readings : Explains(readings[i], h, window, Hold)

DaysInv ==
    pc = "done" =>
        /\ request.route = "energy" =>
            days = ByDay({i \in DOMAIN readings : InDay(readings[i])}, hours)
        /\ request.route = "power" =>
            days = ByDay({i \in DOMAIN readings : InDay(readings[i]) /\ WithPower(readings[i])},
                         Empty)

(* A series is built from the values that were seen.                        *)
SeenIn(raw, n, w) == {i \in 1..n : w[1] <= raw[i].ts /\ raw[i].ts <= w[2]}

BuiltFrom(s, raw, w) ==
    /\ s.seen \in Nat /\ s.seen <= Len(raw)
    /\ s.mode = "raw" \/ s.mode = "hourly"
    /\ s.mode = "hourly" => s.unit # "W" /\ s.unit # "kW"
    /\ s.values = SeenIn(raw, s.seen, w)

SeriesInv ==
    /\ pc \in {"idle", "samples", "measurements", "definitions"} =>
        series = {} /\ todo = {}
    /\ \A d \in todo : d.key \in Keys /\ d.definition.mode \in {"raw", "hourly"}
    /\ \A s \in series : s.key \in Keys /\ BuiltFrom(s, metrics[s.key], window)

(* The stored definition says the mode.                                     *)
Stands(was, mode) == was.definition # Null => mode = was.definition.mode

(* Each metric wanted is built or still to be built, once, as it was listed *)
(* and with every value saved before.                                       *)
ListInv ==
    /\ \A d, e \in todo : d.key = e.key => d = e
    /\ \A s, t \in series : s.key = t.key => s = t
    /\ \A d \in todo, s \in series : d.key # s.key
    /\ \A k \in Keys : early[k].values \in Nat /\ early[k].values <= Len(metrics[k])
    /\ \A d \in todo : Stands(early[d.key], d.definition.mode)
    /\ \A s \in series : Stands(early[s.key], s.mode) /\ early[s.key].values <= s.seen
    /\ pc \in {"active", "latest", "history", "done"} => todo = {}
    /\ (/\ request.route \in {"telemetry", "metric"}
        /\ pc \in {"series", "active", "latest", "history", "done"}) =>
           {d.key : d \in todo} \cup {s.key : s \in series} = {k \in Keys : Wanted(k)}

(* The price.                                                               *)
IsShown(e, ps, w, fresh) ==
    /\ e # Null /\ e.from <= w[2] /\ \E p \in ps : p.from = e.from
    /\ fresh => e \in ps /\ \A p \in ps : p.from <= w[2] => p.from <= e.from \/ w[2] < e.to

PriceInv ==
    /\ shown \in Prices \cup {Null} /\ history \subseteq Prices
    /\ pc = "latest" =>
        /\ shown = Null
        /\ ~republished => \A e \in prices : e.from > end \/ e.to <= end
    /\ pc = "history" => IsShown(shown, prices, window, ~republished)
    /\ pc = "done" /\ request.route = "telemetry" =>
        \/ shown = Null /\ (~republished => \A e \in prices : e.from > end)
        \/ /\ IsShown(shown, prices, window, ~republished)
           /\ history = {e \in prices : start <= e.from /\ e.from < HistoryEnd}

-----------------------------------------------------------------------------
(* Types, windows and routes.                                               *)

LEMMA AppendKeeps ==
    ASSUME NEW S, NEW raw \in Seq(S), NEW x \in S
    PROVE  /\ Append(raw, x) \in Seq(S) /\ Len(Append(raw, x)) = Len(raw) + 1
           /\ \A i \in 1..Len(raw) : Append(raw, x)[i] = raw[i]
OBVIOUS

(* What a save does to the values of the metrics.                           *)
LEMMA MetricSaved ==
    ASSUME NEW old \in [Keys -> Seq(Samples0)], NEW new, NEW k \in Keys, NEW x \in Samples0,
           new = [old EXCEPT ![k] = Append(@, x)]
    PROVE  /\ new \in [Keys -> Seq(Samples0)]
           /\ \A l \in Keys : Len(old[l]) <= Len(new[l]) /\ Len(new[l]) <= Len(old[l]) + 1
           /\ \A l \in Keys : \A i \in 1..Len(old[l]) : new[l][i] = old[l][i]
<1>1. PICK raw \in Seq(Samples0) : raw = old[k]
  OBVIOUS
<1>2. new[k] = Append(raw, x) /\ \A l \in Keys \ {k} : new[l] = old[l]
  BY <1>1
<1>3. /\ Append(raw, x) \in Seq(Samples0) /\ Len(Append(raw, x)) = Len(raw) + 1
      /\ \A i \in 1..Len(raw) : Append(raw, x)[i] = raw[i]
  BY AppendKeeps
<1>4. \A l \in Keys : old[l] \in Seq(Samples0) /\ Len(old[l]) \in Nat
  OBVIOUS
<1>5. new \in [Keys -> Seq(Samples0)]
  BY <1>3
<1>6. ASSUME NEW l \in Keys
      PROVE  /\ Len(old[l]) <= Len(new[l]) /\ Len(new[l]) <= Len(old[l]) + 1
             /\ \A i \in 1..Len(old[l]) : new[l][i] = old[l][i]
  <2>1. CASE l = k
    BY <1>1, <1>2, <1>3, <1>4, <2>1
  <2>2. CASE l # k
    <3>1. new[l] = old[l] /\ Len(old[l]) \in Nat
      BY <1>2, <1>4, <2>2
    <3> QED
      BY <3>1
  <2> QED
    BY <2>1, <2>2
<1> QED
  BY <1>5, <1>6

(* A step of the world: what is saved stays, and one thing is added.        *)
LEMMA WorldKeeps ==
    ASSUME BaseInv, World
    PROVE  /\ readings' \in Seq(Readings0) /\ metrics' \in [Keys -> Seq(Samples0)]
           /\ defined' \in [Keys -> Definitions \cup {Null}] /\ prices' \subseteq Prices
           /\ Len(readings) <= Len(readings')
           /\ \A i \in 1..Len(readings) : readings'[i] = readings[i]
           /\ \A k \in Keys : Len(metrics[k]) <= Len(metrics'[k])
           /\ \A k \in Keys : Len(metrics'[k]) <= Len(metrics[k]) + 1
           /\ \A k \in Keys : \A i \in 1..Len(metrics[k]) : metrics'[k][i] = metrics[k][i]
<1> USE DEF BaseInv
<1>0. Len(readings) \in Nat /\ \A k \in Keys : metrics[k] \in Seq(Samples0) /\ Len(metrics[k]) \in Nat
  OBVIOUS
<1>1. CASE \E r \in Readings0 : SaveReading(r)
  <2>1. PICK r \in Readings0 : SaveReading(r)
    BY <1>1
  <2>2. readings' = Append(readings, r) /\ UNCHANGED <<metrics, defined, prices>>
    BY <2>1 DEF SaveReading
  <2>3. /\ Append(readings, r) \in Seq(Readings0) /\ Len(Append(readings, r)) = Len(readings) + 1
        /\ \A i \in 1..Len(readings) : Append(readings, r)[i] = readings[i]
    BY AppendKeeps
  <2> QED
    BY <1>0, <2>2, <2>3
<1>2. CASE \E k \in Keys, s \in Samples0 : SaveMetric(k, s)
  <2>1. PICK k \in Keys, s \in Samples0 : SaveMetric(k, s)
    BY <1>2
  <2>2. metrics' = [metrics EXCEPT ![k] = Append(@, s)] /\ UNCHANGED <<readings, defined, prices>>
    BY <2>1 DEF SaveMetric
  <2>3. /\ metrics' \in [Keys -> Seq(Samples0)]
        /\ \A l \in Keys : Len(metrics[l]) <= Len(metrics'[l])
        /\ \A l \in Keys : Len(metrics'[l]) <= Len(metrics[l]) + 1
        /\ \A l \in Keys : \A i \in 1..Len(metrics[l]) : metrics'[l][i] = metrics[l][i]
    BY <2>2, MetricSaved
  <2> QED
    BY <1>0, <2>2, <2>3
<1>3. CASE \E k \in Keys, d \in Definitions : DefineMetric(k, d)
  BY <1>0, <1>3 DEF DefineMetric
<1>4. CASE \E e \in Prices : Publish(e)
  BY <1>0, <1>4 DEF Publish
<1> QED
  BY <1>1, <1>2, <1>3, <1>4 DEF World

LEMMA WorldRests ==
    ASSUME World
    PROVE  /\ UNCHANGED <<request, provider, pc, window, hours, days, todo, series, shown,
                         history, early>>
           /\ saves < MaxSaves /\ saves' = saves + 1
           /\ pc \notin {"samples", "measurements"} => readings' = readings
           /\ pc \notin {"definitions", "series"} => metrics' = metrics
           /\ pc \notin {"active", "latest", "history"} =>
                prices' = prices /\ republished' = republished
BY DEF World, answer, SaveReading, SaveMetric, Asks, DefineMetric, Publish

LEMMA BaseInit == Init => BaseInv
<1> SUFFICES ASSUME Init PROVE BaseInv
  OBVIOUS
<1>1. \A k \in Keys : metrics[k] = << >>
  BY DEF Init
<1>2. IsDay(window)
  <2>1. 0 * Day = 0 /\ 0 < 0 * Day + Day
    BY HourAssumption
  <2> QED
    BY <2>1, DayIs DEF Init
<1>3. readings \in Seq(Readings0) /\ metrics \in [Keys -> Seq(Samples0)]
  BY DEF Init
<1>4. \A k \in Keys : Len(metrics[k]) <= saves
  BY <1>1 DEF Init
<1> QED
  BY <1>2, <1>3, <1>4, SavesBound DEF Init, BaseInv, Routes

LEMMA BaseStep == BaseInv /\ [Next]_vars => BaseInv'
<1> SUFFICES ASSUME BaseInv, [Next]_vars PROVE BaseInv'
  OBVIOUS
<1> USE DEF BaseInv
<1>1. CASE World
  <2>1. UNCHANGED <<request, provider, pc, window>> /\ saves' \in 0..MaxSaves
    BY <1>1, WorldRests, SavesBound
  <2>2. \A k \in Keys : Len(metrics'[k]) <= saves'
    <3>1. \A k \in Keys : metrics'[k] \in Seq(Samples0) /\ metrics[k] \in Seq(Samples0)
      BY <1>1, WorldKeeps
    <3>2. \A k \in Keys : Len(metrics'[k]) \in Nat /\ Len(metrics[k]) \in Nat
      BY <3>1
    <3> QED
      BY <1>1, <3>2, WorldKeeps, WorldRests, SavesBound
  <2> QED
    BY <1>1, <2>1, <2>2, WorldKeeps DEF Routes, IsDay
<1>2. CASE Report
  <2>1. UNCHANGED <<request, provider, readings, metrics, defined, prices, saves>>
    BY <1>2 DEF Report, table
  <2>2. IsDay(window)' /\ Routes'
    <3>1. CASE Open
      <4>1. IsDay(DayWindow(request.date, request.now))
        BY WindowIs
      <4>2. IsDay(window')
        BY <3>1, <4>1 DEF Open
      <4>3. request.route \in {"energy", "power", "telemetry", "metric"}
        BY ReportAssumption
      <4> QED
        BY <2>1, <3>1, <4>2, <4>3 DEF Open, Served, Routes, IsDay
    <3>2. CASE Reject
      BY <2>1, <3>2 DEF Reject, Routes, IsDay
    <3>3. CASE ListPower \/ IntegrateEnergy \/ ListMeasurements
      BY <2>1, <3>3 DEF ListPower, IntegrateEnergy, ListMeasurements, Routes, IsDay
    <3>4. CASE ListDefinitions \/ GetDefinition \/ BuildSeries \/ AllSeries
      BY <2>1, <3>4 DEF ListDefinitions, GetDefinition, BuildSeries, AllSeries, Routes, IsDay
    <3>5. CASE GetActive \/ GetLatest \/ ListHistory
      BY <2>1, <3>5 DEF GetActive, GetLatest, ListHistory, Routes, IsDay
    <3> QED
      BY <1>2, <3>1, <3>2, <3>3, <3>4, <3>5 DEF Report
  <2> QED
    BY <2>1, <2>2
<1>3. CASE UNCHANGED vars
  BY <1>3 DEF vars, table, Routes, IsDay
<1> QED
  BY <1>1, <1>2, <1>3 DEF Next

LEMMA BaseHolds == Spec => []BaseInv
<1>1. BaseInv /\ [Next]_vars => BaseInv'
  BY BaseStep
<1> QED
  BY <1>1, BaseInit, PTL DEF Spec

-----------------------------------------------------------------------------
(* The hours of the energy report.                                          *)

(* A list restricted to some of its positions.                              *)
LEMMA RestrictedIs ==
    ASSUME NEW R, \A r \in R : r.ts \in Int, NEW raw \in Seq(R), NEW S \in SUBSET (1..Len(raw))
    PROVE  /\ AreSaved(Restrict(raw, S)) /\ DOMAIN Restrict(raw, S) = S
           /\ \A i \in S : Restrict(raw, S)[i] = raw[i]
<1>1. PICK q : q = Restrict(raw, S)
  OBVIOUS
<1>2. DOMAIN q = S /\ \A i \in S : q[i] = raw[i]
  BY <1>1 DEF Restrict
<1>3. IsFiniteSet(1..Len(raw)) /\ Len(raw) \in Nat
  BY FS_Interval
<1>4. IsFiniteSet(S) /\ S \subseteq Int
  <2>1. IsFiniteSet(S)
    BY <1>3, FS_Subset
  <2>2. S \subseteq Int
    BY <1>3
  <2> QED
    BY <2>1, <2>2
<1>5. \A i \in S : raw[i] \in R
  OBVIOUS
<1>6. AreSaved(q)
  BY <1>2, <1>4, <1>5 DEF AreSaved
<1> QED
  BY <1>1, <1>2, <1>6

LEMMA HoursExplainedBy ==
    ASSUME NEW w, IsDay(w), NEW raw, AreSaved(raw), NEW hold, IsHold(hold),
           NEW f, f = IntegrateHourly(Intervals(DaySamples(raw, w[1], w[2], hold), hold)),
           \A i \in DOMAIN raw : raw[i].power \in Int,
           NEW h \in DOMAIN f
    PROVE  /\ HourIn(h, w)
           /\ \E i \in DOMAIN raw :
                /\ w[1] <= raw[i].ts /\ raw[i].ts <= w[2] /\ raw[i].ts < h + Hour
                /\ hold # Null => h - raw[i].ts < hold
<1>1. PICK a \in Int, b \in Int : a = w[1] /\ b = w[2]
  BY DEF IsDay
<1>2. a % Day = 0
  BY <1>1 DEF IsDay
<1>3. PICK p : p = Readings(raw, a, b)
  OBVIOUS
<1>4. PICK q : q = CarryOut(p, b, hold)
  OBVIOUS
<1>5. DaySamples(raw, a, b, hold) = q
  BY <1>2, <1>3, <1>4, NothingBefore
<1>6. PICK I : I = Intervals(q, hold)
  OBVIOUS
<1>7. f = IntegrateHourly(I)
  BY <1>1, <1>5, <1>6
<1>8. AreReadings(p, raw, a, b)
  BY <1>3, ReadingsAre
<1>9. /\ DOMAIN p \subseteq a..b /\ p = [s \in DOMAIN p |-> p[s]]
      /\ \A s \in DOMAIN p : \E i \in DOMAIN raw : raw[i].ts = s /\ p[s] = raw[i].power
  BY <1>8 DEF AreReadings
<1>10. \A i \in I :
        /\ i.from \in DOMAIN p /\ i.to \in Int /\ i.from < i.to /\ i.to <= b
        /\ i = [from |-> i.from, power |-> p[i.from], to |-> i.to]
        /\ hold # Null => i.to <= i.from + hold
  BY <1>4, <1>6, <1>9, HeldIntervals
<1>11. IsFiniteSet(I)
  <2>1. IsFiniteSet(DOMAIN q)
    BY <1>4, <1>9, HeldDomain
  <2> QED
    BY <1>6, <2>1, IntervalsFinite
<1>12. AreIntervals(I)
  <2>1. ASSUME NEW i \in I PROVE i.from \in Int /\ i.to \in Int /\ i.power \in Int
    <3>1. i.from \in DOMAIN p /\ i.to \in Int /\ i.power = p[i.from]
      BY <1>10
    <3>2. \E k \in DOMAIN raw : p[i.from] = raw[k].power
      BY <1>9, <3>1
    <3> QED
      BY <1>9, <3>1, <3>2
  <2> QED
    BY <1>11, <2>1 DEF AreIntervals
<1>13. PICK i \in I, t \in Int : HourOf(t) = h /\ i.from <= t /\ t < i.to
  BY <1>7, <1>12, HourEnergy
<1>14. /\ i.from \in DOMAIN p /\ i.to \in Int /\ i.to <= b
       /\ hold # Null => i.to <= i.from + hold
  BY <1>10
<1>15. PICK k \in DOMAIN raw : raw[k].ts = i.from
  BY <1>9, <1>14
<1>16. i.from \in a..b /\ i.from \in Int
  BY <1>9, <1>14
<1>17. h \in Int /\ h <= t /\ t < h + Hour /\ Hour \in Int
  BY <1>13, HourOfTime, HourAssumption
<1>18. t \in a..b
  BY <1>13, <1>14, <1>16
<1>19. HourIn(h, w)
  BY <1>1, <1>13, <1>17, <1>18 DEF HourIn
<1>20. a <= raw[k].ts /\ raw[k].ts <= b /\ raw[k].ts < h + Hour
  BY <1>13, <1>15, <1>16, <1>17
<1>21. ASSUME hold # Null PROVE h - raw[k].ts < hold
  <2>1. hold \in Int
    BY <1>21 DEF IsHold
  <2> QED
    BY <1>13, <1>14, <1>15, <1>16, <1>17, <1>21, <2>1
<1> QED
  BY <1>1, <1>19, <1>20, <1>21

LEMMA HoldOf ==
    ASSUME BaseInv, pc \notin {"idle", "rejected"} PROVE IsHold(Hold)
<1>1. provider \in Providers /\ provider # Null
  BY DEF BaseInv, Routes
<1>2. provider.expected = Null \/ provider.expected \in Int
  BY <1>1, ReportAssumption
<1> QED
  BY <1>2, HoldType DEF Hold

LEMMA EnergyBuilt ==
    ASSUME BaseInv, IntegrateEnergy, NEW h \in DOMAIN hours'
    PROVE  /\ HourIn(h, window)
           /\ \E i \in DOMAIN readings : Explains(readings[i], h, window, Hold)
<1>1. pc = "samples" /\ IsDay(window) /\ readings \in Seq(Readings0)
  BY DEF IntegrateEnergy, BaseInv
<1>2. IsHold(Hold)
  BY <1>1, HoldOf
<1>3. PICK S : S = {i \in DOMAIN readings : WithPower(readings[i])}
  OBVIOUS
<1>4. S \in SUBSET (1..Len(readings))
  BY <1>1, <1>3
<1>5. PICK raw : raw = Restrict(readings, S)
  OBVIOUS
<1>6. AreSaved(raw) /\ DOMAIN raw = S /\ \A i \in S : raw[i] = readings[i]
  <2>1. \A r \in Readings0 : r.ts \in Int
    BY ReportAssumption
  <2> QED
    BY <1>1, <1>4, <1>5, <2>1, RestrictedIs
<1>7. PICK hold, w : hold = Hold /\ w = window
  OBVIOUS
<1>8. hours' = IntegrateHourly(Intervals(DaySamples(raw, w[1], w[2], hold), hold))
  BY <1>3, <1>5, <1>7 DEF IntegrateEnergy, Powered, start, end
<1>9. \A i \in DOMAIN raw : raw[i].power \in Int
  <2>1. \A i \in S : readings[i] \in Readings0 /\ readings[i].power # Null
    BY <1>1, <1>3 DEF WithPower
  <2> QED
    BY <1>6, <2>1, ReportAssumption
<1>10. /\ HourIn(h, w)
       /\ \E i \in DOMAIN raw :
            /\ w[1] <= raw[i].ts /\ raw[i].ts <= w[2] /\ raw[i].ts < h + Hour
            /\ hold # Null => h - raw[i].ts < hold
  BY <1>1, <1>2, <1>6, <1>7, <1>8, <1>9, HoursExplainedBy
<1> QED
  BY <1>3, <1>6, <1>7, <1>10 DEF Explains

LEMMA EnergyInit == Init => EnergyInv
BY DEF Init, EnergyInv

LEMMA EnergyStep == BaseInv /\ EnergyInv /\ [Next]_vars => EnergyInv'
<1> SUFFICES ASSUME BaseInv, EnergyInv, [Next]_vars,
                    pc' \in {"measurements", "done"}, request'.route = "energy"
             PROVE  \A h \in DOMAIN hours' :
                      /\ HourIn(h, window')
                      /\ \E i \in DOMAIN readings' : Explains(readings'[i], h, window', Hold')
  BY DEF EnergyInv, HourIn, Explains, WithPower
<1>0. request' = request /\ Hold' = Hold
  BY DEF Next, World, Report, vars, Hold
<1>1. CASE IntegrateEnergy
  <2>1. window' = window /\ readings' = readings
    BY <1>1 DEF IntegrateEnergy, Next, World, Report, vars, table
  <2> QED
    BY <1>0, <1>1, <2>1, EnergyBuilt
<1>2. CASE /\ pc \in {"measurements", "done"}
           /\ UNCHANGED <<window, hours>>
           /\ readings \in Seq(Readings0) /\ readings' \in Seq(Readings0)
           /\ Len(readings) <= Len(readings')
           /\ \A i \in 1..Len(readings) : readings'[i] = readings[i]
  <2>1. \A i \in DOMAIN readings : i \in DOMAIN readings' /\ readings'[i] = readings[i]
    BY <1>2
  <2> QED
    BY <1>0, <1>2, <2>1 DEF EnergyInv
<1>3. readings \in Seq(Readings0)
  BY DEF BaseInv
<1>4. CASE World
  BY <1>2, <1>3, <1>4, WorldKeeps, WorldRests
<1>5. CASE Report
  <2>1. readings' = readings
    BY <1>5 DEF Report, table
  <2>2. CASE ListMeasurements
    BY <1>2, <1>3, <2>1, <2>2 DEF ListMeasurements
  <2>3. CASE Reject \/ Open \/ ListPower \/ ListDefinitions \/ GetDefinition
    BY <1>0, <2>3 DEF Reject, Open, ListPower, ListDefinitions, GetDefinition
  <2>4. CASE BuildSeries \/ AllSeries \/ GetActive \/ GetLatest \/ ListHistory
    BY <1>0, <2>4 DEF BaseInv, Routes, BuildSeries, AllSeries, GetActive, GetLatest, ListHistory
  <2> QED
    BY <1>1, <1>5, <2>2, <2>3, <2>4 DEF Report
<1>6. CASE UNCHANGED vars
  BY <1>2, <1>3, <1>6 DEF vars, table, answer
<1> QED
  BY <1>4, <1>5, <1>6 DEF Next

-----------------------------------------------------------------------------
(* The days of a report.                                                    *)

LEMMA DaysInit == Init => DaysInv
BY DEF Init, DaysInv

LEMMA DaysStep == BaseInv /\ DaysInv /\ [Next]_vars => DaysInv'
<1> SUFFICES ASSUME BaseInv, DaysInv, [Next]_vars, pc' = "done",
                    request'.route \in {"energy", "power"}
             PROVE  DaysInv'
  BY DEF DaysInv
<1>0. request' = request
  BY DEF Next, World, Report, vars
<1>1. CASE pc = "done" /\ UNCHANGED <<window, hours, days, readings>>
  BY <1>0, <1>1 DEF DaysInv, ByDay, InDay, WithPower, start, end
<1>2. CASE World
  BY <1>1, <1>2, WorldRests
<1>3. CASE Report
  <2>1. readings' = readings
    BY <1>3 DEF Report, table
  <2>2. CASE ListPower
    BY <1>0, <2>1, <2>2 DEF ListPower, DaysInv, ByDay, InDay, WithPower, start, end
  <2>3. CASE ListMeasurements
    BY <1>0, <2>1, <2>3
       DEF ListMeasurements, BaseInv, Routes, DaysInv, ByDay, InDay, WithPower, start, end
  <2>4. CASE Reject \/ Open \/ IntegrateEnergy \/ ListDefinitions \/ GetDefinition \/ BuildSeries
    BY <1>0, <2>4
       DEF Reject, Open, IntegrateEnergy, ListDefinitions, GetDefinition, BuildSeries
  <2>5. CASE AllSeries \/ GetActive \/ GetLatest \/ ListHistory
    BY <1>0, <2>5 DEF BaseInv, Routes, AllSeries, GetActive, GetLatest, ListHistory
  <2> QED
    BY <1>3, <2>2, <2>3, <2>4, <2>5 DEF Report
<1>4. CASE UNCHANGED vars
  BY <1>1, <1>4 DEF vars, table, answer
<1> QED
  BY <1>2, <1>3, <1>4 DEF Next

LEMMA EnergyHolds == Spec => [](BaseInv /\ EnergyInv /\ DaysInv)
<1>1. BaseInv /\ EnergyInv /\ [Next]_vars => EnergyInv'
  BY EnergyStep
<1>2. BaseInv /\ DaysInv /\ [Next]_vars => DaysInv'
  BY DaysStep
<1> QED
  BY <1>1, <1>2, BaseHolds, EnergyInit, DaysInit, PTL DEF Spec

LEMMA DatesOf ==
    ASSUME BaseInv, NEW S, S \subseteq DOMAIN readings, \A i \in S : InDay(readings[i]),
           NEW f, \A h \in DOMAIN f : HourIn(h, window)
    PROVE  /\ DOMAIN ByDay(S, f) = {DateOf(start)}
           /\ ByDay(S, f)[DateOf(start)].entries = S
<1>1. \A i \in S : DateOf(readings[i].ts) = DateOf(start)
  <2> SUFFICES ASSUME NEW i \in S PROVE DateOf(readings[i].ts) = DateOf(start)
    OBVIOUS
  <2>1. readings[i] \in Readings0
    BY DEF BaseInv
  <2>2. readings[i].ts \in Int
    BY <2>1, ReportAssumption
  <2>3. readings[i].ts \in start..end
    BY <2>2 DEF InDay, start, end, BaseInv, IsDay
  <2> QED
    BY <2>3 DEF start, end, BaseInv, IsDay
<1>2. \A h \in DOMAIN f : DateOf(h) = DateOf(start)
  BY DEF HourIn, start, end, BaseInv, IsDay
<1>3. PICK dates : dates = {DateOf(start)} \cup {DateOf(readings[i].ts) : i \in S}
                              \cup {DateOf(h) : h \in DOMAIN f}
  OBVIOUS
<1>4. dates = {DateOf(start)}
  BY <1>1, <1>2, <1>3
<1>5. ByDay(S, f) = [d \in dates |->
        [entries |-> {i \in S : DateOf(readings[i].ts) = d},
         hours |-> {h \in DOMAIN f : DateOf(h) = d}]]
  BY <1>3, Zenon DEF ByDay
<1>6. {i \in S : DateOf(readings[i].ts) = DateOf(start)} = S
  BY <1>1
<1> QED
  BY <1>4, <1>5, <1>6

LEMMA EnergyDays ==
    ASSUME BaseInv, EnergyInv, DaysInv, pc = "done", request.route = "energy"
    PROVE  /\ DOMAIN days = {DateOf(start)}
           /\ days[DateOf(start)].entries = {i \in DOMAIN readings : InDay(readings[i])}
<1>1. PICK S : S = {i \in DOMAIN readings : InDay(readings[i])}
  OBVIOUS
<1>2. S \subseteq DOMAIN readings /\ \A i \in S : InDay(readings[i])
  BY <1>1
<1>3. \A h \in DOMAIN hours : HourIn(h, window)
  BY DEF EnergyInv
<1>4. days = ByDay(S, hours)
  BY <1>1 DEF DaysInv
<1> QED
  BY <1>1, <1>2, <1>3, <1>4, DatesOf

(* OneDay: a report of a day has no entry and no hour of another date,      *)
(* whatever date is asked for (_resolve_day_window, and the grouping by     *)
(* date of list_provider_energy and list_provider_power).                   *)
THEOREM ReportsHaveOneDay == Spec => []OneDay
<1>1. BaseInv /\ EnergyInv /\ DaysInv => OneDay
  <2> SUFFICES ASSUME BaseInv, EnergyInv, DaysInv, pc = "done",
                      request.route \in {"energy", "power"}
               PROVE  DOMAIN days = {DateOf(start)}
    BY DEF OneDay
  <2>1. CASE request.route = "energy"
    BY <2>1, EnergyDays
  <2>2. CASE request.route = "power"
    <3>1. PICK S : S = {i \in DOMAIN readings : InDay(readings[i]) /\ WithPower(readings[i])}
      OBVIOUS
    <3>2. S \subseteq DOMAIN readings /\ \A i \in S : InDay(readings[i])
      BY <3>1
    <3>3. \A h \in DOMAIN Empty : HourIn(h, window)
      BY DEF Empty
    <3>4. days = ByDay(S, Empty)
      BY <2>2, <3>1 DEF DaysInv
    <3> QED
      BY <3>2, <3>3, <3>4, DatesOf
  <2> QED
    BY <2>1, <2>2
<1> QED
  BY <1>1, EnergyHolds, PTL

(* HoursExplained: each hour with energy has an entry that explains it, a   *)
(* fresh reading with a power in the hour or before, although hours and     *)
(* entries come from two queries (_build_provider_energy_series).           *)
THEOREM HoursHaveReadings == Spec => []HoursExplained
<1>1. BaseInv /\ EnergyInv /\ DaysInv => HoursExplained
  <2> SUFFICES ASSUME BaseInv, EnergyInv, DaysInv, pc = "done", request.route = "energy",
                      NEW h \in DOMAIN hours
               PROVE  \E i \in days[DateOf(h)].entries :
                        /\ WithPower(readings[i]) /\ readings[i].ts < h + Hour
                        /\ Hold # Null => h - readings[i].ts < Hold
    BY DEF HoursExplained
  <2>1. PICK i \in DOMAIN readings : Explains(readings[i], h, window, Hold)
    BY DEF EnergyInv
  <2>2. HourIn(h, window)
    BY DEF EnergyInv
  <2>3. DateOf(h) = DateOf(start)
    BY <2>2 DEF HourIn, start, BaseInv, IsDay
  <2>4. i \in days[DateOf(h)].entries
    BY <2>1, <2>3, EnergyDays DEF Explains, InDay, start, end
  <2> QED
    BY <2>1, <2>4 DEF Explains
<1> QED
  BY <1>1, EnergyHolds, PTL

-----------------------------------------------------------------------------
(* The price.                                                               *)

LEMMA PriceInit == Init => PriceInv
BY DEF Init, PriceInv

(* A report that no step of its own changes, while prices are published.    *)
LEMMA PriceKept ==
    ASSUME BaseInv, PriceInv, World PROVE PriceInv'
<1> USE DEF PriceInv
<1>1. UNCHANGED <<pc, request, window, shown, history>>
  BY WorldRests
<1>2. CASE pc \notin {"active", "latest", "history"}
  <2>1. prices' = prices /\ republished' = republished
    BY <1>2, WorldRests
  <2> QED
    BY <1>1, <1>2, <2>1 DEF IsShown, start, end, HistoryEnd
<1>3. CASE prices' = prices /\ republished' = republished
  BY <1>1, <1>3 DEF IsShown, start, end, HistoryEnd
<1>4. CASE pc \in {"active", "latest", "history"} /\ \E e \in Prices : Publish(e)
  <2>1. PICK e \in Prices : Publish(e)
    BY <1>4
  <2>2. /\ prices' = {p \in prices : p.from # e.from} \cup {e}
        /\ republished'
    BY <2>1 DEF Publish
  <2>3. ASSUME pc = "history" PROVE IsShown(shown, prices', window, FALSE)
    <3>1. PICK p \in prices : p.from = shown.from
      BY <2>3 DEF IsShown
    <3>2. shown # Null /\ shown.from <= window[2]
      BY <2>3 DEF IsShown
    <3>3. \E r \in prices' : r.from = shown.from
      <4>1. CASE p.from = e.from
        BY <2>2, <3>1, <4>1
      <4>2. CASE p.from # e.from
        BY <2>2, <3>1, <4>2
      <4> QED
        BY <4>1, <4>2
    <3> QED
      BY <3>2, <3>3 DEF IsShown
  <2> QED
    BY <1>1, <1>4, <2>2, <2>3 DEF IsShown
<1> QED
  BY <1>2, <1>3, <1>4 DEF World, SaveReading, SaveMetric, DefineMetric

LEMMA PriceStep == BaseInv /\ PriceInv /\ [Next]_vars => PriceInv'
<1> SUFFICES ASSUME BaseInv, PriceInv, [Next]_vars PROVE PriceInv'
  OBVIOUS
<1> USE DEF PriceInv
<1>w. /\ window \in Int \X Int /\ end \in Int /\ start \in Int
      /\ start = window[1] /\ end = window[2]
  BY DEF BaseInv, IsDay, start, end
<1>p. \A e \in prices : e \in Prices /\ e # Null /\ e.from \in Int /\ e.to \in Int /\ e.from < e.to
  BY PriceAssumption DEF BaseInv
<1>1. CASE World
  BY <1>1, PriceKept
<1>2. CASE Report
  <2>1. request' = request /\ prices' = prices
    BY <1>2 DEF Report, table
  <2>2. CASE Reject \/ Open
    BY <2>1, <2>2 DEF Reject, Open, answer
  <2>3. CASE ListPower \/ IntegrateEnergy \/ ListMeasurements
    BY <2>1, <2>3 DEF BaseInv, Routes, ListPower, IntegrateEnergy, ListMeasurements
  <2>4. CASE ListDefinitions \/ GetDefinition \/ BuildSeries
    BY <2>1, <2>4 DEF BaseInv, Routes, ListDefinitions, GetDefinition, BuildSeries
  <2>5. CASE AllSeries
    BY <2>1, <2>5 DEF BaseInv, Routes, AllSeries, answer
  <2>6. CASE GetActive
    <3>1. PICK active : active = {e \in prices : e.from <= end /\ end < e.to}
      OBVIOUS
    <3>2. /\ pc = "active" /\ republished' = FALSE /\ UNCHANGED <<window, history>>
          /\ \/ active # {} /\ shown' \in active /\ pc' = "history"
             \/ active = {} /\ shown' = Null /\ pc' = "latest"
      BY <2>6, <3>1 DEF GetActive
    <3>3. CASE active # {} /\ shown' \in active /\ pc' = "history"
      <4>1. PICK e \in active : e = shown'
        BY <3>3
      <4>2. e \in prices /\ e # Null /\ e.from <= window[2] /\ window[2] < e.to /\ e \in Prices
        BY <1>w, <1>p, <3>1, <4>1
      <4>3. IsShown(e, prices, window, TRUE)
        BY <4>2 DEF IsShown
      <4> QED
        BY <2>1, <3>2, <3>3, <4>1, <4>2, <4>3 DEF IsShown
    <3>4. CASE active = {} /\ shown' = Null /\ pc' = "latest"
      <4>1. \A e \in prices : e.from > end \/ e.to <= end
        BY <1>w, <1>p, <3>1, <3>4
      <4> QED
        BY <2>1, <3>2, <3>4, <4>1 DEF end
    <3> QED
      BY <3>2, <3>3, <3>4
  <2>7. CASE GetLatest
    <3>1. PICK before : before = {e \in prices : e.from < end}
      OBVIOUS
    <3>2. /\ pc = "latest" /\ republished' = republished /\ UNCHANGED <<window, history>>
          /\ \/ /\ before # {} /\ pc' = "history"
                /\ shown' \in {e \in before : \A f \in before : f.from <= e.from}
             \/ before = {} /\ shown' = Null /\ pc' = "done"
      BY <2>7, <3>1 DEF GetLatest
    <3>3. ~republished => \A e \in prices : e.from > end \/ e.to <= end
      BY <3>2
    <3>4. ~republished => \A e \in prices : e.from > end \/ e \in before
      <4> SUFFICES ASSUME ~republished, NEW e \in prices, ~(e.from > end) PROVE e.from < end
        BY <3>1
      <4> QED
        BY <1>w, <1>p, <3>3
    <3>5. CASE /\ before # {} /\ pc' = "history"
               /\ shown' \in {e \in before : \A f \in before : f.from <= e.from}
      <4>1. PICK e \in before : e = shown' /\ \A f \in before : f.from <= e.from
        BY <3>5
      <4>2. e \in prices /\ e # Null /\ e.from <= window[2] /\ e \in Prices
        BY <1>w, <1>p, <3>1, <4>1
      <4>3. ~republished => \A p \in prices : p.from <= window[2] => p.from <= e.from
        BY <1>w, <1>p, <3>4, <4>1
      <4>4. IsShown(e, prices, window, ~republished)
        BY <4>2, <4>3 DEF IsShown
      <4> QED
        BY <2>1, <3>2, <3>5, <4>1, <4>2, <4>4 DEF IsShown
    <3>6. CASE before = {} /\ shown' = Null /\ pc' = "done"
      BY <2>1, <3>2, <3>4, <3>6 DEF end
    <3> QED
      BY <3>2, <3>5, <3>6
  <2>8. CASE ListHistory
    <3>1. /\ pc = "history" /\ pc' = "done" /\ UNCHANGED <<window, shown, republished>>
          /\ history' = {e \in prices : start <= e.from /\ e.from < HistoryEnd}
      BY <2>8 DEF ListHistory
    <3>2. history' \subseteq Prices
      BY <1>p, <3>1
    <3>3. IsShown(shown, prices, window, ~republished)
      BY <3>1
    <3> QED
      BY <2>1, <3>1, <3>2, <3>3 DEF IsShown, start, HistoryEnd
  <2> QED
    BY <1>2, <2>2, <2>3, <2>4, <2>5, <2>6, <2>7, <2>8 DEF Report
<1>3. CASE UNCHANGED vars
  BY <1>3 DEF vars, table, answer, IsShown, start, end, HistoryEnd
<1> QED
  BY <1>1, <1>2, <1>3 DEF Next

LEMMA PriceHolds == Spec => [](BaseInv /\ PriceInv)
<1>1. BaseInv /\ PriceInv /\ [Next]_vars => PriceInv'
  BY PriceStep
<1> QED
  BY <1>1, BaseHolds, PriceInit, PTL DEF Spec

(* PriceShown: the price shown is in force at the end of the window or is   *)
(* the latest before it, and its interval is in the history of the day,     *)
(* also when prices are corrected between the questions                     *)
(* (_build_market_price_context).                                           *)
THEOREM PriceIsInForce == Spec => []PriceShown
<1>1. BaseInv /\ PriceInv => PriceShown
  <2> SUFFICES ASSUME BaseInv, PriceInv, pc = "done", request.route = "telemetry"
               PROVE  PriceShown
    BY DEF PriceShown
  <2>1. /\ start \in Int /\ end \in Int /\ HistoryEnd \in Int /\ end < HistoryEnd
        /\ start = window[1] /\ end = window[2]
    BY HourAssumption DEF BaseInv, IsDay, start, end, HistoryEnd
  <2>2. \A e \in prices : e.from \in Int /\ e # Null
    BY PriceAssumption DEF BaseInv
  <2>3. CASE shown = Null /\ (~republished => \A e \in prices : e.from > end)
    BY <2>1, <2>2, <2>3 DEF PriceShown
  <2>4. CASE /\ IsShown(shown, prices, window, ~republished)
             /\ history = {e \in prices : start <= e.from /\ e.from < HistoryEnd}
    <3>1. /\ shown # Null /\ shown.from <= end
          /\ ~republished =>
               /\ shown \in prices
               /\ \A p \in prices : p.from <= end => p.from <= shown.from \/ end < shown.to
      BY <2>1, <2>4 DEF IsShown
    <3>2. PICK p \in prices : p.from = shown.from
      BY <2>4 DEF IsShown
    <3>3. shown.from \in Int
      BY <2>2, <3>2
    <3>4. shown.from \in start..end => p \in history
      BY <2>1, <2>2, <2>4, <3>2
    <3>5. ~republished /\ shown.from \in start..end => shown \in history
      BY <2>1, <2>2, <2>4, <3>1
    <3>6. ~republished => ~ \A e \in prices : e.from > end
      BY <2>1, <3>1, <3>3
    <3> QED
      BY <3>1, <3>2, <3>4, <3>5, <3>6 DEF PriceShown
  <2> QED
    BY <2>3, <2>4 DEF PriceInv
<1> QED
  BY <1>1, PriceHolds, PTL

-----------------------------------------------------------------------------
(* The series.                                                              *)

LEMMA BuiltKept ==
    ASSUME NEW s, NEW old, NEW new, NEW w, BuiltFrom(s, old, w),
           Len(old) \in Nat, Len(new) \in Nat, Len(old) <= Len(new),
           \A i \in 1..Len(old) : new[i] = old[i]
    PROVE  BuiltFrom(s, new, w)
<1>1. s.seen \in Nat /\ s.seen <= Len(new) /\ \A i \in 1..s.seen : new[i] = old[i]
  BY DEF BuiltFrom
<1>2. SeenIn(new, s.seen, w) = SeenIn(old, s.seen, w)
  BY <1>1 DEF SeenIn
<1> QED
  BY <1>1, <1>2 DEF BuiltFrom

(* _build_metric_series, from all the values there are.                     *)
LEMMA SeriesBuilt ==
    ASSUME BaseInv, NEW k \in Keys, NEW d, d.mode \in {"raw", "hourly"}
    PROVE  /\ MetricSeries(k, d).key = k
           /\ MetricSeries(k, d).seen = Len(metrics[k])
           /\ MetricSeries(k, d).mode = d.mode
           /\ BuiltFrom(MetricSeries(k, d), metrics[k], window)
<1>1. PICK raw \in Seq(Samples0) : raw = metrics[k]
  BY DEF BaseInv
<1>2. Len(raw) \in Nat /\ DOMAIN raw = 1..Len(raw)
  OBVIOUS
<1>3. {i \in DOMAIN raw : InDay(raw[i])} = SeenIn(raw, Len(raw), window)
  BY <1>2 DEF SeenIn, InDay, start, end
<1>4. PICK s : s = MetricSeries(k, d)
  OBVIOUS
<1>5. s = [key |-> k, mode |-> d.mode, seen |-> Len(raw),
           unit |-> IF d.mode = "raw" THEN d.unit ELSE EnergyUnitOf(d.unit),
           values |-> {i \in DOMAIN raw : InDay(raw[i])}]
  BY <1>1, <1>4, Zenon DEF MetricSeries
<1>6. EnergyUnitOf(d.unit) # "W" /\ EnergyUnitOf(d.unit) # "kW"
  BY DEF EnergyUnitOf
<1>7. /\ s.key = k /\ s.seen = Len(raw) /\ s.mode = d.mode
      /\ s.mode = "hourly" => s.unit = EnergyUnitOf(d.unit)
      /\ s.values = SeenIn(raw, Len(raw), window)
  BY <1>3, <1>5
<1>8. BuiltFrom(s, raw, window)
  BY <1>2, <1>6, <1>7 DEF BuiltFrom
<1> QED
  BY <1>1, <1>4, <1>7, <1>8

LEMMA SeriesInit == Init => SeriesInv
BY DEF Init, SeriesInv

(* The definitions a report lists, or gets for its key.                     *)
LEMMA DefinitionsAre ==
    ASSUME BaseInv
    PROVE  \A d \in MetricDefinitions : d.key \in Keys /\ d.definition.mode \in {"raw", "hourly"}
<1>1. \A k \in Keys : Synthetic(k).mode \in {"raw", "hourly"}
  BY DEF Synthetic
<1>2. \A k \in Keys : defined[k] # Null => defined[k].mode \in {"raw", "hourly"}
  BY DefinitionAssumption DEF BaseInv
<1>3. ASSUME NEW d \in MetricDefinitions
      PROVE  \E k \in Keys :
               /\ d = [key |-> k, definition |-> d.definition]
               /\ \/ defined[k] # Null /\ d.definition = defined[k]
                  \/ d.definition = Synthetic(k)
  BY DEF MetricDefinitions
<1> SUFFICES ASSUME NEW d \in MetricDefinitions
             PROVE  d.key \in Keys /\ d.definition.mode \in {"raw", "hourly"}
  OBVIOUS
<1>4. PICK k \in Keys :
        /\ d = [key |-> k, definition |-> d.definition]
        /\ \/ defined[k] # Null /\ d.definition = defined[k]
           \/ d.definition = Synthetic(k)
  BY <1>3
<1>5. d.key = k
  BY <1>4
<1> QED
  BY <1>1, <1>2, <1>4, <1>5

LEMMA DefinitionIs ==
    ASSUME BaseInv, NEW k \in Keys
    PROVE  /\ \A d, e \in MetricDefinition(k) : d = e
           /\ \A d \in MetricDefinition(k) : d.key = k /\ d.definition.mode \in {"raw", "hourly"}
           /\ defined[k] # Null => \A d \in MetricDefinition(k) : d.definition = defined[k]
           /\ MetricDefinition(k) = {} <=> ~(defined[k] # Null \/ Equipped(k))
<1>1. Synthetic(k).mode \in {"raw", "hourly"}
  BY DEF Synthetic
<1>2. defined[k] # Null => defined[k].mode \in {"raw", "hourly"}
  BY DefinitionAssumption DEF BaseInv
<1>3. CASE defined[k] # Null
  <2>1. PICK d : d = [key |-> k, definition |-> defined[k]]
    OBVIOUS
  <2>2. MetricDefinition(k) = {d} /\ d.key = k /\ d.definition = defined[k]
    BY <1>3, <2>1 DEF MetricDefinition
  <2> QED
    BY <1>2, <1>3, <2>2
<1>4. CASE defined[k] = Null /\ Equipped(k)
  <2>1. PICK d : d = [key |-> k, definition |-> Synthetic(k)]
    OBVIOUS
  <2>2. MetricDefinition(k) = {d} /\ d.key = k /\ d.definition = Synthetic(k)
    BY <1>4, <2>1 DEF MetricDefinition
  <2> QED
    BY <1>1, <1>4, <2>2
<1>5. CASE defined[k] = Null /\ ~Equipped(k)
  BY <1>5 DEF MetricDefinition
<1> QED
  BY <1>3, <1>4, <1>5

LEMMA SeriesStep == BaseInv /\ SeriesInv /\ [Next]_vars => SeriesInv'
<1> SUFFICES ASSUME BaseInv, SeriesInv, [Next]_vars PROVE SeriesInv'
  OBVIOUS
<1> USE DEF SeriesInv
<1>0. \A k \in Keys : metrics[k] \in Seq(Samples0) /\ Len(metrics[k]) \in Nat
  <2>1. \A k \in Keys : metrics[k] \in Seq(Samples0)
    BY DEF BaseInv
  <2> QED
    BY <2>1
<1>1. CASE World
  <2>1. UNCHANGED <<pc, window, todo, series>>
    BY <1>1, WorldRests
  <2>2. ASSUME NEW s \in series PROVE BuiltFrom(s, metrics'[s.key], window)
    <3>1. PICK k \in Keys : k = s.key
      OBVIOUS
    <3>2. PICK old, new : old = metrics[k] /\ new = metrics'[k]
      OBVIOUS
    <3>3. /\ Len(old) \in Nat /\ Len(old) <= Len(new)
          /\ \A i \in 1..Len(old) : new[i] = old[i]
      BY <1>0, <1>1, <3>2, WorldKeeps
    <3>4. metrics'[k] \in Seq(Samples0)
      BY <1>1, WorldKeeps
    <3>5. Len(new) \in Nat
      BY <3>2, <3>4
    <3>6. BuiltFrom(s, old, window)
      BY <3>1, <3>2
    <3>7. BuiltFrom(s, new, window)
      BY <3>3, <3>5, <3>6, BuiltKept
    <3> QED
      BY <3>1, <3>2, <3>7
  <2>3. \A s \in series' : s.key \in Keys /\ BuiltFrom(s, metrics'[s.key], window')
    BY <2>1, <2>2
  <2> QED
    BY <2>1, <2>3
<1>2. CASE Report
  <2>1. UNCHANGED <<request, provider, metrics, defined>>
    BY <1>2 DEF Report, table
  <2>2. CASE Reject \/ AllSeries
    BY <2>1, <2>2 DEF Reject, AllSeries, answer
  <2>3. CASE Open
    BY <2>1, <2>3 DEF Open, answer
  <2>4. CASE ListPower \/ IntegrateEnergy \/ ListMeasurements
    BY <2>1, <2>4 DEF ListPower, IntegrateEnergy, ListMeasurements
  <2>5. CASE GetActive \/ GetLatest \/ ListHistory
    BY <2>1, <2>5 DEF GetActive, GetLatest, ListHistory
  <2>6. CASE ListDefinitions
    <3>1. /\ todo' = MetricDefinitions /\ pc' = "series"
          /\ UNCHANGED <<window, series>>
      BY <2>6 DEF ListDefinitions
    <3> QED
      BY <2>1, <3>1, DefinitionsAre
  <2>7. CASE GetDefinition
    <3>1. /\ todo' = MetricDefinition(request.key) /\ pc' \in {"rejected", "series"}
          /\ UNCHANGED <<window, series>>
      BY <2>7 DEF GetDefinition
    <3>2. request.key \in Keys
      BY ReportAssumption DEF BaseInv
    <3> QED
      BY <2>1, <3>1, <3>2, DefinitionIs
  <2>8. CASE BuildSeries
    <3>1. PICK d \in todo : /\ series' = series \cup {MetricSeries(d.key, d.definition)}
                            /\ todo' = todo \ {d}
      BY <2>8 DEF BuildSeries
    <3>2. pc = "series" /\ UNCHANGED <<pc, window>>
      BY <2>8 DEF BuildSeries
    <3>3. PICK s : s = MetricSeries(d.key, d.definition)
      OBVIOUS
    <3>4. s.key \in Keys /\ BuiltFrom(s, metrics[s.key], window)
      BY <3>3, SeriesBuilt
    <3> QED
      BY <2>1, <3>1, <3>2, <3>3, <3>4
  <2> QED
    BY <1>2, <2>2, <2>3, <2>4, <2>5, <2>6, <2>7, <2>8 DEF Report
<1>3. CASE UNCHANGED vars
  BY <1>3 DEF vars, table, answer
<1> QED
  BY <1>1, <1>2, <1>3 DEF Next

LEMMA SeriesHolds == Spec => [](BaseInv /\ SeriesInv)
<1>1. BaseInv /\ SeriesInv /\ [Next]_vars => SeriesInv'
  BY SeriesStep
<1> QED
  BY <1>1, BaseHolds, SeriesInit, PTL DEF Spec

-----------------------------------------------------------------------------
(* The answers.                                                             *)

(* TypeOK: what is saved, the window and the answer are of their types: an  *)
(* hourly series is in a unit of energy, and no series has a value that was *)
(* not there when it was built.                                             *)
THEOREM ReportsTypeCorrect == Spec => []TypeOK
<1>1. BaseInv /\ SeriesInv /\ PriceInv => TypeOK
  <2> SUFFICES ASSUME BaseInv, SeriesInv, PriceInv PROVE TypeOK
    OBVIOUS
  <2>1. ASSUME NEW s \in series
        PROVE  /\ s.key \in Keys /\ s.mode \in {"raw", "hourly"} /\ s.seen \in 0..MaxSaves
               /\ s.values \subseteq 1..s.seen
               /\ s.mode = "hourly" => s.unit \notin {"W", "kW"}
    <3>1. s.key \in Keys /\ BuiltFrom(s, metrics[s.key], window)
      BY DEF SeriesInv
    <3>2. s.mode \in {"raw", "hourly"} /\ (s.mode = "hourly" => s.unit \notin {"W", "kW"})
      BY <3>1 DEF BuiltFrom
    <3>3. s.seen \in 0..MaxSaves
      <4>1. metrics[s.key] \in Seq(Samples0) /\ Len(metrics[s.key]) <= saves /\ saves \in 0..MaxSaves
        BY <3>1 DEF BaseInv
      <4>2. Len(metrics[s.key]) \in Nat /\ s.seen \in Nat /\ s.seen <= Len(metrics[s.key])
        BY <3>1, <4>1 DEF BuiltFrom
      <4> QED
        BY <4>1, <4>2, SavesBound
    <3>4. s.values \subseteq 1..s.seen
      BY <3>1 DEF BuiltFrom, SeenIn
    <3> QED
      BY <3>1, <3>2, <3>3, <3>4
  <2>2. window \in Int \X Int /\ shown \in Prices \cup {Null} /\ history \subseteq Prices
    BY DEF BaseInv, IsDay, PriceInv
  <2> QED
    BY <2>1, <2>2 DEF TypeOK, BaseInv
<1> QED
  BY <1>1, SeriesHolds, PriceHolds, PTL

-----------------------------------------------------------------------------
(* The list of metrics.                                                     *)

LEMMA ListInit == Init => ListInv
<1> SUFFICES ASSUME Init PROVE ListInv
  OBVIOUS
<1>1. \A k \in Keys : metrics[k] = << >> /\ early[k].values = 0
  BY DEF Init
<1> QED
  BY <1>1 DEF Init, ListInv

(* What there is of each metric when they are listed.                       *)
LEMMA ListedIs ==
    ASSUME BaseInv
    PROVE  \A k \in Keys : /\ Listed[k].values = Len(metrics[k])
                           /\ Listed[k].definition = defined[k]
                           /\ Len(metrics[k]) \in Nat
<1>1. ASSUME NEW k \in Keys
      PROVE  /\ Listed[k].values = Len(metrics[k]) /\ Listed[k].definition = defined[k]
             /\ Len(metrics[k]) \in Nat
  <2>1. metrics[k] \in Seq(Samples0)
    BY DEF BaseInv
  <2>2. Listed[k] = [values |-> Len(metrics[k]), definition |-> defined[k]]
    BY DEF Listed
  <2> QED
    BY <2>1, <2>2
<1> QED
  BY <1>1

(* A definition for each key that is stored or equipped, and no two.        *)
LEMMA DefinitionsCover ==
    ASSUME BaseInv
    PROVE  /\ \A d, e \in MetricDefinitions : d.key = e.key => d = e
           /\ \A d \in MetricDefinitions : defined[d.key] # Null => d.definition = defined[d.key]
           /\ {d.key : d \in MetricDefinitions} =
                {k \in Keys : defined[k] # Null \/ Equipped(k)}
<1>1. PICK stored : stored = {k \in Keys : defined[k] # Null}
  OBVIOUS
<1>2. MetricDefinitions =
        {[key |-> k, definition |-> defined[k]] : k \in stored}
        \cup {[key |-> k, definition |-> Synthetic(k)] : k \in {x \in Keys \ stored : Equipped(x)}}
  BY <1>1, Zenon DEF MetricDefinitions
<1>3. PICK Of : Of = [k \in Keys |-> IF k \in stored THEN defined[k] ELSE Synthetic(k)]
  OBVIOUS
<1>4. \A d \in MetricDefinitions :
        /\ d.key \in Keys /\ d = [key |-> d.key, definition |-> Of[d.key]]
        /\ d.key \in stored \/ Equipped(d.key)
  <2> SUFFICES ASSUME NEW d \in MetricDefinitions
               PROVE  /\ d.key \in Keys /\ d = [key |-> d.key, definition |-> Of[d.key]]
                      /\ d.key \in stored \/ Equipped(d.key)
    OBVIOUS
  <2>1. PICK k \in Keys : /\ d = [key |-> k, definition |-> Of[k]]
                          /\ k \in stored \/ Equipped(k)
    BY <1>1, <1>2, <1>3
  <2>2. d.key = k
    BY <2>1
  <2> QED
    BY <2>1, <2>2
<1>5. ASSUME NEW k \in Keys, defined[k] # Null \/ Equipped(k)
      PROVE  \E d \in MetricDefinitions : d.key = k
  <2>1. PICK d : d = [key |-> k, definition |-> Of[k]]
    OBVIOUS
  <2>2. d \in MetricDefinitions
    BY <1>1, <1>2, <1>3, <1>5, <2>1
  <2> QED
    BY <2>1, <2>2
<1>6. ASSUME NEW d \in MetricDefinitions, defined[d.key] # Null
      PROVE  d.definition = defined[d.key]
  <2>1. d.key \in Keys /\ d.key \in stored /\ d = [key |-> d.key, definition |-> Of[d.key]]
    BY <1>1, <1>4, <1>6
  <2> QED
    BY <1>3, <2>1
<1>7. {d.key : d \in MetricDefinitions} = {k \in Keys : defined[k] # Null \/ Equipped(k)}
  BY <1>1, <1>4, <1>5
<1> QED
  BY <1>4, <1>6, <1>7

LEMMA ListStep == BaseInv /\ SeriesInv /\ ListInv /\ [Next]_vars => ListInv'
<1> SUFFICES ASSUME BaseInv, SeriesInv, ListInv, [Next]_vars PROVE ListInv'
  OBVIOUS
<1> USE DEF ListInv
<1>0. \A k \in Keys : Len(metrics[k]) \in Nat
  BY ListedIs
<1>1. CASE World
  <2>1. UNCHANGED <<request, provider, pc, todo, series, early>>
    BY <1>1, WorldRests
  <2>2. \A k \in Keys : metrics'[k] \in Seq(Samples0) /\ Len(metrics[k]) <= Len(metrics'[k])
    BY <1>1, WorldKeeps
  <2>3. \A k \in Keys : Len(metrics'[k]) \in Nat
    BY <2>2
  <2>4. \A k \in Keys : early[k].values \in Nat /\ early[k].values <= Len(metrics'[k])
    BY <1>0, <2>2, <2>3
  <2> QED
    BY <2>1, <2>4 DEF Wanted, Equipped
<1>2. CASE Report
  <2>1. UNCHANGED <<request, provider, metrics, defined>>
    BY <1>2 DEF Report, table
  <2>2. CASE Reject \/ AllSeries
    BY <2>1, <2>2 DEF Reject, AllSeries, answer, Wanted, Equipped
  <2>3. CASE Open
    BY <2>1, <2>3 DEF Open, answer, Wanted, Equipped
  <2>4. CASE ListPower \/ IntegrateEnergy \/ ListMeasurements
    <3>1. todo = {} /\ request.route \notin {"telemetry", "metric"}
      BY <2>4 DEF ListPower, IntegrateEnergy, ListMeasurements, SeriesInv, BaseInv, Routes
    <3> QED
      BY <2>1, <2>4, <3>1 DEF ListPower, IntegrateEnergy, ListMeasurements
  <2>5. CASE GetActive \/ GetLatest \/ ListHistory
    BY <2>1, <2>5 DEF GetActive, GetLatest, ListHistory, Wanted, Equipped
  <2>6. CASE ListDefinitions
    <3>1. /\ todo' = MetricDefinitions /\ pc' = "series" /\ series' = {}
          /\ early' = Listed /\ request.route = "telemetry"
      BY <2>6 DEF ListDefinitions, SeriesInv
    <3>2. \A k \in Keys : early'[k].values \in Nat /\ early'[k].values <= Len(metrics'[k])
      BY <2>1, <3>1, ListedIs
    <3>3. \A k \in Keys : Wanted(k)' <=> defined[k] # Null \/ Equipped(k)
      BY <2>1, <3>1, ListedIs DEF Wanted, Equipped
    <3>4. \A d \in todo' : d.key \in Keys
      BY <3>1, DefinitionsAre
    <3>5. \A d \in todo' : Stands(early'[d.key], d.definition.mode)
      BY <3>1, <3>4, ListedIs, DefinitionsCover DEF Stands
    <3>6. {d.key : d \in todo'} = {k \in Keys : Wanted(k)'}
      BY <3>1, <3>3, DefinitionsCover
    <3>7. \A d, e \in todo' : d.key = e.key => d = e
      BY <3>1, DefinitionsCover
    <3> QED
      BY <3>1, <3>2, <3>5, <3>6, <3>7
  <2>7. CASE GetDefinition
    <3>1. /\ todo' = MetricDefinition(request.key)
          /\ pc' = (IF todo' = {} THEN "rejected" ELSE "series")
          /\ series' = {} /\ early' = Listed /\ request.route = "metric"
      BY <2>7 DEF GetDefinition, SeriesInv
    <3>2. PICK key \in Keys : key = request.key
      BY ReportAssumption DEF BaseInv
    <3>3. /\ \A d, e \in todo' : d = e
          /\ \A d \in todo' : d.key = key /\ (defined[key] # Null => d.definition = defined[key])
          /\ todo' = {} <=> ~(defined[key] # Null \/ Equipped(key))
      BY <3>1, <3>2, DefinitionIs
    <3>4. \A k \in Keys : early'[k].values \in Nat /\ early'[k].values <= Len(metrics'[k])
      BY <2>1, <3>1, ListedIs
    <3>5. \A k \in Keys : Wanted(k)' <=> (defined[k] # Null \/ Equipped(k)) /\ k = key
      BY <2>1, <3>1, <3>2, ListedIs DEF Wanted, Equipped
    <3>6. \A d \in todo' : Stands(early'[d.key], d.definition.mode)
      BY <3>1, <3>3, ListedIs DEF Stands
    <3>7. pc' = "series" => {d.key : d \in todo'} = {k \in Keys : Wanted(k)'}
      <4> SUFFICES ASSUME pc' = "series" PROVE {d.key : d \in todo'} = {k \in Keys : Wanted(k)'}
        OBVIOUS
      <4>1. PICK d \in todo' : TRUE
        BY <3>1
      <4>2. {e.key : e \in todo'} = {key}
        BY <3>3, <4>1
      <4>3. {k \in Keys : Wanted(k)'} = {key}
        BY <3>3, <3>5, <4>1
      <4> QED
        BY <4>2, <4>3
    <3>8. pc' \in {"rejected", "series"}
      BY <3>1
    <3> QED
      BY <3>1, <3>3, <3>4, <3>6, <3>7, <3>8
  <2>8. CASE BuildSeries
    <3>1. PICK d \in todo : /\ series' = series \cup {MetricSeries(d.key, d.definition)}
                            /\ todo' = todo \ {d}
      BY <2>8 DEF BuildSeries
    <3>2. pc = "series" /\ UNCHANGED <<pc, early>>
      BY <2>8 DEF BuildSeries
    <3>3. PICK s : s = MetricSeries(d.key, d.definition)
      OBVIOUS
    <3>4. d.key \in Keys /\ d.definition.mode \in {"raw", "hourly"}
      BY DEF SeriesInv
    <3>5. s.key = d.key /\ s.seen = Len(metrics[d.key]) /\ s.mode = d.definition.mode
      BY <3>3, <3>4, SeriesBuilt
    <3>6. early[s.key].values <= s.seen /\ Stands(early[s.key], s.mode)
      BY <3>4, <3>5
    <3>7. \A u, v \in series' : u.key = v.key => u = v
      BY <3>1, <3>3, <3>5
    <3>8. \A e \in todo', u \in series' : e.key # u.key
      BY <3>1, <3>3, <3>5
    <3>9. \A u \in series' : Stands(early[u.key], u.mode) /\ early[u.key].values <= u.seen
      BY <3>1, <3>3, <3>6
    <3>10. {e.key : e \in todo'} \cup {u.key : u \in series'} =
             {e.key : e \in todo} \cup {u.key : u \in series}
      BY <3>1, <3>3, <3>5
    <3>11. \A e, f \in todo' : e.key = f.key => e = f
      BY <3>1
    <3>12. \A k \in Keys : Wanted(k)' = Wanted(k)
      BY <2>1, <3>2 DEF Wanted, Equipped
    <3>13. \A e \in todo' : Stands(early[e.key], e.definition.mode)
      BY <3>1
    <3> QED
      BY <2>1, <3>2, <3>7, <3>8, <3>9, <3>10, <3>11, <3>12, <3>13
  <2> QED
    BY <1>2, <2>2, <2>3, <2>4, <2>5, <2>6, <2>7, <2>8 DEF Report
<1>3. CASE UNCHANGED vars
  BY <1>3 DEF vars, table, answer, Wanted, Equipped
<1> QED
  BY <1>1, <1>2, <1>3 DEF Next

(* SeriesComplete: a report has exactly one series of each metric that was  *)
(* stored or given by the equipment when the metrics were listed, or of the *)
(* one asked for, and of no other, as its stored definition then said, and  *)
(* of every value of the day saved by then                                  *)
(* (_list_metric_definitions_for_provider, _build_metric_series).           *)
THEOREM SeriesAreComplete == Spec => []SeriesComplete
<1>1. BaseInv /\ SeriesInv /\ ListInv => SeriesComplete
  <2> SUFFICES ASSUME BaseInv, SeriesInv, ListInv, pc = "done",
                      request.route \in {"telemetry", "metric"}
               PROVE  /\ \A s, t \in series : s.key = t.key => s = t
                      /\ {s.key : s \in series} = {k \in Keys : Wanted(k)}
                      /\ \A s \in series :
                          /\ early[s.key].definition # Null =>
                               s.mode = early[s.key].definition.mode
                          /\ \A i \in 1..early[s.key].values :
                               metrics[s.key][i].ts \in start..end => i \in s.values
    BY Zenon DEF SeriesComplete
  <2>1. todo = {} /\ {d.key : d \in todo} \cup {s.key : s \in series} = {k \in Keys : Wanted(k)}
    BY DEF ListInv
  <2>2. ASSUME NEW s \in series, NEW i \in 1..early[s.key].values,
               metrics[s.key][i].ts \in start..end
        PROVE  i \in s.values
    <3>1. s.key \in Keys /\ BuiltFrom(s, metrics[s.key], window)
      BY DEF SeriesInv
    <3>2. /\ early[s.key].values \in Nat /\ early[s.key].values <= s.seen
          /\ s.seen \in Nat /\ s.values = SeenIn(metrics[s.key], s.seen, window)
      BY <3>1 DEF ListInv, BuiltFrom
    <3>3. window[1] \in Int /\ window[2] \in Int
      BY DEF BaseInv, IsDay
    <3> QED
      BY <2>2, <3>2, <3>3 DEF SeenIn, start, end
  <2>3. \A s \in series : early[s.key].definition # Null =>
          s.mode = early[s.key].definition.mode
    BY DEF ListInv, Stands
  <2> QED
    BY <2>1, <2>2, <2>3 DEF ListInv
<1>2. BaseInv /\ SeriesInv /\ ListInv /\ [Next]_vars => ListInv'
  BY ListStep
<1> QED
  BY <1>1, <1>2, SeriesHolds, ListInit, PTL DEF Spec
=============================================================================
