------------------------- MODULE DayTelemetryProofs -------------------------
(***************************************************************************)
(* Theorems about DayTelemetry, for every day, every hold time, every list *)
(* of market entries and any number of readings.                           *)
(***************************************************************************)
EXTENDS DayTelemetry, PowerWindowProofs

(***************************************************************************)
(* The definitions of DayTelemetry as functions of what they read, so that *)
(* a later state that reads the same has the same.                         *)
(***************************************************************************)
StandsIn(raw, hold, n, t) ==
    {i \in 1..n :
        /\ Start <= raw[i].ts /\ raw[i].ts <= t
        /\ hold = Null \/ t < raw[i].ts + hold
        /\ \A j \in 1..n : raw[j].ts <= t =>
              \/ raw[j].ts < raw[i].ts
              \/ raw[j].ts = raw[i].ts /\ j <= i}

PowerIn(raw, hold, n, t) == SumFunction([i \in StandsIn(raw, hold, n, t) |-> raw[i].power])

IsLog(raw, n) ==
    n \in Nat /\ DOMAIN raw = 1..n /\ \A i \in 1..n : raw[i].ts \in Int /\ raw[i].power \in Int

LEMMA StandsAtIs ==
    /\ \A n, t : StandsAt(n, t) = StandsIn(stored, Hold, n, t)
    /\ (\A n, t : StandsAt(n, t) = StandsIn(stored, Hold, n, t))'
BY DEF StandsAt, StandsIn

LEMMA PowerAtIs ==
    /\ \A n, t : PowerAt(n, t) = PowerIn(stored, Hold, n, t)
    /\ (\A n, t : PowerAt(n, t) = PowerIn(stored, Hold, n, t))'
BY Zenon DEF PowerAt, PowerIn, StandsAt, StandsIn

(* One reading stands at a time, or none.                                   *)
LEMMA OneStands ==
    ASSUME NEW n, NEW raw, IsLog(raw, n), NEW hold, NEW t \in Int,
           NEW i \in StandsIn(raw, hold, n, t)
    PROVE  StandsIn(raw, hold, n, t) = {i}
<1>1. ASSUME NEW j \in StandsIn(raw, hold, n, t) PROVE j = i
  <2>1. i \in 1..n /\ j \in 1..n /\ raw[i].ts <= t /\ raw[j].ts <= t
    BY DEF StandsIn
  <2>2. raw[j].ts < raw[i].ts \/ (raw[j].ts = raw[i].ts /\ j <= i)
    BY <2>1 DEF StandsIn
  <2>3. raw[i].ts < raw[j].ts \/ (raw[i].ts = raw[j].ts /\ i <= j)
    BY <2>1 DEF StandsIn
  <2> QED
    BY <2>1, <2>2, <2>3 DEF IsLog
<1> QED
  BY <1>1

LEMMA PowerOfOne ==
    ASSUME NEW n, NEW raw, IsLog(raw, n), NEW hold, NEW t \in Int,
           NEW i \in StandsIn(raw, hold, n, t)
    PROVE  PowerIn(raw, hold, n, t) = raw[i].power
<1>1. PICK S : S = StandsIn(raw, hold, n, t)
  OBVIOUS
<1>2. S = {i} /\ i \in 1..n
  BY <1>1, OneStands DEF StandsIn
<1>3. PICK f : f = [k \in S |-> raw[k].power]
  OBVIOUS
<1>4. i \in S /\ IsFiniteSet(S) /\ f[i] \in Int /\ \A y \in S \ {i} : f[y] = 0
  BY <1>2, <1>3, FS_Singleton DEF IsLog
<1>5. SumFunctionOnSet(f, S) = f[i]
  BY <1>4, SumOfOne
<1>6. SumFunction(f) = f[i] /\ f[i] = raw[i].power
  BY <1>2, <1>3, <1>5 DEF SumFunction
<1> QED
  BY <1>1, <1>3, <1>6 DEF PowerIn

LEMMA PowerOfNone ==
    ASSUME NEW n, NEW raw, NEW hold, NEW t, StandsIn(raw, hold, n, t) = {}
    PROVE  PowerIn(raw, hold, n, t) = 0
<1>1. PICK f : f = [k \in StandsIn(raw, hold, n, t) |-> raw[k].power]
  OBVIOUS
<1>2. DOMAIN f = {}
  BY <1>1
<1>3. SumFunction(f) = 0
  BY <1>2, SumEmpty DEF SumFunction
<1> QED
  BY <1>1, <1>3 DEF PowerIn

-----------------------------------------------------------------------------
(* The intervals of a day are the stretches of time in which one reading    *)
(* stands: nothing of the day before is carried in.                         *)

LEMMA NothingCarried ==
    ASSUME NEW n \in Nat, NEW raw, DOMAIN raw = 1..n, \A i \in 1..n : raw[i].ts \in Int,
           NEW hold
    PROVE  DaySamples(raw, Start, End, hold) = CarryOut(Readings(raw, Start, End), End, hold)
<1>1. AreSaved(raw)
  <2>1. IsFiniteSet(1..n) /\ 1..n \subseteq Int
    BY FS_Interval
  <2> QED
    BY <2>1 DEF AreSaved
<1> QED
  BY <1>1, NothingBefore, DayAssumption

Covers(i, t) == i.from <= t /\ t < i.to

DayIntervals(raw, hold) == Intervals(DaySamples(raw, Start, End, hold), hold)

(* The readings of the day: of those with one time, the last saved.         *)
LEMMA DayReadings ==
    ASSUME NEW n, NEW raw, IsLog(raw, n), NEW p, p = Readings(raw, Start, End)
    PROVE  /\ DOMAIN p \subseteq Start..End /\ p = [s \in DOMAIN p |-> p[s]]
           /\ \A s \in DOMAIN p : \E k \in 1..n :
                /\ raw[k].ts = s /\ p[s] = raw[k].power
                /\ \A j \in 1..n : raw[j].ts = s => j <= k
           /\ \A k \in 1..n : raw[k].ts \in Start..End => raw[k].ts \in DOMAIN p
<1>1. n \in Nat /\ DOMAIN raw = 1..n /\ \A i \in 1..n : raw[i].ts \in Int
  BY DEF IsLog
<1>2. Start \in Int /\ End \in Int
  BY DayAssumption
<1> QED
  <2>0. IsFiniteSet(1..n) /\ 1..n \subseteq Int
    BY <1>1, FS_Interval
  <2>1. AreReadings(p, raw, Start, End)
    BY <1>1, <1>2, <2>0, ReadingsAre DEF AreSaved
  <2> QED
    BY <1>1, <2>1 DEF AreReadings

(* Where an interval lies, a reading stands: the one it begins with.        *)
LEMMA IntervalStands ==
    ASSUME NEW n, NEW raw, IsLog(raw, n), NEW hold, IsHold(hold),
           NEW i \in DayIntervals(raw, hold)
    PROVE  /\ i.from \in Int /\ i.to \in Int /\ i.from < i.to
           /\ Start <= i.from /\ i.to <= End
           /\ i = [from |-> i.from, power |-> i.power, to |-> i.to]
           /\ \A t \in Int : Covers(i, t) =>
                \E k \in StandsIn(raw, hold, n, t) :
                   raw[k].ts = i.from /\ raw[k].power = i.power
<1>1. PICK p : p = Readings(raw, Start, End)
  OBVIOUS
<1>2. PICK q : q = CarryOut(p, End, hold)
  OBVIOUS
<1>3. i \in Intervals(q, hold) /\ Start \in Int /\ End \in Int
  BY <1>1, <1>2, NothingCarried, DayAssumption DEF DayIntervals, IsLog
<1>4. /\ DOMAIN p \subseteq Start..End /\ p = [s \in DOMAIN p |-> p[s]]
      /\ \A s \in DOMAIN p : \E k \in 1..n :
           /\ raw[k].ts = s /\ p[s] = raw[k].power
           /\ \A j \in 1..n : raw[j].ts = s => j <= k
      /\ \A k \in 1..n : raw[k].ts \in Start..End => raw[k].ts \in DOMAIN p
  BY <1>1, DayReadings
<1>5. /\ i.from \in DOMAIN p /\ i.to \in Int /\ i.from < i.to /\ i.to <= End
      /\ i = [from |-> i.from, power |-> p[i.from], to |-> i.to]
      /\ \A u \in DOMAIN p : u <= i.from \/ i.to <= u
      /\ hold # Null => i.to <= i.from + hold
  BY <1>2, <1>3, <1>4, HeldIntervals
<1>6. i.from \in Int /\ Start <= i.from /\ i.power = p[i.from]
  BY <1>3, <1>4, <1>5
<1>7. PICK k \in 1..n : /\ raw[k].ts = i.from /\ i.power = raw[k].power
                        /\ \A j \in 1..n : raw[j].ts = i.from => j <= k
  BY <1>4, <1>5, <1>6
<1>8. ASSUME NEW t \in Int, Covers(i, t) PROVE k \in StandsIn(raw, hold, n, t)
  <2>1. i.from <= t /\ t < i.to
    BY <1>8 DEF Covers
  <2>2. ASSUME NEW j \in 1..n, raw[j].ts <= t
        PROVE  raw[j].ts < raw[k].ts \/ (raw[j].ts = raw[k].ts /\ j <= k)
    <3>1. raw[j].ts \in Int
      BY DEF IsLog
    <3>2. CASE raw[j].ts < Start
      BY <1>3, <1>6, <1>7, <3>1, <3>2
    <3>3. CASE Start <= raw[j].ts
      <4>1. raw[j].ts \in Start..End
        BY <1>3, <1>5, <2>1, <2>2, <3>1, <3>3
      <4>2. raw[j].ts <= i.from
        BY <1>4, <1>5, <2>1, <2>2, <3>1, <4>1
      <4> QED
        BY <1>6, <1>7, <3>1, <4>2
    <3> QED
      BY <1>3, <3>1, <3>2, <3>3
  <2>3. hold = Null \/ t < i.from + hold
    BY <1>5, <1>6, <2>1 DEF IsHold
  <2> QED
    BY <1>6, <1>7, <2>1, <2>2, <2>3 DEF StandsIn
<1>9. \A t \in Int : Covers(i, t) =>
        \E l \in StandsIn(raw, hold, n, t) : raw[l].ts = i.from /\ raw[l].power = i.power
  BY <1>7, <1>8
<1>10. i = [from |-> i.from, power |-> i.power, to |-> i.to]
  BY <1>5
<1> QED
  BY <1>3, <1>5, <1>6, <1>9, <1>10

(* Where a reading stands, an interval lies that begins with it.            *)
LEMMA StandsInterval ==
    ASSUME NEW n, NEW raw, IsLog(raw, n), NEW hold, IsHold(hold),
           NEW t \in Int, t < End, NEW k \in StandsIn(raw, hold, n, t)
    PROVE  \E i \in DayIntervals(raw, hold) :
             Covers(i, t) /\ i.from = raw[k].ts /\ i.power = raw[k].power
<1>1. PICK p : p = Readings(raw, Start, End)
  OBVIOUS
<1>2. PICK q : q = CarryOut(p, End, hold)
  OBVIOUS
<1>3. DayIntervals(raw, hold) = Intervals(q, hold) /\ Start \in Int /\ End \in Int
  BY <1>1, <1>2, NothingCarried, DayAssumption DEF DayIntervals, IsLog
<1>4. /\ DOMAIN p \subseteq Start..End /\ p = [s \in DOMAIN p |-> p[s]]
      /\ \A s \in DOMAIN p : \E j \in 1..n :
           /\ raw[j].ts = s /\ p[s] = raw[j].power
           /\ \A l \in 1..n : raw[l].ts = s => l <= j
      /\ \A j \in 1..n : raw[j].ts \in Start..End => raw[j].ts \in DOMAIN p
  BY <1>1, DayReadings
<1>5. PICK s : s = raw[k].ts
  OBVIOUS
<1>6. /\ k \in 1..n /\ s \in Int /\ Start <= s /\ s <= t
      /\ hold # Null => t < s + hold
      /\ \A j \in 1..n : raw[j].ts <= t => raw[j].ts < s \/ (raw[j].ts = s /\ j <= k)
  BY <1>5 DEF StandsIn, IsLog
<1>7. s \in DOMAIN p
  BY <1>3, <1>4, <1>5, <1>6
<1>8. \A u \in DOMAIN p : u <= t => u <= s
  <2> SUFFICES ASSUME NEW u \in DOMAIN p, u <= t PROVE u <= s
    OBVIOUS
  <2>1. PICK j \in 1..n : raw[j].ts = u
    BY <1>4
  <2> QED
    BY <1>6, <1>4, <1>3, <2>1
<1>9. PICK i \in Intervals(q, hold) : i.from = s /\ i.from <= t /\ t < i.to
  BY <1>2, <1>3, <1>4, <1>6, <1>7, <1>8, HeldThere
<1>10. i.power = p[s]
  BY <1>2, <1>3, <1>4, <1>9, HeldIntervals
<1>11. PICK j \in 1..n : /\ raw[j].ts = s /\ p[s] = raw[j].power
                         /\ \A l \in 1..n : raw[l].ts = s => l <= j
  BY <1>4, <1>7
<1>12. j = k
  BY <1>5, <1>6, <1>11
<1> QED
  BY <1>3, <1>5, <1>9, <1>10, <1>11, <1>12 DEF Covers

(* The intervals of a day are finitely many and share no unit of time.      *)
LEMMA DayIntervalsApart ==
    ASSUME NEW n, NEW raw, IsLog(raw, n), NEW hold, IsHold(hold)
    PROVE  /\ AreIntervals(DayIntervals(raw, hold))
           /\ \A i, j \in DayIntervals(raw, hold) : \A t \in Int :
                Covers(i, t) /\ Covers(j, t) => i = j
<1>1. PICK p : p = Readings(raw, Start, End)
  OBVIOUS
<1>2. PICK q : q = CarryOut(p, End, hold)
  OBVIOUS
<1>3. DayIntervals(raw, hold) = Intervals(q, hold) /\ Start \in Int /\ End \in Int
  BY <1>1, <1>2, NothingCarried, DayAssumption DEF DayIntervals, IsLog
<1>4. DOMAIN p \subseteq Start..End /\ p = [s \in DOMAIN p |-> p[s]]
  BY <1>1, DayReadings
<1>5. DOMAIN q \subseteq Int /\ IsFiniteSet(DOMAIN q)
  BY <1>2, <1>3, <1>4, HeldDomain
<1>6. IsFiniteSet(Intervals(q, hold))
  BY <1>5, IntervalsFinite
<1>7. ASSUME NEW i \in DayIntervals(raw, hold)
      PROVE  i.from \in Int /\ i.to \in Int /\ i.power \in Int
  <2>1. i.from \in Int /\ i.to \in Int /\ i.from < i.to
    BY IntervalStands
  <2>2. \E k \in StandsIn(raw, hold, n, i.from) : raw[k].power = i.power
    BY <2>1, IntervalStands DEF Covers
  <2> QED
    BY <2>1, <2>2 DEF StandsIn, IsLog
<1>8. ASSUME NEW i \in DayIntervals(raw, hold), NEW j \in DayIntervals(raw, hold),
             NEW t \in Int, Covers(i, t), Covers(j, t)
      PROVE  i = j
  BY <1>3, <1>5, <1>8, OneInterval DEF Covers
<1> QED
  BY <1>3, <1>6, <1>7, <1>8 DEF AreIntervals

(* The intervals of a day have, at each of its units of time, the power of  *)
(* the reading that stands there, and nothing at other times.               *)
LEMMA DayLevel ==
    ASSUME NEW n, NEW raw, IsLog(raw, n), NEW hold, IsHold(hold), NEW t \in Int
    PROVE  Level(DayIntervals(raw, hold), t) =
             IF t \in Start..(End - 1) THEN PowerIn(raw, hold, n, t) ELSE 0
<1>1. PICK I : I = DayIntervals(raw, hold)
  OBVIOUS
<1>2. /\ AreIntervals(I)
      /\ \A i, j \in I : Covers(i, t) /\ Covers(j, t) => i = j
  BY <1>1, DayIntervalsApart
<1>3. Start \in Int /\ End \in Int
  BY DayAssumption
<1>4. CASE \E i \in I : Covers(i, t)
  <2>1. PICK i \in I : Covers(i, t)
    BY <1>4
  <2>2. Level(I, t) = i.power
    BY <1>2, <2>1, LevelInside DEF Covers
  <2>3. PICK k \in StandsIn(raw, hold, n, t) : raw[k].power = i.power
    BY <1>1, <2>1, IntervalStands
  <2>4. PowerIn(raw, hold, n, t) = i.power
    BY <2>3, PowerOfOne
  <2>5. t \in Start..(End - 1)
    BY <1>1, <1>3, <2>1, IntervalStands DEF Covers
  <2> QED
    BY <1>1, <2>2, <2>4, <2>5
<1>5. CASE ~ \E i \in I : Covers(i, t)
  <2>1. Level(I, t) = 0
    BY <1>2, <1>5, LevelOutside DEF Covers
  <2>2. ASSUME t \in Start..(End - 1) PROVE PowerIn(raw, hold, n, t) = 0
    <3>1. StandsIn(raw, hold, n, t) = {}
      BY <1>1, <1>3, <1>5, <2>2, StandsInterval
    <3> QED
      BY <3>1, PowerOfNone
  <2> QED
    BY <1>1, <2>1, <2>2
<1> QED
  BY <1>4, <1>5

-----------------------------------------------------------------------------
(* What a later query sees of the readings that an earlier one saw is the   *)
(* same.                                                                    *)

LEMMA LogOf ==
    ASSUME NEW raw \in Seq(Reading)
    PROVE  IsLog(raw, Len(raw))
<1>1. Len(raw) \in Nat /\ DOMAIN raw = 1..Len(raw) /\ \A i \in 1..Len(raw) : raw[i] \in Reading
  OBVIOUS
<1>2. \A r \in Reading : r.ts \in Int /\ r.power \in Int
  BY DayAssumption DEF Reading
<1> QED
  BY <1>1, <1>2 DEF IsLog

LEMMA SavedStays ==
    ASSUME NEW raw, NEW log, NEW n \in Nat, \A i \in 1..n : log[i] = raw[i], NEW hold
    PROVE  \A t : /\ StandsIn(log, hold, n, t) = StandsIn(raw, hold, n, t)
                  /\ PowerIn(log, hold, n, t) = PowerIn(raw, hold, n, t)
<1>1. ASSUME NEW t PROVE StandsIn(log, hold, n, t) = StandsIn(raw, hold, n, t)
  BY DEF StandsIn
<1>2. ASSUME NEW t PROVE PowerIn(log, hold, n, t) = PowerIn(raw, hold, n, t)
  <2>1. PICK S : S = StandsIn(raw, hold, n, t)
    OBVIOUS
  <2>2. [i \in S |-> log[i].power] = [i \in S |-> raw[i].power]
    BY <2>1 DEF StandsIn
  <2>3. StandsIn(log, hold, n, t) = S
    BY <1>1, <2>1
  <2> QED
    BY <2>1, <2>2, <2>3, Zenon DEF PowerIn
<1> QED
  BY <1>1, <1>2

LEMMA PowerType ==
    ASSUME NEW n, NEW raw, IsLog(raw, n), NEW hold, NEW t \in Int
    PROVE  PowerIn(raw, hold, n, t) \in Int
<1>1. CASE StandsIn(raw, hold, n, t) = {}
  BY <1>1, PowerOfNone
<1>2. CASE StandsIn(raw, hold, n, t) # {}
  <2>1. PICK i \in StandsIn(raw, hold, n, t) : TRUE
    BY <1>2
  <2>2. n \in Nat /\ \A j \in 1..n : raw[j].ts \in Int /\ raw[j].power \in Int
    BY DEF IsLog
  <2>3. i \in 1..n
    BY <2>1 DEF StandsIn
  <2>4. PowerIn(raw, hold, n, t) = raw[i].power
    BY <2>1, PowerOfOne
  <2> QED
    BY <2>2, <2>3, <2>4
<1> QED
  BY <1>1, <1>2

-----------------------------------------------------------------------------
(* The market entry of a time, and the stretch of time over which it stays  *)
(* the same.                                                                *)

EntryIn(m, t) ==
    LET holds == {i \in DOMAIN m : m[i].from <= t /\ t < m[i].to}
    IN  IF holds = {} THEN Null ELSE m[Min(holds)]

LEMMA EntryAtIs ==
    /\ \A t : MarketEntryAt(t) = EntryIn(market, t)
    /\ (\A t : MarketEntryAt(t) = EntryIn(market, t))'
BY Zenon DEF MarketEntryAt, EntryIn

IsFirst(m, t, k) ==
    /\ k \in DOMAIN m /\ m[k].from <= t /\ t < m[k].to
    /\ \A j \in DOMAIN m : j < k => ~(m[j].from <= t /\ t < m[j].to)

LEMMA FirstEntry ==
    ASSUME NEW m \in Markets, NEW t \in Int, EntryIn(m, t) # Null
    PROVE  \E k \in DOMAIN m : IsFirst(m, t, k) /\ EntryIn(m, t) = m[k]
<1>1. PICK holds : holds = {i \in DOMAIN m : m[i].from <= t /\ t < m[i].to}
  OBVIOUS
<1>2. EntryIn(m, t) = IF holds = {} THEN Null ELSE m[Min(holds)]
  BY <1>1, Zenon DEF EntryIn
<1>3. PICK n \in Nat : DOMAIN m = 1..n
  BY MarketAssumption
<1>4. holds \in SUBSET (1..n) /\ holds \subseteq Int /\ holds # {}
  BY <1>1, <1>2, <1>3
<1>5. IsFiniteSet(holds)
  <2>1. IsFiniteSet(1..n)
    BY <1>3, FS_Interval
  <2> QED
    BY <1>4, <2>1, FS_Subset
<1>6. Min(holds) \in holds /\ \A y \in holds : Min(holds) <= y
  BY <1>4, <1>5, LeastTime
<1>7. PICK k : k = Min(holds)
  OBVIOUS
<1>8. k \in Int /\ \A j \in holds : k <= j /\ j \in Int
  BY <1>4, <1>6, <1>7
<1>9. IsFirst(m, t, k)
  <2>1. k \in DOMAIN m /\ m[k].from <= t /\ t < m[k].to
    BY <1>1, <1>6, <1>7
  <2>2. ASSUME NEW j \in DOMAIN m, j < k, m[j].from <= t /\ t < m[j].to PROVE FALSE
    <3>1. j \in holds
      BY <1>1, <2>2
    <3> QED
      BY <1>8, <2>2, <3>1
  <2> QED
    BY <2>1, <2>2 DEF IsFirst
<1> QED
  BY <1>2, <1>4, <1>7, <1>9 DEF IsFirst

LEMMA EntryIs ==
    ASSUME NEW m \in Markets, NEW t \in Int, NEW k, IsFirst(m, t, k)
    PROVE  EntryIn(m, t) = m[k]
<1>1. PICK holds : holds = {i \in DOMAIN m : m[i].from <= t /\ t < m[i].to}
  OBVIOUS
<1>2. EntryIn(m, t) = IF holds = {} THEN Null ELSE m[Min(holds)]
  BY <1>1, Zenon DEF EntryIn
<1>3. PICK n \in Nat : DOMAIN m = 1..n
  BY MarketAssumption
<1>4. holds \in SUBSET (1..n) /\ holds \subseteq Int /\ k \in holds
  BY <1>1, <1>3 DEF IsFirst
<1>5. IsFiniteSet(holds)
  <2>1. IsFiniteSet(1..n)
    BY <1>3, FS_Interval
  <2> QED
    BY <1>4, <2>1, FS_Subset
<1>6. Min(holds) \in holds /\ \A y \in holds : Min(holds) <= y
  BY <1>4, <1>5, LeastTime
<1>7. PICK l : l = Min(holds)
  OBVIOUS
<1>8. l \in holds /\ l <= k /\ l \in Int /\ k \in Int
  BY <1>4, <1>6, <1>7
<1>9. ~(l < k)
  <2>1. l \in DOMAIN m /\ m[l].from <= t /\ t < m[l].to
    BY <1>1, <1>8
  <2> QED
    BY <2>1 DEF IsFirst
<1>10. l = k
  BY <1>8, <1>9
<1> QED
  BY <1>2, <1>4, <1>7, <1>10

(* The first entry that holds is the same until it ends: the entries are    *)
(* sorted by their start, so that no earlier one begins to hold.            *)
LEMMA EntryStays ==
    ASSUME NEW m \in Markets, NEW t \in Int, EntryIn(m, t) # Null,
           NEW u \in Int, t <= u, u < EntryIn(m, t).to
    PROVE  EntryIn(m, u) = EntryIn(m, t)
<1>1. PICK k \in DOMAIN m : IsFirst(m, t, k) /\ EntryIn(m, t) = m[k]
  BY FirstEntry
<1>2. PICK n \in Nat : DOMAIN m = 1..n
  BY MarketAssumption
<1>3. \A i \in DOMAIN m : m[i].from \in Int /\ m[i].to \in Int
  BY MarketAssumption
<1>4. \A i, j \in DOMAIN m : i < j => m[i].from <= m[j].from
  BY MarketAssumption
<1>5. IsFirst(m, u, k)
  <2>1. m[k].from <= u /\ u < m[k].to
    BY <1>1, <1>3 DEF IsFirst
  <2>2. ASSUME NEW j \in DOMAIN m, j < k, m[j].from <= u, u < m[j].to PROVE FALSE
    <3>1. m[j].from <= m[k].from
      BY <1>4, <2>2
    <3>2. m[j].from <= t /\ t < m[j].to
      BY <1>1, <1>3, <2>2, <3>1 DEF IsFirst
    <3> QED
      BY <1>1, <2>2, <3>2 DEF IsFirst
  <2> QED
    BY <2>1, <2>2 DEF IsFirst
<1> QED
  BY <1>1, <1>5, EntryIs

LEMMA EntryType ==
    ASSUME NEW m \in Markets, NEW t \in Int, EntryIn(m, t) # Null
    PROVE  /\ EntryIn(m, t).to \in Int /\ t < EntryIn(m, t).to
           /\ EnergyPrice(EntryIn(m, t)) # Null => EnergyPrice(EntryIn(m, t)) \in Int
<1>1. PICK k \in DOMAIN m : IsFirst(m, t, k) /\ EntryIn(m, t) = m[k]
  BY FirstEntry
<1>2. m[k].to \in Int /\ m[k].price \in Int
  BY MarketAssumption
<1> QED
  BY <1>1, <1>2 DEF IsFirst, EnergyPrice

LEMMA NoMarket == ASSUME NEW t PROVE EntryIn(<< >>, t) = Null
<1>1. {i \in DOMAIN << >> : << >>[i].from <= t /\ t < << >>[i].to} = {}
  OBVIOUS
<1> QED
  BY <1>1, Zenon DEF EntryIn

(* A segment ends after it begins, and within its hour, its market entry    *)
(* and its interval.                                                        *)
EndOf(i, t, entry) == Min({i.to, entry.to, HourOf(t) + Hour})

LEMMA LeastOfThree ==
    ASSUME NEW a \in Int, NEW b \in Int, NEW c \in Int
    PROVE  /\ Min({a, b, c}) \in {a, b, c}
           /\ Min({a, b, c}) <= a /\ Min({a, b, c}) <= b /\ Min({a, b, c}) <= c
<1>1. PICK S : S = {a, b, c}
  OBVIOUS
<1>2. IsFiniteSet(S)
  <2>1. IsFiniteSet({a, b} \cup {c})
    <3>1. IsFiniteSet({a} \cup {b})
      BY FS_Singleton, FS_Union
    <3>2. IsFiniteSet({c}) /\ {a, b} = {a} \cup {b}
      BY FS_Singleton
    <3> QED
      BY <3>1, <3>2, FS_Union
  <2> QED
    BY <1>1, <2>1
<1>3. Min(S) \in S /\ \A y \in S : Min(S) <= y
  BY <1>1, <1>2, LeastTime
<1> QED
  BY <1>1, <1>3

LEMMA SegmentWithin ==
    ASSUME NEW m \in Markets, NEW t \in Int, EntryIn(m, t) # Null,
           NEW i, i.to \in Int, t < i.to, NEW to, to = EndOf(i, t, EntryIn(m, t))
    PROVE  /\ to \in Int /\ t < to /\ to <= i.to
           /\ \A u \in t..(to - 1) :
                HourOf(u) = HourOf(t) /\ EntryIn(m, u) = EntryIn(m, t)
<1>1. EntryIn(m, t).to \in Int /\ t < EntryIn(m, t).to
  BY EntryType
<1>2. /\ HourOf(t) \in Int /\ HourOf(t) <= t /\ t < HourOf(t) + Hour
      /\ \A u \in Int : HourOf(t) <= u /\ u < HourOf(t) + Hour => HourOf(u) = HourOf(t)
  BY HourOfTime
<1>3. HourOf(t) + Hour \in Int
  BY <1>2, HourAssumption
<1>4. /\ to \in {i.to, EntryIn(m, t).to, HourOf(t) + Hour}
      /\ to <= i.to /\ to <= EntryIn(m, t).to /\ to <= HourOf(t) + Hour
  BY <1>1, <1>3, LeastOfThree DEF EndOf
<1>5. to \in Int /\ t < to /\ to <= i.to
  BY <1>1, <1>2, <1>3, <1>4
<1>6. ASSUME NEW u \in t..(to - 1)
      PROVE  HourOf(u) = HourOf(t) /\ EntryIn(m, u) = EntryIn(m, t)
  <2>1. u \in Int /\ t <= u /\ u < EntryIn(m, t).to /\ u < HourOf(t) + Hour
    BY <1>1, <1>3, <1>4, <1>5
  <2> QED
    BY <1>2, <2>1, EntryStays
<1> QED
  BY <1>5, <1>6

-----------------------------------------------------------------------------
(* The walk of the revenue loop over the intervals of the second query.     *)

Second == DayIntervals(stored, Hold)

KindsInv ==
    /\ stored \in Seq(Reading) /\ Len(stored) <= MaxReadings
    /\ expected \in Expecteds /\ market \in Markets
    /\ pc \in {"energy", "revenue", "intervals", "segments", "done"}
    /\ read1 \in 0..Len(stored) /\ read2 \in 0..Len(stored)

WalkInv ==
    /\ cursor \in Start..End
    /\ todo \subseteq Second
    /\ pc \in {"energy", "revenue", "done"} => todo = {}
    /\ pc \in {"intervals", "segments", "done"} => read2 = Len(stored)
    /\ pc # "segments" => interval = Null
    /\ pc = "segments" =>
         /\ interval \in Second \ todo
         /\ interval.from <= cursor /\ cursor <= interval.to
         /\ \A u \in interval.from..(cursor - 1) : EntryIn(market, u) # Null

LEMMA LogAndHold ==
    ASSUME KindsInv PROVE IsLog(stored, Len(stored)) /\ IsHold(Hold)
<1>1. IsLog(stored, Len(stored))
  BY LogOf DEF KindsInv
<1>2. expected = Null \/ expected \in Int
  BY DayAssumption DEF KindsInv
<1> QED
  BY <1>1, <1>2, HoldType DEF Hold

LEMMA SecondIs ==
    ASSUME KindsInv, NEW i \in Second
    PROVE  /\ i.from \in Int /\ i.to \in Int /\ i.from < i.to
           /\ Start <= i.from /\ i.to <= End /\ i \in Interval
           /\ \A t \in Int : Covers(i, t) =>
                \E k \in StandsIn(stored, Hold, Len(stored), t) :
                   stored[k].ts = i.from /\ stored[k].power = i.power
<1>1. IsLog(stored, Len(stored)) /\ IsHold(Hold) /\ i \in DayIntervals(stored, Hold)
  BY LogAndHold DEF Second
<1>2. /\ i.from \in Int /\ i.to \in Int /\ i.from < i.to
      /\ Start <= i.from /\ i.to <= End
      /\ i = [from |-> i.from, power |-> i.power, to |-> i.to]
      /\ \A t \in Int : Covers(i, t) =>
           \E k \in StandsIn(stored, Hold, Len(stored), t) :
              stored[k].ts = i.from /\ stored[k].power = i.power
  BY <1>1, IntervalStands
<1>3. PICK k \in StandsIn(stored, Hold, Len(stored), i.from) : stored[k].power = i.power
  BY <1>2 DEF Covers
<1>4. k \in 1..Len(stored)
  BY <1>3 DEF StandsIn
<1>5. i.power \in Powers
  <2>1. stored[k] \in Reading
    BY <1>4 DEF KindsInv
  <2> QED
    BY <1>3, <2>1 DEF Reading
<1>6. i \in Interval
  BY <1>2, <1>5 DEF Interval
<1> QED
  BY <1>2, <1>6

LEMMA SegmentIs ==
    ASSUME KindsInv, WalkInv, pc = "segments", cursor < interval.to,
           MarketEntryAt(cursor) # Null
    PROVE  /\ MarketEntryAt(cursor) = EntryIn(market, cursor)
           /\ SegmentEnd(cursor, MarketEntryAt(cursor)) \in Int
           /\ cursor < SegmentEnd(cursor, MarketEntryAt(cursor))
           /\ SegmentEnd(cursor, MarketEntryAt(cursor)) <= interval.to
           /\ \A u \in cursor..(SegmentEnd(cursor, MarketEntryAt(cursor)) - 1) :
                HourOf(u) = HourOf(cursor) /\ EntryIn(market, u) = EntryIn(market, cursor)
<1>1. PICK i : i = interval
  OBVIOUS
<1>2. PICK t : t = cursor
  OBVIOUS
<1>3. i \in Second /\ t \in Int /\ t < i.to /\ market \in Markets
  BY <1>1, <1>2, DayAssumption DEF WalkInv, KindsInv
<1>4. i.to \in Int
  BY <1>3, SecondIs
<1>5. MarketEntryAt(cursor) = EntryIn(market, t) /\ EntryIn(market, t) # Null
  BY <1>2, EntryAtIs
<1>6. SegmentEnd(cursor, MarketEntryAt(cursor)) = EndOf(i, t, EntryIn(market, t))
  BY <1>1, <1>2, <1>5, Zenon DEF SegmentEnd, EndOf
<1>7. PICK to : to = EndOf(i, t, EntryIn(market, t))
  OBVIOUS
<1>8. /\ to \in Int /\ t < to /\ to <= i.to
      /\ \A u \in t..(to - 1) : HourOf(u) = HourOf(t) /\ EntryIn(market, u) = EntryIn(market, t)
  BY <1>3, <1>4, <1>5, <1>7, SegmentWithin
<1>9. SegmentEnd(cursor, MarketEntryAt(cursor)) = to
  BY <1>6, <1>7
<1> QED
  BY <1>1, <1>2, <1>5, <1>8, <1>9

(* One step keeps the kinds of the values.                                  *)
LEMMA KindsStep ==
    ASSUME KindsInv, [Next]_vars PROVE KindsInv'
<1>1. ASSUME NEW r \in Reading, Save(r) PROVE KindsInv'
  <2>1. stored' \in Seq(Reading) /\ Len(stored') = Len(stored) + 1 /\ Len(stored) \in Nat
    BY <1>1 DEF KindsInv, Save
  <2>2. Len(stored') <= MaxReadings
    BY <1>1, <2>1, DayAssumption DEF Save
  <2>3. read1' \in 0..Len(stored') /\ read2' \in 0..Len(stored')
    BY <1>1, <2>1 DEF KindsInv, Save
  <2> QED
    BY <1>1, <2>1, <2>2, <2>3 DEF KindsInv, Save, given
<1>2. CASE BuildEnergy
  BY <1>2 DEF KindsInv, BuildEnergy, given
<1>3. CASE BuildRevenue
  BY <1>3 DEF KindsInv, BuildRevenue, given
<1>4. CASE NextInterval
  BY <1>4 DEF KindsInv, NextInterval, given
<1>5. CASE LastInterval
  BY <1>5 DEF KindsInv, LastInterval, given
<1>6. CASE LeaveInterval
  BY <1>6 DEF KindsInv, LeaveInterval, given
<1>7. CASE MatchSegment
  BY <1>7 DEF KindsInv, MatchSegment, given
<1>8. CASE UNCHANGED vars
  BY <1>8 DEF KindsInv, vars, given
<1> QED
  BY <1>1, <1>2, <1>3, <1>4, <1>5, <1>6, <1>7, <1>8 DEF Next, Report

LEMMA WalkInit ==
    ASSUME Init PROVE KindsInv /\ WalkInv
<1>1. stored \in Seq(Reading) /\ Len(stored) = 0
  BY DEF Init
<1>2. KindsInv
  BY <1>1, DayAssumption DEF Init, KindsInv
<1>3. Start \in Start..End
  BY DayAssumption
<1>4. WalkInv
  BY <1>3 DEF Init, WalkInv
<1> QED
  BY <1>2, <1>4

(* The readings, the hold time and the market stay after the second query.  *)
LEMMA SecondStays ==
    ASSUME UNCHANGED <<stored, given>>
    PROVE  /\ Second' = Second /\ Hold' = Hold /\ Len(stored)' = Len(stored)
           /\ market' = market /\ expected' = expected
  BY DEF given, Second, Hold

LEMMA WalkStep ==
    ASSUME KindsInv, WalkInv, [Next]_vars PROVE WalkInv'
<1>1. ASSUME NEW r \in Reading, Save(r) PROVE WalkInv'
  BY <1>1 DEF WalkInv, Save
<1>2. CASE BuildEnergy
  BY <1>2, SecondStays DEF WalkInv, BuildEnergy
<1>3. CASE BuildRevenue
  <2>1. UNCHANGED <<stored, given>> /\ pc = "revenue" /\ cursor' = cursor /\ interval' = interval
    BY <1>3 DEF BuildRevenue
  <2>2. read2' = Len(stored)
    BY <1>3 DEF BuildRevenue
  <2>3. \/ pc' = "done" /\ todo' = todo
        \/ pc' = "intervals" /\ todo' = Second
    BY <1>3, Zenon DEF BuildRevenue, Samples, Second, DayIntervals
  <2> QED
    BY <2>1, <2>2, <2>3, SecondStays DEF WalkInv
<1>4. CASE NextInterval
  <2>1. UNCHANGED <<stored, given>> /\ pc = "intervals" /\ pc' = "segments" /\ read2' = read2
    BY <1>4 DEF NextInterval
  <2>2. PICK i \in todo : interval' = i /\ cursor' = i.from /\ todo' = todo \ {i}
    BY <1>4 DEF NextInterval
  <2>3. i \in Second /\ i.from \in Int /\ i.to \in Int /\ i.from < i.to /\ Start <= i.from /\ i.to <= End
    BY <2>2, SecondIs DEF WalkInv
  <2>4. cursor' \in Start..End /\ i.from..(i.from - 1) = {}
    BY <2>2, <2>3, DayAssumption
  <2> QED
    BY <2>1, <2>2, <2>3, <2>4, SecondStays DEF WalkInv
<1>5. CASE LastInterval
  BY <1>5, SecondStays DEF WalkInv, LastInterval, result
<1>6. CASE LeaveInterval
  BY <1>6, SecondStays DEF WalkInv, LeaveInterval, result
<1>7. CASE MatchSegment
  <2> DEFINE to == SegmentEnd(cursor, MarketEntryAt(cursor))
  <2>1. UNCHANGED <<stored, given>> /\ pc = "segments" /\ pc' = pc /\ read2' = read2
        /\ todo' = todo /\ interval' = interval
        /\ cursor < interval.to /\ MarketEntryAt(cursor) # Null
    BY <1>7 DEF MatchSegment
  <2>2. cursor' = to
    BY <1>7, Zenon DEF MatchSegment
  <2>3. /\ to \in Int /\ cursor < to /\ to <= interval.to
        /\ \A u \in cursor..(to - 1) : EntryIn(market, u) = EntryIn(market, cursor)
        /\ EntryIn(market, cursor) # Null
    BY <2>1, SegmentIs
  <2> HIDE DEF to
  <2>4. interval.from \in Int /\ interval.to \in Int /\ interval.to <= End
    BY <2>1, SecondIs DEF WalkInv
  <2>5. cursor \in Int /\ Start <= cursor /\ Start \in Int /\ End \in Int
    BY DayAssumption DEF WalkInv
  <2>6. to \in Start..End
    BY <2>3, <2>4, <2>5
  <2>7. \A u \in interval.from..(to - 1) : EntryIn(market, u) # Null
    BY <2>1, <2>3, <2>4, <2>5 DEF WalkInv
  <2>8. interval.from <= to
    BY <2>1, <2>3, <2>4, <2>5 DEF WalkInv
  <2> QED
    BY <2>1, <2>2, <2>3, <2>6, <2>7, <2>8, SecondStays DEF WalkInv
<1>8. CASE UNCHANGED vars
  BY <1>8, SecondStays DEF WalkInv, vars
<1> QED
  BY <1>1, <1>2, <1>3, <1>4, <1>5, <1>6, <1>7, <1>8 DEF Next, Report

LEMMA WalkHolds == Spec => [](KindsInv /\ WalkInv)
<1>1. Init => KindsInv /\ WalkInv
  BY WalkInit
<1>2. KindsInv /\ WalkInv /\ [Next]_vars => (KindsInv /\ WalkInv)'
  BY KindsStep, WalkStep
<1> QED
  BY <1>1, <1>2, PTL DEF Spec

(***************************************************************************)
(* The loop never leaves an interval because a segment would be empty,     *)
(* for every list of market entries sorted by their start, however they    *)
(* overlap (SegmentsAdvance).                                              *)
(***************************************************************************)
THEOREM LoopAdvances == Spec => []SegmentsAdvance
<1>1. KindsInv /\ WalkInv => SegmentsAdvance
  BY SegmentIs, DayAssumption DEF SegmentsAdvance, Priced, WalkInv
<1> QED
  BY <1>1, WalkHolds, PTL

-----------------------------------------------------------------------------
(* The energy of the hours of the day.                                      *)

HourPower(raw, hold, n, h) == SumFunction([t \in Units(h) |-> PowerIn(raw, hold, n, t)])

LEMMA UnitsAre ==
    ASSUME NEW h \in Int
    PROVE  /\ Units(h) = {t \in Start..(End - 1) : h <= t /\ t < h + Hour}
           /\ IsFiniteSet(Units(h)) /\ Units(h) \subseteq Int
           /\ Units(h) \subseteq h..(h + Hour - 1)
<1>1. Start \in Int /\ End \in Int /\ Hour \in Int
  BY DayAssumption, HourAssumption
<1>2. Units(h) = {t \in Start..(End - 1) : h <= t /\ t < h + Hour}
  BY <1>1 DEF Units
<1>3. IsFiniteSet(Start..(End - 1))
  <2>1. End - 1 \in Int
    BY <1>1
  <2> QED
    BY <1>1, <2>1, FS_Interval
<1>4. Units(h) \in SUBSET (Start..(End - 1)) /\ Units(h) \subseteq h..(h + Hour - 1)
  BY DEF Units
<1>5. IsFiniteSet(Units(h))
  BY <1>3, <1>4, FS_Subset
<1>6. Units(h) \subseteq Int
  BY <1>1, <1>4
<1> QED
  BY <1>2, <1>4, <1>5, <1>6

LEMMA HoursAre ==
    /\ IsFiniteSet(Hours)
    /\ \A h \in Hours : h \in Int /\ HourOf(h) = h
    /\ \A t \in Start..End : HourOf(t) \in Hours
<1>1. Start \in Int /\ End \in Int
  BY DayAssumption
<1>2. PICK f : f = [t \in Start..End |-> HourOf(t)]
  OBVIOUS
<1>3. f \in Surjection(Start..End, Hours)
  BY <1>2 DEF Surjection, Hours
<1>4. IsFiniteSet(Start..End)
  BY <1>1, FS_Interval
<1>5. IsFiniteSet(Hours)
  BY <1>3, <1>4, FS_Surjection
<1>6. ASSUME NEW h \in Hours PROVE h \in Int /\ HourOf(h) = h
  <2>1. PICK t \in Start..End : h = HourOf(t)
    BY DEF Hours
  <2>2. /\ t \in Int /\ h \in Int /\ h <= t /\ t < h + Hour
        /\ \A u \in Int : h <= u /\ u < h + Hour => HourOf(u) = h
    BY <1>1, <2>1, HourOfTime
  <2>3. h < h + Hour
    BY <2>2, HourAssumption
  <2> QED
    BY <2>2, <2>3
<1> QED
  BY <1>5, <1>6 DEF Hours

IsDayEnergy(f, raw, hold, n) ==
    /\ \A h \in DOMAIN f : h \in Int /\ HourOf(h) = h /\ f[h] \in Int
    /\ DOMAIN f \subseteq Hours
    /\ \A t \in Start..(End - 1) :
         StandsIn(raw, hold, n, t) # {} => HourOf(t) \in DOMAIN f
    /\ \A h \in Hours : At(f, h) = HourPower(raw, hold, n, h)

LEMMA DayEnergy ==
    ASSUME NEW n, NEW raw, IsLog(raw, n), NEW hold, IsHold(hold)
    PROVE  IsDayEnergy(IntegrateHourly(DayIntervals(raw, hold)), raw, hold, n)
<1>1. PICK I : I = DayIntervals(raw, hold)
  OBVIOUS
<1>2. PICK f : f = IntegrateHourly(I)
  OBVIOUS
<1>3. AreIntervals(I)
  BY <1>1, DayIntervalsApart
<1>4. /\ \A h \in DOMAIN f : h \in Int /\ HourOf(h) = h /\ f[h] \in Int
      /\ \A h \in DOMAIN f : \E i \in I : \E t \in Int :
           HourOf(t) = h /\ i.from <= t /\ t < i.to
      /\ \A i \in I : \A t \in Int :
           i.from <= t /\ t < i.to => HourOf(t) \in DOMAIN f
      /\ \A h \in Int : HourOf(h) = h =>
           (IF h \in DOMAIN f THEN f[h] ELSE 0) = Levels(I, h)
  BY <1>2, <1>3, HourEnergy
<1>5. Start \in Int /\ End \in Int
  BY DayAssumption
<1>6. ASSUME NEW h \in DOMAIN f PROVE h \in Hours
  <2>1. PICK i \in I : \E t \in Int : HourOf(t) = h /\ i.from <= t /\ t < i.to
    BY <1>4
  <2>2. PICK t \in Int : HourOf(t) = h /\ i.from <= t /\ t < i.to
    BY <2>1
  <2>3. i.from \in Int /\ i.to \in Int /\ Start <= i.from /\ i.to <= End
    BY <1>1, IntervalStands
  <2>4. t \in Start..End
    BY <1>5, <2>2, <2>3
  <2> QED
    BY <2>2, <2>4, HoursAre
<1>7. ASSUME NEW t \in Start..(End - 1), StandsIn(raw, hold, n, t) # {}
      PROVE  HourOf(t) \in DOMAIN f
  <2>1. PICK k \in StandsIn(raw, hold, n, t) : TRUE
    BY <1>7
  <2>2. t \in Int /\ t < End
    BY <1>5
  <2>3. PICK i \in I : Covers(i, t)
    BY <1>1, <2>1, <2>2, StandsInterval
  <2> QED
    BY <1>4, <2>2, <2>3 DEF Covers
<1>8. ASSUME NEW h \in Hours PROVE At(f, h) = HourPower(raw, hold, n, h)
  <2>1. h \in Int /\ HourOf(h) = h /\ Hour \in Int
    BY HoursAre, HourAssumption
  <2>2. PICK S : S = h..(h + Hour - 1)
    OBVIOUS
  <2>3. IsFiniteSet(S) /\ S \subseteq Int
    <3>1. h + Hour - 1 \in Int
      BY <2>1
    <3> QED
      BY <2>1, <2>2, <3>1, FS_Interval
  <2>4. PICK T : T = Units(h)
    OBVIOUS
  <2>5. T \in SUBSET S /\ IsFiniteSet(T) /\ T = S \cap (Start..(End - 1))
    BY <2>1, <2>2, <2>4, UnitsAre DEF Units
  <2>6. PICK a : a = [t \in S |-> Level(I, t)]
    OBVIOUS
  <2>7. PICK b : b = [t \in T |-> PowerIn(raw, hold, n, t)]
    OBVIOUS
  <2>8. ASSUME NEW t \in S
        PROVE a[t] \in Int /\ a[t] = IF t \in T THEN PowerIn(raw, hold, n, t) ELSE 0
    <3>1. Level(I, t) \in Int
      BY <1>3, LevelType
    <3>2. Level(I, t) = IF t \in Start..(End - 1) THEN PowerIn(raw, hold, n, t) ELSE 0
      BY <1>1, <2>3, DayLevel
    <3> QED
      BY <2>5, <2>6, <3>1, <3>2
  <2>9. SumFunctionOnSet(a, S) = SumFunctionOnSet(a, T)
    BY <2>3, <2>5, <2>8, SumSupport
  <2>10. SumFunctionOnSet(a, T) = SumFunctionOnSet(b, T)
    <3>1. \A t \in T : a[t] \in Int /\ a[t] = b[t]
      BY <2>5, <2>7, <2>8
    <3> QED
      BY <2>5, <3>1, SumSame
  <2>11. SumFunction(a) = SumFunction(b)
    BY <2>6, <2>7, <2>9, <2>10 DEF SumFunction
  <2>12. SumFunction(a) = Levels(I, h)
    BY <2>2, <2>6, Zenon DEF Levels
  <2>13. SumFunction(b) = HourPower(raw, hold, n, h)
    BY <2>4, <2>7, Zenon DEF HourPower
  <2>14. At(f, h) = Levels(I, h)
    BY <1>4, <2>1 DEF At
  <2> QED
    BY <2>11, <2>12, <2>13, <2>14
<1>9. IsDayEnergy(f, raw, hold, n)
  BY <1>4, <1>6, <1>7, <1>8 DEF IsDayEnergy
<1> QED
  BY <1>1, <1>2, <1>9

LEMMA EnergyKept ==
    ASSUME NEW f, NEW raw, NEW log, NEW n \in Nat, NEW hold,
           \A i \in 1..n : log[i] = raw[i], IsDayEnergy(f, raw, hold, n)
    PROVE  IsDayEnergy(f, log, hold, n)
<1>1. \A t : /\ StandsIn(log, hold, n, t) = StandsIn(raw, hold, n, t)
             /\ PowerIn(log, hold, n, t) = PowerIn(raw, hold, n, t)
  BY SavedStays
<1>2. ASSUME NEW h PROVE HourPower(log, hold, n, h) = HourPower(raw, hold, n, h)
  <2>1. [t \in Units(h) |-> PowerIn(log, hold, n, t)]
          = [t \in Units(h) |-> PowerIn(raw, hold, n, t)]
    BY <1>1
  <2> QED
    BY <2>1, Zenon DEF HourPower
<1> QED
  BY <1>1, <1>2 DEF IsDayEnergy

EnergyInv ==
    IF pc = "energy" THEN hours = Empty ELSE IsDayEnergy(hours, stored, Hold, read1)

LEMMA EnergyStep ==
    ASSUME KindsInv, EnergyInv, [Next]_vars PROVE EnergyInv'
<1>1. ASSUME NEW r \in Reading, Save(r) PROVE EnergyInv'
  <2>1. /\ stored \in Seq(Reading) /\ stored' = Append(stored, r)
        /\ UNCHANGED <<given, hours, read1, pc>> /\ read1 \in 0..Len(stored)
    BY <1>1 DEF KindsInv, Save
  <2>2. \A i \in 1..Len(stored) : stored'[i] = stored[i]
    BY <2>1
  <2>3. read1 \in Nat /\ \A i \in 1..read1 : stored'[i] = stored[i]
    BY <2>1, <2>2
  <2>4. Hold' = Hold
    BY <2>1 DEF Hold, given
  <2>5. ASSUME pc # "energy" PROVE IsDayEnergy(hours, stored', Hold, read1)
    BY <2>3, <2>5, EnergyKept DEF EnergyInv
  <2> QED
    BY <2>1, <2>4, <2>5 DEF EnergyInv
<1>2. CASE BuildEnergy
  <2>1. UNCHANGED <<stored, given>> /\ pc' = "revenue" /\ read1' = Len(stored)
    BY <1>2 DEF BuildEnergy
  <2>2. hours' = IntegrateHourly(DayIntervals(stored, Hold))
    BY <1>2, Zenon DEF BuildEnergy, Samples, DayIntervals
  <2>3. IsDayEnergy(hours', stored, Hold, Len(stored))
    BY <2>2, LogAndHold, DayEnergy
  <2> QED
    BY <2>1, <2>3, SecondStays DEF EnergyInv
<1>3. ASSUME UNCHANGED <<stored, given, hours, read1>>, pc # "energy" \/ pc' = pc, pc' # "energy" \/ pc' = pc
      PROVE  EnergyInv'
  BY <1>3, SecondStays DEF EnergyInv
<1>4. CASE BuildRevenue
  BY <1>3, <1>4 DEF BuildRevenue
<1>5. CASE NextInterval
  BY <1>3, <1>5 DEF NextInterval, result
<1>6. CASE LastInterval
  BY <1>3, <1>6 DEF LastInterval, result
<1>7. CASE LeaveInterval
  BY <1>3, <1>7 DEF LeaveInterval, result
<1>8. CASE MatchSegment
  BY <1>3, <1>8 DEF MatchSegment
<1>9. CASE UNCHANGED vars
  BY <1>3, <1>9 DEF vars
<1> QED
  BY <1>1, <1>2, <1>4, <1>5, <1>6, <1>7, <1>8, <1>9 DEF Next, Report

LEMMA EnergyHolds == Spec => []EnergyInv
<1>1. Init => EnergyInv
  BY DEF Init, EnergyInv
<1>2. KindsInv /\ EnergyInv /\ [Next]_vars => EnergyInv'
  BY EnergyStep
<1> QED
  BY <1>1, <1>2, WalkHolds, PTL DEF Spec

(***************************************************************************)
(* The energy of every hour is the sum of the power that stood in it, for  *)
(* any number of readings in any order, any hold time and any day          *)
(* (DayExact).                                                             *)
(***************************************************************************)
THEOREM DayIsExact == Spec => []DayExact
<1>1. EnergyInv => DayExact
  <2> SUFFICES ASSUME EnergyInv, pc = "done", NEW h \in Hours
               PROVE  At(hours, h) = SumFunction([t \in Units(h) |-> PowerAt(read1, t)])
    BY Zenon DEF DayExact
  <2>1. At(hours, h) = HourPower(stored, Hold, read1, h)
    BY DEF EnergyInv, IsDayEnergy
  <2>2. \A t : PowerAt(read1, t) = PowerIn(stored, Hold, read1, t)
    BY PowerAtIs
  <2>3. [t \in Units(h) |-> PowerAt(read1, t)]
          = [t \in Units(h) |-> PowerIn(stored, Hold, read1, t)]
    BY <2>2
  <2> QED
    BY <2>1, <2>3, Zenon DEF HourPower
<1> QED
  BY <1>1, EnergyHolds, PTL

-----------------------------------------------------------------------------
(* The books of the revenue loop: what it has counted after the units of    *)
(* time of the set C.                                                       *)

InHour(C, h) == {t \in C : HourOf(t) = h}
HoursOf(C) == {HourOf(t) : t \in C}

Books(C, p, w, x, r, tot) ==
    /\ DOMAIN x = HoursOf(C) /\ DOMAIN r = DOMAIN x
    /\ \A h \in DOMAIN x : x[h] \in Nat /\ r[h] \in Int
    /\ \A h \in Hours : /\ At(x, h) = SumFunctionOnSet(p, InHour(C, h))
                        /\ At(r, h) = SumFunctionOnSet(w, InHour(C, h))
    /\ tot \in Numbers
    /\ tot.export = SumFunctionOnSet(p, C) /\ tot.revenue = SumFunctionOnSet(w, C)
    /\ tot.matched = 0 <=> C = {}

LEMMA EmptyBooks ==
    ASSUME NEW p, NEW w PROVE Books({}, p, w, Empty, Empty, NoTotals)
<1>1. DOMAIN Empty = {}
  BY DEF Empty
<1>2. SumFunctionOnSet(p, {}) = 0 /\ SumFunctionOnSet(w, {}) = 0
  BY SumEmpty
<1>3. \A h : InHour({}, h) = {} /\ At(Empty, h) = 0
  BY <1>1 DEF InHour, At
<1>4. NoTotals \in Numbers
  BY DEF NoTotals, Numbers
<1> QED
  BY <1>1, <1>2, <1>3, <1>4 DEF Books, NoTotals, HoursOf

(* The segment a..b-1 of one hour, with the power e at the price c.         *)
IsSegment(C, p, w, a, b, e, c) ==
    /\ C \subseteq Int /\ IsFiniteSet(C) /\ \A t \in C : p[t] \in Int /\ w[t] \in Int
    /\ a \in Int /\ b \in Int /\ a < b /\ e \in Int /\ e > 0 /\ c \in Int
    /\ \A t \in a..(b - 1) :
         /\ t \notin C /\ HourOf(t) = HourOf(a)
         /\ p[t] = e /\ w[t] = e * c

LEMMA SegmentSums ==
    ASSUME NEW C, NEW p, NEW w, NEW a, NEW b, NEW e, NEW c, IsSegment(C, p, w, a, b, e, c)
    PROVE  /\ e * (b - a) \in Nat /\ e * (b - a) > 0 /\ (e * (b - a)) * c \in Int
           /\ IsFiniteSet(a..(b - 1))
           /\ SumFunctionOnSet(p, a..(b - 1)) = e * (b - a)
           /\ SumFunctionOnSet(w, a..(b - 1)) = (e * (b - a)) * c
<1>1. /\ a \in Int /\ b \in Int /\ a < b /\ e \in Int /\ e > 0 /\ c \in Int
      /\ \A t \in a..(b - 1) : p[t] = e /\ w[t] = e * c
  BY DEF IsSegment
<1>2. PICK d \in Nat : d = b - a /\ d > 0
  BY <1>1
<1>3. e * d \in Nat /\ e * d > 0 /\ (e * d) * c \in Int /\ e * c \in Int
  BY <1>1, <1>2
<1>4. (e * d) * c = (e * c) * d
  BY <1>1, <1>2
<1>7. SumFunctionOnSet(p, a..(b - 1)) = e * d
  <2>1. IsConstant(a, b, p, e)
    BY <1>1 DEF IsConstant
  <2> QED
    BY <1>2, <2>1, SumOfConstant
<1>8. SumFunctionOnSet(w, a..(b - 1)) = (e * c) * d
  <2>1. IsConstant(a, b, w, e * c)
    BY <1>1, <1>3 DEF IsConstant
  <2> QED
    BY <1>2, <2>1, SumOfConstant
<1>9. IsFiniteSet(a..(b - 1))
  <2>1. b - 1 \in Int
    BY <1>1
  <2> QED
    BY <1>1, <2>1, FS_Interval
<1> QED
  BY <1>2, <1>3, <1>4, <1>7, <1>8, <1>9

IsGrown(D, C, S, h0) ==
    /\ HoursOf(D) = HoursOf(C) \cup {h0}
    /\ InHour(D, h0) = InHour(C, h0) \cup S
    /\ \A h : h # h0 => InHour(D, h) = InHour(C, h)

(* The hours of the units counted so far, with a segment of one hour more.  *)
LEMMA SegmentHours ==
    ASSUME NEW C, NEW p, NEW w, NEW a, NEW b, NEW e, NEW c, IsSegment(C, p, w, a, b, e, c)
    PROVE  IsGrown(C \cup (a..(b - 1)), C, a..(b - 1), HourOf(a))
<1>1. a \in a..(b - 1) /\ \A t \in a..(b - 1) : HourOf(t) = HourOf(a)
  BY DEF IsSegment
<1>2. PICK S : S = a..(b - 1)
  OBVIOUS
<1>3. a \in S /\ \A t \in S : HourOf(t) = HourOf(a)
  BY <1>1, <1>2
<1>4. HoursOf(C \cup S) = HoursOf(C) \cup {HourOf(a)}
  BY <1>3 DEF HoursOf
<1>5. InHour(C \cup S, HourOf(a)) = InHour(C, HourOf(a)) \cup S
  BY <1>3 DEF InHour
<1>6. ASSUME NEW h, h # HourOf(a) PROVE InHour(C \cup S, h) = InHour(C, h)
  BY <1>3, <1>6 DEF InHour
<1>7. IsGrown(C \cup S, C, S, HourOf(a))
  BY <1>4, <1>5, <1>6 DEF IsGrown
<1> QED
  BY <1>2, <1>7

IsAdded(g, f, h, x) ==
    /\ DOMAIN g = DOMAIN f \cup {h}
    /\ At(g, h) = At(f, h) + x
    /\ \A k : k # h => At(g, k) = At(f, k)
    /\ \A k \in DOMAIN f \cup {h} : g[k] = At(g, k)
    /\ \A k : At(f, k) \in Int

LEMMA AddIs ==
    ASSUME NEW f, NEW h, NEW x \in Int, \A k \in DOMAIN f : f[k] \in Int
    PROVE  IsAdded(Add(f, h, x), f, h, x)
<1>1. \A k \in DOMAIN f \cup {h} :
        Add(f, h, x)[k] = At(f, k) + (IF k = h THEN x ELSE 0)
  BY DEF Add, At
<1>2. DOMAIN Add(f, h, x) = DOMAIN f \cup {h}
  BY DEF Add
<1>3. \A k : At(f, k) \in Int
  BY DEF At
<1>4. ASSUME NEW k PROVE At(Add(f, h, x), k) = At(f, k) + (IF k = h THEN x ELSE 0)
  <2>1. CASE k \in DOMAIN f \cup {h}
    BY <1>1, <1>2, <2>1 DEF At
  <2>2. CASE k \notin DOMAIN f \cup {h}
    <3>1. At(Add(f, h, x), k) = 0 /\ At(f, k) = 0 /\ k # h
      BY <1>2, <2>2 DEF At
    <3> QED
      BY <3>1
  <2> QED
    BY <2>1, <2>2
<1>5. \A k \in DOMAIN f \cup {h} : Add(f, h, x)[k] = At(Add(f, h, x), k)
  BY <1>2 DEF At
<1>6. At(Add(f, h, x), h) = At(f, h) + x /\ \A k : k # h => At(Add(f, h, x), k) = At(f, k)
  BY <1>3, <1>4
<1> QED
  BY <1>2, <1>3, <1>5, <1>6 DEF IsAdded

LEMMA BookSegment ==
    ASSUME NEW C, NEW p, NEW w, NEW a, NEW b, NEW e, NEW c, IsSegment(C, p, w, a, b, e, c),
           NEW x, NEW r, NEW tot, Books(C, p, w, x, r, tot),
           NEW energy, energy = e * (b - a), NEW new,
           new = [export |-> tot.export + energy, revenue |-> tot.revenue + energy * c,
                  matched |-> tot.matched + 1]
    PROVE  Books(C \cup (a..(b - 1)), p, w, Add(x, HourOf(a), energy),
                 Add(r, HourOf(a), energy * c), new)
<1>1. PICK S : S = a..(b - 1)
  OBVIOUS
<1>2. PICK h0 : h0 = HourOf(a)
  OBVIOUS
<1>3. /\ energy \in Nat /\ energy > 0 /\ energy * c \in Int /\ IsFiniteSet(S)
      /\ SumFunctionOnSet(p, S) = energy /\ SumFunctionOnSet(w, S) = energy * c
  BY <1>1, SegmentSums
<1>4. PICK v \in Int : v = energy * c
  BY <1>3
<1>5. IsGrown(C \cup S, C, S, h0)
  BY <1>1, <1>2, SegmentHours
<1>6. /\ DOMAIN x = HoursOf(C) /\ DOMAIN r = DOMAIN x
      /\ \A h \in DOMAIN x : x[h] \in Nat /\ r[h] \in Int
      /\ \A h \in Hours : /\ At(x, h) = SumFunctionOnSet(p, InHour(C, h))
                          /\ At(r, h) = SumFunctionOnSet(w, InHour(C, h))
      /\ tot \in Numbers
      /\ tot.export = SumFunctionOnSet(p, C) /\ tot.revenue = SumFunctionOnSet(w, C)
  BY DEF Books
<1>7. PICK X : X = Add(x, h0, energy)
  OBVIOUS
<1>8. PICK R : R = Add(r, h0, v)
  OBVIOUS
<1>9. IsAdded(X, x, h0, energy)
  <2>1. \A k \in DOMAIN x : x[k] \in Int
    BY <1>6
  <2>2. energy \in Int
    BY <1>3
  <2> QED
    BY <1>7, <2>1, <2>2, AddIs
<1>10. IsAdded(R, r, h0, v)
  <2>1. \A k \in DOMAIN r : r[k] \in Int
    BY <1>6
  <2> QED
    BY <1>8, <2>1, AddIs
<1>11. DOMAIN X = HoursOf(C \cup S) /\ DOMAIN R = DOMAIN X
  BY <1>5, <1>6, <1>9, <1>10 DEF IsAdded, IsGrown
<1>12. \A k : At(x, k) \in Nat
  BY <1>6 DEF At
<1>13. \A h \in DOMAIN X : X[h] \in Nat /\ R[h] \in Int
  <2> SUFFICES ASSUME NEW h \in DOMAIN X PROVE X[h] \in Nat /\ R[h] \in Int
    OBVIOUS
  <2>1. X[h] = At(X, h) /\ R[h] = At(R, h)
    BY <1>6, <1>9, <1>10 DEF IsAdded
  <2>2. At(x, h) \in Nat /\ At(r, h) \in Int
    BY <1>10, <1>12 DEF IsAdded
  <2>3. CASE h = h0
    BY <1>3, <1>4, <1>9, <1>10, <2>1, <2>2, <2>3 DEF IsAdded
  <2>4. CASE h # h0
    BY <1>9, <1>10, <2>1, <2>2, <2>4 DEF IsAdded
  <2> QED
    BY <2>3, <2>4
<1>14. /\ C \subseteq Int /\ IsFiniteSet(C) /\ \A t \in C : p[t] \in Int /\ w[t] \in Int
       /\ \A t \in S : t \notin C /\ p[t] \in Int /\ w[t] \in Int
  <2>1. e \in Int /\ c \in Int /\ e * c \in Int
    BY DEF IsSegment
  <2> QED
    BY <1>1, <2>1 DEF IsSegment
<1>15. ASSUME NEW D \in SUBSET C
       PROVE  /\ SumFunctionOnSet(p, D \cup S) = SumFunctionOnSet(p, D) + energy
              /\ SumFunctionOnSet(w, D \cup S) = SumFunctionOnSet(w, D) + v
  <2>1. IsFiniteSet(D) /\ D \cap S = {}
    BY <1>14, FS_Subset
  <2>2. /\ \A t \in D \cup S : p[t] \in Int
        /\ \A t \in D \cup S : w[t] \in Int
    BY <1>14
  <2> QED
    BY <1>3, <1>4, <2>1, <2>2, SumUnion
<1>16. ASSUME NEW h \in Hours
       PROVE  /\ At(X, h) = SumFunctionOnSet(p, InHour(C \cup S, h))
              /\ At(R, h) = SumFunctionOnSet(w, InHour(C \cup S, h))
  <2>1. InHour(C, h) \in SUBSET C
    BY DEF InHour
  <2>2. CASE h = h0
    <3>1. /\ At(X, h) = At(x, h) + energy /\ At(R, h) = At(r, h) + v
          /\ InHour(C \cup S, h) = InHour(C, h) \cup S
      BY <1>5, <1>9, <1>10, <2>2 DEF IsAdded, IsGrown
    <3>2. /\ At(x, h) = SumFunctionOnSet(p, InHour(C, h))
          /\ At(r, h) = SumFunctionOnSet(w, InHour(C, h))
      BY <1>6
    <3> QED
      BY <1>15, <2>1, <3>1, <3>2
  <2>3. CASE h # h0
    <3>1. /\ At(X, h) = At(x, h) /\ At(R, h) = At(r, h)
          /\ InHour(C \cup S, h) = InHour(C, h)
      BY <1>5, <1>9, <1>10, <2>3 DEF IsAdded, IsGrown
    <3> QED
      BY <1>6, <3>1
  <2> QED
    BY <2>2, <2>3
<1>17. new = [export |-> tot.export + energy, revenue |-> tot.revenue + v,
              matched |-> tot.matched + 1]
  BY <1>4
<1>18. new \in Numbers /\ new.matched # 0
  BY <1>3, <1>4, <1>6, <1>17 DEF Numbers
<1>19. /\ new.export = SumFunctionOnSet(p, C \cup S)
       /\ new.revenue = SumFunctionOnSet(w, C \cup S)
  <2>1. new.export = tot.export + energy /\ new.revenue = tot.revenue + v
    BY <1>17
  <2>2. C \in SUBSET C
    OBVIOUS
  <2> QED
    BY <1>6, <1>15, <2>1, <2>2
<1>20. C \cup S # {}
  BY <1>1 DEF IsSegment
<1>21. Books(C \cup S, p, w, X, R, new)
  BY <1>11, <1>13, <1>16, <1>18, <1>19, <1>20 DEF Books
<1> QED
  BY <1>1, <1>2, <1>4, <1>7, <1>8, <1>21

-----------------------------------------------------------------------------
(* The units of time that earn.                                             *)

EarnsIn(m, raw, hold, n, t) ==
    \E i \in StandsIn(raw, hold, n, t) :
        /\ raw[i].power > 0
        /\ \A u \in raw[i].ts..t : EntryIn(m, u) # Null
        /\ EnergyPrice(EntryIn(m, t)) # Null

LEMMA EarnsIs == \A t : Earns(t) <=> EarnsIn(market, stored, Hold, read2, t)
<1> SUFFICES ASSUME NEW t PROVE Earns(t) <=> EarnsIn(market, stored, Hold, read2, t)
  OBVIOUS
<1>1. StandsAt(read2, t) = StandsIn(stored, Hold, read2, t)
  BY StandsAtIs
<1>2. \A u : MarketEntryAt(u) = EntryIn(market, u)
  BY EntryAtIs
<1> QED
  BY <1>1, <1>2 DEF Earns, EarnsIn, Priced

(* In an interval, what the reading that it begins with earns.              *)
LEMMA EarnsThere ==
    ASSUME NEW m, NEW n, NEW raw, IsLog(raw, n), NEW hold, IsHold(hold),
           NEW i \in DayIntervals(raw, hold), NEW t \in Int, Covers(i, t)
    PROVE  EarnsIn(m, raw, hold, n, t) <=>
             /\ i.power > 0
             /\ \A u \in i.from..t : EntryIn(m, u) # Null
             /\ EnergyPrice(EntryIn(m, t)) # Null
<1>1. PICK k \in StandsIn(raw, hold, n, t) : raw[k].ts = i.from /\ raw[k].power = i.power
  BY IntervalStands
<1>2. StandsIn(raw, hold, n, t) = {k}
  BY OneStands
<1> QED
  BY <1>1, <1>2 DEF EarnsIn

LEMMA EarnsSomewhere ==
    ASSUME NEW m, NEW n, NEW raw, IsLog(raw, n), NEW hold, IsHold(hold),
           NEW t \in Int, t < End, EarnsIn(m, raw, hold, n, t)
    PROVE  (\E i \in DayIntervals(raw, hold) : Covers(i, t)) /\ EntryIn(m, t) # Null
<1>1. PICK k \in StandsIn(raw, hold, n, t) : \A u \in raw[k].ts..t : EntryIn(m, u) # Null
  BY DEF EarnsIn
<1>2. \E i \in DayIntervals(raw, hold) : Covers(i, t)
  BY StandsInterval
<1>3. raw[k].ts \in Int /\ raw[k].ts <= t
  BY DEF StandsIn, IsLog
<1> QED
  BY <1>1, <1>2, <1>3

(* An interval needs two samples.                                           *)
LEMMA TwoSamples ==
    ASSUME NEW n, NEW raw, IsLog(raw, n), NEW hold, IsHold(hold),
           NEW i \in DayIntervals(raw, hold)
    PROVE  ~(Cardinality(DOMAIN DaySamples(raw, Start, End, hold)) < 2)
<1>1. PICK p : p = Readings(raw, Start, End)
  OBVIOUS
<1>2. PICK q : q = CarryOut(p, End, hold)
  OBVIOUS
<1>3. /\ DaySamples(raw, Start, End, hold) = q /\ i \in Intervals(q, hold)
      /\ Start \in Int /\ End \in Int
  BY <1>1, <1>2, NothingCarried, DayAssumption DEF DayIntervals, IsLog
<1>4. DOMAIN p \subseteq Start..End /\ p = [s \in DOMAIN p |-> p[s]]
  BY <1>1, DayReadings
<1>5. DOMAIN q \subseteq Int /\ IsFiniteSet(DOMAIN q)
  BY <1>2, <1>3, <1>4, HeldDomain
<1>6. i.from \in DOMAIN q /\ i.to \in Int /\ i.from < i.to /\ \E u \in DOMAIN q : i.to <= u
  BY <1>3, <1>5, IntervalsAre
<1>7. PICK u \in DOMAIN q : i.to <= u
  BY <1>6
<1>8. PICK s \in DOMAIN q : s = i.from
  BY <1>6
<1>9. s # u
  BY <1>5, <1>6, <1>7, <1>8
<1>10. PICK D : D = DOMAIN q
  OBVIOUS
<1>11. IsFiniteSet(D) /\ s \in D /\ u \in D \ {s}
  BY <1>5, <1>9, <1>10
<1>12. PICK E : E = D \ {s}
  OBVIOUS
<1>13. IsFiniteSet(E) /\ Cardinality(E) = Cardinality(D) - 1
  BY <1>11, <1>12, FS_RemoveElement
<1>14. Cardinality(E) \in Nat /\ Cardinality(E) # 0 /\ Cardinality(D) \in Nat
  BY <1>11, <1>12, <1>13, FS_CardinalityType, FS_EmptySet
<1>15. ~(Cardinality(D) < 2)
  BY <1>13, <1>14
<1> QED
  BY <1>3, <1>10, <1>15

Earners(m, raw, hold, n) == {t \in Start..(End - 1) : EarnsIn(m, raw, hold, n, t)}
PowerOf(raw, hold, n) == [t \in Start..(End - 1) |-> PowerIn(raw, hold, n, t)]
WorthOf(m, raw, hold, n) ==
    [t \in Start..(End - 1) |-> PowerIn(raw, hold, n, t) * EnergyPrice(EntryIn(m, t))]

LEMMA EarnersAre ==
    ASSUME NEW m \in Markets, NEW n, NEW raw, IsLog(raw, n), NEW hold, IsHold(hold)
    PROVE  /\ IsFiniteSet(Earners(m, raw, hold, n)) /\ Earners(m, raw, hold, n) \subseteq Int
           /\ \A t \in Earners(m, raw, hold, n) :
                PowerOf(raw, hold, n)[t] \in Int /\ WorthOf(m, raw, hold, n)[t] \in Int
<1>1. Start \in Int /\ End \in Int /\ End - 1 \in Int
  BY DayAssumption
<1>2. IsFiniteSet(Start..(End - 1))
  BY <1>1, FS_Interval
<1>3. Earners(m, raw, hold, n) \in SUBSET (Start..(End - 1))
  BY DEF Earners
<1>4. IsFiniteSet(Earners(m, raw, hold, n))
  BY <1>2, <1>3, FS_Subset
<1>5. Earners(m, raw, hold, n) \subseteq Int
  BY <1>1, <1>3
<1>6. ASSUME NEW t \in Earners(m, raw, hold, n)
      PROVE PowerOf(raw, hold, n)[t] \in Int /\ WorthOf(m, raw, hold, n)[t] \in Int
  <2>1. t \in Start..(End - 1) /\ t \in Int /\ t < End /\ EarnsIn(m, raw, hold, n, t)
    BY <1>1 DEF Earners
  <2>2. PowerIn(raw, hold, n, t) \in Int
    BY <2>1, PowerType
  <2>3. EntryIn(m, t) # Null
    BY <2>1, EarnsSomewhere
  <2>4. EnergyPrice(EntryIn(m, t)) # Null
    BY <2>1 DEF EarnsIn
  <2>5. EnergyPrice(EntryIn(m, t)) \in Int
    BY <2>1, <2>3, <2>4, EntryType
  <2>6. PowerIn(raw, hold, n, t) * EnergyPrice(EntryIn(m, t)) \in Int
    BY <2>2, <2>5
  <2> QED
    BY <2>1, <2>2, <2>6 DEF PowerOf, WorthOf
<1> QED
  BY <1>4, <1>5, <1>6

(* Of them, those the revenue loop has passed.                              *)
Pending(t) ==
    \/ \E i \in todo : Covers(i, t)
    \/ pc = "segments" /\ cursor <= t /\ t < interval.to

Counted == {t \in Earners(market, stored, Hold, read2) : ~Pending(t)}

RevenueInv ==
    IF pc \in {"energy", "revenue"}
    THEN export = Empty /\ revenue = Empty /\ totals = NoTotals
    ELSE Books(Counted, PowerOf(stored, Hold, read2), WorthOf(market, stored, Hold, read2),
               export, revenue, totals)

(* A step that counts nothing keeps the books.                              *)
LEMMA BooksKept ==
    ASSUME RevenueInv, pc \notin {"energy", "revenue"}, pc' \notin {"energy", "revenue"},
           UNCHANGED <<stored, given, read2, export, revenue, totals>>,
           \A t \in Earners(market, stored, Hold, read2) : Pending(t)' <=> Pending(t)
    PROVE  RevenueInv'
<1>1. Hold' = Hold /\ market' = market /\ stored' = stored /\ read2' = read2
  BY SecondStays DEF given
<1>2. Counted' = Counted
  BY <1>1 DEF Counted
<1>3. Books(Counted, PowerOf(stored, Hold, read2), WorthOf(market, stored, Hold, read2),
            export, revenue, totals)
  BY DEF RevenueInv
<1>4. Books(Counted', PowerOf(stored', Hold', read2'), WorthOf(market', stored', Hold', read2'),
            export', revenue', totals')
  BY <1>1, <1>2, <1>3
<1> QED
  BY <1>4 DEF RevenueInv

LEMMA RevenueStarts ==
    ASSUME KindsInv, WalkInv, RevenueInv, BuildRevenue PROVE RevenueInv'
<1>1. /\ pc = "revenue" /\ read2' = Len(stored)
      /\ UNCHANGED <<stored, given, export, revenue, totals>>
  BY DEF BuildRevenue
<1>2. \/ /\ pc' = "done"
         /\ Cardinality(DOMAIN Samples) < 2 \/ market = << >>
      \/ pc' = "intervals" /\ todo' = Second
  BY Zenon DEF BuildRevenue, Second, DayIntervals, Samples
<1>3. Hold' = Hold /\ market' = market /\ stored' = stored
  BY <1>1, SecondStays
<1>4. IsLog(stored, Len(stored)) /\ IsHold(Hold)
  BY LogAndHold
<1>5. Counted' = {}
  <2> SUFFICES ASSUME NEW t \in Earners(market, stored, Hold, Len(stored)), ~Pending(t)'
               PROVE  FALSE
    BY <1>1, <1>3 DEF Counted
  <2>1. t \in Int /\ t < End /\ EarnsIn(market, stored, Hold, Len(stored), t)
    BY DayAssumption DEF Earners
  <2>2. EntryIn(market, t) # Null
    BY <1>4, <2>1, EarnsSomewhere
  <2>3. PICK i \in Second : Covers(i, t)
    BY <1>4, <2>1, EarnsSomewhere DEF Second
  <2>4. CASE pc' = "intervals" /\ todo' = Second
    BY <2>3, <2>4 DEF Pending
  <2>5. CASE market = << >>
    BY <2>2, <2>5, NoMarket
  <2>6. CASE Cardinality(DOMAIN Samples) < 2
    <3>1. Samples = DaySamples(stored, Start, End, Hold)
      BY DEF Samples
    <3>2. ~(Cardinality(DOMAIN DaySamples(stored, Start, End, Hold)) < 2)
      BY <1>4, <2>3, TwoSamples DEF Second
    <3> QED
      BY <2>6, <3>1, <3>2
  <2> QED
    BY <1>2, <2>4, <2>5, <2>6
<1>6. Books({}, PowerOf(stored', Hold', read2'), WorthOf(market', stored', Hold', read2'),
            export', revenue', totals')
  <2>1. export' = Empty /\ revenue' = Empty /\ totals' = NoTotals
    BY <1>1 DEF RevenueInv
  <2> QED
    BY <2>1, EmptyBooks
<1>7. Books(Counted', PowerOf(stored', Hold', read2'), WorthOf(market', stored', Hold', read2'),
            export', revenue', totals')
  BY <1>5, <1>6
<1>8. pc' \notin {"energy", "revenue"}
  BY <1>2
<1> QED
  BY <1>7, <1>8 DEF RevenueInv

(* A segment of an interval: what its units earn.                           *)
LEMMA SegmentEarns ==
    ASSUME KindsInv, WalkInv, pc = "segments", cursor < interval.to,
           MarketEntryAt(cursor) # Null,
           NEW b, b = SegmentEnd(cursor, MarketEntryAt(cursor)),
           NEW t \in cursor..(b - 1)
    PROVE  /\ t \in Start..(End - 1) /\ Covers(interval, t)
           /\ HourOf(t) = HourOf(cursor)
           /\ EntryIn(market, t) = EntryIn(market, cursor)
           /\ PowerIn(stored, Hold, read2, t) = interval.power
           /\ EarnsIn(market, stored, Hold, read2, t) <=>
                interval.power > 0 /\ EnergyPrice(EntryIn(market, cursor)) # Null
           /\ \A j \in todo : ~Covers(j, t)
<1>1. PICK i : i = interval
  OBVIOUS
<1>2. PICK a : a = cursor
  OBVIOUS
<1>3. /\ i \in Second /\ i \notin todo /\ i.from <= a /\ a \in Int
      /\ \A u \in i.from..(a - 1) : EntryIn(market, u) # Null
      /\ read2 = Len(stored) /\ todo \subseteq Second
  BY <1>1, <1>2, DayAssumption DEF WalkInv
<1>4. /\ b \in Int /\ a < b /\ b <= i.to /\ EntryIn(market, a) # Null
      /\ \A u \in a..(b - 1) :
           HourOf(u) = HourOf(a) /\ EntryIn(market, u) = EntryIn(market, a)
  BY <1>1, <1>2, SegmentIs
<1>5. i.from \in Int /\ i.to \in Int /\ Start <= i.from /\ i.to <= End
  BY <1>3, SecondIs
<1>6. t \in a..(b - 1) /\ t \in Int /\ a <= t /\ t < b
  BY <1>2, <1>3, <1>4
<1>7. Covers(i, t) /\ t \in Start..(End - 1)
  BY <1>3, <1>4, <1>5, <1>6, DayAssumption DEF Covers
<1>8. /\ IsLog(stored, Len(stored)) /\ IsHold(Hold) /\ i \in DayIntervals(stored, Hold)
  BY <1>3, LogAndHold DEF Second
<1>9. PowerIn(stored, Hold, Len(stored), t) = i.power
  <2>1. PICK k \in StandsIn(stored, Hold, Len(stored), t) : stored[k].power = i.power
    BY <1>6, <1>7, <1>8, IntervalStands
  <2> QED
    BY <1>6, <1>8, <2>1, PowerOfOne
<1>10. \A u \in i.from..t : EntryIn(market, u) # Null
  <2> SUFFICES ASSUME NEW u \in i.from..t PROVE EntryIn(market, u) # Null
    OBVIOUS
  <2>1. CASE u < a
    BY <1>3, <1>5, <1>6, <2>1
  <2>2. CASE a <= u
    <3>1. u \in a..(b - 1)
      BY <1>3, <1>4, <1>5, <1>6, <2>2
    <3> QED
      BY <1>4, <3>1
  <2> QED
    BY <1>3, <1>5, <1>6, <2>1, <2>2
<1>11. EarnsIn(market, stored, Hold, Len(stored), t) <=>
         i.power > 0 /\ EnergyPrice(EntryIn(market, a)) # Null
  <2>1. EarnsIn(market, stored, Hold, Len(stored), t) <=>
          /\ i.power > 0
          /\ \A u \in i.from..t : EntryIn(market, u) # Null
          /\ EnergyPrice(EntryIn(market, t)) # Null
    BY <1>6, <1>7, <1>8, EarnsThere
  <2>2. EntryIn(market, t) = EntryIn(market, a)
    BY <1>4, <1>6
  <2> QED
    BY <1>10, <2>1, <2>2
<1>12. ASSUME NEW j \in todo, Covers(j, t) PROVE FALSE
  <2>1. j \in DayIntervals(stored, Hold)
    BY <1>3 DEF Second
  <2>2. j = i
    BY <1>6, <1>7, <1>8, <1>12, <2>1, DayIntervalsApart
  <2> QED
    BY <1>3, <2>2
<1> QED
  BY <1>1, <1>2, <1>3, <1>4, <1>6, <1>7, <1>9, <1>11, <1>12

LEMMA EnergySign ==
    ASSUME NEW e \in Int, NEW d \in Int, d > 0
    PROVE  /\ LaterOf(0, e * d) \in Int
           /\ LaterOf(0, e * d) > 0 <=> e > 0
           /\ e > 0 => LaterOf(0, e * d) = e * d
<1>1. e * d \in Int
  OBVIOUS
<1>2. e > 0 => e * d > 0
  OBVIOUS
<1>3. e <= 0 => e * d <= 0
  OBVIOUS
<1> QED
  BY <1>1, <1>2, <1>3 DEF LaterOf

LEMMA RevenueSegment ==
    ASSUME KindsInv, WalkInv, RevenueInv, MatchSegment PROVE RevenueInv'
<1>1. /\ pc = "segments" /\ pc' = pc /\ cursor < interval.to /\ MarketEntryAt(cursor) # Null
      /\ UNCHANGED <<stored, given, read2, todo, interval>>
  BY DEF MatchSegment
<1>2. PICK b : b = SegmentEnd(cursor, MarketEntryAt(cursor))
  OBVIOUS
<1>3. PICK a : a = cursor
  OBVIOUS
<1>4. PICK i : i = interval
  OBVIOUS
<1>5. PICK entry : entry = MarketEntryAt(cursor)
  OBVIOUS
<1>6. PICK energy : energy = LaterOf(0, i.power * (b - a))
  OBVIOUS
<1>7. /\ cursor' = b
      /\ \/ /\ energy > 0 /\ EnergyPrice(entry) # Null
            /\ export' = Add(export, HourOf(a), energy)
            /\ revenue' = Add(revenue, HourOf(a), energy * EnergyPrice(entry))
            /\ totals' = [export |-> totals.export + energy,
                          revenue |-> totals.revenue + energy * EnergyPrice(entry),
                          matched |-> totals.matched + 1]
         \/ /\ energy <= 0 \/ EnergyPrice(entry) = Null
            /\ UNCHANGED <<export, revenue, totals>>
  BY <1>2, <1>3, <1>4, <1>5, <1>6, Zenon DEF MatchSegment
<1>8. /\ a \in Int /\ b \in Int /\ a < b /\ b <= i.to /\ entry = EntryIn(market, a)
      /\ market \in Markets /\ i \in Second
  BY <1>1, <1>2, <1>3, <1>4, <1>5, SegmentIs, DayAssumption DEF WalkInv, KindsInv
<1>9. i.power \in Int /\ i.to \in Int
  BY <1>8, SecondIs, DayAssumption DEF Interval
<1>10. /\ energy \in Int
       /\ energy > 0 <=> i.power > 0
       /\ i.power > 0 => energy = i.power * (b - a)
  <2>1. b - a \in Int /\ b - a > 0
    BY <1>8
  <2> QED
    BY <1>6, <1>9, <2>1, EnergySign
<1>11. ASSUME NEW t \in a..(b - 1)
       PROVE  /\ t \in Start..(End - 1) /\ Covers(i, t)
              /\ HourOf(t) = HourOf(a) /\ EntryIn(market, t) = entry
              /\ PowerIn(stored, Hold, read2, t) = i.power
              /\ EarnsIn(market, stored, Hold, read2, t) <=>
                   i.power > 0 /\ EnergyPrice(entry) # Null
              /\ \A j \in todo : ~Covers(j, t)
  BY <1>1, <1>2, <1>3, <1>4, <1>8, SegmentEarns
<1>12. Hold' = Hold /\ market' = market /\ stored' = stored /\ read2' = read2
  BY <1>1, SecondStays
<1>13. ASSUME NEW t \in Int
       PROVE  Pending(t)' <=> Pending(t) /\ t \notin a..(b - 1)
  <2>1. Pending(t) <=> (\E j \in todo : Covers(j, t)) \/ (a <= t /\ t < i.to)
    BY <1>1, <1>3, <1>4 DEF Pending
  <2>2. Pending(t)' <=> (\E j \in todo : Covers(j, t)) \/ (b <= t /\ t < i.to)
    BY <1>1, <1>4, <1>7 DEF Pending
  <2> QED
    BY <1>8, <1>9, <1>11, <2>1, <2>2
<1>14. ASSUME NEW t \in a..(b - 1) PROVE Pending(t)
  BY <1>1, <1>3, <1>4, <1>8, <1>9 DEF Pending
<1>15. pc \notin {"energy", "revenue"} /\ pc' \notin {"energy", "revenue"}
  BY <1>1
<1>16. PICK E : E = Earners(market, stored, Hold, read2)
  OBVIOUS
<1>17. IsLog(stored, read2) /\ IsHold(Hold)
  BY <1>1, LogAndHold DEF WalkInv
<1>18. /\ IsFiniteSet(E) /\ E \subseteq Int
       /\ \A t \in E : /\ PowerOf(stored, Hold, read2)[t] \in Int
                       /\ WorthOf(market, stored, Hold, read2)[t] \in Int
  BY <1>8, <1>16, <1>17, EarnersAre
<1>19. CASE ~(energy > 0 /\ EnergyPrice(entry) # Null)
  <2>1. UNCHANGED <<export, revenue, totals>>
    BY <1>7, <1>19
  <2>2. \A t \in E : t \notin a..(b - 1)
    BY <1>10, <1>11, <1>16, <1>19 DEF Earners
  <2>3. \A t \in E : Pending(t)' <=> Pending(t)
    BY <1>13, <1>18, <2>2
  <2> QED
    BY <1>1, <1>15, <1>16, <2>1, <2>3, BooksKept
<1>20. CASE energy > 0 /\ EnergyPrice(entry) # Null
  <2>1. PICK S : S = a..(b - 1)
    OBVIOUS
  <2>2. S \subseteq E
    BY <1>10, <1>11, <1>16, <1>20, <2>1 DEF Earners
  <2>3. PICK C : C = Counted
    OBVIOUS
  <2>4. Counted' = C \cup S
    <3>1. Counted' = {t \in E : ~Pending(t)'}
      BY <1>12, <1>16 DEF Counted
    <3>2. C = {t \in E : ~Pending(t)}
      BY <1>16, <2>3 DEF Counted
    <3> QED
      BY <1>13, <1>18, <2>1, <2>2, <3>1, <3>2
  <2>5. C \subseteq E /\ \A t \in S : t \notin C
    BY <1>14, <1>16, <2>1, <2>3 DEF Counted
  <2>6. PICK p : p = PowerOf(stored, Hold, read2)
    OBVIOUS
  <2>7. PICK w : w = WorthOf(market, stored, Hold, read2)
    OBVIOUS
  <2>8. PICK c : c = EnergyPrice(entry)
    OBVIOUS
  <2>9. c \in Int
    <3>1. EntryIn(market, a) # Null
      BY <1>1, <1>5, <1>8
    <3> QED
      BY <1>8, <1>20, <2>8, <3>1, EntryType
  <2>10. \A t \in S : p[t] = i.power /\ w[t] = i.power * c
    BY <1>11, <2>1, <2>6, <2>7, <2>8 DEF PowerOf, WorthOf
  <2>11. IsFiniteSet(C) /\ C \subseteq Int /\ \A t \in C : p[t] \in Int /\ w[t] \in Int
    <3>1. IsFiniteSet(C)
      BY <1>18, <2>5, FS_Subset
    <3> QED
      BY <1>18, <2>5, <2>6, <2>7, <3>1
  <2>12. IsSegment(C, p, w, a, b, i.power, c)
    BY <1>8, <1>9, <1>10, <1>11, <1>20, <2>1, <2>5, <2>9, <2>10, <2>11 DEF IsSegment
  <2>13. Books(C, p, w, export, revenue, totals)
    BY <1>15, <2>3, <2>6, <2>7 DEF RevenueInv
  <2>14. energy = i.power * (b - a)
    BY <1>10, <1>20
  <2>15. /\ export' = Add(export, HourOf(a), energy)
         /\ revenue' = Add(revenue, HourOf(a), energy * c)
         /\ totals' = [export |-> totals.export + energy,
                       revenue |-> totals.revenue + energy * c,
                       matched |-> totals.matched + 1]
    BY <1>7, <1>10, <1>20, <2>8
  <2>16. Books(C \cup (a..(b - 1)), p, w, export', revenue', totals')
    BY <2>12, <2>13, <2>14, <2>15, BookSegment
  <2>17. p = PowerOf(stored', Hold', read2') /\ w = WorthOf(market', stored', Hold', read2')
    BY <1>12, <2>6, <2>7
  <2> QED
    BY <1>15, <2>1, <2>4, <2>16, <2>17 DEF RevenueInv
<1> QED
  BY <1>19, <1>20

LEMMA RevenueStep ==
    ASSUME KindsInv, WalkInv, RevenueInv, [Next]_vars PROVE RevenueInv'
<1>1. ASSUME UNCHANGED <<export, revenue, totals>>, pc \in {"energy", "revenue"},
             pc' \in {"energy", "revenue"}
      PROVE  RevenueInv'
  BY <1>1 DEF RevenueInv
<1>2. ASSUME NEW r \in Reading, Save(r) PROVE RevenueInv'
  BY <1>1, <1>2 DEF Save
<1>3. CASE BuildEnergy
  BY <1>1, <1>3 DEF BuildEnergy
<1>4. CASE BuildRevenue
  BY <1>4, RevenueStarts
<1>5. CASE NextInterval
  <2>1. /\ pc = "intervals" /\ pc' = "segments"
        /\ UNCHANGED <<stored, given, read2, export, revenue, totals>>
    BY <1>5 DEF NextInterval, result
  <2>2. PICK i \in todo : interval' = i /\ cursor' = i.from /\ todo' = todo \ {i}
    BY <1>5 DEF NextInterval
  <2>3. \A t : Pending(t)' <=> Pending(t)
    BY <2>1, <2>2 DEF Pending, Covers
  <2> QED
    BY <2>1, <2>3, BooksKept
<1>6. CASE LastInterval
  <2>1. /\ pc = "intervals" /\ pc' = "done" /\ todo' = todo
        /\ UNCHANGED <<stored, given, read2, export, revenue, totals>>
    BY <1>6 DEF LastInterval, result
  <2>2. \A t : Pending(t)' <=> Pending(t)
    BY <2>1 DEF Pending
  <2> QED
    BY <2>1, <2>2, BooksKept
<1>7. CASE LeaveInterval
  <2>1. /\ pc = "segments" /\ pc' = "intervals" /\ todo' = todo
        /\ UNCHANGED <<stored, given, read2, export, revenue, totals>>
        /\ (cursor < interval.to /\ MarketEntryAt(cursor) # Null) =>
             SegmentEnd(cursor, MarketEntryAt(cursor)) <= cursor
    BY <1>7 DEF LeaveInterval, result
  <2>2. PICK i : i = interval
    OBVIOUS
  <2>3. PICK a : a = cursor
    OBVIOUS
  <2>4. /\ i \in Second /\ i.from <= a /\ a \in Int /\ read2 = Len(stored)
    BY <2>1, <2>2, <2>3, DayAssumption DEF WalkInv
  <2>5. i.from \in Int /\ i.to \in Int
    BY <2>4, SecondIs
  <2>6. a < i.to => EntryIn(market, a) = Null
    <3>1. CASE MarketEntryAt(cursor) = Null
      BY <2>3, <3>1, EntryAtIs
    <3>2. CASE cursor < interval.to /\ MarketEntryAt(cursor) # Null
      BY <2>1, <2>3, <2>4, <3>2, SegmentIs
    <3> QED
      BY <2>2, <2>3, <3>1, <3>2
  <2>7. ASSUME NEW t \in Earners(market, stored, Hold, read2), a <= t, t < i.to PROVE FALSE
    <3>1. t \in Int /\ Covers(i, t) /\ EarnsIn(market, stored, Hold, Len(stored), t)
      BY <2>4, <2>5, <2>7, DayAssumption DEF Earners, Covers
    <3>2. IsLog(stored, Len(stored)) /\ IsHold(Hold) /\ i \in DayIntervals(stored, Hold)
      BY <2>4, LogAndHold DEF Second
    <3>3. \A u \in i.from..t : EntryIn(market, u) # Null
      BY <3>1, <3>2, EarnsThere
    <3>4. a \in i.from..t /\ a < i.to
      BY <2>4, <2>5, <2>7, <3>1
    <3> QED
      BY <2>6, <3>3, <3>4
  <2>8. \A t \in Earners(market, stored, Hold, read2) : Pending(t)' <=> Pending(t)
    BY <2>1, <2>2, <2>3, <2>7 DEF Pending
  <2> QED
    BY <2>1, <2>8, BooksKept
<1>8. CASE MatchSegment
  BY <1>8, RevenueSegment
<1>9. CASE UNCHANGED vars
  <2>1. CASE pc \in {"energy", "revenue"}
    BY <1>1, <1>9, <2>1 DEF vars
  <2>2. CASE pc \notin {"energy", "revenue"}
    <3>1. \A t : Pending(t)' <=> Pending(t)
      BY <1>9 DEF vars, Pending
    <3>2. UNCHANGED <<stored, given, read2, export, revenue, totals, pc>>
      BY <1>9 DEF vars
    <3> QED
      BY <2>2, <3>1, <3>2, BooksKept
  <2> QED
    BY <2>1, <2>2
<1> QED
  BY <1>2, <1>3, <1>4, <1>5, <1>6, <1>7, <1>8, <1>9 DEF Next, Report

LEMMA RevenueHolds == Spec => []RevenueInv
<1>1. Init => RevenueInv
  BY DEF Init, RevenueInv
<1>2. KindsInv /\ WalkInv /\ RevenueInv /\ [Next]_vars => RevenueInv'
  BY RevenueStep
<1> QED
  BY <1>1, <1>2, WalkHolds, PTL DEF Spec

LEMMA DayHolds == Spec => [](KindsInv /\ WalkInv /\ EnergyInv /\ RevenueInv)
BY WalkHolds, EnergyHolds, RevenueHolds, PTL

(***************************************************************************)
(* Every variable keeps its type (TypeOK): the cursor stays in the day,    *)
(* and both halves have whole numbers for whole hours.                     *)
(***************************************************************************)
THEOREM DayTypeCorrect == Spec => []TypeOK
<1>1. KindsInv /\ WalkInv /\ EnergyInv /\ RevenueInv => TypeOK
  <2> SUFFICES ASSUME KindsInv, WalkInv, EnergyInv, RevenueInv PROVE TypeOK
    OBVIOUS
  <2>1. /\ stored \in Seq(Reading) /\ Len(stored) <= MaxReadings
        /\ expected \in Expecteds /\ market \in Markets
        /\ pc \in {"energy", "revenue", "intervals", "segments", "done"}
        /\ read1 \in 0..MaxReadings /\ read2 \in 0..MaxReadings
    <3>1. Len(stored) \in Nat /\ MaxReadings \in Nat
      BY DayAssumption DEF KindsInv
    <3> QED
      BY <3>1 DEF KindsInv
  <2>2. \A h \in DOMAIN hours : HourOf(h) = h /\ hours[h] \in Int
    <3>1. CASE pc = "energy"
      BY <3>1 DEF EnergyInv, Empty
    <3>2. CASE pc # "energy"
      BY <3>2 DEF EnergyInv, IsDayEnergy
    <3> QED
      BY <3>1, <3>2
  <2>3. todo \subseteq Interval /\ interval \in Interval \cup {Null} /\ cursor \in Start..End
    BY SecondIs DEF WalkInv
  <2>4. /\ DOMAIN export = DOMAIN revenue
        /\ \A h \in DOMAIN export : export[h] \in Nat /\ revenue[h] \in Int
        /\ totals \in Numbers
    <3>1. CASE pc \in {"energy", "revenue"}
      BY <3>1 DEF RevenueInv, Empty, NoTotals, Numbers
    <3>2. CASE pc \notin {"energy", "revenue"}
      BY <3>2 DEF RevenueInv, Books
    <3> QED
      BY <3>1, <3>2
  <2> QED
    BY <2>1, <2>2, <2>3, <2>4 DEF TypeOK
<1> QED
  BY <1>1, DayHolds, PTL

(* What has been counted when the report is done.                           *)
LEMMA DoneBooks ==
    ASSUME KindsInv, WalkInv, RevenueInv, pc = "done"
    PROVE  /\ read2 = Len(stored) /\ IsLog(stored, read2) /\ IsHold(Hold) /\ market \in Markets
           /\ Books(Earners(market, stored, Hold, read2), PowerOf(stored, Hold, read2),
                    WorthOf(market, stored, Hold, read2), export, revenue, totals)
<1>1. read2 = Len(stored) /\ todo = {} /\ market \in Markets
  BY DEF WalkInv, KindsInv
<1>2. IsLog(stored, read2) /\ IsHold(Hold)
  BY <1>1, LogAndHold
<1>3. \A t : ~Pending(t)
  BY <1>1 DEF Pending
<1>4. Counted = Earners(market, stored, Hold, read2)
  BY <1>3 DEF Counted
<1>5. Books(Counted, PowerOf(stored, Hold, read2), WorthOf(market, stored, Hold, read2),
            export, revenue, totals)
  BY DEF RevenueInv
<1> QED
  BY <1>1, <1>2, <1>4, <1>5

LEMMA EarningIs ==
    ASSUME NEW h \in Hours
    PROVE  Earning(h) = InHour(Earners(market, stored, Hold, read2), h)
<1>1. h \in Int /\ HourOf(h) = h /\ Hour \in Int
  BY HoursAre, HourAssumption
<1>2. Units(h) = {t \in Start..(End - 1) : h <= t /\ t < h + Hour}
  BY <1>1, UnitsAre
<1>3. ASSUME NEW t \in Start..(End - 1)
      PROVE  HourOf(t) = h <=> h <= t /\ t < h + Hour
  <2>1. t \in Int
    BY DayAssumption
  <2> QED
    BY <1>1, <2>1, HourOfTime
<1>4. \A t : Earns(t) <=> EarnsIn(market, stored, Hold, read2, t)
  BY EarnsIs
<1> QED
  BY <1>2, <1>3, <1>4 DEF Earning, InHour, Earners

(* The total of the hours is the sum over the units of time.                *)
LEMMA HoursSum ==
    ASSUME NEW C, IsFiniteSet(C), C \subseteq Start..(End - 1),
           NEW f, \A t \in C : f[t] \in Int, NEW x,
           \A h \in Hours : At(x, h) = SumFunctionOnSet(f, InHour(C, h))
    PROVE  SumFunction([h \in Hours |-> At(x, h)]) = SumFunctionOnSet(f, C)
<1>1. PICK a : a = [h \in Hours |-> At(x, h)]
  OBVIOUS
<1>2. PICK of : of = [t \in C |-> HourOf(t)]
  OBVIOUS
<1>3. \A t \in C : t \in Start..End
  BY DayAssumption
<1>4. \A t \in C : of[t] = HourOf(t) /\ of[t] \in Hours
  BY <1>2, <1>3, HoursAre
<1>5. ASSUME NEW h \in Hours PROVE a[h] = SumFunctionOnSet(f, {t \in C : of[t] = h})
  <2>1. {t \in C : of[t] = h} = InHour(C, h)
    BY <1>4 DEF InHour
  <2>2. a[h] = SumFunctionOnSet(f, InHour(C, h))
    BY <1>1
  <2> QED
    BY <2>1, <2>2
<1>6. IsGrouping(C, Hours, f, of, a)
  BY <1>4, <1>5, HoursAre DEF IsGrouping
<1>7. SumFunctionOnSet(a, Hours) = SumFunctionOnSet(f, C)
  BY <1>6, SumGrouped
<1>8. SumFunction(a) = SumFunctionOnSet(f, C)
  BY <1>1, <1>7 DEF SumFunction
<1> QED
  BY <1>1, <1>8, Zenon

ExportIn(h) == SumFunction([t \in Earning(h) |-> PowerAt(read2, t)])
RevenueIn(h) ==
    SumFunction([t \in Earning(h) |-> PowerAt(read2, t) * EnergyPrice(MarketEntryAt(t))])

LEMMA EarningSums ==
    ASSUME KindsInv, WalkInv, RevenueInv, pc = "done", NEW h \in Hours
    PROVE  At(export, h) = ExportIn(h) /\ At(revenue, h) = RevenueIn(h)
<1>1. PICK C : C = Earners(market, stored, Hold, read2)
  OBVIOUS
<1>2. PICK p : p = PowerOf(stored, Hold, read2)
  OBVIOUS
<1>3. PICK w : w = WorthOf(market, stored, Hold, read2)
  OBVIOUS
<1>4. PICK E : E = Earning(h)
  OBVIOUS
<1>5. E = InHour(C, h)
  BY <1>1, <1>4, EarningIs
<1>6. /\ IsFiniteSet(C) /\ \A t \in C : p[t] \in Int /\ w[t] \in Int
  BY <1>1, <1>2, <1>3, DoneBooks, EarnersAre
<1>7. E \in SUBSET C /\ E \subseteq Start..(End - 1)
  BY <1>1, <1>5 DEF InHour, Earners
<1>8. IsFiniteSet(E)
  BY <1>6, <1>7, FS_Subset
<1>9. Books(C, p, w, export, revenue, totals)
  BY <1>1, <1>2, <1>3, DoneBooks
<1>10. At(export, h) = SumFunctionOnSet(p, E) /\ At(revenue, h) = SumFunctionOnSet(w, E)
  BY <1>5, <1>9 DEF Books
<1>11. \A t : /\ PowerAt(read2, t) = PowerIn(stored, Hold, read2, t)
              /\ MarketEntryAt(t) = EntryIn(market, t)
  BY PowerAtIs, EntryAtIs
<1>12. PICK f : f = [t \in E |-> PowerAt(read2, t)]
  OBVIOUS
<1>13. PICK g : g = [t \in E |-> PowerAt(read2, t) * EnergyPrice(MarketEntryAt(t))]
  OBVIOUS
<1>14. ASSUME NEW t \in E
       PROVE p[t] \in Int /\ p[t] = f[t] /\ w[t] \in Int /\ w[t] = g[t]
  <2>1. p[t] \in Int /\ w[t] \in Int /\ t \in Start..(End - 1)
    BY <1>6, <1>7
  <2>2. p[t] = PowerIn(stored, Hold, read2, t) /\ p[t] = f[t]
    BY <1>2, <1>11, <1>12, <2>1 DEF PowerOf
  <2>3. w[t] = PowerIn(stored, Hold, read2, t) * EnergyPrice(EntryIn(market, t))
    BY <1>3, <2>1 DEF WorthOf
  <2>4. g[t] = PowerIn(stored, Hold, read2, t) * EnergyPrice(EntryIn(market, t))
    BY <1>11, <1>13
  <2> QED
    BY <2>1, <2>2, <2>3, <2>4
<1>15. /\ SumFunctionOnSet(p, E) = SumFunctionOnSet(f, E)
       /\ SumFunctionOnSet(w, E) = SumFunctionOnSet(g, E)
  BY <1>8, <1>14, SumSame
<1>16. SumFunction(f) = SumFunctionOnSet(f, E) /\ SumFunction(g) = SumFunctionOnSet(g, E)
  BY <1>12, <1>13 DEF SumFunction
<1>17. SumFunction(f) = ExportIn(h)
  BY <1>4, <1>12, Zenon DEF ExportIn
<1>18. SumFunction(g) = RevenueIn(h)
  BY <1>4, <1>13, Zenon DEF RevenueIn
<1> QED
  BY <1>10, <1>15, <1>16, <1>17, <1>18

(***************************************************************************)
(* The revenue loop counts every unit of time that earns once, in its own  *)
(* hour and at the price of its own market entry, for any readings and     *)
(* any market entries sorted by their start, with gaps and overlaps; the   *)
(* totals are the sums of the hours (RevenueExact).                        *)
(***************************************************************************)
THEOREM RevenueIsExact == Spec => []RevenueExact
<1>1. KindsInv /\ WalkInv /\ RevenueInv => RevenueExact
  <2> SUFFICES ASSUME KindsInv, WalkInv, RevenueInv, pc = "done"
               PROVE  /\ \A h \in Hours : At(export, h) = ExportIn(h) /\ At(revenue, h) = RevenueIn(h)
                      /\ totals.export = SumFunction([h \in Hours |-> At(export, h)])
                      /\ totals.revenue = SumFunction([h \in Hours |-> At(revenue, h)])
                      /\ totals.matched = 0 <=> DOMAIN export = {}
    BY Zenon DEF RevenueExact, ExportIn, RevenueIn
  <2>1. \A h \in Hours : At(export, h) = ExportIn(h) /\ At(revenue, h) = RevenueIn(h)
    BY EarningSums
  <2>2. PICK C : C = Earners(market, stored, Hold, read2)
    OBVIOUS
  <2>3. PICK p : p = PowerOf(stored, Hold, read2)
    OBVIOUS
  <2>4. PICK w : w = WorthOf(market, stored, Hold, read2)
    OBVIOUS
  <2>5. Books(C, p, w, export, revenue, totals)
    BY <2>2, <2>3, <2>4, DoneBooks
  <2>6. /\ IsFiniteSet(C) /\ \A t \in C : p[t] \in Int /\ w[t] \in Int
    BY <2>2, <2>3, <2>4, DoneBooks, EarnersAre
  <2>7. C \subseteq Start..(End - 1)
    BY <2>2 DEF Earners
  <2>8. SumFunction([h \in Hours |-> At(export, h)]) = SumFunctionOnSet(p, C)
    <3>1. \A h \in Hours : At(export, h) = SumFunctionOnSet(p, InHour(C, h))
      BY <2>5 DEF Books
    <3> QED
      BY <2>6, <2>7, <3>1, HoursSum
  <2>9. SumFunction([h \in Hours |-> At(revenue, h)]) = SumFunctionOnSet(w, C)
    <3>1. \A h \in Hours : At(revenue, h) = SumFunctionOnSet(w, InHour(C, h))
      BY <2>5 DEF Books
    <3> QED
      BY <2>6, <2>7, <3>1, HoursSum
  <2>10. totals.matched = 0 <=> DOMAIN export = {}
    BY <2>5 DEF Books, HoursOf
  <2>11. totals.export = SumFunctionOnSet(p, C) /\ totals.revenue = SumFunctionOnSet(w, C)
    BY <2>5 DEF Books
  <2> QED
    BY <2>1, <2>8, <2>9, <2>10, <2>11, Zenon
<1> QED
  BY <1>1, DayHolds, PTL

(* Where every price is known, a unit of time earns exactly what its power  *)
(* exports.                                                                 *)
LEMMA EarnsAll ==
    ASSUME NEW m, NEW n, NEW raw, IsLog(raw, n), NEW hold, IsHold(hold),
           \A t \in Start..(End - 1) :
              EntryIn(m, t) # Null /\ EnergyPrice(EntryIn(m, t)) # Null,
           NEW t \in Start..(End - 1)
    PROVE  EarnsIn(m, raw, hold, n, t) <=> PowerIn(raw, hold, n, t) > 0
<1>1. t \in Int /\ Start \in Int /\ End \in Int /\ Start <= t /\ t < End
  BY DayAssumption
<1>2. CASE StandsIn(raw, hold, n, t) = {}
  <2>1. PowerIn(raw, hold, n, t) = 0
    BY <1>2, PowerOfNone
  <2> QED
    BY <1>2, <2>1 DEF EarnsIn
<1>3. CASE StandsIn(raw, hold, n, t) # {}
  <2>1. PICK k \in StandsIn(raw, hold, n, t) : TRUE
    BY <1>3
  <2>2. PowerIn(raw, hold, n, t) = raw[k].power /\ StandsIn(raw, hold, n, t) = {k}
    BY <1>1, <2>1, PowerOfOne, OneStands
  <2>3. raw[k].ts \in Int /\ Start <= raw[k].ts /\ raw[k].ts <= t
    BY <2>1 DEF StandsIn, IsLog
  <2>4. \A u \in raw[k].ts..t : u \in Start..(End - 1)
    BY <1>1, <2>3
  <2> QED
    BY <2>2, <2>4 DEF EarnsIn
<1> QED
  BY <1>2, <1>3

(* What an hour exports is at least its net energy.                         *)
LEMMA NetBelowExport ==
    ASSUME KindsInv, WalkInv, EnergyInv, RevenueInv, pc = "done", read1 = read2,
           \A t \in Start..(End - 1) :
              EntryIn(market, t) # Null /\ EnergyPrice(EntryIn(market, t)) # Null,
           NEW h \in DOMAIN hours
    PROVE  LaterOf(0, hours[h]) <= At(export, h)
<1>1. /\ IsDayEnergy(hours, stored, Hold, read2)
      /\ IsLog(stored, read2) /\ IsHold(Hold)
  BY DoneBooks DEF EnergyInv
<1>2. h \in Hours /\ hours[h] = HourPower(stored, Hold, read2, h) /\ hours[h] \in Int
  BY <1>1 DEF IsDayEnergy, At
<1>3. PICK U : U = Units(h)
  OBVIOUS
<1>4. IsFiniteSet(U) /\ U \subseteq Int /\ U \subseteq Start..(End - 1)
  <2>1. h \in Int
    BY <1>2, HoursAre
  <2> QED
    BY <1>3, <2>1, UnitsAre DEF Units
<1>5. PICK C : C = Earners(market, stored, Hold, read2)
  OBVIOUS
<1>6. PICK p : p = PowerOf(stored, Hold, read2)
  OBVIOUS
<1>7. PICK E : E = InHour(C, h)
  OBVIOUS
<1>8. E = Earning(h) /\ At(export, h) = SumFunctionOnSet(p, E)
  <2>1. Books(C, p, WorthOf(market, stored, Hold, read2), export, revenue, totals)
    BY <1>5, <1>6, DoneBooks
  <2> QED
    BY <1>2, <1>5, <1>7, <2>1, EarningIs DEF Books
<1>9. \A t : Earns(t) <=> EarnsIn(market, stored, Hold, read2, t)
  BY EarnsIs
<1>10. E \in SUBSET U /\ E = {t \in U : EarnsIn(market, stored, Hold, read2, t)}
  BY <1>3, <1>8, <1>9 DEF Earning
<1>11. ASSUME NEW t \in U
       PROVE  p[t] = PowerIn(stored, Hold, read2, t) /\ p[t] \in Int /\ (t \in E <=> p[t] > 0)
  <2>1. t \in Start..(End - 1) /\ t \in Int
    BY <1>4
  <2>2. p[t] = PowerIn(stored, Hold, read2, t)
    BY <1>6, <2>1 DEF PowerOf
  <2>3. PowerIn(stored, Hold, read2, t) \in Int
    BY <1>1, <2>1, PowerType
  <2>4. EarnsIn(market, stored, Hold, read2, t) <=> PowerIn(stored, Hold, read2, t) > 0
    BY <1>1, <2>1, EarnsAll
  <2> QED
    BY <1>10, <2>2, <2>3, <2>4
<1>12. PICK a : a = [t \in U |-> PowerIn(stored, Hold, read2, t)]
  OBVIOUS
<1>13. PICK b : b = [t \in U |-> IF t \in E THEN p[t] ELSE 0]
  OBVIOUS
<1>14. PICK z : z = [t \in U |-> 0]
  OBVIOUS
<1>15. \A t \in U : /\ a[t] \in Int /\ b[t] \in Int /\ z[t] \in Int /\ z[t] = 0
                    /\ a[t] <= b[t] /\ z[t] <= b[t]
  BY <1>11, <1>12, <1>13, <1>14
<1>16. SumFunctionOnSet(a, U) <= SumFunctionOnSet(b, U)
  BY <1>4, <1>15, SumMonotone
<1>17. SumFunctionOnSet(z, U) <= SumFunctionOnSet(b, U) /\ SumFunctionOnSet(z, U) = 0
  BY <1>4, <1>15, SumMonotone, SumOfZeros
<1>18. SumFunctionOnSet(b, U) = SumFunctionOnSet(p, E)
  <2>1. \A t \in U \ E : b[t] = 0
    BY <1>13
  <2>2. SumFunctionOnSet(b, U) = SumFunctionOnSet(b, E)
    BY <1>4, <1>10, <1>15, <2>1, SumSupport
  <2>3. IsFiniteSet(E)
    BY <1>4, <1>10, FS_Subset
  <2>4. \A t \in E : b[t] \in Int /\ b[t] = p[t]
    BY <1>10, <1>13, <1>15
  <2>5. SumFunctionOnSet(b, E) = SumFunctionOnSet(p, E)
    BY <2>3, <2>4, SumSame
  <2> QED
    BY <2>2, <2>5
<1>19. hours[h] = SumFunctionOnSet(a, U)
  <2>1. SumFunction(a) = HourPower(stored, Hold, read2, h)
    BY <1>3, <1>12, Zenon DEF HourPower
  <2>2. SumFunction(a) = SumFunctionOnSet(a, U)
    BY <1>12 DEF SumFunction
  <2> QED
    BY <1>2, <2>1, <2>2
<1>20. LaterOf(0, hours[h]) \in {0, hours[h]}
  BY DEF LaterOf
<1> QED
  BY <1>8, <1>16, <1>17, <1>18, <1>19, <1>20

(***************************************************************************)
(* The two halves of one report agree when no reading was saved between    *)
(* its queries: an hour that earned is one of the hours of the day, and    *)
(* its export is at least its net energy where all prices are known        *)
(* (HalvesAgree).                                                          *)
(***************************************************************************)
THEOREM HalvesDoAgree == Spec => []HalvesAgree
<1>1. KindsInv /\ WalkInv /\ EnergyInv /\ RevenueInv => HalvesAgree
  <2> SUFFICES ASSUME KindsInv, WalkInv, EnergyInv, RevenueInv, pc = "done", read1 = read2
               PROVE  /\ DOMAIN export \subseteq DOMAIN hours
                      /\ (\A t \in Start..(End - 1) :
                            Priced(t) /\ EnergyPrice(MarketEntryAt(t)) # Null) =>
                           \A h \in DOMAIN hours : LaterOf(0, hours[h]) <= At(export, h)
    BY DEF HalvesAgree
  <2>1. PICK C : C = Earners(market, stored, Hold, read2)
    OBVIOUS
  <2>2. DOMAIN export = HoursOf(C)
    BY <2>1, DoneBooks DEF Books
  <2>3. IsDayEnergy(hours, stored, Hold, read2)
    BY DEF EnergyInv
  <2>4. ASSUME NEW t \in C PROVE HourOf(t) \in DOMAIN hours
    <3>1. t \in Start..(End - 1) /\ StandsIn(stored, Hold, read2, t) # {}
      BY <2>1 DEF Earners, EarnsIn
    <3> QED
      BY <2>3, <3>1 DEF IsDayEnergy
  <2>5. DOMAIN export \subseteq DOMAIN hours
    BY <2>2, <2>4 DEF HoursOf
  <2>6. \A t : MarketEntryAt(t) = EntryIn(market, t)
    BY EntryAtIs
  <2>7. ASSUME \A t \in Start..(End - 1) : Priced(t) /\ EnergyPrice(MarketEntryAt(t)) # Null,
               NEW h \in DOMAIN hours
        PROVE  LaterOf(0, hours[h]) <= At(export, h)
    <3>1. \A t \in Start..(End - 1) :
             EntryIn(market, t) # Null /\ EnergyPrice(EntryIn(market, t)) # Null
      BY <2>6, <2>7 DEF Priced
    <3> QED
      BY <3>1, NetBelowExport
  <2> QED
    BY <2>5, <2>7
<1> QED
  BY <1>1, DayHolds, PTL
=============================================================================
