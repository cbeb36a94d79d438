--------------------------- MODULE HourPoolProofs ---------------------------
(***************************************************************************)
(* Theorems about HourPool, for any devices with any rated powers, any     *)
(* readings, any provider, and any number of switchings, posts and ticks   *)
(* between the steps of the report.                                        *)
(***************************************************************************)
EXTENDS HourPool, PowerWindowProofs

(***************************************************************************)
(* The on-time of a device, with the lemmas proved about it.               *)
(***************************************************************************)
P == INSTANCE DeviceOnTimeProofs WITH
        Windows <- {<<HourOf(t), t>> : t \in Time},
        Times <- Time,
        MaxEvents <- MaxFacts

(* The constants of that instance are as DeviceOnTime assumes them.         *)
LEMMA CountingAssumptions ==
    /\ {<<HourOf(t), t>> : t \in Time} \subseteq Int \X Int /\ Time \subseteq Int
    /\ MaxFacts \in Nat /\ Null \notin BOOLEAN /\ Null \notin Int
BY PoolBounds, HourAssumption, NullAssumption DEF HourOf, Time

-----------------------------------------------------------------------------
(* Sets of facts, and the lists the queries make of them.                  *)

(* In a finite set, some element has the greatest value of a function.      *)
LEMMA GreatestValue ==
    ASSUME NEW S, IsFiniteSet(S), S # {}, NEW h, \A x \in S : h[x] \in Int
    PROVE  \E x \in S : \A y \in S : h[y] <= h[x]
<1> DEFINE Good == {T \in SUBSET S : T # {} => \E x \in T : \A y \in T : h[y] <= h[x]}
<1>1. ASSUME NEW T \in SUBSET S, \A U \in SUBSET T : U # T => U \in Good
      PROVE  T \in Good
  <2> SUFFICES ASSUME NEW z \in T PROVE \E x \in T : \A y \in T : h[y] <= h[x]
    OBVIOUS
  <2>1. T \ {z} \in Good /\ \A x \in T : h[x] \in Int
    BY <1>1
  <2>2. CASE T \ {z} = {}
    BY <2>1, <2>2
  <2>3. CASE T \ {z} # {}
    <3>1. PICK x \in T \ {z} : \A y \in T \ {z} : h[y] <= h[x]
      BY <2>1, <2>3
    <3>2. CASE h[x] >= h[z]
      BY <2>1, <3>1, <3>2
    <3>3. CASE h[z] >= h[x]
      BY <2>1, <3>1, <3>3
    <3> QED
      BY <2>1, <3>1, <3>2, <3>3
  <2> QED
    BY <2>2, <2>3
<1>2. Good \in SUBSET SUBSET S
  OBVIOUS
<1>3. S \in Good
  <2> HIDE DEF Good
  <2> QED
    BY <1>1, <1>2, SubsetInduction
<1> QED
  BY <1>3

AreFacts(S) == IsFiniteSet(S) /\ \A f \in S : f.at \in Int

(* A set of facts that is not empty has a latest and an earliest one.       *)
LEMMA LatestFact ==
    ASSUME NEW S, AreFacts(S), S # {}
    PROVE  \E f \in S : \A g \in S : g.at <= f.at
<1>1. PICK h : h = [f \in S |-> f.at]
  OBVIOUS
<1>2. \E f \in S : \A g \in S : h[g] <= h[f]
  BY <1>1, GreatestValue DEF AreFacts
<1> QED
  BY <1>1, <1>2

LEMMA EarliestFact ==
    ASSUME NEW S, AreFacts(S), S # {}
    PROVE  \E f \in S : \A g \in S : f.at <= g.at
<1>1. PICK h : h = [f \in S |-> 0 - f.at]
  OBVIOUS
<1>2. \E f \in S : \A g \in S : h[g] <= h[f]
  BY <1>1, GreatestValue DEF AreFacts
<1> QED
  BY <1>1, <1>2 DEF AreFacts

AreOfOne(S) == AreFacts(S) /\ \A f, g \in S : f.at = g.at => f = g

IsInOrder(s, S) ==
    /\ s \in [1..Cardinality(S) -> S]
    /\ \A i, j \in DOMAIN s : i < j => s[i].at < s[j].at

(* Facts of different times can be listed in order.                         *)
LEMMA ListInOrder ==
    ASSUME NEW S, AreOfOne(S)
    PROVE  \E s : IsInOrder(s, S)
<1> DEFINE Good == {T \in SUBSET S : \E s : IsInOrder(s, T)}
<1>1. ASSUME NEW T \in SUBSET S, \A U \in SUBSET T : U # T => U \in Good
      PROVE  T \in Good
  <2>0. IsFiniteSet(T) /\ AreOfOne(T) /\ AreFacts(T)
    BY FS_Subset DEF AreOfOne, AreFacts
  <2>1. CASE T = {}
    <3>1. Cardinality(T) = 0
      BY <2>1, FS_EmptySet
    <3>2. IsInOrder([i \in 1..Cardinality(T) |-> i], T)
      BY <3>1 DEF IsInOrder
    <3> QED
      BY <3>2
  <2>2. CASE T # {}
    <3>1. PICK f \in T : \A g \in T : g.at <= f.at
      BY <2>0, <2>2, LatestFact
    <3>2. T \ {f} \in Good
      BY <1>1, <3>1
    <3>3. PICK U : U = T \ {f}
      OBVIOUS
    <3>4. PICK r : IsInOrder(r, U)
      BY <3>2, <3>3
    <3>5. PICK n : n = Cardinality(U)
      OBVIOUS
    <3>6. Cardinality(T) = n + 1 /\ n \in Nat
      <4>1. IsFiniteSet(U) /\ n = Cardinality(T) - 1
        BY <2>0, <3>1, <3>3, <3>5, FS_RemoveElement
      <4>2. n \in Nat /\ Cardinality(T) \in Nat
        BY <2>0, <3>5, <4>1, FS_CardinalityType
      <4> QED
        BY <4>1, <4>2
    <3>7. r \in [1..n -> U] /\ \A i, j \in 1..n : i < j => r[i].at < r[j].at
      BY <3>4, <3>5 DEF IsInOrder
    <3>8. \A g \in U : g.at < f.at /\ g \in T
      BY <2>0, <3>1, <3>3 DEF AreOfOne, AreFacts
    <3>9. PICK s : s = [i \in 1..(n + 1) |-> IF i = n + 1 THEN f ELSE r[i]]
      OBVIOUS
    <3>10. \A i \in 1..(n + 1) : i # n + 1 => i \in 1..n /\ s[i] = r[i] /\ r[i] \in U
      BY <3>6, <3>7, <3>9
    <3>11. s \in [1..(n + 1) -> T]
      BY <3>1, <3>8, <3>9, <3>10
    <3>12. \A i, j \in 1..(n + 1) : i < j => s[i].at < s[j].at
      <4> SUFFICES ASSUME NEW i \in 1..(n + 1), NEW j \in 1..(n + 1), i < j
                   PROVE  s[i].at < s[j].at
        OBVIOUS
      <4>1. i # n + 1
        BY <3>6
      <4>2. CASE j = n + 1
        BY <3>6, <3>8, <3>9, <3>10, <4>1, <4>2
      <4>3. CASE j # n + 1
        BY <3>7, <3>10, <4>1, <4>3
      <4> QED
        BY <4>2, <4>3
    <3>13. IsInOrder(s, T)
      BY <3>6, <3>11, <3>12 DEF IsInOrder
    <3> QED
      BY <3>13
  <2> QED
    BY <2>1, <2>2
<1>2. Good \in SUBSET SUBSET S
  OBVIOUS
<1>3. S \in Good
  <2> HIDE DEF Good
  <2> QED
    BY <1>1, <1>2, SubsetInduction DEF AreOfOne, AreFacts
<1> QED
  BY <1>3

(* A query lists every fact of its set, in order.                           *)
LEMMA InOrderIs ==
    ASSUME NEW S, AreOfOne(S), NEW s, s = InOrder(S)
    PROVE  /\ IsInOrder(s, S)
           /\ \A f \in S : \E i \in 1..Cardinality(S) : s[i] = f
<1>1. IsInOrder(s, S)
  <2>1. PICK r : IsInOrder(r, S)
    BY ListInOrder
  <2> QED
    BY <2>1 DEF InOrder, IsInOrder
<1>2. PICK n : n = Cardinality(S)
  OBVIOUS
<1>3. n \in Nat /\ IsFiniteSet(S) /\ IsFiniteSet(1..n) /\ Cardinality(1..n) = n
  BY <1>2, FS_CardinalityType, FS_Interval DEF AreOfOne, AreFacts
<1>4. s \in [1..n -> S] /\ \A i, j \in 1..n : i < j => s[i].at < s[j].at
  BY <1>1, <1>2 DEF IsInOrder
<1>5. ASSUME NEW i \in 1..n, NEW j \in 1..n, s[i] = s[j] PROVE i = j
  <2>1. s[i].at \in Int /\ i \in Int /\ j \in Int
    BY <1>3, <1>4 DEF AreOfOne, AreFacts
  <2> QED
    BY <1>4, <1>5, <2>1
<1>6. s \in Injection(1..n, S)
  BY <1>4, <1>5 DEF Injection, IsInjective
<1>7. s \in Surjection(1..n, S)
  BY <1>2, <1>3, <1>6, FS_Injection
<1> QED
  BY <1>1, <1>2, <1>7 DEF Surjection

-----------------------------------------------------------------------------
(* The production of the hour, as a function of what it is made of.         *)

StandsIn(raw, hold, u, t) ==
    {i \in DOMAIN raw :
        /\ raw[i].ts <= t
        /\ hold # Null => /\ u - raw[i].ts <= hold
                          /\ t < LaterOf(raw[i].ts, u) + hold
        /\ \A j \in DOMAIN raw : raw[j].ts <= t =>
              \/ raw[j].ts < raw[i].ts
              \/ raw[j].ts = raw[i].ts /\ j <= i}

PowerIn(raw, hold, u, t) == SumFunction([i \in StandsIn(raw, hold, u, t) |-> raw[i].power])

HourPoints(raw, hold, u, v) == CarryIn(Readings(raw, u, v), LastBefore(raw, u), u, hold)

HourIntervals(raw, hold, u, v) ==
    Intervals(WindowSamples(raw, LastBefore(raw, u), u, v, hold), hold)

IsLog(raw) ==
    /\ AreSaved(raw)
    /\ \A i \in DOMAIN raw : raw[i].power \in Int /\ raw[i] # Null

LEMMA OneStands ==
    ASSUME NEW raw, IsLog(raw), NEW hold, NEW u, NEW t,
           NEW i \in StandsIn(raw, hold, u, t)
    PROVE  StandsIn(raw, hold, u, t) = {i}
<1>1. ASSUME NEW j \in StandsIn(raw, hold, u, t) PROVE j = i
  <2>1. i \in DOMAIN raw /\ j \in DOMAIN raw /\ raw[i].ts <= t /\ raw[j].ts <= t
    BY DEF StandsIn
  <2>2. raw[j].ts < raw[i].ts \/ (raw[j].ts = raw[i].ts /\ j <= i)
    BY <2>1 DEF StandsIn
  <2>3. raw[i].ts < raw[j].ts \/ (raw[i].ts = raw[j].ts /\ i <= j)
    BY <2>1 DEF StandsIn
  <2>4. i \in Int /\ j \in Int /\ raw[i].ts \in Int /\ raw[j].ts \in Int
    BY <2>1 DEF IsLog, AreSaved
  <2> QED
    BY <2>2, <2>3, <2>4
<1> QED
  BY <1>1

LEMMA PowerOfOne ==
    ASSUME NEW raw, IsLog(raw), NEW hold, NEW u, NEW t,
           NEW i \in StandsIn(raw, hold, u, t)
    PROVE  PowerIn(raw, hold, u, t) = raw[i].power
<1>1. PICK S : S = StandsIn(raw, hold, u, t)
  OBVIOUS
<1>2. S = {i} /\ i \in DOMAIN raw
  BY <1>1, OneStands DEF StandsIn
<1>3. PICK f : f = [k \in S |-> raw[k].power]
  OBVIOUS
<1>4. i \in S /\ IsFiniteSet(S) /\ f[i] \in Int /\ \A y \in S \ {i} : f[y] = 0
  BY <1>2, <1>3, FS_Singleton DEF IsLog
<1>5. SumFunctionOnSet(f, S) = f[i]
  BY <1>4, SumOfOne
<1>6. SumFunction(f) = f[i] /\ f[i] = raw[i].power
  BY <1>2, <1>3, <1>5 DEF SumFunction
<1> QED
  BY <1>1, <1>3, <1>6 DEF PowerIn

LEMMA PowerOfNone ==
    ASSUME NEW raw, NEW hold, NEW u, NEW t, StandsIn(raw, hold, u, t) = {}
    PROVE  PowerIn(raw, hold, u, t) = 0
<1>1. PICK f : f = [k \in StandsIn(raw, hold, u, t) |-> raw[k].power]
  OBVIOUS
<1>2. DOMAIN f = {}
  BY <1>1
<1>3. SumFunction(f) = 0
  BY <1>2, SumEmpty DEF SumFunction
<1> QED
  BY <1>1, <1>3 DEF PowerIn

(* The last reading before a time is the last of the latest ones.           *)
IsLastBefore(raw, u, k) ==
    /\ k \in DOMAIN raw /\ raw[k].ts < u /\ LastBefore(raw, u) = raw[k]
    /\ \A j \in DOMAIN raw : raw[j].ts < u =>
         \/ raw[j].ts < raw[k].ts
         \/ raw[j].ts = raw[k].ts /\ j <= k

LEMMA LastBeforeIs ==
    ASSUME NEW raw, IsLog(raw), NEW u \in Int
    PROVE  \/ LastBefore(raw, u) = Null /\ \A j \in DOMAIN raw : ~(raw[j].ts < u)
           \/ \E k \in DOMAIN raw : IsLastBefore(raw, u, k)
<1>0. IsFiniteSet(DOMAIN raw) /\ DOMAIN raw \subseteq Int /\ \A i \in DOMAIN raw : raw[i].ts \in Int
  BY DEF IsLog, AreSaved
<1>1. PICK B : B = {i \in DOMAIN raw : raw[i].ts < u}
  OBVIOUS
<1>2. PICK M : M = {i \in B : \A j \in B : raw[j].ts <= raw[i].ts}
  OBVIOUS
<1>3. LastBefore(raw, u) = IF B = {} THEN Null ELSE raw[Max(M)]
  BY <1>1, <1>2 DEF LastBefore
<1>4. CASE B = {}
  BY <1>1, <1>3, <1>4
<1>5. CASE B # {}
  <2>1. B \in SUBSET DOMAIN raw /\ IsFiniteSet(B)
    BY <1>0, <1>1, FS_Subset
  <2>2. PICK h : h = [i \in B |-> raw[i].ts]
    OBVIOUS
  <2>3. PICK i \in B : \A j \in B : h[j] <= h[i]
    BY <1>0, <1>5, <2>1, <2>2, GreatestValue
  <2>7. \A j \in B : raw[j].ts <= raw[i].ts
    BY <2>2, <2>3
  <2>8. i \in M /\ M \in SUBSET DOMAIN raw
    BY <1>2, <2>1, <2>7
  <2>9. IsFiniteSet(M) /\ M \subseteq Int
    BY <1>0, <2>8, FS_Subset
  <2>10. PICK k : k = Max(M)
    OBVIOUS
  <2>11. k \in M /\ \A y \in M : k >= y
    BY <2>8, <2>9, <2>10, GreatestTime
  <2>12. k \in DOMAIN raw /\ raw[k].ts < u /\ LastBefore(raw, u) = raw[k]
    BY <1>1, <1>2, <1>3, <1>5, <2>10, <2>11
  <2>13. ASSUME NEW j \in DOMAIN raw, raw[j].ts < u
         PROVE  raw[j].ts < raw[k].ts \/ (raw[j].ts = raw[k].ts /\ j <= k)
    <3>1. j \in B /\ raw[j].ts <= raw[k].ts
      BY <1>1, <1>2, <2>11, <2>13
    <3>2. CASE raw[j].ts < raw[k].ts
      BY <3>2
    <3>3. CASE raw[j].ts = raw[k].ts
      <4>1. j \in M
        BY <1>2, <2>11, <3>1, <3>3
      <4> QED
        BY <1>0, <2>11, <2>12, <3>3, <4>1
    <3> QED
      BY <1>0, <2>12, <3>1, <3>2, <3>3
  <2> QED
    BY <2>12, <2>13 DEF IsLastBefore
<1> QED
  BY <1>4, <1>5

(* Every point of the hour is a reading, or the last one from before it.    *)
IsPoint(p, s, raw, hold, u, k) ==
    /\ k \in DOMAIN raw /\ p[s] = raw[k].power /\ s = LaterOf(raw[k].ts, u)
    /\ hold # Null => u - raw[k].ts <= hold
    /\ \A j \in DOMAIN raw : raw[j].ts <= s =>
         \/ raw[j].ts < raw[k].ts
         \/ raw[j].ts = raw[k].ts /\ j <= k

ArePoints(p, raw, hold, u, v) ==
    /\ DOMAIN p \subseteq u..v /\ p = [s \in DOMAIN p |-> p[s]]
    /\ \A s \in DOMAIN p : \E k \in DOMAIN raw : IsPoint(p, s, raw, hold, u, k)
    /\ \A k \in DOMAIN raw : raw[k].ts \in u..v => raw[k].ts \in DOMAIN p
    /\ \A k \in DOMAIN raw :
         (/\ raw[k].ts < u
          /\ hold # Null => u - raw[k].ts <= hold
          /\ \A j \in DOMAIN raw : raw[j].ts <= u =>
                \/ raw[j].ts < raw[k].ts
                \/ raw[j].ts = raw[k].ts /\ j <= k)
           => u \in DOMAIN p

LEMMA PointsAre ==
    ASSUME NEW raw, IsLog(raw), NEW hold, IsHold(hold),
           NEW u \in Int, NEW v \in Int, u <= v, NEW p, p = HourPoints(raw, hold, u, v)
    PROVE  ArePoints(p, raw, hold, u, v)
<1>1. PICK r : r = Readings(raw, u, v)
  OBVIOUS
<1>2. PICK b : b = LastBefore(raw, u)
  OBVIOUS
<1>3. p = CarryIn(r, b, u, hold)
  BY <1>1, <1>2 DEF HourPoints
<1>4. /\ DOMAIN r \subseteq u..v /\ r = [s \in DOMAIN r |-> r[s]]
      /\ \A s \in DOMAIN r : \E i \in DOMAIN raw :
           /\ raw[i].ts = s /\ r[s] = raw[i].power
           /\ \A j \in DOMAIN raw : raw[j].ts = s => j <= i
      /\ \A i \in DOMAIN raw : raw[i].ts \in u..v => raw[i].ts \in DOMAIN r
  BY <1>1, ReadingsAre DEF AreReadings, IsLog
<1>5. \A i \in DOMAIN raw : raw[i].ts \in Int /\ raw[i] # Null /\ i \in Int
  BY DEF IsLog, AreSaved
<1>6. \/ b = Null /\ \A j \in DOMAIN raw : ~(raw[j].ts < u)
      \/ \E k \in DOMAIN raw : IsLastBefore(raw, u, k)
  BY <1>2, LastBeforeIs
<1>7. DOMAIN r \subseteq DOMAIN p /\ \A s \in DOMAIN r : p[s] = r[s]
  BY <1>3 DEF CarryIn
<1>8. ASSUME NEW s \in DOMAIN r PROVE \E k \in DOMAIN raw : IsPoint(p, s, raw, hold, u, k)
  <2>1. PICK k \in DOMAIN raw : /\ raw[k].ts = s /\ r[s] = raw[k].power
                                /\ \A j \in DOMAIN raw : raw[j].ts = s => j <= k
    BY <1>4, <1>8
  <2>2. s \in Int /\ u <= s /\ p[s] = r[s]
    BY <1>4, <1>7, <1>8
  <2>3. s = LaterOf(raw[k].ts, u)
    BY <2>1, <2>2 DEF LaterOf
  <2>4. hold # Null => u - raw[k].ts <= hold
    BY <2>1, <2>2 DEF IsHold
  <2>5. \A j \in DOMAIN raw : raw[j].ts <= s =>
          raw[j].ts < raw[k].ts \/ (raw[j].ts = raw[k].ts /\ j <= k)
    BY <1>5, <2>1, <2>2
  <2>6. IsPoint(p, s, raw, hold, u, k)
    BY <2>1, <2>2, <2>3, <2>4, <2>5 DEF IsPoint
  <2> QED
    BY <2>6
<1>9. \A k \in DOMAIN raw : raw[k].ts \in u..v => raw[k].ts \in DOMAIN p
  BY <1>4, <1>7
<1>10. CASE b # Null /\ IsFresh(b.ts, u, hold) /\ u \notin DOMAIN r
  <2>1. p = [t \in DOMAIN r \cup {u} |-> IF t = u THEN b.power ELSE r[t]]
    BY <1>3, <1>10 DEF CarryIn
  <2>2. PICK k \in DOMAIN raw : IsLastBefore(raw, u, k)
    BY <1>6, <1>10
  <2>3. /\ raw[k].ts < u /\ b = raw[k]
        /\ \A j \in DOMAIN raw : raw[j].ts < u =>
             raw[j].ts < raw[k].ts \/ (raw[j].ts = raw[k].ts /\ j <= k)
    BY <1>2, <2>2 DEF IsLastBefore
  <2>4. \A j \in DOMAIN raw : raw[j].ts <= u => raw[j].ts < u
    BY <1>4, <1>5, <1>10
  <2>5. u = LaterOf(raw[k].ts, u) /\ p[u] = raw[k].power
    BY <1>5, <2>1, <2>3 DEF LaterOf
  <2>6. hold # Null => u - raw[k].ts <= hold
    BY <1>10, <2>3 DEF IsFresh
  <2>7. IsPoint(p, u, raw, hold, u, k)
    BY <2>3, <2>4, <2>5, <2>6 DEF IsPoint
  <2>8. DOMAIN p \subseteq u..v /\ p = [s \in DOMAIN p |-> p[s]] /\ DOMAIN p = DOMAIN r \cup {u}
    BY <1>4, <2>1
  <2>9. \A s \in DOMAIN p : \E j \in DOMAIN raw : IsPoint(p, s, raw, hold, u, j)
    BY <1>8, <2>7, <2>8
  <2> QED
    BY <1>9, <2>8, <2>9 DEF ArePoints
<1>11. CASE ~(b # Null /\ IsFresh(b.ts, u, hold) /\ u \notin DOMAIN r)
  <2>1. p = r
    BY <1>3, <1>11 DEF CarryIn
  <2>2. ASSUME NEW k \in DOMAIN raw, raw[k].ts < u, hold # Null => u - raw[k].ts <= hold,
               \A j \in DOMAIN raw : raw[j].ts <= u =>
                  raw[j].ts < raw[k].ts \/ (raw[j].ts = raw[k].ts /\ j <= k)
        PROVE  u \in DOMAIN r
    <3>1. PICK l \in DOMAIN raw : IsLastBefore(raw, u, l)
      BY <1>6, <2>2
    <3>2. /\ raw[l].ts < u /\ b = raw[l]
          /\ raw[k].ts < raw[l].ts \/ (raw[k].ts = raw[l].ts /\ k <= l)
      BY <1>2, <2>2, <3>1 DEF IsLastBefore
    <3>3. raw[l].ts < raw[k].ts \/ (raw[l].ts = raw[k].ts /\ l <= k)
      BY <1>5, <2>2, <3>2
    <3>4. l = k
      BY <1>5, <3>2, <3>3
    <3>5. b # Null /\ IsFresh(b.ts, u, hold)
      BY <1>5, <2>2, <3>2, <3>4 DEF IsFresh
    <3> QED
      BY <1>11, <3>5
  <2>3. \A k \in DOMAIN raw :
         (/\ raw[k].ts < u
          /\ hold # Null => u - raw[k].ts <= hold
          /\ \A j \in DOMAIN raw : raw[j].ts <= u =>
                \/ raw[j].ts < raw[k].ts
                \/ raw[j].ts = raw[k].ts /\ j <= k)
           => u \in DOMAIN p
    BY <2>1, <2>2
  <2> QED
    BY <1>4, <1>8, <1>9, <2>1, <2>3 DEF ArePoints
<1> QED
  BY <1>10, <1>11

Covers(i, t) == i.from <= t /\ t < i.to

(* Where an interval lies, a reading stands that has its power.             *)
LEMMA IntervalStands ==
    ASSUME NEW raw, IsLog(raw), NEW hold, IsHold(hold),
           NEW u \in Int, NEW v \in Int, u <= v,
           NEW i \in HourIntervals(raw, hold, u, v)
    PROVE  /\ i.from \in Int /\ i.to \in Int /\ i.from < i.to
           /\ u <= i.from /\ i.to <= v
           /\ \A t \in Int : Covers(i, t) =>
                \E k \in StandsIn(raw, hold, u, t) : raw[k].power = i.power
<1>1. PICK p : p = HourPoints(raw, hold, u, v)
  OBVIOUS
<1>2. PICK q : q = CarryOut(p, v, hold)
  OBVIOUS
<1>3. i \in Intervals(q, hold)
  BY <1>1, <1>2 DEF HourIntervals, WindowSamples, HourPoints
<1>4. ArePoints(p, raw, hold, u, v)
  BY <1>1, PointsAre
<1>5. DOMAIN p \subseteq u..v /\ p = [s \in DOMAIN p |-> p[s]]
  BY <1>4 DEF ArePoints
<1>6. /\ i.from \in DOMAIN p /\ i.to \in Int /\ i.from < i.to /\ i.to <= v
      /\ i = [from |-> i.from, power |-> p[i.from], to |-> i.to]
      /\ \A s \in DOMAIN p : s <= i.from \/ i.to <= s
      /\ hold # Null => i.to <= i.from + hold
  BY <1>2, <1>3, <1>5, HeldIntervals
<1>7. i.from \in Int /\ u <= i.from /\ i.power = p[i.from]
  BY <1>5, <1>6
<1>8. PICK k \in DOMAIN raw : IsPoint(p, i.from, raw, hold, u, k)
  BY <1>4, <1>6 DEF ArePoints
<1>9. /\ raw[k].power = i.power /\ i.from = LaterOf(raw[k].ts, u)
      /\ hold # Null => u - raw[k].ts <= hold
      /\ \A j \in DOMAIN raw : raw[j].ts <= i.from =>
           raw[j].ts < raw[k].ts \/ (raw[j].ts = raw[k].ts /\ j <= k)
      /\ raw[k].ts \in Int /\ raw[k].ts <= i.from
  BY <1>7, <1>8 DEF IsPoint, IsLog, AreSaved, LaterOf
<1>10. ASSUME NEW t \in Int, Covers(i, t) PROVE k \in StandsIn(raw, hold, u, t)
  <2>1. i.from <= t /\ t < i.to
    BY <1>10 DEF Covers
  <2>2. ASSUME NEW j \in DOMAIN raw, raw[j].ts <= t
        PROVE  raw[j].ts < raw[k].ts \/ (raw[j].ts = raw[k].ts /\ j <= k)
    <3>1. raw[j].ts \in Int
      BY DEF IsLog, AreSaved
    <3>2. CASE raw[j].ts <= i.from
      BY <1>9, <3>2
    <3>3. CASE i.from < raw[j].ts
      <4>1. raw[j].ts \in u..v
        BY <1>6, <1>7, <2>1, <2>2, <3>1, <3>3
      <4>2. raw[j].ts \in DOMAIN p
        BY <1>4, <4>1 DEF ArePoints
      <4> QED
        BY <1>6, <1>7, <2>1, <2>2, <3>1, <3>3, <4>2
    <3> QED
      BY <1>7, <3>1, <3>2, <3>3
  <2>3. hold # Null => t < LaterOf(raw[k].ts, u) + hold
    BY <1>6, <1>7, <1>9, <2>1 DEF IsHold
  <2>4. raw[k].ts <= t
    BY <1>7, <1>9, <2>1
  <2> QED
    BY <1>9, <2>2, <2>3, <2>4 DEF StandsIn
<1> QED
  BY <1>6, <1>7, <1>9, <1>10

(* Where a reading stands in the hour, an interval lies.                    *)
LEMMA StandsInterval ==
    ASSUME NEW raw, IsLog(raw), NEW hold, IsHold(hold),
           NEW u \in Int, NEW v \in Int, NEW t \in Int, u <= t, t < v,
           NEW k \in StandsIn(raw, hold, u, t)
    PROVE  \E i \in HourIntervals(raw, hold, u, v) : Covers(i, t)
<1>1. PICK p : p = HourPoints(raw, hold, u, v)
  OBVIOUS
<1>2. PICK q : q = CarryOut(p, v, hold)
  OBVIOUS
<1>3. HourIntervals(raw, hold, u, v) = Intervals(q, hold) /\ u <= v
  BY <1>1, <1>2 DEF HourIntervals, WindowSamples, HourPoints
<1>4. ArePoints(p, raw, hold, u, v)
  BY <1>1, <1>3, PointsAre
<1>5. PICK s : s = LaterOf(raw[k].ts, u)
  OBVIOUS
<1>6. /\ k \in DOMAIN raw /\ raw[k].ts \in Int /\ s \in Int /\ raw[k].ts <= t
      /\ u <= s /\ s <= t /\ raw[k].ts <= s
      /\ hold # Null => u - raw[k].ts <= hold /\ t < s + hold
      /\ \A j \in DOMAIN raw : raw[j].ts <= t =>
           raw[j].ts < raw[k].ts \/ (raw[j].ts = raw[k].ts /\ j <= k)
  BY <1>5 DEF StandsIn, IsLog, AreSaved, LaterOf
<1>7. s \in DOMAIN p
  <2>1. CASE u <= raw[k].ts
    <3>1. s = raw[k].ts /\ s \in u..v
      BY <1>5, <1>6, <2>1 DEF LaterOf
    <3> QED
      BY <1>4, <1>6, <3>1 DEF ArePoints
  <2>2. CASE raw[k].ts < u
    <3>1. s = u
      BY <1>5, <2>2 DEF LaterOf
    <3>2. \A j \in DOMAIN raw : raw[j].ts <= u => raw[j].ts <= t
      BY DEF IsLog, AreSaved
    <3> QED
      BY <1>4, <1>6, <2>2, <3>1, <3>2 DEF ArePoints
  <2> QED
    BY <1>6, <2>1, <2>2
<1>8. \A w \in DOMAIN p : w <= t => w <= s
  <2> SUFFICES ASSUME NEW w \in DOMAIN p, w <= t PROVE w <= s
    OBVIOUS
  <2>1. PICK j \in DOMAIN raw : IsPoint(p, w, raw, hold, u, j)
    BY <1>4 DEF ArePoints
  <2>2. w = LaterOf(raw[j].ts, u) /\ raw[j].ts \in Int /\ w \in Int
    BY <1>4, <2>1 DEF IsPoint, IsLog, AreSaved, ArePoints
  <2>3. raw[j].ts <= t
    BY <2>2 DEF LaterOf
  <2>4. raw[j].ts <= raw[k].ts
    BY <1>6, <2>2, <2>3
  <2> QED
    BY <1>5, <1>6, <2>2, <2>4 DEF LaterOf
<1>9. DOMAIN p \subseteq u..v /\ p = [w \in DOMAIN p |-> p[w]]
  BY <1>4 DEF ArePoints
<1>10. \E i \in Intervals(q, hold) : i.from = s /\ i.from <= t /\ t < i.to
  <2>1. hold # Null => t < s + hold
    BY <1>6
  <2>2. s <= t
    BY <1>6
  <2> QED
    BY <1>2, <1>7, <1>8, <1>9, <2>1, <2>2, HeldThere
<1> QED
  BY <1>3, <1>10 DEF Covers

(* The intervals of an hour are finitely many and share no unit of time.    *)
LEMMA HourIntervalsApart ==
    ASSUME NEW raw, IsLog(raw), NEW hold, IsHold(hold),
           NEW u \in Int, NEW v \in Int, u <= v
    PROVE  /\ AreIntervals(HourIntervals(raw, hold, u, v))
           /\ \A i, j \in HourIntervals(raw, hold, u, v) : \A t \in Int :
                Covers(i, t) /\ Covers(j, t) => i = j
<1>1. PICK p : p = HourPoints(raw, hold, u, v)
  OBVIOUS
<1>2. PICK q : q = CarryOut(p, v, hold)
  OBVIOUS
<1>3. HourIntervals(raw, hold, u, v) = Intervals(q, hold)
  BY <1>1, <1>2 DEF HourIntervals, WindowSamples, HourPoints
<1>4. DOMAIN p \subseteq u..v /\ p = [s \in DOMAIN p |-> p[s]]
  BY <1>1, PointsAre DEF ArePoints
<1>5. DOMAIN q \subseteq Int /\ IsFiniteSet(DOMAIN q)
  BY <1>2, <1>4, HeldDomain
<1>6. IsFiniteSet(Intervals(q, hold))
  BY <1>5, IntervalsFinite
<1>7. ASSUME NEW i \in HourIntervals(raw, hold, u, v)
      PROVE  i.from \in Int /\ i.to \in Int /\ i.power \in Int
  <2>1. i.from \in Int /\ i.to \in Int /\ i.from < i.to
    BY IntervalStands
  <2>2. \E k \in StandsIn(raw, hold, u, i.from) : raw[k].power = i.power
    BY <2>1, IntervalStands DEF Covers
  <2> QED
    BY <2>1, <2>2 DEF StandsIn, IsLog
<1>8. ASSUME NEW i \in HourIntervals(raw, hold, u, v),
             NEW j \in HourIntervals(raw, hold, u, v),
             NEW t \in Int, Covers(i, t), Covers(j, t)
      PROVE  i = j
  BY <1>3, <1>5, <1>8, OneInterval DEF Covers
<1> QED
  BY <1>3, <1>6, <1>7, <1>8 DEF AreIntervals

(* Unit by unit, the intervals of the hour have the power that stands.      *)
LEMMA HourLevel ==
    ASSUME NEW raw, IsLog(raw), NEW hold, IsHold(hold),
           NEW u \in Int, NEW v \in Int, u <= v, NEW t \in u..(v - 1)
    PROVE  Level(HourIntervals(raw, hold, u, v), t) = PowerIn(raw, hold, u, t)
<1>1. PICK I : I = HourIntervals(raw, hold, u, v)
  OBVIOUS
<1>2. /\ AreIntervals(I)
      /\ \A i, j \in I : Covers(i, t) /\ Covers(j, t) => i = j
  BY <1>1, HourIntervalsApart
<1>3. t \in Int /\ u <= t /\ t < v
  OBVIOUS
<1>4. CASE \E i \in I : Covers(i, t)
  <2>1. PICK i \in I : Covers(i, t)
    BY <1>4
  <2>2. Level(I, t) = i.power
    BY <1>2, <1>3, <2>1, LevelInside DEF Covers
  <2>3. PICK k \in StandsIn(raw, hold, u, t) : raw[k].power = i.power
    BY <1>1, <1>3, <2>1, IntervalStands
  <2>4. PowerIn(raw, hold, u, t) = i.power
    BY <2>3, PowerOfOne
  <2> QED
    BY <1>1, <2>2, <2>4
<1>5. CASE ~ \E i \in I : Covers(i, t)
  <2>1. Level(I, t) = 0
    BY <1>2, <1>3, <1>5, LevelOutside DEF Covers
  <2>2. StandsIn(raw, hold, u, t) = {}
    BY <1>1, <1>3, <1>5, StandsInterval
  <2> QED
    BY <1>1, <2>1, <2>2, PowerOfNone
<1> QED
  BY <1>4, <1>5

(* The sum over the intervals is the sum over the units of time.            *)
HourSum(raw, hold, u, v) ==
    SumFunction([i \in HourIntervals(raw, hold, u, v) |-> i.power * (i.to - i.from)])

LEMMA HourSumIs ==
    ASSUME NEW raw, IsLog(raw), NEW hold, IsHold(hold),
           NEW u \in Int, NEW v \in Int, u <= v
    PROVE  /\ HourSum(raw, hold, u, v) \in Int
           /\ HourSum(raw, hold, u, v) =
                SumFunction([t \in u..(v - 1) |-> PowerIn(raw, hold, u, t)])
<1>1. PICK I : I = HourIntervals(raw, hold, u, v)
  OBVIOUS
<1>2. AreIntervals(I)
  BY <1>1, HourIntervalsApart
<1>3. PICK a : a = [i \in I |-> i.power * (i.to - i.from)]
  OBVIOUS
<1>4. PICK b : b = [t \in u..(v - 1) |-> PowerIn(raw, hold, u, t)]
  OBVIOUS
<1>5. \A t \in u..(v - 1) : b[t] = Level(I, t)
  BY <1>1, <1>4, HourLevel
<1>6. \A i \in I : a[i] = i.power * LaterOf(0, EarlierOf(i.to, v) - LaterOf(i.from, u))
  <2> SUFFICES ASSUME NEW i \in I
               PROVE  a[i] = i.power * LaterOf(0, EarlierOf(i.to, v) - LaterOf(i.from, u))
    OBVIOUS
  <2>1. /\ i.from \in Int /\ i.to \in Int /\ i.from < i.to
        /\ u <= i.from /\ i.to <= v
    BY <1>1, IntervalStands
  <2>2. LaterOf(0, EarlierOf(i.to, v) - LaterOf(i.from, u)) = i.to - i.from
    BY <2>1 DEF LaterOf, EarlierOf
  <2> QED
    BY <1>3, <2>2
<1>7. SumFunctionOnSet(a, I) = SumFunctionOnSet(b, u..(v - 1))
  <2>1. IsStretch(I, u, v, a, b)
    BY <1>2, <1>5, <1>6 DEF IsStretch
  <2> QED
    BY <2>1, StretchSum
<1>8. SumFunctionOnSet(a, I) \in Int
  <2>1. IsFiniteSet(I) /\ \A i \in I : a[i] \in Int
    BY <1>2, <1>3 DEF AreIntervals
  <2> QED
    BY <2>1, SumType
<1>9. SumFunction(a) = SumFunctionOnSet(a, I) /\ SumFunction(b) = SumFunctionOnSet(b, u..(v - 1))
  BY <1>3, <1>4 DEF SumFunction
<1> QED
  BY <1>1, <1>3, <1>4, <1>7, <1>8, <1>9 DEF HourSum

-----------------------------------------------------------------------------
(* The inductive invariant.                                                *)

(***************************************************************************)
(* A relay switches once at a time, and only in the past.                  *)
(***************************************************************************)
WorldInv ==
    /\ facts \subseteq Fact /\ IsFiniteSet(facts) /\ Cardinality(facts) <= MaxFacts
    /\ log \subseteq facts
    /\ rows \in [Devices -> Row] /\ now \in Time
    /\ \A f \in facts : f.at <= now
    /\ \A f, g \in facts : f.device = g.device /\ f.at = g.at => f = g

(***************************************************************************)
(* What the report knows in each phase.  Its window ended when it began.   *)
(***************************************************************************)
AtDevice == phase \in {"events", "count"}

Charging == phase \in {"devices", "events", "count", "answer", "done"} /\ provider.api

ReportInv ==
    /\ provider \in Providers /\ readings \in ReadingLists
    /\ phase \in {"idle", "production", "rows", "devices", "events", "count",
                  "answer", "done", "rejected"}
    /\ phase \notin {"idle", "rejected"} => Accepted
    /\ phase \in {"rows", "devices", "events", "count"} => provider.api
    /\ production \in Int /\ consumption \in Nat /\ available \in Nat
    /\ table \in [Devices -> Row \cup {Null}]
    /\ Charging => table \in [Devices -> Row]
    /\ todo \subseteq Considered /\ device \in Considered \cup {Null}
    /\ AtDevice <=> device # Null
    /\ device \notin todo
    /\ phase \notin {"devices", "events", "count"} => todo = {}
    /\ charged \in [Devices -> Nat \cup {Null}] /\ missed \subseteq Considered
    /\ end <= now

(***************************************************************************)
(* The instance of DeviceOnTime runs while a device is counted.            *)
(***************************************************************************)
CountingInv ==
    /\ P!TypeOK /\ P!Counted
    /\ phase # "count" => pc = "done"
    /\ phase = "idle" => on = 0
    /\ phase = "count" => P!CountInv

BaseInv == WorldInv /\ ReportInv /\ CountingInv

-----------------------------------------------------------------------------
(* Facts about a state.                                                    *)

LEMMA WindowIs ==
    ASSUME P!TypeOK
    PROVE  /\ start \in Int /\ end \in Int /\ end \in Time /\ start <= end
<1>1. PICK t \in Time : window = <<HourOf(t), t>>
  BY DEF P!TypeOK
<1>2. t \in Int /\ HourOf(t) \in Int /\ HourOf(t) <= t
  BY CountingAssumptions, HourOfTime
<1> QED
  BY <1>1, <1>2 DEF start, end

LEMMA FactsType ==
    ASSUME WorldInv, NEW S, S \subseteq facts
    PROVE  /\ AreFacts(S)
           /\ \A f \in S : f.state \in BOOLEAN /\ f.at \in Time /\ f.at \in Int
                           /\ f.device \in Devices
<1>1. IsFiniteSet(S)
  BY FS_Subset DEF WorldInv
<1>2. \A f \in S : f.state \in BOOLEAN /\ f.at \in Time /\ f.device \in Devices
  BY DEF WorldInv, Fact
<1> QED
  BY <1>1, <1>2, CountingAssumptions DEF AreFacts

LEMMA FactsOfOne ==
    ASSUME WorldInv, NEW d, NEW S, S \subseteq FactsOf(d)
    PROVE  AreOfOne(S)
<1>1. S \subseteq facts
  BY DEF FactsOf
<1>2. AreFacts(S)
  BY <1>1, FactsType
<1>3. \A f, g \in S : f.at = g.at => f = g
  BY <1>1 DEF WorldInv, FactsOf
<1> QED
  BY <1>2, <1>3 DEF AreOfOne

LEMMA LastStateIs ==
    ASSUME WorldInv, NEW S, S \subseteq facts
    PROVE  /\ LastState(S) \in State
           /\ S # {} => /\ LastState(S) \in BOOLEAN /\ LastState(S) # Null
                        /\ \E f \in S : /\ \A g \in S : g.at <= f.at
                                        /\ LastState(S) = f.state
<1>1. CASE S = {}
  BY <1>1 DEF LastState, State
<1>2. CASE S # {}
  <2>1. \E f \in S : \A g \in S : g.at <= f.at
    BY <1>2, FactsType, LatestFact
  <2>2. PICK f \in S : /\ \A g \in S : g.at <= f.at
                       /\ LastState(S) = f.state
    BY <1>2, <2>1 DEF LastState
  <2>3. f.state \in BOOLEAN
    BY <2>2, FactsType
  <2> QED
    BY <2>2, <2>3, NullAssumption DEF State
<1> QED
  BY <1>1, <1>2

LEMMA QueryIs ==
    ASSUME WorldInv, P!TypeOK, NEW d, NEW s, s = InOrder(Within(d))
    PROVE  /\ Cardinality(Within(d)) \in 0..MaxFacts
           /\ IsInOrder(s, Within(d))
           /\ \A f \in Within(d) : \E i \in 1..Cardinality(Within(d)) : s[i] = f
           /\ Within(d) \subseteq FactsOf(d)
<1>1. Within(d) \subseteq facts /\ Within(d) \subseteq FactsOf(d)
  BY DEF Within, FactsOf, WorldInv
<1>2. IsFiniteSet(facts) /\ Cardinality(facts) <= MaxFacts
  BY DEF WorldInv
<1>3. Cardinality(Within(d)) \in Nat /\ Cardinality(facts) \in Nat
      /\ Cardinality(Within(d)) <= Cardinality(facts)
  <2>1. IsFiniteSet(Within(d)) /\ Cardinality(Within(d)) <= Cardinality(facts)
    BY <1>1, <1>2, FS_Subset
  <2> QED
    BY <1>2, <2>1, FS_CardinalityType
<1>4. Cardinality(Within(d)) \in 0..MaxFacts
  BY <1>2, <1>3, PoolBounds
<1>5. AreOfOne(Within(d))
  BY <1>1, FactsOfOne
<1> QED
  BY <1>1, <1>4, <1>5, InOrderIs

-----------------------------------------------------------------------------
(* The counting, in the states of the report.                              *)

LEMMA SameSteps == OnTime!Next <=> P!Next
BY DEF OnTime!Next, OnTime!EmptyWindow, OnTime!Fallback, OnTime!Begin, OnTime!SkipEvent,
       OnTime!CountEvent, OnTime!Finish, OnTime!StateAtStart, OnTime!SnapshotState,
       OnTime!FallbackSeconds, OnTime!Clamp, OnTime!inputs, OnTime!start, OnTime!end,
       P!Next, P!EmptyWindow, P!Fallback, P!Begin, P!SkipEvent,
       P!CountEvent, P!Finish, P!StateAtStart, P!SnapshotState,
       P!FallbackSeconds, P!Clamp, P!inputs, P!start, P!end

LEMMA SameType == OnTime!TypeOK <=> P!TypeOK
BY DEF OnTime!TypeOK, OnTime!State, OnTime!Snapshot, OnTime!EventLists, OnTime!Event,
       P!TypeOK, P!State, P!Snapshot, P!EventLists, P!Event

LEMMA CountStarts == P!Init => P!TypeOK /\ P!Counted /\ P!CountInv
BY CountingAssumptions, P!OnInit, P!CountInit

LEMMA CountStartsNext == P!Init' => P!TypeOK' /\ P!Counted' /\ P!CountInv'
BY CountStarts, PTL

LEMMA CountStep ==
    ASSUME P!TypeOK, P!Counted, [P!Next]_(P!vars)
    PROVE  /\ P!TypeOK' /\ P!Counted'
           /\ P!CountInv => P!CountInv'
BY CountingAssumptions, P!OnNext, P!CountNext

LEMMA CountStays ==
    ASSUME P!TypeOK, P!Counted, UNCHANGED <<window, count>>
    PROVE  /\ P!TypeOK' /\ P!Counted'
           /\ P!CountInv => P!CountInv'
<1>1. UNCHANGED P!vars
  BY DEF P!vars, count
<1> QED
  BY <1>1, CountStep

LEMMA OnIs ==
    ASSUME P!TypeOK, P!Counted
    PROVE  on \in Nat /\ on <= end - start
<1>1. start \in Int /\ end \in Int /\ start <= end /\ on \in Int
  BY WindowIs DEF P!TypeOK
<1>2. on >= 0 /\ (start < end => on <= end - start) /\ (end <= start => on = 0)
  BY DEF P!Counted, P!OnBounded, P!start, P!end, start, end
<1> QED
  BY <1>1, <1>2

LEMMA InputsStay == OnTime!Next => UNCHANGED <<window, prev, snapshot, events>>
BY DEF OnTime!Next, OnTime!EmptyWindow, OnTime!Fallback, OnTime!Begin, OnTime!SkipEvent,
       OnTime!CountEvent, OnTime!Finish, OnTime!inputs

-----------------------------------------------------------------------------
(* Production.                                                             *)

Produced ==
    SumFunction([t \in start..(end - 1) |->
        SumFunction([i \in StandsAt(t) |-> readings[i].power])])

LEMMA ReadingsAndHold ==
    ASSUME readings \in ReadingLists, provider \in Providers, Found
    PROVE  IsLog(readings) /\ IsHold(Hold)
<1>0. PICK T : T = [ts : Int, power : Int]
  OBVIOUS
<1>1. readings \in Seq(T)
  BY <1>0, ReadingsAssumption
<1>2. PICK n : n = Len(readings)
  OBVIOUS
<1>3. n \in Nat /\ DOMAIN readings = 1..n
  BY <1>1, <1>2
<1>4. \A i \in 1..n : readings[i] \in [ts : Int, power : Int]
  <2>1. \A i \in 1..n : readings[i] \in T
    BY <1>1, <1>2
  <2> QED
    BY <1>0, <2>1
<1>5. IsFiniteSet(1..n) /\ 1..n \subseteq Int
  BY <1>3, FS_Interval
<1>6. IsLog(readings)
  BY <1>3, <1>4, <1>5, NullAssumption DEF IsLog, AreSaved
<1>7. provider.expected = Null \/ provider.expected \in Int
  BY ProvidersAssumption DEF Found
<1> QED
  BY <1>6, <1>7, HoldType DEF Hold

LEMMA ProductionIs ==
    ASSUME ReportInv, P!TypeOK, Found
    PROVE  IntegrateWindow(HourSamples) \in Int /\ IntegrateWindow(HourSamples) = Produced
<1>1. IsLog(readings) /\ IsHold(Hold)
  BY ReadingsAndHold DEF ReportInv
<1>2. start \in Int /\ end \in Int /\ start <= end
  BY WindowIs
<1>3. IntegrateWindow(HourSamples) = HourSum(readings, Hold, start, end)
  BY DEF IntegrateWindow, HourSamples, HourSum, HourIntervals
<1>4. \A t : StandsAt(t) = StandsIn(readings, Hold, start, t)
  BY DEF StandsAt, StandsIn
<1>5. \A t : SumFunction([i \in StandsAt(t) |-> readings[i].power])
             = PowerIn(readings, Hold, start, t)
  BY <1>4 DEF PowerIn
<1>6. Produced = SumFunction([t \in start..(end - 1) |-> PowerIn(readings, Hold, start, t)])
  BY <1>5 DEF Produced
<1> QED
  BY <1>1, <1>2, <1>3, <1>6, HourSumIs

-----------------------------------------------------------------------------
(* The invariant of the world, the report and the counting is inductive.    *)

LEMMA BaseInit == Init => BaseInv
<1> SUFFICES ASSUME Init PROVE BaseInv
  OBVIOUS
<1>0. 0 \in Time /\ 0 \in Nat /\ Null \notin Considered
  BY PoolBounds, DevicesAssumption DEF Time, Considered
<1>1. WorldInv
  <2>1. IsFiniteSet(facts) /\ Cardinality(facts) = 0
    BY FS_EmptySet DEF Init
  <2>2. rows \in [Devices -> Row]
    BY DEF Init, Row
  <2> QED
    BY <1>0, <2>1, <2>2, PoolBounds DEF Init, WorldInv
<1>2. ReportInv
  <2>1. end = 0
    BY DEF Init, end
  <2> QED
    BY <1>0, <2>1 DEF Init, ReportInv, AtDevice, Charging
<1>3. CountingInv
  <2>1. HourOf(0) = 0
    BY HourOfTime, HourAssumption DEF HourOf
  <2>2. window \in {<<HourOf(t), t>> : t \in Time}
    BY <1>0, <2>1 DEF Init
  <2>3. events \in P!EventLists
    <3>1. << >> \in [1..0 -> P!Event]
      OBVIOUS
    <3>2. 0 \in 0..MaxFacts
      BY PoolBounds
    <3> QED
      BY <3>1, <3>2 DEF Init, P!EventLists
  <2>4. snapshot \in P!Snapshot /\ prev \in P!State /\ current \in P!State
    BY DEF Init, P!Snapshot, P!State
  <2>5. next \in 1..(MaxFacts + 1)
    BY PoolBounds DEF Init
  <2>6. P!TypeOK
    BY <2>2, <2>3, <2>4, <2>5 DEF Init, P!TypeOK
  <2>7. P!Counted
    BY DEF Init, P!Counted, P!OnBounded, P!start, P!end
  <2> QED
    BY <2>6, <2>7 DEF Init, CountingInv
<1> QED
  BY <1>1, <1>2, <1>3 DEF BaseInv

LEMMA WorldStaysInv == ASSUME WorldInv, UNCHANGED world PROVE WorldInv'
BY DEF WorldInv, world

(* A new fact is of a time at which the device has none.                    *)
LEMMA SwitchWorld ==
    ASSUME WorldInv, NEW d \in Devices, NEW s \in BOOLEAN, Switch(d, s)
    PROVE  WorldInv'
<1>1. PICK f : f = [device |-> d, at |-> now, state |-> s]
  OBVIOUS
<1>2. /\ facts' = facts \cup {f} /\ Cardinality(facts) < MaxFacts
      /\ \A g \in FactsOf(d) : g.at < now
      /\ UNCHANGED <<log, rows, now>>
  BY <1>1 DEF Switch
<1>3. f \in Fact /\ f.at = now /\ f.device = d /\ now \in Int
  BY <1>1, CountingAssumptions DEF WorldInv, Fact
<1>4. f \notin facts
  BY <1>2, <1>3 DEF FactsOf
<1>5. IsFiniteSet(facts') /\ Cardinality(facts') = Cardinality(facts) + 1
  BY <1>2, <1>4, FS_AddElement DEF WorldInv
<1>6. Cardinality(facts) \in Nat
  BY FS_CardinalityType DEF WorldInv
<1>7. Cardinality(facts') <= MaxFacts
  BY <1>2, <1>5, <1>6, PoolBounds
<1>8. \A g \in facts' : g.at <= now'
  BY <1>2, <1>3 DEF WorldInv
<1>9. \A g \in facts : g.device = d => g.at < now
  BY <1>2 DEF FactsOf
<1>10. \A g, h \in facts' : g.device = h.device /\ g.at = h.at => g = h
  BY <1>2, <1>3, <1>9 DEF WorldInv
<1> QED
  BY <1>2, <1>3, <1>5, <1>7, <1>8, <1>10 DEF WorldInv

LEMMA PostWorld ==
    ASSUME WorldInv, NEW f \in facts, Post(f)
    PROVE  WorldInv'
<1>1. f.device \in Devices /\ f.state \in BOOLEAN /\ f.at \in Time
  BY FactsType
<1>2. [manual_state |-> f.state, changed_at |-> f.at] \in Row
  BY <1>1 DEF Row, State
<1>3. rows' \in [Devices -> Row] /\ log' \subseteq facts
  BY <1>2 DEF Post, WorldInv
<1> QED
  BY <1>3 DEF Post, WorldInv

LEMMA TickWorld == ASSUME WorldInv, Tick PROVE WorldInv'
<1>1. now' \in Time /\ now' = now + 1 /\ now \in Int
  BY PoolBounds DEF Tick, WorldInv, Time
<1>2. \A f \in facts : f.at \in Int
  BY FactsType
<1>3. \A f \in facts : f.at <= now'
  BY <1>1, <1>2 DEF WorldInv
<1> QED
  BY <1>1, <1>3 DEF Tick, WorldInv

(* The report is not disturbed by what happens around it.                   *)
LEMMA WorldBase ==
    ASSUME BaseInv, World
    PROVE  /\ BaseInv'
           /\ now <= now' /\ UNCHANGED <<given, phase, result, table, todo, device, charged,
                                         missed, window, count>>
<1>1. UNCHANGED <<given, phase, result, table, todo, device, charged, missed, window, count>>
  BY DEF World, Switch, Post, Tick
<1>2. WorldInv'
  BY SwitchWorld, PostWorld, TickWorld DEF BaseInv, World
<1>3. now <= now' /\ now \in Int /\ now' \in Int
  <2>1. now \in Int /\ now' \in Int
    BY <1>2, CountingAssumptions DEF BaseInv, WorldInv
  <2>2. now' = now \/ now' = now + 1
    BY DEF World, Switch, Post, Tick
  <2> QED
    BY <2>1, <2>2
<1>4. ReportInv'
  <2>1. end \in Int /\ end' = end
    BY <1>1, WindowIs DEF end, BaseInv, CountingInv
  <2>2. end' <= now'
    BY <1>3, <2>1 DEF BaseInv, ReportInv
  <2> QED
    BY <1>1, <2>2 DEF BaseInv, ReportInv, AtDevice, Charging, Accepted, Found, given, result
<1>5. CountingInv'
  BY <1>1, CountStays DEF BaseInv, CountingInv, count
<1> QED
  BY <1>1, <1>2, <1>3, <1>4, <1>5 DEF BaseInv

(* The steps of the report leave the world as it is.                        *)
LEMMA ReportKinds ==
    ASSUME BaseInv, Report
    PROVE  UNCHANGED <<world, given>> /\ WorldInv' /\ now' = now
<1>1. UNCHANGED <<world, given>>
  BY DEF Report, Reject, Open, BuildProduction, ListDevices, ReadPrevious, ReadEvents,
         CountOnTime, Charge, LastDevice, Answer
<1> QED
  BY <1>1, WorldStaysInv DEF BaseInv, world

LEMMA NoDevice == Null \notin Considered /\ Considered \subseteq Devices
BY DevicesAssumption DEF Considered

LEMMA RejectBase == ASSUME BaseInv, Reject PROVE BaseInv'
<1>1. UNCHANGED <<window, count>>
  BY DEF Reject
<1>2. CountingInv'
  BY <1>1, CountStays DEF Reject, BaseInv, CountingInv, count
<1>3. WorldInv' /\ UNCHANGED <<world, given>>
  BY ReportKinds DEF Report
<1>4. ReportInv'
  BY <1>1, <1>3 DEF Reject, BaseInv, ReportInv, AtDevice, Charging, Accepted, Found, given, result,
                    world, end
<1> QED
  BY <1>2, <1>3, <1>4 DEF BaseInv

LEMMA OpenBase == ASSUME BaseInv, Open PROVE BaseInv'
<1>1. WorldInv' /\ UNCHANGED <<world, given>> /\ now' = now /\ now \in Time
  BY ReportKinds DEF Report, BaseInv, WorldInv
<1>2. window' = <<HourOf(now), now>> /\ end' = now /\ start' = HourOf(now) /\ now \in Int
      /\ UNCHANGED count /\ HourOf(now) \in Int
  BY <1>1, CountingAssumptions, HourOfTime DEF Open, HourWindow, end, start
<1>3. ReportInv'
  BY <1>1, <1>2 DEF Open, BaseInv, ReportInv, AtDevice, Charging, Accepted, Found, given, result, world
<1>4. P!TypeOK'
  BY <1>1, <1>2 DEF BaseInv, CountingInv, P!TypeOK, count
<1>5. pc = "done" /\ on = 0
  BY DEF Open, BaseInv, CountingInv
<1>6. P!Counted'
  <2>1. pc' = "done" /\ on' = 0 /\ start' \in Int /\ end' \in Int
    BY <1>2, <1>5 DEF count
  <2> QED
    BY <2>1 DEF P!Counted, P!OnBounded, P!start, P!end, start, end
<1> QED
  BY <1>1, <1>2, <1>3, <1>4, <1>5, <1>6 DEF BaseInv, CountingInv, Open, count

LEMMA ProductionBase == ASSUME BaseInv, BuildProduction PROVE BaseInv'
<1>1. WorldInv' /\ UNCHANGED <<world, given>> /\ now' = now
  BY ReportKinds DEF Report
<1>2. CountingInv'
  BY CountStays DEF BuildProduction, BaseInv, CountingInv, count
<1>3. Found
  BY DEF BuildProduction, BaseInv, ReportInv, Accepted
<1>4. production' \in Int
  BY <1>3, ProductionIs DEF BuildProduction, BaseInv, CountingInv
<1>5. todo = {} /\ phase' \in {"rows", "answer"} /\ (phase' = "rows" => provider.api)
  BY DEF BuildProduction, BaseInv, ReportInv
<1>6. ReportInv'
  BY <1>1, <1>4, <1>5 DEF BuildProduction, BaseInv, ReportInv, AtDevice, Charging, Accepted, Found,
                          given, world, end
<1> QED
  BY <1>1, <1>2, <1>6 DEF BaseInv

LEMMA ListBase == ASSUME BaseInv, ListDevices PROVE BaseInv'
<1>1. WorldInv' /\ UNCHANGED <<world, given>> /\ now' = now
  BY ReportKinds DEF Report
<1>2. CountingInv'
  BY CountStays DEF ListDevices, BaseInv, CountingInv, count
<1>3. ReportInv'
  BY <1>1, NoDevice DEF ListDevices, BaseInv, ReportInv, WorldInv, AtDevice, Charging, Accepted, Found,
                        given, result, world, end
<1> QED
  BY <1>1, <1>2, <1>3 DEF BaseInv

LEMMA PreviousBase == ASSUME BaseInv, ReadPrevious PROVE BaseInv'
<1>1. WorldInv' /\ UNCHANGED <<world, given>> /\ now' = now
  BY ReportKinds DEF Report
<1>2. PICK d \in todo : /\ device' = d /\ todo' = todo \ {d} /\ snapshot' = table[d]
                        /\ prev' = LastState(Before(d))
                        /\ missed' = IF \E f \in FactsOf(d) \ log : f.at < end
                                     THEN missed \cup {d} ELSE missed
  BY DEF ReadPrevious
<1>3. d \in Considered /\ d \in Devices /\ d # Null /\ phase = "devices"
  BY NoDevice DEF BaseInv, ReportInv, ReadPrevious
<1>4. ReportInv'
  <2>1. missed' \subseteq Considered
    BY <1>2, <1>3 DEF BaseInv, ReportInv
  <2>2. end' = end
    BY DEF ReadPrevious, end
  <2> QED
    BY <1>1, <1>2, <1>3, <2>1, <2>2 DEF ReadPrevious, BaseInv, ReportInv, AtDevice, Charging,
                                        Accepted, Found, given, result, world
<1>5. prev' \in P!State
  <2>1. Before(d) \subseteq facts
    BY DEF Before, BaseInv, WorldInv
  <2> QED
    BY <1>2, <2>1, LastStateIs DEF BaseInv, State, P!State
<1>6. snapshot' \in P!Snapshot
  BY <1>2, <1>3 DEF BaseInv, ReportInv, Charging, Row, State, P!Snapshot, P!State
<1>7. P!TypeOK'
  BY <1>5, <1>6 DEF BaseInv, CountingInv, P!TypeOK, ReadPrevious
<1>8. pc = "done" /\ P!Counted'
  BY <1>3 DEF BaseInv, CountingInv, P!Counted, P!OnBounded, P!start, P!end, ReadPrevious
<1>9. CountingInv'
  BY <1>7, <1>8 DEF CountingInv, ReadPrevious
<1> QED
  BY <1>1, <1>4, <1>9 DEF BaseInv

(* The counting begins with the window, the row and the events of the        *)
(* device that the report is at.                                            *)
LEMMA EventsStart ==
    ASSUME BaseInv, ReadEvents
    PROVE  P!Init'
<1>1. PICK d : d = device
  OBVIOUS
<1>2. PICK S : S = InOrder(Within(d))
  OBVIOUS
<1>3. PICK n : n = Cardinality(Within(d))
  OBVIOUS
<1>4. n \in 0..MaxFacts /\ IsInOrder(S, Within(d)) /\ Within(d) \subseteq facts
  BY <1>2, <1>3, QueryIs DEF BaseInv, CountingInv, WorldInv, Within
<1>5. S \in [1..n -> Within(d)]
  BY <1>3, <1>4 DEF IsInOrder
<1>6. events' = [i \in 1..n |-> [at |-> S[i].at, state |-> S[i].state]]
  BY <1>1, <1>2, <1>5 DEF ReadEvents
<1>7. \A i \in 1..n : S[i].at \in Time /\ S[i].state \in BOOLEAN
  BY <1>4, <1>5, FactsType DEF BaseInv
<1>8. \A i \in 1..n : [at |-> S[i].at, state |-> S[i].state] \in P!Event
  BY <1>7 DEF P!Event, P!State
<1>9. events' \in P!EventLists
  <2>1. events' \in [1..n -> P!Event]
    BY <1>6, <1>8
  <2> QED
    BY <1>4, <2>1 DEF P!EventLists
<1> QED
  BY <1>9 DEF P!Init, P!start, start, ReadEvents, BaseInv, CountingInv, P!TypeOK

LEMMA EventsBase == ASSUME BaseInv, ReadEvents PROVE BaseInv'
<1>1. WorldInv' /\ UNCHANGED <<world, given>> /\ now' = now
  BY ReportKinds DEF Report
<1>2. CountingInv'
  BY EventsStart, CountStartsNext DEF ReadEvents, CountingInv
<1>3. ReportInv'
  BY <1>1 DEF ReadEvents, BaseInv, ReportInv, AtDevice, Charging, Accepted, Found, given, result, world,
              end
<1> QED
  BY <1>1, <1>2, <1>3 DEF BaseInv

LEMMA CountBase == ASSUME BaseInv, CountOnTime PROVE BaseInv'
<1>1. WorldInv' /\ UNCHANGED <<world, given>> /\ now' = now
  BY ReportKinds DEF Report
<1>2. CountingInv'
  BY SameSteps, CountStep DEF CountOnTime, BaseInv, CountingInv
<1>3. window' = window
  BY InputsStay DEF CountOnTime
<1>4. ReportInv'
  BY <1>1, <1>3 DEF CountOnTime, BaseInv, ReportInv, AtDevice, Charging, Accepted, Found, given, result,
                    world, end
<1> QED
  BY <1>1, <1>2, <1>4 DEF BaseInv

(* At the end of a device, it is charged what its rated power takes in the   *)
(* seconds counted.                                                         *)
LEMMA ChargeIs ==
    ASSUME BaseInv, Charge
    PROVE  /\ device \in Considered /\ device \in Devices /\ device # Null /\ device \notin todo
           /\ Rated[device] \in Int /\ Rated[device] > 0
           /\ on \in Nat /\ on <= end - start
           /\ InUnit(Rated[device] * on) \in Nat
           /\ consumption' = consumption + InUnit(Rated[device] * on)
           /\ UNCHANGED <<window, todo, missed, provider>>
<1>1. device \in Considered /\ device # Null /\ device \notin todo
  BY DEF Charge, BaseInv, ReportInv, AtDevice
<1>2. device \in Devices /\ Rated[device] \in Int /\ Rated[device] > 0
  BY <1>1, RatedAssumption DEF Considered
<1>3. on \in Nat /\ on <= end - start
  BY OnIs DEF BaseInv, CountingInv
<1>4. Rated[device] * on \in Nat
  <2>1. \A a, b \in Nat : a * b \in Nat
    OBVIOUS
  <2> QED
    BY <1>2, <1>3, <2>1
<1>5. InUnit(Rated[device] * on) \in Nat
  BY <1>4 DEF InUnit
<1>6. on <= 0 => InUnit(Rated[device] * on) = 0
  BY <1>2, <1>3 DEF InUnit
<1>7. consumption' = consumption + InUnit(Rated[device] * on)
  <2>1. CASE on <= 0
    <3>1. consumption' = consumption /\ consumption \in Int
      BY <2>1 DEF Charge, BaseInv, ReportInv
    <3> QED
      BY <1>6, <2>1, <3>1
  <2>2. CASE ~(on <= 0)
    BY <2>2 DEF Charge
  <2> QED
    BY <2>1, <2>2
<1> QED
  BY <1>1, <1>2, <1>3, <1>5, <1>7 DEF Charge, given

LEMMA ChargeBase == ASSUME BaseInv, Charge PROVE BaseInv'
<1>1. WorldInv' /\ UNCHANGED <<world, given>> /\ now' = now
  BY ReportKinds DEF Report
<1>2. CountingInv'
  BY CountStays DEF Charge, BaseInv, CountingInv, count
<1>3. device \in Devices /\ on \in Nat /\ consumption' \in Nat
  BY ChargeIs DEF BaseInv, ReportInv
<1>4. charged' \in [Devices -> Nat \cup {Null}]
  BY <1>3 DEF Charge, BaseInv, ReportInv
<1>5. ReportInv'
  BY <1>1, <1>3, <1>4, NoDevice DEF Charge, BaseInv, ReportInv, AtDevice, Charging, Accepted, Found, given,
                                    world, end
<1> QED
  BY <1>1, <1>2, <1>5 DEF BaseInv

LEMMA LastBase == ASSUME BaseInv, LastDevice PROVE BaseInv'
<1>1. WorldInv' /\ UNCHANGED <<world, given>> /\ now' = now
  BY ReportKinds DEF Report
<1>2. CountingInv'
  BY CountStays DEF LastDevice, BaseInv, CountingInv, count
<1>3. ReportInv'
  BY <1>1 DEF LastDevice, BaseInv, ReportInv, AtDevice, Charging, Accepted, Found, given, result, world, end
<1> QED
  BY <1>1, <1>2, <1>3 DEF BaseInv

LEMMA AnswerBase == ASSUME BaseInv, Answer PROVE BaseInv'
<1>1. WorldInv' /\ UNCHANGED <<world, given>> /\ now' = now
  BY ReportKinds DEF Report
<1>2. CountingInv'
  BY CountStays DEF Answer, BaseInv, CountingInv, count
<1>3. available' \in Nat
  BY DEF Answer, BaseInv, ReportInv, LaterOf
<1>4. ReportInv'
  BY <1>1, <1>3 DEF Answer, BaseInv, ReportInv, AtDevice, Charging, Accepted, Found, given, world, end
<1> QED
  BY <1>1, <1>2, <1>4 DEF BaseInv

LEMMA StutterBase == ASSUME BaseInv, UNCHANGED vars PROVE BaseInv'
<1>1. WorldInv'
  BY WorldStaysInv DEF BaseInv, vars
<1>2. CountingInv'
  BY CountStays DEF vars, BaseInv, CountingInv, count
<1>3. ReportInv'
  BY DEF vars, BaseInv, ReportInv, AtDevice, Charging, Accepted, Found, given, result, world, end
<1> QED
  BY <1>1, <1>2, <1>3 DEF BaseInv

LEMMA BaseNext == BaseInv /\ [Next]_vars => BaseInv'
BY WorldBase, RejectBase, OpenBase, ProductionBase, ListBase, PreviousBase, EventsBase,
   CountBase, ChargeBase, LastBase, AnswerBase, StutterBase DEF Next, Report

LEMMA BaseHolds == Spec => []BaseInv
BY BaseInit, BaseNext, PTL DEF Spec

(***************************************************************************)
(* The state of the report, of its counting and of the world around it has *)
(* the types of TypeOK: HourPool.TypeOK for get_provider_current_hour_pool. *)
(***************************************************************************)
THEOREM PoolTypeCorrect == Spec => []TypeOK
<1>1. BaseInv => TypeOK
  BY SameType DEF BaseInv, WorldInv, ReportInv, CountingInv, TypeOK
<1> QED
  BY <1>1, BaseHolds, PTL

-----------------------------------------------------------------------------
(* ProductionExact, from when the production is known.                     *)

ProductionInv ==
    phase \notin {"idle", "production", "rejected"} => production = Produced

LEMMA ProducedStays ==
    ASSUME UNCHANGED <<window, given>> PROVE Produced' = Produced
BY DEF given, Produced, StandsAt, Hold, start, end

LEMMA ProductionNext ==
    ASSUME BaseInv, ProductionInv, [Next]_vars
    PROVE  ProductionInv'
<1>1. CASE BuildProduction
  <2>1. production' = Produced
    BY <1>1, ProductionIs DEF BuildProduction, BaseInv, CountingInv, ReportInv, Accepted
  <2>2. Produced' = Produced
    BY <1>1, ProducedStays DEF BuildProduction
  <2> QED
    BY <2>1, <2>2 DEF ProductionInv
<1>2. CASE Reject \/ Open
  BY <1>2 DEF Reject, Open, ProductionInv
<1>3. CASE World \/ ListDevices \/ ReadPrevious \/ ReadEvents \/ CountOnTime \/ Charge
           \/ LastDevice \/ Answer \/ UNCHANGED vars
  <2>1. UNCHANGED <<window, given, production>>
    BY <1>3, InputsStay
       DEF World, Switch, Post, Tick, ListDevices, ReadPrevious, ReadEvents, CountOnTime,
           Charge, LastDevice, Answer, vars, result
  <2>2. phase \in {"idle", "production", "rejected"} => phase' = phase
    BY <1>3 DEF World, Switch, Post, Tick, ListDevices, ReadPrevious, ReadEvents, CountOnTime,
                Charge, LastDevice, Answer, vars
  <2>3. Produced' = Produced
    BY <2>1, ProducedStays
  <2> QED
    BY <2>1, <2>2, <2>3 DEF ProductionInv
<1> QED
  BY <1>1, <1>2, <1>3 DEF Next, Report

(***************************************************************************)
(* When the report is done, its production is the power that stood in the  *)
(* hour, unit of time by unit of time: HourPool.ProductionExact for        *)
(* _build_window_samples and _integrate_window_energy.                     *)
(***************************************************************************)
THEOREM ProductionIsExact == Spec => []ProductionExact
<1>1. Init => ProductionInv
  BY DEF Init, ProductionInv
<1>2. BaseInv /\ ProductionInv /\ [Next]_vars => ProductionInv'
  BY ProductionNext
<1>3. ProductionInv => ProductionExact
  BY DEF ProductionInv, ProductionExact, Produced
<1> QED
  BY <1>1, <1>2, <1>3, BaseHolds, PTL DEF Spec

-----------------------------------------------------------------------------
(* PoolBounded: the devices that are settled were charged for the window at *)
(* most, and once.                                                         *)

Settled == Considered \ (todo \cup {device})

Most == [d \in Considered |-> InUnit(Rated[d] * (end - start))]

PoolInv ==
    /\ IF Charging THEN consumption <= SumFunctionOnSet(Most, Settled)
                   ELSE consumption = 0
    /\ phase = "done" => available = LaterOf(0, production - consumption)

LEMMA MostIs ==
    ASSUME P!TypeOK
    PROVE  /\ IsFiniteSet(Considered)
           /\ \A d \in Considered : Most[d] \in Int /\ Most[d] >= 0
           /\ \A d \in Considered : \A x \in Nat :
                x <= end - start => InUnit(Rated[d] * x) <= Most[d]
<1>1. IsFiniteSet(Considered)
  BY DevicesAssumption, NoDevice, FS_Subset
<1>2. PICK w : w = end - start
  OBVIOUS
<1>3. w \in Nat
  BY <1>2, WindowIs
<1>4. ASSUME NEW d \in Considered, NEW x \in Nat, x <= w
      PROVE  /\ Rated[d] * x \in Nat /\ Rated[d] * w \in Nat
             /\ Rated[d] * x <= Rated[d] * w
  <2>1. Rated[d] \in Nat
    BY RatedAssumption, NoDevice DEF Considered
  <2>2. \A a, b, c \in Nat : b <= c => a * b \in Nat /\ a * c \in Nat /\ a * b <= a * c
    OBVIOUS
  <2> QED
    BY <1>3, <1>4, <2>1, <2>2
<1>5. ASSUME NEW d \in Considered, NEW x \in Nat, x <= w
      PROVE  /\ InUnit(Rated[d] * x) <= InUnit(Rated[d] * w)
             /\ InUnit(Rated[d] * w) \in Int /\ InUnit(Rated[d] * w) >= 0
  BY <1>4, <1>5 DEF InUnit
<1>6. \A d \in Considered : Most[d] = InUnit(Rated[d] * w)
  BY <1>2 DEF Most
<1>7. 0 <= w /\ 0 \in Nat
  BY <1>3
<1> QED
  BY <1>1, <1>2, <1>5, <1>6, <1>7

LEMMA PoolStays ==
    ASSUME PoolInv, UNCHANGED <<window, given, consumption, available, production, phase,
                                todo, device>>
    PROVE  PoolInv'
<1>1. Most' = Most /\ Settled' = Settled
  BY DEF Most, Settled, InUnit, start, end, given
<1> QED
  BY <1>1 DEF PoolInv, Charging, given

(* The device that is charged was not settled before, and is then.          *)
LEMMA ChargePool ==
    ASSUME BaseInv, PoolInv, Charge
    PROVE  PoolInv'
<1>1. /\ device \in Considered /\ device # Null /\ device \notin todo
      /\ on \in Nat /\ on <= end - start
      /\ InUnit(Rated[device] * on) \in Nat
      /\ consumption' = consumption + InUnit(Rated[device] * on)
      /\ UNCHANGED <<window, todo, missed, provider>>
  BY ChargeIs
<1>2. PICK d : d = device
  OBVIOUS
<1>3. phase = "count" /\ device' = Null /\ phase' = "devices" /\ provider.api
  BY DEF Charge, BaseInv, ReportInv
<1>4. Most' = Most
  BY <1>1 DEF Most, InUnit, start, end
<1>5. PICK T : T = Settled'
  OBVIOUS
<1>6. T = Considered \ todo /\ Settled = T \ {d} /\ d \in T /\ T \subseteq Considered
  BY <1>1, <1>2, <1>3, <1>5, NoDevice DEF Settled
<1>7. /\ IsFiniteSet(T) /\ \A x \in T : Most[x] \in Int
      /\ InUnit(Rated[d] * on) <= Most[d]
  BY <1>1, <1>2, <1>6, MostIs, FS_Subset DEF BaseInv, CountingInv
<1>8. SumFunctionOnSet(Most, T) = Most[d] + SumFunctionOnSet(Most, T \ {d})
  BY <1>6, <1>7, SumTake
<1>9. SumFunctionOnSet(Most, T \ {d}) \in Int
  <2>1. IsFiniteSet(T \ {d})
    BY <1>7, FS_RemoveElement
  <2> QED
    BY <1>7, <2>1, SumType
<1>10. consumption <= SumFunctionOnSet(Most, T \ {d})
  BY <1>3, <1>6 DEF PoolInv, Charging
<1>11. Most[d] \in Int /\ consumption \in Int /\ InUnit(Rated[d] * on) \in Int
  BY <1>1, <1>2, <1>6, <1>7 DEF BaseInv, ReportInv
<1>12. consumption' <= SumFunctionOnSet(Most, T)
  BY <1>1, <1>2, <1>7, <1>8, <1>9, <1>10, <1>11
<1> QED
  BY <1>1, <1>3, <1>4, <1>5, <1>12 DEF PoolInv, Charging

LEMMA PoolNext ==
    ASSUME BaseInv, PoolInv, [Next]_vars
    PROVE  PoolInv'
<1>1. CASE World
  BY <1>1, WorldBase, PoolStays DEF result
<1>2. CASE Reject \/ Open
  BY <1>2 DEF Reject, Open, PoolInv, Charging, given, result
<1>3. CASE BuildProduction
  <2>1. provider.api \in BOOLEAN
    BY <1>3, ProvidersAssumption DEF BuildProduction, BaseInv, ReportInv, Accepted, Found
  <2> QED
    BY <1>3, <2>1 DEF BuildProduction, PoolInv, Charging, given
<1>4. CASE ListDevices
  <2>1. Settled' = {}
    BY <1>4 DEF ListDevices, Settled
  <2>2. SumFunctionOnSet(Most', Settled') = 0
    BY <2>1, SumEmpty
  <2>3. consumption' = 0 /\ phase' = "devices"
    BY <1>4 DEF ListDevices, PoolInv, Charging, result
  <2>4. provider'.api
    BY <1>4 DEF ListDevices, given, BaseInv, ReportInv
  <2> QED
    BY <2>2, <2>3, <2>4 DEF PoolInv, Charging
<1>5. CASE ReadPrevious
  <2>1. Settled' = Settled
    BY <1>5, NoDevice DEF ReadPrevious, Settled, BaseInv, ReportInv, AtDevice
  <2>2. Most' = Most
    BY <1>5 DEF ReadPrevious, Most, InUnit, start, end, given
  <2> QED
    BY <1>5, <2>1, <2>2 DEF ReadPrevious, PoolInv, Charging, given, result
<1>6. CASE ReadEvents \/ CountOnTime
  <2>1. UNCHANGED <<window, given, consumption, available, production, todo, device>>
    BY <1>6, InputsStay DEF ReadEvents, CountOnTime, result
  <2>2. Most' = Most /\ Settled' = Settled
    BY <2>1 DEF Most, Settled, InUnit, start, end, given
  <2> QED
    BY <1>6, <2>1, <2>2 DEF ReadEvents, CountOnTime, PoolInv, Charging, given
<1>7. CASE Charge
  BY <1>7, ChargePool
<1>8. CASE LastDevice
  <2>1. Most' = Most /\ Settled' = Settled
    BY <1>8 DEF LastDevice, Most, Settled, InUnit, start, end, given
  <2> QED
    BY <1>8, <2>1 DEF LastDevice, PoolInv, Charging, given, result
<1>9. CASE Answer
  <2>1. Most' = Most /\ Settled' = Settled
    BY <1>9 DEF Answer, Most, Settled, InUnit, start, end, given
  <2> QED
    BY <1>9, <2>1 DEF Answer, PoolInv, Charging, given
<1>10. CASE UNCHANGED vars
  BY <1>10, PoolStays DEF vars, result
<1> QED
  BY <1>1, <1>2, <1>3, <1>4, <1>5, <1>6, <1>7, <1>8, <1>9, <1>10 DEF Next, Report

LEMMA PoolMost ==
    ASSUME BaseInv, PoolInv
    PROVE  PoolBounded
<1> SUFFICES ASSUME phase = "done" PROVE PoolBounded
  BY DEF PoolBounded
<1>1. PICK most : most = SumFunctionOnSet(Most, Considered)
  OBVIOUS
<1>2. /\ production \in Int /\ consumption \in Nat /\ todo = {} /\ device = Null
      /\ provider.api \in BOOLEAN
  BY ProvidersAssumption DEF BaseInv, ReportInv, AtDevice, Charging, Accepted, Found
<1>3. most \in Int
  BY <1>1, MostIs, SumType DEF BaseInv, CountingInv
<1>4. Settled = Considered
  BY <1>2, NoDevice DEF Settled
<1>5. consumption <= IF provider.api THEN most ELSE 0
  BY <1>1, <1>2, <1>4 DEF PoolInv, Charging
<1>6. available = LaterOf(0, production - consumption)
  BY DEF PoolInv
<1>7. /\ available <= LaterOf(0, production)
      /\ available >= production - (IF provider.api THEN most ELSE 0)
  BY <1>2, <1>3, <1>5, <1>6 DEF LaterOf
<1>8. most = SumFunction([d \in Considered |-> InUnit(Rated[d] * (end - start))])
  BY <1>1 DEF Most, SumFunction
<1> QED
  BY <1>7, <1>8 DEF PoolBounded

(***************************************************************************)
(* The pool lies between the production and the production less the rated  *)
(* energy of every device: HourPool.PoolBounded for                        *)
(* get_provider_current_hour_pool and _calculate_device_on_seconds.        *)
(***************************************************************************)
THEOREM PoolIsBounded == Spec => []PoolBounded
<1>1. Init => PoolInv
  BY DEF Init, PoolInv, Charging
<1>2. BaseInv /\ PoolInv /\ [Next]_vars => PoolInv'
  BY PoolNext
<1>3. BaseInv /\ PoolInv => PoolBounded
  BY PoolMost
<1> QED
  BY <1>1, <1>2, <1>3, BaseHolds, PTL DEF Spec

-----------------------------------------------------------------------------
(* ConsumptionTrue.  A row that no event has touched has the state before  *)
(* the first switching, any other that of an event;                        *)

RowTells(row, S, posted) ==
    IF row.changed_at = Null
    THEN (S # {} /\ row.manual_state # Null) => First(S).state = ~row.manual_state
    ELSE \E f \in S \cap posted : f.at = row.changed_at /\ f.state = row.manual_state

RowsInv ==
    \A d \in Devices :
        /\ RowTells(rows[d], FactsOf(d), log)
        /\ table[d] # Null =>
            /\ RowTells(table[d], FactsOf(d), log)
            /\ FactsOf(d) = {} => table[d] = rows[d]

(***************************************************************************)
(* of a device whose events had been posted, the queries return all before *)
(* the clock was read, whatever is posted between them;                    *)
(***************************************************************************)
Complete(d) == \A f \in FactsOf(d) : f.at < end => f \in log

Earlier(d) == {f \in FactsOf(d) : f.at < start}

EventsTell(d) ==
    /\ \A i \in 1..Len(events) : \E f \in FactsOf(d) :
         /\ f.at = events[i].at /\ f.state = events[i].state
         /\ start <= f.at /\ f.at <= end
    /\ \A f \in FactsOf(d) : (start <= f.at /\ f.at < end) =>
         \E i \in 1..Len(events) : events[i].at = f.at /\ events[i].state = f.state
    /\ \A i, j \in 1..Len(events) : i < j => events[i].at < events[j].at

QueriesInv ==
    /\ AtDevice => snapshot = table[device]
    /\ (AtDevice /\ device \notin missed) =>
         Complete(device) /\ prev = LastState(Earlier(device))
    /\ (phase = "count" /\ device \notin missed) => EventsTell(device)

(***************************************************************************)
(* and nothing that happens after the clock was read changes the truth.    *)
(***************************************************************************)
ChargedInv ==
    Charging => \A d \in Settled \ missed : Informed(d) => charged[d] = TrueOn(d)

-----------------------------------------------------------------------------
(* What the world does to the facts of one device.                         *)

LEMMA FirstIs ==
    ASSUME NEW S, AreOfOne(S), S # {}
    PROVE  /\ First(S) \in S /\ \A g \in S : First(S).at <= g.at
           /\ \A f \in S : (\A g \in S : f.at <= g.at) => f = First(S)
<1>1. \E f \in S : \A g \in S : f.at <= g.at
  BY EarliestFact DEF AreOfOne
<1>2. First(S) \in S /\ \A g \in S : First(S).at <= g.at
  BY <1>1 DEF First
<1>3. ASSUME NEW f \in S, \A g \in S : f.at <= g.at PROVE f = First(S)
  <2>1. f.at <= First(S).at /\ First(S).at <= f.at /\ f.at \in Int /\ First(S).at \in Int
    BY <1>2, <1>3 DEF AreOfOne, AreFacts
  <2> QED
    BY <1>2, <2>1 DEF AreOfOne
<1> QED
  BY <1>2, <1>3

LEMMA LastIs ==
    ASSUME NEW S, AreOfOne(S), NEW f \in S, \A g \in S : g.at <= f.at
    PROVE  LastState(S) = f.state
<1>1. PICK h \in S : (\A g \in S : g.at <= h.at) /\ LastState(S) = h.state
  BY DEF LastState
<1>2. f.at <= h.at /\ h.at <= f.at /\ f.at \in Int /\ h.at \in Int
  BY <1>1 DEF AreOfOne, AreFacts
<1> QED
  BY <1>1, <1>2 DEF AreOfOne

IsNews(S, T, f) ==
    /\ T = S \cup {f} /\ f.at \in Int /\ f.state \in BOOLEAN
    /\ \A g \in S : g.at < f.at

Switched(d) ==
    /\ \E f : /\ IsNews(FactsOf(d), FactsOf(d)', f) /\ end <= f.at
              /\ FactsOf(d) = {} => rows[d].manual_state # f.state
    /\ UNCHANGED <<rows, log>>

Stayed(d) ==
    /\ FactsOf(d)' = FactsOf(d) /\ log \subseteq log'
    /\ \/ rows'[d] = rows[d]
       \/ \E f \in FactsOf(d) \cap log' :
            rows'[d] = [manual_state |-> f.state, changed_at |-> f.at]

LEMMA WorldFacts ==
    ASSUME BaseInv, World, NEW d \in Devices
    PROVE  Switched(d) \/ Stayed(d)
<1>1. CASE \E e \in Devices, s \in BOOLEAN : Switch(e, s)
  <2>1. PICK e \in Devices, s \in BOOLEAN : Switch(e, s)
    BY <1>1
  <2>2. PICK f : f = [device |-> e, at |-> now, state |-> s]
    OBVIOUS
  <2>3. /\ facts' = facts \cup {f} /\ UNCHANGED <<log, rows>>
        /\ \A g \in FactsOf(e) : g.at < now
        /\ FactsOf(e) = {} => rows[e].manual_state # s
    BY <2>1, <2>2 DEF Switch
  <2>4. now \in Int /\ end <= now
    BY CountingAssumptions DEF BaseInv, WorldInv, ReportInv
  <2>5. CASE d = e
    <3>1. FactsOf(d)' = FactsOf(d) \cup {f}
      BY <2>2, <2>3, <2>5 DEF FactsOf
    <3>2. IsNews(FactsOf(d), FactsOf(d)', f)
      BY <2>2, <2>3, <2>4, <2>5, <3>1 DEF IsNews
    <3> QED
      BY <2>2, <2>3, <2>4, <2>5, <3>2 DEF Switched
  <2>6. CASE d # e
    <3>1. FactsOf(d)' = FactsOf(d)
      BY <2>2, <2>3, <2>6 DEF FactsOf
    <3> QED
      BY <2>3, <3>1 DEF Stayed
  <2> QED
    BY <2>5, <2>6
<1>2. CASE \E f \in facts : Post(f)
  <2>1. PICK f \in facts : Post(f)
    BY <1>2
  <2>2. /\ FactsOf(d)' = FactsOf(d) /\ log' = log \cup {f}
        /\ rows' = [rows EXCEPT ![f.device] =
                      [manual_state |-> f.state, changed_at |-> f.at]]
    BY <2>1 DEF Post, FactsOf
  <2>3. f.device \in Devices /\ rows \in [Devices -> Row]
    BY FactsType DEF BaseInv, WorldInv
  <2>4. CASE d = f.device
    <3>1. f \in FactsOf(d) \cap log'
      BY <2>1, <2>2, <2>4 DEF FactsOf
    <3> QED
      BY <2>2, <2>3, <2>4, <3>1 DEF Stayed
  <2>5. CASE d # f.device
    BY <2>2, <2>3, <2>5 DEF Stayed
  <2> QED
    BY <2>4, <2>5
<1>3. CASE Tick
  BY <1>3 DEF Tick, Stayed, FactsOf
<1> QED
  BY <1>1, <1>2, <1>3 DEF World

(* What a row tells stays true when the relay switches,                     *)
LEMMA RowAfterSwitch ==
    ASSUME NEW S, NEW T, NEW f, IsNews(S, T, f), AreOfOne(S), AreOfOne(T),
           NEW posted, NEW row \in Row, RowTells(row, S, posted),
           S = {} => row.manual_state # f.state
    PROVE  RowTells(row, T, posted)
<1>1. CASE row.changed_at # Null
  BY <1>1 DEF RowTells, IsNews
<1>2. CASE row.changed_at = Null
  <2> SUFFICES ASSUME row.manual_state # Null PROVE First(T).state = ~row.manual_state
    BY <1>2 DEF RowTells
  <2>1. row.manual_state \in BOOLEAN
    BY DEF Row, State
  <2>2. T # {} /\ f \in T /\ f.state \in BOOLEAN
    BY DEF IsNews
  <2>3. CASE S = {}
    <3>1. First(T) = f
      BY <2>2, <2>3, FirstIs DEF IsNews
    <3> QED
      BY <2>1, <2>2, <2>3, <3>1
  <2>4. CASE S # {}
    <3>1. PICK e : e = First(S)
      OBVIOUS
    <3>2. e \in S /\ \A g \in S : e.at <= g.at
      BY <2>4, <3>1, FirstIs
    <3>3. e \in T /\ \A g \in T : e.at <= g.at
      BY <3>2 DEF IsNews, AreOfOne, AreFacts
    <3>4. e = First(T)
      BY <2>2, <3>3, FirstIs
    <3> QED
      BY <1>2, <2>4, <3>1, <3>4 DEF RowTells
  <2> QED
    BY <2>3, <2>4
<1> QED
  BY <1>1, <1>2

(* and when more is posted.                                                 *)
LEMMA RowAfterPost ==
    ASSUME NEW S, NEW posted, NEW more, posted \subseteq more,
           NEW row, RowTells(row, S, posted)
    PROVE  RowTells(row, S, more)
BY DEF RowTells

LEMMA RowOfEvent ==
    ASSUME WorldInv, NEW S, S \subseteq facts, NEW posted, NEW f \in S \cap posted, NEW row,
           row = [manual_state |-> f.state, changed_at |-> f.at]
    PROVE  RowTells(row, S, posted)
<1>1. f.at # Null
  BY FactsType, NullAssumption
<1> QED
  BY <1>1 DEF RowTells

LEMMA FactsDiffer == WorldInv => \A d : AreOfOne(FactsOf(d))
BY FactsOfOne

LEMMA FactsDifferNext == WorldInv' => \A d : AreOfOne(FactsOf(d)')
<1>1. (WorldInv => \A d : AreOfOne(FactsOf(d)))'
  BY FactsDiffer, PTL
<1> QED
  BY <1>1

LEMMA FactsOfDevice ==
    ASSUME BaseInv, BaseInv', NEW d
    PROVE  /\ AreOfOne(FactsOf(d)) /\ AreOfOne(FactsOf(d)')
           /\ FactsOf(d) \subseteq facts
           /\ \A f \in FactsOf(d) : f.at \in Int /\ f.state \in BOOLEAN
<1>1. FactsOf(d) \subseteq facts
  BY DEF FactsOf
<1> QED
  BY <1>1, FactsDiffer, FactsDifferNext, FactsType DEF BaseInv

LEMMA RowsWorld ==
    ASSUME BaseInv, RowsInv, World
    PROVE  RowsInv'
<1>1. BaseInv' /\ table' = table
  BY WorldBase
<1> SUFFICES ASSUME NEW d \in Devices
             PROVE  /\ RowTells(rows'[d], FactsOf(d)', log')
                    /\ table'[d] # Null =>
                         /\ RowTells(table'[d], FactsOf(d)', log')
                         /\ FactsOf(d)' = {} => table'[d] = rows'[d]
  BY DEF RowsInv
<1>2. /\ RowTells(rows[d], FactsOf(d), log)
      /\ table[d] # Null => /\ RowTells(table[d], FactsOf(d), log)
                            /\ FactsOf(d) = {} => table[d] = rows[d]
      /\ rows[d] \in Row /\ (table[d] # Null => table[d] \in Row)
  BY DEF RowsInv, BaseInv, WorldInv, ReportInv
<1>3. AreOfOne(FactsOf(d)) /\ AreOfOne(FactsOf(d)') /\ FactsOf(d) \subseteq facts
  BY <1>1, FactsOfDevice
<1>4. CASE Switched(d)
  <2>1. PICK f : /\ IsNews(FactsOf(d), FactsOf(d)', f)
                 /\ FactsOf(d) = {} => rows[d].manual_state # f.state
    BY <1>4 DEF Switched
  <2>2. rows' = rows /\ log' = log /\ FactsOf(d)' # {}
    BY <1>4, <2>1 DEF Switched, IsNews
  <2>3. RowTells(rows[d], FactsOf(d)', log)
    BY <1>2, <1>3, <2>1, RowAfterSwitch
  <2>4. table[d] # Null => RowTells(table[d], FactsOf(d)', log)
    BY <1>2, <1>3, <2>1, RowAfterSwitch
  <2> QED
    BY <1>1, <2>2, <2>3, <2>4
<1>5. CASE Stayed(d)
  <2>1. FactsOf(d)' = FactsOf(d) /\ log \subseteq log'
    BY <1>5 DEF Stayed
  <2>2. table[d] # Null => RowTells(table[d], FactsOf(d), log')
    BY <1>2, <2>1, RowAfterPost
  <2>3. CASE rows'[d] = rows[d]
    BY <1>1, <1>2, <2>1, <2>2, <2>3, RowAfterPost
  <2>4. CASE \E f \in FactsOf(d) \cap log' :
               rows'[d] = [manual_state |-> f.state, changed_at |-> f.at]
    <3>1. RowTells(rows'[d], FactsOf(d), log')
      BY <1>3, <2>4, RowOfEvent DEF BaseInv
    <3> QED
      BY <1>1, <2>1, <2>2, <2>4, <3>1
  <2> QED
    BY <1>5, <2>3, <2>4 DEF Stayed
<1> QED
  BY <1>4, <1>5, WorldFacts

LEMMA RowsNext ==
    ASSUME BaseInv, RowsInv, [Next]_vars
    PROVE  RowsInv'
<1>1. CASE World
  BY <1>1, RowsWorld
<1>2. CASE ListDevices
  <2>1. table' = rows /\ UNCHANGED world
    BY <1>2 DEF ListDevices
  <2> QED
    BY <2>1 DEF RowsInv, FactsOf, world
<1>3. CASE Reject \/ Open \/ BuildProduction \/ ReadPrevious \/ ReadEvents \/ CountOnTime
           \/ Charge \/ LastDevice \/ Answer \/ UNCHANGED vars
  <2>1. UNCHANGED <<world, table>>
    BY <1>3 DEF Reject, Open, BuildProduction, ReadPrevious, ReadEvents, CountOnTime, Charge,
                LastDevice, Answer, vars
  <2> QED
    BY <2>1 DEF RowsInv, FactsOf, world
<1> QED
  BY <1>1, <1>2, <1>3 DEF Next, Report

-----------------------------------------------------------------------------
(* What the queries returned remains what they would tell.                  *)

(* A fact that comes while the report runs is of no time before its end.    *)
LEMMA QueriesWorld ==
    ASSUME BaseInv, QueriesInv, World
    PROVE  QueriesInv'
<1>1. /\ BaseInv'
      /\ UNCHANGED <<phase, table, device, missed, window, count>>
  BY WorldBase
<1>2. UNCHANGED <<snapshot, prev, events, start, end, AtDevice>>
  BY <1>1 DEF count, start, end, AtDevice
<1>3. AtDevice => snapshot = table[device]
  BY DEF QueriesInv
<1>4. PICK d : d = device
  OBVIOUS
<1>5. ASSUME AtDevice, d \notin missed
      PROVE  /\ Complete(d)' /\ prev' = LastState(Earlier(d)')
             /\ phase = "count" => EventsTell(d)'
  <2>1. /\ Complete(d) /\ prev = LastState(Earlier(d)) /\ d \in Devices
        /\ phase = "count" => EventsTell(d)
    BY <1>4, <1>5, NoDevice DEF QueriesInv, BaseInv, ReportInv
  <2>2. start \in Int /\ end \in Int /\ start <= end
    BY WindowIs DEF BaseInv, CountingInv
  <2>3. \A f \in FactsOf(d) : f.at \in Int
    BY <1>1, FactsOfDevice
  <2>4. PICK S : S = FactsOf(d)
    OBVIOUS
  <2>5. PICK T : T = FactsOf(d)'
    OBVIOUS
  <2>6. /\ S \subseteq T /\ log \subseteq log'
        /\ \A f \in T : f \in S \/ (f.at \in Int /\ end <= f.at)
    BY <2>1, <2>4, <2>5, WorldFacts DEF Switched, Stayed, IsNews
  <2>7. \A f \in T : f.at < end => f \in log'
    BY <2>1, <2>2, <2>4, <2>6 DEF Complete
  <2>8. {f \in T : f.at < start} = {f \in S : f.at < start}
    BY <2>2, <2>6
  <2>9. Complete(d)' /\ Earlier(d)' = Earlier(d)
    BY <1>2, <2>4, <2>5, <2>7, <2>8 DEF Complete, Earlier
  <2>10. ASSUME phase = "count" PROVE EventsTell(d)'
    <3>1. /\ \A i \in 1..Len(events) : \E f \in S :
               /\ f.at = events[i].at /\ f.state = events[i].state
               /\ start <= f.at /\ f.at <= end
          /\ \A f \in S : (start <= f.at /\ f.at < end) =>
               \E i \in 1..Len(events) : events[i].at = f.at /\ events[i].state = f.state
          /\ \A i, j \in 1..Len(events) : i < j => events[i].at < events[j].at
      BY <2>1, <2>4, <2>10 DEF EventsTell
    <3>2. \A f \in T : (start <= f.at /\ f.at < end) => f \in S
      BY <2>2, <2>6
    <3>3. /\ \A i \in 1..Len(events) : \E f \in T :
               /\ f.at = events[i].at /\ f.state = events[i].state
               /\ start <= f.at /\ f.at <= end
          /\ \A f \in T : (start <= f.at /\ f.at < end) =>
               \E i \in 1..Len(events) : events[i].at = f.at /\ events[i].state = f.state
      BY <2>6, <3>1, <3>2
    <3> QED
      BY <1>2, <2>5, <3>1, <3>3 DEF EventsTell
  <2> QED
    BY <1>2, <2>1, <2>9, <2>10
<1>6. /\ device' = d /\ phase' = phase /\ missed' = missed
      /\ phase = "count" => AtDevice
      /\ AtDevice' <=> AtDevice
      /\ AtDevice => snapshot' = table'[d]
  BY <1>1, <1>2, <1>3, <1>4 DEF AtDevice
<1> QED
  BY <1>5, <1>6 DEF QueriesInv, Complete, Earlier, EventsTell, FactsOf

LEMMA PreviousTells ==
    ASSUME BaseInv, ReadPrevious
    PROVE  QueriesInv'
<1>1. PICK d \in todo : /\ device' = d /\ snapshot' = table[d]
                        /\ prev' = LastState(Before(d))
                        /\ missed' = IF \E f \in FactsOf(d) \ log : f.at < end
                                     THEN missed \cup {d} ELSE missed
  BY DEF ReadPrevious
<1>2. UNCHANGED <<table, window, world>> /\ phase' = "events"
  BY DEF ReadPrevious
<1>3. FactsOf(d)' = FactsOf(d) /\ start' = start /\ end' = end /\ log' = log
  BY <1>2 DEF FactsOf, start, end, world
<1>4. ASSUME d \notin missed' PROVE Complete(d) /\ Before(d) = Earlier(d)
  <2>1. Complete(d)
    BY <1>1, <1>4 DEF Complete
  <2>2. \A f \in FactsOf(d) : f.at < start => f.at < end
    <3>1. start \in Int /\ end \in Int /\ start <= end
      BY WindowIs DEF BaseInv, CountingInv
    <3>2. \A f \in FactsOf(d) : f.at \in Int
      BY FactsType DEF BaseInv, FactsOf
    <3> QED
      BY <3>1, <3>2
  <2>3. Before(d) = Earlier(d)
    BY <2>1, <2>2 DEF Before, Earlier, Complete, FactsOf, BaseInv, WorldInv
  <2> QED
    BY <2>1, <2>3
<1>5. d \notin missed' => Complete(d)' /\ prev' = LastState(Earlier(d)')
  BY <1>1, <1>3, <1>4 DEF Complete, Earlier
<1> QED
  BY <1>1, <1>2, <1>5 DEF QueriesInv, AtDevice

LEMMA EventsAreTold ==
    ASSUME BaseInv, QueriesInv, ReadEvents
    PROVE  QueriesInv'
<1>1. PICK d : d = device
  OBVIOUS
<1>2. /\ phase = "events" /\ phase' = "count"
      /\ UNCHANGED <<table, window, world, device, missed, prev, snapshot>>
  BY DEF ReadEvents
<1>3. FactsOf(d)' = FactsOf(d) /\ start' = start /\ end' = end /\ log' = log
  BY <1>2 DEF FactsOf, start, end, world
<1>4. AtDevice /\ snapshot = table[d]
      /\ (d \notin missed => Complete(d) /\ prev = LastState(Earlier(d)))
  BY <1>1, <1>2 DEF QueriesInv, AtDevice
<1>5. ASSUME d \notin missed PROVE EventsTell(d)'
  <2>1. PICK S : S = InOrder(Within(d))
    OBVIOUS
  <2>2. PICK n : n = Cardinality(Within(d))
    OBVIOUS
  <2>3. /\ n \in Nat /\ S \in [1..n -> Within(d)]
        /\ \A i, j \in 1..n : i < j => S[i].at < S[j].at
        /\ \A f \in Within(d) : \E i \in 1..n : S[i] = f
        /\ Within(d) \subseteq FactsOf(d)
    BY <2>1, <2>2, QueryIs DEF IsInOrder, BaseInv, CountingInv
  <2>4. events' = [i \in 1..n |-> [at |-> S[i].at, state |-> S[i].state]]
    BY <1>1, <2>1, <2>3 DEF ReadEvents
  <2>5. Len(events') = n /\ \A i \in 1..n : events'[i].at = S[i].at /\ events'[i].state = S[i].state
    <3>1. DOMAIN events' = 1..n
      BY <2>4
    <3>2. events' \in Seq([at : {S[i].at : i \in 1..n}, state : {S[i].state : i \in 1..n}])
      BY <2>3, <2>4
    <3> QED
      BY <2>3, <2>4, <3>1, <3>2
  <2>6. \A i \in 1..n : S[i] \in FactsOf(d) /\ start <= S[i].at /\ S[i].at <= end
    BY <2>3 DEF Within
  <2>7. \A f \in FactsOf(d) : (start <= f.at /\ f.at < end) => f \in Within(d)
    <3>1. start \in Int /\ end \in Int /\ start <= end
      BY WindowIs DEF BaseInv, CountingInv
    <3>2. \A f \in FactsOf(d) : f.at \in Int
      BY FactsType DEF BaseInv, FactsOf
    <3> QED
      BY <1>4, <1>5, <3>1, <3>2 DEF Complete, Within, FactsOf
  <2>8. \A f \in FactsOf(d) : (start <= f.at /\ f.at < end) => \E i \in 1..n : S[i] = f
    BY <2>3, <2>7
  <2> QED
    BY <1>3, <2>3, <2>5, <2>6, <2>8 DEF EventsTell
<1>6. d \notin missed => Complete(d)' /\ Earlier(d)' = Earlier(d)
  BY <1>3, <1>4 DEF Complete, Earlier
<1> QED
  BY <1>1, <1>2, <1>4, <1>5, <1>6 DEF QueriesInv, AtDevice

LEMMA QueriesNext ==
    ASSUME BaseInv, QueriesInv, [Next]_vars
    PROVE  QueriesInv'
<1>1. CASE World
  BY <1>1, QueriesWorld
<1>2. CASE ReadPrevious
  BY <1>2, PreviousTells
<1>3. CASE ReadEvents
  BY <1>3, EventsAreTold
<1>4. CASE CountOnTime \/ UNCHANGED vars
  <2>1. UNCHANGED <<world, phase, table, device, missed, window, prev, snapshot, events>>
    BY <1>4, InputsStay DEF CountOnTime, vars, count
  <2>2. UNCHANGED <<AtDevice, start, end, facts, log>>
    BY <2>1 DEF AtDevice, start, end, world
  <2>3. \A d : /\ Complete(d)' <=> Complete(d)
               /\ Earlier(d)' = Earlier(d)
               /\ EventsTell(d)' <=> EventsTell(d)
    BY <2>1, <2>2 DEF Complete, Earlier, EventsTell, FactsOf
  <2> QED
    BY <2>1, <2>2, <2>3 DEF QueriesInv
<1>5. CASE Reject \/ Open \/ BuildProduction \/ ListDevices \/ Charge \/ LastDevice \/ Answer
  <2>1. phase' \notin {"events", "count"}
    BY <1>5 DEF Reject, Open, BuildProduction, ListDevices, Charge, LastDevice, Answer
  <2> QED
    BY <2>1 DEF QueriesInv, AtDevice
<1> QED
  BY <1>1, <1>2, <1>3, <1>4, <1>5 DEF Next, Report

-----------------------------------------------------------------------------
(* The truth about the hour, while the report runs.                         *)

TruthIn(S, row, t) ==
    LET before == {f \in S : f.at <= t}
    IN  IF before # {} THEN LastState(before)
        ELSE IF S # {} THEN ~First(S).state
        ELSE row.manual_state

TruthOn(S, row, u, v) == Cardinality({t \in u..(v - 1) : TruthIn(S, row, t) = TRUE})

LEMMA TruthIs ==
    /\ \A d : TrueOn(d) = TruthOn(FactsOf(d), rows[d], start, end)
    /\ \A d : TrueOn(d)' = TruthOn(FactsOf(d)', rows'[d], start', end')
    /\ \A d, t : TrueState(d, t) = TruthIn(FactsOf(d), rows[d], t)
BY DEF TrueOn, TruthOn, TrueState, TruthIn

(* A later switching tells of the time before it what was so.               *)
LEMMA TruthAfterSwitch ==
    ASSUME NEW S, NEW T, NEW f, IsNews(S, T, f), AreOfOne(S), AreOfOne(T), NEW row,
           S = {} => row.manual_state \in BOOLEAN /\ row.manual_state # f.state,
           NEW t \in Int, t < f.at
    PROVE  TruthIn(T, row, t) = TruthIn(S, row, t)
<1>1. PICK B : B = {g \in S : g.at <= t}
  OBVIOUS
<1>2. {g \in T : g.at <= t} = B
  BY <1>1 DEF IsNews
<1>3. T # {} /\ f \in T /\ f.state \in BOOLEAN /\ f.at \in Int
  BY DEF IsNews
<1>4. CASE B # {}
  BY <1>1, <1>2, <1>4 DEF TruthIn
<1>5. CASE B = {} /\ S # {}
  <2>1. PICK e : e = First(S)
    OBVIOUS
  <2>2. e \in S /\ \A g \in S : e.at <= g.at
    BY <1>5, <2>1, FirstIs
  <2>3. e \in T /\ \A g \in T : e.at <= g.at
    BY <2>2 DEF IsNews, AreOfOne, AreFacts
  <2>4. e = First(T)
    BY <1>3, <2>3, FirstIs
  <2>5. TruthIn(S, row, t) = ~e.state
    BY <1>1, <1>5, <2>1 DEF TruthIn
  <2>6. TruthIn(T, row, t) = ~e.state
    BY <1>2, <1>3, <1>5, <2>4 DEF TruthIn
  <2> QED
    BY <2>5, <2>6
<1>6. CASE S = {}
  <2>1. T = {f} /\ B = {}
    BY <1>1, <1>6 DEF IsNews
  <2>2. First(T) = f
    BY <1>3, <2>1, FirstIs
  <2>3. TruthIn(T, row, t) = ~f.state /\ TruthIn(S, row, t) = row.manual_state
    BY <1>1, <1>2, <1>3, <1>6, <2>1, <2>2 DEF TruthIn
  <2>4. row.manual_state = ~f.state
    BY <1>3, <1>6
  <2> QED
    BY <2>3, <2>4
<1> QED
  BY <1>4, <1>5, <1>6

LEMMA TruthOfFacts ==
    ASSUME NEW S, S # {}, NEW row, NEW r, NEW t
    PROVE  TruthIn(S, row, t) = TruthIn(S, r, t)
BY DEF TruthIn

LEMMA InformedWorld ==
    ASSUME BaseInv, RowsInv, World, NEW d \in Devices, table[d] \in Row, Informed(d)'
    PROVE  /\ Informed(d) /\ TrueOn(d)' = TrueOn(d)
<1>1. BaseInv' /\ UNCHANGED <<table, window>>
  BY WorldBase
<1>2. start' = start /\ end' = end /\ start \in Int /\ end \in Int
  BY <1>1, WindowIs DEF start, end, BaseInv, CountingInv
<1>3. PICK S : S = FactsOf(d)
  OBVIOUS
<1>4. PICK T : T = FactsOf(d)'
  OBVIOUS
<1>5. AreOfOne(S) /\ AreOfOne(T)
  BY <1>1, <1>3, <1>4, FactsOfDevice
<1>6. \/ \E f \in T : f.at < end
      \/ table[d].changed_at = Null /\ table[d].manual_state # Null
  BY <1>1, <1>2, <1>4 DEF Informed
<1>7. \A f \in T : f \in S \/ (f.at \in Int /\ end <= f.at)
  BY <1>3, <1>4, WorldFacts DEF Switched, Stayed, IsNews
<1>8. \/ \E f \in S : f.at < end
      \/ table[d].changed_at = Null /\ table[d].manual_state # Null
  BY <1>2, <1>6, <1>7
<1>9. Informed(d)
  BY <1>3, <1>8 DEF Informed
<1>10. ASSUME NEW t \in start..(end - 1)
       PROVE  TruthIn(T, rows'[d], t) = TruthIn(S, rows[d], t)
  <2>1. t \in Int /\ t < end
    BY <1>2
  <2>2. CASE Switched(d)
    <3>1. PICK f : /\ IsNews(S, T, f) /\ end <= f.at
                   /\ S = {} => rows[d].manual_state # f.state
      BY <1>3, <1>4, <2>2 DEF Switched
    <3>2. S = {} => rows[d].manual_state \in BOOLEAN
      <4> SUFFICES ASSUME S = {} PROVE rows[d].manual_state \in BOOLEAN
        OBVIOUS
      <4>1. table[d] = rows[d]
        BY <1>3, NullAssumption DEF RowsInv
      <4> QED
        BY <1>8, <4>1 DEF Row, State
    <3>3. t < f.at
      BY <1>2, <2>1, <3>1 DEF IsNews
    <3>4. TruthIn(T, rows[d], t) = TruthIn(S, rows[d], t)
      BY <1>5, <2>1, <3>1, <3>2, <3>3, TruthAfterSwitch
    <3> QED
      BY <2>2, <3>4 DEF Switched
  <2>3. CASE Stayed(d)
    <3>1. T = S /\ (rows'[d] = rows[d] \/ S # {})
      BY <1>3, <1>4, <2>3 DEF Stayed
    <3> QED
      BY <3>1, TruthOfFacts
  <2> QED
    BY <2>2, <2>3, WorldFacts
<1>11. TruthOn(T, rows'[d], start, end) = TruthOn(S, rows[d], start, end)
  BY <1>10 DEF TruthOn
<1> QED
  BY <1>2, <1>3, <1>4, <1>9, <1>11, TruthIs

-----------------------------------------------------------------------------
(* What is counted is what was true.                                        *)

Told ==
    /\ BaseInv /\ RowsInv /\ QueriesInv
    /\ phase = "count" /\ device \notin missed /\ start < end /\ Informed(device)

LEMMA ToldIs ==
    ASSUME Told, NEW d, d = device
    PROVE  /\ d \in Devices /\ P!TypeOK /\ start \in Int /\ end \in Int
           /\ snapshot = table[d] /\ table[d] \in Row
           /\ prev = LastState(Earlier(d)) /\ EventsTell(d)
           /\ AreOfOne(FactsOf(d)) /\ FactsOf(d) \subseteq facts
           /\ \A f \in FactsOf(d) : f.at \in Int /\ f.state \in BOOLEAN
           /\ RowTells(table[d], FactsOf(d), log)
           /\ FactsOf(d) = {} => table[d] = rows[d]
<1>1. /\ d \in Devices /\ AtDevice /\ table[d] \in Row /\ d \notin missed /\ WorldInv
      /\ P!TypeOK
  BY NoDevice DEF Told, BaseInv, ReportInv, CountingInv, AtDevice, Charging
<1>2. snapshot = table[d] /\ prev = LastState(Earlier(d)) /\ EventsTell(d)
  BY <1>1 DEF Told, QueriesInv
<1>3. start \in Int /\ end \in Int
  BY <1>1, WindowIs
<1>4. FactsOf(d) \subseteq facts
  BY DEF FactsOf
<1>5. AreOfOne(FactsOf(d)) /\ \A f \in FactsOf(d) : f.at \in Int /\ f.state \in BOOLEAN
  BY <1>1, <1>4, FactsType, FactsOfOne
<1>6. /\ RowTells(table[d], FactsOf(d), log)
      /\ FactsOf(d) = {} => table[d] = rows[d]
  BY <1>1, NullAssumption DEF Told, RowsInv
<1> QED
  BY <1>1, <1>2, <1>3, <1>4, <1>5, <1>6

(* The events come from the facts of the hour, in order, so all count.      *)
LEMMA ToldEvents ==
    ASSUME Told, NEW S, S = FactsOf(device)
    PROVE  /\ Len(events) \in Nat
           /\ \A i \in 1..Len(events) :
                /\ events[i].at \in Int /\ events[i].state \in BOOLEAN
                /\ \E f \in S : f.at = events[i].at /\ f.state = events[i].state
                                /\ start <= f.at
           /\ \A i, j \in 1..Len(events) : i <= j => events[i].at <= events[j].at
           /\ \A f \in S : (start <= f.at /\ f.at < end) =>
                \E i \in 1..Len(events) : events[i].at = f.at
           /\ \A t : P!Known(t) = {i \in 1..Len(events) : events[i].at <= t}
<1>1. PICK d : d = device
  OBVIOUS
<1>2. /\ P!TypeOK /\ start \in Int /\ end \in Int /\ EventsTell(d) /\ S = FactsOf(d)
      /\ \A f \in S : f.at \in Int /\ f.state \in BOOLEAN
  BY <1>1, ToldIs
<1>3. Len(events) \in Nat
  BY <1>2, CountingAssumptions, P!EventsType
<1>4. /\ \A i \in 1..Len(events) : \E f \in S :
           /\ f.at = events[i].at /\ f.state = events[i].state
           /\ start <= f.at /\ f.at <= end
      /\ \A f \in S : (start <= f.at /\ f.at < end) =>
           \E i \in 1..Len(events) : events[i].at = f.at
      /\ \A i, j \in 1..Len(events) : i < j => events[i].at < events[j].at
  BY <1>2 DEF EventsTell
<1>5. \A i \in 1..Len(events) :
        /\ events[i].at \in Int /\ events[i].state \in BOOLEAN
        /\ start <= events[i].at /\ events[i].at <= end
  BY <1>2, <1>4
<1>6. \A i, j \in 1..Len(events) : i <= j => events[i].at <= events[j].at
  BY <1>3, <1>4, <1>5
<1>7. \A i \in 1..Len(events) : P!Clamp(events[i].at) = events[i].at
  BY <1>2, <1>5 DEF P!Clamp, P!start, P!end, start, end
<1>8. \A i \in 1..Len(events) : P!Counts(i)
  <2> SUFFICES ASSUME NEW i \in 1..Len(events), NEW j \in 1..(i - 1)
               PROVE  P!Clamp(events[j].at) <= P!Clamp(events[i].at)
    BY DEF P!Counts
  <2>1. j \in 1..Len(events) /\ j <= i
    BY <1>3
  <2> QED
    BY <1>6, <1>7, <2>1
<1>9. \A i \in 1..Len(events) : events[i].state # Null
  BY <1>5, NullAssumption
<1>10. \A t : P!Known(t) = {i \in 1..Len(events) : events[i].at <= t}
  BY <1>7, <1>8, <1>9 DEF P!Known
<1> QED
  BY <1>3, <1>4, <1>5, <1>6, <1>10

(* At the start, the report knows the state that the relay had.             *)
LEMMA ToldStart ==
    ASSUME Told, NEW d, d = device, NEW t \in start..(end - 1),
           \A i \in 1..Len(events) : ~(events[i].at <= t)
    PROVE  P!StateAtStart = TruthIn(FactsOf(d), rows[d], t)
<1>1. PICK S : S = FactsOf(d)
  OBVIOUS
<1>2. PICK r : r = table[d]
  OBVIOUS
<1>3. /\ start \in Int /\ end \in Int /\ snapshot = r /\ r \in Row
      /\ prev = LastState(Earlier(d))
      /\ AreOfOne(S) /\ S \subseteq facts /\ \A f \in S : f.at \in Int /\ f.state \in BOOLEAN
      /\ RowTells(r, S, log)
      /\ S = {} => r = rows[d]
  BY <1>1, <1>2, ToldIs
<1>4. /\ Len(events) \in Nat
      /\ \A i \in 1..Len(events) :
           /\ events[i].at \in Int /\ events[i].state \in BOOLEAN
           /\ \E f \in S : f.at = events[i].at /\ f.state = events[i].state
                           /\ start <= f.at
      /\ \A i, j \in 1..Len(events) : i <= j => events[i].at <= events[j].at
      /\ \A f \in S : (start <= f.at /\ f.at < end) =>
           \E i \in 1..Len(events) : events[i].at = f.at
  BY <1>1, ToldEvents
<1>5. t \in Int /\ start <= t /\ t < end
  BY <1>3
<1>6. \A f \in S : f.at < start \/ t < f.at
  BY <1>3, <1>4, <1>5
<1>7. {f \in S : f.at <= t} = Earlier(d)
  BY <1>1, <1>3, <1>5, <1>6 DEF Earlier
<1>8. CASE Earlier(d) # {}
  <2>1. prev # Null
    BY <1>1, <1>3, <1>8, LastStateIs DEF Earlier, Told, BaseInv
  <2>2. TruthIn(S, rows[d], t) = LastState(Earlier(d))
    BY <1>7, <1>8 DEF TruthIn
  <2> QED
    BY <1>1, <1>3, <2>1, <2>2 DEF P!StateAtStart
<1>9. CASE Earlier(d) = {}
  <2>1. prev = Null /\ \A f \in S : t < f.at
    BY <1>1, <1>3, <1>6, <1>9 DEF LastState, Earlier
  <2>2. r.changed_at # Null => r.changed_at \in Int /\ start < r.changed_at
    <3> SUFFICES ASSUME r.changed_at # Null PROVE r.changed_at \in Int /\ start < r.changed_at
      OBVIOUS
    <3>1. PICK f \in S : f.at = r.changed_at
      BY <1>3 DEF RowTells
    <3> QED
      BY <1>3, <1>5, <2>1, <3>1
  <2>3. P!SnapshotState = IF r.changed_at = Null THEN r.manual_state ELSE Null
    BY <1>3, <2>2 DEF P!SnapshotState, P!start, start
  <2>4. CASE r.changed_at = Null /\ r.manual_state # Null
    <3>1. P!StateAtStart = r.manual_state
      BY <2>1, <2>3, <2>4 DEF P!StateAtStart
    <3>2. CASE S = {}
      <4>1. TruthIn(S, rows[d], t) = rows[d].manual_state
        BY <3>2 DEF TruthIn
      <4> QED
        BY <1>1, <1>3, <3>1, <3>2, <4>1
    <3>3. CASE S # {}
      <4>1. PICK e : e = First(S)
        OBVIOUS
      <4>2. e.state = ~r.manual_state /\ r.manual_state \in BOOLEAN /\ e.state \in BOOLEAN
        BY <1>3, <2>4, <3>3, <4>1, FirstIs DEF RowTells, Row, State
      <4>3. TruthIn(S, rows[d], t) = ~e.state
        BY <1>7, <1>9, <3>3, <4>1 DEF TruthIn
      <4>4. CASE r.manual_state = TRUE
        BY <1>1, <3>1, <4>2, <4>3, <4>4
      <4>5. CASE r.manual_state = FALSE
        BY <1>1, <3>1, <4>2, <4>3, <4>5
      <4> QED
        BY <4>2, <4>4, <4>5
    <3> QED
      BY <3>2, <3>3
  <2>5. CASE ~(r.changed_at = Null /\ r.manual_state # Null)
    <3>1. PICK f \in S : f.at < end
      BY <1>1, <1>2, <2>5 DEF Told, Informed
    <3>2. PICK e : e = First(S)
      OBVIOUS
    <3>3. e \in S /\ \A g \in S : e.at <= g.at
      BY <1>3, <3>1, <3>2, FirstIs
    <3>4. PICK k \in 1..Len(events) : events[k].at = e.at
      BY <1>3, <1>4, <1>5, <2>1, <3>1, <3>3
    <3>5. 1 \in 1..Len(events) /\ 1 <= k
      BY <1>4, <3>4
    <3>6. PICK g \in S : g.at = events[1].at /\ g.state = events[1].state
      BY <1>4, <3>5
    <3>7. g.at <= e.at
      BY <1>4, <3>4, <3>5, <3>6
    <3>8. g = e
      BY <1>3, <3>3, <3>6, <3>7 DEF AreOfOne
    <3>9. events # << >> /\ events[1].state # Null /\ events[1].state = e.state
      BY <1>4, <3>5, <3>6, <3>8, NullAssumption
    <3>10. P!SnapshotState = Null
      BY <2>3, <2>5
    <3>11. P!StateAtStart = ~e.state
      BY <2>1, <3>9, <3>10 DEF P!StateAtStart
    <3>12. TruthIn(S, rows[d], t) = ~e.state
      BY <1>7, <1>9, <3>1, <3>2 DEF TruthIn
    <3> QED
      BY <1>1, <3>11, <3>12
  <2> QED
    BY <2>4, <2>5
<1> QED
  BY <1>8, <1>9

(* After an event, the relay has the state of the last one.                 *)
LEMMA ToldLater ==
    ASSUME Told, NEW d, d = device, NEW t \in start..(end - 1),
           P!Known(t) # {}
    PROVE  P!StateAt(t) = TruthIn(FactsOf(d), rows[d], t)
<1>1. PICK S : S = FactsOf(d)
  OBVIOUS
<1>2. /\ start \in Int /\ end \in Int
      /\ AreOfOne(S) /\ S \subseteq facts /\ \A f \in S : f.at \in Int /\ f.state \in BOOLEAN
  BY <1>1, ToldIs
<1>3. /\ Len(events) \in Nat
      /\ \A i \in 1..Len(events) :
           /\ events[i].at \in Int /\ events[i].state \in BOOLEAN
           /\ \E f \in S : f.at = events[i].at /\ f.state = events[i].state
                           /\ start <= f.at
      /\ \A i, j \in 1..Len(events) : i <= j => events[i].at <= events[j].at
      /\ \A f \in S : (start <= f.at /\ f.at < end) =>
           \E i \in 1..Len(events) : events[i].at = f.at
      /\ P!Known(t) = {i \in 1..Len(events) : events[i].at <= t}
  BY <1>1, ToldEvents
<1>4. t \in Int /\ start <= t /\ t < end
  BY <1>2
<1>5. PICK K : K = P!Known(t)
  OBVIOUS
<1>6. PICK m \in K : \A j \in K : j <= m
  <2>1. K \in SUBSET (1..Len(events)) /\ IsFiniteSet(1..Len(events))
    BY <1>3, <1>5, FS_Interval
  <2>2. IsFiniteSet(K) /\ K \subseteq Int /\ K # {}
    BY <1>3, <1>5, <2>1, FS_Subset
  <2>3. Max(K) \in K /\ \A y \in K : Max(K) >= y
    BY <2>2, GreatestTime
  <2> QED
    BY <2>2, <2>3
<1>7. m \in 1..Len(events) /\ m \in Int /\ events[m].at <= t
  BY <1>3, <1>5, <1>6
<1>8. PICK c : c = CHOOSE i \in K : \A j \in K : j <= i
  OBVIOUS
<1>9. c = m
  <2>1. c \in K /\ \A j \in K : j <= c
    BY <1>6, <1>8
  <2>2. c <= m /\ m <= c /\ c \in Int
    BY <1>3, <1>5, <1>6, <2>1
  <2> QED
    BY <1>7, <2>2
<1>10. P!StateAt(t) = events[m].state
  BY <1>5, <1>8, <1>9 DEF P!StateAt
<1>11. PICK g \in S : g.at = events[m].at /\ g.state = events[m].state /\ start <= g.at
  BY <1>3, <1>7
<1>12. PICK B : B = {f \in S : f.at <= t}
  OBVIOUS
<1>13. \A f \in B : f.at <= g.at
  <2> SUFFICES ASSUME NEW f \in B, g.at <= f.at PROVE f.at <= g.at
    BY <1>2, <1>11, <1>12
  <2>1. f \in S /\ f.at <= t /\ start <= f.at /\ f.at < end
    BY <1>2, <1>4, <1>11, <1>12
  <2>2. PICK k \in 1..Len(events) : events[k].at = f.at
    BY <1>3, <2>1
  <2>3. k \in K
    BY <1>3, <1>5, <2>1, <2>2
  <2> QED
    BY <1>3, <1>6, <1>7, <1>11, <2>2, <2>3
<1>14. g \in B /\ AreOfOne(B)
  <2>1. g \in B /\ B \subseteq FactsOf(d)
    BY <1>1, <1>7, <1>11, <1>12
  <2> QED
    BY <2>1, FactsOfOne DEF Told, BaseInv
<1>15. LastState(B) = g.state
  BY <1>13, <1>14, LastIs
<1>16. TruthIn(S, rows[d], t) = LastState(B)
  BY <1>12, <1>14 DEF TruthIn
<1> QED
  BY <1>1, <1>10, <1>11, <1>15, <1>16

LEMMA ToldTruth ==
    ASSUME Told, NEW d, d = device, NEW t \in start..(end - 1)
    PROVE  P!StateAt(t) = TruthIn(FactsOf(d), rows[d], t)
<1>1. CASE P!Known(t) # {}
  BY <1>1, ToldLater
<1>2. CASE P!Known(t) = {}
  <2>1. \A i \in 1..Len(events) : ~(events[i].at <= t)
    BY <1>2, ToldEvents
  <2>2. P!StateAt(t) = P!StateAtStart
    BY <1>2 DEF P!StateAt
  <2> QED
    BY <2>1, <2>2, ToldStart
<1> QED
  BY <1>1, <1>2

(* A device of which something is known does not fall back on its row.      *)
LEMMA ToldEnough ==
    ASSUME Told
    PROVE  P!StateAtStart # Null \/ events # << >>
<1>1. PICK d : d = device
  OBVIOUS
<1>2. /\ start \in Int /\ end \in Int /\ snapshot = table[d]
      /\ prev = LastState(Earlier(d))
      /\ FactsOf(d) \subseteq facts /\ \A f \in FactsOf(d) : f.at \in Int
  BY <1>1, ToldIs
<1>3. CASE \E f \in FactsOf(d) : f.at < end
  <2>1. PICK f \in FactsOf(d) : f.at < end
    BY <1>3
  <2>2. CASE f.at < start
    <3>1. f \in Earlier(d) /\ Earlier(d) \subseteq facts
      BY <1>2, <2>2 DEF Earlier
    <3>2. prev # Null
      BY <1>2, <3>1, LastStateIs DEF Told, BaseInv
    <3> QED
      BY <3>2 DEF P!StateAtStart
  <2>3. CASE start <= f.at
    <3>1. \E i \in 1..Len(events) : events[i].at = f.at
      BY <1>1, <2>1, <2>3, ToldEvents
    <3>2. events # << >>
      BY <3>1
    <3> QED
      BY <3>2
  <2> QED
    BY <1>2, <2>1, <2>2, <2>3
<1>4. CASE table[d].changed_at = Null /\ table[d].manual_state # Null
  BY <1>2, <1>4 DEF P!StateAtStart, P!SnapshotState
<1> QED
  BY <1>1, <1>3, <1>4 DEF Told, Informed

LEMMA SameCardinality == \A S : P!Cardinality(S) = Cardinality(S)
BY DEF P!Cardinality, Cardinality

LEMMA CountIsTrue ==
    ASSUME BaseInv, RowsInv, QueriesInv, phase = "count", pc = "done",
           device \notin missed, Informed(device)
    PROVE  on = TrueOn(device)
<1>1. PICK d : d = device
  OBVIOUS
<1>2. /\ P!TypeOK /\ P!Counted /\ P!CountInv
      /\ start \in Int /\ end \in Int /\ start <= end
  BY WindowIs DEF BaseInv, CountingInv
<1>3. TrueOn(device) = TruthOn(FactsOf(d), rows[d], start, end)
  BY <1>1, TruthIs
<1>4. CASE start = end
  <2>1. on = 0
    BY <1>2, <1>4, OnIs
  <2>2. {t \in start..(end - 1) : TruthIn(FactsOf(d), rows[d], t) = TRUE} = {}
    BY <1>2, <1>4
  <2> QED
    BY <1>3, <2>1, <2>2, FS_EmptySet DEF TruthOn
<1>5. CASE start < end
  <2>1. Told
    BY <1>5 DEF Told
  <2>2. on = Cardinality(P!OnBefore(end))
    <3>1. P!StateAtStart # Null \/ events # << >>
      BY <2>1, ToldEnough
    <3>2. P!start < P!end /\ P!end = end
      BY <1>5 DEF P!start, P!end, start, end
    <3>3. P!DoneInv
      BY <1>2 DEF P!CountInv
    <3>4. on = Cardinality(P!OnBefore(P!end))
      BY <3>1, <3>2, <3>3, SameCardinality DEF P!DoneInv
    <3> QED
      BY <3>2, <3>4
  <2>3. P!OnBefore(end) = {t \in start..(end - 1) : P!StateAt(t) = TRUE}
    BY DEF P!OnBefore, P!IsOn, P!start, start
  <2>4. \A t \in start..(end - 1) : P!StateAt(t) = TruthIn(FactsOf(d), rows[d], t)
    BY <1>1, <2>1, ToldTruth
  <2>5. P!OnBefore(end) = {t \in start..(end - 1) : TruthIn(FactsOf(d), rows[d], t) = TRUE}
    BY <2>3, <2>4
  <2> QED
    BY <1>3, <2>2, <2>5 DEF TruthOn
<1> QED
  BY <1>2, <1>4, <1>5

LEMMA ChargedWorld ==
    ASSUME BaseInv, RowsInv, ChargedInv, World
    PROVE  ChargedInv'
<1>1. UNCHANGED <<given, phase, table, todo, device, charged, missed>>
  BY WorldBase
<1>2. Settled' = Settled /\ Charging' = Charging
  BY <1>1 DEF Settled, Charging, given
<1> SUFFICES ASSUME Charging, NEW d \in Settled \ missed, Informed(d)'
             PROVE  charged[d] = TrueOn(d)'
  BY <1>1, <1>2 DEF ChargedInv
<1>3. d \in Devices
  BY NoDevice DEF Settled
<1>4. table[d] \in Row
  BY <1>3 DEF BaseInv, ReportInv
<1> QED
  BY <1>3, <1>4, InformedWorld DEF ChargedInv

(* The device that is charged is charged the truth.                         *)
LEMMA ChargeTrue ==
    ASSUME BaseInv, RowsInv, QueriesInv, ChargedInv, Charge
    PROVE  ChargedInv'
<1>1. PICK d : d = device
  OBVIOUS
<1>2. /\ d \in Considered /\ d \in Devices /\ d # Null /\ d \notin todo
      /\ UNCHANGED <<window, todo, missed, provider>>
  BY <1>1, ChargeIs
<1>3. /\ phase = "count" /\ pc = "done" /\ Charging
      /\ charged' = [charged EXCEPT ![d] = on] /\ device' = Null
      /\ UNCHANGED <<world, table>>
  BY <1>1 DEF Charge, Charging, BaseInv, ReportInv
<1>4. \A e : TrueOn(e)' = TrueOn(e) /\ (Informed(e)' <=> Informed(e))
  <2>1. UNCHANGED <<facts, rows, table, start, end>>
    BY <1>2, <1>3 DEF world, start, end
  <2> QED
    BY <2>1 DEF TrueOn, TrueState, Informed, FactsOf
<1> SUFFICES ASSUME NEW e \in Settled' \ missed, Informed(e)
             PROVE  charged'[e] = TrueOn(e)
  BY <1>2, <1>4 DEF ChargedInv
<1>5. e \in Devices /\ charged \in [Devices -> Nat \cup {Null}]
  BY NoDevice DEF Settled, BaseInv, ReportInv
<1>6. CASE e = d
  <2>1. on = TrueOn(device)
    BY <1>1, <1>3, <1>6, CountIsTrue
  <2> QED
    BY <1>1, <1>3, <1>5, <1>6, <2>1
<1>7. CASE e # d
  <2>1. e \in Settled \ missed
    BY <1>1, <1>2, <1>7 DEF Settled
  <2>2. charged[e] = TrueOn(e)
    BY <1>3, <2>1 DEF ChargedInv
  <2> QED
    BY <1>3, <1>5, <1>7, <2>2
<1> QED
  BY <1>6, <1>7

LEMMA ChargedNext ==
    ASSUME BaseInv, RowsInv, QueriesInv, ChargedInv, [Next]_vars
    PROVE  ChargedInv'
<1>1. CASE World
  BY <1>1, ChargedWorld
<1>2. CASE Charge
  BY <1>2, ChargeTrue
<1>3. CASE Reject \/ Open \/ BuildProduction
  <2>1. ~Charging'
    <3>1. phase' \in {"rejected", "production", "rows"} \/ (phase' = "answer" /\ ~provider'.api)
      BY <1>3 DEF Reject, Open, BuildProduction, given
    <3> QED
      BY <3>1 DEF Charging
  <2> QED
    BY <2>1 DEF ChargedInv
<1>4. CASE ListDevices
  <2>1. Settled' = {}
    BY <1>4 DEF ListDevices, Settled
  <2> QED
    BY <2>1 DEF ChargedInv
<1>5. CASE ReadPrevious \/ ReadEvents \/ CountOnTime \/ LastDevice \/ Answer \/ UNCHANGED vars
  <2>1. UNCHANGED <<world, table, window, charged, provider>>
    BY <1>5, InputsStay DEF ReadPrevious, ReadEvents, CountOnTime, LastDevice, Answer, vars, given
  <2>2. UNCHANGED <<facts, rows, start, end>>
    BY <2>1 DEF world, start, end
  <2>3. \A e : TrueOn(e)' = TrueOn(e) /\ (Informed(e)' <=> Informed(e))
    BY <2>1, <2>2 DEF TrueOn, TrueState, Informed, FactsOf
  <2>4. missed \subseteq missed' /\ Settled' = Settled
    <3>1. CASE ReadPrevious
      BY <3>1, NoDevice DEF ReadPrevious, Settled, BaseInv, ReportInv, AtDevice
    <3>2. CASE ReadEvents \/ CountOnTime \/ LastDevice \/ Answer \/ UNCHANGED vars
      BY <3>2 DEF ReadEvents, CountOnTime, LastDevice, Answer, vars, Settled
    <3> QED
      BY <1>5, <3>1, <3>2
  <2>5. Charging' => Charging
    <3>1. phase' \in {"devices", "events", "count", "answer", "done"} =>
            phase \in {"devices", "events", "count", "answer", "done"}
      BY <1>5 DEF ReadPrevious, ReadEvents, CountOnTime, LastDevice, Answer, vars
    <3> QED
      BY <2>1, <3>1 DEF Charging
  <2> QED
    BY <2>1, <2>3, <2>4, <2>5 DEF ChargedInv
<1> QED
  BY <1>1, <1>2, <1>3, <1>4, <1>5 DEF Next, Report

LEMMA ChargedDone ==
    ASSUME BaseInv, ChargedInv
    PROVE  ConsumptionTrue
<1> SUFFICES ASSUME phase = "done", provider.api,
                    NEW d \in Considered \ missed, Informed(d)
             PROVE  charged[d] = TrueOn(d)
  BY DEF ConsumptionTrue
<1>1. Charging /\ todo = {} /\ device = Null
  BY DEF Charging, BaseInv, ReportInv, AtDevice
<1>2. d \in Settled \ missed
  BY <1>1, NoDevice DEF Settled
<1> QED
  BY <1>1, <1>2 DEF ChargedInv

(***************************************************************************)
(* A device whose events had been posted when it was queried, and of which *)
(* the report can know the state, is charged for the time its relay was    *)
(* really on, whatever happens between the queries:                        *)
(* HourPool.ConsumptionTrue for get_provider_current_hour_pool and         *)
(* _calculate_device_on_seconds.                                           *)
(***************************************************************************)
THEOREM ConsumptionIsTrue == Spec => []ConsumptionTrue
<1> DEFINE TruthInv == RowsInv /\ QueriesInv /\ ChargedInv
<1>1. Init => TruthInv
  <2> SUFFICES ASSUME Init PROVE TruthInv
    OBVIOUS
  <2>1. \A d \in Devices : rows[d].changed_at = Null /\ table[d] = Null /\ FactsOf(d) = {}
    BY DEF Init, FactsOf
  <2>2. RowsInv
    BY <2>1 DEF RowsInv, RowTells
  <2>3. phase = "idle"
    BY DEF Init
  <2> QED
    BY <2>2, <2>3 DEF QueriesInv, ChargedInv, AtDevice, Charging
<1>2. BaseInv /\ TruthInv /\ [Next]_vars => TruthInv'
  BY RowsNext, QueriesNext, ChargedNext
<1>3. BaseInv /\ TruthInv => ConsumptionTrue
  BY ChargedDone
<1> QED
  BY <1>1, <1>2, <1>3, BaseHolds, PTL DEF Spec
=============================================================================
