------------------------- MODULE DeviceOnTimeProofs -------------------------
(***************************************************************************)
(* Theorems about DeviceOnTime, for every window, every set of times and   *)
(* every number of events.                                                 *)
(***************************************************************************)
EXTENDS DeviceOnTime, FiniteSetTheorems, TLAPS

(***************************************************************************)
(* OnBounded with what makes it inductive: in the loop, on is what was     *)
(* counted of the part of the window before the cursor.                    *)
(***************************************************************************)
Counted ==
    /\ pc = "choose" => on = 0 /\ cursor = start
    /\ pc = "loop" => /\ start < end
                      /\ start <= cursor /\ cursor <= end
                      /\ 0 <= on /\ on <= cursor - start
    /\ OnBounded

LEMMA WindowType == TypeOK => start \in Int /\ end \in Int
BY WindowAssumption DEF TypeOK, start, end

(* The events of a window are a sequence of at most MaxEvents of them.      *)
LEMMA EventsType ==
    TypeOK => /\ Len(events) \in 0..MaxEvents
              /\ \A i \in 1..Len(events) : events[i] \in Event
<1> SUFFICES ASSUME TypeOK
             PROVE  /\ Len(events) \in 0..MaxEvents
                    /\ \A i \in 1..Len(events) : events[i] \in Event
  OBVIOUS
<1>1. PICK n \in 0..MaxEvents : events \in [1..n -> Event]
  BY DEF TypeOK, EventLists
<1>2. n \in Nat
  BY <1>1, BoundAssumption
<1>3. Len(events) = n
  BY <1>1, <1>2
<1> QED
  BY <1>1, <1>3

LEMMA StateAtStartType == TypeOK => StateAtStart \in State
<1> SUFFICES ASSUME TypeOK PROVE StateAtStart \in State
  OBVIOUS
<1>1. SnapshotState \in State
  BY DEF TypeOK, Snapshot, SnapshotState, State
<1>2. prev \in State
  BY DEF TypeOK
<1>3. \/ StateAtStart = prev
      \/ StateAtStart = SnapshotState
      \/ StateAtStart = ~events[1].state
      \/ StateAtStart = Null
  BY DEF StateAtStart
<1>4. (~events[1].state) \in BOOLEAN
  OBVIOUS
<1> QED
  BY <1>1, <1>2, <1>3, <1>4 DEF State

(* The fallback counts at most the window.                                  *)
LEMMA FallbackBounded ==
    TypeOK /\ start < end =>
        FallbackSeconds \in Int /\ 0 <= FallbackSeconds
        /\ FallbackSeconds <= end - start
<1> SUFFICES ASSUME TypeOK, start < end
             PROVE  FallbackSeconds \in Int /\ 0 <= FallbackSeconds
                    /\ FallbackSeconds <= end - start
  OBVIOUS
<1>1. start \in Int /\ end \in Int
  BY WindowType
<1>2. snapshot.changed_at = Null \/ snapshot.changed_at \in Int
  BY WindowAssumption DEF TypeOK, Snapshot
<1> HIDE DEF start, end
<1> QED
  BY <1>1, <1>2 DEF FallbackSeconds

LEMMA OnInit == Init => TypeOK /\ Counted
<1> SUFFICES ASSUME Init PROVE TypeOK /\ Counted
  OBVIOUS
<1>1. TypeOK
  BY WindowAssumption, BoundAssumption DEF Init, TypeOK, State, start
<1>2. start \in Int /\ end \in Int
  BY <1>1, WindowType
<1>3. Counted
  BY <1>2 DEF Init, Counted, OnBounded
<1> QED
  BY <1>1, <1>3

LEMMA OnNext == TypeOK /\ Counted /\ [Next]_vars => TypeOK' /\ Counted'
<1> SUFFICES ASSUME TypeOK, Counted, [Next]_vars
             PROVE  TypeOK' /\ Counted'
  OBVIOUS
<1>1. start \in Int /\ end \in Int
  BY WindowType
<1>2. Len(events) \in 0..MaxEvents /\ MaxEvents \in Nat
  BY EventsType, BoundAssumption
<1>3. ASSUME UNCHANGED inputs
      PROVE  start' = start /\ end' = end
  BY <1>3 DEF inputs, start, end
<1>4. CASE EmptyWindow
  BY <1>1, <1>3, <1>4 DEF EmptyWindow, inputs, TypeOK, Counted, OnBounded
<1>5. CASE Fallback
  <2>1. FallbackSeconds \in Int /\ 0 <= FallbackSeconds
        /\ FallbackSeconds <= end - start
    BY <1>5, FallbackBounded DEF Fallback
  <2> QED
    BY <1>1, <1>3, <1>5, <2>1
       DEF Fallback, inputs, TypeOK, Counted, OnBounded
<1>6. CASE Begin
  <2>1. TypeOK'
    BY <1>6, StateAtStartType DEF Begin, inputs, TypeOK
  <2>2. Counted'
    BY <1>1, <1>3, <1>6 DEF Begin, inputs, Counted, OnBounded
  <2> QED
    BY <2>1, <2>2
<1>7. CASE SkipEvent
  <2>1. next + 1 \in 1..(MaxEvents + 1)
    BY <1>2, <1>7 DEF SkipEvent, TypeOK
  <2> QED
    BY <1>1, <1>3, <1>7, <2>1
       DEF SkipEvent, inputs, TypeOK, Counted, OnBounded
<1>8. CASE CountEvent
  <2> DEFINE e == events[next]
             t == Clamp(e.at)
  <2>1. next \in 1..Len(events) /\ e \in Event
    BY <1>2, <1>8, EventsType DEF CountEvent, TypeOK
  <2>2. next + 1 \in 1..(MaxEvents + 1)
    BY <1>2, <2>1
  <2>3. e.at \in Int /\ e.state \in State
    BY <2>1, WindowAssumption DEF Event
  <2>4. pc = "loop" /\ start < end
    BY <1>8 DEF CountEvent, Counted
  <2>5. t \in Int /\ start <= t /\ t <= end
    BY <1>1, <2>3, <2>4 DEF Clamp
  <2>6. /\ cursor <= t /\ cursor' = t /\ UNCHANGED <<inputs, pc>>
        /\ on' = IF current = TRUE THEN on + (t - cursor) ELSE on
        /\ current' \in State
        /\ next' = next + 1
    BY <1>8, <2>3 DEF CountEvent, TypeOK
  <2> HIDE DEF e, t
  <2>7. on \in Int /\ cursor \in Int
    BY DEF TypeOK
  <2>8. TypeOK'
    BY <2>2, <2>5, <2>6, <2>7 DEF inputs, TypeOK
  <2>9. Counted'
    BY <1>1, <1>3, <2>4, <2>5, <2>6, <2>7 DEF Counted, OnBounded
  <2> QED
    BY <2>8, <2>9
<1>9. CASE Finish
  <2>1. on \in Int /\ cursor \in Int
    BY DEF TypeOK
  <2>2. on' \in Int
    BY <1>1, <1>9, <2>1 DEF Finish
  <2>3. TypeOK'
    BY <1>9, <2>2 DEF Finish, inputs, TypeOK
  <2>4. Counted'
    BY <1>1, <1>3, <1>9, <2>1 DEF Finish, inputs, Counted, OnBounded
  <2> QED
    BY <2>3, <2>4
<1>10. CASE UNCHANGED vars
  BY <1>3, <1>10 DEF vars, inputs, TypeOK, Counted, OnBounded
<1> QED
  BY <1>4, <1>5, <1>6, <1>7, <1>8, <1>9, <1>10 DEF Next

(* No device is on for a negative time or for longer than the window.       *)
THEOREM OnTimeBounded == Spec => []OnBounded
<1>1. Counted => OnBounded
  BY DEF Counted
<1> QED
  BY <1>1, OnInit, OnNext, PTL DEF Spec

(* The report's state is well formed.                                       *)
THEOREM OnTimeTypeCorrect == Spec => []TypeOK
BY OnInit, OnNext, PTL DEF Spec

-----------------------------------------------------------------------------
(* The loop counts the seconds one by one.                                 *)

(***************************************************************************)
(* ExactCount speaks of the end.  In the loop, what is counted are the     *)
(* seconds before the cursor; the current state is that of the last event  *)
(* read that counts and says one; and the cursor is the latest time read,  *)
(* which is what tells an event that counts from one that is skipped.      *)
(***************************************************************************)
ReadAt(i) == Clamp(events[i].at)   \* the time of an event, in the window

Deciding == {i \in 1..Len(events) : Counts(i) /\ events[i].state # Null}

ReadSoFar(n) == {i \in Deciding : i < n}

Last(S) == CHOOSE i \in S : \A j \in S : j <= i

StateOf(S) == IF S = {} THEN StateAtStart ELSE events[Last(S)].state

IsOn(t) == StateAt(t) = TRUE

OnBefore(c) == {t \in start..(c - 1) : IsOn(t)}

LoopInv ==
    pc = "loop" =>
        /\ StateAtStart # Null \/ events # << >>
        /\ \A i \in 1..(next - 1) : ReadAt(i) <= cursor
        /\ \/ cursor = start
           \/ \E i \in 1..(next - 1) : ReadAt(i) = cursor
        /\ current = StateOf(ReadSoFar(next))
        /\ on = Cardinality(OnBefore(cursor))

DoneInv ==
    pc = "done" /\ start < end =>
        \/ StateAtStart = Null /\ events = << >> /\ on = FallbackSeconds
        \/ /\ StateAtStart # Null \/ events # << >>
           /\ on = Cardinality(OnBefore(end))

CountInv == (pc = "choose" => next = 1) /\ LoopInv /\ DoneInv

(* A clamped time is a time of the window.                                  *)
LEMMA ClampType ==
    ASSUME TypeOK, NEW i \in 1..Len(events)
    PROVE  /\ events[i].at \in Int /\ events[i].state \in State
           /\ Clamp(events[i].at) \in Int
           /\ start < end => start <= Clamp(events[i].at)
                             /\ Clamp(events[i].at) <= end
<1>1. events[i].at \in Int /\ events[i].state \in State
  BY EventsType, WindowAssumption DEF Event
<1>2. start \in Int /\ end \in Int
  BY WindowType
<1> HIDE DEF start, end
<1> QED
  BY <1>1, <1>2 DEF Clamp

(* The seconds of a window are finitely many, and so are those on.          *)
LEMMA OnBeforeFinite ==
    ASSUME TypeOK, NEW c \in Int
    PROVE  IsFiniteSet(OnBefore(c)) /\ Cardinality(OnBefore(c)) \in Nat
<1>1. start \in Int /\ c - 1 \in Int
  BY WindowType
<1>2. IsFiniteSet(start..(c - 1))
  BY <1>1, FS_Interval
<1>3. OnBefore(c) \in SUBSET (start..(c - 1))
  BY DEF OnBefore
<1>4. IsFiniteSet(OnBefore(c))
  BY <1>2, <1>3, FS_Subset
<1> QED
  BY <1>4, FS_CardinalityType

(* A stretch that is on adds its length, and one that is not adds nothing.  *)
LEMMA StretchOn ==
    ASSUME TypeOK, NEW c \in Int, NEW d \in Int, start <= c, c <= d,
           \A t \in c..(d - 1) : IsOn(t)
    PROVE  Cardinality(OnBefore(d)) = Cardinality(OnBefore(c)) + (d - c)
<1>0. start \in Int
  BY WindowType
<1> HIDE DEF start
<1>1. OnBefore(d) = OnBefore(c) \cup (c..(d - 1))
  <2>1. ASSUME NEW t
        PROVE  t \in OnBefore(d) <=> t \in OnBefore(c) \/ t \in c..(d - 1)
    BY <1>0 DEF OnBefore
  <2> QED
    BY <2>1
<1>2. OnBefore(c) \cap (c..(d - 1)) = {}
  BY <1>0 DEF OnBefore
<1>3. IsFiniteSet(c..(d - 1)) /\ Cardinality(c..(d - 1)) = d - c
  <2>1. d - 1 \in Int
    OBVIOUS
  <2>2. /\ IsFiniteSet(c..(d - 1))
        /\ Cardinality(c..(d - 1)) = IF c > d - 1 THEN 0 ELSE (d - 1) - c + 1
    BY <2>1, FS_Interval
  <2> QED
    BY <2>2
<1>4. Cardinality(OnBefore(c) \cap (c..(d - 1))) = 0
  BY <1>2, FS_EmptySet
<1>5. Cardinality(OnBefore(c) \cup (c..(d - 1))) =
        Cardinality(OnBefore(c)) + Cardinality(c..(d - 1))
          - Cardinality(OnBefore(c) \cap (c..(d - 1)))
  BY <1>3, OnBeforeFinite, FS_Union
<1> QED
  BY <1>1, <1>3, <1>4, <1>5, OnBeforeFinite

LEMMA StretchOff ==
    ASSUME TypeOK, NEW c \in Int, NEW d \in Int, start <= c, c <= d,
           \A t \in c..(d - 1) : ~IsOn(t)
    PROVE  OnBefore(d) = OnBefore(c)
<1>0. start \in Int
  BY WindowType
<1> HIDE DEF start
<1>1. ASSUME NEW t PROVE t \in OnBefore(d) <=> t \in OnBefore(c)
  BY <1>0 DEF OnBefore
<1> QED
  BY <1>1

(* The state at a time is that of the events read, when these are all up    *)
(* to it and those that follow, if they count, come after it.               *)
LEMMA StateInStretch ==
    ASSUME TypeOK, NEW n \in Nat, NEW t \in Int,
           \A i \in ReadSoFar(n) : Clamp(events[i].at) <= t,
           \A i \in Deciding : ~(i < n) => t < Clamp(events[i].at)
    PROVE  StateAt(t) = StateOf(ReadSoFar(n))
<1>1. \A i \in Deciding : Clamp(events[i].at) \in Int
  BY ClampType DEF Deciding
<1>2. Known(t) = ReadSoFar(n)
  BY <1>1 DEF Known, ReadSoFar, Deciding
<1> QED
  BY <1>2 DEF StateAt, StateOf, Last

(* The events to read after one that counts are not before it.              *)
LEMMA Later ==
    ASSUME TypeOK, NEW n \in 1..Len(events), NEW i \in Deciding, i > n
    PROVE  Clamp(events[n].at) <= Clamp(events[i].at)
<1>1. i \in 1..Len(events) /\ Counts(i)
  BY DEF Deciding
<1>2. n \in 1..(i - 1)
  BY <1>1, EventsType
<1> QED
  BY <1>1, <1>2 DEF Counts

(* Reading one more event: nothing if it does not decide, else it is last.  *)
LEMMA ReadOne ==
    ASSUME TypeOK, NEW n \in 1..Len(events)
    PROVE  /\ n \notin Deciding => ReadSoFar(n + 1) = ReadSoFar(n)
           /\ n \in Deciding => StateOf(ReadSoFar(n + 1)) = events[n].state
<1>1. Deciding \subseteq Nat /\ n \in Nat
  BY EventsType DEF Deciding
<1>2. n \notin Deciding => ReadSoFar(n + 1) = ReadSoFar(n)
  <2>1. ASSUME n \notin Deciding, NEW j \in Deciding
        PROVE  j < n + 1 <=> j < n
    BY <1>1, <2>1
  <2> QED
    BY <2>1 DEF ReadSoFar
<1>3. ASSUME n \in Deciding PROVE StateOf(ReadSoFar(n + 1)) = events[n].state
  <2>1. n \in ReadSoFar(n + 1)
    BY <1>1, <1>3 DEF ReadSoFar
  <2>2. \A j \in ReadSoFar(n + 1) : j \in Nat /\ j <= n
    BY <1>1 DEF ReadSoFar
  <2>3. /\ Last(ReadSoFar(n + 1)) \in ReadSoFar(n + 1)
        /\ \A j \in ReadSoFar(n + 1) : j <= Last(ReadSoFar(n + 1))
    BY <2>1, <2>2 DEF Last
  <2>4. Last(ReadSoFar(n + 1)) = n
    BY <1>1, <2>1, <2>2, <2>3
  <2> QED
    BY <2>1, <2>4 DEF StateOf
<1> QED
  BY <1>2, <1>3

(* What depends on the inputs only does not change.                         *)
LEMMA InputsFixed ==
    ASSUME UNCHANGED inputs
    PROVE  /\ start' = start /\ end' = end
           /\ StateAtStart' = StateAtStart /\ FallbackSeconds' = FallbackSeconds
           /\ \A i : ReadAt(i)' = ReadAt(i)
           /\ \A t : IsOn(t)' = IsOn(t)
           /\ \A c : OnBefore(c)' = OnBefore(c)
           /\ \A n : StateOf(ReadSoFar(n))' = StateOf(ReadSoFar(n))
<1>1. window' = window /\ prev' = prev /\ snapshot' = snapshot /\ events' = events
  BY DEF inputs
<1>2. start' = start /\ end' = end
  BY <1>1 DEF start, end
<1>3. SnapshotState' = SnapshotState
  BY <1>1, <1>2 DEF SnapshotState
<1>4. StateAtStart' = StateAtStart
  BY <1>1, <1>3 DEF StateAtStart
<1>5. FallbackSeconds' = FallbackSeconds
  BY <1>1, <1>2 DEF FallbackSeconds
<1>6. \A t : Clamp(t)' = Clamp(t)
  BY <1>2 DEF Clamp
<1>14. \A i : ReadAt(i)' = ReadAt(i)
  BY <1>1, <1>6 DEF ReadAt
<1>7. \A i : Counts(i)' <=> Counts(i)
  BY <1>1, <1>6 DEF Counts
<1>8. \A t : Known(t)' = Known(t)
  BY <1>1, <1>6, <1>7 DEF Known
<1>9. \A t : StateAt(t)' = StateAt(t)
  <2>1. \A t : StateAt(t) = StateOf(Known(t))
    BY DEF StateAt, StateOf, Last
  <2>2. \A t : StateAt(t)' = StateOf(Known(t))'
    BY DEF StateAt, StateOf, Last
  <2>3. \A t : StateOf(Known(t))' = StateOf(Known(t))
    BY <1>1, <1>4, <1>8 DEF StateOf
  <2> QED
    BY <2>1, <2>2, <2>3
<1>10. \A t : IsOn(t)' = IsOn(t)
  BY <1>9 DEF IsOn
<1>11. \A c : OnBefore(c)' = OnBefore(c)
  BY <1>2, <1>10 DEF OnBefore
<1>12. \A n : ReadSoFar(n)' = ReadSoFar(n)
  BY <1>1, <1>7 DEF ReadSoFar, Deciding
<1>13. \A n : StateOf(ReadSoFar(n))' = StateOf(ReadSoFar(n))
  BY <1>1, <1>4, <1>12 DEF StateOf
<1> QED
  BY <1>2, <1>4, <1>5, <1>10, <1>11, <1>13, <1>14

LEMMA CountInit == Init => CountInv
BY DEF Init, CountInv, LoopInv, DoneInv

(* No event is read yet, and no second counted.                             *)
LEMMA BeginCounts ==
    ASSUME TypeOK, Counted, CountInv, Begin
    PROVE  LoopInv'
<1>0. start \in Int /\ Len(events) \in Nat
  BY WindowType, EventsType
<1>1. /\ UNCHANGED inputs /\ current' = StateAtStart
      /\ StateAtStart # Null \/ events # << >>
      /\ on' = 0 /\ cursor' = start /\ next' = 1
  BY DEF Begin, Counted, CountInv
<1>2. ReadSoFar(1) = {}
  BY <1>0 DEF ReadSoFar, Deciding
<1>3. StateOf(ReadSoFar(1)) = StateAtStart
  BY <1>2 DEF StateOf
<1>4. Cardinality(OnBefore(start)) = 0
  <2>1. OnBefore(start) = {}
    BY <1>0 DEF OnBefore
  <2> QED
    BY <2>1, FS_EmptySet
<1>5. /\ StateOf(ReadSoFar(1))' = StateOf(ReadSoFar(1))
      /\ start' = start /\ StateAtStart' = StateAtStart
  BY <1>1, InputsFixed
<1>6. \A c : OnBefore(c)' = OnBefore(c)
  BY <1>1, InputsFixed
<1>7. Cardinality(OnBefore(cursor))' = 0
  BY <1>1, <1>4, <1>6
<1>8. StateOf(ReadSoFar(next))' = StateAtStart
  BY <1>1, <1>3, <1>5
<1>9. events' = events
  BY <1>1 DEF inputs
<1> QED
  BY <1>1, <1>5, <1>7, <1>8, <1>9 DEF LoopInv

(* The event at hand, in the loop.                                          *)
LEMMA AtHand ==
    ASSUME TypeOK, Counted, pc = "loop", next <= Len(events)
    PROVE  /\ next \in 1..Len(events) /\ next \in Nat /\ start < end
           /\ cursor \in Int /\ on \in Int
           /\ ReadAt(next) \in Int
           /\ start <= ReadAt(next) /\ ReadAt(next) <= end
<1>1. next \in 1..Len(events) /\ cursor \in Int /\ on \in Int
  BY EventsType, BoundAssumption DEF TypeOK
<1>2. start < end
  BY DEF Counted
<1> QED
  BY <1>1, <1>2, ClampType, EventsType DEF ReadAt

(* An event counts when the cursor is not past it.                          *)
LEMMA CountsAtCursor ==
    ASSUME TypeOK, Counted, LoopInv, pc = "loop", next <= Len(events)
    PROVE  Counts(next) <=> cursor <= ReadAt(next)
<1> DEFINE t == ReadAt(next)
<1>1. /\ next \in 1..Len(events) /\ cursor \in Int
      /\ t \in Int /\ start <= t /\ start \in Int
  BY AtHand, WindowType
<1>2. /\ \A i \in 1..(next - 1) : ReadAt(i) <= cursor
      /\ \/ cursor = start
         \/ \E i \in 1..(next - 1) : ReadAt(i) = cursor
  BY DEF LoopInv
<1>3. \A i \in 1..(next - 1) : ReadAt(i) \in Int
  <2>1. \A i \in 1..(next - 1) : i \in 1..Len(events)
    BY <1>1, EventsType
  <2> QED
    BY <2>1, ClampType DEF ReadAt
<1> HIDE DEF t
<1>4. ASSUME cursor <= t PROVE Counts(next)
  <2>1. \A j \in 1..(next - 1) : ReadAt(j) <= t
    BY <1>1, <1>2, <1>3, <1>4
  <2> QED
    BY <2>1 DEF Counts, ReadAt, t
<1>5. ASSUME Counts(next) PROVE cursor <= t
  <2>1. \A j \in 1..(next - 1) : ReadAt(j) <= t
    BY <1>5 DEF Counts, ReadAt, t
  <2> QED
    BY <1>1, <1>2, <2>1
<1> QED
  BY <1>4, <1>5 DEF t

(* A skipped event leaves everything but the index.                         *)
LEMMA SkipCounts ==
    ASSUME TypeOK, Counted, LoopInv, SkipEvent
    PROVE  LoopInv'
<1>1. /\ pc = "loop" /\ next <= Len(events) /\ next' = next + 1
      /\ ReadAt(next) < cursor
      /\ UNCHANGED inputs /\ cursor' = cursor /\ current' = current /\ on' = on
  BY DEF SkipEvent, ReadAt
<1>2. /\ next \in 1..Len(events) /\ next \in Nat /\ cursor \in Int
      /\ ReadAt(next) \in Int
  BY <1>1, AtHand
<1>3. next \notin Deciding
  BY <1>1, <1>2, CountsAtCursor DEF Deciding
<1>4. ReadSoFar(next + 1) = ReadSoFar(next)
  BY <1>2, <1>3, ReadOne
<1>5. /\ \A n : StateOf(ReadSoFar(n))' = StateOf(ReadSoFar(n))
      /\ start' = start /\ StateAtStart' = StateAtStart
      /\ \A c : OnBefore(c)' = OnBefore(c) /\ \A i : ReadAt(i)' = ReadAt(i)
  BY <1>1, InputsFixed
<1>6. events' = events
  BY <1>1 DEF inputs
<1>7. /\ StateAtStart # Null \/ events # << >>
      /\ \A i \in 1..(next - 1) : ReadAt(i) <= cursor
      /\ \/ cursor = start
         \/ \E i \in 1..(next - 1) : ReadAt(i) = cursor
      /\ current = StateOf(ReadSoFar(next))
      /\ on = Cardinality(OnBefore(cursor))
  BY <1>1 DEF LoopInv
<1>8. current' = StateOf(ReadSoFar(next))'
  <2>1. PICK n : n = next + 1
    OBVIOUS
  <2>2. StateOf(ReadSoFar(n))' = StateOf(ReadSoFar(next))
    BY <1>4, <1>5, <2>1
  <2>3. StateOf(ReadSoFar(next))' = StateOf(ReadSoFar(n))'
    BY <1>1, <2>1
  <2> QED
    BY <1>1, <1>7, <2>2, <2>3
<1>9. on' = Cardinality(OnBefore(cursor))'
  BY <1>1, <1>5, <1>7
<1>10. \A i \in 1..(next' - 1) : ReadAt(i)' <= cursor'
  <2>1. ASSUME NEW i \in 1..(next' - 1) PROVE ReadAt(i) <= cursor
    <3>1. i \in 1..(next - 1) \/ i = next
      BY <1>1, <1>2
    <3> QED
      BY <1>1, <1>2, <1>7, <3>1
  <2> QED
    BY <1>1, <1>5, <1>6, <2>1
<1>11. \/ cursor' = start'
       \/ \E i \in 1..(next' - 1) : ReadAt(i)' = cursor'
  <2>1. \A i \in 1..(next - 1) : i \in 1..(next' - 1)
    BY <1>1, <1>2
  <2> QED
    BY <1>1, <1>5, <1>6, <1>7, <2>1
<1> QED
  BY <1>5, <1>6, <1>7, <1>8, <1>9, <1>10, <1>11 DEF LoopInv

(* Up to the next event that counts, or to the end, the device is in the    *)
(* current state, second by second.                                         *)
LEMMA CountStretch ==
    ASSUME TypeOK, Counted, LoopInv, pc = "loop", NEW d \in Int, cursor <= d,
           \A i \in Deciding : ~(i < next) => d <= ReadAt(i)
    PROVE  Cardinality(OnBefore(d)) =
               IF current = TRUE THEN on + (d - cursor) ELSE on
<1>1. /\ next \in Nat /\ cursor \in Int /\ on \in Int
      /\ start \in Int /\ start <= cursor
  BY WindowType, BoundAssumption DEF TypeOK, Counted
<1>2. on = Cardinality(OnBefore(cursor)) /\ current = StateOf(ReadSoFar(next))
  BY DEF LoopInv
<1>3. \A i \in Deciding : ReadAt(i) \in Int /\ i \in Nat
  BY ClampType, EventsType DEF Deciding, ReadAt
<1>4. \A i \in ReadSoFar(next) : ReadAt(i) <= cursor
  <2>1. \A i \in 1..(next - 1) : ReadAt(i) <= cursor
    BY DEF LoopInv
  <2>2. \A i \in ReadSoFar(next) : i \in 1..(next - 1)
    BY <1>1, EventsType DEF ReadSoFar, Deciding
  <2> QED
    BY <2>1, <2>2
<1>5. ASSUME NEW t \in cursor..(d - 1) PROVE StateAt(t) = current
  <2>1. \A i \in ReadSoFar(next) : ReadAt(i) <= t
    BY <1>1, <1>3, <1>4 DEF ReadSoFar
  <2>2. \A i \in Deciding : ~(i < next) => t < ReadAt(i)
    BY <1>1, <1>3
  <2>3. t \in Int
    BY <1>1
  <2> QED
    BY <1>1, <1>2, <2>1, <2>2, <2>3, StateInStretch DEF ReadAt
<1>6. CASE current = TRUE
  <2>1. \A t \in cursor..(d - 1) : IsOn(t)
    BY <1>5, <1>6 DEF IsOn
  <2>2. Cardinality(OnBefore(d)) = Cardinality(OnBefore(cursor)) + (d - cursor)
    BY <1>1, <2>1, StretchOn
  <2> QED
    BY <1>2, <1>6, <2>2
<1>7. CASE current # TRUE
  <2>1. \A t \in cursor..(d - 1) : ~IsOn(t)
    BY <1>5, <1>7 DEF IsOn
  <2>2. OnBefore(d) = OnBefore(cursor)
    BY <1>1, <2>1, StretchOff
  <2> QED
    BY <1>2, <1>7, <2>2
<1> QED
  BY <1>6, <1>7

(* An event that counts moves the cursor to its time.                       *)
LEMMA EventCounts ==
    ASSUME TypeOK, Counted, LoopInv, CountEvent
    PROVE  LoopInv'
<1>c. PICK c : c = ReadAt(next)
  OBVIOUS
<1>n. PICK n : n = next + 1
  OBVIOUS
<1>1. /\ pc = "loop" /\ next <= Len(events) /\ next' = n
      /\ cursor <= c /\ cursor' = c /\ UNCHANGED inputs
      /\ on' = IF current = TRUE THEN on + (c - cursor) ELSE on
      /\ current' = IF events[next].state # Null THEN events[next].state
                    ELSE current
  BY <1>c, <1>n DEF CountEvent, ReadAt
<1>2. /\ next \in 1..Len(events) /\ next \in Nat /\ cursor \in Int
      /\ c \in Int
  BY <1>1, <1>c, AtHand
<1>3. /\ \A m : StateOf(ReadSoFar(m))' = StateOf(ReadSoFar(m))
      /\ start' = start /\ StateAtStart' = StateAtStart
      /\ \A d : OnBefore(d)' = OnBefore(d) /\ \A i : ReadAt(i)' = ReadAt(i)
      /\ events' = events
  BY <1>1, InputsFixed DEF inputs
<1>4. /\ StateAtStart # Null \/ events # << >>
      /\ \A i \in 1..(next - 1) : ReadAt(i) <= cursor
      /\ current = StateOf(ReadSoFar(next))
  BY <1>1 DEF LoopInv
<1>5. Counts(next)
  BY <1>1, <1>c, CountsAtCursor
<1>6. current' = StateOf(ReadSoFar(n))
  <2>1. CASE events[next].state = Null
    BY <1>1, <1>2, <1>4, <1>n, <2>1, ReadOne DEF Deciding
  <2>2. CASE events[next].state # Null
    <3>1. next \in Deciding
      BY <1>2, <1>5, <2>2 DEF Deciding
    <3> QED
      BY <1>1, <1>2, <1>n, <2>2, <3>1, ReadOne
  <2> QED
    BY <2>1, <2>2
<1>7. on' = Cardinality(OnBefore(c))
  <2>1. ASSUME NEW i \in Deciding, ~(i < next) PROVE c <= ReadAt(i)
    <3>1. CASE i = next
      BY <1>2, <1>c, <3>1
    <3>2. CASE i # next
      <4>1. i > next
        BY <1>2, <2>1, <3>2, EventsType DEF Deciding
      <4> QED
        BY <1>2, <1>c, <4>1, Later DEF ReadAt
    <3> QED
      BY <3>1, <3>2
  <2> QED
    BY <1>1, <1>2, <2>1, CountStretch
<1>8. \A i \in 1..(n - 1) : ReadAt(i) <= c
  <2>1. ASSUME NEW i \in 1..(next - 1) PROVE ReadAt(i) <= c
    <3>1. ReadAt(i) \in Int /\ ReadAt(i) <= cursor
      BY <1>2, <1>4, ClampType, EventsType DEF ReadAt
    <3> QED
      BY <1>1, <1>2, <3>1
  <2> QED
    BY <1>2, <1>c, <1>n, <2>1
<1>9. \E i \in 1..(n - 1) : ReadAt(i) = c
  BY <1>2, <1>c, <1>n
<1>10. current' = StateOf(ReadSoFar(next))'
  <2>1. StateOf(ReadSoFar(next))' = StateOf(ReadSoFar(n))'
    BY <1>1
  <2> QED
    BY <1>3, <1>6, <2>1
<1>11. on' = Cardinality(OnBefore(cursor))'
  <2>1. OnBefore(cursor)' = OnBefore(c)'
    BY <1>1
  <2> QED
    BY <1>3, <1>7, <2>1
<1> QED
  BY <1>1, <1>3, <1>4, <1>8, <1>9, <1>10, <1>11 DEF LoopInv

(* The rest of the window.                                                  *)
LEMMA FinishCounts ==
    ASSUME TypeOK, Counted, LoopInv, Finish
    PROVE  DoneInv'
<1>1. /\ pc = "loop" /\ ~(next <= Len(events)) /\ UNCHANGED inputs
      /\ on' = IF current = TRUE /\ cursor < end THEN on + (end - cursor) ELSE on
  BY EventsType, BoundAssumption DEF Finish, TypeOK
<1>2. /\ next \in Nat /\ Len(events) \in Nat /\ cursor \in Int /\ on \in Int
      /\ end \in Int /\ cursor <= end
  BY <1>1, EventsType, WindowType, BoundAssumption DEF TypeOK, Counted
<1>3. \A i \in Deciding : i < next
  BY <1>1, <1>2 DEF Deciding
<1>4. Cardinality(OnBefore(end)) =
          IF current = TRUE THEN on + (end - cursor) ELSE on
  BY <1>1, <1>2, <1>3, CountStretch
<1>5. on' = Cardinality(OnBefore(end))
  BY <1>1, <1>2, <1>4
<1>6. StateAtStart # Null \/ events # << >>
  BY <1>1 DEF LoopInv
<1>e. PICK d : d = end
  OBVIOUS
<1>7. OnBefore(end)' = OnBefore(d)
  <2>1. end' = d /\ OnBefore(d)' = OnBefore(d)
    BY <1>1, <1>e, InputsFixed
  <2> QED
    BY <2>1
<1>8. StateAtStart' = StateAtStart /\ events' = events
  BY <1>1, InputsFixed DEF inputs
<1> QED
  BY <1>5, <1>6, <1>7, <1>8, <1>e DEF DoneInv

LEMMA CountNext == TypeOK /\ Counted /\ CountInv /\ [Next]_vars => CountInv'
<1> SUFFICES ASSUME TypeOK, Counted, CountInv, [Next]_vars PROVE CountInv'
  OBVIOUS
<1>1. CASE EmptyWindow
  <2>1. UNCHANGED inputs
    BY <1>1 DEF EmptyWindow
  <2>2. start' = start /\ end' = end /\ start \in Int /\ end \in Int
    BY <2>1, InputsFixed, WindowType
  <2> HIDE DEF start, end
  <2> QED
    BY <1>1, <2>2 DEF EmptyWindow, CountInv, LoopInv, DoneInv
<1>2. CASE Fallback
  <2>1. /\ UNCHANGED inputs /\ pc' = "done" /\ on' = FallbackSeconds
        /\ StateAtStart = Null /\ events = << >>
    BY <1>2 DEF Fallback
  <2>2. /\ StateAtStart' = StateAtStart /\ FallbackSeconds' = FallbackSeconds
        /\ events' = events
    BY <2>1, InputsFixed DEF inputs
  <2> QED
    BY <2>1, <2>2 DEF CountInv, LoopInv, DoneInv
<1>3. CASE Begin
  BY <1>3, BeginCounts DEF Begin, CountInv, DoneInv
<1>4. CASE SkipEvent
  BY <1>4, SkipCounts DEF SkipEvent, CountInv, DoneInv
<1>5. CASE CountEvent
  BY <1>5, EventCounts DEF CountEvent, CountInv, DoneInv
<1>6. CASE Finish
  BY <1>6, FinishCounts DEF Finish, CountInv, LoopInv
<1>7. CASE UNCHANGED vars
  <2>1. UNCHANGED <<inputs, pc, cursor, current, next, on>>
    BY <1>7 DEF vars, inputs
  <2>2. /\ start' = start /\ end' = end
        /\ StateAtStart' = StateAtStart /\ FallbackSeconds' = FallbackSeconds
        /\ events' = events
        /\ \A i : ReadAt(i)' = ReadAt(i)
        /\ \A c : OnBefore(c)' = OnBefore(c)
        /\ \A n : StateOf(ReadSoFar(n))' = StateOf(ReadSoFar(n))
    BY <2>1, InputsFixed DEF inputs
  <2>c. PICK c : c = cursor
    OBVIOUS
  <2>d. PICK d : d = end
    OBVIOUS
  <2>n. PICK n : n = next
    OBVIOUS
  <2>3. OnBefore(cursor)' = OnBefore(cursor) /\ OnBefore(end)' = OnBefore(end)
    BY <2>1, <2>2, <2>c, <2>d
  <2>4. StateOf(ReadSoFar(next))' = StateOf(ReadSoFar(next))
    BY <2>1, <2>2, <2>n
  <2> QED
    BY <2>1, <2>2, <2>3, <2>4 DEF CountInv, LoopInv, DoneInv
<1> QED
  BY <1>1, <1>2, <1>3, <1>4, <1>5, <1>6, <1>7 DEF Next

LEMMA CountInvariant == Spec => [](TypeOK /\ Counted /\ CountInv)
BY OnInit, OnNext, CountInit, CountNext, PTL DEF Spec

(* The loop of intervals counts the seconds in which the device was on.     *)
THEOREM OnTimeExact == Spec => []ExactCount
<1>1. TypeOK /\ Counted /\ CountInv => ExactCount
  BY DEF CountInv, DoneInv, ExactCount, OnBefore, IsOn
<1> QED
  BY <1>1, CountInvariant, PTL

(* The seconds of a..b-1 from c on, or those before.                        *)
LEMMA SecondsOf ==
    ASSUME NEW a \in Int, NEW b \in Int, NEW c \in Int, a < c, c < b,
           NEW s \in BOOLEAN
    PROVE  Cardinality({t \in a..(b - 1) : (c <= t) = s}) =
               IF s THEN b - c ELSE c - a
<1>1. CASE s = TRUE
  <2>1. \A t : ((c <= t) = s) <=> c <= t
    BY <1>1
  <2>2. {t \in a..(b - 1) : (c <= t) = s} = {t \in a..(b - 1) : c <= t}
    BY <2>1
  <2>3. {t \in a..(b - 1) : c <= t} = c..(b - 1)
    OBVIOUS
  <2>4. b - 1 \in Int
    OBVIOUS
  <2>5. Cardinality(c..(b - 1)) = IF c > b - 1 THEN 0 ELSE (b - 1) - c + 1
    BY <2>4, FS_Interval
  <2>6. Cardinality(c..(b - 1)) = b - c
    BY <2>5
  <2> QED
    BY <1>1, <2>2, <2>3, <2>6
<1>2. CASE s = FALSE
  <2>1. \A t : ((c <= t) = s) <=> ~(c <= t)
    BY <1>2
  <2>2. {t \in a..(b - 1) : (c <= t) = s} = {t \in a..(b - 1) : ~(c <= t)}
    BY <2>1
  <2>3. {t \in a..(b - 1) : ~(c <= t)} = a..(c - 1)
    OBVIOUS
  <2>4. c - 1 \in Int
    OBVIOUS
  <2>5. Cardinality(a..(c - 1)) = IF a > c - 1 THEN 0 ELSE (c - 1) - a + 1
    BY <2>4, FS_Interval
  <2>6. Cardinality(a..(c - 1)) = c - a
    BY <2>5
  <2> QED
    BY <1>2, <2>2, <2>3, <2>6
<1> QED
  BY <1>1, <1>2

(* The fallback, which is used when the state at start is not known, counts *)
(* the seconds that the snapshot tells of.                                  *)
LEMMA FallbackIs ==
    ASSUME TypeOK, start < end, StateAtStart = Null, prev = Null, events = << >>
    PROVE  FallbackSeconds = Cardinality({t \in start..(end - 1) : SnapshotOn(t)})
<1>1. PICK a, b : a = start /\ b = end
  OBVIOUS
<1>2. PICK s, c : s = snapshot.manual_state /\ c = snapshot.changed_at
  OBVIOUS
<1>3. a \in Int /\ b \in Int /\ a < b /\ s \in State /\ (c \in Int \/ c = Null)
  BY <1>1, <1>2, WindowType, WindowAssumption DEF TypeOK, Snapshot
<1>4. SnapshotState = Null
  BY DEF StateAtStart
<1>5. s = Null \/ (c \in Int /\ a < c)
  BY <1>1, <1>2, <1>3, <1>4, NullAssumption DEF SnapshotState
<1>6. \A t \in Int : SnapshotOn(t) <=> s # Null /\ c # Null /\ c < b /\ (c <= t) = s
  BY <1>1, <1>2, <1>3, <1>5, NullAssumption DEF SnapshotOn
<1>7. {t \in start..(end - 1) : SnapshotOn(t)} =
        {t \in a..(b - 1) : s # Null /\ c # Null /\ c < b /\ (c <= t) = s}
  BY <1>1, <1>3, <1>6
<1>8. CASE s = Null
  <2>1. {t \in start..(end - 1) : SnapshotOn(t)} = {}
    BY <1>7, <1>8
  <2> QED
    BY <1>2, <1>8, <2>1, FS_EmptySet DEF FallbackSeconds
<1>9. CASE s # Null /\ b <= c
  <2>1. {t \in start..(end - 1) : SnapshotOn(t)} = {}
    BY <1>3, <1>5, <1>7, <1>9
  <2>2. FallbackSeconds = 0
    BY <1>1, <1>2, <1>3, <1>5, <1>9, NullAssumption DEF FallbackSeconds
  <2> QED
    BY <2>1, <2>2, FS_EmptySet
<1>10. CASE s # Null /\ c < b
  <2>1. s \in BOOLEAN /\ c \in Int /\ a < c /\ c # Null
    BY <1>3, <1>5, <1>10, NullAssumption DEF State
  <2>2. FallbackSeconds = IF s THEN b - c ELSE c - a
    BY <1>1, <1>2, <1>3, <1>10, <2>1 DEF FallbackSeconds
  <2>3. {t \in start..(end - 1) : SnapshotOn(t)} = {t \in a..(b - 1) : (c <= t) = s}
    BY <1>7, <1>10, <2>1
  <2>4. Cardinality({t \in a..(b - 1) : (c <= t) = s}) = IF s THEN b - c ELSE c - a
    BY <1>3, <1>10, <2>1, SecondsOf
  <2> QED
    BY <2>2, <2>3, <2>4
<1> QED
  BY <1>3, <1>5, <1>8, <1>9, <1>10

(* Without events the loop counts the window by the state at start, which   *)
(* is the snapshot's when nothing is known from before.                     *)
LEMMA SnapshotStands ==
    ASSUME TypeOK, start < end, StateAtStart # Null, prev = Null, events = << >>
    PROVE  OnBefore(end) = {t \in start..(end - 1) : SnapshotOn(t)}
<1>1. PICK a, b : a = start /\ b = end
  OBVIOUS
<1>2. PICK s, c : s = snapshot.manual_state /\ c = snapshot.changed_at
  OBVIOUS
<1>3. a \in Int /\ b \in Int /\ a < b /\ s \in State /\ (c \in Int \/ c = Null)
  BY <1>1, <1>2, WindowType, WindowAssumption DEF TypeOK, Snapshot
<1>4. StateAtStart = SnapshotState
  BY DEF StateAtStart
<1>5. StateAtStart = s /\ s # Null /\ (c = Null \/ c <= a)
  BY <1>1, <1>2, <1>4 DEF SnapshotState
<1>6. s \in BOOLEAN
  BY <1>3, <1>5 DEF State
<1>7. \A t \in a..(b - 1) : SnapshotOn(t) <=> s = TRUE
  <2>1. CASE c = Null
    BY <1>2, <1>5, <1>6, <2>1 DEF SnapshotOn
  <2>2. CASE c # Null
    <3>1. c \in Int /\ c <= a /\ c < b
      BY <1>3, <1>5, <2>2
    <3>2. \A t \in a..(b - 1) : c <= t
      BY <1>3, <3>1
    <3>3. \A t \in a..(b - 1) : SnapshotOn(t) <=> (c <= t) = s
      BY <1>1, <1>2, <1>5, <2>2, <3>1 DEF SnapshotOn
    <3> QED
      BY <1>6, <3>2, <3>3
  <2> QED
    BY <2>1, <2>2
<1>8. \A t : StateAt(t) = s
  <2>1. \A t : Known(t) = {}
    BY DEF Known
  <2> QED
    BY <1>5, <2>1 DEF StateAt
<1>9. \A t : IsOn(t) <=> s = TRUE
  BY <1>8 DEF IsOn
<1>10. OnBefore(end) = {t \in a..(b - 1) : IsOn(t)}
  BY <1>1 DEF OnBefore
<1> QED
  BY <1>1, <1>7, <1>9, <1>10

(* FallbackAgrees: of a device that only its snapshot tells of, the seconds *)
(* in its state since the last change and in the opposite state before are  *)
(* counted, as one event of that time and state would make the loop count,  *)
(* when the change is before the end of the window; and none when it is at  *)
(* the end or after it (_fallback_on_seconds_from_device_snapshot,          *)
(* _resolve_state_from_device_snapshot).                                    *)
THEOREM FallbackExact == Spec => []FallbackAgrees
<1>1. ASSUME TypeOK, CountInv, pc = "done", start < end, prev = Null, events = << >>
      PROVE  on = Cardinality({t \in start..(end - 1) : SnapshotOn(t)})
  <2>1. CASE StateAtStart = Null
    <3>1. on = FallbackSeconds
      BY <1>1, <2>1 DEF CountInv, DoneInv
    <3> QED
      BY <1>1, <2>1, <3>1, FallbackIs
  <2>2. CASE StateAtStart # Null
    <3>1. on = Cardinality(OnBefore(end))
      BY <1>1, <2>2 DEF CountInv, DoneInv
    <3> QED
      BY <1>1, <2>2, <3>1, SnapshotStands
  <2> QED
    BY <2>1, <2>2
<1>2. TypeOK /\ Counted /\ CountInv => FallbackAgrees
  BY <1>1 DEF FallbackAgrees
<1> QED
  BY <1>2, CountInvariant, PTL
=============================================================================
