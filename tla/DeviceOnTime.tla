---------------------------- MODULE DeviceOnTime ----------------------------
(***************************************************************************)
(* How long a device was on in the window start..end:                      *)
(* _calculate_device_on_seconds of                                         *)
(* app/api/routes/provider_measurements.py, with the rules it uses for a   *)
(* device whose state at start is not known.                               *)
(*                                                                         *)
(* The rows it reads are the inputs: the last STATE event before the       *)
(* window, the STATE events of the window in the order of the query, and   *)
(* the device's snapshot.  An event is its time and the state that         *)
(* _resolve_state_from_event makes of it, Null when it makes none.  They   *)
(* come from three queries, so any combination of them is an input: an     *)
(* agent's event may be committed between two of the queries, and its      *)
(* created_at is the agent's own.                                          *)
(***************************************************************************)
EXTENDS Integers, Sequences, FiniteSets

CONSTANTS
    Windows,    \* the windows asked for, pairs <<start, end>>
    Times,      \* times of events and of the snapshot's last change
    MaxEvents,  \* bound: events in the window
    Null        \* None

ASSUME WindowAssumption == Windows \subseteq Int \X Int /\ Times \subseteq Int
ASSUME BoundAssumption == MaxEvents \in Nat
ASSUME NullAssumption == Null \notin BOOLEAN /\ Null \notin Int

State == BOOLEAN \cup {Null}
Event == [at : Times, state : State]
Snapshot == [manual_state : State, changed_at : Times \cup {Null}]

EventLists == UNION {[1..n -> Event] : n \in 0..MaxEvents}

VARIABLES
    window,    \* start and end
    prev,      \* state of the last STATE event before start
    snapshot,  \* the device's manual_state and last_state_change_at
    events,    \* hour_state_events
    pc,        \* "choose", "loop", "done"
    cursor,    \* end of the part of the window already counted
    current,   \* current_state
    next,      \* index of the next event
    on         \* on_seconds

start == window[1]
end == window[2]

inputs == <<window, prev, snapshot, events>>
vars == <<window, prev, snapshot, events, pc, cursor, current, next, on>>

TypeOK ==
    /\ window \in Windows
    /\ prev \in State
    /\ snapshot \in Snapshot
    /\ events \in EventLists
    /\ pc \in {"choose", "loop", "done"}
    /\ cursor \in Int
    /\ current \in State
    /\ next \in 1..(MaxEvents + 1)
    /\ on \in Int

-----------------------------------------------------------------------------

Clamp(t) == IF t < start THEN start ELSE IF t > end THEN end ELSE t

(***************************************************************************)
(* _resolve_state_from_device_snapshot: the snapshot tells the state at    *)
(* start when it did not change since.                                     *)
(***************************************************************************)
SnapshotState ==
    IF snapshot.changed_at = Null THEN snapshot.manual_state
    ELSE IF snapshot.changed_at <= start THEN snapshot.manual_state
    ELSE Null

(***************************************************************************)
(* The state assumed at start: the last event before, else the snapshot,   *)
(* else the opposite of the first event.                                   *)
(***************************************************************************)
StateAtStart ==
    IF prev # Null THEN prev
    ELSE IF SnapshotState # Null THEN SnapshotState
    ELSE IF events # << >> /\ events[1].state # Null THEN ~events[1].state
    ELSE Null

(***************************************************************************)
(* _fallback_on_seconds_from_device_snapshot.                              *)
(***************************************************************************)

(* A bug: an unknown state is no number of seconds.                         *)
FallbackUnknown == IF snapshot.manual_state = Null THEN Null ELSE 0

(* A bug: the parts before and after the change are swapped.                *)
FallbackSwapped ==
    LET s == snapshot.manual_state
        c == snapshot.changed_at
    IN  IF s = Null THEN 0
        ELSE IF c = Null \/ c <= start THEN IF s THEN end - start ELSE 0
        ELSE IF end <= c THEN 0
        ELSE IF s THEN c - start ELSE end - c

FallbackSeconds ==
    LET s == snapshot.manual_state
        c == snapshot.changed_at
    IN  IF s = Null THEN 0
        ELSE IF c = Null \/ c <= start THEN IF s THEN end - start ELSE 0
        ELSE IF end <= c THEN 0
        ELSE IF s THEN end - c ELSE c - start

-----------------------------------------------------------------------------

Init ==
    /\ window \in Windows
    /\ prev \in State
    /\ snapshot \in Snapshot
    /\ events \in EventLists
    /\ pc = "choose"
    /\ cursor = start
    /\ current = Null
    /\ next = 1
    /\ on = 0

(***************************************************************************)
(* An empty window counts nothing.                                         *)
(***************************************************************************)
EmptyWindow ==
    /\ pc = "choose"
    /\ end <= start
    /\ pc' = "done"
    /\ UNCHANGED <<inputs, cursor, current, next, on>>

(***************************************************************************)
(* Nothing is known but the snapshot.                                      *)
(***************************************************************************)
Fallback ==
    /\ pc = "choose"
    /\ start < end
    /\ StateAtStart = Null
    /\ events = << >>
    /\ on' = FallbackSeconds
    /\ pc' = "done"
    /\ UNCHANGED <<inputs, cursor, current, next>>

Begin ==
    /\ pc = "choose"
    /\ start < end
    /\ StateAtStart # Null \/ events # << >>
    /\ current' = StateAtStart
    /\ pc' = "loop"
    /\ UNCHANGED <<inputs, cursor, next, on>>

(***************************************************************************)
(* One event of the loop.  One that is earlier than the cursor is skipped. *)
(***************************************************************************)
SkipEvent ==
    /\ pc = "loop"
    /\ next <= Len(events)
    /\ Clamp(events[next].at) < cursor
    /\ next' = next + 1
    /\ UNCHANGED <<inputs, pc, cursor, current, on>>


(* A bug: an event out of order moves the cursor back.                      *)
CountAnyEvent ==
    /\ pc = "loop"
    /\ next <= Len(events)
    /\ LET e == events[next]
           t == Clamp(e.at)
       IN  /\ on' = IF current = TRUE THEN on + (t - cursor) ELSE on
           /\ cursor' = t
           /\ current' = IF e.state # Null THEN e.state ELSE current
    /\ next' = next + 1
    /\ UNCHANGED <<inputs, pc>>

(* A bug: an event without a state ends the state before it.                *)
CountUnresolved ==
    /\ pc = "loop"
    /\ next <= Len(events)
    /\ LET e == events[next]
           t == Clamp(e.at)
       IN  /\ cursor <= t
           /\ on' = IF current = TRUE THEN on + (t - cursor) ELSE on
           /\ cursor' = t
           /\ current' = e.state
    /\ next' = next + 1
    /\ UNCHANGED <<inputs, pc>>

CountEvent ==
    /\ pc = "loop"
    /\ next <= Len(events)
    /\ LET e == events[next]
           t == Clamp(e.at)
       IN  /\ cursor <= t
           /\ on' = IF current = TRUE THEN on + (t - cursor) ELSE on
           /\ cursor' = t
           /\ current' = IF e.state # Null THEN e.state ELSE current
    /\ next' = next + 1
    /\ UNCHANGED <<inputs, pc>>

(***************************************************************************)
(* The rest of the window after the last event.                            *)
(***************************************************************************)
Finish ==
    /\ pc = "loop"
    /\ next > Len(events)
    /\ on' = IF current = TRUE /\ cursor < end THEN on + (end - cursor) ELSE on
    /\ pc' = "done"
    /\ UNCHANGED <<inputs, cursor, current, next>>

Next == EmptyWindow \/ Fallback \/ Begin \/ SkipEvent \/ CountEvent \/ Finish

Spec == Init /\ [][Next]_vars

-----------------------------------------------------------------------------

(***************************************************************************)
(* A device is never on for a negative time, nor for longer than the       *)
(* window: whatever the order, the times and the states of the events, and *)
(* whichever rule gives the state at start, the pool never charges a       *)
(* device more energy than its rated power over the window.                *)
(***************************************************************************)
OnBounded ==
    /\ on >= 0
    /\ start < end => on <= end - start
    /\ end <= start => on = 0

(***************************************************************************)
(* An event counts when no earlier one of the list is later in time.       *)
(***************************************************************************)
Counts(i) == \A j \in 1..(i - 1) : Clamp(events[j].at) <= Clamp(events[i].at)

Known(t) ==
    {i \in 1..Len(events) :
        Counts(i) /\ events[i].state # Null /\ Clamp(events[i].at) <= t}

(***************************************************************************)
(* The state at second t: that of the last event up to t that says one.    *)
(***************************************************************************)
StateAt(t) ==
    IF Known(t) = {} THEN StateAtStart
    ELSE events[CHOOSE i \in Known(t) : \A j \in Known(t) : j <= i].state

(***************************************************************************)
(* The loop of intervals of _calculate_device_on_seconds gives the number  *)
(* of seconds of the window in which the device was on, second by second.  *)
(***************************************************************************)
ExactCount ==
    (pc = "done" /\ start < end /\ (StateAtStart # Null \/ events # << >>)) =>
        on = Cardinality({t \in start..(end - 1) : StateAt(t) = TRUE})

(***************************************************************************)
(* Of a device that only its snapshot tells of: on in its state from the   *)
(* last change, in the opposite one before, second by second, as the loop  *)
(* would count one event of that time and state; always in its state when  *)
(* no change is known.  A change at the end of the window or after it      *)
(* counts for nothing, although the loop would take one event that turns   *)
(* the device off there for a window on: what the report forgoes then is   *)
(* said here too.                                                          *)
(***************************************************************************)
SnapshotOn(t) ==
    LET s == snapshot.manual_state
        c == snapshot.changed_at
    IN  IF s = Null THEN FALSE
        ELSE IF c = Null THEN s
        ELSE c < end /\ (c <= t) = s

FallbackAgrees ==
    (pc = "done" /\ start < end /\ prev = Null /\ events = << >>) =>
        on = Cardinality({t \in start..(end - 1) : SnapshotOn(t)})
=============================================================================
