------------------------------ MODULE HourPool ------------------------------
(***************************************************************************)
(* The current-hour pool of a provider: what it produced since the hour    *)
(* began, less what the devices on it consumed.                            *)
(* get_provider_current_hour_pool of                                       *)
(* app/api/routes/provider_measurements.py, which composes the power       *)
(* window (PowerWindow) and the on-time of each device (DeviceOnTime).     *)
(*                                                                         *)
(* The report reads the clock, the readings, the device rows, and then two *)
(* queries of events for every device.  Meanwhile relays switch, and the   *)
(* agents post what happened, late, and sometimes twice.                   *)
(***************************************************************************)
EXTENDS PowerWindow

CONSTANTS
    Devices,       \* the devices of the provider
    Rated,         \* their rated_power in kW, or Null
    ReadingLists,  \* possible lists of readings of the provider
    Providers,     \* possible providers, Null for none
    MaxFacts,      \* bound: switchings of relays
    MaxTime        \* bound: readings of the clock

ASSUME DevicesAssumption == IsFiniteSet(Devices) /\ Null \notin Devices
ASSUME RatedAssumption == Rated \in [Devices -> Int \cup {Null}]
ASSUME ReadingsAssumption == ReadingLists \subseteq Seq([ts : Int, power : Int])
ASSUME ProvidersAssumption ==
    \A p \in Providers \ {Null} :
        p.api \in BOOLEAN /\ (p.expected = Null \/ p.expected \in Int)
ASSUME PoolBounds == MaxFacts \in Nat /\ MaxTime \in Nat

Time == 0..MaxTime
State == BOOLEAN \cup {Null}
Fact == [device : Devices, at : Time, state : BOOLEAN]
Row == [manual_state : State, changed_at : Time \cup {Null}]

ASSUME NullAssumption ==
    /\ Null \notin BOOLEAN /\ Null \notin Int
    /\ Null \notin Row /\ Null \notin [ts : Int, power : Int]

VARIABLES
    facts,     \* history: when the relays switched
    log,       \* the STATE events that agents posted
    rows,      \* the devices table
    now,       \* the clock
    provider,  \* kind, unit, provider_type and default_expected_interval_sec
    readings,  \* its readings
    phase,     \* where the report is
    production, consumption, available,
    table,     \* the device rows as the report loaded them
    todo,      \* devices it has not come to
    device,    \* the one it is at, or Null
    charged,   \* history: on_seconds of each device
    missed,    \* history: devices whose events came after their query
    window, prev, snapshot, events, pc, cursor, current, next, on

OnTime ==
    INSTANCE DeviceOnTime WITH
        Windows <- {<<HourOf(t), t>> : t \in Time},
        Times <- Time,
        MaxEvents <- MaxFacts

world == <<facts, log, rows, now>>
given == <<provider, readings>>
count == <<prev, snapshot, events, pc, cursor, current, next, on>>
result == <<production, consumption, available>>
vars == <<world, given, phase, result, table, todo, device, charged, missed,
          window, count>>

start == window[1]
end == window[2]
Hold == HoldSeconds(provider.expected)

-----------------------------------------------------------------------------
(* Relays, agents and the clock.                                           *)

FactsOf(d) == {f \in facts : f.device = d}

(***************************************************************************)
(* Facts are changes: the state of a relay before one is the opposite.     *)
(***************************************************************************)
Switch(d, s) ==
    /\ Cardinality(facts) < MaxFacts
    /\ \A f \in FactsOf(d) : f.at < now
    /\ IF FactsOf(d) # {}
       THEN s # (CHOOSE f \in FactsOf(d) : \A g \in FactsOf(d) : g.at <= f.at).state
       ELSE rows[d].manual_state # s
    /\ facts' = facts \cup {[device |-> d, at |-> now, state |-> s]}
    /\ UNCHANGED <<log, rows, now, given, phase, result, table, todo, device,
                   charged, missed, window, count>>

(***************************************************************************)
(* An agent posts its events in any order, each with its created_at, and    *)
(* may post one again; the route stores the event and sets the snapshot,    *)
(* so that a late event moves last_state_change_at back.                    *)
(***************************************************************************)
Post(f) ==
    /\ log' = log \cup {f}
    /\ rows' = [rows EXCEPT ![f.device] =
                  [manual_state |-> f.state, changed_at |-> f.at]]
    /\ UNCHANGED <<facts, now, given, phase, result, table, todo, device,
                   charged, missed, window, count>>

Tick ==
    /\ now < MaxTime
    /\ now' = now + 1
    /\ UNCHANGED <<facts, log, rows, given, phase, result, table, todo, device,
                   charged, missed, window, count>>

(***************************************************************************)
(* What happens after the answer is of no interest.                        *)
(***************************************************************************)
World ==
    /\ phase \notin {"done", "rejected"}
    /\ \/ \E d \in Devices, s \in BOOLEAN : Switch(d, s)
       \/ \E f \in facts : Post(f)
       \/ Tick

-----------------------------------------------------------------------------
(* The report.                                                             *)

Init ==
    /\ facts = {} /\ log = {} /\ now = 0
    /\ rows \in [Devices -> [manual_state : State, changed_at : {Null}]]
    /\ provider \in Providers /\ readings \in ReadingLists
    /\ phase = "idle"
    /\ production = 0 /\ consumption = 0 /\ available = 0
    /\ table = [d \in Devices |-> Null]
    /\ todo = {} /\ device = Null
    /\ charged = [d \in Devices |-> Null] /\ missed = {}
    /\ window = <<0, 0>>
    /\ prev = Null
    /\ snapshot = [manual_state |-> Null, changed_at |-> Null]
    /\ events = << >> /\ pc = "done"
    /\ cursor = 0 /\ current = Null /\ next = 1 /\ on = 0

(***************************************************************************)
(* Only a provider of the user's (404), of power and in W or kW (422), has *)
(* a pool.                                                                 *)
(***************************************************************************)
Found == provider # Null

Accepted == Found /\ provider.kind = "power" /\ provider.unit # Null

Reject ==
    /\ phase = "idle"
    /\ ~Accepted
    /\ phase' = "rejected"
    /\ UNCHANGED <<world, given, result, table, todo, device, charged, missed,
                   window, count>>

HourWindow == <<HourOf(now), now>>

Open ==
    /\ phase = "idle"
    /\ Accepted
    /\ window' = HourWindow
    /\ phase' = "production"
    /\ UNCHANGED <<world, given, result, table, todo, device, charged, missed,
                   count>>

HourSamples ==
    WindowSamples(readings, LastBefore(readings, start), start, end, Hold)

(* _integrate_window_energy, with EnergyCalculationService. *)
IntegrateWindow(samples) ==
    SumFunction([i \in Intervals(samples, Hold) |-> i.power * (i.to - i.from)])

BuildProduction ==
    /\ phase = "production"
    /\ production' = IntegrateWindow(HourSamples)
    /\ phase' = IF provider.api THEN "rows" ELSE "answer"
    /\ UNCHANGED <<world, given, consumption, available, table, todo, device,
                   charged, missed, window, count>>

(***************************************************************************)
(* Devices without a rated power, or with none above zero, are passed over. *)
(***************************************************************************)
Considered == {d \in Devices : Rated[d] # Null /\ Rated[d] > 0}

ListDevices ==
    /\ phase = "rows"
    /\ table' = rows
    /\ todo' = Considered
    /\ phase' = "devices"
    /\ UNCHANGED <<world, given, result, device, charged, missed, window, count>>

(***************************************************************************)
(* The events of a device in the two queries of its on-time.               *)
(***************************************************************************)
Before(d) == {f \in log : f.device = d /\ f.at < start}
Within(d) == {f \in log : f.device = d /\ start <= f.at /\ f.at <= end}

LastState(S) ==
    IF S = {} THEN Null
    ELSE (CHOOSE f \in S : \A g \in S : g.at <= f.at).state

InOrder(S) ==
    CHOOSE s \in [1..Cardinality(S) -> S] :
        \A i, j \in DOMAIN s : i < j => s[i].at < s[j].at

(* A bug: the row is read again, after the clock and the other rows.        *)
ReadRowAgain ==
    /\ phase = "devices"
    /\ \E d \in todo :
        /\ device' = d
        /\ todo' = todo \ {d}
        /\ snapshot' = rows[d]
        /\ prev' = LastState(Before(d))
        /\ missed' = IF \E f \in FactsOf(d) \ log : f.at < end
                     THEN missed \cup {d} ELSE missed
    /\ phase' = "events"
    /\ UNCHANGED <<world, given, result, table, charged, window,
                   events, pc, cursor, current, next, on>>

ReadPrevious ==
    /\ phase = "devices"
    /\ \E d \in todo :
        /\ device' = d
        /\ todo' = todo \ {d}
        /\ snapshot' = table[d]
        /\ prev' = LastState(Before(d))
        /\ missed' = IF \E f \in FactsOf(d) \ log : f.at < end
                     THEN missed \cup {d} ELSE missed
    /\ phase' = "events"
    /\ UNCHANGED <<world, given, result, table, charged, window,
                   events, pc, cursor, current, next, on>>

(* A bug: the seconds of the device before are kept.                        *)
KeepSeconds ==
    /\ phase = "events"
    /\ LET S == InOrder(Within(device))
       IN  events' = [i \in DOMAIN S |-> [at |-> S[i].at, state |-> S[i].state]]
    /\ pc' = "choose" /\ cursor' = start /\ current' = Null
    /\ next' = 1
    /\ phase' = "count"
    /\ UNCHANGED <<world, given, result, table, todo, device, charged, missed,
                   window, prev, snapshot, on>>

ReadEvents ==
    /\ phase = "events"
    /\ LET S == InOrder(Within(device))
       IN  events' = [i \in DOMAIN S |-> [at |-> S[i].at, state |-> S[i].state]]
    /\ pc' = "choose" /\ cursor' = start /\ current' = Null
    /\ next' = 1 /\ on' = 0
    /\ phase' = "count"
    /\ UNCHANGED <<world, given, result, table, todo, device, charged, missed,
                   window, prev, snapshot>>

CountOnTime ==
    /\ phase = "count"
    /\ OnTime!Next
    /\ UNCHANGED <<world, given, phase, result, table, todo, device, charged,
                   missed>>

(* _convert_kwh_to_energy_unit *)
InUnit(kwh) == IF provider.unit = "W" THEN 1000 * kwh ELSE kwh

Charge ==
    /\ phase = "count"
    /\ pc = "done"
    /\ charged' = [charged EXCEPT ![device] = on]
    /\ consumption' = IF on <= 0 THEN consumption
                      ELSE consumption + InUnit(Rated[device] * on)
    /\ device' = Null
    /\ phase' = "devices"
    /\ UNCHANGED <<world, given, production, available, table, todo, missed,
                   window, count>>

LastDevice ==
    /\ phase = "devices"
    /\ todo = {}
    /\ phase' = "answer"
    /\ UNCHANGED <<world, given, result, table, todo, device, charged, missed,
                   window, count>>

(* A bug: the pool may be negative.                                         *)
AnswerNet ==
    /\ phase = "answer"
    /\ available' = production - consumption
    /\ phase' = "done"
    /\ UNCHANGED <<world, given, production, consumption, table, todo, device,
                   charged, missed, window, count>>

Answer ==
    /\ phase = "answer"
    /\ available' = LaterOf(0, production - consumption)
    /\ phase' = "done"
    /\ UNCHANGED <<world, given, production, consumption, table, todo, device,
                   charged, missed, window, count>>

Report ==
    \/ Reject \/ Open \/ BuildProduction \/ ListDevices
    \/ ReadPrevious \/ ReadEvents \/ CountOnTime \/ Charge \/ LastDevice
    \/ Answer

Next == World \/ Report

Spec == Init /\ [][Next]_vars
-----------------------------------------------------------------------------
(* Properties.                                                             *)

TypeOK ==
    /\ facts \subseteq Fact /\ log \subseteq facts
    /\ rows \in [Devices -> Row]
    /\ now \in Time
    /\ provider \in Providers /\ readings \in ReadingLists
    /\ phase \in {"idle", "production", "rows", "devices", "events", "count",
                  "answer", "done", "rejected"}
    /\ production \in Int /\ consumption \in Nat /\ available \in Nat
    /\ table \in [Devices -> Row \cup {Null}]
    /\ todo \subseteq Considered /\ device \in Considered \cup {Null}
    /\ charged \in [Devices -> Nat \cup {Null}] /\ missed \subseteq Considered
    /\ OnTime!TypeOK

(***************************************************************************)
(* The reading that stands at t: the latest up to t.  One of the hour      *)
(* stands for the hold time; one from before the hour, if it was fresh at  *)
(* its start, for the hold time from there, so for less than twice the     *)
(* hold time in all.                                                       *)
(***************************************************************************)
StandsAt(t) ==
    {i \in DOMAIN readings :
        LET r == readings[i]
        IN  /\ r.ts <= t
            /\ Hold # Null => /\ start - r.ts <= Hold
                              /\ t < LaterOf(r.ts, start) + Hold
            /\ \A j \in DOMAIN readings : readings[j].ts <= t =>
                  \/ readings[j].ts < r.ts
                  \/ readings[j].ts = r.ts /\ j <= i}

(***************************************************************************)
(* The production of the hour is the sum of the power that stood in it,    *)
(* unit of time by unit of time, up to the reading of the clock, although  *)
(* the report sees the last reading before the hour only, moved to its     *)
(* start (_build_window_samples, _integrate_window_energy).                *)
(***************************************************************************)
ProductionExact ==
    phase = "done" =>
        production =
            SumFunction([t \in start..(end - 1) |->
                SumFunction([i \in StandsAt(t) |-> readings[i].power])])

(***************************************************************************)
(* The state a relay really had at t.                                      *)
(***************************************************************************)
First(S) == CHOOSE f \in S : \A g \in S : f.at <= g.at

TrueState(d, t) ==
    LET S == FactsOf(d)
        before == {f \in S : f.at <= t}
    IN  IF before # {} THEN LastState(before)
        ELSE IF S # {} THEN ~First(S).state
        ELSE rows[d].manual_state

TrueOn(d) == Cardinality({t \in start..(end - 1) : TrueState(d, t) = TRUE})

(***************************************************************************)
(* What the report can know of a device: an event from before the clock    *)
(* was read, or a row that was still untouched when it was loaded.  A row  *)
(* that the first event of a device overwrote after the clock was read is  *)
(* neither, and such a device counts as off.                               *)
(***************************************************************************)
Informed(d) ==
    \/ \E f \in FactsOf(d) : f.at < end
    \/ table[d].changed_at = Null /\ table[d].manual_state # Null

(***************************************************************************)
(* A device is charged for the time its relay was really on, whatever was  *)
(* posted, late or twice, between the queries of the report, as long as    *)
(* its events from before the clock was read had been posted when it was   *)
(* queried and the report can know its state (_calculate_device_on_seconds *)
(* with rows that were read before the events).                            *)
(***************************************************************************)
ConsumptionTrue ==
    (phase = "done" /\ provider.api) =>
        \A d \in Considered \ missed : Informed(d) => charged[d] = TrueOn(d)

(***************************************************************************)
(* The pool is never more than what was produced, and never less than that *)
(* without the rated energy of every device: no device is charged twice or *)
(* for the time of another, however the queries and the events interleave. *)
(***************************************************************************)
PoolBounded ==
    phase = "done" =>
        LET most == SumFunction([d \in Considered |->
                                    InUnit(Rated[d] * (end - start))])
        IN  /\ available <= LaterOf(0, production)
            /\ available >= production - (IF provider.api THEN most ELSE 0)
=============================================================================
