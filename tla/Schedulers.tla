---------------------------- MODULE Schedulers ----------------------------
(***************************************************************************)
(* Schedulers and the devices they switch: app/api/routes/schedulers.py,   *)
(* with the device routes that attach and detach devices                   *)
(* (app/api/routes/devices.py).                                            *)
(*                                                                         *)
(* Deleting a scheduler lists its devices, switches them to manual and off *)
(* one by one, with two awaited calls for each, and only then deletes the  *)
(* row.  Any call may fail, the process may stop between two of them, and  *)
(* other requests run whenever one of them is awaited.                     *)
(***************************************************************************)
EXTENDS Integers, FiniteSets, SequencesExt

CONSTANTS
    Schedulers,      \* ids of schedulers
    Devices,         \* ids of devices, all of one owner
    Workers,         \* deletions under way at a time
    Slots,           \* possible slots: [threshold, provider]
    ProviderIds,     \* ids that slots may name, in the order of creation
    ProviderTables,  \* what those ids may be to the owner
    MaxOthers,       \* bound: requests other than deletions
    Null

ASSUME SlotsAssumption ==
    Slots \subseteq [threshold : BOOLEAN, provider : ProviderIds \cup {Null}]
ASSUME ProvidersAssumption == ProviderIds \subseteq Nat /\ IsFiniteSet(ProviderIds)
ASSUME OthersBound == MaxOthers \in Nat

Device == [mode : {"MANUAL", "SCHEDULE"}, scheduler : Schedulers \cup {Null},
           manual_state : BOOLEAN]

(* What the handler of a deletion knows: the devices left to switch, and    *)
(* the one between its two calls.                                           *)
Handler == [scheduler : Schedulers, todo : SUBSET Devices, at : Devices \cup {Null}]

ASSUME NullAssumption ==
    /\ Null \notin Schedulers \cup Devices \cup ProviderIds
    /\ Null \notin Device /\ Null \notin Handler
    /\ \A slots \in SUBSET Slots : slots # Null

VARIABLES
    providers,   \* [kind, unit] of each id, or Null if it is not the owner's
    schedulers,  \* the slots of each scheduler, Null when there is no row
    used,        \* ids of schedulers given so far
    devices,     \* the devices table, Null when there is no row
    deletion,    \* what the handler of each deletion holds, or Null
    listed,      \* history: devices that deletions of a scheduler listed and
                 \* that no other request changed since
    changed,     \* history: devices that others changed during each deletion
    stranded,    \* history: devices detached by a deletion that then failed
    others       \* history: number of requests other than deletions

vars == <<providers, schedulers, used, devices, deletion, listed, changed,
          stranded, others>>

Init ==
    /\ providers \in ProviderTables
    /\ schedulers \in [Schedulers -> {Null, {}}]
    /\ used = {s \in Schedulers : schedulers[s] # Null}
    /\ \E of \in [Devices -> Schedulers \cup {Null}] :
        /\ \A d \in Devices : of[d] # Null => schedulers[of[d]] # Null
        /\ devices = [d \in Devices |->
                        [mode |-> IF of[d] = Null THEN "MANUAL" ELSE "SCHEDULE",
                         scheduler |-> of[d], manual_state |-> TRUE]]
    /\ deletion = [w \in Workers |-> Null]
    /\ listed = [s \in Schedulers |-> {}]
    /\ changed = [w \in Workers |-> {}]
    /\ stranded = {} /\ others = 0

Live(s) == schedulers[s] # Null

-----------------------------------------------------------------------------
(* Slots.                                                                  *)

(***************************************************************************)
(* _validate_slot_providers: only slots that use a threshold and name a    *)
(* provider are checked, in the order of the ids; the first one that fails *)
(* gives the answer.                                                       *)
(***************************************************************************)
Named(slots) ==
    {slot.provider : slot \in {s \in slots : s.threshold /\ s.provider # Null}}

Verdict(slots) ==
    LET refused == {p \in Named(slots) :
                        providers[p] = Null \/ providers[p].kind # "power"}
    IN  IF refused = {} THEN "ok"
        ELSE IF providers[Min(refused)] = Null THEN "404" ELSE "422"

(* list_power_for_user; the order of its list matters nowhere here.         *)
PowerProviders ==
    {p \in ProviderIds : providers[p] # Null /\ providers[p].kind = "power"}

(* A bug: providers without a unit are offered too.                         *)
OfferedAll == SetToSeq(PowerProviders)

(***************************************************************************)
(* get_power_threshold_units: the providers that have a unit, and each     *)
(* unit once, in the order it is first seen.                               *)
(***************************************************************************)
Offered == SetToSeq({p \in PowerProviders : providers[p].unit # Null})

WithUnit(units, p) ==
    LET unit == providers[p].unit
    IN  IF Contains(units, unit) THEN units ELSE Append(units, unit)

OfferedUnits == FoldLeft(WithUnit, << >>, Offered)

Store(s, slots) ==
    /\ Verdict(slots) = "ok"
    /\ schedulers' = [schedulers EXCEPT ![s] = slots]
    /\ used' = used \cup {s}
    /\ UNCHANGED <<devices, listed, changed, stranded>>

(***************************************************************************)
(* An id is given once.                                                    *)
(***************************************************************************)
CreateScheduler(s, slots) == s \notin used /\ Store(s, slots)

UpdateScheduler(s, slots) == Live(s) /\ Store(s, slots)

-----------------------------------------------------------------------------
(* Devices.  A request that changes a device takes it off the lists.       *)

Change(d, row) ==
    /\ devices' = [devices EXCEPT ![d] = row]
    /\ listed' = [s \in Schedulers |-> listed[s] \ {d}]
    /\ changed' = [w \in Workers |->
                      IF deletion[w] = Null THEN {} ELSE changed[w] \cup {d}]
    /\ stranded' = stranded \ {d}
    /\ UNCHANGED <<schedulers, used>>

CreateDevice(d, s) ==
    /\ devices[d] = Null
    /\ s # Null => Live(s)
    /\ Change(d, [mode |-> IF s = Null THEN "MANUAL" ELSE "SCHEDULE",
                  scheduler |-> s, manual_state |-> FALSE])

AttachDevice(d, s) ==
    /\ devices[d] # Null /\ Live(s)
    /\ Change(d, [devices[d] EXCEPT !.mode = "SCHEDULE", !.scheduler = s])

DetachDevice(d) ==
    /\ devices[d] # Null
    /\ Change(d, [devices[d] EXCEPT !.mode = "MANUAL", !.scheduler = Null])

DeleteDevice(d) == devices[d] # Null /\ Change(d, Null)

SetManualState(d, state) ==
    /\ devices[d] # Null
    /\ Change(d, [devices[d] EXCEPT !.manual_state = state])

Others ==
    /\ others < MaxOthers
    /\ others' = others + 1
    /\ \/ \E s \in Schedulers, slots \in SUBSET Slots :
            CreateScheduler(s, slots) \/ UpdateScheduler(s, slots)
       \/ \E d \in Devices, s \in Schedulers \cup {Null} : CreateDevice(d, s)
       \/ \E d \in Devices, s \in Schedulers : AttachDevice(d, s)
       \/ \E d \in Devices : DetachDevice(d) \/ DeleteDevice(d)
       \/ \E d \in Devices, state \in BOOLEAN : SetManualState(d, state)
    /\ UNCHANGED <<providers, deletion>>

-----------------------------------------------------------------------------
(* The deletion of a scheduler.                                            *)

On(s) == {d \in Devices : devices[d] # Null /\ devices[d].scheduler = s}

ListDevices(w, s) ==
    /\ deletion[w] = Null
    /\ deletion' = [deletion EXCEPT
                      ![w] = [scheduler |-> s, todo |-> On(s), at |-> Null]]
    /\ listed' = [listed EXCEPT ![s] = @ \cup On(s)]
    /\ UNCHANGED <<schedulers, devices, changed, stranded>>

(* update_device of a device that is there yet; if not, the call fails.     *)
SwitchToManual(w) ==
    /\ deletion[w].at = Null
    /\ \E d \in deletion[w].todo :
        /\ devices[d] # Null
        /\ devices' = [devices EXCEPT ![d].mode = "MANUAL", ![d].scheduler = Null]
        /\ deletion' = [deletion EXCEPT ![w].at = d]
    /\ UNCHANGED <<schedulers, listed, changed, stranded>>

(* A bug: the command carries no state.                                     *)
TurnedNone(row) == [row EXCEPT !.manual_state = Null]

TurnedOff(row) == [row EXCEPT !.manual_state = FALSE]

(***************************************************************************)
(* set_manual_state: the answer of the agent is ignored.                   *)
(***************************************************************************)
SwitchOff(w) ==
    LET d == deletion[w].at
    IN  /\ d # Null
        /\ devices[d] # Null
        /\ devices' = [devices EXCEPT ![d] = TurnedOff(@)]
        /\ deletion' = [deletion EXCEPT ![w].at = Null, ![w].todo = @ \ {d}]
        /\ stranded' = stranded \ {d}
        /\ UNCHANGED <<schedulers, listed, changed>>

(* A bug: the row goes first.                                               *)
RowFirst(w) == TRUE

AllSwitched(w) == deletion[w].todo = {}

(***************************************************************************)
(* A device attached meanwhile makes the database refuse, or leaves it     *)
(* without a scheduler.                                                    *)
(***************************************************************************)
DeleteScheduler(w) ==
    LET s == deletion[w].scheduler
    IN  /\ AllSwitched(w)
        /\ Live(s)
        /\ schedulers' = [schedulers EXCEPT ![s] = Null]
        /\ devices' = [d \in Devices |->
                         IF d \in On(s) THEN [devices[d] EXCEPT !.scheduler = Null]
                         ELSE devices[d]]
        /\ deletion' = [deletion EXCEPT ![w] = Null]
        /\ changed' = [changed EXCEPT ![w] = {}]
        /\ UNCHANGED <<listed, stranded>>

(***************************************************************************)
(* A call that raises, a scheduler that is gone (404), or the end of the   *)
(* process: what was committed stays.                                      *)
(***************************************************************************)
Fail(w) ==
    /\ deletion' = [deletion EXCEPT ![w] = Null]
    /\ changed' = [changed EXCEPT ![w] = {}]
    /\ stranded' = stranded \cup ({deletion[w].at} \ {Null})
    /\ UNCHANGED <<schedulers, devices, listed>>

Continue(w) ==
    /\ deletion[w] # Null
    /\ SwitchToManual(w) \/ SwitchOff(w) \/ DeleteScheduler(w) \/ Fail(w)

Deletion(w) ==
    /\ (\E s \in Schedulers : ListDevices(w, s)) \/ Continue(w)
    /\ UNCHANGED <<providers, used, others>>

Next == Others \/ \E w \in Workers : Deletion(w)

Spec == Init /\ [][Next]_vars
-----------------------------------------------------------------------------
(* Properties.                                                             *)

TypeOK ==
    /\ providers \in ProviderTables
    /\ schedulers \in [Schedulers -> {Null} \cup SUBSET Slots]
    /\ \A s \in Schedulers : Live(s) => s \in used
    /\ devices \in [Devices -> Device \cup {Null}]
    /\ deletion \in [Workers -> {Null} \cup Handler]
    /\ listed \in [Schedulers -> SUBSET Devices]
    /\ changed \in [Workers -> SUBSET Devices]
    /\ stranded \subseteq Devices /\ others \in 0..MaxOthers

Released(d) ==
    \/ devices[d] = Null
    \/ devices[d] = [mode |-> "MANUAL", scheduler |-> Null, manual_state |-> FALSE]

(***************************************************************************)
(* When a deletion removes a scheduler's row, every device still on it,    *)
(* and every device that this or an earlier deletion of it listed, is in   *)
(* manual mode, without a scheduler and commanded off, whatever failed     *)
(* before and however deletions overlap, unless another request changed it *)
(* meanwhile (disable_scheduler_devices before delete_scheduler).  Two     *)
(* kinds are left out, and no more: a device that another deletion is just *)
(* switching, and one whose deletion failed between its two calls, which a *)
(* repeated deletion does not find again.                                  *)
(***************************************************************************)
Removes(w) ==
    /\ deletion[w] # Null /\ deletion'[w] = Null
    /\ schedulers[deletion[w].scheduler] # schedulers'[deletion[w].scheduler]

DeletedOff ==
    [][\A w \in Workers : Removes(w) =>
          LET s == deletion[w].scheduler
          IN  \A d \in (listed[s] \cup On(s)) \ changed[w] :
                \/ Released(d) \/ d \in stranded
                \/ \E v \in Workers : deletion[v] # Null /\ deletion[v].at = d]_vars

(***************************************************************************)
(* What get_power_threshold_units offers, _validate_slot_providers takes,  *)
(* whatever the provider table holds, and the units it names are those of  *)
(* the providers it offers, once each.                                     *)
(***************************************************************************)
OffersAccepted ==
    /\ Verdict({[threshold |-> TRUE, provider |-> p] : p \in ToSet(Offered)}) = "ok"
    /\ ToSet(OfferedUnits) = {providers[p].unit : p \in ToSet(Offered)}
    /\ Null \notin ToSet(OfferedUnits) /\ IsInjective(OfferedUnits)
===========================================================================
