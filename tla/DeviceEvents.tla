---------------------------- MODULE DeviceEvents ----------------------------
(***************************************************************************)
(* The device-event routes of app/api/routes/device_events.py and the      *)
(* database rows they share.                                               *)
(*                                                                         *)
(* The handlers are plain functions, so the web framework runs them in a   *)
(* pool of threads: each worker below holds one request and its database   *)
(* session.  A request reads the device's row (LoadFromX), computes the new *)
(* snapshot of the device and the new copy of the microcontroller's        *)
(* devices_config (Prepare), and writes both together with the event when  *)
(* the session commits (Commit).  Other requests may commit between any    *)
(* two of those steps.                                                     *)
(*                                                                         *)
(* The event log doubles as the history the properties speak about: its    *)
(* records carry, besides the stored columns, what the transaction had     *)
(* seen when it read its rows.                                             *)
(***************************************************************************)
EXTENDS Integers, Sequences, FiniteSets

CONSTANTS
    Devices,         \* device ids (a device's UUID stands for its id)
    Mcs,             \* microcontrollers
    Home,            \* the microcontroller of each device, or Null
    Numbers,         \* device numbers, which are also pin numbers
    Workers,         \* threads of the request pool
    AgentPayloads,   \* bodies the agent may post
    UserPayloads,    \* bodies the owner of a device may post
    InitialRows,     \* the rows of the devices table at the start
    InitialConfig,   \* devices_config of each microcontroller at the start
    Null,            \* JSON null, SQL NULL, Python's None
    MaxLog,          \* bound: committed events and commands
    MaxTime          \* bound: readings of the clock

State == BOOLEAN \cup {Null}
Time == 0..MaxTime
Stamp == Time \cup {Null}

Texts == {"ON", "OFF", "other", Null}   \* device_state, after strip and upper

(***************************************************************************)
(* A request body.  "by" is the way it addresses the device: its id, its   *)
(* UUID (the second route), its number, or id and number together.         *)
(***************************************************************************)
Payload ==
    [by     : {"id", "uuid", "number", "both"},
     device : Devices \cup {Null},
     number : Numbers \cup {Null},
     type   : {"STATE", "OTHER"},
     is_on  : State,
     pin    : State,
     text   : Texts,
     created_at : Stamp]

Row == [number : Numbers, manual_state : State, changed_at : Stamp]

(***************************************************************************)
(* One object of devices_config: the device it belongs to (Null before the *)
(* device is registered), its pin and its is_on.  The fields copied from   *)
(* the device (mode, rated_power, threshold_value, uuid) go with the id.   *)
(* A missing or malformed list is treated as an empty one.                 *)
(***************************************************************************)
Entry == [id : Devices \cup {Null}, pin : Numbers, is_on : BOOLEAN]

(***************************************************************************)
(* Objects that speak of the same device or of the same pin say the same.  *)
(* The list may repeat an object: both objects that match a device, one by *)
(* its id and one by its pin, are rewritten and stay in the list.          *)
(***************************************************************************)
Coherent(L) ==
    \A i, j \in DOMAIN L :
        (L[i].id = L[j].id /\ L[i].id # Null) \/ L[i].pin = L[j].pin
            => L[i] = L[j]

ASSUME NullAssumption ==
    /\ Null \notin Devices
    /\ Null \notin Mcs
    /\ Null \notin Numbers
    /\ Null \notin BOOLEAN
    /\ Null \notin Time
ASSUME BoundsAssumption == MaxLog \in Nat /\ MaxTime \in Nat
ASSUME HomeAssumption == Home \in [Devices -> Mcs \cup {Null}]
ASSUME PayloadAssumption ==
    /\ AgentPayloads \subseteq Payload
    /\ UserPayloads \subseteq {p \in Payload : p.by = "id" /\ p.is_on = Null}
    /\ \A p \in AgentPayloads : p.by \in {"number", "both"} => p.number # Null
ASSUME RowsAssumption == InitialRows \in [Devices -> Row \cup {Null}]
ASSUME ConfigAssumption ==
    /\ InitialConfig \in [Mcs -> Seq(Entry)]
    /\ \A m \in Mcs : Coherent(InitialConfig[m])

VARIABLES
    rows,   \* the devices table: a Row, or Null when there is no such row
    conf,   \* microcontroller.config["devices_config"] of each microcontroller
    log,    \* the device_events table and the manual commands, in commit order
    req,    \* the request each worker is serving
    now     \* the clock

vars == <<rows, conf, log, req, now>>

Rejections == {404, 422}

(***************************************************************************)
(* A worker that serves nothing.  A rejection, which leaves no other       *)
(* trace, is kept as its last reply; 201 and 500 are not.                  *)
(***************************************************************************)
Idle(reply) ==
    [pc |-> "idle", reply |-> reply, payload |-> Null, agent |-> FALSE,
     device |-> Null, row |-> Null, seen |-> 0, resolved |-> Null,
     stamp |-> Null, base |-> << >>, next |-> << >>, mcseen |-> 0]

Request ==
    [pc : {"idle", "loaded", "ready"}, reply : Rejections \cup {Null},
     payload : Payload \cup {Null}, agent : BOOLEAN,
     device : Devices \cup {Null}, row : Row \cup {Null}, seen : 0..MaxLog,
     resolved : State, stamp : Stamp, base : Seq(Entry),
     next : Seq(Entry), mcseen : 0..MaxLog]

(***************************************************************************)
(* resolved is the state given to the snapshot, Null when the record left  *)
(* it alone; number, seen and mcseen are history: the device's number, and *)
(* how much of the log was committed when the row and the configuration    *)
(* were read.                                                              *)
(***************************************************************************)
LogRecord ==
    [kind : {"event", "command"}, payload : Payload \cup {Null},
     device : Devices, number : Numbers, pin : State, resolved : State,
     stamp : Stamp, created_at : Time, seen : 0..MaxLog, mcseen : 0..MaxLog]

TypeOK ==
    /\ rows \in [Devices -> Row \cup {Null}]
    /\ conf \in [Mcs -> Seq(Entry)]
    /\ log \in Seq(LogRecord)
    /\ Len(log) <= MaxLog
    /\ req \in [Workers -> Request]
    /\ now \in Time

-----------------------------------------------------------------------------
(* The pure steps of a request.                                            *)

Live(d) == rows[d] # Null

(***************************************************************************)
(* _resolve_state_value: is_on, else pin_state, else the text.             *)
(***************************************************************************)
TextState(text) ==
    CASE text = "ON" -> TRUE [] text = "OFF" -> FALSE [] OTHER -> Null

ResolveStateValue(is_on, pin, text) ==
    IF is_on # Null THEN is_on
    ELSE IF pin # Null THEN pin
    ELSE TextState(text)

(***************************************************************************)
(* The pin_state column of the event: the agent's is_on fills it in.       *)
(***************************************************************************)

(* A bug: the column holds pin_state as sent, is_on is not copied there.    *)
PinAsSent(p) == p.pin

StoredPin(p) == IF p.pin = Null THEN p.is_on ELSE p.pin

(***************************************************************************)
(* What the snapshot becomes, Null when the event does not touch it.       *)
(***************************************************************************)
NewState(p) ==
    IF p.type = "STATE"
    THEN ResolveStateValue(p.is_on, StoredPin(p), p.text)
    ELSE Null

(***************************************************************************)
(* _sync_device_config_state: every object with the device's id or on its  *)
(* pin is rewritten where it stands; the device is appended when there was *)
(* none.                                                                   *)
(***************************************************************************)

(* A bug: an object on the same pin with another id survives.               *)
OfDeviceId(x, e) == x.id = e.id

(* A bug: an object of the device on another pin survives.                  *)
OfDevicePin(x, e) == x.pin = e.pin

OfDevice(x, e) == x.id = e.id \/ x.pin = e.pin

(* A bug: the new list holds only the device of the event.                  *)
SyncAlone(L, e) == <<e>>

SyncDeviceConfig(L, e) ==
    IF \E i \in DOMAIN L : OfDevice(L[i], e)
    THEN [i \in DOMAIN L |-> IF OfDevice(L[i], e) THEN e ELSE L[i]]
    ELSE Append(L, e)

(***************************************************************************)
(* The rows an address selects, over all microcontrollers.                 *)
(***************************************************************************)
Matches(p) ==
    IF p.by = "number"
    THEN {d \in Devices : Live(d) /\ rows[d].number = p.number}
    ELSE {d \in Devices : Live(d) /\ d = p.device}

Ambiguous(p) ==
    p.by = "number" /\ \E c, d \in Matches(p) : c # d

Mismatch(p) ==
    p.by = "both" /\ \E d \in Matches(p) : rows[d].number # p.number

NumberWrong(p) == Ambiguous(p) \/ Mismatch(p)
-----------------------------------------------------------------------------
Init ==
    /\ rows = InitialRows
    /\ conf = InitialConfig
    /\ log = << >>
    /\ req = [w \in Workers |-> Idle(Null)]
    /\ now = 0

Free(w) == req[w].pc = "idle"

Loaded(p, agent, d) ==
    [Idle(Null) EXCEPT !.pc = "loaded", !.payload = p, !.agent = agent,
                       !.device = d, !.row = rows[d], !.seen = Len(log)]

(***************************************************************************)
(* create_device_event_from_agent and its UUID variant: find the device,   *)
(* or answer 404 or 422.                                                   *)
(***************************************************************************)
LoadFromAgent(w, p) ==
    /\ Free(w)
    /\ ~NumberWrong(p)
    /\ \E d \in Matches(p) : req' = [req EXCEPT ![w] = Loaded(p, TRUE, d)]
    /\ UNCHANGED <<rows, conf, log, now>>

RejectFromAgent(w, p) ==
    /\ Free(w)
    /\ \/ /\ NumberWrong(p)
          /\ req' = [req EXCEPT ![w] = Idle(422)]
       \/ /\ Matches(p) = {}
          /\ req' = [req EXCEPT ![w] = Idle(404)]
    /\ UNCHANGED <<rows, conf, log, now>>

(***************************************************************************)
(* create_device_event: the owner's event.  Another user's device answers  *)
(* 404 as a missing one does.                                              *)
(***************************************************************************)
LoadFromUser(w, p) ==
    /\ Free(w)
    /\ \/ \E d \in Matches(p) : req' = [req EXCEPT ![w] = Loaded(p, FALSE, d)]
       \/ /\ Matches(p) = {}
          /\ req' = [req EXCEPT ![w] = Idle(404)]
    /\ UNCHANGED <<rows, conf, log, now>>

(***************************************************************************)
(* The configuration a request that sets the state of its device reads and *)
(* writes: none for a device without a microcontroller.                    *)
(***************************************************************************)
Base(d) == IF Home[d] = Null THEN << >> ELSE conf[Home[d]]

Synced(d, number, on) ==
    IF Home[d] = Null THEN << >>
    ELSE SyncDeviceConfig(Base(d), [id |-> d, pin |-> number, is_on |-> on])

(***************************************************************************)
(* _create_agent_event up to the insert: set the snapshot's columns in the *)
(* session and rebuild the configuration, which is read only here.         *)
(***************************************************************************)
Prepare(w) ==
    LET r == req[w]
        s == IF r.agent THEN NewState(r.payload) ELSE Null
        t == IF r.payload.created_at = Null THEN now ELSE r.payload.created_at
    IN  /\ r.pc = "loaded"
        /\ \/ /\ s = Null
              /\ req' = [req EXCEPT ![w].pc = "ready"]
           \/ /\ s # Null
              /\ req' = [req EXCEPT ![w] =
                    [r EXCEPT !.pc = "ready", !.resolved = s, !.stamp = t,
                              !.base = Base(r.device),
                              !.next = Synced(r.device, r.row.number, s),
                              !.mcseen = Len(log)]]
        /\ UNCHANGED <<rows, conf, log, now>>

(***************************************************************************)
(* The flush of a session writes a column only when its value differs from *)
(* the value that was loaded.                                              *)
(***************************************************************************)
Flushed(current, loaded, new) == IF new = loaded THEN current ELSE new


(* A bug: last_state_change_at is forgotten.                                *)
FlushedState(r) ==
    [rows[r.device] EXCEPT
        !.manual_state = Flushed(@, r.row.manual_state, r.resolved)]

FlushedRow(r) ==
    [rows[r.device] EXCEPT
        !.manual_state = Flushed(@, r.row.manual_state, r.resolved),
        !.changed_at   = Flushed(@, r.row.changed_at, r.stamp)]


(* A bug: a missing created_at is stored as null.                           *)
EventRecordAsSent(r) ==
    [kind |-> "event", payload |-> r.payload, device |-> r.device,
     number |-> r.row.number, pin |-> StoredPin(r.payload),
     resolved |-> r.resolved, stamp |-> r.stamp,
     created_at |-> r.payload.created_at, seen |-> r.seen, mcseen |-> r.mcseen]

EventRecord(r) ==
    [kind |-> "event", payload |-> r.payload, device |-> r.device,
     number |-> r.row.number,
     pin |-> IF r.agent THEN StoredPin(r.payload) ELSE r.payload.pin,
     resolved |-> r.resolved, stamp |-> r.stamp,
     created_at |-> IF r.payload.created_at = Null THEN now
                    ELSE r.payload.created_at,
     seen |-> r.seen, mcseen |-> r.mcseen]

(***************************************************************************)
(* The insert of the event and the commit: the snapshot and the            *)
(* configuration are written in the same transaction, answered with 201.   *)
(***************************************************************************)

(* A bug: the insert of the event fails outside the transaction.            *)
CommitNoEvent(w) ==
    LET r == req[w]
        d == r.device
        m == Home[d]
    IN  /\ r.pc = "ready"
        /\ Live(d)
        /\ rows' = IF r.resolved = Null THEN rows
                   ELSE [rows EXCEPT ![d] = FlushedRow(r)]
        /\ conf' = IF r.resolved = Null \/ m = Null THEN conf
                   ELSE [conf EXCEPT ![m] = Flushed(@, r.base, r.next)]
        /\ req' = [req EXCEPT ![w] = Idle(Null)]
        /\ UNCHANGED <<log, now>>

Commit(w) ==
    LET r == req[w]
        d == r.device
        m == Home[d]
    IN  /\ r.pc = "ready"
        /\ Live(d)
        /\ Len(log) < MaxLog
        /\ log' = Append(log, EventRecord(r))
        /\ rows' = IF r.resolved = Null THEN rows
                   ELSE [rows EXCEPT ![d] = FlushedRow(r)]
        /\ conf' = IF r.resolved = Null \/ m = Null THEN conf
                   ELSE [conf EXCEPT ![m] = Flushed(@, r.base, r.next)]
        /\ req' = [req EXCEPT ![w] = Idle(Null)]
        /\ UNCHANGED now

(***************************************************************************)
(* The device went away, the database refused, or the process died: the    *)
(* session is rolled back (the caller sees a 500 or nothing).              *)
(***************************************************************************)
Abort(w) ==
    /\ ~Free(w)
    /\ req' = [req EXCEPT ![w] = Idle(Null)]
    /\ UNCHANGED <<rows, conf, log, now>>

-----------------------------------------------------------------------------
(* The device routes of app/api/routes/devices.py, each one transaction of *)
(* the device service.                                                     *)

(***************************************************************************)
(* set_device_manual_state.  The command is logged for the properties.     *)
(***************************************************************************)
CommandRecord(d, s) ==
    [kind |-> "command", payload |-> Null, device |-> d,
     number |-> rows[d].number, pin |-> Null, resolved |-> s, stamp |-> Null,
     created_at |-> now, seen |-> Len(log), mcseen |-> Len(log)]

SetManualState(d, s) ==
    /\ Live(d)
    /\ Len(log) < MaxLog
    /\ rows' = [rows EXCEPT ![d].manual_state = s]
    /\ log' = Append(log, CommandRecord(d, s))
    /\ UNCHANGED <<conf, req, now>>

(***************************************************************************)
(* update_device: the device moves to another number.                      *)
(***************************************************************************)
UpdateDevice(d, n) ==
    /\ Live(d)
    /\ n # rows[d].number
    /\ rows' = [rows EXCEPT ![d].number = n]
    /\ UNCHANGED <<conf, log, req, now>>

DeleteDevice(d) ==
    /\ Live(d)
    /\ rows' = [rows EXCEPT ![d] = Null]
    /\ UNCHANGED <<conf, log, req, now>>

Tick ==
    /\ now < MaxTime
    /\ now' = now + 1
    /\ UNCHANGED <<rows, conf, log, req>>

Requests ==
    \E w \in Workers :
        \/ \E p \in AgentPayloads : LoadFromAgent(w, p) \/ RejectFromAgent(w, p)
        \/ \E p \in UserPayloads : LoadFromUser(w, p)
        \/ Prepare(w)
        \/ Commit(w)
        \/ Abort(w)

DeviceRoutes ==
    \E d \in Devices :
        \/ \E s \in BOOLEAN : SetManualState(d, s)
        \/ \E n \in Numbers : UpdateDevice(d, n)
        \/ DeleteDevice(d)

Next == Requests \/ DeviceRoutes \/ Tick

Spec == Init /\ [][Next]_vars
-----------------------------------------------------------------------------
(* Properties.                                                             *)

Index == 1..Len(log)

(***************************************************************************)
(* The records that gave device d its state, in the order they committed.  *)
(***************************************************************************)
Writers(d) == {i \in Index : log[i].device = d /\ log[i].resolved # Null}

IsLast(i, S) == i \in S /\ \A j \in S : j <= i

(***************************************************************************)
(* Record i was written by a transaction that had seen every earlier       *)
(* record that set the state of its device.                                *)
(***************************************************************************)
Serial(i) == \A j \in Writers(log[i].device) : j < i => j <= log[i].seen

(***************************************************************************)
(* No devices_config, and none under construction in a session, ever gives *)
(* two different answers for one device or for one pin: whatever           *)
(* transactions overwrote one another, and whatever devices were renumbered *)
(* or deleted, the objects _sync_device_config_state leaves for a device   *)
(* or a pin are equal, however many there are.                             *)
(***************************************************************************)
ConfigCoherent ==
    /\ \A m \in Mcs : Coherent(conf[m])
    /\ \A w \in Workers : Coherent(req[w].next)

(***************************************************************************)
(* The row and the log agree on the last thing that happened: when the     *)
(* last transaction that set the state of a device had seen the one before *)
(* it, manual_state and last_state_change_at are the two values of that    *)
(* one transaction, never one column of each (_create_agent_event assigns  *)
(* both, the session flushes only what differs from what it loaded).       *)
(***************************************************************************)
RowIntact ==
    \A d \in Devices : Live(d) =>
        \A i \in Writers(d) :
            IsLast(i, Writers(d)) /\ Serial(i) =>
                /\ rows[d].manual_state = log[i].resolved
                /\ log[i].kind = "event" => rows[d].changed_at = log[i].stamp

(***************************************************************************)
(* The transactions that rebuilt the configuration of microcontroller m.   *)
(***************************************************************************)
Syncs(m) ==
    {i \in Index : /\ log[i].kind = "event"
                   /\ log[i].resolved # Null
                   /\ Home[log[i].device] = m}

(***************************************************************************)
(* When the transactions on one microcontroller did not overlap between    *)
(* reading and writing the configuration, it holds the last state of every *)
(* device that reported one, on the pin the device had then, unless a      *)
(* later event of another device took the pin (_sync_device_config_state   *)
(* rewrites the whole list from its copy).                                 *)
(***************************************************************************)
SerialConfigComplete ==
    \A m \in Mcs :
        (\A i, j \in Syncs(m) : j < i => j <= log[i].mcseen) =>
            \A i \in Syncs(m) :
                \/ \E j \in Syncs(m) :
                      /\ i < j
                      /\ \/ log[j].device = log[i].device
                         \/ log[j].number = log[i].number
                \/ \E k \in DOMAIN conf[m] :
                      conf[m][k] = [id |-> log[i].device, pin |-> log[i].number,
                                    is_on |-> log[i].resolved]

(***************************************************************************)
(* Under the same condition nothing older is left of a device that         *)
(* reported a state: every object with its id says what its last report    *)
(* said, on the pin the device had when that report was read.  So a report *)
(* that crosses a renumbering may still put the device on its old pin, and *)
(* the next one takes it off (_sync_device_config_state matches by id too). *)
(***************************************************************************)
OldPinsGone ==
    \A m \in Mcs :
        (\A i, j \in Syncs(m) : j < i => j <= log[i].mcseen) =>
            \A i \in Syncs(m) :
                \/ \E j \in Syncs(m) : i < j /\ log[j].device = log[i].device
                \/ \A k \in DOMAIN conf[m] :
                      conf[m][k].id = log[i].device =>
                          /\ conf[m][k].pin = log[i].number
                          /\ conf[m][k].is_on = log[i].resolved

(***************************************************************************)
(* The two resolvers agree: what an agent's STATE event did to the         *)
(* snapshot (_resolve_state_value, at the write) is what the on-time       *)
(* report will read from its stored columns (_resolve_state_from_event, in *)
(* provider_measurements.py), unless the agent sent is_on and pin_state    *)
(* with opposite values, as for a relay that is active low.                *)
(***************************************************************************)
ResolveStateFromEvent(pin, text) == IF pin # Null THEN pin ELSE TextState(text)

ResolversAgree ==
    \A i \in Index :
        LET e == log[i]
            p == e.payload
        IN  (e.kind = "event" /\ p \in AgentPayloads /\ p.type = "STATE"
                /\ (p.is_on = Null \/ p.pin = Null \/ p.is_on = p.pin)
                /\ e.resolved # Null)
            => ResolveStateFromEvent(e.pin, p.text) = e.resolved

(***************************************************************************)
(* The state of a device, and the configuration its agent reads, change    *)
(* only together with a record in the log that says so, appended in the    *)
(* same step: the columns of the row are the record's own or the ones that *)
(* were there; and the configuration, unless another transaction wrote it  *)
(* since it was read, keeps its objects in their order, those that are     *)
(* neither the device's nor on its pin as they were (_create_agent_event).  *)
(***************************************************************************)
RowExplained(d, e) ==
    /\ e.device = d /\ e.resolved # Null
    /\ rows'[d].manual_state \in {e.resolved, rows[d].manual_state}
    /\ rows'[d].changed_at \in {e.stamp, rows[d].changed_at}

ConfigExplained(m, e) ==
    /\ e.kind = "event" /\ e.resolved # Null /\ Home[e.device] = m
    /\ (\A i \in Syncs(m) : i <= e.mcseen) =>
          \A k \in DOMAIN conf[m] :
              /\ k \in DOMAIN conf'[m]
              /\ (conf[m][k].id # e.device /\ conf[m][k].pin # e.number)
                    => conf'[m][k] = conf[m][k]

SnapshotExplained ==
    [][LET e == log'[Len(log')]
       IN  /\ \A d \in Devices :
                 rows[d] # Null /\ rows'[d] # Null
                 /\ (\/ rows'[d].manual_state # rows[d].manual_state
                     \/ rows'[d].changed_at # rows[d].changed_at) =>
                     Len(log') = Len(log) + 1 /\ RowExplained(d, e)
           /\ \A m \in Mcs :
                 conf'[m] # conf[m] =>
                     Len(log') = Len(log) + 1 /\ ConfigExplained(m, e)
      ]_vars

(***************************************************************************)
(* What a comment of the on-time report says of the log: STATE events are  *)
(* transitions (provider_measurements.py), so two consecutive STATE events *)
(* of a device that resolve to a state resolve to opposite ones.           *)
(***************************************************************************)
StateEventsAreTransitions ==
    \A i, j \in Index :
        (/\ i < j
         /\ log[i].kind = "event" /\ log[j].kind = "event"
         /\ log[i].device = log[j].device
         /\ log[i].resolved # Null /\ log[j].resolved # Null
         /\ \A k \in (i+1)..(j-1) : log[k].device # log[i].device)
        => log[i].resolved # log[j].resolved
=============================================================================
