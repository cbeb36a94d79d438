---------------------------- MODULE AgentConfig ----------------------------
(***************************************************************************)
(* The settings of a microcontroller: its row, the configuration column of *)
(* the row and the files of its agent.  The PATCH routes of                *)
(* app/api/routes/microcontrollers.py and                                  *)
(* app/api/routes/admin/microcontrollers.py, the administrator's routes to *)
(* the agent's files, and the event routes, which write the same column    *)
(* (app/api/routes/device_events.py).                                      *)
(*                                                                         *)
(* A PATCH commits the row and then reads, changes and writes back the     *)
(* agent's files over the message bus.  Each call there may be lost or     *)
(* time out, and one that timed out may still be executed later.           *)
(***************************************************************************)
EXTENDS Naturals, FiniteSets, SequencesExt

CONSTANTS
    MaxRequests,  \* bound: requests, numbered as they begin
    Maxes,     \* values of max_devices
    Sensors,   \* lists of sensors
    Initial,   \* settings that the row and the files may start with, and the files' uuid
    Patches,   \* bodies of PATCH: [by, max, sensors], Null for an absent field
    Edits,     \* what an administrator may PUT: [max, sensors, uuid], likewise
    Null

Requests == 1..MaxRequests
Settings == [max : Maxes, sensors : Sensors]

(* The identity in the files: that of the row, or another, or none.         *)
Uuids == {"own", "other"}

ASSUME RequestsBound == MaxRequests \in Nat
ASSUME SensorsAssumption == \A s \in Sensors : IsInjective(s)
ASSUME PatchesAssumption ==
    /\ Patches \subseteq [by : {"user", "admin"}, max : Maxes \cup {Null},
                          sensors : Seq(STRING) \cup {Null}]
    /\ \A p \in Patches :
          p.sensors # Null /\ IsInjective(p.sensors) => p.sensors \in Sensors
ASSUME EditsAssumption ==
    Edits \subseteq [max : Maxes \cup {Null}, sensors : Sensors \cup {Null}, uuid : Uuids]
ASSUME NullAssumption ==
    Null \notin Requests /\ Null \notin Maxes /\ Null \notin Sensors /\ Null \notin Patches
ASSUME InitialAssumption ==
    Initial \subseteq [max : Maxes, sensors : Sensors, uuid : Uuids]

SettingsOf(r) == [max |-> r.max, sensors |-> r.sensors]

VARIABLES
    exists,   \* whether the row is there
    row,      \* max, sensors and column, the config column
    files,    \* the agent's files: max, sensors, uuid and the rest
    bus,      \* commands on their way to the agent, in order
    req,      \* what each request holds
    latest,   \* history: the PATCH that committed last
    versions, \* history: the settings that the row has had
    sent,     \* history: the files that administrators have sent
    edited,   \* history: the administrator's edit that the agent executed last
    events,   \* history: the event that committed last
    crossed,  \* history: requests that write the files and overlapped another
    torn      \* history: whether two transactions of the row overlapped

history == <<latest, versions, sent, edited, events, crossed, torn>>
vars == <<exists, row, files, bus, req, history>>

Idle == [pc |-> "idle", patch |-> Null, copy |-> Null]

Init ==
    /\ exists = TRUE
    /\ \E s \in Initial :
        /\ row = [max |-> s.max, sensors |-> s.sensors,
                  column |-> [max |-> s.max, sensors |-> s.sensors, devices |-> Null]]
        /\ files = [max |-> s.max, sensors |-> s.sensors, uuid |-> s.uuid, rest |-> Null]
        /\ versions = {SettingsOf(s)}
    /\ bus = << >>
    /\ req = [r \in Requests |-> Idle]
    /\ latest = Null /\ edited = Null /\ events = Null
    /\ sent = {} /\ crossed = {} /\ torn = FALSE

In(r, pcs) == req[r].pc \in pcs

Begins(r) == In(r, {"idle"}) /\ \A q \in 1..(r - 1) : ~In(q, {"idle"})

InTransaction == {r \in Requests : In(r, {"patching", "posting"})}
WithAgent == {r \in Requests : In(r, {"reading", "read", "writing"})}

Send(r, command, body) ==
    bus' = Append(bus, [req |-> r, command |-> command, body |-> body])

(* A request that will write the files crosses those that have not ended.   *)
MeetAgent(r) ==
    crossed' = IF WithAgent = {} THEN crossed ELSE crossed \cup WithAgent \cup {r}

-----------------------------------------------------------------------------
(* PATCH.  Its handlers, and those of the agent's files, are coroutines of *)
(* one event loop, and PATCH does not await before its commit: nothing     *)
(* else begins there.  The event routes run in threads and may.            *)

LoopFree == \A q \in Requests : ~In(q, {"patching"})

(***************************************************************************)
(* Lists with a sensor twice are refused (422), as is a row that is not    *)
(* there (404).                                                            *)
(***************************************************************************)
LoadRow(r, p) ==
    /\ Begins(r) /\ exists /\ LoopFree
    /\ p.sensors # Null => IsInjective(p.sensors)
    /\ req' = [req EXCEPT ![r] = [pc |-> "patching", patch |-> p, copy |-> row]]
    /\ torn' = (torn \/ InTransaction # {})
    /\ UNCHANGED <<exists, row, files, bus, latest, versions, sent, edited, events, crossed>>

(* A bug: an absent max_devices is taken for a value.                       *)
SettledByNull(r, p) ==
    [max |-> IF p.by = "admin" THEN p.max ELSE r.max,
     sensors |-> IF p.sensors # Null THEN p.sensors ELSE r.sensors]

(***************************************************************************)
(* Only an administrator changes max_devices; both fields go to the config *)
(* column too, whose devices stay.                                         *)
(***************************************************************************)
Settled(r, p) ==
    [max |-> IF p.by = "admin" /\ p.max # Null THEN p.max ELSE r.max,
     sensors |-> IF p.sensors # Null THEN p.sensors ELSE r.sensors]

(* A bug: the column is built from nothing.                                 *)
UpdatedAnew(r, p) ==
    LET s == Settled(r, p)
    IN  [max |-> s.max, sensors |-> s.sensors,
         column |-> [max |-> s.max, sensors |-> s.sensors, devices |-> Null]]

Updated(r, p) ==
    LET s == Settled(r, p)
    IN  [max |-> s.max, sensors |-> s.sensors,
         column |-> [r.column EXCEPT !.max = s.max, !.sensors = s.sensors]]

(* The session writes the columns that differ from what it loaded.          *)
Flushed(old, new) ==
    [c \in DOMAIN row |-> IF new[c] # old[c] THEN new[c] ELSE row[c]]

(* A bug: an empty list of sensors counts as absent.                        *)
SensorsOrMax(p) == p.sensors \notin {Null, <<>>} \/ p.max # Null

SettingsGiven(p) == p.sensors # Null \/ p.max # Null

(* What the history counts as naming settings.                              *)
Names(p) == \E f \in {"max", "sensors"} : p[f] # Null

CommitRow(r) ==
    LET p == req[r].patch
    IN  /\ In(r, {"patching"}) /\ exists
        /\ row' = Flushed(req[r].copy, Updated(req[r].copy, p))
        /\ \/ /\ SettingsGiven(p)
              /\ Send(r, "READ", Null) /\ MeetAgent(r)
              /\ req' = [req EXCEPT ![r].pc = "reading", ![r].copy = row']
           \/ /\ ~SettingsGiven(p)
              /\ req' = [req EXCEPT ![r].pc = "done", ![r].copy = Null]
              /\ UNCHANGED <<bus, crossed>>
        /\ latest' = IF Names(p) THEN r ELSE latest
        /\ versions' = versions \cup {SettingsOf(row')}
        /\ UNCHANGED <<exists, files, sent, edited, events, torn>>

(* A bug: the files are built from the row alone.                           *)
MergedAnew(read, copy) ==
    [max |-> copy.max, sensors |-> copy.sensors, uuid |-> "own", rest |-> Null]

(* A bug: only one of the two fields is brought over.                       *)
MergedSensors(read, copy) == [read EXCEPT !.sensors = copy.sensors, !.uuid = "own"]

(***************************************************************************)
(* sync_agent_config_from_microcontroller: the files as read, with the     *)
(* settings of the row as this request committed it, and with its identity *)
(* (test_sync_agent_config_from_microcontroller_updates_...).              *)
(***************************************************************************)
Merged(read, copy) ==
    [read EXCEPT !.max = copy.max, !.sensors = copy.sensors, !.uuid = "own"]

SyncFiles(r) ==
    /\ In(r, {"read"})
    /\ Send(r, "WRITE", Merged(req[r].copy.read, req[r].copy.row))
    /\ req' = [req EXCEPT ![r].pc = "writing", ![r].copy = Null]
    /\ UNCHANGED <<exists, row, files, history>>

-----------------------------------------------------------------------------
(* The administrator's routes to the files.  He may read them; what he     *)
(* sends is his own, whatever he has read and whenever, and replaces them. *)

GetFiles(r) ==
    /\ Begins(r) /\ exists /\ LoopFree
    /\ req' = [req EXCEPT ![r].pc = "getting"]
    /\ Send(r, "READ", Null)
    /\ UNCHANGED <<exists, row, files, history>>

(* The rest of the files names the request it came with.                    *)
EditOf(r, e) == [max |-> e.max, sensors |-> e.sensors, uuid |-> e.uuid, rest |-> r]

PutFiles(r, e) ==
    /\ Begins(r) /\ exists /\ LoopFree
    /\ Send(r, "WRITE", EditOf(r, e)) /\ MeetAgent(r)
    /\ req' = [req EXCEPT ![r].pc = "writing"]
    /\ sent' = sent \cup {EditOf(r, e)}
    /\ UNCHANGED <<exists, row, files, latest, versions, edited, events, torn>>

-----------------------------------------------------------------------------
(* The agent executes commands in order.  An answer reaches the request if *)
(* it waits for it yet.                                                    *)

Executed == Head(bus)

ExecuteRead ==
    /\ bus # << >> /\ Executed.command = "READ"
    /\ LET r == Executed.req
       IN  \/ /\ In(r, {"reading"})
              /\ req' = [req EXCEPT ![r].pc = "read",
                                    ![r].copy = [row |-> @, read |-> files]]
           \/ In(r, {"getting"}) /\ req' = [req EXCEPT ![r].pc = "done"]
           \/ ~In(r, {"reading", "getting"}) /\ UNCHANGED req
    /\ bus' = Tail(bus)
    /\ UNCHANGED <<exists, row, files, history>>

ExecuteWrite ==
    /\ bus # << >> /\ Executed.command = "WRITE"
    /\ files' = Executed.body
    /\ req' = LET r == Executed.req
              IN  IF In(r, {"writing"}) THEN [req EXCEPT ![r].pc = "done"] ELSE req
    /\ edited' = IF req[Executed.req].patch = Null THEN Executed.req ELSE edited
    /\ bus' = Tail(bus)
    /\ UNCHANGED <<exists, row, latest, versions, sent, events, crossed, torn>>

Lose ==
    /\ bus # << >>
    /\ bus' = Tail(bus)
    /\ UNCHANGED <<exists, row, files, req, history>>

(***************************************************************************)
(* agent-reboot and agent-update: the files stay, what is queued is gone.  *)
(***************************************************************************)
RestartAgent ==
    /\ exists /\ bus # << >>
    /\ bus' = << >>
    /\ UNCHANGED <<exists, row, files, req, history>>

-----------------------------------------------------------------------------
(* How requests fail.                                                      *)

Awaiting == {"getting", "reading", "writing"}

GiveUp(r) ==
    /\ req' = [req EXCEPT ![r] = [@ EXCEPT !.pc = "failed", !.copy = Null]]
    /\ UNCHANGED <<exists, row, files, bus, history>>

(* A bug: only reads time out.                                              *)
TimeoutOfReads(r) == In(r, {"getting", "reading"}) /\ GiveUp(r)

Timeout(r) == In(r, Awaiting) /\ GiveUp(r)

(* The row went away before the commit.                                     *)
NotFound(r) == In(r, {"patching", "posting"}) /\ ~exists /\ GiveUp(r)

(* The process ended.                                                       *)
Abort(r) == In(r, {"patching", "posting", "read"}) /\ GiveUp(r)

DeleteRow ==
    /\ exists
    /\ exists' = FALSE
    /\ UNCHANGED <<row, files, bus, req, history>>

-----------------------------------------------------------------------------
(* An event rebuilds the devices of the config column from the row it has  *)
(* loaded and writes the whole column (_create_agent_event); here as far   *)
(* as the column goes, DeviceEvents has the rest.                          *)

LoadColumn(r) ==
    /\ Begins(r) /\ exists
    /\ req' = [req EXCEPT ![r] = [pc |-> "posting", patch |-> Null, copy |-> row]]
    /\ torn' = (torn \/ InTransaction # {})
    /\ UNCHANGED <<exists, row, files, bus, latest, versions, sent, edited, events, crossed>>

CommitColumn(r) ==
    /\ In(r, {"posting"}) /\ exists
    /\ row' = Flushed(req[r].copy, [req[r].copy EXCEPT !.column.devices = r])
    /\ req' = [req EXCEPT ![r].pc = "done", ![r].copy = Null]
    /\ events' = r
    /\ UNCHANGED <<exists, files, bus, latest, versions, sent, edited, crossed, torn>>

-----------------------------------------------------------------------------

Begin(r) ==
    \/ \E p \in Patches : LoadRow(r, p)
    \/ GetFiles(r)
    \/ \E e \in Edits : PutFiles(r, e)
    \/ LoadColumn(r)

Agent == ExecuteRead \/ ExecuteWrite \/ Lose \/ RestartAgent

Handle(r) ==
    CommitRow(r) \/ SyncFiles(r) \/ CommitColumn(r) \/ NotFound(r) \/ Timeout(r)

Next ==
    \/ Agent \/ DeleteRow
    \/ \E r \in Requests : Begin(r) \/ Handle(r) \/ Abort(r)

(* Handlers go on; nothing is assumed of the agent, the bus and the owner.  *)
Spec == Init /\ [][Next]_vars /\ \A r \in Requests : WF_vars(Handle(r))
-----------------------------------------------------------------------------
(* Properties.                                                             *)

RowShape == [max : Maxes, sensors : Sensors,
             column : [max : Maxes, sensors : Sensors, devices : Requests \cup {Null}]]
FilesShape == [max : Maxes \cup {Null}, sensors : Sensors \cup {Null}, uuid : Uuids,
               rest : Requests \cup {Null}]

TypeOK ==
    /\ exists \in BOOLEAN /\ row \in RowShape /\ files \in FilesShape
    /\ \A i \in DOMAIN bus :
        /\ bus[i].req \in Requests
        /\ bus[i].command = "WRITE" => bus[i].body \in FilesShape
    /\ \A r \in Requests :
        /\ In(r, {"idle", "patching", "posting", "getting", "reading", "read",
                  "writing", "done", "failed"})
        /\ req[r].patch \in Patches \cup {Null}
        /\ In(r, {"read"}) => req[r].copy.read \in FilesShape
    /\ latest \in Requests \cup {Null} /\ edited \in Requests \cup {Null}
    /\ versions \subseteq Settings /\ sent \subseteq FilesShape /\ crossed \subseteq Requests

Synced == SettingsOf(files) = SettingsOf(row) /\ files.uuid = "own"

(***************************************************************************)
(* When the last PATCH that named settings was answered and overlapped no  *)
(* other writer of the files, they hold the settings and the identity of   *)
(* the row, unless an administrator has replaced them by files of his own  *)
(* sent after that PATCH.  Earlier requests that timed out and whose       *)
(* commands are executed late, edits among them, do no harm: repeating a   *)
(* PATCH repairs a synchronisation that failed (update_microcontroller,    *)
(* admin_update_microcontroller).                                          *)
(***************************************************************************)
FilesFollowRow ==
    (latest # Null /\ latest \notin crossed /\ In(latest, {"done"})) =>
        Synced \/ (files \in sent /\ files.rest > latest)

(***************************************************************************)
(* What an administrator sent by a request that overlapped no other writer *)
(* stays in the files, outside the settings and the identity, through any  *)
(* number of PATCHes before and after that overlap each other, time out or *)
(* are executed late: none of them writes back what it read before the     *)
(* edit (sync_agent_config_from_microcontroller).                          *)
(***************************************************************************)
EditsKept == edited \notin crossed => files.rest = edited

(***************************************************************************)
(* The config column has the settings of the row and the devices of the    *)
(* last event, as long as no PATCH overlapped an event before its commit   *)
(* and no two events did: a PATCH that is waiting for the agent does no    *)
(* harm.                                                                   *)
(***************************************************************************)
ColumnAgrees ==
    ~torn => row.column = [max |-> row.max, sensors |-> row.sensors, devices |-> events]

(***************************************************************************)
(* The agent's settings are one version of the row's, or as a whole what   *)
(* an administrator sent, whatever overlaps, is lost or comes late: a      *)
(* PATCH that read files of an administrator leaves no mixture.            *)
(***************************************************************************)
Mirror == INSTANCE ConfigMirror
              WITH Settings <- [max : Maxes \cup {Null}, sensors : Sensors \cup {Null}],
                   sent <- {SettingsOf(f) : f \in sent},
                   mirror <- SettingsOf(files)

MirrorsRow == Mirror!Spec

(***************************************************************************)
(* No request waits for ever, though the agent may be silent.              *)
(***************************************************************************)
RequestsEnd == \A r \in Requests : ~In(r, {"idle"}) ~> In(r, {"done", "failed"})
=============================================================================
