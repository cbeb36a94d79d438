------------------------- MODULE AgentConfigProofs -------------------------
(***************************************************************************)
(* Theorems about AgentConfig, for any number of requests, any settings    *)
(* and any bodies of PATCH.                                                *)
(***************************************************************************)
EXTENDS AgentConfig, TLAPS

-----------------------------------------------------------------------------
(* Types.                                                                  *)

Command == [req : Requests, command : {"READ", "WRITE"}, body : FilesShape \cup {Null}]

(***************************************************************************)
(* What a request holds at each point: the row it loaded, the row as it    *)
(* committed it, or that and the files as read.                            *)
(***************************************************************************)
HoldsOK(r) ==
    /\ In(r, {"idle", "patching", "posting", "getting", "reading", "read",
              "writing", "done", "failed"})
    /\ req[r].patch \in Patches \cup {Null}
    /\ In(r, {"idle"}) => req[r].patch = Null
    /\ In(r, {"patching"}) =>
          /\ req[r].patch \in Patches
          /\ req[r].copy \in RowShape
          /\ req[r].patch.sensors # Null => req[r].patch.sensors \in Sensors
    /\ In(r, {"posting"}) => req[r].copy \in RowShape
    /\ In(r, {"reading"}) => req[r].patch # Null /\ req[r].copy \in RowShape
    /\ In(r, {"read"}) =>
          /\ req[r].patch # Null
          /\ req[r].copy.read \in FilesShape /\ req[r].copy.row \in RowShape

Writes(c) == c.command = "WRITE"
IsPut(c) == Writes(c) /\ req[c.req].patch = Null
IsSync(c) == Writes(c) /\ req[c.req].patch # Null

(***************************************************************************)
(* Commands come from requests that reached the agent; one that waits for  *)
(* the files has written nothing; an administrator's files are those he    *)
(* sent.                                                                   *)
(***************************************************************************)
SentOK(c) ==
    /\ Writes(c) => c.body \in FilesShape
    /\ ~In(c.req, {"idle", "patching", "posting"})
    /\ In(c.req, {"getting", "reading", "read"}) => c.command = "READ"
    /\ IsPut(c) => c.body \in sent /\ c.body.rest = c.req

Fields == {"pc", "patch", "copy"}

ValuesOK ==
    /\ exists \in BOOLEAN /\ row \in RowShape /\ files \in FilesShape
    /\ latest \in Requests \cup {Null} /\ edited \in Requests \cup {Null}
    /\ events \in Requests \cup {Null}
    /\ versions \subseteq Settings /\ sent \subseteq FilesShape
    /\ crossed \subseteq Requests /\ torn \in BOOLEAN

TypeInv ==
    /\ ValuesOK
    /\ bus \in Seq(Command)
    /\ \A i \in 1..Len(bus) : SentOK(bus[i])
    /\ DOMAIN req = Requests
    /\ \A r \in Requests : DOMAIN req[r] = Fields /\ HoldsOK(r)

-----------------------------------------------------------------------------
(* What makes the properties inductive.                                    *)

(***************************************************************************)
(* ColumnAgrees: a transaction that is alone holds the row as it is.       *)
(***************************************************************************)
ColumnInv ==
    /\ ColumnAgrees
    /\ ~torn => \A r \in InTransaction : InTransaction = {r} /\ req[r].copy = row

(***************************************************************************)
(* MirrorsRow: not only the files but everything that may yet be written   *)
(* to them has settings that the row has had or an administrator sent.     *)
(***************************************************************************)
SentSettings == {SettingsOf(f) : f \in sent}

Known(s) == SettingsOf(s) \in versions \cup SentSettings

BusKnown == \A i \in 1..Len(bus) : Writes(bus[i]) => Known(bus[i].body)

HeldKnown(r) ==
    /\ In(r, {"reading"}) => Known(req[r].copy)
    /\ In(r, {"read"}) => Known(req[r].copy.row)

VersionsInv ==
    Known(files) /\ BusKnown /\ \A r \in Requests : HeldKnown(r)

(***************************************************************************)
(* EditsKept: behind an edit on the bus whose request crossed no other     *)
(* there is no synchronisation, nor will there be one that read before it; *)
(* and once it was executed, whatever is written back brings its rest.     *)
(***************************************************************************)
EditAlone(i) ==
    /\ \A r \in Requests : ~In(r, {"read"})
    /\ \A k \in 1..Len(bus) : k < i => ~In(bus[k].req, {"reading"})
    /\ \A k \in 1..Len(bus) : i < k => ~IsSync(bus[k])

OrderInv ==
    \A i \in 1..Len(bus) :
        IsPut(bus[i]) /\ bus[i].req \notin crossed => EditAlone(i)

EditsInv ==
    edited \notin crossed =>
        /\ files.rest = edited
        /\ \A r \in Requests : In(r, {"read"}) => req[r].copy.read.rest = edited
        /\ \A i \in 1..Len(bus) : IsSync(bus[i]) => bus[i].body.rest = edited

(***************************************************************************)
(* FilesFollowRow: the last PATCH that named settings carries those of the *)
(* row through its steps; it is alone with the agent, so nothing is behind *)
(* what it writes; and after it there are only files of administrators,    *)
(* sent later.                                                             *)
(***************************************************************************)
AtAgent == {"reading", "read", "writing"}

Solo == \A r \in WithAgent \ crossed : WithAgent = {r}

(* Requests begin in the order of their numbers.                           *)
InOrder == \A q, r \in Requests : q < r /\ In(q, {"idle"}) => In(r, {"idle"})

AsRow(s) == SettingsOf(s) = SettingsOf(row)

PatchInv ==
    \A r \in Requests : In(r, {"patching"}) =>
        /\ AsRow(req[r].copy)
        /\ \A q \in Requests : In(q, {"patching"}) => q = r

WritesLast(l) ==
    \A i \in 1..Len(bus) : Writes(bus[i]) /\ bus[i].req = l =>
        /\ AsRow(bus[i].body) /\ bus[i].body.uuid = "own"
        /\ \A k \in 1..Len(bus) : i < k => ~Writes(bus[k])

EditsLater(l) == \A i \in 1..Len(bus) : Writes(bus[i]) => IsPut(bus[i]) /\ l < bus[i].req

FollowsOrEdited(l) == Synced \/ (files \in sent /\ files.rest > l)

Follows(l) ==
    /\ In(l, {"reading"}) => AsRow(req[l].copy)
    /\ In(l, {"read"}) => AsRow(req[l].copy.row)
    /\ In(l, {"writing"}) => WritesLast(l)
    /\ In(l, {"done"}) =>
          /\ FollowsOrEdited(l) /\ EditsLater(l)
          /\ \A q \in Requests : In(q, AtAgent) => req[q].patch = Null

LatestInv ==
    latest # Null =>
        /\ req[latest].patch # Null
        /\ In(latest, AtAgent \cup {"done", "failed"})
        /\ latest \notin crossed => Follows(latest)

-----------------------------------------------------------------------------
(* The steps, by what they do to the requests, the row and the bus.        *)

(* One request moves, the others stay.                                     *)
Moves(r, pc, patch, copy) ==
    /\ DOMAIN req' = Requests
    /\ req'[r].pc = pc /\ req'[r].patch = patch /\ req'[r].copy = copy
    /\ DOMAIN req'[r] = Fields
    /\ \A q \in Requests \ {r} : req'[q] = req[q]

LEMMA Setting ==
    ASSUME DOMAIN req = Requests, NEW r \in Requests, NEW pc, NEW patch, NEW copy,
           req' = [req EXCEPT ![r] = [pc |-> pc, patch |-> patch, copy |-> copy]]
    PROVE  Moves(r, pc, patch, copy)
BY DEF Moves, Fields

LEMMA SettingPc ==
    ASSUME DOMAIN req = Requests, NEW r \in Requests, NEW pc, DOMAIN req[r] = Fields,
           req' = [req EXCEPT ![r].pc = pc]
    PROVE  Moves(r, pc, req[r].patch, req[r].copy)
BY DEF Moves, Fields

LEMMA SettingPcCopy ==
    ASSUME DOMAIN req = Requests, NEW r \in Requests, NEW pc, NEW copy,
           DOMAIN req[r] = Fields,
           req' = [req EXCEPT ![r].pc = pc, ![r].copy = copy]
    PROVE  Moves(r, pc, req[r].patch, copy)
BY DEF Moves, Fields

LEMMA UpdatedFields ==
    ASSUME NEW c \in RowShape, NEW p
    PROVE  /\ Updated(c, p).max = Settled(c, p).max
           /\ Updated(c, p).sensors = Settled(c, p).sensors
           /\ Updated(c, p).column.max = Settled(c, p).max
           /\ Updated(c, p).column.sensors = Settled(c, p).sensors
           /\ Updated(c, p).column.devices = c.column.devices
BY DEF Updated, RowShape

LEMMA UpdatedType ==
    ASSUME NEW c \in RowShape, NEW p \in Patches,
           p.sensors # Null => p.sensors \in Sensors
    PROVE  Updated(c, p) \in RowShape
BY PatchesAssumption DEF Updated, Settled, RowShape

LEMMA FlushedType ==
    ASSUME row \in RowShape, NEW old \in RowShape, NEW new \in RowShape
    PROVE  Flushed(old, new) \in RowShape
BY DEF Flushed, RowShape

LEMMA TailOfBus ==
    ASSUME bus \in Seq(Command), bus # << >>
    PROVE  /\ Tail(bus) \in Seq(Command) /\ Head(bus) = bus[1] /\ 1 \in 1..Len(bus)
           /\ Len(bus) \in Nat /\ Len(Tail(bus)) = Len(bus) - 1
           /\ \A i \in 1..Len(Tail(bus)) : Tail(bus)[i] = bus[i + 1] /\ i + 1 \in 1..Len(bus)
BY DEF Command

LEMMA SentOnBus ==
    ASSUME bus \in Seq(Command), NEW r \in Requests, NEW c \in {"READ", "WRITE"},
           NEW b \in FilesShape \cup {Null}, Send(r, c, b)
    PROVE  /\ bus' \in Seq(Command) /\ Len(bus') = Len(bus) + 1 /\ Len(bus) \in Nat
           /\ bus'[Len(bus')] = [req |-> r, command |-> c, body |-> b]
           /\ \A i \in 1..Len(bus) : bus'[i] = bus[i]
BY DEF Send, Command

-----------------------------------------------------------------------------
(* Type correctness.                                                       *)

LEMMA TypeInit == Init => TypeInv
<1> SUFFICES ASSUME Init PROVE TypeInv
  OBVIOUS
<1>1. PICK s \in Initial :
          /\ row = [max |-> s.max, sensors |-> s.sensors,
                    column |-> [max |-> s.max, sensors |-> s.sensors, devices |-> Null]]
          /\ files = [max |-> s.max, sensors |-> s.sensors, uuid |-> s.uuid, rest |-> Null]
          /\ versions = {SettingsOf(s)}
  BY DEF Init
<1>2. s.max \in Maxes /\ s.sensors \in Sensors /\ s.uuid \in Uuids
  BY InitialAssumption
<1>3. row \in RowShape /\ files \in FilesShape /\ versions \subseteq Settings
  BY <1>1, <1>2 DEF RowShape, FilesShape, Settings, SettingsOf
<1>4. bus = << >> /\ bus \in Seq(Command) /\ Len(bus) = 0
  BY DEF Init
<1>5. \A r \in Requests : DOMAIN req[r] = Fields /\ HoldsOK(r)
  BY DEF Init, Idle, Fields, HoldsOK, In
<1>6. DOMAIN req = Requests
  BY DEF Init
<1>8. exists \in BOOLEAN /\ torn \in BOOLEAN
  BY DEF Init
<1>7. latest = Null /\ edited = Null /\ events = Null /\ crossed = {} /\ sent = {}
  BY DEF Init
<1> QED
  BY <1>3, <1>4, <1>5, <1>6, <1>7, <1>8 DEF TypeInv, ValuesOK

LEMMA OnBus ==
    ASSUME TypeInv, NEW i \in 1..Len(bus)
    PROVE  bus[i].req \in Requests /\ SentOK(bus[i])
<1>1. SentOK(bus[i])
  BY DEF TypeInv
<1>2. bus \in Seq(Command)
  BY DEF TypeInv
<1>3. bus[i] \in Command
  BY <1>2
<1> QED
  BY <1>1, <1>3 DEF Command

(* A request that has not reached the agent has no command on the bus.      *)
LEMMA NotSent ==
    ASSUME TypeInv, NEW r \in Requests, In(r, {"idle", "patching", "posting"})
    PROVE  \A i \in 1..Len(bus) : bus[i].req # r
BY DEF TypeInv, SentOK

(* What is on the bus is in order, also when a request moves on.            *)
LEMMA SentStays ==
    ASSUME NEW c \in Command, SentOK(c), sent \subseteq sent',
           NEW r \in Requests, NEW pc, NEW patch, NEW copy,
           Moves(r, pc, patch, copy),
           \/ In(r, {"idle", "patching", "posting"})
           \/ /\ pc \in {"read", "writing", "done", "failed"}
              /\ patch = req[r].patch
              /\ pc = "read" => In(r, {"reading"})
    PROVE  SentOK(c)'
<1>0. c.req \in Requests
  BY DEF Command
<1>1. CASE c.req = r
  BY <1>1 DEF Moves, SentOK, In, IsPut, Writes
<1>2. CASE c.req # r
  BY <1>0, <1>2 DEF Moves, SentOK, In, IsPut, Writes
<1> QED
  BY <1>1, <1>2

(* A step in which one request moves and the bus stays.                     *)
LEMMA TypeMoves ==
    ASSUME TypeInv, ValuesOK', UNCHANGED <<bus, sent>>,
           NEW r \in Requests, NEW pc, NEW patch, NEW copy,
           Moves(r, pc, patch, copy), HoldsOK(r)',
           \/ In(r, {"idle", "patching", "posting"})
           \/ pc \in {"done", "failed"} /\ patch = req[r].patch
    PROVE  TypeInv'
<1>1. ASSUME NEW i \in 1..Len(bus') PROVE SentOK(bus[i])'
  <2>1. PICK c \in Command : c = bus[i] /\ SentOK(c)
    BY DEF TypeInv
  <2>2. SentOK(c)'
    BY <2>1, SentStays
  <2> QED
    BY <2>1, <2>2 DEF SentOK, IsPut, Writes, In
<1>2. DOMAIN req' = Requests
  BY DEF Moves
<1>3. ASSUME NEW q \in Requests PROVE DOMAIN req'[q] = Fields /\ HoldsOK(q)'
  <2>1. CASE q = r
    BY <2>1 DEF Moves
  <2>2. CASE q # r
    BY <2>2 DEF Moves, TypeInv, HoldsOK, In
  <2> QED
    BY <2>1, <2>2
<1> QED
  BY <1>1, <1>2, <1>3 DEF TypeInv

(* A step in which one request moves and sends.                             *)
LEMMA TypeSends ==
    ASSUME TypeInv, ValuesOK', sent \subseteq sent',
           NEW r \in Requests, NEW pc, NEW patch, NEW copy,
           Moves(r, pc, patch, copy), HoldsOK(r)',
           NEW c \in {"READ", "WRITE"}, NEW b \in FilesShape \cup {Null},
           Send(r, c, b),
           \/ pc \in {"reading", "getting"} /\ c = "READ"
           \/ pc = "writing" /\ b \in FilesShape,
           \/ In(r, {"idle", "patching", "posting"})
           \/ In(r, {"read"}) /\ patch = req[r].patch /\ pc = "writing",
           c = "WRITE" /\ patch = Null => b \in sent' /\ b.rest = r
    PROVE  TypeInv'
<1>1. /\ bus' \in Seq(Command) /\ Len(bus') = Len(bus) + 1 /\ Len(bus) \in Nat
      /\ bus'[Len(bus')] = [req |-> r, command |-> c, body |-> b]
      /\ \A i \in 1..Len(bus) : bus'[i] = bus[i]
  BY SentOnBus DEF TypeInv
<1>2. ASSUME NEW i \in 1..Len(bus') PROVE SentOK(bus[i])'
  <2>1. CASE i = Len(bus')
    BY <1>1, <2>1 DEF SentOK, Moves, In, IsPut, Writes
  <2>2. CASE i \in 1..Len(bus)
    <3>1. PICK x \in Command : x = bus[i] /\ SentOK(x)
      BY <2>2 DEF TypeInv
    <3>2. SentOK(x)'
      BY <3>1, SentStays
    <3>3. bus'[i] = x
      BY <1>1, <2>2, <3>1
    <3> QED
      BY <3>2, <3>3 DEF SentOK, IsPut, Writes, In
  <2> QED
    BY <1>1, <2>1, <2>2
<1>3. DOMAIN req' = Requests
  BY DEF Moves
<1>4. ASSUME NEW q \in Requests PROVE DOMAIN req'[q] = Fields /\ HoldsOK(q)'
  <2>1. CASE q = r
    BY <2>1 DEF Moves
  <2>2. CASE q # r
    BY <2>2 DEF Moves, TypeInv, HoldsOK, In
  <2> QED
    BY <2>1, <2>2
<1> QED
  BY <1>1, <1>2, <1>3, <1>4 DEF TypeInv

(* The bodies that SyncFiles and PutFiles send.                             *)
LEMMA BodiesTyped ==
    ASSUME NEW read \in FilesShape
    PROVE  /\ \A copy \in RowShape : Merged(read, copy) \in FilesShape
           /\ \A copy : /\ Merged(read, copy).rest = read.rest
                        /\ Merged(read, copy).uuid = "own"
           /\ \A e \in Edits, r \in Requests :
                 EditOf(r, e) \in FilesShape /\ EditOf(r, e).rest = r
BY EditsAssumption DEF Merged, EditOf, FilesShape, RowShape, Uuids

LEMMA TypeOfPatching ==
    ASSUME TypeInv, NEW r \in Requests
    PROVE  /\ \A p \in Patches : LoadRow(r, p) => TypeInv'
           /\ CommitRow(r) => TypeInv'
<1>0. DOMAIN req = Requests /\ DOMAIN req[r] = Fields
  BY DEF TypeInv
<1>1. ASSUME NEW p \in Patches, LoadRow(r, p) PROVE TypeInv'
  <2>1. Moves(r, "patching", p, row)
    BY <1>0, <1>1, Setting DEF LoadRow
  <2>2. ValuesOK'
    <3>1. torn' \in BOOLEAN
      BY <1>1 DEF LoadRow
    <3> QED
      BY <1>1, <3>1 DEF LoadRow, ValuesOK, TypeInv
  <2>3. p.sensors # Null => p.sensors \in Sensors
    BY <1>1, PatchesAssumption DEF LoadRow
  <2>4. HoldsOK(r)'
    BY <2>1, <2>3 DEF Moves, HoldsOK, In, TypeInv, ValuesOK
  <2>5. In(r, {"idle"}) /\ UNCHANGED <<bus, sent>>
    BY <1>1 DEF LoadRow, Begins
  <2> QED
    BY <2>1, <2>2, <2>4, <2>5, TypeMoves DEF In
<1>2. ASSUME CommitRow(r) PROVE TypeInv'
  <2> DEFINE p == req[r].patch
  <2>1. /\ In(r, {"patching"}) /\ req[r].copy \in RowShape /\ p \in Patches
        /\ p.sensors # Null => p.sensors \in Sensors
    BY <1>2 DEF CommitRow, TypeInv, HoldsOK
  <2>2. row' \in RowShape
    BY <1>2, <2>1, UpdatedType, FlushedType DEF CommitRow, TypeInv, ValuesOK
  <2>3. crossed' \subseteq Requests
    BY <1>2 DEF CommitRow, MeetAgent, TypeInv, ValuesOK, WithAgent
  <2>4. versions' \subseteq Settings
    BY <1>2, <2>2 DEF CommitRow, TypeInv, ValuesOK, RowShape, Settings, SettingsOf
  <2>5. latest' \in Requests \cup {Null}
    BY <1>2 DEF CommitRow, TypeInv, ValuesOK
  <2>6. ValuesOK'
    BY <1>2, <2>2, <2>3, <2>4, <2>5 DEF CommitRow, TypeInv, ValuesOK
  <2>7. CASE SettingsGiven(p)
    <3>1. /\ Send(r, "READ", Null)
          /\ req' = [req EXCEPT ![r].pc = "reading", ![r].copy = row']
      BY <1>2, <2>7 DEF CommitRow
    <3>2. Moves(r, "reading", p, row')
      BY <1>0, <3>1, SettingPcCopy
    <3>3. HoldsOK(r)'
      BY <2>1, <2>2, <3>2, NullAssumption DEF Moves, HoldsOK, In
    <3>4. sent \subseteq sent'
      BY <1>2 DEF CommitRow
    <3> QED
      BY <2>1, <2>6, <3>1, <3>2, <3>3, <3>4, TypeSends DEF In
  <2>8. CASE ~SettingsGiven(p)
    <3>1. /\ req' = [req EXCEPT ![r].pc = "done", ![r].copy = Null]
          /\ UNCHANGED <<bus, sent>>
      BY <1>2, <2>8 DEF CommitRow
    <3>2. Moves(r, "done", p, Null)
      BY <1>0, <3>1, SettingPcCopy
    <3>3. HoldsOK(r)'
      BY <2>1, <3>2 DEF Moves, HoldsOK, In
    <3> QED
      BY <2>6, <3>1, <3>2, <3>3, TypeMoves
  <2> QED
    BY <2>7, <2>8
<1> QED
  BY <1>1, <1>2

LEMMA TypeOfFiles ==
    ASSUME TypeInv, NEW r \in Requests
    PROVE  /\ GetFiles(r) => TypeInv'
           /\ \A e \in Edits : PutFiles(r, e) => TypeInv'
           /\ SyncFiles(r) => TypeInv'
<1>0. DOMAIN req = Requests /\ DOMAIN req[r] = Fields /\ HoldsOK(r)
  BY DEF TypeInv
<1>1. ASSUME GetFiles(r) PROVE TypeInv'
  <2>1. Moves(r, "getting", req[r].patch, req[r].copy)
    BY <1>0, <1>1, SettingPc DEF GetFiles
  <2>2. ValuesOK' /\ UNCHANGED sent
    BY <1>1 DEF GetFiles, TypeInv, ValuesOK, history
  <2>3. In(r, {"idle"})
    BY <1>1 DEF GetFiles, Begins
  <2>4. HoldsOK(r)'
    BY <1>0, <2>1, <2>3 DEF Moves, HoldsOK, In
  <2> QED
    BY <1>1, <2>1, <2>2, <2>3, <2>4, TypeSends DEF GetFiles, In
<1>2. ASSUME NEW e \in Edits, PutFiles(r, e) PROVE TypeInv'
  <2>0. PICK b \in FilesShape : b = EditOf(r, e) /\ b.rest = r
    <3>1. files \in FilesShape
      BY DEF TypeInv, ValuesOK
    <3> QED
      BY <3>1, BodiesTyped
  <2>1. Moves(r, "writing", req[r].patch, req[r].copy)
    BY <1>0, <1>2, SettingPc DEF PutFiles
  <2>2. crossed' \subseteq Requests
    BY <1>2 DEF PutFiles, MeetAgent, TypeInv, ValuesOK, WithAgent
  <2>3. sent' = sent \cup {b} /\ Send(r, "WRITE", b)
    BY <1>2, <2>0 DEF PutFiles
  <2>4. ValuesOK'
    BY <1>2, <2>2, <2>3 DEF PutFiles, TypeInv, ValuesOK
  <2>5. In(r, {"idle"})
    BY <1>2 DEF PutFiles, Begins
  <2>6. HoldsOK(r)'
    BY <1>0, <2>1, <2>5 DEF Moves, HoldsOK, In
  <2> QED
    BY <2>0, <2>1, <2>3, <2>4, <2>5, <2>6, TypeSends DEF In
<1>3. ASSUME SyncFiles(r) PROVE TypeInv'
  <2>0. PICK b \in FilesShape : b = Merged(req[r].copy.read, req[r].copy.row)
    BY <1>0, <1>3, BodiesTyped DEF SyncFiles, HoldsOK
  <2>1. Moves(r, "writing", req[r].patch, Null)
    BY <1>0, <1>3, SettingPcCopy DEF SyncFiles
  <2>2. ValuesOK' /\ UNCHANGED sent
    BY <1>3 DEF SyncFiles, TypeInv, ValuesOK, history
  <2>3. HoldsOK(r)'
    BY <1>0, <2>1 DEF Moves, HoldsOK, In
  <2>4. Send(r, "WRITE", b) /\ In(r, {"read"}) /\ req[r].patch # Null
    BY <1>0, <1>3, <2>0 DEF SyncFiles, HoldsOK
  <2> QED
    BY <2>1, <2>2, <2>3, <2>4, TypeSends
<1> QED
  BY <1>1, <1>2, <1>3

LEMMA EventTyped ==
    ASSUME NEW c \in RowShape, NEW r \in Requests
    PROVE  /\ [c EXCEPT !.column.devices = r] \in RowShape
           /\ \A k \in DOMAIN c \ {"column"} : [c EXCEPT !.column.devices = r][k] = c[k]
<1>1. [c.column EXCEPT !.devices = r] \in
          [max : Maxes, sensors : Sensors, devices : Requests \cup {Null}]
  BY DEF RowShape
<1> QED
  BY <1>1 DEF RowShape

LEMMA TypeOfEvents ==
    ASSUME TypeInv, NEW r \in Requests
    PROVE  /\ LoadColumn(r) => TypeInv'
           /\ CommitColumn(r) => TypeInv'
<1>0. DOMAIN req = Requests /\ DOMAIN req[r] = Fields /\ HoldsOK(r)
  BY DEF TypeInv
<1>1. ASSUME LoadColumn(r) PROVE TypeInv'
  <2>1. Moves(r, "posting", Null, row)
    BY <1>0, <1>1, Setting DEF LoadColumn
  <2>2. torn' \in BOOLEAN
    BY <1>1 DEF LoadColumn
  <2>3. ValuesOK'
    BY <1>1, <2>2 DEF LoadColumn, ValuesOK, TypeInv
  <2>4. HoldsOK(r)'
    BY <2>1 DEF Moves, HoldsOK, In, TypeInv, ValuesOK
  <2>5. In(r, {"idle"}) /\ UNCHANGED <<bus, sent>>
    BY <1>1 DEF LoadColumn, Begins
  <2> QED
    BY <2>1, <2>3, <2>4, <2>5, TypeMoves DEF In
<1>2. ASSUME CommitColumn(r) PROVE TypeInv'
  <2>1. Moves(r, "done", req[r].patch, Null)
    BY <1>0, <1>2, SettingPcCopy DEF CommitColumn
  <2>2. req[r].copy \in RowShape
    BY <1>0, <1>2 DEF CommitColumn, HoldsOK
  <2>3. [req[r].copy EXCEPT !.column.devices = r] \in RowShape
    BY <2>2, EventTyped
  <2>4. row' \in RowShape
    BY <1>2, <2>2, <2>3, FlushedType DEF CommitColumn, TypeInv, ValuesOK
  <2>5. ValuesOK'
    BY <1>2, <2>4 DEF CommitColumn, ValuesOK, TypeInv
  <2>6. HoldsOK(r)'
    BY <1>0, <2>1 DEF Moves, HoldsOK, In
  <2> QED
    BY <1>2, <2>1, <2>5, <2>6, TypeMoves DEF CommitColumn
<1> QED
  BY <1>1, <1>2

LEMMA TypeOfFailures ==
    ASSUME TypeInv, NEW r \in Requests,
           NotFound(r) \/ Timeout(r) \/ Abort(r)
    PROVE  TypeInv' /\ Moves(r, "failed", req[r].patch, Null)
<1>0. DOMAIN req = Requests /\ DOMAIN req[r] = Fields /\ HoldsOK(r)
  BY DEF TypeInv
<1>1. GiveUp(r)
  BY DEF NotFound, Timeout, Abort
<1>2. req' = [req EXCEPT ![r].pc = "failed", ![r].copy = Null]
  BY <1>0, <1>1 DEF GiveUp
<1>3. Moves(r, "failed", req[r].patch, Null)
  BY <1>0, <1>2, SettingPcCopy
<1>4. ValuesOK'
  BY <1>1 DEF GiveUp, ValuesOK, TypeInv, history
<1>5. HoldsOK(r)'
  BY <1>0, <1>3 DEF Moves, HoldsOK, In
<1> QED
  BY <1>1, <1>3, <1>4, <1>5, TypeMoves DEF GiveUp, history

LEMMA HeadOfBus ==
    ASSUME TypeInv, bus # << >>
    PROVE  /\ Executed = bus[1] /\ 1 \in 1..Len(bus)
           /\ Executed.req \in Requests /\ SentOK(Executed)
<1>1. Executed = bus[1] /\ 1 \in 1..Len(bus)
  BY TailOfBus DEF TypeInv, Executed
<1> QED
  BY <1>1, OnBus

(* A step of the bus: what is on it was on it.                              *)
LEMMA TypeShrinks ==
    ASSUME TypeInv, ValuesOK', UNCHANGED sent,
           bus' \in Seq(Command), DOMAIN req' = Requests,
           \A q \in Requests : DOMAIN req'[q] = Fields /\ HoldsOK(q)',
           \A i \in 1..Len(bus') : \E j \in 1..Len(bus) : bus'[i] = bus[j],
           \A q \in Requests :
               /\ req'[q].patch = req[q].patch
               /\ \/ req'[q].pc = req[q].pc
                  \/ req'[q].pc = "read" /\ In(q, {"reading"})
                  \/ req'[q].pc = "done"
    PROVE  TypeInv'
<1>1. ASSUME NEW i \in 1..Len(bus') PROVE SentOK(bus[i])'
  <2>1. PICK j \in 1..Len(bus) : bus'[i] = bus[j]
    OBVIOUS
  <2>2. bus[j].req \in Requests /\ SentOK(bus[j])
    BY OnBus
  <2> QED
    BY <2>1, <2>2 DEF SentOK, In, IsPut, Writes
<1> QED
  BY <1>1 DEF TypeInv

(* The agent's answer.                                                      *)
LEMMA AnswersMove ==
    ASSUME TypeInv
    PROVE  /\ ExecuteRead =>
                 \/ /\ In(Executed.req, {"reading"})
                    /\ Moves(Executed.req, "read", req[Executed.req].patch,
                             [row |-> req[Executed.req].copy, read |-> files])
                 \/ /\ In(Executed.req, {"getting"})
                    /\ Moves(Executed.req, "done", req[Executed.req].patch,
                             req[Executed.req].copy)
                 \/ ~In(Executed.req, {"getting", "reading"}) /\ req' = req
           /\ ExecuteWrite =>
                 \/ /\ In(Executed.req, {"writing"})
                    /\ Moves(Executed.req, "done", req[Executed.req].patch,
                             req[Executed.req].copy)
                 \/ ~In(Executed.req, {"writing"}) /\ req' = req
<1>0. DOMAIN req = Requests /\ \A q \in Requests : DOMAIN req[q] = Fields
  BY DEF TypeInv
<1>1. ASSUME ExecuteRead, In(Executed.req, {"reading"})
      PROVE  Moves(Executed.req, "read", req[Executed.req].patch,
                   [row |-> req[Executed.req].copy, read |-> files])
  <2>1. PICK r \in Requests : r = Executed.req
    BY <1>1, HeadOfBus DEF ExecuteRead
  <2>2. req' = [req EXCEPT ![r].pc = "read",
                           ![r].copy = [row |-> req[r].copy, read |-> files]]
    BY <1>0, <1>1, <2>1 DEF ExecuteRead, In
  <2>3. Moves(r, "read", req[r].patch, [row |-> req[r].copy, read |-> files])
    BY <1>0, <2>2, SettingPcCopy
  <2> QED
    BY <2>1, <2>3
<1>2. ASSUME \/ ExecuteRead /\ In(Executed.req, {"getting"})
             \/ ExecuteWrite /\ In(Executed.req, {"writing"})
      PROVE  Moves(Executed.req, "done", req[Executed.req].patch, req[Executed.req].copy)
  <2>1. PICK r \in Requests : r = Executed.req
    BY <1>2, HeadOfBus DEF ExecuteRead, ExecuteWrite
  <2>2. req' = [req EXCEPT ![r].pc = "done"]
    BY <1>2, <2>1 DEF ExecuteRead, ExecuteWrite, In
  <2>3. Moves(r, "done", req[r].patch, req[r].copy)
    BY <1>0, <2>1, <2>2, SettingPc
  <2> QED
    BY <2>1, <2>3
<1>3. ExecuteRead => \/ In(Executed.req, {"reading"})
                     \/ In(Executed.req, {"getting"})
                     \/ ~In(Executed.req, {"getting", "reading"}) /\ req' = req
  BY DEF ExecuteRead, In
<1>4. ExecuteWrite => In(Executed.req, {"writing"}) \/ req' = req
  BY DEF ExecuteWrite
<1> QED
  BY <1>1, <1>2, <1>3, <1>4

LEMMA TypeOfAgent ==
    ASSUME TypeInv, Agent
    PROVE  TypeInv'
<1>0. DOMAIN req = Requests /\ \A q \in Requests : DOMAIN req[q] = Fields /\ HoldsOK(q)
  BY DEF TypeInv
<1>1. ASSUME bus # << >>, bus' = Tail(bus)
      PROVE  /\ bus' \in Seq(Command)
             /\ \A i \in 1..Len(bus') : \E j \in 1..Len(bus) : bus'[i] = bus[j]
  BY <1>1, TailOfBus DEF TypeInv
<1>2. ASSUME ExecuteRead \/ ExecuteWrite PROVE TypeInv'
  <2>1. PICK r \in Requests : r = Executed.req /\ SentOK(Executed)
    BY <1>2, HeadOfBus DEF ExecuteRead, ExecuteWrite
  <2>2. ValuesOK' /\ UNCHANGED sent
    <3>1. CASE ExecuteRead
      BY <3>1 DEF ExecuteRead, ValuesOK, TypeInv, history
    <3>2. CASE ExecuteWrite
      BY <3>2, <2>1 DEF ExecuteWrite, ValuesOK, TypeInv, SentOK, Writes
    <3> QED
      BY <1>2, <3>1, <3>2
  <2>3. ASSUME NEW q \in Requests
        PROVE  /\ DOMAIN req'[q] = Fields /\ HoldsOK(q)'
               /\ req'[q].patch = req[q].patch
               /\ \/ req'[q].pc = req[q].pc
                  \/ req'[q].pc = "read" /\ In(q, {"reading"})
                  \/ req'[q].pc = "done"
    <3>1. CASE req'[q] = req[q]
      BY <1>0, <3>1 DEF HoldsOK, In
    <3>2. CASE req'[q] # req[q]
      <4>1. q = r
        BY <1>2, <2>1, <3>2, AnswersMove DEF Moves
      <4>2. \/ Moves(r, "read", req[r].patch, [row |-> req[r].copy, read |-> files])
               /\ In(r, {"reading"})
            \/ Moves(r, "done", req[r].patch, req[r].copy)
        BY <1>2, <2>1, <3>2, AnswersMove
      <4>3. files \in FilesShape /\ HoldsOK(r)
        BY <1>0 DEF TypeInv, ValuesOK
      <4> QED
        BY <4>1, <4>2, <4>3 DEF Moves, HoldsOK, In
    <3> QED
      BY <3>1, <3>2
  <2>4. DOMAIN req' = Requests
    BY <1>0, <1>2, AnswersMove DEF Moves
  <2>5. bus # << >> /\ bus' = Tail(bus)
    BY <1>2 DEF ExecuteRead, ExecuteWrite
  <2> QED
    BY <1>1, <2>2, <2>3, <2>4, <2>5, TypeShrinks
<1>4. ASSUME Lose \/ RestartAgent PROVE TypeInv'
  <2>1. ValuesOK' /\ req' = req /\ UNCHANGED sent
    BY <1>4 DEF Lose, RestartAgent, ValuesOK, TypeInv, history
  <2>2. \A q \in Requests : DOMAIN req'[q] = Fields /\ HoldsOK(q)'
    BY <1>0, <2>1 DEF HoldsOK, In
  <2>3. /\ bus' \in Seq(Command)
        /\ \A i \in 1..Len(bus') : \E j \in 1..Len(bus) : bus'[i] = bus[j]
    <3>1. CASE Lose
      BY <1>1, <3>1 DEF Lose
    <3>2. CASE RestartAgent
      <4>1. bus' = << >>
        BY <3>2 DEF RestartAgent
      <4> QED
        BY <4>1
    <3> QED
      BY <1>4, <3>1, <3>2
  <2> QED
    BY <1>0, <2>1, <2>2, <2>3, TypeShrinks
<1> QED
  BY <1>2, <1>4 DEF Agent

LEMMA TypeNext == TypeInv /\ [Next]_vars => TypeInv'
<1> SUFFICES ASSUME TypeInv, [Next]_vars PROVE TypeInv'
  OBVIOUS
<1>1. CASE Agent
  BY <1>1, TypeOfAgent
<1>2. CASE DeleteRow
  BY <1>2 DEF DeleteRow, TypeInv, ValuesOK, SentOK, HoldsOK, In, IsPut, Writes, history
<1>3. ASSUME NEW r \in Requests, Begin(r) PROVE TypeInv'
  BY <1>3, TypeOfPatching, TypeOfFiles, TypeOfEvents DEF Begin
<1>4. ASSUME NEW r \in Requests, Handle(r) \/ Abort(r) PROVE TypeInv'
  BY <1>4, TypeOfPatching, TypeOfFiles, TypeOfEvents, TypeOfFailures DEF Handle
<1>5. CASE UNCHANGED vars
  BY <1>5 DEF vars, history, TypeInv, ValuesOK, SentOK, HoldsOK, In, IsPut, Writes
<1> QED
  BY <1>1, <1>2, <1>3, <1>4, <1>5 DEF Next

(* Typing, with what every request and every command on the bus holds.     *)
LEMMA TypeInvariant == Spec => []TypeInv
BY TypeInit, TypeNext, PTL DEF Spec

(***************************************************************************)
(* Every value keeps its type; in particular the agent's files are only    *)
(* ever replaced by whole files, whatever a late command carries.          *)
(***************************************************************************)
THEOREM TypeCorrect == Spec => []TypeOK
<1>1. TypeInv => TypeOK
  <2> SUFFICES ASSUME TypeInv PROVE TypeOK
    OBVIOUS
  <2>1. \A i \in DOMAIN bus : bus[i].req \in Requests /\ SentOK(bus[i])
    BY OnBus DEF TypeInv
  <2> QED
    BY <2>1 DEF TypeInv, ValuesOK, TypeOK, SentOK, HoldsOK, Writes
<1> QED
  BY <1>1, TypeInvariant, PTL

-----------------------------------------------------------------------------
(* What each step does to the requests, once more, for the invariants to   *)
(* come.                                                                   *)

LEMMA RequestsMove ==
    ASSUME TypeInv, NEW r \in Requests
    PROVE  /\ \A p \in Patches : LoadRow(r, p) => Moves(r, "patching", p, row)
           /\ CommitRow(r) /\ SettingsGiven(req[r].patch) =>
                  Moves(r, "reading", req[r].patch, row')
           /\ CommitRow(r) /\ ~SettingsGiven(req[r].patch) =>
                  Moves(r, "done", req[r].patch, Null)
           /\ GetFiles(r) => Moves(r, "getting", Null, req[r].copy)
           /\ \A e \in Edits : PutFiles(r, e) => Moves(r, "writing", Null, req[r].copy)
           /\ SyncFiles(r) => Moves(r, "writing", req[r].patch, Null)
           /\ LoadColumn(r) => Moves(r, "posting", Null, row)
           /\ CommitColumn(r) => Moves(r, "done", req[r].patch, Null)
<1>0. DOMAIN req = Requests /\ DOMAIN req[r] = Fields
  BY DEF TypeInv
<1>1. ASSUME NEW p \in Patches, LoadRow(r, p) PROVE Moves(r, "patching", p, row)
  BY <1>0, <1>1, Setting DEF LoadRow
<1>2. ASSUME CommitRow(r), SettingsGiven(req[r].patch)
      PROVE  Moves(r, "reading", req[r].patch, row')
  BY <1>0, <1>2, SettingPcCopy DEF CommitRow
<1>3. ASSUME CommitRow(r), ~SettingsGiven(req[r].patch)
      PROVE  Moves(r, "done", req[r].patch, Null)
  BY <1>0, <1>3, SettingPcCopy DEF CommitRow
<1>4. ASSUME GetFiles(r) PROVE Moves(r, "getting", Null, req[r].copy)
  <2>1. Moves(r, "getting", req[r].patch, req[r].copy)
    BY <1>0, <1>4, SettingPc DEF GetFiles
  <2>2. req[r].patch = Null
    BY <1>4 DEF GetFiles, Begins, TypeInv, HoldsOK, In
  <2> QED
    BY <2>1, <2>2
<1>5. ASSUME NEW e \in Edits, PutFiles(r, e) PROVE Moves(r, "writing", Null, req[r].copy)
  <2>1. Moves(r, "writing", req[r].patch, req[r].copy)
    BY <1>0, <1>5, SettingPc DEF PutFiles
  <2>2. req[r].patch = Null
    BY <1>5 DEF PutFiles, Begins, TypeInv, HoldsOK, In
  <2> QED
    BY <2>1, <2>2
<1>8. ASSUME SyncFiles(r) PROVE Moves(r, "writing", req[r].patch, Null)
  BY <1>0, <1>8, SettingPcCopy DEF SyncFiles
<1>6. ASSUME LoadColumn(r) PROVE Moves(r, "posting", Null, row)
  BY <1>0, <1>6, Setting DEF LoadColumn
<1>7. ASSUME CommitColumn(r) PROVE Moves(r, "done", req[r].patch, Null)
  BY <1>0, <1>7, SettingPcCopy DEF CommitColumn
<1> QED
  BY <1>1, <1>2, <1>3, <1>4, <1>5, <1>6, <1>7, <1>8

-----------------------------------------------------------------------------
(* The config column.                                                      *)

(* A transaction that holds the row as it is writes what it computed.       *)
LEMMA FlushedAlone ==
    ASSUME row \in RowShape, NEW new \in RowShape
    PROVE  Flushed(row, new) = new
BY DEF Flushed, RowShape

LEMMA WholeColumn ==
    ASSUME NEW c \in RowShape
    PROVE  c.column = [max |-> c.column.max, sensors |-> c.column.sensors,
                       devices |-> c.column.devices]
BY DEF RowShape

(* Steps that neither write the row nor begin a transaction of it.          *)
LEMMA ColumnStays ==
    ASSUME ColumnInv, UNCHANGED <<row, events, torn>>,
           \A q \in Requests : In(q, {"patching", "posting"})' =>
               In(q, {"patching", "posting"}) /\ req'[q].copy = req[q].copy
    PROVE  ColumnInv'
BY DEF ColumnInv, ColumnAgrees, InTransaction

(* A transaction begins.                                                    *)
LEMMA ColumnLoaded ==
    ASSUME ColumnInv, UNCHANGED <<row, events>>, torn \in BOOLEAN,
           NEW r \in Requests, NEW pc, NEW patch, Moves(r, pc, patch, row),
           torn' = (torn \/ InTransaction # {})
    PROVE  ColumnInv'
<1> SUFFICES ASSUME ~torn' PROVE ColumnInv'
  BY DEF ColumnInv, ColumnAgrees
<1>1. ~torn /\ InTransaction = {}
  OBVIOUS
<1>2. \A q \in InTransaction' : q = r
  BY <1>1 DEF InTransaction, Moves, In
<1>3. req'[r].copy = row'
  BY DEF Moves
<1>4. \A q \in InTransaction' : InTransaction' = {q} /\ req'[q].copy = row'
  BY <1>2, <1>3
<1>5. ColumnAgrees'
  BY <1>1 DEF ColumnInv, ColumnAgrees
<1> QED
  BY <1>4, <1>5 DEF ColumnInv

(* A transaction commits; alone, it held the row as it was.                 *)
LEMMA ColumnCommitted ==
    ASSUME TypeInv, ColumnInv, UNCHANGED torn,
           NEW r \in Requests, In(r, {"patching", "posting"}),
           NEW pc, pc \notin {"patching", "posting"}, NEW patch, NEW copy,
           Moves(r, pc, patch, copy),
           ~torn /\ req[r].copy = row =>
               row'.column = [max |-> row'.max, sensors |-> row'.sensors, devices |-> events']
    PROVE  ColumnInv'
<1> SUFFICES ASSUME ~torn PROVE ColumnInv'
  BY DEF ColumnInv, ColumnAgrees
<1>1. InTransaction = {r} /\ req[r].copy = row
  BY DEF ColumnInv, InTransaction
<1>2. InTransaction' = {}
  BY <1>1 DEF InTransaction, Moves, In
<1> QED
  BY <1>1, <1>2 DEF ColumnInv, ColumnAgrees

LEMMA ColumnNext == TypeInv /\ ColumnInv /\ [Next]_vars => ColumnInv'
<1> SUFFICES ASSUME TypeInv, ColumnInv, [Next]_vars PROVE ColumnInv'
  OBVIOUS
<1>0. torn \in BOOLEAN /\ row \in RowShape
  BY DEF TypeInv, ValuesOK
<1>1. ASSUME NEW r \in Requests, NEW p \in Patches, LoadRow(r, p) PROVE ColumnInv'
  BY <1>0, <1>1, RequestsMove, ColumnLoaded DEF LoadRow
<1>2. ASSUME NEW r \in Requests, LoadColumn(r) PROVE ColumnInv'
  BY <1>0, <1>2, RequestsMove, ColumnLoaded DEF LoadColumn
<1>3. ASSUME NEW r \in Requests, CommitRow(r) PROVE ColumnInv'
  <2> DEFINE p == req[r].patch
             new == Updated(row, p)
  <2>1. ASSUME ~torn, req[r].copy = row
        PROVE  row'.column = [max |-> row'.max, sensors |-> row'.sensors,
                              devices |-> events']
    <3>1. p \in Patches /\ (p.sensors # Null => p.sensors \in Sensors)
      BY <1>3 DEF CommitRow, TypeInv, HoldsOK
    <3>2. row' = new
      BY <1>0, <1>3, <2>1, <3>1, UpdatedType, FlushedAlone DEF CommitRow
    <3>3. row.column.devices = events
      BY <2>1 DEF ColumnInv, ColumnAgrees
    <3>4. new.column.max = new.max /\ new.column.sensors = new.sensors
          /\ new.column.devices = events
      BY <1>0, <3>3, UpdatedFields
    <3>5. new.column = [max |-> new.max, sensors |-> new.sensors, devices |-> events]
      BY <1>0, <3>1, <3>4, UpdatedType, WholeColumn
    <3> QED
      BY <1>3, <3>2, <3>5 DEF CommitRow
  <2>2. In(r, {"patching", "posting"}) /\ UNCHANGED torn
    BY <1>3 DEF CommitRow, In
  <2> QED
    BY <1>3, <2>1, <2>2, RequestsMove, ColumnCommitted
<1>4. ASSUME NEW r \in Requests, CommitColumn(r) PROVE ColumnInv'
  <2>1. ASSUME ~torn, req[r].copy = row
        PROVE  row'.column = [max |-> row'.max, sensors |-> row'.sensors,
                              devices |-> events']
    <3>1. row' = [row EXCEPT !.column.devices = r]
      BY <1>0, <1>4, <2>1, EventTyped, FlushedAlone DEF CommitColumn
    <3>2. row.column = [max |-> row.max, sensors |-> row.sensors, devices |-> events]
      BY <2>1 DEF ColumnInv, ColumnAgrees
    <3>3. row'.max = row.max /\ row'.sensors = row.sensors
          /\ row'.column = [row.column EXCEPT !.devices = r]
      BY <1>0, <3>1 DEF RowShape
    <3> QED
      BY <1>4, <3>2, <3>3 DEF CommitColumn
  <2>2. In(r, {"patching", "posting"}) /\ UNCHANGED torn
    BY <1>4 DEF CommitColumn, In
  <2> QED
    BY <1>4, <2>1, <2>2, RequestsMove, ColumnCommitted
<1>5. ASSUME NEW r \in Requests,
             GetFiles(r) \/ SyncFiles(r) \/ \E e \in Edits : PutFiles(r, e)
      PROVE  ColumnInv'
  <2>1. UNCHANGED <<row, events, torn>>
    BY <1>5 DEF GetFiles, SyncFiles, PutFiles, history
  <2>2. \/ Moves(r, "getting", Null, req[r].copy)
        \/ Moves(r, "writing", Null, req[r].copy)
        \/ Moves(r, "writing", req[r].patch, Null)
    BY <1>5, RequestsMove
  <2> QED
    BY <2>1, <2>2, ColumnStays DEF Moves, In
<1>6. ASSUME NEW r \in Requests, NotFound(r) \/ Timeout(r) \/ Abort(r)
      PROVE  ColumnInv'
  <2>1. UNCHANGED <<row, events, torn>>
    BY <1>6 DEF NotFound, Timeout, Abort, GiveUp, history
  <2> QED
    BY <1>6, <2>1, TypeOfFailures, ColumnStays DEF Moves, In
<1>7. CASE ExecuteRead \/ ExecuteWrite
  <2>1. UNCHANGED <<row, events, torn>>
    BY <1>7 DEF ExecuteRead, ExecuteWrite, history
  <2> QED
    BY <1>7, <2>1, AnswersMove, ColumnStays DEF Moves, In
<1>8. CASE Lose \/ RestartAgent \/ DeleteRow \/ UNCHANGED vars
  <2>1. UNCHANGED <<row, events, torn, req>>
    BY <1>8 DEF Lose, RestartAgent, DeleteRow, vars, history
  <2> QED
    BY <2>1, ColumnStays DEF In
<1> QED
  BY <1>1, <1>2, <1>3, <1>4, <1>5, <1>6, <1>7, <1>8
  DEF Next, Begin, Agent, Handle

(***************************************************************************)
(* As long as no two transactions of the row overlapped, the config column *)
(* has the settings of the row and the devices of the last event.          *)
(***************************************************************************)
THEOREM ColumnAgreement == Spec => []ColumnAgrees
<1>1. Init => ColumnInv
  BY DEF Init, ColumnInv, ColumnAgrees, InTransaction, In, Idle
<1>2. ColumnInv => ColumnAgrees
  BY DEF ColumnInv
<1> QED
  BY <1>1, <1>2, ColumnNext, TypeInvariant, PTL DEF Spec

-----------------------------------------------------------------------------
(* The refinement of ConfigMirror.                                         *)

(* The settings of what a synchronisation writes.                          *)
LEMMA SettingsKept ==
    ASSUME NEW read \in FilesShape, NEW copy
    PROVE  SettingsOf(Merged(read, copy)) = SettingsOf(copy)
BY DEF SettingsOf, Merged, FilesShape

(* An event leaves the settings of the row as they are.                     *)
LEMMA EventKeepsSettings ==
    ASSUME TypeInv, NEW r \in Requests, CommitColumn(r)
    PROVE  SettingsOf(row') = SettingsOf(row)
<1>1. req[r].copy \in RowShape /\ row \in RowShape
  BY DEF CommitColumn, TypeInv, ValuesOK, HoldsOK
<1>2. /\ [req[r].copy EXCEPT !.column.devices = r].max = req[r].copy.max
      /\ [req[r].copy EXCEPT !.column.devices = r].sensors = req[r].copy.sensors
  BY <1>1, EventTyped DEF RowShape
<1>3. row'.max = row.max /\ row'.sensors = row.sensors
  BY <1>1, <1>2 DEF CommitColumn, Flushed, RowShape
<1> QED
  BY <1>3 DEF SettingsOf

(* What was known stays so.                                                 *)
LEMMA KnownStays ==
    ASSUME versions \subseteq versions', sent \subseteq sent', NEW s, Known(s)
    PROVE  Known(s)'
BY DEF Known, SentSettings

(* Steps that leave the bus, or take from it, as far as it goes.            *)
LEMMA BusKnownShrinks ==
    ASSUME VersionsInv, versions \subseteq versions', sent \subseteq sent',
           \A i \in 1..Len(bus') : \E j \in 1..Len(bus) : bus'[i] = bus[j]
    PROVE  BusKnown'
BY DEF VersionsInv, BusKnown, Known, SentSettings, Writes

LEMMA BusKnownGrows ==
    ASSUME TypeInv, VersionsInv, versions \subseteq versions', sent \subseteq sent',
           NEW r \in Requests, NEW c \in {"READ", "WRITE"},
           NEW b \in FilesShape \cup {Null}, Send(r, c, b),
           c = "READ" \/ SettingsOf(b) \in (versions \cup SentSettings)'
    PROVE  BusKnown'
<1>1. /\ bus' \in Seq(Command) /\ Len(bus') = Len(bus) + 1 /\ Len(bus) \in Nat
      /\ bus'[Len(bus')] = [req |-> r, command |-> c, body |-> b]
      /\ \A i \in 1..Len(bus) : bus'[i] = bus[i]
  BY SentOnBus DEF TypeInv
<1>2. ASSUME NEW i \in 1..Len(bus'), bus'[i].command = "WRITE"
      PROVE  SettingsOf(bus'[i].body) \in (versions \cup SentSettings)'
  <2>1. CASE i = Len(bus')
    BY <1>1, <1>2, <2>1
  <2>2. CASE i \in 1..Len(bus)
    BY <1>1, <1>2, <2>2 DEF VersionsInv, BusKnown, Known, SentSettings, Writes
  <2> QED
    BY <1>1, <2>1, <2>2
<1> QED
  BY <1>2 DEF BusKnown, Known, Writes

(* What is taken from the bus leaves only what was on it.                   *)
LEMMA BusTaken ==
    ASSUME TypeInv, Agent
    PROVE  /\ bus # << >> /\ bus' \in Seq(Command)
           /\ \/ bus' = Tail(bus)
              \/ bus' = << >>
           /\ \A i \in 1..Len(bus') : \E j \in 1..Len(bus) : bus'[i] = bus[j]
<1>1. bus # << >> /\ (bus' = Tail(bus) \/ bus' = << >>)
  BY DEF Agent, ExecuteRead, ExecuteWrite, Lose, RestartAgent
<1>2. CASE bus' = Tail(bus)
  BY <1>1, <1>2, TailOfBus DEF TypeInv
<1>3. CASE bus' = << >>
  <2>1. bus' \in Seq(Command) /\ Len(bus') = 0
    BY <1>3
  <2> QED
    BY <1>1, <2>1
<1> QED
  BY <1>1, <1>2, <1>3

(* One request moves, and what it holds then is known.                     *)
LEMMA VersionsMove ==
    ASSUME VersionsInv, versions \subseteq versions', sent \subseteq sent',
           UNCHANGED files, BusKnown',
           NEW r \in Requests, NEW pc, NEW patch, NEW copy, Moves(r, pc, patch, copy),
           HeldKnown(r)'
    PROVE  VersionsInv'
<1>1. Known(files)'
  BY DEF VersionsInv, Known, SentSettings
<1>2. ASSUME NEW q \in Requests PROVE HeldKnown(q)'
  <2>1. CASE q = r
    BY <2>1
  <2>2. CASE q # r
    BY <2>2 DEF Moves, VersionsInv, HeldKnown, Known, SentSettings, In
  <2> QED
    BY <2>1, <2>2
<1> QED
  BY <1>1, <1>2 DEF VersionsInv

LEMMA VersionsNext == TypeInv /\ VersionsInv /\ [Next]_vars => VersionsInv'
<1> SUFFICES ASSUME TypeInv, VersionsInv, [Next]_vars PROVE VersionsInv'
  OBVIOUS
(* A request of whose hold nothing is asked moves.                          *)
<1>1. ASSUME NEW r \in Requests, NEW pc, pc \notin {"reading", "read"},
             NEW patch, NEW copy, Moves(r, pc, patch, copy),
             UNCHANGED <<files, bus, sent>>, versions \subseteq versions'
      PROVE  VersionsInv'
  <2>1. BusKnown'
    BY <1>1, BusKnownShrinks
  <2>2. HeldKnown(r)'
    BY <1>1 DEF Moves, HeldKnown, In
  <2> QED
    BY <1>1, <2>1, <2>2, VersionsMove
<1>2. ASSUME NEW r \in Requests, NEW p \in Patches, LoadRow(r, p) PROVE VersionsInv'
  <2>1. UNCHANGED <<files, bus, sent, versions>>
    BY <1>2 DEF LoadRow
  <2> QED
    BY <1>1, <1>2, <2>1, RequestsMove
<1>3. ASSUME NEW r \in Requests, CommitRow(r) PROVE VersionsInv'
  <2>1. /\ versions \subseteq versions' /\ UNCHANGED <<files, sent>>
        /\ SettingsOf(row') \in versions'
    BY <1>3 DEF CommitRow
  <2>2. CASE ~SettingsGiven(req[r].patch)
    BY <1>1, <1>3, <2>1, <2>2, RequestsMove DEF CommitRow
  <2>3. CASE SettingsGiven(req[r].patch)
    <3>1. Send(r, "READ", Null) /\ Moves(r, "reading", req[r].patch, row')
      BY <1>3, <2>3, RequestsMove DEF CommitRow
    <3>2. BusKnown'
      BY <2>1, <3>1, BusKnownGrows
    <3>3. HeldKnown(r)'
      BY <2>1, <3>1 DEF Moves, HeldKnown, In, Known
    <3> QED
      BY <2>1, <3>1, <3>2, <3>3, VersionsMove
  <2> QED
    BY <2>2, <2>3
<1>4. ASSUME NEW r \in Requests, GetFiles(r) PROVE VersionsInv'
  <2>1. Send(r, "READ", Null) /\ UNCHANGED <<files, versions, sent>>
    BY <1>4 DEF GetFiles, history
  <2>2. Moves(r, "getting", Null, req[r].copy)
    BY <1>4, RequestsMove
  <2>3. BusKnown'
    BY <2>1, BusKnownGrows
  <2>4. HeldKnown(r)'
    BY <2>2 DEF Moves, HeldKnown, In
  <2> QED
    BY <2>1, <2>2, <2>3, <2>4, VersionsMove
<1>5. ASSUME NEW r \in Requests, NEW e \in Edits, PutFiles(r, e) PROVE VersionsInv'
  <2>0. PICK b \in FilesShape : b = EditOf(r, e)
    BY BodiesTyped DEF TypeInv, ValuesOK
  <2>1. /\ Send(r, "WRITE", b) /\ UNCHANGED <<files, versions>>
        /\ sent' = sent \cup {b}
    BY <1>5, <2>0 DEF PutFiles
  <2>2. Moves(r, "writing", Null, req[r].copy)
    BY <1>5, RequestsMove
  <2>3. SettingsOf(b) \in (versions \cup SentSettings)'
    BY <2>1 DEF SentSettings
  <2>4. BusKnown'
    BY <2>1, <2>3, BusKnownGrows
  <2>5. HeldKnown(r)'
    BY <2>2 DEF Moves, HeldKnown, In
  <2> QED
    BY <2>1, <2>2, <2>4, <2>5, VersionsMove
<1>6. ASSUME NEW r \in Requests, SyncFiles(r) PROVE VersionsInv'
  <2>1. /\ req[r].copy.read \in FilesShape /\ req[r].copy.row \in RowShape
        /\ Known(req[r].copy.row)
    BY <1>6 DEF SyncFiles, TypeInv, HoldsOK, VersionsInv, HeldKnown
  <2>2. PICK b \in FilesShape : b = Merged(req[r].copy.read, req[r].copy.row)
    BY <2>1, BodiesTyped
  <2>3. Send(r, "WRITE", b) /\ UNCHANGED <<files, versions, sent>>
    BY <1>6, <2>2 DEF SyncFiles, history
  <2>4. SettingsOf(b) \in (versions \cup SentSettings)'
    BY <2>1, <2>2, <2>3, SettingsKept DEF Known, SentSettings
  <2>5. Moves(r, "writing", req[r].patch, Null)
    BY <1>6, RequestsMove
  <2>6. BusKnown'
    BY <2>3, <2>4, BusKnownGrows
  <2>7. HeldKnown(r)'
    BY <2>5 DEF Moves, HeldKnown, In
  <2> QED
    BY <2>3, <2>5, <2>6, <2>7, VersionsMove
<1>8. ASSUME NEW r \in Requests, LoadColumn(r) PROVE VersionsInv'
  <2>1. UNCHANGED <<files, bus, sent, versions>>
    BY <1>8 DEF LoadColumn
  <2> QED
    BY <1>1, <1>8, <2>1, RequestsMove
<1>9. ASSUME NEW r \in Requests, CommitColumn(r) PROVE VersionsInv'
  <2>1. UNCHANGED <<files, bus, sent, versions>>
    BY <1>9 DEF CommitColumn
  <2> QED
    BY <1>1, <1>9, <2>1, RequestsMove
<1>10. ASSUME NEW r \in Requests, NotFound(r) \/ Timeout(r) \/ Abort(r)
       PROVE  VersionsInv'
  <2>1. UNCHANGED <<files, bus, sent, versions>>
    BY <1>10 DEF NotFound, Timeout, Abort, GiveUp, history
  <2> QED
    BY <1>1, <1>10, <2>1, TypeOfFailures
<1>11. ASSUME ExecuteRead PROVE VersionsInv'
  <2>1. Agent /\ UNCHANGED <<files, versions, sent>>
    BY <1>11 DEF Agent, ExecuteRead, history
  <2>2. BusKnown'
    BY <2>1, BusTaken, BusKnownShrinks
  <2>3. ASSUME NEW q \in Requests PROVE HeldKnown(q)'
    <3>1. CASE req'[q] = req[q]
      BY <2>1, <3>1 DEF VersionsInv, HeldKnown, In, Known, SentSettings
    <3>2. CASE req'[q].pc = "done"
      BY <3>2 DEF HeldKnown, In
    <3>3. CASE req'[q] # req[q] /\ req'[q].pc # "done"
      <4>1. /\ q = Executed.req /\ In(q, {"reading"})
            /\ Moves(q, "read", req[q].patch, [row |-> req[q].copy, read |-> files])
        BY <1>11, <3>3, AnswersMove DEF Moves
      <4>2. Known(req[q].copy)
        BY <4>1 DEF VersionsInv, HeldKnown
      <4> QED
        BY <2>1, <4>1, <4>2 DEF Moves, HeldKnown, In, Known, SentSettings
    <3> QED
      BY <3>1, <3>2, <3>3
  <2> QED
    BY <2>1, <2>2, <2>3 DEF VersionsInv, Known, SentSettings
<1>12. ASSUME ExecuteWrite PROVE VersionsInv'
  <2>1. Agent /\ UNCHANGED <<versions, sent>>
    BY <1>12 DEF Agent, ExecuteWrite
  <2>2. BusKnown'
    BY <2>1, BusTaken, BusKnownShrinks
  <2>3. Known(files)'
    BY <1>12, HeadOfBus
    DEF ExecuteWrite, VersionsInv, BusKnown, Known, SentSettings, Writes
  <2>4. ASSUME NEW q \in Requests PROVE HeldKnown(q)'
    <3>1. req'[q] = req[q] \/ req'[q].pc = "done"
      BY <1>12, AnswersMove DEF Moves
    <3> QED
      BY <2>1, <3>1 DEF VersionsInv, HeldKnown, In, Known, SentSettings
  <2> QED
    BY <2>2, <2>3, <2>4 DEF VersionsInv
<1>13. CASE Lose \/ RestartAgent
  <2>1. Agent /\ UNCHANGED <<files, versions, sent, req>>
    BY <1>13 DEF Agent, Lose, RestartAgent, history
  <2>2. BusKnown'
    BY <2>1, BusTaken, BusKnownShrinks
  <2> QED
    BY <2>1, <2>2 DEF VersionsInv, Known, SentSettings, HeldKnown, In
<1>14. CASE DeleteRow \/ UNCHANGED vars
  <2>1. UNCHANGED <<files, versions, sent, req, bus>>
    BY <1>14 DEF DeleteRow, vars, history
  <2> QED
    BY <2>1 DEF VersionsInv, Known, SentSettings, HeldKnown, BusKnown, Writes, In
<1> QED
  BY <1>2, <1>3, <1>4, <1>5, <1>6, <1>8, <1>9, <1>10, <1>11, <1>12, <1>13, <1>14
  DEF Next, Begin, Agent, Handle

LEMMA VersionsInit == Init => VersionsInv
<1> SUFFICES ASSUME Init PROVE VersionsInv
  OBVIOUS
<1>1. Known(files)
  BY DEF Init, Known, SettingsOf
<1>2. Len(bus) = 0 /\ \A r \in Requests : In(r, {"idle"})
  BY DEF Init, In, Idle
<1> QED
  BY <1>1, <1>2 DEF VersionsInv, BusKnown, HeldKnown, In

(* Every step commits a version, sends one, writes one of these, or stutters. *)
LEMMA MirrorStep ==
    TypeInv /\ TypeInv' /\ VersionsInv /\ VersionsInv' /\ [Next]_vars =>
        [Mirror!Next]_<<versions, SentSettings, SettingsOf(files)>>
<1> SUFFICES ASSUME TypeInv, TypeInv', VersionsInv, VersionsInv', [Next]_vars
             PROVE  [Mirror!Next]_<<versions, SentSettings, SettingsOf(files)>>
  OBVIOUS
<1> DEFINE FileSettings == [max : Maxes \cup {Null}, sensors : Sensors \cup {Null}]
<1>0. \A f \in FilesShape : SettingsOf(f) \in FileSettings
  BY DEF FilesShape, SettingsOf
<1>1. ASSUME NEW r \in Requests, CommitRow(r) PROVE Mirror!Next
  <2>1. SettingsOf(row') \in FileSettings
    BY DEF TypeInv, ValuesOK, RowShape, SettingsOf
  <2>2. Mirror!Commit(SettingsOf(row'))
    BY <1>1 DEF CommitRow, Mirror!Commit
  <2> QED
    BY <2>1, <2>2 DEF Mirror!Next
<1>2. ASSUME NEW r \in Requests, NEW e \in Edits, PutFiles(r, e) PROVE Mirror!Next
  <2>0. PICK b \in FilesShape : b = EditOf(r, e)
    BY BodiesTyped DEF TypeInv, ValuesOK
  <2>1. sent' = sent \cup {b} /\ UNCHANGED <<versions, files>>
    BY <1>2, <2>0 DEF PutFiles
  <2>2. {SettingsOf(f) : f \in sent'} = {SettingsOf(f) : f \in sent} \cup {SettingsOf(b)}
    BY <2>1
  <2>3. Mirror!Put(SettingsOf(b))
    BY <2>1, <2>2 DEF Mirror!Put
  <2> QED
    BY <1>0, <2>0, <2>3 DEF Mirror!Next
<1>3. ASSUME ExecuteWrite PROVE Mirror!Next
  <2>1. SettingsOf(files') \in FileSettings
    BY <1>0 DEF TypeInv, ValuesOK
  <2>2. UNCHANGED <<versions, sent>>
    BY <1>3 DEF ExecuteWrite
  <2>3. SettingsOf(files') \in versions \cup {SettingsOf(f) : f \in sent}
    BY <2>2 DEF VersionsInv, Known, SentSettings
  <2>4. Mirror!Write(SettingsOf(files'))
    BY <2>2, <2>3 DEF Mirror!Write
  <2> QED
    BY <2>1, <2>4 DEF Mirror!Next
<1>4. CASE /\ ~ExecuteWrite
           /\ \A r \in Requests : ~CommitRow(r) /\ \A e \in Edits : ~PutFiles(r, e)
  <2>1. UNCHANGED <<versions, sent, files>>
    <3>1. CASE ExecuteRead \/ Lose \/ RestartAgent \/ DeleteRow \/ UNCHANGED vars
      BY <3>1 DEF ExecuteRead, Lose, RestartAgent, DeleteRow, vars, history
    <3>2. ASSUME NEW r \in Requests, Begin(r) PROVE UNCHANGED <<versions, sent, files>>
      BY <1>4, <3>2 DEF Begin, LoadRow, GetFiles, LoadColumn, history
    <3>3. ASSUME NEW r \in Requests, Handle(r) \/ Abort(r)
          PROVE  UNCHANGED <<versions, sent, files>>
      BY <1>4, <3>3 DEF Handle, SyncFiles, CommitColumn,
         NotFound, Timeout, Abort, GiveUp, history
    <3> QED
      BY <1>4, <3>1, <3>2, <3>3 DEF Next, Agent
  <2> QED
    BY <2>1 DEF SentSettings
<1> QED
  BY <1>1, <1>2, <1>3, <1>4

(***************************************************************************)
(* The synchronisation implements ConfigMirror: the settings in the        *)
(* agent's files are always one whole version of the row's or, whole, what *)
(* an administrator sent, whatever overlaps, is lost or is executed late.  *)
(***************************************************************************)
THEOREM Refinement == Spec => MirrorsRow
<1>1. Init => Mirror!Init
  BY InitialAssumption DEF Init, Mirror!Init, SettingsOf
<1>2. UNCHANGED <<versions, SentSettings, SettingsOf(files)>> <=>
      UNCHANGED <<versions, {SettingsOf(f) : f \in sent}, SettingsOf(files)>>
  BY DEF SentSettings
<1> QED
  BY <1>1, <1>2, VersionsInit, VersionsNext, TypeInvariant, MirrorStep, PTL
  DEF Spec, MirrorsRow, Mirror!Spec

-----------------------------------------------------------------------------
(* Requests that crossed no other.                                         *)

(* No request comes to the agent.                                           *)
LEMMA SoloLeaves ==
    ASSUME Solo, UNCHANGED crossed, \A q \in Requests : In(q, AtAgent)' => In(q, AtAgent)
    PROVE  Solo'
<1> SUFFICES ASSUME NEW r \in WithAgent', r \notin crossed PROVE WithAgent' = {r}
  BY DEF Solo
<1>1. \A q \in WithAgent' : q \in WithAgent
  BY DEF WithAgent, In, AtAgent
<1>2. WithAgent = {r}
  BY <1>1 DEF Solo
<1> QED
  BY <1>1, <1>2

(* One comes, where it is alone or crosses.                                 *)
LEMMA SoloArrives ==
    ASSUME Solo, NEW q \in Requests, NEW pc \in AtAgent, NEW patch, NEW copy,
           Moves(q, pc, patch, copy), MeetAgent(q)
    PROVE  Solo'
<1>1. WithAgent' = WithAgent \cup {q}
  BY DEF WithAgent, In, Moves, AtAgent
<1>2. CASE WithAgent = {}
  BY <1>1, <1>2 DEF Solo
<1>3. CASE WithAgent # {}
  BY <1>1, <1>3 DEF Solo, MeetAgent
<1> QED
  BY <1>2, <1>3

LEMMA SoloNext == TypeInv /\ Solo /\ [Next]_vars => Solo'
<1> SUFFICES ASSUME TypeInv, Solo, [Next]_vars PROVE Solo'
  OBVIOUS
<1>0. "reading" \in AtAgent /\ "writing" \in AtAgent
  BY DEF AtAgent
<1>1. ASSUME NEW q \in Requests, NEW p \in Patches, LoadRow(q, p) PROVE Solo'
  BY <1>1, RequestsMove, SoloLeaves DEF LoadRow, AtAgent, Moves, In
<1>2. ASSUME NEW q \in Requests, CommitRow(q) PROVE Solo'
  <2>1. CASE SettingsGiven(req[q].patch)
    BY <1>0, <1>2, <2>1, RequestsMove, SoloArrives DEF CommitRow
  <2>2. CASE ~SettingsGiven(req[q].patch)
    <3>1. UNCHANGED crossed /\ Moves(q, "done", req[q].patch, Null)
      BY <1>2, <2>2, RequestsMove DEF CommitRow
    <3> QED
      BY <3>1, SoloLeaves DEF AtAgent, Moves, In
  <2> QED
    BY <2>1, <2>2
<1>3. ASSUME NEW q \in Requests, NEW e \in Edits, PutFiles(q, e) PROVE Solo'
  BY <1>0, <1>3, RequestsMove, SoloArrives DEF PutFiles
<1>4. ASSUME NEW q \in Requests, GetFiles(q) \/ LoadColumn(q) \/ CommitColumn(q)
      PROVE  Solo'
  <2>1. UNCHANGED crossed
    BY <1>4 DEF GetFiles, LoadColumn, CommitColumn, history
  <2> QED
    BY <1>4, <2>1, RequestsMove, SoloLeaves DEF AtAgent, Moves, In
<1>5. ASSUME NEW q \in Requests, SyncFiles(q) PROVE Solo'
  <2>1. UNCHANGED crossed /\ In(q, {"read"})
    BY <1>5 DEF SyncFiles, history
  <2> QED
    BY <1>5, <2>1, RequestsMove, SoloLeaves DEF AtAgent, Moves, In
<1>6. ASSUME NEW q \in Requests, NotFound(q) \/ Timeout(q) \/ Abort(q) PROVE Solo'
  <2>1. UNCHANGED crossed
    BY <1>6 DEF NotFound, Timeout, Abort, GiveUp, history
  <2> QED
    BY <1>6, <2>1, TypeOfFailures, SoloLeaves DEF AtAgent, Moves, In
<1>7. CASE Agent
  <2>1. UNCHANGED crossed
    BY <1>7 DEF Agent, ExecuteRead, ExecuteWrite, Lose, RestartAgent, history
  <2>2. \A q \in Requests : In(q, AtAgent)' => In(q, AtAgent)
    BY <1>7, AnswersMove DEF Agent, Moves, In, AtAgent, Lose, RestartAgent
  <2> QED
    BY <2>1, <2>2, SoloLeaves
<1>8. CASE DeleteRow \/ UNCHANGED vars
  <2>1. UNCHANGED <<req, crossed>>
    BY <1>8 DEF DeleteRow, vars, history
  <2> QED
    BY <2>1, SoloLeaves DEF In
<1> QED
  BY <1>1, <1>2, <1>3, <1>4, <1>5, <1>6, <1>7, <1>8 DEF Next, Begin, Handle

-----------------------------------------------------------------------------
(* The administrator's edits.                                              *)

Edited == OrderInv /\ EditsInv

(* What the bus carried keeps its kind and what it brings.                  *)
LEMMA KindStays ==
    ASSUME TypeInv, NEW i \in 1..Len(bus), NEW c, c = bus[i],
           NEW q \in Requests, NEW pc, NEW patch, NEW copy, Moves(q, pc, patch, copy),
           patch = req[q].patch \/ In(q, {"idle", "patching", "posting"})
    PROVE  /\ IsPut(c)' <=> IsPut(c)
           /\ IsSync(c)' <=> IsSync(c)
<1>1. c.req \in Requests /\ SentOK(c)
  BY OnBus
<1>2. req'[c.req].patch = req[c.req].patch
  BY <1>1 DEF Moves, SentOK, In
<1> QED
  BY <1>2 DEF IsPut, IsSync, Writes

(* Steps that only send reads, if anything.                                 *)
LEMMA EditsStay ==
    ASSUME TypeInv, Edited, UNCHANGED <<files, edited>>, crossed \subseteq crossed',
           NEW q \in Requests, NEW pc, pc # "read", NEW patch, NEW copy,
           Moves(q, pc, patch, copy),
           patch = req[q].patch \/ In(q, {"idle", "patching", "posting"}),
           pc = "reading" => In(q, {"patching"}),
           UNCHANGED bus \/ Send(q, "READ", Null)
    PROVE  Edited'
<1>1. /\ Len(bus) \in Nat /\ Len(bus') \in {Len(bus), Len(bus) + 1}
      /\ \A i \in 1..Len(bus') : \/ i \in 1..Len(bus) /\ bus'[i] = bus[i]
                                 \/ i = Len(bus) + 1 /\ bus'[i].command = "READ"
  <2>0. bus \in Seq(Command)
    BY DEF TypeInv
  <2>1. CASE UNCHANGED bus
    BY <2>0, <2>1
  <2>2. CASE Send(q, "READ", Null)
    <3>1. /\ Len(bus') = Len(bus) + 1 /\ Len(bus) \in Nat
          /\ bus'[Len(bus')] = [req |-> q, command |-> "READ", body |-> Null]
          /\ \A i \in 1..Len(bus) : bus'[i] = bus[i]
      BY <2>0, <2>2, SentOnBus
    <3>2. bus'[Len(bus) + 1].command = "READ"
      BY <3>1
    <3>3. \A i \in 1..Len(bus') : i = Len(bus) + 1 \/ i \in 1..Len(bus)
      BY <3>1
    <3> QED
      BY <3>1, <3>2, <3>3
  <2> QED
    BY <2>1, <2>2
<1>2. ASSUME NEW i \in 1..Len(bus'), Writes(bus'[i])
      PROVE  /\ i \in 1..Len(bus) /\ bus'[i] = bus[i]
             /\ IsPut(bus[i])' <=> IsPut(bus[i])
             /\ IsSync(bus[i])' <=> IsSync(bus[i])
  <2>1. i \in 1..Len(bus) /\ bus'[i] = bus[i]
    BY <1>1, <1>2 DEF Writes
  <2>2. PICK c : c = bus[i]
    OBVIOUS
  <2>3. (IsPut(c)' <=> IsPut(c)) /\ (IsSync(c)' <=> IsSync(c))
    BY <2>1, <2>2, KindStays
  <2> QED
    BY <2>1, <2>2, <2>3 DEF IsPut, IsSync, Writes
<1>3. \A r \in Requests : In(r, {"read"})' => In(r, {"read"}) /\ req'[r] = req[r]
  BY DEF Moves, In
<1>4. ASSUME NEW i \in 1..Len(bus'), IsPut(bus[i])', bus'[i].req \notin crossed'
      PROVE  EditAlone(i)'
  <2>1. i \in 1..Len(bus) /\ EditAlone(i)
    BY <1>2, <1>4 DEF Edited, OrderInv, IsPut, Writes
  <2>2. \A r \in Requests : ~In(r, {"read"})'
    BY <1>3, <2>1 DEF EditAlone
  <2>3. ASSUME NEW k \in 1..Len(bus'), k < i PROVE ~In(bus[k].req, {"reading"})'
    <3>1. k \in 1..Len(bus) /\ bus'[k] = bus[k] /\ ~In(bus[k].req, {"reading"})
      BY <1>1, <2>1, <2>3 DEF EditAlone
    <3>2. bus[k].req \in Requests /\ SentOK(bus[k])
      BY <3>1, OnBus
    <3> QED
      BY <3>1, <3>2 DEF Moves, In, SentOK
  <2>4. ASSUME NEW k \in 1..Len(bus'), i < k PROVE ~IsSync(bus[k])'
    <3>1. CASE Writes(bus'[k])
      BY <1>2, <2>1, <2>4, <3>1 DEF EditAlone
    <3>2. CASE ~Writes(bus'[k])
      BY <3>2 DEF IsSync, Writes
    <3> QED
      BY <3>1, <3>2
  <2> QED
    BY <2>2, <2>3, <2>4 DEF EditAlone
<1>5. OrderInv'
  BY <1>4 DEF OrderInv
<1>6. EditsInv'
  <2> SUFFICES ASSUME edited \notin crossed' PROVE EditsInv'
    BY DEF EditsInv
  <2>1. edited \notin crossed /\ files'.rest = edited
    BY DEF Edited, EditsInv
  <2>2. \A r \in Requests : In(r, {"read"})' => req'[r].copy.read.rest = edited
    BY <1>3, <2>1 DEF Edited, EditsInv
  <2>3. ASSUME NEW i \in 1..Len(bus'), IsSync(bus[i])' PROVE bus'[i].body.rest = edited
    BY <1>2, <2>1, <2>3 DEF Edited, EditsInv, IsSync, Writes
  <2> QED
    BY <2>1, <2>2, <2>3 DEF EditsInv
<1> QED
  BY <1>5, <1>6 DEF Edited

(* A step that sends a write: old commands stay as they were.               *)
LEMMA WriteSent ==
    ASSUME TypeInv, NEW q \in Requests, NEW b \in FilesShape, Send(q, "WRITE", b),
           NEW pc, NEW patch, NEW copy, Moves(q, pc, patch, copy),
           patch = req[q].patch \/ In(q, {"idle", "patching", "posting"})
    PROVE  /\ Len(bus) \in Nat /\ Len(bus') = Len(bus) + 1
           /\ bus'[Len(bus')] = [req |-> q, command |-> "WRITE", body |-> b]
           /\ \A i \in 1..Len(bus) :
                 /\ bus'[i] = bus[i]
                 /\ IsPut(bus[i])' <=> IsPut(bus[i])
                 /\ IsSync(bus[i])' <=> IsSync(bus[i])
<1>1. /\ Len(bus') = Len(bus) + 1 /\ Len(bus) \in Nat
      /\ bus'[Len(bus')] = [req |-> q, command |-> "WRITE", body |-> b]
      /\ \A i \in 1..Len(bus) : bus'[i] = bus[i]
  BY SentOnBus DEF TypeInv
<1>2. ASSUME NEW i \in 1..Len(bus)
      PROVE  /\ IsPut(bus[i])' <=> IsPut(bus[i])
             /\ IsSync(bus[i])' <=> IsSync(bus[i])
  <2>1. PICK c : c = bus[i]
    OBVIOUS
  <2>2. (IsPut(c)' <=> IsPut(c)) /\ (IsSync(c)' <=> IsSync(c))
    BY <2>1, KindStays
  <2>3. bus'[i] = bus[i]
    BY <1>1
  <2> QED
    BY <2>1, <2>2, <2>3 DEF IsPut, IsSync, Writes
<1> QED
  BY <1>1, <1>2

(* An edit is sent: it crosses, or nobody is with the agent.                *)
LEMMA EditsSent ==
    ASSUME TypeInv, Edited, NEW q \in Requests, NEW e \in Edits, PutFiles(q, e)
    PROVE  Edited'
<1>0. PICK b \in FilesShape : b = EditOf(q, e) /\ Send(q, "WRITE", b)
  BY BodiesTyped DEF TypeInv, ValuesOK, PutFiles
<1>1. /\ Moves(q, "writing", Null, req[q].copy) /\ MeetAgent(q) /\ In(q, {"idle"})
      /\ UNCHANGED <<files, edited>>
  BY RequestsMove DEF PutFiles, Begins
<1>2. /\ Len(bus) \in Nat /\ Len(bus') = Len(bus) + 1
      /\ bus'[Len(bus')] = [req |-> q, command |-> "WRITE", body |-> b]
      /\ \A i \in 1..Len(bus) :
            /\ bus'[i] = bus[i]
            /\ IsPut(bus[i])' <=> IsPut(bus[i])
            /\ IsSync(bus[i])' <=> IsSync(bus[i])
  BY <1>0, <1>1, WriteSent DEF In
<1>3. crossed \subseteq crossed' /\ (q \notin crossed' => WithAgent = {})
  BY <1>1 DEF MeetAgent
<1>4. ~IsSync(bus[Len(bus)])'
  BY <1>1, <1>2 DEF IsSync, Moves
<1>5. \A r \in Requests : In(r, {"read", "reading"})' => In(r, {"read", "reading"})
                                                         /\ req'[r] = req[r]
  BY <1>1 DEF Moves, In
<1>6. ASSUME NEW i \in 1..Len(bus'), IsPut(bus[i])', bus'[i].req \notin crossed'
      PROVE  EditAlone(i)'
  <2>1. CASE i \in 1..Len(bus)
    <3>1. EditAlone(i)
      BY <1>2, <1>3, <1>6, <2>1 DEF Edited, OrderInv
    <3>2. \A r \in Requests : ~In(r, {"read"})'
      BY <1>5, <3>1 DEF EditAlone, In
    <3>3. ASSUME NEW k \in 1..Len(bus'), k < i PROVE ~In(bus[k].req, {"reading"})'
      <4>1. k \in 1..Len(bus) /\ bus'[k] = bus[k] /\ ~In(bus[k].req, {"reading"})
        BY <1>2, <2>1, <3>1, <3>3 DEF EditAlone
      <4>2. bus[k].req \in Requests
        BY <4>1, OnBus
      <4> QED
        BY <1>5, <4>1, <4>2 DEF In
    <3>4. ASSUME NEW k \in 1..Len(bus'), i < k PROVE ~IsSync(bus[k])'
      <4>1. CASE k \in 1..Len(bus)
        BY <1>2, <3>1, <3>4, <4>1 DEF EditAlone
      <4>2. CASE k = Len(bus')
        BY <1>4, <4>2
      <4> QED
        BY <1>2, <4>1, <4>2
    <3> QED
      BY <3>2, <3>3, <3>4 DEF EditAlone
  <2>2. CASE i = Len(bus')
    <3>1. \A r \in Requests : ~In(r, {"read", "reading"})
      BY <1>2, <1>3, <1>6, <2>2 DEF WithAgent, In
    <3>2. \A r \in Requests : ~In(r, {"read"})' /\ ~In(r, {"reading"})'
      BY <1>5, <3>1 DEF In
    <3>3. ASSUME NEW k \in 1..Len(bus'), k < i PROVE ~In(bus[k].req, {"reading"})'
      <4>1. k \in 1..Len(bus)
        BY <1>2, <2>2, <3>3
      <4>2. bus[k].req \in Requests /\ bus'[k] = bus[k]
        BY <1>2, <4>1, OnBus
      <4> QED
        BY <3>2, <4>2 DEF In
    <3>4. \A k \in 1..Len(bus') : ~(i < k)
      BY <1>2, <2>2
    <3> QED
      BY <3>2, <3>3, <3>4 DEF EditAlone
  <2> QED
    BY <1>2, <2>1, <2>2
<1>7. OrderInv'
  BY <1>6 DEF OrderInv
<1>8. EditsInv'
  <2> SUFFICES ASSUME edited \notin crossed' PROVE EditsInv'
    BY <1>1 DEF EditsInv
  <2>1. edited \notin crossed /\ files'.rest = edited'
    BY <1>1, <1>3 DEF Edited, EditsInv
  <2>2. \A r \in Requests : In(r, {"read"})' => req'[r].copy.read.rest = edited'
    BY <1>1, <1>5, <2>1 DEF Edited, EditsInv, In
  <2>3. ASSUME NEW i \in 1..Len(bus'), IsSync(bus[i])' PROVE bus'[i].body.rest = edited'
    <3>1. i \in 1..Len(bus)
      BY <1>2, <1>4, <2>3
    <3> QED
      BY <1>1, <1>2, <2>1, <2>3, <3>1 DEF Edited, EditsInv
  <2> QED
    BY <2>1, <2>2, <2>3 DEF EditsInv
<1> QED
  BY <1>7, <1>8 DEF Edited

(* A synchronisation writes back what it read.                              *)
LEMMA EditsSynced ==
    ASSUME TypeInv, Edited, NEW q \in Requests, SyncFiles(q)
    PROVE  Edited'
<1>0. /\ In(q, {"read"}) /\ req[q].patch # Null /\ req[q].copy.read \in FilesShape
      /\ req[q].copy.row \in RowShape
  BY DEF SyncFiles, TypeInv, HoldsOK
<1>1. PICK b \in FilesShape :
          Send(q, "WRITE", b) /\ b.rest = req[q].copy.read.rest
  BY <1>0, BodiesTyped DEF SyncFiles
<1>2. Moves(q, "writing", req[q].patch, Null) /\ UNCHANGED <<files, edited, crossed>>
  BY RequestsMove DEF SyncFiles, history
<1>3. /\ Len(bus) \in Nat /\ Len(bus') = Len(bus) + 1
      /\ bus'[Len(bus')] = [req |-> q, command |-> "WRITE", body |-> b]
      /\ \A i \in 1..Len(bus) :
            /\ bus'[i] = bus[i]
            /\ IsPut(bus[i])' <=> IsPut(bus[i])
            /\ IsSync(bus[i])' <=> IsSync(bus[i])
  BY <1>1, <1>2, WriteSent
<1>4. OrderInv'
  <2> SUFFICES ASSUME NEW i \in 1..Len(bus'), IsPut(bus[i])', bus'[i].req \notin crossed'
               PROVE  FALSE
    BY DEF OrderInv
  <2>1. i # Len(bus')
    BY <1>0, <1>2, <1>3 DEF IsPut, Moves
  <2>2. i \in 1..Len(bus) /\ EditAlone(i)
    BY <1>2, <1>3, <2>1 DEF Edited, OrderInv
  <2> QED
    BY <1>0, <2>2 DEF EditAlone
<1>5. EditsInv'
  <2> SUFFICES ASSUME edited \notin crossed PROVE EditsInv'
    BY <1>2 DEF EditsInv
  <2>1. \A r \in Requests : In(r, {"read"})' => req'[r].copy.read.rest = edited'
    BY <1>2 DEF Edited, EditsInv, In, Moves
  <2>2. ASSUME NEW i \in 1..Len(bus'), IsSync(bus[i])' PROVE bus'[i].body.rest = edited'
    <3>1. CASE i = Len(bus')
      BY <1>0, <1>1, <1>2, <1>3, <3>1 DEF Edited, EditsInv
    <3>2. CASE i \in 1..Len(bus)
      BY <1>2, <1>3, <2>2, <3>2 DEF Edited, EditsInv
    <3> QED
      BY <1>3, <3>1, <3>2
  <2> QED
    BY <1>2, <2>1, <2>2 DEF Edited, EditsInv
<1> QED
  BY <1>4, <1>5 DEF Edited

(***************************************************************************)
(* What is taken from the bus leaves the rest of it, in order; no request  *)
(* begins to wait and none changes its kind.                               *)
(***************************************************************************)
LEMMA BusAdvances ==
    ASSUME TypeInv, Agent
    PROVE  /\ UNCHANGED <<row, crossed, latest, sent>>
           /\ \A q \in Requests :
                 /\ req'[q].patch = req[q].patch
                 /\ \/ req'[q] = req[q]
                    \/ req'[q].pc = "done"
                    \/ /\ ExecuteRead /\ q = Executed.req /\ In(q, {"reading"})
                       /\ req'[q].pc = "read"
                       /\ req'[q].copy.row = req[q].copy /\ req'[q].copy.read = files
           /\ Len(bus') \in Nat
           /\ \A i \in 1..Len(bus') :
                 /\ i + 1 \in 1..Len(bus) /\ bus'[i] = bus[i + 1]
                 /\ IsPut(bus[i])' <=> IsPut(bus[i + 1])
                 /\ IsSync(bus[i])' <=> IsSync(bus[i + 1])
<1>1. UNCHANGED <<row, crossed, latest, sent>>
  BY DEF Agent, ExecuteRead, ExecuteWrite, Lose, RestartAgent, history
<1>2. ASSUME NEW q \in Requests
      PROVE  /\ req'[q].patch = req[q].patch
             /\ \/ req'[q] = req[q]
                \/ req'[q].pc = "done"
                \/ /\ ExecuteRead /\ q = Executed.req /\ In(q, {"reading"})
                   /\ req'[q].pc = "read"
                   /\ req'[q].copy.row = req[q].copy /\ req'[q].copy.read = files
  <2>1. CASE Lose \/ RestartAgent
    BY <2>1 DEF Lose, RestartAgent
  <2>2. CASE ExecuteRead
    BY <2>2, AnswersMove DEF Moves
  <2>3. CASE ExecuteWrite
    BY <2>3, AnswersMove DEF Moves
  <2> QED
    BY <2>1, <2>2, <2>3 DEF Agent
<1>3. /\ Len(bus') \in Nat
      /\ \A i \in 1..Len(bus') : i + 1 \in 1..Len(bus) /\ bus'[i] = bus[i + 1]
  <2>1. bus # << >> /\ (bus' = Tail(bus) \/ bus' = << >>)
    BY BusTaken
  <2>2. CASE bus' = Tail(bus)
    <3>1. Len(bus) \in Nat /\ bus # << >> /\ bus \in Seq(Command)
      BY <2>1 DEF TypeInv
    <3>2. Len(bus') \in Nat
      BY <2>2, <3>1
    <3> QED
      BY <2>1, <2>2, <3>2, TailOfBus DEF TypeInv
  <2>3. CASE bus' = << >>
    <3>1. Len(bus') = 0
      BY <2>3
    <3> QED
      BY <3>1
  <2> QED
    BY <2>1, <2>2, <2>3
<1>4. ASSUME NEW i \in 1..Len(bus')
      PROVE  /\ IsPut(bus[i])' <=> IsPut(bus[i + 1])
             /\ IsSync(bus[i])' <=> IsSync(bus[i + 1])
  <2>1. i + 1 \in 1..Len(bus) /\ bus'[i] = bus[i + 1]
    BY <1>3
  <2>2. bus[i + 1].req \in Requests
    BY <2>1, OnBus
  <2> QED
    BY <1>2, <2>1, <2>2 DEF IsPut, IsSync, Writes
<1> QED
  BY <1>1, <1>2, <1>3, <1>4

LEMMA OrderTaken ==
    ASSUME TypeInv, OrderInv, Agent
    PROVE  OrderInv'
<1> SUFFICES ASSUME NEW i \in 1..Len(bus'), IsPut(bus[i])', bus'[i].req \notin crossed'
             PROVE  EditAlone(i)'
  BY DEF OrderInv
<1>1. i + 1 \in 1..Len(bus) /\ EditAlone(i + 1)
  BY BusAdvances DEF OrderInv
<1>2. i \in Nat \ {0} /\ Len(bus') \in Nat
  BY BusAdvances
<1>3. ASSUME NEW r \in Requests PROVE ~In(r, {"read"})'
  <2>1. ExecuteRead => ~In(Executed.req, {"reading"})
    <3>1. bus # << >> /\ 1 < i + 1
      BY <1>1, <1>2
    <3>2. Executed = bus[1] /\ 1 \in 1..Len(bus)
      BY <3>1, HeadOfBus
    <3> QED
      BY <1>1, <3>1, <3>2 DEF EditAlone
  <2> QED
    BY <1>1, <2>1, BusAdvances DEF EditAlone, In
<1>4. ASSUME NEW k \in 1..Len(bus'), k < i PROVE ~In(bus[k].req, {"reading"})'
  <2>1. k + 1 \in 1..Len(bus) /\ bus'[k] = bus[k + 1] /\ k + 1 < i + 1
    BY <1>2, <1>4, BusAdvances
  <2>2. bus[k + 1].req \in Requests /\ ~In(bus[k + 1].req, {"reading"})
    BY <1>1, <2>1, OnBus DEF EditAlone
  <2> QED
    BY <2>1, <2>2, BusAdvances DEF In
<1>5. ASSUME NEW k \in 1..Len(bus'), i < k PROVE ~IsSync(bus[k])'
  <2>1. k + 1 \in 1..Len(bus) /\ i + 1 < k + 1
    BY <1>2, <1>5, BusAdvances
  <2> QED
    BY <1>1, <2>1, BusAdvances DEF EditAlone
<1> QED
  BY <1>3, <1>4, <1>5 DEF EditAlone

LEMMA EditsTaken ==
    ASSUME TypeInv, Edited, Agent
    PROVE  EditsInv'
<1>0. OrderInv /\ EditsInv /\ UNCHANGED crossed
  BY BusAdvances DEF Edited
<1>1. CASE ~ExecuteWrite
  <2>1. UNCHANGED <<files, edited>>
    BY <1>1 DEF Agent, ExecuteRead, Lose, RestartAgent, history
  <2> SUFFICES ASSUME edited \notin crossed PROVE EditsInv'
    BY <1>0, <2>1 DEF EditsInv
  <2>2. ASSUME NEW r \in Requests, In(r, {"read"})' PROVE req'[r].copy.read.rest = edited
    BY <1>0, <2>2, BusAdvances DEF EditsInv, In
  <2>3. ASSUME NEW i \in 1..Len(bus'), IsSync(bus[i])' PROVE bus'[i].body.rest = edited
    BY <1>0, <2>3, BusAdvances DEF EditsInv
  <2> QED
    BY <1>0, <2>1, <2>2, <2>3 DEF EditsInv
<1>2. CASE ExecuteWrite
  <2>1. PICK c : c = bus[1] /\ c = Executed /\ 1 \in 1..Len(bus) /\ SentOK(c)
                 /\ Writes(c) /\ files' = c.body /\ c.req \in Requests
    BY <1>2, HeadOfBus DEF ExecuteWrite, Writes
  <2>2. ASSUME NEW r \in Requests, In(r, {"read"})'
        PROVE  In(r, {"read"}) /\ req'[r] = req[r]
    BY <1>2, <2>1, <2>2, BusAdvances DEF In, ExecuteRead, Writes
  <2>3. CASE IsPut(c)
    <3>1. edited' = c.req /\ files'.rest = c.req
      BY <1>2, <2>1, <2>3 DEF ExecuteWrite, IsPut, SentOK
    <3> SUFFICES ASSUME c.req \notin crossed PROVE EditsInv'
      BY <1>0, <3>1 DEF EditsInv
    <3>2. EditAlone(1)
      BY <1>0, <2>1, <2>3 DEF OrderInv
    <3>3. \A r \in Requests : ~In(r, {"read"})'
      BY <2>2, <3>2 DEF EditAlone
    <3>4. ASSUME NEW i \in 1..Len(bus') PROVE ~IsSync(bus[i])'
      <4>1. i + 1 \in 1..Len(bus) /\ 1 < i + 1
        BY BusAdvances
      <4> QED
        BY <3>2, <4>1, BusAdvances DEF EditAlone
    <3> QED
      BY <3>1, <3>3, <3>4 DEF EditsInv
  <2>4. CASE IsSync(c)
    <3>1. edited' = edited
      BY <1>2, <2>1, <2>4 DEF ExecuteWrite, IsSync
    <3> SUFFICES ASSUME edited \notin crossed PROVE EditsInv'
      BY <1>0, <3>1 DEF EditsInv
    <3>2. files'.rest = edited
      BY <1>0, <2>1, <2>4 DEF EditsInv
    <3>3. \A r \in Requests : In(r, {"read"})' => req'[r].copy.read.rest = edited
      BY <1>0, <2>2 DEF EditsInv
    <3>4. ASSUME NEW i \in 1..Len(bus'), IsSync(bus[i])' PROVE bus'[i].body.rest = edited
      BY <1>0, <3>4, BusAdvances DEF EditsInv
    <3> QED
      BY <3>1, <3>2, <3>3, <3>4 DEF EditsInv
  <2> QED
    BY <2>1, <2>3, <2>4 DEF IsPut, IsSync
<1> QED
  BY <1>1, <1>2

LEMMA EditsNext == TypeInv /\ Edited /\ [Next]_vars => Edited'
<1> SUFFICES ASSUME TypeInv, Edited, [Next]_vars PROVE Edited'
  OBVIOUS
<1>1. ASSUME NEW q \in Requests, NEW p \in Patches, LoadRow(q, p) PROVE Edited'
  <2>1. UNCHANGED <<files, edited, crossed, bus>> /\ In(q, {"idle", "patching", "posting"})
    BY <1>1 DEF LoadRow, Begins, In
  <2> QED
    BY <1>1, <2>1, RequestsMove, EditsStay
<1>2. ASSUME NEW q \in Requests, CommitRow(q) PROVE Edited'
  <2>1. /\ UNCHANGED <<files, edited>> /\ In(q, {"patching"})
        /\ crossed \subseteq crossed'
    BY <1>2 DEF CommitRow, MeetAgent
  <2>2. CASE SettingsGiven(req[q].patch)
    <3>1. Send(q, "READ", Null)
      BY <1>2, <2>2 DEF CommitRow
    <3> QED
      BY <1>2, <2>1, <2>2, <3>1, RequestsMove, EditsStay
  <2>3. CASE ~SettingsGiven(req[q].patch)
    <3>1. UNCHANGED bus
      BY <1>2, <2>3 DEF CommitRow
    <3> QED
      BY <1>2, <2>1, <2>3, <3>1, RequestsMove, EditsStay
  <2> QED
    BY <2>2, <2>3
<1>3. ASSUME NEW q \in Requests, GetFiles(q) PROVE Edited'
  <2>1. /\ UNCHANGED <<files, edited, crossed>> /\ In(q, {"idle", "patching", "posting"})
        /\ Send(q, "READ", Null)
    BY <1>3 DEF GetFiles, Begins, In, history
  <2> QED
    BY <1>3, <2>1, RequestsMove, EditsStay
<1>4. ASSUME NEW q \in Requests, LoadColumn(q) PROVE Edited'
  <2>1. UNCHANGED <<files, edited, crossed, bus>> /\ In(q, {"idle", "patching", "posting"})
    BY <1>4 DEF LoadColumn, Begins, In
  <2> QED
    BY <1>4, <2>1, RequestsMove, EditsStay
<1>5. ASSUME NEW q \in Requests, CommitColumn(q) PROVE Edited'
  <2>1. UNCHANGED <<files, edited, crossed, bus>>
    BY <1>5 DEF CommitColumn
  <2> QED
    BY <1>5, <2>1, RequestsMove, EditsStay
<1>6. ASSUME NEW q \in Requests, NotFound(q) \/ Timeout(q) \/ Abort(q) PROVE Edited'
  <2>1. UNCHANGED <<bus, crossed, files, edited>>
    BY <1>6 DEF NotFound, Timeout, Abort, GiveUp, history
  <2> QED
    BY <1>6, <2>1, TypeOfFailures, EditsStay
<1>7. CASE Agent
  BY <1>7, OrderTaken, EditsTaken DEF Edited
<1>8. CASE DeleteRow \/ UNCHANGED vars
  <2>1. UNCHANGED <<bus, req, crossed, files, edited>>
    BY <1>8 DEF DeleteRow, vars, history
  <2> QED
    BY <2>1 DEF Edited, OrderInv, EditsInv, EditAlone, IsPut, IsSync, Writes, In
<1> QED
  BY <1>1, <1>2, <1>3, <1>4, <1>5, <1>6, <1>7, <1>8, EditsSent, EditsSynced
  DEF Next, Begin, Handle

(***************************************************************************)
(* What an administrator sent by a request that overlapped no other writer *)
(* of the files stays there, outside the settings and the identity,        *)
(* whatever PATCHes come, overlap each other, fail or are executed late.   *)
(***************************************************************************)
THEOREM EditsPreserved == Spec => []EditsKept
<1>1. Init => Edited
  <2> SUFFICES ASSUME Init PROVE Edited
    OBVIOUS
  <2>1. Len(bus) = 0 /\ files.rest = edited
    BY DEF Init
  <2>2. \A r \in Requests : In(r, {"idle"})
    BY DEF Init, Idle, In
  <2> QED
    BY <2>1, <2>2 DEF Edited, OrderInv, EditsInv, In
<1>2. Edited => EditsKept
  BY DEF Edited, EditsInv, EditsKept
<1> QED
  BY <1>1, <1>2, EditsNext, TypeInvariant, PTL DEF Spec

-----------------------------------------------------------------------------
(* The last PATCH that named settings.                                     *)

LEMMA PatchStays ==
    ASSUME PatchInv, SettingsOf(row') = SettingsOf(row),
           \A q \in Requests : In(q, {"patching"})' =>
               In(q, {"patching"}) /\ req'[q].copy = req[q].copy
    PROVE  PatchInv'
BY DEF PatchInv, AsRow

LEMMA PatchNext == TypeInv /\ PatchInv /\ [Next]_vars => PatchInv'
<1> SUFFICES ASSUME TypeInv, PatchInv, [Next]_vars PROVE PatchInv'
  OBVIOUS
<1>1. ASSUME NEW r \in Requests, NEW p \in Patches, LoadRow(r, p) PROVE PatchInv'
  <2>1. Moves(r, "patching", p, row)
    BY <1>1, RequestsMove
  <2>2. \A q \in Requests : In(q, {"patching"})' => q = r
    BY <1>1, <2>1 DEF LoadRow, LoopFree, Moves, In
  <2> QED
    BY <1>1, <2>1, <2>2 DEF LoadRow, Moves, PatchInv, AsRow
<1>2. ASSUME NEW r \in Requests, CommitRow(r) PROVE PatchInv'
  <2>1. \/ Moves(r, "reading", req[r].patch, row')
        \/ Moves(r, "done", req[r].patch, Null)
    BY <1>2, RequestsMove
  <2>2. \A q \in Requests : ~In(q, {"patching"})'
    BY <1>2, <2>1 DEF CommitRow, PatchInv, Moves, In
  <2> QED
    BY <2>2 DEF PatchInv
<1>3. ASSUME NEW r \in Requests, CommitColumn(r) PROVE PatchInv'
  BY <1>3, EventKeepsSettings, RequestsMove, PatchStays DEF Moves, In
<1>4. ASSUME NEW r \in Requests,
             \/ GetFiles(r) \/ LoadColumn(r) \/ SyncFiles(r)
             \/ \E e \in Edits : PutFiles(r, e)
      PROVE  PatchInv'
  <2>1. UNCHANGED row
    BY <1>4 DEF GetFiles, LoadColumn, PutFiles, SyncFiles
  <2> QED
    BY <1>4, <2>1, RequestsMove, PatchStays DEF Moves, In
<1>5. ASSUME NEW r \in Requests, NotFound(r) \/ Timeout(r) \/ Abort(r) PROVE PatchInv'
  <2>1. UNCHANGED row
    BY <1>5 DEF NotFound, Timeout, Abort, GiveUp
  <2> QED
    BY <1>5, <2>1, TypeOfFailures, PatchStays DEF Moves, In
<1>6. CASE ExecuteRead \/ ExecuteWrite
  <2>1. UNCHANGED row
    BY <1>6 DEF ExecuteRead, ExecuteWrite
  <2> QED
    BY <1>6, <2>1, AnswersMove, PatchStays DEF Moves, In
<1>7. CASE Lose \/ RestartAgent \/ DeleteRow \/ UNCHANGED vars
  <2>1. UNCHANGED <<row, req>>
    BY <1>7 DEF Lose, RestartAgent, DeleteRow, vars
  <2> QED
    BY <2>1, PatchStays DEF In
<1> QED
  BY <1>1, <1>2, <1>3, <1>4, <1>5, <1>6, <1>7 DEF Next, Begin, Agent, Handle

(* Settings that are not named are those of the row the request loaded.     *)
LEMMA UnnamedKeepsSettings ==
    ASSUME TypeInv, PatchInv, NEW r \in Requests, CommitRow(r), ~Names(req[r].patch)
    PROVE  SettingsOf(row') = SettingsOf(row)
<1> DEFINE p == req[r].patch
           c == req[r].copy
<1>1. c \in RowShape /\ row \in RowShape /\ AsRow(c)
  BY DEF CommitRow, TypeInv, ValuesOK, HoldsOK, PatchInv
<1>2. p["max"] = Null /\ p["sensors"] = Null
  BY DEF Names
<1>3. Settled(c, p).max = c.max /\ Settled(c, p).sensors = c.sensors
  BY <1>2 DEF Settled
<1>4. row'.max = row.max /\ row'.sensors = row.sensors
  BY <1>1, <1>3, UpdatedFields DEF CommitRow, Flushed, RowShape
<1> QED
  BY <1>4 DEF SettingsOf

LEMMA NamesGiven ==
    ASSUME NEW p \in Patches
    PROVE  Names(p) <=> SettingsGiven(p)
BY DEF Names, SettingsGiven

(* The order in which requests begin.                                       *)
LEMMA OrderNext == TypeInv /\ InOrder /\ [Next]_vars => InOrder'
<1> SUFFICES ASSUME TypeInv, InOrder, [Next]_vars PROVE InOrder'
  OBVIOUS
<1>0. \A q \in Requests : q \in Int
  BY DEF Requests
<1>1. ASSUME NEW r \in Requests, Begin(r) PROVE InOrder'
  <2>1. /\ \A q \in Requests \ {r} : req'[q] = req[q]
        /\ ~In(r, {"idle"})'
    BY <1>1, RequestsMove DEF Begin, Moves, In
  <2>2. \A q \in Requests : q < r => ~In(q, {"idle"})
    <3>1. \A q \in Requests : q < r => q \in 1..(r - 1)
      BY RequestsBound DEF Requests
    <3> QED
      BY <1>1, <3>1 DEF Begin, LoadRow, GetFiles, PutFiles, LoadColumn, Begins
  <2> QED
    BY <2>1, <2>2 DEF InOrder, In
<1>2. ASSUME \A q \in Requests : In(q, {"idle"})' <=> In(q, {"idle"}) PROVE InOrder'
  BY <1>2 DEF InOrder
<1>3. ASSUME NEW r \in Requests, Handle(r) \/ Abort(r) PROVE InOrder'
  <2>1. ~In(r, {"idle"})
    BY <1>3 DEF Handle, CommitRow, SyncFiles, CommitColumn, NotFound, Timeout, Abort,
       Awaiting, In
  <2>2. ~In(r, {"idle"})' /\ \A q \in Requests \ {r} : req'[q] = req[q]
    BY <1>3, RequestsMove, TypeOfFailures DEF Handle, Moves, In
  <2> QED
    BY <1>2, <2>1, <2>2 DEF In
<1>4. CASE Agent
  BY <1>2, <1>4, AnswersMove DEF Agent, Moves, In, Lose, RestartAgent
<1>5. CASE DeleteRow \/ UNCHANGED vars
  <2>1. UNCHANGED req
    BY <1>5 DEF DeleteRow, vars
  <2> QED
    BY <1>2, <2>1 DEF In
<1> QED
  BY <1>1, <1>3, <1>4, <1>5 DEF Next

(* What a step that leaves files, settings and bus keeps.                   *)
LEMMA BusFollows ==
    ASSUME TypeInv, UNCHANGED <<files, sent, bus>>, SettingsOf(row') = SettingsOf(row),
           NEW l \in Requests,
           NEW q \in Requests, NEW pc, NEW patch, NEW copy, Moves(q, pc, patch, copy),
           patch = req[q].patch \/ In(q, {"idle", "patching", "posting"})
    PROVE  /\ WritesLast(l) => WritesLast(l)'
           /\ FollowsOrEdited(l) => FollowsOrEdited(l)'
           /\ EditsLater(l) => EditsLater(l)'
<1>1. ASSUME NEW i \in 1..Len(bus') PROVE IsPut(bus[i])' <=> IsPut(bus[i])
  <2>1. PICK c : c = bus[i]
    OBVIOUS
  <2>2. IsPut(c)' <=> IsPut(c)
    BY <2>1, KindStays
  <2> QED
    BY <2>1, <2>2 DEF IsPut, Writes
<1>2. WritesLast(l) => WritesLast(l)'
  BY DEF WritesLast, AsRow, Writes
<1>3. FollowsOrEdited(l) => FollowsOrEdited(l)'
  BY DEF FollowsOrEdited, Synced
<1>4. EditsLater(l) => EditsLater(l)'
  BY <1>1 DEF EditsLater, Writes
<1> QED
  BY <1>2, <1>3, <1>4

(* A request fails, or one that is not with the agent moves to where it is *)
(* not either.                                                              *)
LEMMA LatestElsewhere ==
    ASSUME TypeInv, LatestInv, UNCHANGED <<latest, files, sent, bus>>,
           SettingsOf(row') = SettingsOf(row), crossed \subseteq crossed',
           NEW q \in Requests, NEW pc, NEW patch, NEW copy, Moves(q, pc, patch, copy),
           \/ pc = "failed" /\ patch = req[q].patch
           \/ pc \notin AtAgent /\ In(q, {"idle", "patching", "posting"})
    PROVE  LatestInv'
<1> SUFFICES ASSUME latest # Null PROVE LatestInv'
  BY DEF LatestInv
<1>0. latest \in Requests
  BY DEF TypeInv, ValuesOK
<1>1. q = latest => pc = "failed" /\ patch = req[q].patch
  BY DEF LatestInv, In, AtAgent
<1>2. /\ req'[latest].patch # Null
      /\ In(latest, AtAgent \cup {"done", "failed"})'
  BY <1>0, <1>1 DEF LatestInv, Moves, In
<1>3. ASSUME latest \notin crossed' PROVE Follows(latest)'
  <2>1. Follows(latest)
    BY <1>3 DEF LatestInv
  <2>2. CASE q = latest
    BY <1>1, <2>2 DEF Follows, Moves, In
  <2>3. CASE q # latest
    <3>1. /\ WritesLast(latest) => WritesLast(latest)'
          /\ FollowsOrEdited(latest) => FollowsOrEdited(latest)'
          /\ EditsLater(latest) => EditsLater(latest)'
      <4>1. PICK l \in Requests : l = latest
        BY <1>0
      <4>2. /\ WritesLast(l) => WritesLast(l)'
            /\ FollowsOrEdited(l) => FollowsOrEdited(l)'
            /\ EditsLater(l) => EditsLater(l)'
        BY BusFollows
      <4> QED
        BY <4>1, <4>2 DEF WritesLast, FollowsOrEdited, EditsLater
    <3>2. \A x \in Requests : In(x, AtAgent)' => In(x, AtAgent) /\ req'[x] = req[x]
      BY DEF Moves, In, AtAgent
    <3>3. req'[latest] = req[latest]
      BY <1>0, <2>3 DEF Moves
    <3> QED
      BY <2>1, <3>1, <3>2, <3>3 DEF Follows, In, AsRow
  <2> QED
    BY <2>2, <2>3
<1> QED
  BY <1>2, <1>3 DEF LatestInv

(* The administrator asks for the files: the bus gets a read.               *)
LEMMA LatestGet ==
    ASSUME TypeInv, LatestInv, NEW q \in Requests, GetFiles(q)
    PROVE  LatestInv'
<1> SUFFICES ASSUME latest # Null PROVE LatestInv'
  BY DEF LatestInv, GetFiles, history
<1>0. latest \in Requests /\ UNCHANGED <<row, files, latest, sent, crossed>>
  BY DEF TypeInv, ValuesOK, GetFiles, history
<1>1. Moves(q, "getting", Null, req[q].copy) /\ Send(q, "READ", Null) /\ In(q, {"idle"})
  BY RequestsMove DEF GetFiles, Begins
<1>2. q # latest /\ req'[latest] = req[latest]
  BY <1>0, <1>1 DEF LatestInv, In, AtAgent, Moves
<1>3. /\ Len(bus') = Len(bus) + 1 /\ Len(bus) \in Nat
      /\ bus'[Len(bus')] = [req |-> q, command |-> "READ", body |-> Null]
      /\ \A i \in 1..Len(bus) : bus'[i] = bus[i]
  BY <1>1, SentOnBus DEF TypeInv
<1>4. ASSUME NEW i \in 1..Len(bus'), Writes(bus'[i])
      PROVE  i \in 1..Len(bus) /\ bus'[i] = bus[i] /\ (IsPut(bus[i]) => IsPut(bus[i])')
  <2>1. i \in 1..Len(bus) /\ bus'[i] = bus[i]
    BY <1>3, <1>4 DEF Writes
  <2>2. PICK c : c = bus[i]
    OBVIOUS
  <2>3. IsPut(c)' <=> IsPut(c)
    BY <1>1, <2>1, <2>2, KindStays DEF In
  <2> QED
    BY <2>1, <2>2, <2>3 DEF IsPut, Writes
<1>5. ASSUME latest \notin crossed' PROVE Follows(latest)'
  <2>1. Follows(latest)
    BY <1>0, <1>5 DEF LatestInv
  <2>2. WritesLast(latest) => WritesLast(latest)'
    BY <1>0, <1>4 DEF WritesLast, AsRow
  <2>3. EditsLater(latest) => EditsLater(latest)'
    BY <1>0, <1>4 DEF EditsLater
  <2>4. \A x \in Requests : In(x, AtAgent)' => In(x, AtAgent) /\ req'[x] = req[x]
    BY <1>1 DEF Moves, In, AtAgent
  <2> QED
    BY <1>0, <1>2, <2>1, <2>2, <2>3, <2>4
    DEF Follows, FollowsOrEdited, Synced, In, AsRow
<1> QED
  BY <1>0, <1>2, <1>5 DEF LatestInv, In

(* The administrator sends files: he crosses the last PATCH or comes later. *)
LEMMA LatestPut ==
    ASSUME TypeInv, InOrder, LatestInv, NEW q \in Requests, NEW e \in Edits,
           PutFiles(q, e)
    PROVE  LatestInv'
<1> SUFFICES ASSUME latest # Null PROVE LatestInv'
  BY DEF LatestInv, PutFiles
<1>0. latest \in Requests /\ UNCHANGED <<row, files, latest>> /\ sent \subseteq sent'
  BY DEF TypeInv, ValuesOK, PutFiles
<1>1. Moves(q, "writing", Null, req[q].copy) /\ MeetAgent(q) /\ In(q, {"idle"})
  BY RequestsMove DEF PutFiles, Begins
<1>2. q # latest /\ req'[latest] = req[latest] /\ latest < q
  <2>1. q # latest /\ ~In(latest, {"idle"})
    BY <1>1 DEF LatestInv, In, AtAgent
  <2>2. ~(q < latest) /\ q \in Int /\ latest \in Int
    BY <1>0, <1>1, <2>1 DEF InOrder, Requests
  <2> QED
    BY <1>0, <1>1, <2>1, <2>2 DEF Moves
<1>3. PICK b \in FilesShape : b = EditOf(q, e) /\ Send(q, "WRITE", b)
  BY BodiesTyped DEF TypeInv, ValuesOK, PutFiles
<1>4. /\ Len(bus) \in Nat /\ Len(bus') = Len(bus) + 1
      /\ bus'[Len(bus')] = [req |-> q, command |-> "WRITE", body |-> b]
      /\ \A i \in 1..Len(bus) : bus'[i] = bus[i] /\ (IsPut(bus[i])' <=> IsPut(bus[i]))
  BY <1>1, <1>3, WriteSent DEF In
<1>5. ASSUME latest \notin crossed' PROVE Follows(latest)'
  <2>1. latest \notin crossed /\ latest \notin WithAgent
    BY <1>1, <1>5 DEF MeetAgent
  <2>2. ~In(latest, AtAgent) /\ Follows(latest)
    BY <1>0, <2>1 DEF LatestInv, WithAgent, In, AtAgent
  <2>3. EditsLater(latest) => EditsLater(latest)'
    <3> SUFFICES ASSUME EditsLater(latest), NEW i \in 1..Len(bus'), Writes(bus'[i])
                 PROVE  IsPut(bus[i])' /\ latest < bus'[i].req
      BY <1>0 DEF EditsLater
    <3>1. CASE i \in 1..Len(bus)
      BY <1>4, <3>1 DEF EditsLater, Writes
    <3>2. CASE i = Len(bus')
      BY <1>1, <1>2, <1>4, <3>2 DEF IsPut, Moves
    <3> QED
      BY <1>4, <3>1, <3>2
  <2>4. FollowsOrEdited(latest) => FollowsOrEdited(latest)'
    BY <1>0 DEF FollowsOrEdited, Synced
  <2>5. (\A x \in Requests : In(x, AtAgent) => req[x].patch = Null) =>
            \A x \in Requests : In(x, AtAgent)' => req'[x].patch = Null
    BY <1>1 DEF Moves, In
  <2> QED
    BY <1>0, <1>2, <2>2, <2>3, <2>4, <2>5 DEF Follows, In, AtAgent
<1> QED
  BY <1>0, <1>2, <1>5 DEF LatestInv, In

(* A PATCH that names settings becomes the last one.                        *)
LEMMA LatestCommit ==
    ASSUME TypeInv, LatestInv, PatchInv, NEW r \in Requests, CommitRow(r)
    PROVE  LatestInv'
<1> DEFINE p == req[r].patch
<1>1. p \in Patches /\ In(r, {"patching"}) /\ r # Null
  BY NullAssumption DEF CommitRow, TypeInv, HoldsOK
<1>2. CASE Names(p)
  <2>1. Moves(r, "reading", p, row') /\ latest' = r
    BY <1>1, <1>2, NamesGiven, RequestsMove DEF CommitRow
  <2> QED
    BY <1>1, <2>1, NullAssumption DEF LatestInv, Follows, Moves, In, AtAgent, AsRow
<1>3. CASE ~Names(p)
  <2>1. Moves(r, "done", p, Null) /\ UNCHANGED <<latest, files, sent, bus, crossed>>
    BY <1>1, <1>3, NamesGiven, RequestsMove DEF CommitRow
  <2>2. SettingsOf(row') = SettingsOf(row)
    BY <1>3, UnnamedKeepsSettings
  <2>3. "done" \notin AtAgent /\ In(r, {"idle", "patching", "posting"})
    BY <1>1 DEF AtAgent, In
  <2> QED
    BY <2>1, <2>2, <2>3, LatestElsewhere
<1> QED
  BY <1>2, <1>3

(* The last PATCH, alone with the agent, writes the settings of the row.    *)
LEMMA LatestSync ==
    ASSUME TypeInv, Solo, LatestInv, NEW q \in Requests, SyncFiles(q)
    PROVE  LatestInv'
<1> SUFFICES ASSUME latest # Null PROVE LatestInv'
  BY DEF LatestInv, SyncFiles, history
<1>0. latest \in Requests /\ UNCHANGED <<row, files, sent, latest, crossed>>
  BY DEF TypeInv, ValuesOK, SyncFiles, history
<1>1. /\ In(q, {"read"}) /\ req[q].patch # Null
      /\ req[q].copy.read \in FilesShape /\ req[q].copy.row \in RowShape
      /\ Moves(q, "writing", req[q].patch, Null)
  BY RequestsMove DEF SyncFiles, TypeInv, HoldsOK
<1>2. PICK b \in FilesShape :
          /\ Send(q, "WRITE", b) /\ SettingsOf(b) = SettingsOf(req[q].copy.row)
          /\ b.uuid = "own"
  BY <1>1, BodiesTyped, SettingsKept DEF SyncFiles
<1>3. /\ Len(bus) \in Nat /\ Len(bus') = Len(bus) + 1
      /\ bus'[Len(bus')] = [req |-> q, command |-> "WRITE", body |-> b]
      /\ \A i \in 1..Len(bus) : bus'[i] = bus[i]
  BY <1>1, <1>2, WriteSent
<1>4. ASSUME latest \notin crossed PROVE Follows(latest)'
  <2>1. Follows(latest) /\ (latest \in WithAgent => WithAgent = {latest})
    BY <1>4 DEF LatestInv, Solo
  <2>2. CASE q = latest
    <3>1. AsRow(b)
      BY <1>1, <1>2, <2>1, <2>2 DEF Follows, AsRow
    <3>2. ASSUME NEW i \in 1..Len(bus'), Writes(bus'[i]), bus'[i].req = latest
          PROVE  i = Len(bus')
      <4>1. ASSUME i \in 1..Len(bus) PROVE FALSE
        BY <1>1, <1>3, <2>2, <3>2, <4>1, OnBus DEF SentOK, In, Writes
      <4> QED
        BY <1>3, <4>1
    <3>3. WritesLast(latest)'
      <4> SUFFICES ASSUME NEW i \in 1..Len(bus'), Writes(bus'[i]), bus'[i].req = latest
                   PROVE  /\ AsRow(b)' /\ bus'[i].body = b
                          /\ \A k \in 1..Len(bus') : ~(i < k)
        BY <1>0, <1>2 DEF WritesLast, AsRow
      <4>1. i = Len(bus') /\ Len(bus') \in Nat
        BY <1>3, <3>2
      <4> QED
        BY <1>0, <1>3, <3>1, <4>1 DEF AsRow
    <3> QED
      BY <1>0, <1>1, <2>2, <3>3 DEF Follows, Moves, In
  <2>3. CASE q # latest
    <3>1. latest \notin WithAgent /\ ~In(latest, {"done"})
      BY <1>1, <2>1, <2>3 DEF WithAgent, In, Follows, AtAgent
    <3>2. req'[latest] = req[latest] /\ ~In(latest, AtAgent \cup {"done"})
      BY <1>0, <1>1, <2>3, <3>1 DEF Moves, WithAgent, In, AtAgent
    <3> QED
      BY <1>0, <3>2 DEF Follows, In, AtAgent
  <2> QED
    BY <2>2, <2>3
<1> QED
  BY <1>0, <1>1, <1>4 DEF LatestInv, Moves, In, AtAgent

(* The agent takes a command.                                               *)
LEMMA LatestAgent ==
    ASSUME TypeInv, Solo, LatestInv, Agent
    PROVE  LatestInv'
<1> SUFFICES ASSUME latest # Null PROVE LatestInv'
  BY BusAdvances DEF LatestInv
<1>0. latest \in Requests /\ UNCHANGED <<row, latest, crossed, sent>>
  BY BusAdvances DEF TypeInv, ValuesOK
<1>1. \A q \in Requests :
          /\ req'[q].patch = req[q].patch
          /\ \/ req'[q] = req[q]
             \/ req'[q].pc = "done"
             \/ /\ In(q, {"reading"}) /\ req'[q].pc = "read"
                /\ req'[q].copy.row = req[q].copy
  BY BusAdvances
<1>2. ASSUME NEW i \in 1..Len(bus')
      PROVE  /\ i \in Nat /\ i + 1 \in 1..Len(bus) /\ bus'[i] = bus[i + 1]
             /\ IsPut(bus[i])' <=> IsPut(bus[i + 1])
  BY BusAdvances
<1>3. WritesLast(latest) => WritesLast(latest)'
  <2> SUFFICES ASSUME WritesLast(latest), NEW i \in 1..Len(bus'),
                      Writes(bus'[i]), bus'[i].req = latest
               PROVE  /\ AsRow(bus'[i].body) /\ bus'[i].body.uuid = "own"
                      /\ \A k \in 1..Len(bus') : i < k => ~Writes(bus'[k])
    BY <1>0 DEF WritesLast, AsRow, Writes
  <2>1. AsRow(bus'[i].body) /\ bus'[i].body.uuid = "own"
    BY <1>2 DEF WritesLast
  <2>2. ASSUME NEW k \in 1..Len(bus'), i < k PROVE ~Writes(bus'[k])
    <3>1. i + 1 < k + 1
      BY <1>2, <2>2
    <3> QED
      BY <1>2, <3>1 DEF WritesLast
  <2> QED
    BY <2>1, <2>2
<1>4. EditsLater(latest) => EditsLater(latest)'
  BY <1>0, <1>2 DEF EditsLater, Writes
<1>5. In(latest, AtAgent \cup {"done", "failed"})'
  BY <1>0, <1>1 DEF LatestInv, In, AtAgent
<1>6. \A x \in Requests : In(x, AtAgent)' => In(x, AtAgent)
  BY <1>1 DEF In, AtAgent
<1>7. files' = files \/ ExecuteWrite
  BY DEF Agent, ExecuteRead, Lose, RestartAgent
<1>8. ASSUME latest \notin crossed PROVE Follows(latest)'
  <2>1. Follows(latest) /\ (latest \in WithAgent => WithAgent = {latest})
    BY <1>8 DEF LatestInv, Solo
(* What is executed once it was answered is a later edit.                   *)
  <2>2. CASE req'[latest] = req[latest]
    <3>1. ASSUME In(latest, {"done"}) PROVE FollowsOrEdited(latest)'
      <4>1. CASE files' = files
        BY <1>0, <2>1, <3>1, <4>1 DEF Follows, FollowsOrEdited, Synced
      <4>2. CASE ExecuteWrite
        <5>1. /\ Executed = bus[1] /\ 1 \in 1..Len(bus) /\ SentOK(bus[1])
              /\ Writes(bus[1]) /\ files' = bus[1].body
          BY <4>2, HeadOfBus DEF ExecuteWrite, Writes
        <5>2. IsPut(bus[1]) /\ latest < bus[1].req
          BY <2>1, <3>1, <5>1 DEF Follows, EditsLater
        <5> QED
          BY <1>0, <5>1, <5>2 DEF FollowsOrEdited, SentOK
      <4> QED
        BY <1>7, <4>1, <4>2
    <3> QED
      BY <1>0, <1>1, <1>3, <1>4, <1>6, <2>1, <2>2, <3>1 DEF Follows, In, AsRow
  <2>3. CASE req'[latest].pc = "read" /\ req'[latest] # req[latest]
    <3>1. In(latest, {"reading"}) /\ req'[latest].copy.row = req[latest].copy
      BY <1>0, <1>1, <2>3
    <3> QED
      BY <1>0, <2>1, <2>3, <3>1 DEF Follows, In, AsRow
(* Its own write is executed, behind which there is none.                   *)
  <2>4. CASE req'[latest].pc = "done" /\ req'[latest] # req[latest]
    <3>1. /\ Executed.req = latest /\ ExecuteWrite /\ In(latest, {"writing"})
      <4>1. ~(Lose \/ RestartAgent)
        BY <2>4 DEF Lose, RestartAgent
      <4>2. ExecuteRead => ~In(latest, {"getting"})
        BY DEF LatestInv, In, AtAgent
      <4> QED
        BY <1>0, <2>4, <4>1, <4>2, AnswersMove DEF Agent, Moves
    <3>2. /\ Executed = bus[1] /\ 1 \in 1..Len(bus)
          /\ Writes(bus[1]) /\ files' = bus[1].body
      BY <3>1, HeadOfBus DEF ExecuteWrite, Writes
    <3>3. /\ AsRow(bus[1].body) /\ bus[1].body.uuid = "own"
          /\ \A k \in 1..Len(bus) : 1 < k => ~Writes(bus[k])
      BY <2>1, <3>1, <3>2 DEF Follows, WritesLast
    <3>4. FollowsOrEdited(latest)'
      BY <1>0, <3>2, <3>3 DEF FollowsOrEdited, Synced, AsRow
    <3>5. EditsLater(latest)'
      <4> SUFFICES ASSUME NEW i \in 1..Len(bus') PROVE ~Writes(bus'[i])
        BY DEF EditsLater, Writes
      <4>1. 1 < i + 1
        OBVIOUS
      <4> QED
        BY <1>2, <3>3, <4>1
    <3>6. ASSUME NEW x \in Requests, In(x, AtAgent)' PROVE FALSE
      <4>1. x \in WithAgent /\ WithAgent = {latest}
        BY <1>0, <1>6, <2>1, <3>1, <3>6 DEF WithAgent, In, AtAgent
      <4> QED
        BY <2>4, <3>6, <4>1 DEF In, AtAgent
    <3> QED
      BY <1>0, <2>4, <3>4, <3>5, <3>6 DEF Follows, In
  <2> QED
    BY <1>0, <1>1, <2>2, <2>3, <2>4
<1> QED
  BY <1>0, <1>1, <1>5, <1>8 DEF LatestInv

LEMMA LatestNext ==
    TypeInv /\ Solo /\ InOrder /\ PatchInv /\ LatestInv /\ [Next]_vars => LatestInv'
<1> SUFFICES ASSUME TypeInv, Solo, InOrder, PatchInv, LatestInv, [Next]_vars
             PROVE  LatestInv'
  OBVIOUS
<1>0. "patching" \notin AtAgent /\ "posting" \notin AtAgent /\ "done" \notin AtAgent
  BY DEF AtAgent
<1>1. ASSUME NEW r \in Requests, NEW p \in Patches, LoadRow(r, p) PROVE LatestInv'
  <2>1. /\ UNCHANGED <<latest, files, sent, bus, row, crossed>>
        /\ In(r, {"idle", "patching", "posting"})
    BY <1>1 DEF LoadRow, Begins, In
  <2> QED
    BY <1>0, <1>1, <2>1, RequestsMove, LatestElsewhere
<1>2. ASSUME NEW r \in Requests, LoadColumn(r) PROVE LatestInv'
  <2>1. /\ UNCHANGED <<latest, files, sent, bus, row, crossed>>
        /\ In(r, {"idle", "patching", "posting"})
    BY <1>2 DEF LoadColumn, Begins, In
  <2> QED
    BY <1>0, <1>2, <2>1, RequestsMove, LatestElsewhere
<1>3. ASSUME NEW r \in Requests, CommitColumn(r) PROVE LatestInv'
  <2>1. /\ UNCHANGED <<latest, files, sent, bus, crossed>>
        /\ In(r, {"idle", "patching", "posting"})
    BY <1>3 DEF CommitColumn, In
  <2> QED
    BY <1>0, <1>3, <2>1, EventKeepsSettings, RequestsMove, LatestElsewhere
<1>4. ASSUME NEW r \in Requests, NotFound(r) \/ Timeout(r) \/ Abort(r) PROVE LatestInv'
  <2>1. UNCHANGED <<latest, files, sent, bus, row, crossed>>
    BY <1>4 DEF NotFound, Timeout, Abort, GiveUp, history
  <2> QED
    BY <1>4, <2>1, TypeOfFailures, LatestElsewhere
<1>5. CASE DeleteRow \/ UNCHANGED vars
  <2>1. UNCHANGED <<row, files, sent, req, bus, latest, crossed>>
    BY <1>5 DEF DeleteRow, vars, history
  <2> QED
    BY <2>1 DEF LatestInv, Follows, WritesLast, EditsLater, FollowsOrEdited, Synced,
       IsPut, Writes, In, AsRow
<1> QED
  BY <1>1, <1>2, <1>3, <1>4, <1>5, LatestGet, LatestPut, LatestCommit, LatestSync,
     LatestAgent
  DEF Next, Begin, Handle

(***************************************************************************)
(* Once the last PATCH that named settings was answered and crossed no     *)
(* other writer, the agent's files have the settings and the identity of   *)
(* the row, or are files that an administrator sent later, whatever was    *)
(* lost or executed late before: repeating a PATCH repairs.                *)
(***************************************************************************)
THEOREM RepeatedPatchRepairs == Spec => []FilesFollowRow
<1>1. Init => Solo /\ InOrder /\ PatchInv /\ LatestInv
  <2> SUFFICES ASSUME Init PROVE Solo /\ InOrder /\ PatchInv /\ LatestInv
    OBVIOUS
  <2>1. \A r \in Requests : In(r, {"idle"})
    BY DEF Init, Idle, In
  <2> QED
    BY <2>1 DEF Init, Solo, WithAgent, InOrder, PatchInv, LatestInv, In
<1>2. LatestInv => FilesFollowRow
  BY DEF LatestInv, Follows, FilesFollowRow, FollowsOrEdited
<1> QED
  BY <1>1, <1>2, SoloNext, OrderNext, PatchNext, LatestNext, TypeInvariant, PTL DEF Spec
=============================================================================
