------------------------- MODULE DeviceEventsProofs -------------------------
(***************************************************************************)
(* Theorems about DeviceEvents, for every set of devices, microcontrollers *)
(* and workers, every request body and every bound.                        *)
(***************************************************************************)
EXTENDS DeviceEvents, TLAPS

-----------------------------------------------------------------------------
(* Types.                                                                  *)

(***************************************************************************)
(* A busy worker holds a body, a device and the row it read; a prepared    *)
(* one that sets a state has a time for it.                                *)
(***************************************************************************)
BusyOK(r) ==
    /\ r.pc # "idle" => /\ r.payload \in Payload
                        /\ r.device \in Devices
                        /\ r.row \in Row
    /\ r.pc # "ready" => r.resolved = Null
    /\ r.resolved # Null => r.stamp \in Time

TypeInv == TypeOK /\ \A w \in Workers : BusyOK(req[w])

(* A body resolves to a state or to nothing (_resolve_state_value).         *)
LEMMA NewStateType ==
    ASSUME NEW p \in Payload
    PROVE  NewState(p) \in State /\ StoredPin(p) \in State
<1>1. StoredPin(p) \in State
  BY DEF Payload, StoredPin
<1>2. TextState(p.text) \in State
  BY DEF TextState, State
<1> QED
  BY <1>1, <1>2 DEF Payload, NewState, ResolveStateValue, State

(* An idle worker has a well-formed record.                                 *)
LEMMA IdleType ==
    ASSUME NEW x \in Rejections \cup {Null}
    PROVE  Idle(x) \in Request /\ BusyOK(Idle(x))
<1>1. MaxLog \in Nat
  BY BoundsAssumption
<1> QED
  BY <1>1 DEF Idle, Request, BusyOK, State, Stamp

(* So has one that has just read the row of its device.                     *)
LEMMA LoadedType ==
    ASSUME TypeInv,
           NEW p \in Payload, NEW a \in BOOLEAN, NEW d \in Devices, Live(d)
    PROVE  Loaded(p, a, d) \in Request /\ BusyOK(Loaded(p, a, d))
<1>1. rows[d] \in Row
  BY DEF TypeInv, TypeOK, Live
<1>2. Len(log) \in 0..MaxLog
  BY BoundsAssumption DEF TypeInv, TypeOK
<1>3. 0 \in 0..MaxLog
  BY BoundsAssumption
<1>4. Loaded(p, a, d) =
         [pc |-> "loaded", reply |-> Null, payload |-> p, agent |-> a,
          device |-> d, row |-> rows[d], seen |-> Len(log), resolved |-> Null,
          stamp |-> Null, base |-> << >>, next |-> << >>, mcseen |-> 0]
  <2>1. PICK q : q = Idle(Null)
    OBVIOUS
  <2>2. q = [pc |-> "idle", reply |-> Null, payload |-> Null, agent |-> FALSE,
             device |-> Null, row |-> Null, seen |-> 0, resolved |-> Null,
             stamp |-> Null, base |-> << >>, next |-> << >>, mcseen |-> 0]
    BY <2>1 DEF Idle
  <2>3. Loaded(p, a, d) =
           [q EXCEPT !.pc = "loaded", !.payload = p, !.agent = a,
                     !.device = d, !.row = rows[d], !.seen = Len(log)]
    BY <2>1 DEF Loaded
  <2> QED
    BY <2>2, <2>3
<1> QED
  BY <1>1, <1>2, <1>3, <1>4 DEF Request, BusyOK, State, Stamp

(* Matches selects rows that exist.                                         *)
LEMMA MatchesLive ==
    ASSUME NEW p, NEW d \in Matches(p)
    PROVE  d \in Devices /\ Live(d)
BY DEF Matches

(* What the rewrite of a list does: the device's objects become its new     *)
(* one, the others stay where they are, and the new one is there.           *)
LEMMA SyncShape ==
    ASSUME NEW L \in Seq(Entry), NEW e, NEW L2, L2 = SyncDeviceConfig(L, e)
    PROVE  /\ \A i \in DOMAIN L :
                 i \in DOMAIN L2 /\ (~OfDevice(L[i], e) => L2[i] = L[i])
           /\ \A i \in DOMAIN L2 :
                 \/ L2[i] = e
                 \/ i \in DOMAIN L /\ ~OfDevice(L[i], e) /\ L2[i] = L[i]
           /\ \E i \in DOMAIN L2 : L2[i] = e
           /\ e \in Entry => L2 \in Seq(Entry)
<1>1. CASE \E i \in DOMAIN L : OfDevice(L[i], e)
  <2>1. L2 = [i \in DOMAIN L |-> IF OfDevice(L[i], e) THEN e ELSE L[i]]
    BY <1>1 DEF SyncDeviceConfig
  <2>2. e \in Entry => L2 \in Seq(Entry)
    BY <2>1
  <2> QED
    BY <1>1, <2>1, <2>2
<1>2. CASE ~\E i \in DOMAIN L : OfDevice(L[i], e)
  <2>1. L2 = Append(L, e)
    BY <1>2 DEF SyncDeviceConfig
  <2>2. /\ DOMAIN L = 1..Len(L) /\ DOMAIN L2 = 1..(Len(L) + 1) /\ Len(L) \in Nat
        /\ L2[Len(L) + 1] = e /\ \A i \in 1..Len(L) : L2[i] = L[i]
        /\ e \in Entry => L2 \in Seq(Entry)
    BY <2>1
  <2>3. \A i \in DOMAIN L2 : i \in DOMAIN L \/ i = Len(L) + 1
    BY <2>2
  <2> QED
    BY <1>2, <2>2, <2>3
<1> QED
  BY <1>1, <1>2

(* The configuration is a list of entries before and after a rewrite.       *)
LEMMA SyncedType ==
    ASSUME TypeInv,
           NEW d \in Devices, NEW n \in Numbers, NEW on \in BOOLEAN
    PROVE  Base(d) \in Seq(Entry) /\ Synced(d, n, on) \in Seq(Entry)
<1>1. Base(d) \in Seq(Entry)
  <2>1. CASE Home[d] = Null
    BY <2>1 DEF Base
  <2>2. CASE Home[d] # Null
    BY <2>2, HomeAssumption DEF Base, TypeInv, TypeOK
  <2> QED
    BY <2>1, <2>2
<1>2. [id |-> d, pin |-> n, is_on |-> on] \in Entry
  BY DEF Entry
<1> QED
  BY <1>1, <1>2, SyncShape DEF Synced

LEMMA TypeInit == Init => TypeInv
<1> SUFFICES ASSUME Init PROVE TypeInv
  OBVIOUS
<1>1. rows \in [Devices -> Row \cup {Null}]
  BY RowsAssumption DEF Init
<1>2. conf \in [Mcs -> Seq(Entry)]
  BY ConfigAssumption DEF Init
<1>3. log \in Seq(LogRecord) /\ Len(log) <= MaxLog
  BY BoundsAssumption DEF Init
<1>4. req \in [Workers -> Request] /\ \A w \in Workers : BusyOK(req[w])
  BY IdleType DEF Init
<1>5. now \in Time
  BY BoundsAssumption DEF Init, Time
<1> QED
  BY <1>1, <1>2, <1>3, <1>4, <1>5 DEF TypeInv, TypeOK

(* What a worker writes in its own record keeps the others'.                *)
LEMMA ReqType ==
    ASSUME TypeInv, NEW w \in Workers, NEW r \in Request, BusyOK(r),
           req' = [req EXCEPT ![w] = r]
    PROVE  req' \in [Workers -> Request] /\ \A v \in Workers : BusyOK(req'[v])
BY DEF TypeInv, TypeOK

LEMMA PrepareType ==
    ASSUME TypeInv, NEW w \in Workers, Prepare(w)
    PROVE  TypeInv'
<1> DEFINE r == req[w]
           s == IF r.agent THEN NewState(r.payload) ELSE Null
           t == IF r.payload.created_at = Null THEN now
                ELSE r.payload.created_at
<1>1. /\ r \in Request /\ BusyOK(r)
      /\ r.pc = "loaded"
      /\ UNCHANGED <<rows, conf, log, now>>
  BY DEF TypeInv, TypeOK, Prepare
<1>2. r.payload \in Payload /\ r.device \in Devices /\ r.row \in Row
  BY <1>1 DEF BusyOK
<1>3. t \in Time
  BY <1>2 DEF TypeInv, TypeOK, Payload, Stamp
<1>4. Len(log) \in 0..MaxLog
  BY BoundsAssumption DEF TypeInv, TypeOK
<1>5. PICK q \in Request : BusyOK(q) /\ req' = [req EXCEPT ![w] = q]
  <2>1. CASE s = Null
    <3> DEFINE q == [r EXCEPT !.pc = "ready"]
    <3>1. req' = [req EXCEPT ![w] = q]
      BY <2>1 DEF Prepare
    <3>2. q \in Request
      BY <1>1 DEF Request
    <3>3. BusyOK(q)
      BY <1>1, <1>2 DEF BusyOK, Request
    <3> QED
      BY <3>1, <3>2, <3>3
  <2>2. CASE s # Null
    <3> DEFINE b == Base(r.device)
               n == Synced(r.device, r.row.number, s)
               q == [r EXCEPT !.pc = "ready", !.resolved = s, !.stamp = t,
                              !.base = b, !.next = n, !.mcseen = Len(log)]
    <3>1. req' = [req EXCEPT ![w] = q]
      BY <2>2 DEF Prepare
    <3>2. s \in BOOLEAN
      BY <2>2, <1>2, NewStateType DEF State
    <3>3. b \in Seq(Entry) /\ n \in Seq(Entry)
      <4>1. r.row.number \in Numbers
        BY <1>2 DEF Row
      <4> QED
        BY <1>2, <3>2, <4>1, SyncedType
    <3> HIDE DEF b, n, s, t
    <3>4. q \in Request
      BY <1>1, <1>3, <1>4, <3>2, <3>3 DEF Request, State, Stamp
    <3>5. BusyOK(q)
      BY <1>1, <1>2, <1>3 DEF BusyOK, Request
    <3> QED
      BY <3>1, <3>4, <3>5
  <2> QED
    BY <2>1, <2>2
<1>6. req' \in [Workers -> Request] /\ \A v \in Workers : BusyOK(req'[v])
  BY <1>5, ReqType
<1> QED
  BY <1>1, <1>6 DEF TypeInv, TypeOK

(* What Prepare does to the request: it goes on with its device and row,    *)
(* and takes a state and a rebuilt configuration, or neither.               *)
LEMMA PrepareShape ==
    ASSUME TypeInv, NEW w \in Workers, Prepare(w)
    PROVE  /\ UNCHANGED <<rows, conf, log, now>>
           /\ \A v \in Workers \ {w} : req'[v] = req[v]
           /\ req[w].pc = "loaded" /\ req'[w].pc = "ready"
           /\ req'[w].payload = req[w].payload /\ req'[w].agent = req[w].agent
           /\ req'[w].device = req[w].device /\ req'[w].row = req[w].row
           /\ req'[w].seen = req[w].seen
           /\ \/ req'[w].resolved = Null /\ req'[w].next = req[w].next
              \/ /\ req[w].agent
                 /\ req'[w].resolved = NewState(req[w].payload)
                 /\ req'[w].base = Base(req[w].device)
                 /\ req'[w].next = Synced(req[w].device, req[w].row.number,
                                          NewState(req[w].payload))
                 /\ req'[w].mcseen = Len(log)
<1> DEFINE r == req[w]
           s == IF r.agent THEN NewState(r.payload) ELSE Null
           t == IF r.payload.created_at = Null THEN now
                ELSE r.payload.created_at
<1>1. /\ r \in Request /\ BusyOK(r)
      /\ r.pc = "loaded"
      /\ UNCHANGED <<rows, conf, log, now>>
  BY DEF TypeInv, TypeOK, Prepare
<1>2. r.resolved = Null
  BY <1>1 DEF BusyOK
<1>3. CASE s = Null
  <2> DEFINE q == [r EXCEPT !.pc = "ready"]
  <2>1. req' = [req EXCEPT ![w] = q]
    BY <1>3 DEF Prepare
  <2>2. /\ q.pc = "ready" /\ q.payload = r.payload /\ q.agent = r.agent
        /\ q.device = r.device /\ q.row = r.row /\ q.seen = r.seen
        /\ q.resolved = Null /\ q.next = r.next
    BY <1>1, <1>2 DEF Request
  <2> HIDE DEF q
  <2> QED
    BY <1>1, <2>1, <2>2 DEF TypeInv, TypeOK
<1>4. CASE s # Null
  <2> DEFINE b == Base(r.device)
             n == Synced(r.device, r.row.number, s)
             q == [r EXCEPT !.pc = "ready", !.resolved = s, !.stamp = t,
                            !.base = b, !.next = n, !.mcseen = Len(log)]
  <2>1. req' = [req EXCEPT ![w] = q]
    BY <1>4 DEF Prepare
  <2>2. /\ q.pc = "ready" /\ q.payload = r.payload /\ q.agent = r.agent
        /\ q.device = r.device /\ q.row = r.row /\ q.seen = r.seen
        /\ q.resolved = s /\ q.base = b /\ q.next = n /\ q.mcseen = Len(log)
    BY <1>1 DEF Request
  <2>3. r.agent /\ s = NewState(r.payload)
    BY <1>4
  <2> HIDE DEF q
  <2> QED
    BY <1>1, <2>1, <2>2, <2>3 DEF TypeInv, TypeOK
<1> QED
  BY <1>3, <1>4

(* The record an event leaves in the log.                                   *)
LEMMA EventRecordType ==
    ASSUME TypeInv, NEW w \in Workers, req[w].pc = "ready"
    PROVE  EventRecord(req[w]) \in LogRecord
<1> DEFINE r == req[w]
           p == IF r.agent THEN StoredPin(r.payload) ELSE r.payload.pin
           c == IF r.payload.created_at = Null THEN now
                ELSE r.payload.created_at
<1>1. r \in Request /\ BusyOK(r)
  BY DEF TypeInv, TypeOK
<1>2. r.payload \in Payload /\ r.device \in Devices /\ r.row \in Row
  BY <1>1 DEF BusyOK
<1>3. p \in State
  BY <1>2, NewStateType DEF Payload
<1>4. c \in Time
  BY <1>2 DEF TypeInv, TypeOK, Payload, Stamp
<1>5. r.row.number \in Numbers
  BY <1>2 DEF Row
<1>6. EventRecord(r) =
        [kind |-> "event", payload |-> r.payload, device |-> r.device,
         number |-> r.row.number, pin |-> p, resolved |-> r.resolved,
         stamp |-> r.stamp, created_at |-> c, seen |-> r.seen,
         mcseen |-> r.mcseen]
  BY DEF EventRecord
<1> HIDE DEF p, c
<1> QED
  BY <1>1, <1>2, <1>3, <1>4, <1>5, <1>6 DEF LogRecord, Request

(* The row a session flushes.                                               *)
LEMMA FlushedRowType ==
    ASSUME TypeInv, NEW w \in Workers, req[w].pc = "ready",
           Live(req[w].device), req[w].resolved # Null
    PROVE  FlushedRow(req[w]) \in Row
<1>1. req[w] \in Request /\ BusyOK(req[w])
  BY DEF TypeInv, TypeOK
<1>2. req[w].device \in Devices
  BY <1>1 DEF BusyOK
<1>3. rows[req[w].device] \in Row
  BY <1>2 DEF TypeInv, TypeOK, Live
<1>4. req[w].resolved \in State /\ req[w].stamp \in Stamp
  BY <1>1 DEF Request
<1> QED
  BY <1>3, <1>4 DEF FlushedRow, Flushed, Row

LEMMA CommitType ==
    ASSUME TypeInv, NEW w \in Workers, Commit(w)
    PROVE  TypeInv'
<1> DEFINE r == req[w]
           d == r.device
           m == Home[d]
<1>1. /\ r \in Request /\ BusyOK(r) /\ r.pc = "ready"
      /\ d \in Devices /\ Live(d) /\ Len(log) < MaxLog
  BY DEF TypeInv, TypeOK, Commit, BusyOK
<1>2. rows' \in [Devices -> Row \cup {Null}]
  <2>1. CASE r.resolved = Null
    BY <2>1 DEF Commit, TypeInv, TypeOK
  <2>2. CASE r.resolved # Null
    <3>1. FlushedRow(r) \in Row
      BY <1>1, <2>2, FlushedRowType
    <3>2. rows' = [rows EXCEPT ![d] = FlushedRow(r)]
      BY <2>2 DEF Commit
    <3> HIDE DEF d, r
    <3> QED
      BY <3>1, <3>2 DEF TypeInv, TypeOK
  <2> QED
    BY <2>1, <2>2
<1>3. conf' \in [Mcs -> Seq(Entry)]
  <2>1. CASE r.resolved = Null \/ m = Null
    BY <2>1 DEF Commit, TypeInv, TypeOK
  <2>2. CASE ~(r.resolved = Null \/ m = Null)
    <3>1. r.next \in Seq(Entry)
      BY <1>1 DEF Request
    <3>2. m \in Mcs
      BY <1>1, <2>2, HomeAssumption
    <3>3. conf[m] \in Seq(Entry)
      BY <3>2 DEF TypeInv, TypeOK
    <3>4. conf' = [conf EXCEPT ![m] = Flushed(conf[m], r.base, r.next)]
      BY <2>2 DEF Commit
    <3>5. Flushed(conf[m], r.base, r.next) \in Seq(Entry)
      BY <3>1, <3>3 DEF Flushed
    <3> QED
      BY <3>4, <3>5 DEF TypeInv, TypeOK
  <2> QED
    BY <2>1, <2>2
<1>4. log' \in Seq(LogRecord) /\ Len(log') <= MaxLog
  <2>1. EventRecord(r) \in LogRecord
    BY <1>1, EventRecordType
  <2>2. log' = Append(log, EventRecord(r))
    BY DEF Commit
  <2> HIDE DEF r
  <2> QED
    BY <1>1, <2>1, <2>2, BoundsAssumption DEF TypeInv, TypeOK
<1>5. req' \in [Workers -> Request] /\ \A v \in Workers : BusyOK(req'[v])
  BY IdleType, ReqType DEF Commit
<1> QED
  BY <1>2, <1>3, <1>4, <1>5 DEF TypeInv, TypeOK, Commit

(* A command of the owner.                                                  *)
LEMMA ManualType ==
    ASSUME TypeInv, NEW d \in Devices, NEW s \in BOOLEAN, SetManualState(d, s)
    PROVE  TypeInv'
<1>1. rows[d] \in Row
  BY DEF SetManualState, Live, TypeInv, TypeOK
<1>2. rows' \in [Devices -> Row \cup {Null}]
  BY <1>1 DEF SetManualState, Row, State, TypeInv, TypeOK
<1>3. Len(log) \in 0..MaxLog /\ Len(log) < MaxLog
  BY BoundsAssumption DEF TypeInv, TypeOK, SetManualState
<1>4. rows[d].number \in Numbers /\ now \in Time
  BY <1>1 DEF Row, TypeInv, TypeOK
<1>5. CommandRecord(d, s) \in LogRecord
  BY <1>3, <1>4 DEF CommandRecord, LogRecord, State, Stamp
<1>6. log' \in Seq(LogRecord) /\ Len(log') <= MaxLog
  BY <1>3, <1>5, BoundsAssumption DEF SetManualState, TypeInv, TypeOK
<1> QED
  BY <1>2, <1>6 DEF SetManualState, TypeInv, TypeOK

LEMMA TypeNext == TypeInv /\ [Next]_vars => TypeInv'
<1> SUFFICES ASSUME TypeInv, [Next]_vars PROVE TypeInv'
  OBVIOUS
<1>1. ASSUME NEW w \in Workers, NEW p \in AgentPayloads, LoadFromAgent(w, p)
      PROVE  TypeInv'
  <2>1. PICK d \in Matches(p) : req' = [req EXCEPT ![w] = Loaded(p, TRUE, d)]
    BY <1>1 DEF LoadFromAgent
  <2>2. p \in Payload
    BY PayloadAssumption
  <2>3. Loaded(p, TRUE, d) \in Request /\ BusyOK(Loaded(p, TRUE, d))
    BY <2>2, MatchesLive, LoadedType
  <2>4. req' \in [Workers -> Request] /\ \A v \in Workers : BusyOK(req'[v])
    BY <2>1, <2>3, ReqType
  <2> QED
    BY <1>1, <2>4 DEF LoadFromAgent, TypeInv, TypeOK
<1>2. ASSUME NEW w \in Workers, NEW p \in AgentPayloads, RejectFromAgent(w, p)
      PROVE  TypeInv'
  <2>1. PICK x \in Rejections \cup {Null} : req' = [req EXCEPT ![w] = Idle(x)]
    BY <1>2 DEF RejectFromAgent, Rejections
  <2>2. req' \in [Workers -> Request] /\ \A v \in Workers : BusyOK(req'[v])
    BY <2>1, IdleType, ReqType
  <2> QED
    BY <1>2, <2>2 DEF RejectFromAgent, TypeInv, TypeOK
<1>3. ASSUME NEW w \in Workers, NEW p \in UserPayloads, LoadFromUser(w, p)
      PROVE  TypeInv'
  <2>1. p \in Payload
    BY PayloadAssumption
  <2>2. PICK q \in Request : BusyOK(q) /\ req' = [req EXCEPT ![w] = q]
    <3>1. CASE \E d \in Matches(p) : req' = [req EXCEPT ![w] = Loaded(p, FALSE, d)]
      BY <2>1, <3>1, MatchesLive, LoadedType
    <3>2. CASE req' = [req EXCEPT ![w] = Idle(404)]
      BY <3>2, IdleType DEF Rejections
    <3> QED
      BY <1>3, <3>1, <3>2 DEF LoadFromUser
  <2>3. req' \in [Workers -> Request] /\ \A v \in Workers : BusyOK(req'[v])
    BY <2>2, ReqType
  <2> QED
    BY <1>3, <2>3 DEF LoadFromUser, TypeInv, TypeOK
<1>4. ASSUME NEW w \in Workers, Abort(w)
      PROVE  TypeInv'
  <2>1. req' \in [Workers -> Request] /\ \A v \in Workers : BusyOK(req'[v])
    BY <1>4, IdleType, ReqType DEF Abort
  <2> QED
    BY <1>4, <2>1 DEF Abort, TypeInv, TypeOK
<1>5. ASSUME NEW d \in Devices, NEW n \in Numbers, UpdateDevice(d, n)
      PROVE  TypeInv'
  <2>1. rows[d] \in Row
    BY <1>5 DEF UpdateDevice, Live, TypeInv, TypeOK
  <2>2. rows' \in [Devices -> Row \cup {Null}]
    BY <1>5, <2>1 DEF UpdateDevice, Row, TypeInv, TypeOK
  <2> QED
    BY <1>5, <2>2 DEF UpdateDevice, TypeInv, TypeOK
<1>6. ASSUME NEW d \in Devices, DeleteDevice(d)
      PROVE  TypeInv'
  BY <1>6 DEF DeleteDevice, TypeInv, TypeOK
<1>7. CASE Tick
  BY <1>7, BoundsAssumption DEF Tick, TypeInv, TypeOK, Time
<1>8. CASE UNCHANGED vars
  BY <1>8 DEF vars, TypeInv, TypeOK
<1> QED
  BY <1>1, <1>2, <1>3, <1>4, <1>5, <1>6, <1>7, <1>8,
     PrepareType, CommitType, ManualType
     DEF Next, Requests, DeviceRoutes

LEMMA TypeInvariant == Spec => []TypeInv
BY TypeInit, TypeNext, PTL DEF Spec

(* Every reachable state is well formed.                                    *)
THEOREM TypeCorrect == Spec => []TypeOK
<1>1. TypeInv => TypeOK
  BY DEF TypeInv
<1> QED
  BY <1>1, TypeInvariant, PTL

-----------------------------------------------------------------------------
(* One answer per device and per pin.                                      *)

(***************************************************************************)
(* A request keeps a coherent copy until it is answered.                   *)
(***************************************************************************)
LEMMA SyncedCoherent ==
    ASSUME NEW d \in Devices, NEW n, NEW on, Home[d] \in Mcs \cup {Null},
           \A m \in Mcs : conf[m] \in Seq(Entry) /\ Coherent(conf[m])
    PROVE  Coherent(Synced(d, n, on))
<1>e. PICK e : e = [id |-> d, pin |-> n, is_on |-> on]
  OBVIOUS
<1>1. CASE Home[d] = Null
  BY <1>1 DEF Synced, Coherent
<1>2. CASE Home[d] # Null
  <2>1. PICK B \in Seq(Entry) : B = Base(d) /\ Coherent(B)
    BY <1>2 DEF Base
  <2>2. PICK L : L = SyncDeviceConfig(B, e)
    OBVIOUS
  <2>3. \A i \in DOMAIN L :
           L[i] = e \/ (i \in DOMAIN B /\ ~OfDevice(B[i], e) /\ L[i] = B[i])
    BY <2>2, SyncShape
  <2>4. Coherent(L)
    BY <2>1, <2>3 DEF Coherent, OfDevice
  <2>5. Synced(d, n, on) = L
    BY <1>e, <1>2, <2>1, <2>2 DEF Synced
  <2> QED
    BY <2>4, <2>5
<1> QED
  BY <1>1, <1>2

LEMMA CoherentInit == Init => ConfigCoherent
<1>1. Coherent(<< >>)
  BY DEF Coherent
<1>2. Idle(Null).next = << >>
  BY DEF Idle
<1> QED
  BY <1>1, <1>2, ConfigAssumption DEF Init, ConfigCoherent

(***************************************************************************)
(* Only Prepare builds a copy, and only Commit writes one.                 *)
(***************************************************************************)
LEMMA CoherentNext ==
    TypeInv /\ ConfigCoherent /\ [Next]_vars => ConfigCoherent'
<1> SUFFICES ASSUME TypeInv, ConfigCoherent, [Next]_vars
             PROVE  ConfigCoherent'
  OBVIOUS
<1>0. Coherent(<< >>)
  BY DEF Coherent
<1>a. ASSUME NEW w \in Workers, UNCHANGED conf,
             \E r : r.next = << >> /\ req' = [req EXCEPT ![w] = r]
      PROVE  ConfigCoherent'
  <2>1. PICK r : r.next = << >> /\ req' = [req EXCEPT ![w] = r]
    BY <1>a
  <2> QED
    BY <1>0, <1>a, <2>1 DEF ConfigCoherent, TypeInv, TypeOK
<1>b. \A x : Idle(x).next = << >>
  BY DEF Idle
<1>c. \A p, a, d : Loaded(p, a, d).next = << >>
  <2> SUFFICES ASSUME NEW p, NEW a, NEW d PROVE Loaded(p, a, d).next = << >>
    OBVIOUS
  <2> QED
    BY DEF Loaded, Idle
<1>1. ASSUME NEW w \in Workers, NEW p \in AgentPayloads, LoadFromAgent(w, p)
      PROVE  ConfigCoherent'
  <2>1. PICK d \in Matches(p) : req' = [req EXCEPT ![w] = Loaded(p, TRUE, d)]
    BY <1>1 DEF LoadFromAgent
  <2> QED
    BY <1>1, <2>1, <1>a, <1>c DEF LoadFromAgent
<1>2. ASSUME NEW w \in Workers, NEW p \in AgentPayloads, RejectFromAgent(w, p)
      PROVE  ConfigCoherent'
  BY <1>2, <1>a, <1>b DEF RejectFromAgent
<1>3. ASSUME NEW w \in Workers, NEW p \in UserPayloads, LoadFromUser(w, p)
      PROVE  ConfigCoherent'
  <2>1. PICK r : r.next = << >> /\ req' = [req EXCEPT ![w] = r]
    <3>1. CASE \E d \in Matches(p) : req' = [req EXCEPT ![w] = Loaded(p, FALSE, d)]
      BY <3>1, <1>c
    <3>2. CASE req' = [req EXCEPT ![w] = Idle(404)]
      BY <3>2, <1>b
    <3> QED
      BY <1>3, <3>1, <3>2 DEF LoadFromUser
  <2> QED
    BY <1>3, <2>1, <1>a DEF LoadFromUser
<1>4. ASSUME NEW w \in Workers, Prepare(w)
      PROVE  ConfigCoherent'
  <2>1. req[w].device \in Devices
    BY <1>4 DEF Prepare, BusyOK, TypeInv
  <2>2. \A n, on : Coherent(Synced(req[w].device, n, on))
    BY <2>1, SyncedCoherent, HomeAssumption DEF ConfigCoherent, TypeInv, TypeOK
  <2>3. \A v \in Workers : Coherent(req'[v].next)
    BY <1>4, <2>2, PrepareShape DEF ConfigCoherent
  <2> QED
    BY <1>4, <2>3, PrepareShape DEF ConfigCoherent
<1>5. ASSUME NEW w \in Workers, Commit(w)
      PROVE  ConfigCoherent'
  <2>1. \A v \in Workers : Coherent(req'[v].next)
    BY <1>0, <1>5 DEF Commit, Idle, ConfigCoherent, TypeInv, TypeOK
  <2>2. \A m \in Mcs : Coherent(conf'[m])
    <3>1. CASE req[w].resolved = Null \/ Home[req[w].device] = Null
      BY <1>5, <3>1 DEF Commit, ConfigCoherent
    <3>2. CASE ~(req[w].resolved = Null \/ Home[req[w].device] = Null)
      <4> DEFINE h == Home[req[w].device]
      <4>1. conf' = [conf EXCEPT ![h] = Flushed(conf[h], req[w].base, req[w].next)]
        BY <1>5, <3>2 DEF Commit
      <4>2. \A m \in Mcs : conf'[m] = conf[m] \/ conf'[m] = req[w].next
        BY <4>1 DEF Flushed, TypeInv, TypeOK
      <4> QED
        BY <4>2 DEF ConfigCoherent
    <3> QED
      BY <3>1, <3>2
  <2> QED
    BY <2>1, <2>2 DEF ConfigCoherent
<1>6. ASSUME NEW w \in Workers, Abort(w)
      PROVE  ConfigCoherent'
  BY <1>6, <1>a, <1>b DEF Abort
<1>7. CASE DeviceRoutes \/ Tick \/ UNCHANGED vars
  <2>1. UNCHANGED <<conf, req>>
    BY <1>7 DEF DeviceRoutes, SetManualState, UpdateDevice, DeleteDevice,
                Tick, vars
  <2> QED
    BY <2>1 DEF ConfigCoherent
<1> QED
  BY <1>1, <1>2, <1>3, <1>4, <1>5, <1>6, <1>7 DEF Next, Requests

(* No interleaving of the routes leaves two answers for a device or a pin.  *)
THEOREM ConfigCoherence == Spec => []ConfigCoherent
BY CoherentInit, CoherentNext, TypeInvariant, PTL DEF Spec

-----------------------------------------------------------------------------
(* A row is the work of one transaction.                                   *)

(***************************************************************************)
(* RowIntact is not inductive: it says nothing of the rows in the hands of *)
(* the requests.  A request whose copy nobody has outdated since it was    *)
(* read still has the row's two columns, and this is what makes the        *)
(* columns that the flush leaves out harmless.                             *)
(***************************************************************************)
Fresh(w) ==
    LET r == req[w]
    IN  (/\ r.pc # "idle"
         /\ Live(r.device)
         /\ \A j \in Writers(r.device) : j <= r.seen) =>
            /\ rows[r.device].manual_state = r.row.manual_state
            /\ rows[r.device].changed_at = r.row.changed_at

RowInv ==
    /\ RowIntact
    /\ \A w \in Workers : req[w].seen <= Len(log) /\ Fresh(w)

(* What an append does to the log and to the writers of a device.           *)
LEMMA WritersAppend ==
    ASSUME TypeInv, NEW e, log' = Append(log, e)
    PROVE  /\ Len(log) \in Nat
           /\ Len(log') = Len(log) + 1
           /\ log'[Len(log) + 1] = e
           /\ \A i \in Index : log'[i] = log[i]
           /\ \A d, i : i \in Writers(d)' <=>
                 \/ i \in Writers(d)
                 \/ i = Len(log) + 1 /\ e.device = d /\ e.resolved # Null
<1>1. log \in Seq(LogRecord) /\ Len(log) \in Nat
  BY DEF TypeInv, TypeOK
<1>2. /\ Len(log') = Len(log) + 1
      /\ log'[Len(log) + 1] = e
      /\ \A i \in 1..Len(log) : log'[i] = log[i]
  BY <1>1
<1> QED
  BY <1>1, <1>2 DEF Writers, Index

(* A step that appends nothing: rows keep their state or go away, and a     *)
(* request is answered, goes on, or has just read its row.                  *)
LEMMA QuietStep ==
    ASSUME TypeInv, RowInv, log' = log,
           \A d \in Devices : rows'[d] # Null =>
               /\ rows[d] # Null
               /\ rows'[d].manual_state = rows[d].manual_state
               /\ rows'[d].changed_at = rows[d].changed_at,
           \A w \in Workers :
               /\ \/ req'[w].seen = req[w].seen
                  \/ req'[w].seen = 0
                  \/ req'[w].seen = Len(log)
               /\ \/ req'[w].pc = "idle"
                  \/ /\ req[w].pc # "idle"
                     /\ req'[w].device = req[w].device
                     /\ req'[w].row = req[w].row
                     /\ req'[w].seen = req[w].seen
                  \/ /\ req'[w].device \in Devices
                     /\ req'[w].row = rows[req'[w].device]
    PROVE  RowInv'
<1>1. \A d : Writers(d)' = Writers(d)
  BY DEF Writers, Index
<1>2. RowIntact'
  BY <1>1 DEF RowInv, RowIntact, IsLast, Serial, Live
<1>3. ASSUME NEW w \in Workers
      PROVE  req'[w].seen <= Len(log') /\ Fresh(w)'
  <2>1. Len(log) \in Nat /\ req[w].seen <= Len(log)
    BY DEF TypeInv, TypeOK, RowInv
  <2>2. req'[w].seen <= Len(log')
    BY <2>1
  <2>3. Fresh(w)'
    <3>1. CASE req'[w].pc = "idle"
      BY <3>1 DEF Fresh
    <3>2. CASE /\ req[w].pc # "idle"
               /\ req'[w].device = req[w].device
               /\ req'[w].row = req[w].row
               /\ req'[w].seen = req[w].seen
      <4>1. Fresh(w) /\ req[w].device \in Devices
        BY <3>2 DEF RowInv, TypeInv, BusyOK
      <4> QED
        BY <1>1, <3>2, <4>1 DEF Fresh, Live
    <3>3. CASE /\ req'[w].device \in Devices
               /\ req'[w].row = rows[req'[w].device]
      BY <3>3 DEF Fresh, Live
    <3> QED
      BY <3>1, <3>2, <3>3
  <2> QED
    BY <2>2, <2>3
<1> QED
  BY <1>2, <1>3 DEF RowInv

(* A step that appends record e: it touches at most the row of its device,  *)
(* and leaves its own values there when its transaction had seen every      *)
(* earlier one of the device.                                               *)
LEMMA AppendStep ==
    ASSUME TypeInv, RowInv, NEW e, log' = Append(log, e),
           \A d \in Devices :
               (d # e.device \/ e.resolved = Null) => rows'[d] = rows[d],
           (/\ e.resolved # Null
            /\ \A j \in Writers(e.device) : j <= e.seen) =>
               /\ rows'[e.device].manual_state = e.resolved
               /\ e.kind = "event" => rows'[e.device].changed_at = e.stamp,
           \A w \in Workers :
               req'[w] = req[w] \/ (req'[w].pc = "idle" /\ req'[w].seen = 0)
    PROVE  RowInv'
<1> DEFINE n == Len(log) + 1
<1>1. /\ Len(log) \in Nat
      /\ Len(log') = n
      /\ log'[n] = e
      /\ \A i \in Index : log'[i] = log[i]
      /\ \A d, i : i \in Writers(d)' <=>
            \/ i \in Writers(d)
            \/ i = n /\ e.device = d /\ e.resolved # Null
  BY WritersAppend
<1>2. \A d : \A i \in Writers(d) : i \in Nat /\ i < n /\ i \in Index
  BY <1>1 DEF Writers, Index
<1>3. RowIntact'
  <2> SUFFICES ASSUME NEW d \in Devices, Live(d)', NEW i \in Writers(d)',
                      IsLast(i, Writers(d))', Serial(i)'
               PROVE  /\ rows'[d].manual_state = log'[i].resolved
                      /\ log'[i].kind = "event" =>
                            rows'[d].changed_at = log'[i].stamp
    BY DEF RowIntact
  <2>1. CASE e.device = d /\ e.resolved # Null
    <3>1. i = n
      <4>1. n \in Writers(d)'
        BY <1>1, <2>1
      <4>2. n <= i
        BY <4>1 DEF IsLast
      <4> QED
        BY <1>1, <1>2, <4>2
    <3>2. \A j \in Writers(d) : j <= e.seen
      <4>1. \A j \in Writers(d) : j \in Writers(d)' /\ j < n
        BY <1>1, <1>2
      <4>2. log'[i] = e
        BY <1>1, <3>1
      <4> QED
        BY <2>1, <3>1, <4>1, <4>2 DEF Serial
    <3> QED
      BY <1>1, <2>1, <3>1, <3>2
  <2>2. CASE ~(e.device = d /\ e.resolved # Null)
    <3>1. rows'[d] = rows[d]
      BY <2>2
    <3>2. \A j : j \in Writers(d)' <=> j \in Writers(d)
      BY <1>1, <2>2
    <3>3. i \in Writers(d) /\ log'[i] = log[i] /\ log[i].device = d
      BY <1>1, <1>2, <3>2 DEF Writers
    <3>4. IsLast(i, Writers(d)) /\ Serial(i)
      BY <3>2, <3>3 DEF IsLast, Serial
    <3> QED
      BY <3>1, <3>3, <3>4 DEF RowInv, RowIntact, Live
  <2> QED
    BY <2>1, <2>2
<1>4. ASSUME NEW w \in Workers
      PROVE  req'[w].seen <= Len(log') /\ Fresh(w)'
  <2>1. req[w].seen <= Len(log) /\ Fresh(w) /\ BusyOK(req[w])
        /\ req[w].seen \in Nat
    BY BoundsAssumption DEF RowInv, TypeInv, TypeOK, Request
  <2>2. req'[w].seen <= Len(log')
    BY <1>1, <2>1
  <2>3. Fresh(w)'
    <3>1. CASE req'[w].pc = "idle"
      BY <3>1 DEF Fresh
    <3>2. CASE req'[w] = req[w] /\ req[w].pc # "idle"
      <4>1. PICK d \in Devices : d = req[w].device /\ d = req'[w].device
        BY <2>1, <3>2 DEF BusyOK
      <4>2. CASE e.device = d /\ e.resolved # Null
        <5>1. n \in Writers(d)' /\ ~(n <= req[w].seen)
          BY <1>1, <2>1, <4>2
        <5> QED
          BY <3>2, <4>1, <5>1 DEF Fresh
      <4>3. CASE ~(e.device = d /\ e.resolved # Null)
        <5>1. rows'[d] = rows[d]
          BY <4>1, <4>3
        <5>2. \A j : j \in Writers(d)' <=> j \in Writers(d)
          BY <1>1, <4>3
        <5> QED
          BY <2>1, <3>2, <4>1, <5>1, <5>2 DEF Fresh, Live
      <4> QED
        BY <4>2, <4>3
    <3> QED
      BY <3>1, <3>2
  <2> QED
    BY <2>2, <2>3
<1> QED
  BY <1>3, <1>4 DEF RowInv

LEMMA RowInit == Init => RowInv
<1> SUFFICES ASSUME Init PROVE RowInv
  OBVIOUS
<1>1. \A d : Writers(d) = {}
  BY DEF Init, Writers, Index
<1>2. Idle(Null).pc = "idle" /\ Idle(Null).seen = 0
  BY DEF Idle
<1>3. Len(log) = 0
  BY DEF Init
<1> QED
  BY <1>1, <1>2, <1>3 DEF Init, RowInv, RowIntact, Fresh

LEMMA RowNext == TypeInv /\ RowInv /\ [Next]_vars => RowInv'
<1> SUFFICES ASSUME TypeInv, RowInv, [Next]_vars PROVE RowInv'
  OBVIOUS
<1>a. \A x : Idle(x).pc = "idle" /\ Idle(x).seen = 0
  <2> SUFFICES ASSUME NEW x PROVE Idle(x).pc = "idle" /\ Idle(x).seen = 0
    OBVIOUS
  <2> QED
    BY DEF Idle
<1>b. \A p, a, d : /\ Loaded(p, a, d).device = d
                   /\ Loaded(p, a, d).row = rows[d]
                   /\ Loaded(p, a, d).seen = Len(log)
  <2> SUFFICES ASSUME NEW p, NEW a, NEW d
               PROVE  /\ Loaded(p, a, d).device = d
                      /\ Loaded(p, a, d).row = rows[d]
                      /\ Loaded(p, a, d).seen = Len(log)
    OBVIOUS
  <2> QED
    BY DEF Loaded, Idle
<1>c. ASSUME NEW w \in Workers, NEW x, req' = [req EXCEPT ![w] = Idle(x)],
             UNCHANGED <<rows, log>>
      PROVE  RowInv'
  BY <1>a, <1>c, QuietStep DEF TypeInv, TypeOK, BusyOK
<1>d. ASSUME NEW w \in Workers, NEW p, NEW a, NEW d \in Devices,
             req' = [req EXCEPT ![w] = Loaded(p, a, d)],
             UNCHANGED <<rows, log>>
      PROVE  RowInv'
  BY <1>b, <1>d, QuietStep DEF TypeInv, TypeOK
<1>1. ASSUME NEW w \in Workers, NEW p \in AgentPayloads, LoadFromAgent(w, p)
      PROVE  RowInv'
  <2>1. PICK d \in Matches(p) : req' = [req EXCEPT ![w] = Loaded(p, TRUE, d)]
    BY <1>1 DEF LoadFromAgent
  <2> QED
    BY <1>1, <1>d, <2>1, MatchesLive DEF LoadFromAgent
<1>2. ASSUME NEW w \in Workers, NEW p \in AgentPayloads, RejectFromAgent(w, p)
      PROVE  RowInv'
  BY <1>2, <1>c DEF RejectFromAgent
<1>3. ASSUME NEW w \in Workers, NEW p \in UserPayloads, LoadFromUser(w, p)
      PROVE  RowInv'
  <2>1. CASE \E d \in Matches(p) : req' = [req EXCEPT ![w] = Loaded(p, FALSE, d)]
    BY <1>3, <1>d, <2>1, MatchesLive DEF LoadFromUser
  <2>2. CASE req' = [req EXCEPT ![w] = Idle(404)]
    BY <1>3, <1>c, <2>2 DEF LoadFromUser
  <2> QED
    BY <1>3, <2>1, <2>2 DEF LoadFromUser
<1>4. ASSUME NEW w \in Workers, Prepare(w)
      PROVE  RowInv'
  <2>1. \A v \in Workers :
           /\ req'[v].seen = req[v].seen
           /\ \/ req'[v].pc = "idle"
              \/ /\ req[v].pc # "idle"
                 /\ req'[v].device = req[v].device
                 /\ req'[v].row = req[v].row
                 /\ req'[v].seen = req[v].seen
    BY <1>4, PrepareShape
  <2> QED
    BY <1>4, <2>1, PrepareShape, QuietStep
<1>5. ASSUME NEW w \in Workers, Commit(w)
      PROVE  RowInv'
  <2> DEFINE r == req[w]
             d == r.device
             e == EventRecord(r)
  <2>1. /\ r \in Request /\ BusyOK(r) /\ r.pc = "ready" /\ Live(d)
        /\ Fresh(w) /\ d \in Devices /\ rows[d] \in Row
        /\ log' = Append(log, e)
    BY <1>5 DEF Commit, TypeInv, TypeOK, RowInv, BusyOK, Live
  <2>2. /\ e.device = d /\ e.resolved = r.resolved /\ e.seen = r.seen
        /\ e.stamp = r.stamp
    BY DEF EventRecord
  <2>3. \A c \in Devices :
           (c # e.device \/ e.resolved = Null) => rows'[c] = rows[c]
    BY <1>5, <2>2 DEF Commit, TypeInv, TypeOK
  <2>4. ASSUME e.resolved # Null, \A j \in Writers(e.device) : j <= e.seen
        PROVE  /\ rows'[e.device].manual_state = e.resolved
               /\ rows'[e.device].changed_at = e.stamp
    <3>1. rows'[d] = FlushedRow(r)
      BY <1>5, <2>1, <2>2, <2>4 DEF Commit, TypeInv, TypeOK
    <3>2. /\ rows[d].manual_state = r.row.manual_state
          /\ rows[d].changed_at = r.row.changed_at
      BY <2>1, <2>2, <2>4 DEF Fresh
    <3>3. /\ FlushedRow(r).manual_state =
                Flushed(rows[d].manual_state, r.row.manual_state, r.resolved)
          /\ FlushedRow(r).changed_at =
                Flushed(rows[d].changed_at, r.row.changed_at, r.stamp)
      BY <2>1 DEF FlushedRow, Row
    <3> QED
      BY <2>2, <3>1, <3>2, <3>3 DEF Flushed
  <2>5. \A v \in Workers :
           req'[v] = req[v] \/ (req'[v].pc = "idle" /\ req'[v].seen = 0)
    BY <1>5, <1>a DEF Commit, TypeInv, TypeOK
  <2> HIDE DEF r, d, e
  <2> QED
    BY <2>1, <2>3, <2>4, <2>5, AppendStep
<1>6. ASSUME NEW w \in Workers, Abort(w)
      PROVE  RowInv'
  BY <1>6, <1>c DEF Abort
<1>7. ASSUME NEW d \in Devices, NEW s \in BOOLEAN, SetManualState(d, s)
      PROVE  RowInv'
  <2> DEFINE e == CommandRecord(d, s)
  <2>1. /\ e.device = d /\ e.resolved = s /\ e.kind = "command"
    BY DEF CommandRecord
  <2>2. rows[d] \in Row
    BY <1>7 DEF SetManualState, Live, TypeInv, TypeOK
  <2>3. rows'[d].manual_state = s
        /\ \A c \in Devices \ {d} : rows'[c] = rows[c]
    BY <1>7, <2>2 DEF SetManualState, Row, TypeInv, TypeOK
  <2>4. log' = Append(log, e) /\ req' = req
    BY <1>7 DEF SetManualState
  <2>5. s # Null
    BY NullAssumption
  <2> HIDE DEF e
  <2> QED
    BY <2>1, <2>3, <2>4, <2>5, AppendStep
<1>8. ASSUME NEW d \in Devices, NEW n \in Numbers, UpdateDevice(d, n)
      PROVE  RowInv'
  <2>1. rows[d] \in Row
    BY <1>8 DEF UpdateDevice, Live, TypeInv, TypeOK
  <2>2. \A c \in Devices : rows'[c] # Null =>
               /\ rows[c] # Null
               /\ rows'[c].manual_state = rows[c].manual_state
               /\ rows'[c].changed_at = rows[c].changed_at
    BY <1>8, <2>1 DEF UpdateDevice, Live, Row, TypeInv, TypeOK
  <2> QED
    BY <1>8, <2>2, QuietStep DEF UpdateDevice, TypeInv, TypeOK
<1>9. CASE (\E d \in Devices : DeleteDevice(d)) \/ Tick \/ UNCHANGED vars
  <2>1. /\ UNCHANGED <<log, req>>
        /\ \A c \in Devices : rows'[c] # Null => rows'[c] = rows[c]
    BY <1>9 DEF DeleteDevice, Tick, vars, TypeInv, TypeOK
  <2> QED
    BY <2>1, QuietStep DEF TypeInv, TypeOK
<1> QED
  BY <1>1, <1>2, <1>3, <1>4, <1>5, <1>6, <1>7, <1>8, <1>9
     DEF Next, Requests, DeviceRoutes

(* The two columns of the snapshot never come from two transactions when    *)
(* the last one had seen the one before it.                                 *)
THEOREM RowIntegrity == Spec => []RowIntact
<1>1. RowInv => RowIntact
  BY DEF RowInv
<1> QED
  BY <1>1, RowInit, RowNext, TypeInvariant, PTL DEF Spec

-----------------------------------------------------------------------------
(* The configuration, and what the log says of it.                         *)

(***************************************************************************)
(* SerialConfigComplete says nothing of the copies in the requests' hands. *)
(* A prepared one is the copy it was built from with the object of its own *)
(* device, and that copy is still the configuration when nobody has        *)
(* written it since.                                                       *)
(***************************************************************************)
Prepared(w) ==
    LET r == req[w]
        m == Home[r.device]
    IN  r.resolved # Null =>
            /\ r.agent /\ r.resolved = NewState(r.payload)
            /\ r.mcseen <= Len(log)
            /\ m # Null =>
                  /\ r.next = SyncDeviceConfig(r.base,
                          [id |-> r.device, pin |-> r.row.number, is_on |-> r.resolved])
                  /\ (\A j \in Syncs(m) : j <= r.mcseen) => r.base = conf[m]

PreparedInv == \A w \in Workers : Prepared(w)

(* An event that set a state is as its body says.                           *)
RecordOK(e) ==
    e.kind = "event" /\ e.resolved # Null =>
        /\ e.payload \in Payload
        /\ e.resolved = NewState(e.payload) /\ e.pin = StoredPin(e.payload)

LogInv == \A i \in Index : RecordOK(log[i])

(* What an append does to the rebuilds of a configuration.                  *)
LEMMA SyncsAppend ==
    ASSUME TypeInv, NEW e, log' = Append(log, e)
    PROVE  \A m, i : i \in Syncs(m)' <=>
               \/ i \in Syncs(m)
               \/ /\ i = Len(log) + 1 /\ e.kind = "event" /\ e.resolved # Null
                  /\ Home[e.device] = m
<1>1. log \in Seq(LogRecord) /\ Len(log) \in Nat
  BY DEF TypeInv, TypeOK
<1>2. /\ Len(log') = Len(log) + 1
      /\ log'[Len(log) + 1] = e
      /\ \A i \in 1..Len(log) : log'[i] = log[i]
  BY <1>1
<1> QED
  BY <1>1, <1>2 DEF Syncs, Index

(* The fields of the two kinds of records that requests start from.         *)
LEMMA NothingResolved ==
    /\ \A x : Idle(x).resolved = Null /\ Idle(x).pc = "idle"
    /\ \A p, a, d : /\ Loaded(p, a, d).resolved = Null /\ Loaded(p, a, d).payload = p
                     /\ Loaded(p, a, d).agent = a /\ Loaded(p, a, d).device = d
<1>1. ASSUME NEW x PROVE Idle(x).resolved = Null /\ Idle(x).pc = "idle"
  BY DEF Idle
<1>2. ASSUME NEW p, NEW a, NEW d
      PROVE  /\ Loaded(p, a, d).resolved = Null /\ Loaded(p, a, d).payload = p
             /\ Loaded(p, a, d).agent = a /\ Loaded(p, a, d).device = d
  BY DEF Loaded, Idle
<1> QED
  BY <1>1, <1>2

(***************************************************************************)
(* The steps by what they do to the requests: none but Prepare gives a     *)
(* request a state, and what is not Commit leaves the configuration.       *)
(***************************************************************************)
LEMMA Steps ==
    ASSUME TypeInv, [Next]_vars
    PROVE  \/ \E w \in Workers : Prepare(w)
           \/ \E w \in Workers : Commit(w)
           \/ \E d \in Devices, s \in BOOLEAN : SetManualState(d, s)
           \/ /\ UNCHANGED <<conf, log>>
              /\ \A w \in Workers : req'[w] = req[w] \/ req'[w].resolved = Null
              /\ \A d \in Devices : rows[d] # Null /\ rows'[d] # Null =>
                    /\ rows'[d].manual_state = rows[d].manual_state
                    /\ rows'[d].changed_at = rows[d].changed_at
<1>1. ASSUME NEW w \in Workers, UNCHANGED <<rows, conf, log>>,
             \E r : r.resolved = Null /\ req' = [req EXCEPT ![w] = r]
      PROVE  \A v \in Workers : req'[v] = req[v] \/ req'[v].resolved = Null
  BY <1>1 DEF TypeInv, TypeOK
<1>2. ASSUME NEW w \in Workers,
             \/ \E p \in AgentPayloads : LoadFromAgent(w, p) \/ RejectFromAgent(w, p)
             \/ \E p \in UserPayloads : LoadFromUser(w, p)
             \/ Abort(w)
      PROVE  /\ UNCHANGED <<rows, conf, log>>
             /\ \E r : r.resolved = Null /\ req' = [req EXCEPT ![w] = r]
  <2>1. ASSUME NEW p \in AgentPayloads, LoadFromAgent(w, p)
        PROVE  \E r : r.resolved = Null /\ req' = [req EXCEPT ![w] = r]
    <3>1. PICK d \in Matches(p) : req' = [req EXCEPT ![w] = Loaded(p, TRUE, d)]
      BY <2>1 DEF LoadFromAgent
    <3>2. Loaded(p, TRUE, d).resolved = Null
      BY DEF Loaded, Idle
    <3> QED
      BY <3>1, <3>2
  <2>2. ASSUME NEW p \in AgentPayloads, RejectFromAgent(w, p)
        PROVE  \E r : r.resolved = Null /\ req' = [req EXCEPT ![w] = r]
    BY <2>2, NothingResolved DEF RejectFromAgent
  <2>3. ASSUME NEW p \in UserPayloads, LoadFromUser(w, p)
        PROVE  \E r : r.resolved = Null /\ req' = [req EXCEPT ![w] = r]
    <3>1. \/ \E d \in Matches(p) : req' = [req EXCEPT ![w] = Loaded(p, FALSE, d)]
          \/ req' = [req EXCEPT ![w] = Idle(404)]
      BY <2>3 DEF LoadFromUser
    <3>2. Idle(404).resolved = Null /\ \A d : Loaded(p, FALSE, d).resolved = Null
      BY NothingResolved
    <3> QED
      BY <3>1, <3>2
  <2>4. ASSUME Abort(w) PROVE \E r : r.resolved = Null /\ req' = [req EXCEPT ![w] = r]
    BY <2>4, NothingResolved DEF Abort
  <2>5. UNCHANGED <<rows, conf, log>>
    BY <1>2 DEF LoadFromAgent, RejectFromAgent, LoadFromUser, Abort
  <2> QED
    BY <1>2, <2>1, <2>2, <2>3, <2>4, <2>5
<1>3. ASSUME NEW d \in Devices, NEW n \in Numbers, UpdateDevice(d, n)
      PROVE  /\ UNCHANGED <<conf, log, req>>
             /\ \A c \in Devices : rows[c] # Null /\ rows'[c] # Null =>
                   /\ rows'[c].manual_state = rows[c].manual_state
                   /\ rows'[c].changed_at = rows[c].changed_at
  <2>1. rows[d] \in Row
    BY <1>3 DEF UpdateDevice, Live, TypeInv, TypeOK
  <2> QED
    BY <1>3, <2>1 DEF UpdateDevice, Row, TypeInv, TypeOK
<1>4. ASSUME NEW d \in Devices, DeleteDevice(d)
      PROVE  /\ UNCHANGED <<conf, log, req>>
             /\ \A c \in Devices : rows'[c] # Null => rows'[c] = rows[c]
  BY <1>4 DEF DeleteDevice, TypeInv, TypeOK
<1>5. CASE Tick \/ UNCHANGED vars
  BY <1>5 DEF Tick, vars
<1> QED
  BY <1>1, <1>2, <1>3, <1>4, <1>5 DEF Next, Requests, DeviceRoutes

(* What a commit writes, by the record it appends.                          *)
LEMMA CommitShape ==
    ASSUME TypeInv, NEW w \in Workers, Commit(w)
    PROVE  LET r == req[w]
               e == EventRecord(r)
           IN  /\ r.pc = "ready" /\ r.device \in Devices /\ r.payload \in Payload
               /\ log' = Append(log, e)
               /\ e.kind = "event" /\ e.device = r.device /\ e.number = r.row.number
               /\ e.payload = r.payload /\ e.resolved = r.resolved
               /\ e.stamp = r.stamp /\ e.mcseen = r.mcseen
               /\ r.agent => e.pin = StoredPin(r.payload)
               /\ \A m \in Mcs :
                     \/ r.resolved # Null /\ m = Home[r.device]
                           /\ conf'[m] = Flushed(conf[m], r.base, r.next)
                     \/ (r.resolved = Null \/ m # Home[r.device]) /\ conf'[m] = conf[m]
               /\ \A v \in Workers \ {w} : req'[v] = req[v]
               /\ req'[w].resolved = Null
<1> DEFINE r == req[w]
           e == EventRecord(r)
<1>1. r.pc = "ready" /\ r.device \in Devices /\ r.payload \in Payload
  BY DEF Commit, TypeInv, BusyOK
<1>2. /\ log' = Append(log, e)
      /\ \A v \in Workers \ {w} : req'[v] = req[v]
      /\ req'[w] = Idle(Null)
  BY DEF Commit, TypeInv, TypeOK
<1>3. /\ e.kind = "event" /\ e.device = r.device /\ e.number = r.row.number
      /\ e.payload = r.payload /\ e.resolved = r.resolved
      /\ e.stamp = r.stamp /\ e.mcseen = r.mcseen
      /\ r.agent => e.pin = StoredPin(r.payload)
  BY DEF EventRecord
<1>4. req'[w].resolved = Null
  BY <1>2, NothingResolved
<1>5. ASSUME NEW m \in Mcs
      PROVE  \/ r.resolved # Null /\ m = Home[r.device]
                   /\ conf'[m] = Flushed(conf[m], r.base, r.next)
             \/ (r.resolved = Null \/ m # Home[r.device]) /\ conf'[m] = conf[m]
  <2>1. CASE r.resolved = Null \/ Home[r.device] = Null
    BY <2>1, NullAssumption DEF Commit
  <2>2. CASE ~(r.resolved = Null \/ Home[r.device] = Null)
    <3>1. conf' = [conf EXCEPT ![Home[r.device]] =
                       Flushed(conf[Home[r.device]], r.base, r.next)]
      BY <2>2 DEF Commit
    <3> QED
      BY <2>2, <3>1 DEF TypeInv, TypeOK
  <2> QED
    BY <2>1, <2>2
<1> HIDE DEF r, e
<1> QED
  BY <1>1, <1>2, <1>3, <1>4, <1>5 DEF r, e

LEMMA PreparedInit == Init => PreparedInv /\ LogInv
<1> SUFFICES ASSUME Init PROVE PreparedInv /\ LogInv
  OBVIOUS
<1>1. PreparedInv
  BY NothingResolved DEF Init, PreparedInv, Prepared
<1>2. Len(log) = 0
  BY DEF Init
<1> QED
  BY <1>1, <1>2 DEF LogInv, Index

LEMMA PreparedNext == TypeInv /\ PreparedInv /\ [Next]_vars => PreparedInv'
<1> SUFFICES ASSUME TypeInv, PreparedInv, [Next]_vars PROVE PreparedInv'
  OBVIOUS
<1>0. Len(log) \in Nat
  BY DEF TypeInv, TypeOK
(* Requests that stay, when the configuration and its history do.           *)
<1>1. ASSUME NEW v \in Workers, req'[v] = req[v], UNCHANGED <<conf, log>>
      PROVE  Prepared(v)'
  BY <1>1 DEF PreparedInv, Prepared, Syncs, Index
<1>2. ASSUME NEW w \in Workers, Prepare(w) PROVE PreparedInv'
  <2> DEFINE r == req[w]
  <2>1. UNCHANGED <<conf, log>> /\ \A v \in Workers \ {w} : req'[v] = req[v]
    BY <1>2, PrepareShape
  <2>2. CASE req'[w].resolved = Null
    BY <1>1, <2>1, <2>2 DEF PreparedInv, Prepared
  <2>3. CASE req'[w].resolved # Null
    <3>1. /\ r.agent /\ req'[w].resolved = NewState(r.payload)
          /\ req'[w].device = r.device /\ req'[w].row = r.row
          /\ req'[w].payload = r.payload /\ req'[w].agent = r.agent
          /\ req'[w].base = Base(r.device) /\ req'[w].mcseen = Len(log)
          /\ req'[w].next = Synced(r.device, r.row.number, NewState(r.payload))
      BY <1>2, <2>3, PrepareShape
    <3>2. Home[r.device] # Null =>
             /\ Base(r.device) = conf[Home[r.device]]
             /\ Synced(r.device, r.row.number, NewState(r.payload)) =
                    SyncDeviceConfig(Base(r.device),
                        [id |-> r.device, pin |-> r.row.number,
                         is_on |-> NewState(r.payload)])
      BY DEF Base, Synced
    <3>3. Prepared(w)'
      BY <1>0, <2>1, <3>1, <3>2 DEF Prepared
    <3> QED
      BY <1>1, <2>1, <3>3 DEF PreparedInv
  <2> QED
    BY <2>2, <2>3
<1>3. ASSUME NEW w \in Workers, Commit(w) PROVE PreparedInv'
  <2> DEFINE e == EventRecord(req[w])
  <2>1. /\ log' = Append(log, e) /\ e.kind = "event"
        /\ req'[w].resolved = Null /\ \A v \in Workers \ {w} : req'[v] = req[v]
        /\ \A m \in Mcs : conf'[m] = conf[m] \/ (e.resolved # Null /\ m = Home[e.device])
    BY <1>3, CommitShape
  <2> HIDE DEF e
  <2>2. Len(log') = Len(log) + 1
    BY <2>1, WritersAppend
  <2>3. ASSUME NEW v \in Workers, v # w, req[v].resolved # Null PROVE Prepared(v)'
    <3>m. PICK m : m = Home[req[v].device]
      OBVIOUS
    <3>1. req'[v] = req[v] /\ Prepared(v) /\ req[v].mcseen \in Nat
      BY <2>1, <2>3, BoundsAssumption DEF PreparedInv, TypeInv, TypeOK, Request
    <3>0. /\ req[v].mcseen <= Len(log)
          /\ m # Null /\ (\A j \in Syncs(m) : j <= req[v].mcseen) => req[v].base = conf[m]
      BY <2>3, <3>1, <3>m DEF Prepared
    <3>2. ASSUME m # Null, \A j \in Syncs(m)' : j <= req[v].mcseen
          PROVE  req[v].base = conf'[m]
      <4>1. ~(e.resolved # Null /\ m = Home[e.device])
        <5>1. SUFFICES ASSUME e.resolved # Null, m = Home[e.device] PROVE FALSE
          OBVIOUS
        <5>2. Len(log) + 1 \in Syncs(m)'
          BY <2>1, <5>1, SyncsAppend
        <5>3. Len(log) + 1 <= req[v].mcseen
          BY <3>2, <5>2
        <5> QED
          BY <1>0, <3>0, <3>1, <5>3
      <4>2. \A j \in Syncs(m) : j <= req[v].mcseen
        <5>1. \A j \in Syncs(m) : j \in Syncs(m)'
          BY <2>1, SyncsAppend
        <5> QED
          BY <3>2, <5>1
      <4>3. m \in Mcs
        <5>1. req[v].device \in Devices
          BY <2>3 DEF TypeInv, BusyOK
        <5> QED
          BY <3>2, <3>m, <5>1, HomeAssumption
      <4> QED
        BY <2>1, <3>0, <3>2, <4>1, <4>2, <4>3
    <3> QED
      BY <1>0, <2>2, <2>3, <3>1, <3>2, <3>m DEF Prepared
  <2>4. \A v \in Workers : req[v].resolved = Null \/ v = w => Prepared(v)'
    BY <2>1 DEF Prepared
  <2> QED
    BY <2>3, <2>4 DEF PreparedInv
<1>4. ASSUME NEW d \in Devices, NEW s \in BOOLEAN, SetManualState(d, s) PROVE PreparedInv'
  <2> DEFINE e == CommandRecord(d, s)
  <2>1. log' = Append(log, e) /\ e.kind # "event" /\ UNCHANGED <<conf, req>>
    BY <1>4 DEF SetManualState, CommandRecord
  <2> HIDE DEF e
  <2>2. Len(log') = Len(log) + 1
    BY <2>1, WritersAppend
  <2>3. \A m, j : j \in Syncs(m)' <=> j \in Syncs(m)
    BY <2>1, SyncsAppend
  <2>4. ASSUME NEW v \in Workers PROVE Prepared(v)'
    <3>1. Prepared(v) /\ req[v].mcseen \in Nat
      BY BoundsAssumption DEF PreparedInv, TypeInv, TypeOK, Request
    <3> QED
      BY <1>0, <2>1, <2>2, <2>3, <3>1 DEF Prepared
  <2> QED
    BY <2>4 DEF PreparedInv
<1>5. ASSUME UNCHANGED <<conf, log>>,
             \A w \in Workers : req'[w] = req[w] \/ req'[w].resolved = Null
      PROVE  PreparedInv'
  BY <1>1, <1>5 DEF PreparedInv, Prepared
<1> QED
  BY <1>2, <1>3, <1>4, <1>5, Steps

LEMMA LogNext == TypeInv /\ PreparedInv /\ LogInv /\ [Next]_vars => LogInv'
<1> SUFFICES ASSUME TypeInv, PreparedInv, LogInv, [Next]_vars PROVE LogInv'
  OBVIOUS
<1>1. ASSUME NEW e, log' = Append(log, e), RecordOK(e) PROVE LogInv'
  <2>1. /\ Len(log) \in Nat
        /\ Len(log') = Len(log) + 1
        /\ log'[Len(log) + 1] = e
        /\ \A i \in Index : log'[i] = log[i]
    BY <1>1, WritersAppend
  <2>2. ASSUME NEW i \in Index' PROVE RecordOK(log'[i])
    <3>1. i \in Index \/ i = Len(log) + 1
      BY <2>1 DEF Index
    <3>2. CASE i \in Index
      <4>1. RecordOK(log[i]) /\ log'[i] = log[i]
        BY <2>1, <3>2 DEF LogInv
      <4> QED
        BY <4>1
    <3>3. CASE i = Len(log) + 1
      BY <1>1, <2>1, <3>3
    <3> QED
      BY <3>1, <3>2, <3>3
  <2>3. LogInv' <=> \A i \in Index' : RecordOK(log'[i])
    BY DEF LogInv, RecordOK
  <2> QED
    BY <2>2, <2>3
<1>2. ASSUME NEW w \in Workers, Commit(w) PROVE LogInv'
  <2>1. PICK e : e = EventRecord(req[w])
    OBVIOUS
  <2>2. /\ log' = Append(log, e)
        /\ e.payload = req[w].payload /\ e.resolved = req[w].resolved
        /\ req[w].payload \in Payload
        /\ req[w].agent => e.pin = StoredPin(req[w].payload)
    BY <1>2, <2>1, CommitShape
  <2>3. req[w].resolved # Null =>
           req[w].agent /\ req[w].resolved = NewState(req[w].payload)
    BY DEF PreparedInv, Prepared
  <2>4. RecordOK(e)
    BY <2>2, <2>3 DEF RecordOK
  <2> QED
    BY <1>1, <2>2, <2>4
<1>3. ASSUME NEW d \in Devices, NEW s \in BOOLEAN, SetManualState(d, s)
      PROVE  LogInv'
  <2>1. PICK e : e = CommandRecord(d, s)
    OBVIOUS
  <2>2. RecordOK(e)
    BY <2>1 DEF RecordOK, CommandRecord
  <2> QED
    BY <1>1, <1>3, <2>1, <2>2 DEF SetManualState
<1>4. CASE UNCHANGED log
  BY <1>4 DEF LogInv, Index, RecordOK
<1>5. ASSUME NEW w \in Workers, Prepare(w) PROVE UNCHANGED log
  BY <1>5 DEF Prepare
<1> QED
  BY <1>2, <1>3, <1>4, <1>5, Steps

(* The two resolvers read the same state from a body whose is_on and        *)
(* pin_state do not contradict each other.                                  *)
LEMMA ResolversMeet ==
    ASSUME NEW p \in Payload, p.type = "STATE", NewState(p) # Null,
           p.is_on = Null \/ p.pin = Null \/ p.is_on = p.pin
    PROVE  ResolveStateFromEvent(StoredPin(p), p.text) = NewState(p)
BY DEF NewState, ResolveStateFromEvent, StoredPin, ResolveStateValue

(* What an agent's event did to the snapshot is what the on-time report     *)
(* reads from its stored columns.                                           *)
THEOREM ResolversAgreement == Spec => []ResolversAgree
<1>1. LogInv => ResolversAgree
  <2> SUFFICES ASSUME LogInv, NEW i \in Index,
                      log[i].kind = "event", log[i].resolved # Null,
                      log[i].payload.type = "STATE",
                      \/ log[i].payload.is_on = Null
                      \/ log[i].payload.pin = Null
                      \/ log[i].payload.is_on = log[i].payload.pin
               PROVE  ResolveStateFromEvent(log[i].pin, log[i].payload.text)
                          = log[i].resolved
    BY DEF ResolversAgree
  <2>1. /\ log[i].payload \in Payload
        /\ log[i].resolved = NewState(log[i].payload)
        /\ log[i].pin = StoredPin(log[i].payload)
    BY DEF LogInv, RecordOK
  <2> QED
    BY <2>1, ResolversMeet
<1> QED
  BY <1>1, PreparedInit, PreparedNext, LogNext, TypeInvariant, PTL DEF Spec

(***************************************************************************)
(* SerialConfigComplete and OldPinsGone, one microcontroller at a time: the *)
(* rebuilds of its configuration did not overlap, record i is superseded   *)
(* or still there, and nothing older than it is.                           *)
(***************************************************************************)
SerialOn(m) == \A i, j \in Syncs(m) : j < i => j <= log[i].mcseen

Shown(m, i) ==
    \/ \E j \in Syncs(m) : /\ i < j
                           /\ \/ log[j].device = log[i].device
                              \/ log[j].number = log[i].number
    \/ \E k \in DOMAIN conf[m] :
          conf[m][k] = [id |-> log[i].device, pin |-> log[i].number,
                        is_on |-> log[i].resolved]

Latest(m, i) ==
    \/ \E j \in Syncs(m) : i < j /\ log[j].device = log[i].device
    \/ \A k \in DOMAIN conf[m] :
          conf[m][k].id = log[i].device =>
              /\ conf[m][k].pin = log[i].number
              /\ conf[m][k].is_on = log[i].resolved

CompleteInv ==
    \A m \in Mcs : SerialOn(m) => \A i \in Syncs(m) : Shown(m, i) /\ Latest(m, i)

(* A step that neither rebuilds the configuration of m nor writes it.       *)
LEMMA ShownStays ==
    ASSUME TypeInv, CompleteInv, NEW m \in Mcs, conf'[m] = conf[m],
           \A i : i \in Syncs(m)' <=> i \in Syncs(m),
           \A i \in Syncs(m) : log'[i] = log[i]
    PROVE  SerialOn(m)' => \A i \in Syncs(m)' : Shown(m, i)' /\ Latest(m, i)'
<1> SUFFICES ASSUME SerialOn(m)', NEW i \in Syncs(m)'
             PROVE  Shown(m, i)' /\ Latest(m, i)'
  OBVIOUS
<1>1. SerialOn(m)
  BY DEF SerialOn
<1>2. Shown(m, i) /\ Latest(m, i) /\ i \in Syncs(m)
  BY <1>1 DEF CompleteInv
<1>3. Shown(m, i)'
  BY <1>2 DEF Shown
<1>4. Latest(m, i)'
  BY <1>2 DEF Latest
<1> QED
  BY <1>3, <1>4

(* The commit of a transaction that rebuilt the configuration of m and had  *)
(* seen every earlier one.                                                  *)
LEMMA ShownByCommit ==
    ASSUME TypeInv, PreparedInv, CompleteInv, NEW w \in Workers, Commit(w),
           NEW m \in Mcs, req[w].resolved # Null, Home[req[w].device] = m,
           SerialOn(m)', NEW i \in Syncs(m)'
    PROVE  Shown(m, i)' /\ Latest(m, i)'
<1>e. PICK e : e = EventRecord(req[w])
  OBVIOUS
<1>n. PICK n : n = Len(log) + 1
  OBVIOUS
<1>1. /\ log' = Append(log, e) /\ e.kind = "event" /\ e.device = req[w].device
      /\ e.number = req[w].row.number /\ e.resolved = req[w].resolved
      /\ e.mcseen = req[w].mcseen
      /\ conf'[m] = Flushed(conf[m], req[w].base, req[w].next)
  BY <1>e, CommitShape
<1>2. /\ Len(log) \in Nat /\ log'[n] = e
      /\ \A j \in Index : log'[j] = log[j]
  BY <1>1, <1>n, WritersAppend
<1>3. \A j : j \in Syncs(m)' <=> j \in Syncs(m) \/ j = n
  BY <1>1, <1>n, SyncsAppend
<1>4. \A j \in Syncs(m) : j \in Index /\ j \in Nat /\ j < n
  BY <1>2, <1>n DEF Syncs, Index
<1>5. \A j \in Syncs(m) : j <= req[w].mcseen
  <2>1. n \in Syncs(m)'
    BY <1>3
  <2> QED
    BY <1>1, <1>2, <1>3, <1>4, <2>1 DEF SerialOn
<1>6. PICK x : x = [id |-> e.device, pin |-> e.number, is_on |-> e.resolved]
  OBVIOUS
<1>7. req[w].base = conf[m] /\ req[w].next = SyncDeviceConfig(conf[m], x)
  <2>1. m # Null
    BY NullAssumption
  <2> QED
    BY <1>1, <1>5, <1>6, <2>1 DEF PreparedInv, Prepared
<1>8. conf'[m] = SyncDeviceConfig(conf[m], x)
  BY <1>1, <1>7 DEF Flushed
<1>9. x.id = e.device /\ x.pin = e.number /\ x.is_on = e.resolved
  BY <1>6
<1>10. /\ \A k \in DOMAIN conf[m] :
             /\ k \in DOMAIN conf'[m]
             /\ (conf[m][k].id # e.device /\ conf[m][k].pin # e.number) =>
                   conf'[m][k] = conf[m][k]
       /\ \A k \in DOMAIN conf'[m] :
             \/ conf'[m][k] = x
             \/ /\ k \in DOMAIN conf[m] /\ conf'[m][k] = conf[m][k]
                /\ conf'[m][k].id # e.device
       /\ \E k \in DOMAIN conf'[m] : conf'[m][k] = x
  <2>1. conf[m] \in Seq(Entry)
    BY DEF TypeInv, TypeOK
  <2>2. PICK L \in Seq(Entry) : L = conf[m]
    BY <2>1
  <2>3. PICK L2 : L2 = conf'[m]
    OBVIOUS
  <2>4. /\ \A k \in DOMAIN L :
              k \in DOMAIN L2 /\ (~OfDevice(L[k], x) => L2[k] = L[k])
        /\ \A k \in DOMAIN L2 :
              \/ L2[k] = x
              \/ k \in DOMAIN L /\ ~OfDevice(L[k], x) /\ L2[k] = L[k]
        /\ \E k \in DOMAIN L2 : L2[k] = x
    <3>1. L2 = SyncDeviceConfig(L, x)
      BY <1>8, <2>2, <2>3
    <3> QED
      BY <3>1, SyncShape
  <2> QED
    BY <1>9, <2>2, <2>3, <2>4 DEF OfDevice
<1>11. n \in Syncs(m)'
  BY <1>3
<1>12. CASE i = n
  <2>1. Shown(m, i)'
    BY <1>2, <1>6, <1>10, <1>12 DEF Shown
  <2>2. Latest(m, i)'
    BY <1>2, <1>9, <1>10, <1>12 DEF Latest
  <2> QED
    BY <2>1, <2>2
<1>13. CASE i \in Syncs(m)
  <2>1. SerialOn(m)
    BY <1>2, <1>3, <1>4 DEF SerialOn
  <2>2. Shown(m, i) /\ Latest(m, i)
    BY <1>13, <2>1 DEF CompleteInv
  <2>3. log'[i] = log[i] /\ i < n
    BY <1>2, <1>4, <1>13
  <2>4. CASE log[i].device = e.device
    BY <1>2, <1>11, <2>3, <2>4 DEF Shown, Latest
  <2>5. CASE log[i].device # e.device
    <3>1. CASE \E j \in Syncs(m) : i < j /\ log[j].device = log[i].device
      <4>1. PICK j \in Syncs(m) : i < j /\ log[j].device = log[i].device
        BY <3>1
      <4>2. j \in Syncs(m)' /\ log'[j] = log[j]
        BY <1>2, <1>3, <1>4
      <4> QED
        BY <2>3, <4>1, <4>2 DEF Shown, Latest
    <3>2. CASE ~\E j \in Syncs(m) : i < j /\ log[j].device = log[i].device
      <4>1. Latest(m, i)'
        <5>1. \A k \in DOMAIN conf[m] :
                 conf[m][k].id = log[i].device =>
                     /\ conf[m][k].pin = log[i].number
                     /\ conf[m][k].is_on = log[i].resolved
          BY <2>2, <3>2 DEF Latest
        <5> QED
          BY <1>9, <1>10, <2>3, <2>5, <5>1 DEF Latest
      <4>2. Shown(m, i)'
        <5>1. CASE log[i].number = e.number
          BY <1>2, <1>11, <2>3, <5>1 DEF Shown
        <5>2. CASE \E j \in Syncs(m) : i < j /\ log[j].number = log[i].number
          <6>1. PICK j \in Syncs(m) : i < j /\ log[j].number = log[i].number
            BY <5>2
          <6>2. j \in Syncs(m)' /\ log'[j] = log[j]
            BY <1>2, <1>3, <1>4
          <6> QED
            BY <2>3, <6>1, <6>2 DEF Shown
        <5>3. CASE /\ log[i].number # e.number
                   /\ ~\E j \in Syncs(m) : i < j /\ log[j].number = log[i].number
          <6>1. PICK k \in DOMAIN conf[m] :
                   conf[m][k] = [id |-> log[i].device, pin |-> log[i].number,
                                 is_on |-> log[i].resolved]
            BY <2>2, <3>2, <5>3 DEF Shown
          <6>2. conf[m][k].id # e.device /\ conf[m][k].pin # e.number
            BY <2>5, <5>3, <6>1
          <6>3. k \in DOMAIN conf'[m] /\ conf'[m][k] = conf[m][k]
            BY <1>10, <6>2
          <6> QED
            BY <2>3, <6>1, <6>3 DEF Shown
        <5> QED
          BY <5>1, <5>2, <5>3
      <4> QED
        BY <4>1, <4>2
    <3> QED
      BY <3>1, <3>2
  <2> QED
    BY <2>4, <2>5
<1> QED
  BY <1>3, <1>12, <1>13

LEMMA CompleteNext ==
    TypeInv /\ PreparedInv /\ CompleteInv /\ [Next]_vars => CompleteInv'
<1> SUFFICES ASSUME TypeInv, PreparedInv, CompleteInv, [Next]_vars,
                    NEW m \in Mcs
             PROVE  SerialOn(m)' => \A i \in Syncs(m)' : Shown(m, i)' /\ Latest(m, i)'
  BY DEF CompleteInv
<1>0. \A i \in Syncs(m) : i \in Index
  BY DEF Syncs
<1>1. ASSUME NEW w \in Workers, Commit(w)
      PROVE  SerialOn(m)' => \A i \in Syncs(m)' : Shown(m, i)' /\ Latest(m, i)'
  <2>1. CASE req[w].resolved # Null /\ Home[req[w].device] = m
    BY <1>1, <2>1, ShownByCommit
  <2>2. CASE ~(req[w].resolved # Null /\ Home[req[w].device] = m)
    <3>1. PICK e : e = EventRecord(req[w])
      OBVIOUS
    <3>2. /\ log' = Append(log, e) /\ e.device = req[w].device
          /\ e.resolved = req[w].resolved /\ conf'[m] = conf[m]
      BY <1>1, <2>2, <3>1, CommitShape
    <3>3. \A i \in Index : log'[i] = log[i]
      BY <3>2, WritersAppend
    <3>4. \A i : i \in Syncs(m)' <=> i \in Syncs(m)
      BY <2>2, <3>2, SyncsAppend
    <3> QED
      BY <1>0, <3>2, <3>3, <3>4, ShownStays
  <2> QED
    BY <2>1, <2>2
<1>2. ASSUME NEW d \in Devices, NEW s \in BOOLEAN, SetManualState(d, s)
      PROVE  SerialOn(m)' => \A i \in Syncs(m)' : Shown(m, i)' /\ Latest(m, i)'
  <2>1. PICK e : e = CommandRecord(d, s)
    OBVIOUS
  <2>2. log' = Append(log, e) /\ e.kind # "event" /\ conf'[m] = conf[m]
    BY <1>2, <2>1 DEF SetManualState, CommandRecord
  <2>3. \A i \in Index : log'[i] = log[i]
    BY <2>2, WritersAppend
  <2>4. \A i : i \in Syncs(m)' <=> i \in Syncs(m)
    BY <2>2, SyncsAppend
  <2> QED
    BY <1>0, <2>2, <2>3, <2>4, ShownStays
<1>3. ASSUME UNCHANGED <<conf, log>>
      PROVE  SerialOn(m)' => \A i \in Syncs(m)' : Shown(m, i)' /\ Latest(m, i)'
  <2>1. Syncs(m)' = Syncs(m)
    BY <1>3 DEF Syncs, Index
  <2> QED
    BY <1>3, <2>1, ShownStays
<1>4. ASSUME NEW w \in Workers, Prepare(w) PROVE UNCHANGED <<conf, log>>
  BY <1>4 DEF Prepare
<1> QED
  BY <1>1, <1>2, <1>3, <1>4, Steps

LEMMA CompleteInit == Init => CompleteInv
<1>1. Init => \A m : Syncs(m) = {}
  BY DEF Init, Syncs, Index
<1> QED
  BY <1>1 DEF CompleteInv

(* When the rebuilds of a configuration do not overlap, it holds the last   *)
(* state of every device that reported one and kept its pin.                *)
THEOREM SerialConfiguration == Spec => []SerialConfigComplete
<1>1. CompleteInv => SerialConfigComplete
  BY DEF CompleteInv, SerialOn, Shown, SerialConfigComplete
<1> QED
  BY <1>1, CompleteInit, PreparedInit, PreparedNext, CompleteNext,
     TypeInvariant, PTL DEF Spec

(* Under the same condition nothing older than the last report of a device  *)
(* is left of it, on whatever pin it was before.                            *)
THEOREM OldPinsAreGone == Spec => []OldPinsGone
<1>1. CompleteInv => OldPinsGone
  BY DEF CompleteInv, SerialOn, Latest, OldPinsGone
<1> QED
  BY <1>1, CompleteInit, PreparedInit, PreparedNext, CompleteNext,
     TypeInvariant, PTL DEF Spec

-----------------------------------------------------------------------------
(* What a step may do to the snapshots and the configurations.             *)

(* The row a commit writes is its own or the one that was there.            *)
LEMMA CommitExplained ==
    ASSUME TypeInv, PreparedInv, NEW w \in Workers, Commit(w),
           NEW d \in Devices, rows[d] # Null, rows'[d] # Null,
           \/ rows'[d].manual_state # rows[d].manual_state
           \/ rows'[d].changed_at # rows[d].changed_at
    PROVE  LET r == req[w]
           IN  /\ r.device = d /\ r.resolved # Null
               /\ rows'[d].manual_state \in {r.resolved, rows[d].manual_state}
               /\ rows'[d].changed_at \in {r.stamp, rows[d].changed_at}
<1> DEFINE r == req[w]
<1>1. r.device \in Devices /\ r.resolved # Null /\ r.device = d
  BY DEF Commit, TypeInv, TypeOK, BusyOK
<1>2. rows'[d] = FlushedRow(r)
  BY <1>1 DEF Commit, TypeInv, TypeOK
<1>3. rows[d] \in Row
  BY DEF TypeInv, TypeOK
<1>4. /\ FlushedRow(r).manual_state =
            Flushed(rows[d].manual_state, r.row.manual_state, r.resolved)
      /\ FlushedRow(r).changed_at =
            Flushed(rows[d].changed_at, r.row.changed_at, r.stamp)
  BY <1>1, <1>3 DEF FlushedRow, Row
<1> QED
  BY <1>1, <1>2, <1>4 DEF Flushed

(* The configuration it writes keeps what it had seen of the others.        *)
LEMMA CommitKeeps ==
    ASSUME TypeInv, PreparedInv, NEW w \in Workers, Commit(w),
           NEW m \in Mcs, conf'[m] # conf[m],
           \A i \in Syncs(m) : i <= req[w].mcseen,
           NEW k \in DOMAIN conf[m]
    PROVE  /\ k \in DOMAIN conf'[m]
           /\ (/\ conf[m][k].id # req[w].device
               /\ conf[m][k].pin # req[w].row.number) =>
                 conf'[m][k] = conf[m][k]
<1>1. /\ req[w].resolved # Null /\ m = Home[req[w].device]
      /\ conf'[m] = Flushed(conf[m], req[w].base, req[w].next)
  BY CommitShape
<1>2. PICK y : y = [id |-> req[w].device, pin |-> req[w].row.number,
                    is_on |-> req[w].resolved]
  OBVIOUS
<1>3. req[w].base = conf[m] /\ req[w].next = SyncDeviceConfig(conf[m], y)
  <2>1. m # Null
    BY NullAssumption
  <2> QED
    BY <1>1, <1>2, <2>1 DEF PreparedInv, Prepared
<1>4. y.id = req[w].device /\ y.pin = req[w].row.number
  BY <1>2
<1>5. conf'[m] = SyncDeviceConfig(conf[m], y)
  BY <1>1, <1>3 DEF Flushed
<1>6. PICK L \in Seq(Entry) : L = conf[m]
  BY DEF TypeInv, TypeOK
<1>7. k \in DOMAIN conf'[m] /\ (~OfDevice(L[k], y) => conf'[m][k] = L[k])
  BY <1>5, <1>6, SyncShape
<1> QED
  BY <1>4, <1>6, <1>7 DEF OfDevice

(* The state of a device and the configuration of a microcontroller change  *)
(* only with a record of the log, appended in the same step, that says so.  *)
THEOREM SnapshotsExplained == Spec => SnapshotExplained
<1> DEFINE RowStep(d) ==
               rows[d] # Null /\ rows'[d] # Null
               /\ (\/ rows'[d].manual_state # rows[d].manual_state
                   \/ rows'[d].changed_at # rows[d].changed_at) =>
                   Len(log') = Len(log) + 1 /\ RowExplained(d, log'[Len(log')])
           ConfStep(m) ==
               conf'[m] # conf[m] =>
                   Len(log') = Len(log) + 1 /\ ConfigExplained(m, log'[Len(log')])
<1>1. ASSUME TypeInv, PreparedInv, NEW w \in Workers, Commit(w)
      PROVE  (\A d \in Devices : RowStep(d)) /\ (\A m \in Mcs : ConfStep(m))
  <2>1. PICK e : e = EventRecord(req[w])
    OBVIOUS
  <2>2. /\ log' = Append(log, e) /\ e.kind = "event" /\ e.device = req[w].device
        /\ e.number = req[w].row.number /\ e.resolved = req[w].resolved
        /\ e.stamp = req[w].stamp /\ e.mcseen = req[w].mcseen
    BY <1>1, <2>1, CommitShape
  <2>3. Len(log') = Len(log) + 1 /\ log'[Len(log')] = e
    BY <1>1, <2>2, WritersAppend
  <2>4. ASSUME NEW d \in Devices, rows[d] # Null, rows'[d] # Null,
               \/ rows'[d].manual_state # rows[d].manual_state
               \/ rows'[d].changed_at # rows[d].changed_at
        PROVE  RowExplained(d, e)
    BY <1>1, <2>2, <2>4, CommitExplained DEF RowExplained
  <2>5. ASSUME NEW m \in Mcs, conf'[m] # conf[m] PROVE ConfigExplained(m, e)
    <3>1. req[w].resolved # Null /\ m = Home[req[w].device]
      BY <1>1, <2>5, CommitShape
    <3>2. ASSUME \A i \in Syncs(m) : i <= e.mcseen,
                 NEW k \in DOMAIN conf[m]
          PROVE  /\ k \in DOMAIN conf'[m]
                 /\ (conf[m][k].id # e.device /\ conf[m][k].pin # e.number) =>
                       conf'[m][k] = conf[m][k]
      BY <1>1, <2>2, <2>5, <3>2, CommitKeeps
    <3> QED
      BY <2>2, <3>1, <3>2 DEF ConfigExplained
  <2> QED
    BY <2>3, <2>4, <2>5
<1>2. ASSUME TypeInv, NEW c \in Devices, NEW s \in BOOLEAN, SetManualState(c, s)
      PROVE  (\A d \in Devices : RowStep(d)) /\ (\A m \in Mcs : ConfStep(m))
  <2>1. PICK e : e = CommandRecord(c, s)
    OBVIOUS
  <2>2. log' = Append(log, e) /\ e.device = c /\ e.resolved = s /\ conf' = conf
    BY <1>2, <2>1 DEF SetManualState, CommandRecord
  <2>3. Len(log') = Len(log) + 1 /\ log'[Len(log')] = e
    BY <1>2, <2>2, WritersAppend
  <2>4. rows[c] \in Row /\ s # Null
    BY <1>2, NullAssumption DEF SetManualState, Live, TypeInv, TypeOK
  <2>5. ASSUME NEW d \in Devices
        PROVE  \/ rows'[d] = rows[d]
               \/ /\ d = c /\ rows'[d].manual_state = s
                  /\ rows'[d].changed_at = rows[d].changed_at
    BY <1>2, <2>4 DEF SetManualState, Row, TypeInv, TypeOK
  <2>6. ASSUME NEW d \in Devices, rows[d] # Null, rows'[d] # Null,
               \/ rows'[d].manual_state # rows[d].manual_state
               \/ rows'[d].changed_at # rows[d].changed_at
        PROVE  RowExplained(d, e)
    BY <2>2, <2>4, <2>5, <2>6 DEF RowExplained
  <2> QED
    BY <2>2, <2>3, <2>6
<1>3. ASSUME conf' = conf,
             \A d \in Devices : rows[d] # Null /\ rows'[d] # Null =>
                /\ rows'[d].manual_state = rows[d].manual_state
                /\ rows'[d].changed_at = rows[d].changed_at
      PROVE  (\A d \in Devices : RowStep(d)) /\ (\A m \in Mcs : ConfStep(m))
  BY <1>3
<1>4. ASSUME NEW w \in Workers, Prepare(w) PROVE UNCHANGED <<rows, conf>>
  BY <1>4 DEF Prepare
<1>5. TypeInv /\ PreparedInv /\ [Next]_vars =>
          (\A d \in Devices : RowStep(d)) /\ (\A m \in Mcs : ConfStep(m))
  BY <1>1, <1>2, <1>3, <1>4, Steps
<1> QED
  BY <1>5, PreparedInit, PreparedNext, TypeInvariant, PTL
     DEF Spec, SnapshotExplained

=============================================================================
