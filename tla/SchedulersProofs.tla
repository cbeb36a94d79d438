-------------------------- MODULE SchedulersProofs --------------------------
(***************************************************************************)
(* Theorems about Schedulers, for every set of schedulers, devices, slots  *)
(* and workers, every provider table and any number of requests.           *)
(***************************************************************************)
EXTENDS Schedulers, EmailTasks, FiniteSetTheorems, TLAPS

(***************************************************************************)
(* DeletedOff speaks of one step.  It rests on what holds in between: a    *)
(* device is on a scheduler that exists; an id that was never given has no *)
(* list; the device between the two calls of a deletion is one it has left *)
(* to do;                                                                  *)
(***************************************************************************)
Owned ==
    \A d \in Devices : devices[d] # Null /\ devices[d].scheduler # Null =>
        Live(devices[d].scheduler)

UnusedUnlisted == \A s \in Schedulers : s \notin used => listed[s] = {}

AtTodo ==
    \A w \in Workers : deletion[w] # Null /\ deletion[w].at # Null =>
        deletion[w].at \in deletion[w].todo

(***************************************************************************)
(* a listed device that nobody else changed is still on the scheduler, or  *)
(* it was switched to manual and is off, about to be switched off, or      *)
(* stranded;                                                               *)
(***************************************************************************)
Handled(d) == \E v \in Workers : deletion[v] # Null /\ deletion[v].at = d

OffOrPending(d) ==
    /\ devices[d].mode = "MANUAL" /\ devices[d].scheduler = Null
    /\ devices[d].manual_state = FALSE \/ d \in stranded \/ Handled(d)

ListedKnown ==
    \A s \in Schedulers : Live(s) =>
        \A d \in listed[s] :
            devices[d] # Null /\ (devices[d].scheduler = s \/ OffOrPending(d))

(***************************************************************************)
(* and a device that is still on the scheduler of a deletion is left to    *)
(* do, unless another request put it there meanwhile.                      *)
(***************************************************************************)
OnTodo ==
    \A w \in Workers : deletion[w] # Null =>
        \A d \in On(deletion[w].scheduler) \ changed[w] :
            d \in deletion[w].todo /\ d # deletion[w].at

Inv ==
    TypeOK /\ Owned /\ UnusedUnlisted /\ AtTodo /\ ListedKnown /\ OnTodo

(* The rows and handlers that are there.                                    *)
LEMMA Values ==
    ASSUME TypeOK
    PROVE  /\ \A d \in Devices : devices[d] # Null => devices[d] \in Device
           /\ \A w \in Workers : deletion[w] # Null => deletion[w] \in Handler
           /\ \A s \in Schedulers : listed[s] \subseteq Devices
           /\ \A w \in Workers : changed[w] \subseteq Devices
           /\ \A s \in Schedulers : s # Null
           /\ \A d \in Devices : d # Null
BY NullAssumption DEF TypeOK

LEMMA InitInv == Init => Inv
<1> SUFFICES ASSUME Init PROVE Inv
  OBVIOUS
<1>1. PICK of \in [Devices -> Schedulers \cup {Null}] :
        /\ \A d \in Devices : of[d] # Null => schedulers[of[d]] # Null
        /\ devices = [d \in Devices |->
                        [mode |-> IF of[d] = Null THEN "MANUAL" ELSE "SCHEDULE",
                         scheduler |-> of[d], manual_state |-> TRUE]]
  BY DEF Init
<1>2. /\ schedulers \in [Schedulers -> {Null, {}}]
      /\ used = {s \in Schedulers : schedulers[s] # Null}
      /\ deletion = [w \in Workers |-> Null] /\ listed = [s \in Schedulers |-> {}]
      /\ changed = [w \in Workers |-> {}] /\ stranded = {} /\ others = 0
      /\ providers \in ProviderTables
  BY DEF Init
<1>3. schedulers \in [Schedulers -> {Null} \cup SUBSET Slots]
  BY <1>2
<1>4. devices \in [Devices -> Device \cup {Null}]
  BY <1>1 DEF Device
<1>5. TypeOK
  BY <1>2, <1>3, <1>4, OthersBound DEF TypeOK, Live
<1>6. Owned
  BY <1>1 DEF Owned, Live
<1> QED
  BY <1>2, <1>5, <1>6
     DEF Inv, UnusedUnlisted, AtTodo, ListedKnown, OnTodo

-----------------------------------------------------------------------------
(* Requests other than deletions.                                          *)

(* A scheduler is created, or its slots change.                             *)
LEMMA StoreStep ==
    ASSUME Inv, NEW s \in Schedulers, NEW slots \in SUBSET Slots,
           s \notin used \/ Live(s), Store(s, slots),
           UNCHANGED <<providers, deletion>>, others' \in 0..MaxOthers
    PROVE  Inv'
<1>1. /\ schedulers' = [schedulers EXCEPT ![s] = slots] /\ used' = used \cup {s}
      /\ UNCHANGED <<devices, listed, changed, stranded>>
  BY DEF Store
<1>2. slots # Null
  BY NullAssumption
<1>3. \A t \in Schedulers : Live(t)' <=> Live(t) \/ t = s
  BY <1>1, <1>2 DEF Inv, TypeOK, Live
<1>4. schedulers' \in [Schedulers -> {Null} \cup SUBSET Slots]
  BY <1>1 DEF Inv, TypeOK
<1>5. TypeOK'
  BY <1>1, <1>3, <1>4 DEF Inv, TypeOK
<1>6. Owned' /\ UnusedUnlisted'
  BY <1>1, <1>3, Values DEF Inv, Owned, UnusedUnlisted, Device
<1>7. AtTodo' /\ OnTodo'
  BY <1>1 DEF Inv, AtTodo, OnTodo, On
<1>8. ListedKnown'
  <2>1. ASSUME NEW t \in Schedulers, Live(t)', NEW d \in listed[t] PROVE Live(t)
    BY <1>3, <2>1 DEF Inv, UnusedUnlisted
  <2> QED
    BY <1>1, <2>1 DEF Inv, ListedKnown, OffOrPending, Handled
<1> QED
  BY <1>5, <1>6, <1>7, <1>8 DEF Inv

(* A device is written or deleted: it leaves every list.                    *)
LEMMA ChangeStep ==
    ASSUME Inv, NEW d \in Devices, NEW row \in Device \cup {Null},
           row # Null /\ row.scheduler # Null => Live(row.scheduler),
           Change(d, row),
           UNCHANGED <<providers, deletion>>, others' \in 0..MaxOthers
    PROVE  Inv'
<1>1. /\ devices' = [devices EXCEPT ![d] = row]
      /\ listed' = [s \in Schedulers |-> listed[s] \ {d}]
      /\ changed' = [w \in Workers |->
                        IF deletion[w] = Null THEN {} ELSE changed[w] \cup {d}]
      /\ stranded' = stranded \ {d}
      /\ UNCHANGED <<schedulers, used, providers, deletion>>
  BY DEF Change
<1>2. TypeOK'
  <2>1. devices' \in [Devices -> Device \cup {Null}]
    BY <1>1 DEF Inv, TypeOK
  <2>2. listed' \in [Schedulers -> SUBSET Devices]
    BY <1>1 DEF Inv, TypeOK
  <2>3. changed' \in [Workers -> SUBSET Devices]
    BY <1>1 DEF Inv, TypeOK
  <2> QED
    BY <1>1, <2>1, <2>2, <2>3 DEF Inv, TypeOK, Live
<1>3. \A c \in Devices \ {d} : devices'[c] = devices[c]
  BY <1>1 DEF Inv, TypeOK
<1>4. devices'[d] = row
  BY <1>1 DEF Inv, TypeOK
<1>5. Owned'
  BY <1>1, <1>3, <1>4 DEF Inv, Owned, Live
<1>6. UnusedUnlisted' /\ AtTodo'
  BY <1>1 DEF Inv, UnusedUnlisted, AtTodo
<1>7. ListedKnown'
  <2> SUFFICES ASSUME NEW s \in Schedulers, Live(s)', NEW c \in listed'[s]
               PROVE  devices'[c] # Null
                      /\ (devices'[c].scheduler = s \/ OffOrPending(c)')
    BY DEF ListedKnown
  <2>1. c \in listed[s] /\ c # d /\ c \in Devices /\ Live(s)
    BY <1>1, Values DEF Inv, Live
  <2>2. devices'[c] = devices[c] /\ (c \in stranded' <=> c \in stranded)
    BY <1>1, <1>3, <2>1
  <2>3. devices[c] # Null /\ (devices[c].scheduler = s \/ OffOrPending(c))
    BY <2>1 DEF Inv, ListedKnown
  <2> QED
    BY <1>1, <2>2, <2>3 DEF OffOrPending, Handled
<1>8. OnTodo'
  <2> SUFFICES ASSUME NEW w \in Workers, deletion[w] # Null,
                      NEW c \in Devices, devices'[c] # Null,
                      devices'[c].scheduler = deletion[w].scheduler,
                      c \notin changed'[w]
               PROVE  c \in deletion[w].todo /\ c # deletion[w].at
    BY <1>1 DEF OnTodo, On
  <2>1. c # d /\ c \notin changed[w]
    BY <1>1
  <2> QED
    BY <1>3, <2>1 DEF Inv, OnTodo, On
<1> QED
  BY <1>2, <1>5, <1>6, <1>7, <1>8 DEF Inv

LEMMA OthersStep ==
    ASSUME Inv, Others PROVE Inv'
<1>1. UNCHANGED <<providers, deletion>> /\ others' \in 0..MaxOthers
  BY OthersBound DEF Others, Inv, TypeOK
<1>2. ASSUME NEW s \in Schedulers, NEW slots \in SUBSET Slots,
             CreateScheduler(s, slots) \/ UpdateScheduler(s, slots)
      PROVE  Inv'
  BY <1>1, <1>2, StoreStep DEF CreateScheduler, UpdateScheduler
<1>3. ASSUME NEW d \in Devices, NEW s \in Schedulers \cup {Null}, CreateDevice(d, s)
      PROVE  Inv'
  <2>1. PICK row : row = [mode |-> IF s = Null THEN "MANUAL" ELSE "SCHEDULE",
                          scheduler |-> s, manual_state |-> FALSE]
    OBVIOUS
  <2>2. row \in Device /\ row.scheduler = s
    BY <2>1 DEF Device
  <2>3. Change(d, row) /\ (s # Null => Live(s))
    BY <1>3, <2>1 DEF CreateDevice
  <2> QED
    BY <1>1, <2>2, <2>3, ChangeStep
<1>4. ASSUME NEW d \in Devices, NEW s \in Schedulers, AttachDevice(d, s) PROVE Inv'
  <2>1. PICK row : row = [devices[d] EXCEPT !.mode = "SCHEDULE", !.scheduler = s]
    OBVIOUS
  <2>2. devices[d] \in Device /\ Live(s) /\ Change(d, row)
    BY <1>4, <2>1, Values DEF AttachDevice, Inv
  <2>3. row \in Device /\ row.scheduler = s
    BY <2>1, <2>2 DEF Device
  <2> QED
    BY <1>1, <2>2, <2>3, ChangeStep
<1>5. ASSUME NEW d \in Devices, DetachDevice(d) PROVE Inv'
  <2>1. PICK row : row = [devices[d] EXCEPT !.mode = "MANUAL", !.scheduler = Null]
    OBVIOUS
  <2>2. devices[d] \in Device /\ Change(d, row)
    BY <1>5, <2>1, Values DEF DetachDevice, Inv
  <2>3. row \in Device /\ row.scheduler = Null
    BY <2>1, <2>2 DEF Device
  <2> QED
    BY <1>1, <2>2, <2>3, ChangeStep
<1>6. ASSUME NEW d \in Devices, DeleteDevice(d) PROVE Inv'
  BY <1>1, <1>6, ChangeStep DEF DeleteDevice
<1>7. ASSUME NEW d \in Devices, NEW state \in BOOLEAN, SetManualState(d, state)
      PROVE  Inv'
  <2>1. PICK row : row = [devices[d] EXCEPT !.manual_state = state]
    OBVIOUS
  <2>2. devices[d] # Null /\ devices[d] \in Device /\ Change(d, row)
    BY <1>7, <2>1, Values DEF SetManualState, Inv
  <2>3. row \in Device /\ row.scheduler = devices[d].scheduler
    BY <2>1, <2>2 DEF Device
  <2>4. row.scheduler # Null => Live(row.scheduler)
    BY <2>2, <2>3 DEF Inv, Owned
  <2> QED
    BY <1>1, <2>2, <2>3, <2>4, ChangeStep
<1> QED
  BY <1>2, <1>3, <1>4, <1>5, <1>6, <1>7 DEF Others

-----------------------------------------------------------------------------
(* Deletions.                                                              *)

(* The handler of one deletion changes; what the others hold stays.         *)
LEMMA HandlerChange ==
    ASSUME TypeOK, NEW w \in Workers, NEW h \in Handler \cup {Null},
           deletion' = [deletion EXCEPT ![w] = h]
    PROVE  /\ deletion' \in [Workers -> {Null} \cup Handler]
           /\ deletion'[w] = h
           /\ \A v \in Workers \ {w} : deletion'[v] = deletion[v]
           /\ \A d : (deletion[w] # Null => deletion[w].at # d) /\ Handled(d) => Handled(d)'
           /\ \A d : Handled(d)' => Handled(d) \/ (h # Null /\ h.at = d)
<1>1. /\ deletion' \in [Workers -> {Null} \cup Handler]
      /\ deletion'[w] = h
      /\ \A v \in Workers \ {w} : deletion'[v] = deletion[v]
  BY DEF TypeOK
<1> QED
  BY <1>1 DEF Handled

(* The devices of a scheduler are listed.                                   *)
LEMMA ListStep ==
    ASSUME Inv, NEW w \in Workers, NEW s \in Schedulers, ListDevices(w, s),
           UNCHANGED <<providers, used, others>>
    PROVE  Inv'
<1>h. PICK h : h = [scheduler |-> s, todo |-> On(s), at |-> Null]
  OBVIOUS
<1>1. /\ deletion[w] = Null /\ deletion' = [deletion EXCEPT ![w] = h]
      /\ listed' = [listed EXCEPT ![s] = listed[s] \cup On(s)]
      /\ UNCHANGED <<schedulers, devices, changed, stranded, providers, used, others>>
  BY <1>h DEF ListDevices
<1>2. On(s) \subseteq Devices
  BY DEF On
<1>3. h \in Handler /\ h.scheduler = s /\ h.todo = On(s) /\ h.at = Null
  BY <1>2, <1>h DEF Handler
<1>4. TypeOK
  BY DEF Inv
<1>5. /\ deletion' \in [Workers -> {Null} \cup Handler]
      /\ deletion'[w] = h
      /\ \A v \in Workers \ {w} : deletion'[v] = deletion[v]
      /\ \A d : Handled(d) => Handled(d)'
  BY <1>1, <1>3, <1>4, HandlerChange
<1>6. /\ listed'[s] = listed[s] \cup On(s)
      /\ \A t \in Schedulers \ {s} : listed'[t] = listed[t]
      /\ listed' \in [Schedulers -> SUBSET Devices]
  BY <1>1, <1>2, <1>4 DEF TypeOK
<1>7. TypeOK' /\ Owned'
  BY <1>1, <1>4, <1>5, <1>6 DEF Inv, TypeOK, Live, Owned
<1>8. UnusedUnlisted'
  <2>1. ASSUME s \notin used PROVE On(s) = {}
    <3>1. ~Live(s)
      BY <2>1, <1>4 DEF TypeOK
    <3> QED
      BY <3>1, Values, <1>4 DEF On, Inv, Owned
  <2> QED
    BY <1>1, <1>6, <2>1 DEF Inv, UnusedUnlisted
<1>9. AtTodo'
  BY <1>3, <1>5 DEF Inv, AtTodo
<1>10. ListedKnown'
  <2> SUFFICES ASSUME NEW t \in Schedulers, Live(t), NEW d \in listed'[t]
               PROVE  devices[d] # Null
                      /\ (devices[d].scheduler = t \/ OffOrPending(d)')
    BY <1>1 DEF ListedKnown, Live
  <2>1. CASE d \in listed[t]
    <3>1. devices[d] # Null /\ (devices[d].scheduler = t \/ OffOrPending(d))
      BY <2>1 DEF Inv, ListedKnown
    <3> QED
      BY <1>1, <1>5, <3>1 DEF OffOrPending
  <2>2. CASE d \notin listed[t]
    BY <1>6, <2>2 DEF On
  <2> QED
    BY <2>1, <2>2
<1>11. OnTodo'
  <2>1. \A t : On(t)' = On(t)
    BY <1>1 DEF On
  <2>2. \A d \in On(s) : d # Null
    BY <1>2, <1>4, Values
  <2> QED
    BY <1>1, <1>3, <1>5, <2>1, <2>2 DEF Inv, OnTodo
<1> QED
  BY <1>7, <1>8, <1>9, <1>10, <1>11 DEF Inv

(* A device goes to manual mode: it is on no scheduler, and at hand.        *)
LEMMA ManualStep ==
    ASSUME Inv, NEW w \in Workers, deletion[w] # Null, SwitchToManual(w),
           UNCHANGED <<providers, used, others>>
    PROVE  Inv'
<1>1. PICK d \in deletion[w].todo :
        /\ deletion[w].at = Null /\ devices[d] # Null
        /\ devices' = [devices EXCEPT ![d].mode = "MANUAL", ![d].scheduler = Null]
        /\ deletion' = [deletion EXCEPT ![w].at = d]
        /\ UNCHANGED <<schedulers, listed, changed, stranded, providers, used, others>>
  BY DEF SwitchToManual
<1>2. TypeOK /\ deletion[w] \in Handler /\ d \in Devices /\ devices[d] \in Device
      /\ d # Null
  BY <1>1, Values DEF Inv, Handler
<1>h. PICK h : h = [deletion[w] EXCEPT !.at = d]
  OBVIOUS
<1>3. /\ h \in Handler /\ h.at = d /\ h.todo = deletion[w].todo
      /\ h.scheduler = deletion[w].scheduler /\ h # Null
  BY <1>2, <1>h, NullAssumption DEF Handler
<1>4. deletion' = [deletion EXCEPT ![w] = h]
  BY <1>1, <1>h
<1>5. /\ deletion' \in [Workers -> {Null} \cup Handler]
      /\ deletion'[w] = h
      /\ \A v \in Workers \ {w} : deletion'[v] = deletion[v]
  BY <1>2, <1>3, <1>4, HandlerChange
<1>6. \A c \in Devices : Handled(c) => Handled(c)'
  <2>1. \A c \in Devices : deletion[w].at # c
    BY <1>1, <1>2, Values
  <2> QED
    BY <1>2, <1>3, <1>4, <2>1, HandlerChange
<1>7. Handled(d)'
  BY <1>3, <1>5 DEF Handled
<1>8. /\ \A c \in Devices \ {d} : devices'[c] = devices[c]
      /\ devices'[d] \in Device
      /\ devices'[d].mode = "MANUAL" /\ devices'[d].scheduler = Null
      /\ devices' \in [Devices -> Device \cup {Null}]
  <2>1. PICK row : row = [devices[d] EXCEPT !.mode = "MANUAL", !.scheduler = Null]
    OBVIOUS
  <2>2. row \in Device /\ row.mode = "MANUAL" /\ row.scheduler = Null
    BY <1>2, <2>1 DEF Device
  <2>3. devices' = [devices EXCEPT ![d] = row]
    BY <1>1, <2>1
  <2> QED
    BY <1>2, <2>2, <2>3 DEF TypeOK
<1>9. TypeOK'
  BY <1>1, <1>2, <1>5, <1>8 DEF TypeOK, Live
<1>10. Owned' /\ UnusedUnlisted'
  BY <1>1, <1>8 DEF Inv, Owned, UnusedUnlisted, Live
<1>11. AtTodo'
  BY <1>3, <1>5 DEF Inv, AtTodo
<1>12. ListedKnown'
  <2> SUFFICES ASSUME NEW t \in Schedulers, Live(t), NEW c \in listed[t]
               PROVE  devices'[c] # Null
                      /\ (devices'[c].scheduler = t \/ OffOrPending(c)')
    BY <1>1 DEF ListedKnown, Live
  <2>0. c \in Devices
    BY <1>2, Values
  <2>1. CASE c = d
    BY <1>7, <1>8, <2>1, NullAssumption DEF OffOrPending
  <2>2. CASE c # d
    <3>1. devices[c] # Null /\ (devices[c].scheduler = t \/ OffOrPending(c))
      BY DEF Inv, ListedKnown
    <3>2. devices'[c] = devices[c] /\ stranded' = stranded
      BY <1>1, <1>8, <2>0, <2>2
    <3> QED
      BY <1>6, <2>0, <3>1, <3>2 DEF OffOrPending
  <2> QED
    BY <2>1, <2>2
<1>13. OnTodo'
  <2>1. \A t \in Schedulers : On(t)' \subseteq On(t) \ {d}
    BY <1>2, <1>8, Values DEF On
  <2>2. \A v \in Workers : deletion'[v] # Null =>
           /\ deletion[v] # Null /\ deletion[v].scheduler \in Schedulers
           /\ deletion'[v].scheduler = deletion[v].scheduler
           /\ deletion'[v].todo = deletion[v].todo
           /\ deletion'[v].at \in {deletion[v].at, d}
    BY <1>2, <1>3, <1>5, Values DEF Handler
  <2>3. changed' = changed
    BY <1>1
  <2> QED
    BY <2>1, <2>2, <2>3 DEF Inv, OnTodo
<1> QED
  BY <1>9, <1>10, <1>11, <1>12, <1>13 DEF Inv

(* The device at hand is switched off.                                      *)
LEMMA OffStep ==
    ASSUME Inv, NEW w \in Workers, deletion[w] # Null, SwitchOff(w),
           UNCHANGED <<providers, used, others>>
    PROVE  Inv'
<1>d. PICK d : d = deletion[w].at
  OBVIOUS
<1>1. /\ d # Null /\ devices[d] # Null
      /\ devices' = [devices EXCEPT ![d] = TurnedOff(devices[d])]
      /\ deletion' = [deletion EXCEPT ![w].at = Null, ![w].todo = deletion[w].todo \ {d}]
      /\ stranded' = stranded \ {d}
      /\ UNCHANGED <<schedulers, listed, changed, providers, used, others>>
  BY <1>d DEF SwitchOff
<1>2. TypeOK /\ deletion[w] \in Handler /\ d \in Devices /\ devices[d] \in Device
  BY <1>1, <1>d, Values DEF Inv, Handler
<1>h. PICK h : h = [deletion[w] EXCEPT !.at = Null, !.todo = deletion[w].todo \ {d}]
  OBVIOUS
<1>3. /\ h \in Handler /\ h.at = Null /\ h.todo = deletion[w].todo \ {d}
      /\ h.scheduler = deletion[w].scheduler /\ h # Null
  BY <1>2, <1>h, NullAssumption DEF Handler
<1>4. deletion' = [deletion EXCEPT ![w] = h]
  BY <1>1, <1>2, <1>h DEF TypeOK
<1>5. /\ deletion' \in [Workers -> {Null} \cup Handler]
      /\ deletion'[w] = h
      /\ \A v \in Workers \ {w} : deletion'[v] = deletion[v]
  BY <1>2, <1>3, <1>4, HandlerChange
<1>6. \A c \in Devices \ {d} : Handled(c) => Handled(c)'
  <2>1. \A c \in Devices \ {d} : deletion[w].at # c
    BY <1>d
  <2> QED
    BY <1>2, <1>3, <1>4, <2>1, HandlerChange
<1>8. /\ \A c \in Devices \ {d} : devices'[c] = devices[c]
      /\ devices'[d] \in Device /\ devices'[d].manual_state = FALSE
      /\ devices'[d].mode = devices[d].mode
      /\ devices'[d].scheduler = devices[d].scheduler
      /\ devices' \in [Devices -> Device \cup {Null}]
  <2>1. PICK row : row = TurnedOff(devices[d])
    OBVIOUS
  <2>2. /\ row \in Device /\ row.manual_state = FALSE
        /\ row.mode = devices[d].mode /\ row.scheduler = devices[d].scheduler
    BY <1>2, <2>1 DEF Device, TurnedOff
  <2>3. devices' = [devices EXCEPT ![d] = row]
    BY <1>1, <2>1
  <2> QED
    BY <1>2, <2>2, <2>3 DEF TypeOK
<1>9. TypeOK'
  BY <1>1, <1>2, <1>5, <1>8 DEF TypeOK, Live
<1>10. Owned' /\ UnusedUnlisted'
  BY <1>1, <1>8 DEF Inv, Owned, UnusedUnlisted, Live
<1>11. AtTodo'
  BY <1>3, <1>5 DEF Inv, AtTodo
<1>12. ListedKnown'
  <2> SUFFICES ASSUME NEW t \in Schedulers, Live(t), NEW c \in listed[t]
               PROVE  devices'[c] # Null
                      /\ (devices'[c].scheduler = t \/ OffOrPending(c)')
    BY <1>1 DEF ListedKnown, Live
  <2>0. c \in Devices
    BY <1>2, Values
  <2>3. devices[c] # Null /\ (devices[c].scheduler = t \/ OffOrPending(c))
    BY DEF Inv, ListedKnown
  <2>1. CASE c = d
    BY <1>8, <2>1, <2>3, NullAssumption DEF OffOrPending
  <2>2. CASE c # d
    <3>2. devices'[c] = devices[c] /\ (c \in stranded' <=> c \in stranded)
      BY <1>1, <1>8, <2>0, <2>2
    <3> QED
      BY <1>6, <2>0, <2>2, <2>3, <3>2 DEF OffOrPending
  <2> QED
    BY <2>1, <2>2
<1>13. OnTodo'
  <2>1. ASSUME NEW v \in Workers, NEW c \in Devices, deletion'[v] # Null,
               devices'[c] # Null,
               devices'[c].scheduler = deletion'[v].scheduler,
               c \notin changed'[v]
        PROVE  c \in deletion'[v].todo /\ c # deletion'[v].at
    <3>1. /\ deletion[v] # Null
          /\ deletion'[v].scheduler = deletion[v].scheduler
      BY <1>2, <1>3, <1>5, <2>1
    <3>2. devices[c] # Null /\ devices[c].scheduler = deletion[v].scheduler
      BY <1>1, <1>8, <2>1, <3>1
    <3>3. c \in deletion[v].todo /\ c # deletion[v].at /\ c # Null
      BY <1>1, <1>2, <2>1, <3>1, <3>2, Values DEF Inv, OnTodo, On
    <3> QED
      BY <1>3, <1>5, <1>d, <3>3
  <2> QED
    BY <2>1 DEF OnTodo, On
<1> QED
  BY <1>9, <1>10, <1>11, <1>12, <1>13 DEF Inv

(* The row of the scheduler goes, with the references to it.                *)
LEMMA DeleteStep ==
    ASSUME Inv, NEW w \in Workers, deletion[w] # Null, DeleteScheduler(w),
           UNCHANGED <<providers, used, others>>
    PROVE  Inv'
<1>s. PICK s : s = deletion[w].scheduler
  OBVIOUS
<1>1. /\ deletion[w].todo = {} /\ Live(s)
      /\ schedulers' = [schedulers EXCEPT ![s] = Null]
      /\ devices' = [d \in Devices |->
                       IF d \in On(s) THEN [devices[d] EXCEPT !.scheduler = Null]
                       ELSE devices[d]]
      /\ deletion' = [deletion EXCEPT ![w] = Null]
      /\ changed' = [changed EXCEPT ![w] = {}]
      /\ UNCHANGED <<listed, stranded, providers, used, others>>
  BY <1>s DEF DeleteScheduler, AllSwitched
<1>2. TypeOK /\ deletion[w] \in Handler /\ s \in Schedulers /\ s # Null
  BY <1>s, Values DEF Inv, Handler
<1>3. deletion[w].at = Null
  BY <1>1 DEF Inv, AtTodo
<1>4. /\ deletion' \in [Workers -> {Null} \cup Handler]
      /\ deletion'[w] = Null
      /\ \A v \in Workers \ {w} : deletion'[v] = deletion[v]
  BY <1>1, <1>2, HandlerChange
<1>5. \A c \in Devices : Handled(c) => Handled(c)'
  <2>1. \A c \in Devices : deletion[w].at # c
    BY <1>2, <1>3, Values
  <2> QED
    BY <1>1, <1>2, <2>1, HandlerChange
<1>6. /\ \A t \in Schedulers : Live(t)' <=> Live(t) /\ t # s
      /\ schedulers' \in [Schedulers -> {Null} \cup SUBSET Slots]
  BY <1>1, <1>2 DEF TypeOK, Live
<1>7. ASSUME NEW d \in Devices
      PROVE  /\ d \notin On(s) => devices'[d] = devices[d]
             /\ d \in On(s) => devices'[d] \in Device /\ devices'[d].scheduler = Null
  <2>1. CASE d \in On(s)
    <3>1. PICK row : row = [devices[d] EXCEPT !.scheduler = Null]
      OBVIOUS
    <3>2. devices[d] \in Device
      BY <1>2, <2>1, Values DEF On
    <3>3. row \in Device /\ row.scheduler = Null
      BY <3>1, <3>2 DEF Device
    <3> QED
      BY <1>1, <2>1, <3>1, <3>3
  <2>2. CASE d \notin On(s)
    BY <1>1, <2>2
  <2> QED
    BY <2>1, <2>2
<1>8. TypeOK'
  <2>1. ASSUME NEW d \in Devices PROVE devices'[d] \in Device \cup {Null}
    BY <1>2, <1>7 DEF TypeOK
  <2>2. devices' \in [Devices -> Device \cup {Null}]
    BY <1>1, <2>1
  <2>3. changed' \in [Workers -> SUBSET Devices]
    BY <1>1, <1>2 DEF TypeOK
  <2> QED
    BY <1>1, <1>2, <1>4, <1>6, <2>2, <2>3 DEF TypeOK
<1>9. Owned'
  <2> SUFFICES ASSUME NEW d \in Devices, devices'[d] # Null,
                      devices'[d].scheduler # Null
               PROVE  schedulers'[devices'[d].scheduler] # Null
    BY DEF Owned, Live
  <2>1. d \notin On(s) /\ devices'[d] = devices[d]
    BY <1>7
  <2>2. devices[d].scheduler # s /\ Live(devices[d].scheduler)
        /\ devices[d].scheduler \in Schedulers
    BY <1>2, <2>1, Values DEF On, Inv, Owned, Device
  <2>r. PICK r : r = devices[d].scheduler
    OBVIOUS
  <2>3. Live(r)'
    BY <1>6, <2>2, <2>r
  <2> QED
    BY <2>1, <2>3, <2>r DEF Live
<1>10. UnusedUnlisted' /\ AtTodo'
  BY <1>1, <1>4 DEF Inv, UnusedUnlisted, AtTodo
<1>11. ListedKnown'
  <2> SUFFICES ASSUME NEW t \in Schedulers, Live(t)', NEW c \in listed[t]
               PROVE  devices'[c] # Null
                      /\ (devices'[c].scheduler = t \/ OffOrPending(c)')
    BY <1>1 DEF ListedKnown
  <2>1. Live(t) /\ t # s /\ c \in Devices
    BY <1>2, <1>6, Values
  <2>2. devices[c] # Null /\ (devices[c].scheduler = t \/ OffOrPending(c))
    BY <2>1 DEF Inv, ListedKnown
  <2>3. c \notin On(s)
    BY <1>2, <2>1, <2>2 DEF On, OffOrPending
  <2>4. devices'[c] = devices[c] /\ stranded' = stranded
    BY <1>1, <1>7, <2>1, <2>3
  <2> QED
    BY <1>5, <2>1, <2>2, <2>4 DEF OffOrPending
<1>12. OnTodo'
  <2>1. ASSUME NEW v \in Workers, NEW c \in Devices, deletion'[v] # Null,
               devices'[c] # Null,
               devices'[c].scheduler = deletion'[v].scheduler,
               c \notin changed'[v]
        PROVE  c \in deletion'[v].todo /\ c # deletion'[v].at
    <3>1. v # w /\ deletion'[v] = deletion[v] /\ deletion[v] # Null
          /\ changed'[v] = changed[v]
      BY <1>1, <1>2, <1>4, <2>1 DEF TypeOK
    <3>2. deletion[v].scheduler # Null
      BY <1>2, <3>1, Values DEF Handler
    <3>3. devices[c] # Null /\ devices[c].scheduler = deletion[v].scheduler
      BY <1>7, <2>1, <3>1, <3>2
    <3> QED
      BY <2>1, <3>1, <3>3 DEF Inv, OnTodo, On
  <2> QED
    BY <2>1 DEF OnTodo, On
<1> QED
  BY <1>8, <1>9, <1>10, <1>11, <1>12 DEF Inv

(* A deletion ends where it was: the device at hand is stranded.            *)
LEMMA FailStep ==
    ASSUME Inv, NEW w \in Workers, deletion[w] # Null, Fail(w),
           UNCHANGED <<providers, used, others>>
    PROVE  Inv'
<1>1. /\ deletion' = [deletion EXCEPT ![w] = Null]
      /\ changed' = [changed EXCEPT ![w] = {}]
      /\ stranded' = stranded \cup ({deletion[w].at} \ {Null})
      /\ UNCHANGED <<schedulers, devices, listed, providers, used, others>>
  BY DEF Fail
<1>2. TypeOK /\ deletion[w] \in Handler
  BY Values DEF Inv
<1>3. /\ deletion' \in [Workers -> {Null} \cup Handler]
      /\ deletion'[w] = Null
      /\ \A v \in Workers \ {w} : deletion'[v] = deletion[v]
  BY <1>1, <1>2, HandlerChange
<1>4. ASSUME NEW c \in Devices, c \in stranded \/ Handled(c)
      PROVE  c \in stranded' \/ Handled(c)'
  <2>1. c # Null
    BY <1>2, Values
  <2>2. CASE c \in stranded
    BY <1>1, <2>2
  <2>3. CASE deletion[w].at = c
    BY <1>1, <2>1, <2>3
  <2>4. CASE deletion[w].at # c /\ Handled(c)
    BY <1>1, <1>2, <2>4, HandlerChange
  <2> QED
    BY <1>4, <2>2, <2>3, <2>4
<1>5. TypeOK'
  <2>1. stranded' \subseteq Devices
    BY <1>1, <1>2 DEF TypeOK, Handler
  <2>2. changed' \in [Workers -> SUBSET Devices]
    BY <1>1, <1>2 DEF TypeOK
  <2> QED
    BY <1>1, <1>2, <1>3, <2>1, <2>2 DEF TypeOK, Live
<1>6. Owned' /\ UnusedUnlisted' /\ AtTodo'
  BY <1>1, <1>3 DEF Inv, Owned, UnusedUnlisted, AtTodo, Live
<1>7. ListedKnown'
  <2> SUFFICES ASSUME NEW t \in Schedulers, Live(t), NEW c \in listed[t]
               PROVE  devices'[c] # Null
                      /\ (devices'[c].scheduler = t \/ OffOrPending(c)')
    BY <1>1 DEF ListedKnown, Live
  <2>1. c \in Devices
    BY <1>2, Values
  <2>2. devices[c] # Null /\ (devices[c].scheduler = t \/ OffOrPending(c))
    BY DEF Inv, ListedKnown
  <2> QED
    BY <1>1, <1>4, <2>1, <2>2 DEF OffOrPending
<1>8. OnTodo'
  <2>1. ASSUME NEW v \in Workers, NEW c \in Devices, deletion'[v] # Null,
               devices[c] # Null,
               devices[c].scheduler = deletion'[v].scheduler,
               c \notin changed'[v]
        PROVE  c \in deletion'[v].todo /\ c # deletion'[v].at
    <3>1. v # w /\ deletion'[v] = deletion[v] /\ deletion[v] # Null
          /\ changed'[v] = changed[v]
      BY <1>1, <1>2, <1>3, <2>1 DEF TypeOK
    <3> QED
      BY <2>1, <3>1 DEF Inv, OnTodo, On
  <2> QED
    BY <1>1, <2>1 DEF OnTodo, On
<1> QED
  BY <1>5, <1>6, <1>7, <1>8 DEF Inv

LEMMA NextInv == Inv /\ [Next]_vars => Inv'
<1> SUFFICES ASSUME Inv, [Next]_vars PROVE Inv'
  OBVIOUS
<1>1. ASSUME NEW w \in Workers, Deletion(w) PROVE Inv'
  BY <1>1, ListStep, ManualStep, OffStep, DeleteStep, FailStep
     DEF Deletion, Continue
<1>2. CASE UNCHANGED vars
  BY <1>2 DEF vars, Inv, TypeOK, Owned, UnusedUnlisted, AtTodo, ListedKnown,
              OnTodo, OffOrPending, Handled, Live, On
<1> QED
  BY <1>1, <1>2, OthersStep DEF Next

LEMMA Invariance == Spec => []Inv
BY InitInv, NextInv, PTL DEF Spec

(* The tables and the handlers are well formed.                             *)
THEOREM SchedulersTypeCorrect == Spec => []TypeOK
<1>1. Inv => TypeOK
  BY DEF Inv
<1> QED
  BY <1>1, Invariance, PTL

-----------------------------------------------------------------------------
(* What a removed scheduler leaves behind.                                 *)

(* Only the last step of a deletion removes a row, and when it does, every  *)
(* device it or an earlier deletion listed is off, at hand, or stranded.    *)
LEMMA RemovedIsOff ==
    ASSUME Inv, [Next]_vars, NEW w \in Workers, Removes(w),
           NEW d \in (listed[deletion[w].scheduler]
                        \cup On(deletion[w].scheduler)) \ changed[w]
    PROVE  Released(d) \/ d \in stranded \/ Handled(d)
<1>s. PICK s : s = deletion[w].scheduler
  OBVIOUS
<1>1. /\ deletion[w] # Null /\ deletion'[w] = Null
      /\ schedulers'[s] # schedulers[s]
  BY <1>s DEF Removes
<1>2. TypeOK /\ deletion[w] \in Handler /\ s \in Schedulers /\ s # Null
  BY <1>1, <1>s, Values DEF Inv, Handler
<1>3. PICK v \in Workers : Deletion(v)
  BY <1>1 DEF Next, Others, vars
<1>4. v = w
  <2>1. ASSUME v # w PROVE FALSE
    <3>1. \E h : deletion' = [deletion EXCEPT ![v] = h]
      <4>1. ASSUME NEW t \in Schedulers, ListDevices(v, t)
            PROVE  \E h : deletion' = [deletion EXCEPT ![v] = h]
        BY <4>1 DEF ListDevices
      <4>2. ASSUME SwitchToManual(v)
            PROVE  \E h : deletion' = [deletion EXCEPT ![v] = h]
        BY <4>2 DEF SwitchToManual
      <4>3. ASSUME SwitchOff(v)
            PROVE  \E h : deletion' = [deletion EXCEPT ![v] = h]
        BY <4>3 DEF SwitchOff
      <4>4. ASSUME DeleteScheduler(v) \/ Fail(v)
            PROVE  \E h : deletion' = [deletion EXCEPT ![v] = h]
        BY <4>4 DEF DeleteScheduler, Fail
      <4> QED
        BY <1>3, <4>1, <4>2, <4>3, <4>4 DEF Deletion, Continue
    <3>2. deletion'[w] = deletion[w]
      BY <1>2, <2>1, <3>1 DEF TypeOK
    <3> QED
      BY <1>1, <3>2
  <2> QED
    BY <2>1
<1>5. DeleteScheduler(w)
  BY <1>1, <1>3, <1>4 DEF Deletion, Continue, ListDevices, SwitchToManual,
                          SwitchOff, Fail
<1>6. deletion[w].todo = {} /\ Live(s)
  BY <1>5, <1>s DEF DeleteScheduler, AllSwitched
<1>7. d \in Devices /\ d \notin On(s)
  BY <1>1, <1>2, <1>6, <1>s, Values DEF Inv, OnTodo, On
<1>8. d \in listed[s]
  BY <1>7, <1>s
<1>9. /\ devices[d] # Null /\ devices[d] \in Device
      /\ OffOrPending(d)
  BY <1>2, <1>6, <1>7, <1>8, Values DEF Inv, ListedKnown, On
<1>10. devices[d].manual_state = FALSE => Released(d)
  <2>1. ASSUME NEW row \in Device, row.mode = "MANUAL", row.scheduler = Null,
               row.manual_state = FALSE
        PROVE  row = [mode |-> "MANUAL", scheduler |-> Null, manual_state |-> FALSE]
    BY <2>1 DEF Device
  <2> QED
    BY <1>9, <2>1 DEF OffOrPending, Released
<1> QED
  BY <1>9, <1>10 DEF OffOrPending

(* A scheduler is removed only when its devices are off: whatever failed    *)
(* before and however deletions and other requests overlap.                 *)
THEOREM DevicesAreOff == Spec => DeletedOff
<1>1. Inv /\ [Next]_vars =>
        \A w \in Workers : Removes(w) =>
          LET s == deletion[w].scheduler
          IN  \A d \in (listed[s] \cup On(s)) \ changed[w] :
                \/ Released(d) \/ d \in stranded
                \/ \E v \in Workers : deletion[v] # Null /\ deletion[v].at = d
  BY RemovedIsOff DEF Handled
<1> QED
  BY <1>1, Invariance, PTL DEF Spec, DeletedOff
-----------------------------------------------------------------------------
(***************************************************************************)
(* The email tasks, which share nothing with the schedulers: for every set *)
(* of tasks, every number of retries and every number of deaths of the     *)
(* worker.                                                                 *)
(***************************************************************************)

(***************************************************************************)
(* RunsBounded with what makes it inductive: a task that waits for the     *)
(* worker has run once for each of its retries, and any other once more.   *)
(***************************************************************************)
Waiting(e) == status[e] \in {"none", "queued"}

RunsInv ==
    \A e \in Emails : runs[e] <= retries[e] + (IF Waiting(e) THEN 0 ELSE 1)

TasksInv == TasksTypeOK /\ RunsInv /\ NoNeedlessMail

(***************************************************************************)
(* A step changes one task, and its own counters only.                     *)
(***************************************************************************)
OtherTasks(e) ==
    \A f \in Emails \ {e} :
        /\ status'[f] = status[f] /\ retries'[f] = retries[f]
        /\ runs'[f] = runs[f]
        /\ accepted'[f] = accepted[f] /\ unheard'[f] = unheard[f]

LEMMA TasksInitInv == TasksInit => TasksInv
<1> SUFFICES ASSUME TasksInit PROVE TasksInv
  OBVIOUS
<1>1. TasksTypeOK
  BY EmailAssumption DEF TasksInit, TasksTypeOK
<1>2. RunsInv
  BY DEF TasksInit, RunsInv, Waiting
<1>3. NoNeedlessMail
  BY DEF TasksInit, NoNeedlessMail
<1> QED
  BY <1>1, <1>2, <1>3 DEF TasksInv

(* The values of a task, and what the counters of one step become.          *)
LEMMA TaskValues ==
    ASSUME TasksTypeOK, NEW e \in Emails
    PROVE  /\ status[e] \in {"none", "queued", "running"} \cup Over
           /\ retries[e] \in 0..MaxRetries /\ retries[e] \in Nat
           /\ runs[e] \in Nat /\ accepted[e] \in Nat /\ unheard[e] \in Nat
BY EmailAssumption DEF TasksTypeOK

LEMMA CountOne ==
    ASSUME NEW f \in [Emails -> Nat], NEW e \in Emails
    PROVE  /\ Count(f, e) \in [Emails -> Nat]
           /\ Count(f, e)[e] = f[e] + 1
           /\ \A d \in Emails \ {e} : Count(f, e)[d] = f[d]
BY DEF Count

(***************************************************************************)
(* The outcome of a retry: one more of them, or the end.                   *)
(***************************************************************************)
LEMMA RetryShape ==
    ASSUME TasksTypeOK, NEW e \in Emails, Retry(e)
    PROVE  /\ \/ status'[e] = "queued" /\ retries'[e] = retries[e] + 1
              \/ status'[e] = "exhausted" /\ retries'[e] = retries[e]
           /\ \A f \in Emails \ {e} :
                 status'[f] = status[f] /\ retries'[f] = retries[f]
           /\ status' \in [Emails -> {"none", "queued", "running"} \cup Over]
           /\ retries' \in [Emails -> 0..MaxRetries]
<1>1. CASE retries[e] < MaxRetries
  <2>1. retries[e] + 1 \in 0..MaxRetries
    BY <1>1, TaskValues, EmailAssumption
  <2>2. status' = [status EXCEPT ![e] = "queued"]
        /\ retries' = [retries EXCEPT ![e] = retries[e] + 1]
    BY <1>1 DEF Retry, Become, Count
  <2> QED
    BY <2>1, <2>2 DEF TasksTypeOK
<1>2. CASE ~(retries[e] < MaxRetries)
  BY <1>2 DEF Retry, Become, TasksTypeOK, Over
<1> QED
  BY <1>1, <1>2

(***************************************************************************)
(* The task that a step changes keeps the invariant, when its status and   *)
(* counters moved in one of the ways a step moves them.                    *)
(***************************************************************************)
LEMMA OneTask ==
    ASSUME TasksInv, TasksTypeOK', NEW e \in Emails, OtherTasks(e),
           status[e] # "sent",
           runs'[e] <= retries'[e] + (IF Waiting(e)' THEN 0 ELSE 1),
           \/ /\ accepted'[e] = accepted[e] /\ unheard'[e] = unheard[e]
              /\ status'[e] # "sent"
           \/ /\ e \notin Invalid /\ status'[e] = "sent"
              /\ accepted'[e] = accepted[e] + 1 /\ unheard'[e] = unheard[e]
           \/ /\ e \notin Invalid /\ status'[e] # "sent"
              /\ accepted'[e] = accepted[e] + 1 /\ unheard'[e] = unheard[e] + 1
    PROVE  TasksInv'
<1>1. \A f \in Emails : accepted[f] \in Nat /\ unheard[f] \in Nat
  BY TaskValues DEF TasksInv
<1>2. RunsInv'
  BY DEF TasksInv, RunsInv, OtherTasks, Waiting
<1>3. NoNeedlessMail'
  <2> SUFFICES ASSUME NEW f \in Emails
               PROVE  /\ accepted'[f] <=
                            unheard'[f] + (IF status'[f] = "sent" THEN 1 ELSE 0)
                      /\ status'[f] = "sent" => accepted'[f] > 0
                      /\ f \in Invalid => accepted'[f] = 0
    BY DEF NoNeedlessMail
  <2>1. /\ accepted[f] <= unheard[f] + (IF status[f] = "sent" THEN 1 ELSE 0)
        /\ status[f] = "sent" => accepted[f] > 0
        /\ f \in Invalid => accepted[f] = 0
    BY DEF TasksInv, NoNeedlessMail
  <2>2. CASE f = e
    BY <1>1, <2>1, <2>2
  <2>3. CASE f # e
    BY <2>1, <2>3 DEF OtherTasks
  <2> QED
    BY <2>2, <2>3
<1> QED
  BY <1>2, <1>3 DEF TasksInv

LEMMA TasksNextInv == TasksInv /\ [TasksNext]_taskVars => TasksInv'
<1> SUFFICES ASSUME TasksInv, [TasksNext]_taskVars PROVE TasksInv'
  OBVIOUS
<1>0. TasksTypeOK
  BY DEF TasksInv
<1>1. ASSUME NEW e \in Emails, Delay(e) PROVE TasksInv'
  <2>1. TasksTypeOK' /\ OtherTasks(e) /\ status'[e] = "queued"
    BY <1>0, <1>1 DEF Delay, Become, TasksTypeOK, OtherTasks
  <2>2. runs[e] <= retries[e]
    BY <1>0, <1>1, TaskValues DEF Delay, TasksInv, RunsInv, Waiting
  <2> QED
    BY <1>1, <2>1, <2>2, <1>0, TaskValues, OneTask DEF Delay, Waiting
<1>2. ASSUME NEW e \in Emails, Start(e) PROVE TasksInv'
  <2>1. TasksTypeOK' /\ OtherTasks(e) /\ status'[e] = "running" /\ runs'[e] = runs[e] + 1
    BY <1>0, <1>2, CountOne DEF Start, Become, TasksTypeOK, OtherTasks
  <2>2. runs[e] <= retries[e] /\ retries'[e] = retries[e]
    BY <1>0, <1>2, TaskValues DEF Start, TasksInv, RunsInv, Waiting
  <2>3. runs'[e] <= retries'[e] + (IF Waiting(e)' THEN 0 ELSE 1)
    BY <1>0, <2>1, <2>2, TaskValues DEF Waiting
  <2> QED
    BY <1>2, <2>1, <2>3, OneTask DEF Start
<1>3. ASSUME NEW e \in Emails, Skip(e) \/ Reject(e) \/ Crash(e) PROVE TasksInv'
  <2>1. /\ status[e] = "running"
        /\ \E s \in {"skipped", "rejected", "lost"} : status' = [status EXCEPT ![e] = s]
        /\ UNCHANGED <<retries, runs, accepted, unheard>>
        /\ crashes' \in 0..MaxCrashes
    BY <1>0, <1>3, EmailAssumption
       DEF Skip, Reject, Crash, Become, Sending, TasksTypeOK
  <2>2. /\ TasksTypeOK' /\ OtherTasks(e)
        /\ status'[e] \notin {"sent", "none", "queued"}
    BY <1>0, <2>1 DEF TasksTypeOK, OtherTasks, Over
  <2>3. runs[e] <= retries[e] + 1
    BY <2>1 DEF TasksInv, RunsInv, Waiting
  <2> QED
    BY <2>1, <2>2, <2>3, OneTask DEF Waiting
<1>4. ASSUME NEW e \in Emails, Send(e) PROVE TasksInv'
  <2>1. /\ TasksTypeOK' /\ OtherTasks(e) /\ status'[e] = "sent"
        /\ accepted'[e] = accepted[e] + 1
    BY <1>0, <1>4, CountOne DEF Send, Become, TasksTypeOK, OtherTasks, Over
  <2>2. status[e] = "running" /\ e \notin Invalid
        /\ UNCHANGED <<retries, runs, unheard>>
    BY <1>4 DEF Send, Sending
  <2>3. runs[e] <= retries[e] + 1
    BY <2>2 DEF TasksInv, RunsInv, Waiting
  <2> QED
    BY <2>1, <2>2, <2>3, OneTask DEF Waiting
<1>5. ASSUME NEW e \in Emails, FailBeforeAccept(e) \/ FailAfterAccept(e) PROVE TasksInv'
  <2>1. Retry(e) /\ Sending(e) /\ UNCHANGED <<runs, crashes>>
    BY <1>5 DEF FailBeforeAccept, FailAfterAccept
  <2>2. \/ UNCHANGED <<accepted, unheard>>
        \/ accepted' = Count(accepted, e) /\ unheard' = Count(unheard, e)
    BY <1>5 DEF FailBeforeAccept, FailAfterAccept
  <2>3. /\ accepted' \in [Emails -> Nat] /\ unheard' \in [Emails -> Nat]
        /\ \/ accepted'[e] = accepted[e] /\ unheard'[e] = unheard[e]
           \/ accepted'[e] = accepted[e] + 1 /\ unheard'[e] = unheard[e] + 1
        /\ \A f \in Emails \ {e} :
              accepted'[f] = accepted[f] /\ unheard'[f] = unheard[f]
    BY <1>0, <2>2, CountOne DEF TasksTypeOK
  <2>4. TasksTypeOK' /\ OtherTasks(e)
    BY <1>0, <2>1, <2>3, RetryShape DEF TasksTypeOK, OtherTasks
  <2>5. status[e] = "running" /\ e \notin Invalid
    BY <2>1 DEF Sending
  <2>6. runs[e] <= retries[e] + 1
    BY <2>5 DEF TasksInv, RunsInv, Waiting
  <2>7. /\ status'[e] # "sent"
        /\ runs'[e] <= retries'[e] + (IF Waiting(e)' THEN 0 ELSE 1)
    BY <1>0, <2>1, <2>6, RetryShape, TaskValues DEF Waiting
  <2> QED
    BY <2>3, <2>4, <2>5, <2>7, OneTask
<1>6. CASE UNCHANGED taskVars
  BY <1>6 DEF taskVars, TasksInv, TasksTypeOK, RunsInv, Waiting, NoNeedlessMail
<1> QED
  BY <1>1, <1>2, <1>3, <1>4, <1>5, <1>6 DEF TasksNext, Work

LEMMA TasksInvariance == TasksSpec => []TasksInv
BY TasksInitInv, TasksNextInv, PTL DEF TasksSpec

(* The tasks and their counters are well formed.                            *)
THEOREM TasksTypeCorrect == TasksSpec => []TasksTypeOK
<1>1. TasksInv => TasksTypeOK
  BY DEF TasksInv
<1> QED
  BY <1>1, TasksInvariance, PTL

(* A task runs at most once and max_retries times more.                     *)
THEOREM RunsAreBounded == TasksSpec => []RunsBounded
<1>1. TasksInv => RunsBounded
  <2> SUFFICES ASSUME TasksInv, NEW e \in Emails PROVE runs[e] <= MaxRetries + 1
    BY DEF RunsBounded
  <2>1. runs[e] <= retries[e] + 1
    BY TaskValues DEF TasksInv, RunsInv
  <2> QED
    BY <2>1, TaskValues, EmailAssumption DEF TasksInv
<1> QED
  BY <1>1, TasksInvariance, PTL

(* A recipient gets a second mail only when the worker did not hear that    *)
(* the server had taken the first.                                          *)
THEOREM MailIsNeeded == TasksSpec => []NoNeedlessMail
<1>1. TasksInv => NoNeedlessMail
  BY DEF TasksInv
<1> QED
  BY <1>1, TasksInvariance, PTL

-----------------------------------------------------------------------------
(* The offer of power providers.                                           *)

(* A set of numbers with 0 and every successor holds every number.          *)
LEMMA NumberInduction ==
    ASSUME NEW Good \in SUBSET Nat, 0 \in Good, \A n \in Good : n + 1 \in Good
    PROVE  \A n \in Nat : n \in Good
<1> SUFFICES ASSUME NEW k \in Nat, k \notin Good PROVE FALSE
  OBVIOUS
<1>1. PICK Bad : Bad = Nat \ Good
  OBVIOUS
<1>2. PICK n \in Bad : \A m \in Bad : <<m, n>> \notin OpToRel(<, Nat)
  <2>1. Bad \subseteq Nat /\ Bad # {}
    BY <1>1
  <2> QED
    BY <2>1, NatLessThanWellFounded, WFMin, Zenon
<1>3. n \in Nat /\ n # 0
  BY <1>1
<1>4. n - 1 \in Nat /\ n - 1 < n /\ n - 1 \in Bad
  <2>1. n - 1 \in Nat /\ n - 1 < n /\ (n - 1) + 1 = n
    BY <1>3
  <2> QED
    BY <1>1, <1>2, <2>1
<1>5. <<n - 1, n>> \in OpToRel(<, Nat)
  BY <1>3, <1>4, Zenon DEF OpToRel
<1> QED
  BY <1>2, <1>4, <1>5

(* The members of a list made of a set.                                     *)
LEMMA ListOfSet ==
    ASSUME NEW S, IsFiniteSet(S)
    PROVE  /\ SetToSeq(S) \in [1..Cardinality(S) -> S]
           /\ ToSet(SetToSeq(S)) = S
           /\ Cardinality(S) \in Nat
<1>1. Cardinality(S) \in Nat /\ ExistsBijection(1..Cardinality(S), S)
  BY FS_CardinalityType
<1>2. PICK f \in [1..Cardinality(S) -> S] : IsInjective(f)
  BY <1>1 DEF ExistsBijection, Bijection, Injection, IsInjective
<1>3. PICK s : s = SetToSeq(S)
  OBVIOUS
<1>4. s \in [1..Cardinality(S) -> S] /\ IsInjective(s)
  BY <1>2, <1>3 DEF SetToSeq
<1>5. s \in Injection(1..Cardinality(S), S)
  BY <1>4 DEF Injection, IsInjective
<1>6. PICK n : n = Cardinality(S)
  OBVIOUS
<1>7. IsFiniteSet(1..n) /\ Cardinality(1..n) = Cardinality(S)
  BY <1>1, <1>6, FS_Interval
<1>8. s \in Surjection(1..n, S)
  BY <1>5, <1>6, <1>7, FS_Injection
<1>9. {s[i] : i \in 1..n} = S /\ DOMAIN s = 1..n
  BY <1>4, <1>6, <1>8 DEF Surjection
<1> QED
  BY <1>1, <1>3, <1>4, <1>9 DEF ToSet

(* The largest of the numbers up to some number.                            *)
LEMMA LargestOf ==
    ASSUME NEW n \in Nat, NEW s, s \subseteq 1..n, s # {}
    PROVE  /\ Max(s) \in s /\ \A m \in s : m <= Max(s)
<1> DEFINE Good == {k \in Nat : \A t \in SUBSET (1..k) : t # {} =>
                                   \E x \in t : \A y \in t : x >= y}
<1>1. 0 \in Good
  <2>1. 1..0 = {} /\ 0 \in Nat
    OBVIOUS
  <2> QED
    BY <2>1
<1>2. ASSUME NEW k \in Good PROVE k + 1 \in Good
  <2> SUFFICES ASSUME NEW t \in SUBSET (1..(k + 1)), t # {}
               PROVE  \E x \in t : \A y \in t : x >= y
    OBVIOUS
  <2>1. CASE k + 1 \in t
    BY <2>1
  <2>2. CASE k + 1 \notin t
    <3>1. \A y \in t : y \in 1..k
      BY <2>2
    <3> QED
      BY <3>1
  <2> QED
    BY <2>1, <2>2
<1>3. n \in Good
  <2>1. Good \in SUBSET Nat
    OBVIOUS
  <2> HIDE DEF Good
  <2> QED
    BY <1>1, <1>2, <2>1, NumberInduction
<1>4. \E x \in s : \A y \in s : x >= y
  BY <1>3
<1>5. Max(s) \in s /\ \A y \in s : Max(s) >= y
  BY <1>4 DEF Max
<1> QED
  BY <1>5

(***************************************************************************)
(* The fold of OfferedUnits, over the positions of the list: what one step *)
(* adds, and the function that the fold chooses.                           *)
(***************************************************************************)
Step(list, g, s) ==
    IF s = {} THEN << >>
    ELSE WithUnit(g[s \ {Max(s)}], list[Max(s)])

IsFold(list, g) ==
    g = [s \in SUBSET DOMAIN list |-> Step(list, g, s)]

LEMMA FoldExists ==
    ASSUME NEW n \in Nat, NEW list, DOMAIN list = 1..n
    PROVE  \E g : IsFold(list, g)
<1> DEFINE Good == {k \in Nat : \E g : g = [s \in SUBSET (1..k) |-> Step(list, g, s)]}
<1>1. 0 \in Good
  <2>1. PICK g : g = [s \in SUBSET (1..0) |-> << >>]
    OBVIOUS
  <2>2. \A s \in SUBSET (1..0) : s = {}
    OBVIOUS
  <2>3. g = [s \in SUBSET (1..0) |-> Step(list, g, s)]
    BY <2>1, <2>2 DEF Step
  <2> QED
    BY <2>3
<1>2. ASSUME NEW k \in Good PROVE k + 1 \in Good
  <2>1. PICK g : g = [s \in SUBSET (1..k) |-> Step(list, g, s)]
    OBVIOUS
  <2>2. PICK h : h = [s \in SUBSET (1..(k + 1)) |-> Step(list, g, s)]
    OBVIOUS
  <2>3. \A s \in SUBSET (1..k) : s \in SUBSET (1..(k + 1)) /\ h[s] = g[s]
    <3> SUFFICES ASSUME NEW s \in SUBSET (1..k)
                 PROVE  s \in SUBSET (1..(k + 1)) /\ h[s] = g[s]
      OBVIOUS
    <3>1. s \in SUBSET (1..(k + 1))
      OBVIOUS
    <3>2. g[s] = Step(list, g, s)
      BY <2>1
    <3> QED
      BY <2>2, <3>1, <3>2
  <2>4. ASSUME NEW s \in SUBSET (1..(k + 1)) PROVE Step(list, g, s) = Step(list, h, s)
    <3>1. CASE s = {}
      BY <3>1 DEF Step
    <3>2. CASE s # {}
      <4>1. k + 1 \in Nat
        OBVIOUS
      <4>2. Max(s) \in s /\ \A m \in s : m <= Max(s)
        BY <3>2, <4>1, LargestOf
      <4>3. \A m \in s \ {Max(s)} : m \in 1..k
        <5> HIDE DEF Good
        <5>1. k \in Nat
          BY DEF Good
        <5>2. PICK top : top = Max(s)
          OBVIOUS
        <5>3. top \in s /\ \A m \in s : m <= top
          BY <4>2, <5>2
        <5>4. \A m \in 1..(k + 1) : m <= top /\ m # top => m \in 1..k
          BY <5>1, <5>3
        <5>5. \A m \in s \ {top} : m \in 1..k
          BY <5>3, <5>4
        <5> QED
          BY <5>2, <5>5
      <4>4. h[s \ {Max(s)}] = g[s \ {Max(s)}]
        BY <2>3, <4>3
      <4> QED
        BY <4>4 DEF Step
    <3> QED
      BY <3>1, <3>2
  <2>5. h = [s \in SUBSET (1..(k + 1)) |-> Step(list, h, s)]
    BY <2>2, <2>4
  <2>6. k + 1 \in Nat
    OBVIOUS
  <2> QED
    BY <2>5, <2>6
<1>3. n \in Good
  <2>1. Good \in SUBSET Nat
    OBVIOUS
  <2> HIDE DEF Good
  <2> QED
    BY <1>1, <1>2, <2>1, NumberInduction
<1> QED
  BY <1>3 DEF IsFold

LEMMA FoldIs ==
    ASSUME NEW n \in Nat, DOMAIN Offered = 1..n
    PROVE  \E g : IsFold(Offered, g) /\ OfferedUnits = g[1..n]
<1> DEFINE F(g) == [s \in SUBSET DOMAIN Offered |->
                      IF s = {} THEN << >>
                      ELSE LET x == Max(s) IN WithUnit(g[s \ {x}], Offered[x])]
<1>1. \A g : IsFold(Offered, g) <=> g = F(g)
  BY DEF IsFold, Step
<1>2. \E g : g = F(g)
  BY <1>1, FoldExists
<1>3. OfferedUnits = (CHOOSE g : g = F(g))[DOMAIN Offered]
  BY DEF OfferedUnits, FoldLeft, MapThenFoldSet
<1>4. PICK h : h = CHOOSE g : g = F(g)
  OBVIOUS
<1>5. h = F(h)
  <2> HIDE DEF F
  <2> QED
    BY <1>2, <1>4
<1>6. OfferedUnits = h[DOMAIN Offered]
  BY <1>3, <1>4
<1> QED
  BY <1>1, <1>5, <1>6

(* A list to which a unit is added has it and what it had, each once.       *)
LEMMA AddUnit ==
    ASSUME NEW U, NEW units \in Seq(U), IsInjective(units),
           NEW p, providers[p].unit \in U
    PROVE  /\ WithUnit(units, p) \in Seq(U)
           /\ IsInjective(WithUnit(units, p))
           /\ ToSet(WithUnit(units, p)) = ToSet(units) \cup {providers[p].unit}
<1>0. PICK unit : unit = providers[p].unit
  OBVIOUS
<1>1. DOMAIN units = 1..Len(units) /\ Len(units) \in Nat
  OBVIOUS
<1>2. CASE Contains(units, unit)
  <2>1. unit \in ToSet(units)
    BY <1>1, <1>2 DEF Contains, ToSet
  <2> QED
    BY <1>0, <1>2, <2>1 DEF WithUnit
<1>3. CASE ~Contains(units, unit)
  <2>1. PICK m : m = Len(units)
    OBVIOUS
  <2>2. PICK r : r = Append(units, unit)
    OBVIOUS
  <2>3. /\ r \in Seq(U) /\ DOMAIN r = 1..(m + 1) /\ m \in Nat
        /\ \A i \in 1..m : r[i] = units[i]
        /\ r[m + 1] = unit
    BY <1>0, <2>1, <2>2
  <2>4. \A i \in 1..m : r[i] # unit
    BY <1>3, <2>1, <2>3 DEF Contains
  <2>5. \A i \in 1..(m + 1) : i = m + 1 \/ i \in 1..m
    BY <2>3
  <2>6. \A i, j \in 1..m : units[i] = units[j] => i = j
    BY <1>1, <2>1 DEF IsInjective
  <2>7. IsInjective(r)
    <3> SUFFICES ASSUME NEW i \in 1..(m + 1), NEW j \in 1..(m + 1), r[i] = r[j]
                 PROVE  i = j
      BY <2>3 DEF IsInjective
    <3> QED
      BY <2>3, <2>4, <2>5, <2>6
  <2>8. ToSet(r) = ToSet(units) \cup {unit}
    <3>1. ToSet(r) = {r[i] : i \in 1..(m + 1)} /\ ToSet(units) = {units[i] : i \in 1..m}
      BY <1>1, <2>1, <2>3 DEF ToSet
    <3>2. m + 1 \in 1..(m + 1) /\ \A i \in 1..m : i \in 1..(m + 1)
      BY <2>3
    <3> QED
      BY <2>3, <2>5, <3>1, <3>2
  <2> QED
    BY <1>0, <1>3, <2>2, <2>3, <2>7, <2>8 DEF WithUnit
<1> QED
  BY <1>2, <1>3

(* The units of a list, each once.                                          *)
LEMMA FoldUnits ==
    ASSUME NEW n \in Nat, NEW list, DOMAIN list = 1..n,
           NEW g, IsFold(list, g), NEW U, \A i \in 1..n : providers[list[i]].unit \in U
    PROVE  /\ g[1..n] \in Seq(U)
           /\ IsInjective(g[1..n])
           /\ ToSet(g[1..n]) = {providers[list[i]].unit : i \in 1..n}
<1> DEFINE Right(k) == /\ g[1..k] \in Seq(U)
                       /\ IsInjective(g[1..k])
                       /\ ToSet(g[1..k]) = {providers[list[i]].unit : i \in 1..k}
           Good == {k \in Nat : k <= n => Right(k)}
<1>1. 0 \in Good
  <2>1. 1..0 = {} /\ 1..0 \in SUBSET (1..n) /\ 0 \in Nat
    OBVIOUS
  <2>2. g[1..0] = << >>
    BY <2>1 DEF IsFold, Step
  <2>3. << >> \in Seq(U) /\ IsInjective(<< >>) /\ ToSet(<< >>) = {}
    BY DEF IsInjective, ToSet
  <2> QED
    BY <2>1, <2>2, <2>3
<1>2. ASSUME NEW k \in Good PROVE k + 1 \in Good
  <2> SUFFICES ASSUME k + 1 <= n PROVE Right(k + 1)
    OBVIOUS
  <2>1. k \in Nat /\ k <= n /\ k + 1 \in 1..n /\ Right(k)
    OBVIOUS
  <2>2. PICK s : s = 1..(k + 1)
    OBVIOUS
  <2>3. k + 1 \in Nat /\ s \subseteq 1..(k + 1) /\ k + 1 \in s /\ s # {}
    <3> HIDE DEF Good, Right
    <3>1. k + 1 \in Nat /\ k + 1 \in 1..(k + 1)
      BY <2>1
    <3> QED
      BY <2>2, <3>1
  <2>4. Max(s) \in s /\ \A m \in s : m <= Max(s)
    BY <2>3, LargestOf
  <2>5. Max(s) = k + 1 /\ s \ {k + 1} = 1..k /\ s \in SUBSET (1..n)
    BY <2>1, <2>2, <2>3, <2>4
  <2>6. g[s] = WithUnit(g[1..k], list[k + 1])
    BY <2>3, <2>5 DEF IsFold, Step
  <2>7. PICK units : units = g[1..k]
    OBVIOUS
  <2>8. PICK p : p = list[k + 1]
    OBVIOUS
  <2>9. providers[p].unit \in U /\ units \in Seq(U) /\ IsInjective(units)
    BY <2>1, <2>7, <2>8
  <2>10. /\ g[s] \in Seq(U) /\ IsInjective(g[s])
         /\ ToSet(g[s]) = ToSet(units) \cup {providers[p].unit}
    <3> HIDE DEF Good, Right
    <3>1. g[s] = WithUnit(units, p)
      BY <2>6, <2>7, <2>8
    <3> QED
      BY <2>9, <3>1, AddUnit
  <2>11. {providers[list[i]].unit : i \in s}
            = {providers[list[i]].unit : i \in 1..k} \cup {providers[p].unit}
    BY <2>3, <2>5, <2>8
  <2> QED
    BY <2>1, <2>2, <2>7, <2>10, <2>11
<1>3. n \in Good
  <2>1. Good \in SUBSET Nat
    OBVIOUS
  <2> HIDE DEF Good
  <2> QED
    BY <1>1, <1>2, <2>1, NumberInduction
<1> QED
  BY <1>3

(***************************************************************************)
(* Whatever the provider table holds, the providers that are offered for a *)
(* threshold are accepted in a slot, and the units of the offer are theirs *)
(* and named once (get_power_threshold_units, _validate_slot_providers).   *)
(***************************************************************************)
THEOREM OffersAreAccepted == Spec => []OffersAccepted
<1>1. OffersAccepted
  <2>1. PICK S : S = {p \in PowerProviders : providers[p].unit # Null}
    OBVIOUS
  <2>2. IsFiniteSet(S)
    <3>1. S \subseteq ProviderIds
      BY <2>1 DEF PowerProviders
    <3> QED
      BY <3>1, ProvidersAssumption, FS_Subset
  <2>3. PICK n : n = Cardinality(S)
    OBVIOUS
  <2>4. n \in Nat /\ Offered \in [1..n -> S] /\ ToSet(Offered) = S
    BY <2>1, <2>2, <2>3, ListOfSet DEF Offered
  <2>5. Verdict({[threshold |-> TRUE, provider |-> p] : p \in S}) = "ok"
    <3>1. PICK slots : slots = {[threshold |-> TRUE, provider |-> p] : p \in S}
      OBVIOUS
    <3>2. \A p \in Named(slots) : p \in S
      BY <3>1 DEF Named
    <3>3. \A p \in S : providers[p] # Null /\ providers[p].kind = "power"
      BY <2>1 DEF PowerProviders
    <3> QED
      BY <3>1, <3>2, <3>3 DEF Verdict
  <2>6. PICK U : U = {providers[p].unit : p \in S}
    OBVIOUS
  <2>7. PICK list : list = Offered
    OBVIOUS
  <2>8. DOMAIN list = 1..n /\ \A i \in 1..n : providers[list[i]].unit \in U
    BY <2>4, <2>6, <2>7
  <2>9. PICK g : IsFold(list, g) /\ OfferedUnits = g[1..n]
    BY <2>4, <2>7, <2>8, FoldIs
  <2>10. /\ IsInjective(g[1..n])
         /\ ToSet(g[1..n]) = {providers[list[i]].unit : i \in 1..n}
    <3>1. n \in Nat /\ DOMAIN list = 1..n /\ IsFold(list, g)
      BY <2>4, <2>8, <2>9
    <3>2. \A i \in 1..n : providers[list[i]].unit \in U
      BY <2>8
    <3> QED
      BY <3>1, <3>2, FoldUnits
  <2>11. {providers[list[i]].unit : i \in 1..n} = U
    BY <2>4, <2>6, <2>7 DEF ToSet
  <2>12. Null \notin U
    BY <2>1, <2>6
  <2> QED
    BY <2>4, <2>5, <2>6, <2>9, <2>10, <2>11, <2>12 DEF OffersAccepted
<1> QED
  BY <1>1, PTL
=============================================================================
