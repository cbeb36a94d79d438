--------------------------- MODULE MCDeviceEvents ---------------------------
(* Instances of DeviceEvents for TLC.                                       *)
EXTENDS DeviceEvents, TLC

CONSTANTS d1, d2, m1, m2

Body(by, d, n, type, on, pin, text, at) ==
    [by |-> by, device |-> d, number |-> n, type |-> type, is_on |-> on,
     pin |-> pin, text |-> text, created_at |-> at]

StateById(d, on, at) == Body("id", d, Null, "STATE", on, Null, Null, at)

NewRow(n) == [number |-> n, manual_state |-> Null, changed_at |-> Null]

(* Both devices on one microcontroller, or one on each. *)
SameHome == [d \in Devices |-> m1]
OwnHome == [d \in Devices |-> IF d = d1 THEN m1 ELSE m2]

DistinctRows == [d \in Devices |-> NewRow(IF d = d1 THEN 1 ELSE 2)]
EqualRows == [d \in Devices |-> NewRow(1)]

(* Pin 1 not registered yet, pin 2 registered for d2. *)
OldConfig ==
    [m \in Mcs |-> << [id |-> Null, pin |-> 1, is_on |-> FALSE],
                     [id |-> d2, pin |-> 2, is_on |-> TRUE] >>]
NoConfig == [m \in Mcs |-> << >>]

(* The overlap of transactions: plain reports of each device. *)
OverlapPayloads == {StateById(d, on, Null) : d \in Devices, on \in BOOLEAN}
MixedPayloads == {StateById(d1, TRUE, Null), StateById(d2, FALSE, Null)}
LatePayloads == {StateById(d1, TRUE, Null), StateById(d1, FALSE, 0)}

(* Addresses of every form. *)
AddressPayloads ==
    {Body("number", Null, n, "STATE", TRUE, Null, Null, Null) : n \in {1, 2}}
    \cup {Body("both", d, 1, "STATE", FALSE, Null, Null, Null) : d \in Devices}
    \cup {Body("uuid", d1, Null, "STATE", FALSE, Null, Null, Null)}

(* Bodies of every shape, for one device. *)
ShapePayloads ==
    {Body("id", d1, Null, type, on, pin, text, Null) :
        type \in {"STATE", "OTHER"}, on \in State, pin \in State, text \in Texts}
OwnerPayloads ==
    {Body("id", d1, Null, "STATE", Null, pin, text, Null) :
        pin \in State, text \in Texts}

AddressAndShapes == AddressPayloads \cup ShapePayloads

NoPayloads == {}

WorkerSymmetry == Permutations(Workers)
=============================================================================
