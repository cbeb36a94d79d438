--------------------------- MODULE ConfigMirror ---------------------------
(***************************************************************************)
(* What the synchronisation of a microcontroller's configuration promises: *)
(* the settings in the agent's files are always one whole version, one     *)
(* that the database has had or one that an administrator sent for the     *)
(* files, never a mixture of two.  They may be late, but nothing is        *)
(* invented.                                                               *)
(***************************************************************************)
CONSTANTS Settings

VARIABLES
    versions,  \* the settings that the row has had
    sent,      \* the settings in files that administrators have sent
    mirror     \* the settings in the agent's files

Init ==
    /\ mirror \in Settings
    /\ versions = {mirror}
    /\ sent = {}

Commit(s) == versions' = versions \cup {s} /\ UNCHANGED <<sent, mirror>>

Put(s) == sent' = sent \cup {s} /\ UNCHANGED <<versions, mirror>>

Write(s) == s \in versions \cup sent /\ mirror' = s /\ UNCHANGED <<versions, sent>>

Next == \E s \in Settings : Commit(s) \/ Put(s) \/ Write(s)

Spec == Init /\ [][Next]_<<versions, sent, mirror>>
===========================================================================
