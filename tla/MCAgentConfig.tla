--------------------------- MODULE MCAgentConfig ---------------------------
(* Each field alone, both, an empty list, a list with a sensor twice, and a *)
(* body that names neither; files with settings no row has, and with none.  *)
EXTENDS AgentConfig

MCSensors == {<<>>, <<"dht22">>}

Patch(by, max, sensors) == [by |-> by, max |-> max, sensors |-> sensors]

OneInitial == {[max |-> 4, sensors |-> <<"dht22">>, uuid |-> "other"]}

MCPatches ==
    {Patch("admin", 2, Null), Patch("admin", Null, <<>>),
     Patch("user", 2, <<>>), Patch("user", 2, <<"dht22", "dht22">>),
     Patch("user", Null, Null)}

MCEdits == {[max |-> 4, sensors |-> <<>>, uuid |-> "other"],
            [max |-> Null, sensors |-> Null, uuid |-> "own"]}
=============================================================================
