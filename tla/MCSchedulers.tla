---------------------------- MODULE MCSchedulers ----------------------------
(* Slots with and without a threshold; tables of two providers.        *)
EXTENDS Schedulers

CONSTANTS w1, w2, s1, s2, d1, d2

MCSlots ==
    {[threshold |-> TRUE, provider |-> 1], [threshold |-> FALSE, provider |-> 2]}

Table(kind, unit) == [kind |-> kind, unit |-> unit]

MCTables ==
    {<<a, b>> : a \in {Null, Table("power", "kW"), Table("sensor", "kW")},
                b \in {Table("power", "W"), Table("power", Null), Table("power", "kW")}}

Symmetry ==
    Permutations(Workers) \cup Permutations(Schedulers) \cup Permutations(Devices)
=============================================================================
