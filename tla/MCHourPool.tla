----------------------------- MODULE MCHourPool -----------------------------
(* Hours of three units; readings are held for one unit or more.            *)
EXTENDS HourPool

CONSTANTS d1, d2

MCRated == [d \in Devices |-> IF d = d1 THEN 2 ELSE IF d = d2 THEN 1 ELSE Null]

Provider(kind, unit, api, expected) ==
    [kind |-> kind, unit |-> unit, api |-> api, expected |-> expected]

(* The consumption, for one provider with one list of readings.             *)
OneProvider == {Provider("power", "kW", TRUE, 1)}

Reading(t, p) == [ts |-> t, power |-> p]

OneList == {<<Reading(1, 3), Reading(2, 5), Reading(4, -1), Reading(4, 4)>>}

(* The production, for every provider and all lists of up to three readings. *)
AllProviders ==
    {Null} \cup {Provider(kind, unit, api, expected) :
        kind \in {"power", "sensor"}, unit \in {"W", "kW", Null},
        api \in BOOLEAN, expected \in {0, 1, 2, Null}}

AllLists ==
    UNION {[1..n -> [ts : {1, 2, 3, 4}, power : {-1, 2}]] : n \in 0..3}
=============================================================================
