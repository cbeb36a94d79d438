---------------------------- MODULE MCDayReports ----------------------------
(* Days of four units, hours of two; the time is the third or fourth unit    *)
(* of the second day, which is asked for by its date and as today, and the   *)
(* first day by its date.                                                   *)
EXTENDS DayReports

Provider(kind, expected, storage, meter) ==
    [kind |-> kind, expected |-> expected, storage |-> storage, meter |-> meter]

MCProviders ==
    {Null, Provider("power", Null, TRUE, FALSE), Provider("power", 1, FALSE, TRUE),
     Provider("sensor", 1, FALSE, FALSE)}

Request(route, date, now, key) ==
    [route |-> route, date |-> date, now |-> now, key |-> key]

MCRequests ==
    {Request(route, date, now, "power") :
        route \in {"energy", "power", "telemetry"}, date \in {0, 1, Null}, now \in {6, 7}}
    \cup {Request("metric", 1, 7, key) : key \in {"grid_power", "power"}}

MCDefinitions ==
    {[unit |-> unit, mode |-> mode] : unit \in {"kW", "%"}, mode \in {"raw", "hourly"}}
    \ {[unit |-> "%", mode |-> "hourly"]}

MCReadings == {[ts |-> t, power |-> 2] : t \in {0, 3, 4, 6}} \cup {[ts |-> 5, power |-> Null]}
MCSamples == {[ts |-> 2, power |-> 1], [ts |-> 4, power |-> 1], [ts |-> 4, power |-> 3],
              [ts |-> 7, power |-> -1]}

Price(from, to, price) == [from |-> from, to |-> to, price |-> price]
MCPrices == {Price(2, 4, 1), Price(4, 6, 1), Price(6, 8, 1), Price(6, 8, 2)}
=============================================================================
