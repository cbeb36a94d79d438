--------------------------- MODULE MCDayTelemetry ---------------------------
(* A day of two hours of three units, with readings held for two units or    *)
(* without limit.                                                           *)
EXTENDS DayTelemetry

Entry(from, to, price, unit) ==
    [from |-> from, to |-> to, price |-> price, unit |-> unit]

(* No prices; contiguous ones that do not end at the hour; a gap in the     *)
(* middle and an end after the window; an overlap; units that do not convert. *)
MCMarkets ==
    {<< >>,
     <<Entry(6, 8, 3000, "MWh"), Entry(8, 12, 5, "kWh")>>,
     <<Entry(6, 8, 3000, "MWh"), Entry(9, 14, 5000, "MWh")>>,
     <<Entry(6, 10, -2000, "MWh"), Entry(8, 12, 5000, "MWh")>>,
     <<Entry(6, 8, 3, "GJ"), Entry(8, 9, 4, Null), Entry(9, 12, 5000, "MWh")>>}

MCExpecteds == {1, Null}

MCPowers == {-1, 2}
=============================================================================
