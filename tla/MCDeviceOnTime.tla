--------------------------- MODULE MCDeviceOnTime ---------------------------
(* A window of three seconds and the empty window of an hour's first instant. *)
EXTENDS DeviceOnTime

MCWindows == {<<1, 4>>, <<2, 2>>}
=============================================================================
