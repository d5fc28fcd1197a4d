--------------------------- MODULE MCRelayTunnel ---------------------------
(* One route: a device, and two connections of its host, which hold two    *)
(* grants and present the token of either.                                 *)
EXTENDS RelayInvariant, TLC
CONSTANTS h1, h2, d1, gh1, gh2, gd

MCGrantsOf == [a \in Attempts |-> IF a = d1 THEN {gd} ELSE {gh1, gh2}]
MCRole == [a \in Attempts |-> IF a = d1 THEN "device" ELSE "host"]
MCRoute == [a \in Attempts |-> "route"]

Interchangeable == Permutations({h1, h2}) \cup Permutations({gh1, gh2})
=============================================================================
