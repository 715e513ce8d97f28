---------------------------- MODULE MCTransport -----------------------------
(***************************************************************************)
(* An instance of Transport for TLC: two ports, tried in this order.       *)
(***************************************************************************)
EXTENDS Transport

CONSTANTS p1, p2

MCPorts == <<p1, p2>>
=============================================================================
