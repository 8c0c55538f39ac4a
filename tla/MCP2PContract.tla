--------------------------- MODULE MCP2PContract ---------------------------
(* A small instance of P2PSession for the refinement check.                *)
EXTENDS P2PImplementsContract

EveryFault == AllFaults
NoTiming == {}
TwoHandles == 0 .. 1
=============================================================================
