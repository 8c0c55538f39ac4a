------------------------- MODULE MCP2PStreamChange -------------------------
(* Small instances of P2PStreamChange.                                     *)
EXTENDS P2PStreamChange

ControlsOrPeer  == {"ioctl", "remote"}
EveryTiming == AllTiming
TwoHandles == 0 .. 1
=============================================================================
