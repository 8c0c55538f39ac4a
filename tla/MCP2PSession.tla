---------------------------- MODULE MCP2PSession ----------------------------
(* Small instances of P2PSession: the values the configurations choose.    *)
EXTENDS P2PSession

\* Everything outside the app that the app reacts to by reporting it.
ReportedFaults == {"connect", "av", "ioctl", "remote"}

\* Without "init" and "uid" every failure is reported; with them some are not.
EveryFault == AllFaults
EveryTiming == AllTiming
NoTiming == {}
OnlyRemote == {"remote"}
NoFaults == {}
TwoHandles == 0 .. 1
=============================================================================
