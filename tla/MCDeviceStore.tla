---------------------------- MODULE MCDeviceStore ----------------------------
(* A small instance of DeviceStore.                                        *)
EXTENDS DeviceStore

CONSTANTS d1, u1

OneDevice == <<[id |-> d1, user |-> u1]>>
=============================================================================
