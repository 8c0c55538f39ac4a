----------------------------- MODULE MCUdtStream -----------------------------
EXTENDS UdtStream
=============================================================================
