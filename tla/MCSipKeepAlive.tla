---------------------------- MODULE MCSipKeepAlive ----------------------------
EXTENDS SipKeepAlive
=============================================================================
