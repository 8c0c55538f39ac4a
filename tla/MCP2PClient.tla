----------------------------- MODULE MCP2PClient -----------------------------
EXTENDS P2PClient

EveryType == AllTypes
=============================================================================
