----------------------------- MODULE MCSdMmcHost -----------------------------
EXTENDS SdMmcHost
=============================================================================
