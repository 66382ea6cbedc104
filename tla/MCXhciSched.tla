----------------------------- MODULE MCXhciSched -----------------------------
EXTENDS XhciSched
=============================================================================
