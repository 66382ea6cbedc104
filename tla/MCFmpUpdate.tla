---------------------------- MODULE MCFmpUpdate -----------------------------
(* Instances of FmpUpdate for TLC: two builds of the firmware, oowow, and     *)
(* boards whose NOR is healthy or has one worn chunk.                         *)
EXTENDS FmpUpdate

MCHealthy == {{}}
MCWorn    == {{}, {1}}
=============================================================================
