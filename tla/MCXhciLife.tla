------------------------------ MODULE MCXhciLife ------------------------------
(* One root port, two slots, three schedules: a start, a reset over         *)
(* whatever it left and a second start or reset.                            *)
EXTENDS XhciLife, TLC
Sym == Permutations(Slots)
=============================================================================
