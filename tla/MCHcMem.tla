-------------------------------- MODULE MCHcMem --------------------------------
EXTENDS HcMem

\* A scratchpad page, and two pages on a boundary of two.
MCAlignedAsks == {<<1, 1>>, <<2, 2>>}
=============================================================================
