------------------------------ MODULE MCMcuClock ------------------------------
EXTENDS McuClock

\* The last second of a minute.
MCNewTimes == {<<0, 1>>}
=============================================================================
