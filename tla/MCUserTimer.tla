---------------------------- MODULE MCUserTimer ----------------------------
EXTENDS UserTimer

\* -1 is kUserTimerCycleForever.
MCCycles == {-1, 0, 2}
=============================================================================
