------------------------- MODULE MCModemResetRecovery -------------------------
\* Small instances of ModemResetRecovery for TLC.  A tick is half a second:
\* the windows are 2 ticks, the second deferral and the first backoff 1 tick.
EXTENDS ModemResetRecovery, TLC

RecoverySymmetry == Permutations(Reporters) \cup Permutations(Timers)
=============================================================================
