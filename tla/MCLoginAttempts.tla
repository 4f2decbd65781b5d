--------------------------- MODULE MCLoginAttempts ---------------------------
\* An instance of LoginAttempts for TLC: one key, for keys share no state.
EXTENDS LoginAttempts, TLC
CONSTANTS k1, r1, r2, r3, r4
=============================================================================
