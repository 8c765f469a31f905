----------------------------- MODULE MCIntQueue -----------------------------
EXTENDS IntQueue
CONSTANTS p1, p2, c1, c2
=============================================================================
