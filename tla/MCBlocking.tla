----------------------------- MODULE MCBlocking -----------------------------
EXTENDS Blocking, TLC

\* Senders and slots are interchangeable (for runs without liveness).
Symmetry == Permutations(Sender) \cup Permutations(Slot)
=============================================================================
