----------------------------- MODULE MCRealtime -----------------------------
\* Model checking of Realtime.
EXTENDS Realtime, TLC

Symmetry == Permutations(Relays) \cup Permutations(Conns)
=============================================================================
