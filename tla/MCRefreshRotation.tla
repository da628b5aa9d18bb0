------------------------- MODULE MCRefreshRotation -------------------------
(* Small instances of RefreshRotation for TLC. *)
EXTENDS RefreshRotation, TLC

\* Ids and handlers are interchangeable: safety only, no liveness is checked.
Symmetry ==
  Permutations(Sessions) \cup Permutations(Tokens) \cup Permutations(Handlers)
    \cup Permutations(Users)
=============================================================================
