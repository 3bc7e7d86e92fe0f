------------------------- MODULE MCRefreshSessions -------------------------
(* Instances of RefreshSessions for TLC. *)
EXTENDS RefreshSessions, TLC

Symmetry == Permutations(Families) \cup Permutations(Jtis)
                \cup Permutations(Requests)
=============================================================================
