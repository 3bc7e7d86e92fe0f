---------------------------- MODULE MCLoginPath ----------------------------
(* Instances of LoginPath for TLC. *)
EXTENDS LoginPath, TLC

Symmetry == Permutations(Ids) \cup Permutations(Callers \ Logins)
=============================================================================
