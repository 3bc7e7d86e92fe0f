-------------------------- MODULE MCLoginFailures --------------------------
(* Instances of LoginFailures for TLC. *)
EXTENDS LoginFailures, TLC

Symmetry == Permutations(Ids)
=============================================================================
