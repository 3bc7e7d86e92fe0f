--------------------------- MODULE MCCredentials ---------------------------
(* Instances of Credentials for TLC. *)
EXTENDS Credentials, TLC

\* Passwords that differ beyond byte 72 only.
MCPrefix == [p \in Passwords |-> "the same 72 bytes"]

Symmetry == Permutations(Tx) \cup Permutations(Users) \cup Permutations(Idents)
                \cup Permutations(Passwords)
=============================================================================
