---- MODULE MCPageDialogs ----
EXTENDS PageDialogs, TLC
Symmetry == Permutations(Rows) \cup Permutations(Loads) \cup Permutations(Writes)
====
