---- MODULE MCListPage ----
EXTENDS ListPage, TLC
Symmetry == Permutations(Fetches) \cup Permutations(WriteSlots)
====
