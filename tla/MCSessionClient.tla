---- MODULE MCSessionClient ----
EXTENDS SessionClient, TLC
Symmetry == Permutations(Tabs) \cup Permutations(Calls)

\* bound: kinds of mishap in one behaviour
FewMishaps == Cardinality(happened) <= 2
====
