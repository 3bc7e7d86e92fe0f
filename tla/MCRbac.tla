------------------------------- MODULE MCRbac -------------------------------
(* Instance of Rbac for TLC. *)
EXTENDS Rbac, TLC

Symmetry == Permutations(Users) \cup Permutations(Roles) \cup Permutations(Tx)

\* Bound: rows that are disabled or not live at the same time.
FewHidden ==
    Cardinality({x \in Users : user[x].is # "live"}
        \cup {x \in Roles : role[x].is # "live" \/ ~role[x].active}
        \cup {x \in Permissions : permission[x].is # "live" \/ ~permission[x].active}) =< 2
=============================================================================
