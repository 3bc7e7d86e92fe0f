----------------------------- MODULE MCConsole -----------------------------
(* The console for accounts that hold part of what a page needs. *)
EXTENDS Console

Account(codes) == [in |-> TRUE, superuser |-> FALSE, codes |-> codes]

MCAccounts ==
  {[Account({}) EXCEPT !.superuser = TRUE],
   Account({}),
   Account(PERMISSIONS),
   Account({<<"users", "delete">>, <<"roles", "delete">>, <<"permissions", "delete">>}),
   Account({<<"users", "read">>, <<"users", "assign">>, <<"roles", "delete">>}),
   Account({<<"users", "read">>, <<"users", "update">>, <<"users", "create">>}),
   Account({<<"roles", "read">>, <<"roles", "assign">>, <<"audit", "read">>}),
   Account({<<"roles", "read">>, <<"roles", "update">>, <<"permissions", "read">>}),
   Account({<<"permissions", "read">>, <<"permissions", "create">>,
            <<"permissions", "update">>, <<"users", "reset">>})}
=============================================================================
