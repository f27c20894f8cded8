------------------------------- MODULE MCApi -------------------------------
(* A small instance of Api for TLC: two tenants with a key each.            *)
EXTENDS Api, TLC

CONSTANTS k1, k2, t1, t2

MCTenantOf == k1 :> t1 @@ k2 :> t2

\* Requests can be exchanged, and the two tenants together with their keys.
Symmetry ==
    Permutations(Requests)
        \cup {t1 :> t2 @@ t2 :> t1 @@ k1 :> k2 @@ k2 :> k1}
=============================================================================
