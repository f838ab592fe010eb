-------------------------------- MODULE MCDB --------------------------------
(* DB for model checking: two paths in two collections.                    *)
EXTENDS DB, TLC

CONSTANTS p1, p2, c1, c2, w1, w2, r1

TwoCollections == (p1 :> c1) @@ (p2 :> c2)

Symmetry == Permutations({w1, w2})
=============================================================================
