------------------------------ MODULE MCService -----------------------------
(* Service for model checking: the RPCs are interchangeable.               *)
EXTENDS Service, TLC

CONSTANTS p1, p2, c1, c2, c3, c4

Symmetry == Permutations({c1, c2, c3, c4})
=============================================================================
