------------------------- MODULE MCResidentDispatch -------------------------
EXTENDS ResidentDispatchInvariant, TLC
CONSTANTS p1, p2, a1, s1, g1, g2

(* Nothing tells one prompt, or one supervisor generation, from another,   *)
(* and every property checked with this is an invariant or speaks of       *)
(* single steps.                                                           *)
Interchangeable == Permutations({p1, p2}) \cup Permutations({g1, g2})
=============================================================================
