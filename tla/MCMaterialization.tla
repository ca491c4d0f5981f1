------------------------- MODULE MCMaterialization -------------------------
(* Instances of MaterializationRefinement for TLC. *)
EXTENDS MaterializationRefinement, TLC

\* Sessions, requests and job identities are interchangeable.
Symmetry == Permutations(Session) \cup Permutations(Request) \cup Permutations(Job)

=============================================================================
