--------------------------- MODULE MCProjectIndex ---------------------------
(* Instances of ProjectIndex for TLC. *)
EXTENDS ProjectIndex, TLC

\* Sources, searches and discoveries are interchangeable.
Symmetry == Permutations(Source) \cup Permutations(Search) \cup Permutations(Discovery)

=============================================================================
