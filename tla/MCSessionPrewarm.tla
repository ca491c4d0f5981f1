-------------------------- MODULE MCSessionPrewarm --------------------------
(* Instances of SessionPrewarm for TLC. *)
EXTENDS SessionPrewarm, TLC

CONSTANTS large, small

MCCandidates == <<large, small>>

\* Either session is within the budget, both together are not.
MCBytes == large :> 2 @@ small :> 1

\* Job identities are interchangeable; sessions are not.
Symmetry == Permutations(Job)

=============================================================================
