---------------------- MODULE MaterializationRefinement ----------------------
(***************************************************************************)
(* The scheduler of Materialization implements MaterializationService.     *)
(***************************************************************************)
EXTENDS Materialization

Service ==
    INSTANCE MaterializationService
        WITH known <- IF lease = 0 THEN {} ELSE Cached(lease)

\* Whatever the queue, preemption, cancellation and the teardown of revisions
\* do underneath, requests see one computation per session and revision, whose
\* result reaches everybody who waits for it and who is still there.
ImplementsService == Service!Spec

\* And they are answered: jobs, pumps and teardowns add no way to wait forever.
ImplementsFairService == Service!FairSpec

=============================================================================
