--------------------------- MODULE SessionPrewarm ---------------------------
(***************************************************************************)
(* The prewarm loop of an index revision (src/src/session-prewarm.js) on   *)
(* top of the scheduler of Materialization: the timer that starts it, the  *)
(* candidates it goes through, the scheduler's whenIdle() it waits for,    *)
(* and the calls of prewarm() it makes.                                    *)
(*                                                                         *)
(* A loop runs in turns of its own.  Between whenIdle() and the turn it    *)
(* wakes, between a refused call and the next whenIdle(), and while a call *)
(* is outstanding, anything else may happen; whatever the loop decides in  *)
(* one turn it decides from the state of that turn.                        *)
(***************************************************************************)
EXTENDS Materialization, Sequences, FiniteSetsExt

CONSTANTS
    Candidates,      \* orderedPrewarmCandidates of every index
    Bytes,           \* estimateMaterializedSessionBytes of each session
    CandidateCap,    \* policy.candidateCap
    BudgetBytes,     \* policy.budgetBytes
    IndividualBytes  \* policy.individualBytes

ASSUME PrewarmAssumption ==
    /\ IsFiniteSet(Session)
    /\ Candidates \in Seq(Session)
    /\ Bytes \in [Session -> Nat \ {0}]
    /\ CandidateCap \in Nat \ {0} /\ CandidateCap <= Len(Candidates)
    /\ BudgetBytes \in Nat \ {0} /\ IndividualBytes \in 1..BudgetBytes

VARIABLE loop   \* the prewarm loop of each revision

prewarmVars == <<vars, loop>>

LoopRecord ==
    [phase: {"none",        \* not scheduled
             "scheduled",   \* the timer is set
             "awaiting",    \* in scheduler.idleWaiters
             "woken",       \* whenIdle() has settled
             "called",      \* prewarm() is outstanding
             "refused",     \* prewarm() answered 'skipped-busy'
             "yielding",    \* yieldToForeground()
             "done"},
     at: 0..(Len(Candidates) + 1),   \* the candidate it is at
     attempted: 0..CandidateCap]

LoopTypeOK == loop \in [Revision -> LoopRecord]

-----------------------------------------------------------------------------

\* owner.estimatedMaterializedBytes (WithinLimits of module SessionCache).
Estimated(r) == MapThenSumSet(LAMBDA s : Bytes[s], Cached(r))

\* Faulty variant: the budget is compared with what was cached at the start.
AffordableOnce(r, s) == Bytes[s] <= BudgetBytes

Affordable(r, s) == Estimated(r) + Bytes[s] <= BudgetBytes

Spent(r) == Estimated(r) >= BudgetBytes

\* The candidates from number i on that the loop would wait for the scheduler
\* for: the others are skipped.
Eligible(r, i) ==
    {k \in i..Len(Candidates) :
        LET s == Candidates[k] IN
        cache[r][s] = "none" /\ Bytes[s] <= IndividualBytes /\ Affordable(r, s)}

\* whenIdle(signal): it resolves at once, or the loop is registered.
WhenIdle(r, i, attempted) ==
    [phase |-> IF SchedulerIdle THEN "woken" ELSE "awaiting",
     at |-> i, attempted |-> attempted]

\* The loop goes on with candidate i: it ends, or comes to wait for the
\* scheduler with the first candidate that is not skipped.
Continued(r, i, attempted) ==
    IF \/ attempted >= CandidateCap \/ r \in retired
       \/ Spent(r) \/ Eligible(r, i) = {}
    THEN [phase |-> "done", at |-> i, attempted |-> attempted]
    ELSE WhenIdle(r, Min(Eligible(r, i)), attempted)

SetLoop(r, record) == loop' = [loop EXCEPT ![r] = record]

\* notifyIdle(), the scheduler being idle.
Notified(L) ==
    [r \in Revision |->
        IF L[r].phase = "awaiting" THEN [L[r] EXCEPT !.phase = "woken"] ELSE L[r]]

\* Faulty variant: pump() returns early when it finds nothing to start.
AfterPumpEarly(L) ==
    IF pending # {} /\ active' = {} /\ pending' = {} THEN Notified(L) ELSE L

\* The end of pump().
AfterPump(L) == IF active' = {} /\ pending' = {} THEN Notified(L) ELSE L

-----------------------------------------------------------------------------
(* The loop's own turns *)

\* wake(): the timer fires, and runBoundedSessionPrewarm starts.
Wake(r) ==
    /\ loop[r].phase = "scheduled"
    /\ SetLoop(r, Continued(r, 1, 0))
    /\ UNCHANGED vars

\* The turn after whenIdle() settled looks again at all it had looked at.
\* Here it goes on to the next candidate ...
SkipWoken(r) ==
    /\ loop[r].phase = "woken"
    /\ LET s == Candidates[loop[r].at] IN
       \/ r \in retired \/ cache[r][s] # "none"
       \/ Spent(r) \/ ~Affordable(r, s)
    /\ SetLoop(r, Continued(r, loop[r].at + 1, loop[r].attempted))
    /\ UNCHANGED vars

\* ... here prewarm() finds the scheduler busy once more, or the session's job
\* in the table ...
RefuseWoken(r) ==
    /\ loop[r].phase = "woken" /\ r \notin retired
    /\ LET s == Candidates[loop[r].at] IN
       /\ cache[r][s] = "none" /\ ~Spent(r) /\ Affordable(r, s)
       /\ jobs[r][s] # NoJob \/ ~SchedulerIdle
    /\ SetLoop(r, [loop[r] EXCEPT !.phase = "refused"])
    /\ UNCHANGED vars

\* ... and here it enqueues a speculative job.
CallWoken(r) ==
    /\ loop[r].phase = "woken" /\ r = lease
    /\ ~Spent(r) /\ Affordable(r, Candidates[loop[r].at])
    /\ Prewarm(Candidates[loop[r].at])
    /\ SetLoop(r, [loop[r] EXCEPT !.phase = "called"])

\* The while loop calls whenIdle() again.
Retry(r) ==
    /\ loop[r].phase = "refused"
    /\ SetLoop(r, IF r \in retired THEN [loop[r] EXCEPT !.phase = "done"]
                  ELSE WhenIdle(r, loop[r].at, loop[r].attempted))
    /\ UNCHANGED vars

\* The promise of prewarm() has settled.
Resume(r) ==
    /\ loop[r].phase = "called" /\ prewarm[r] # "waiting"
    /\ SetLoop(r, IF r \in retired \/ prewarm[r] = "retired"
                  THEN [loop[r] EXCEPT !.phase = "done"]
                  ELSE [loop[r] EXCEPT !.phase = "yielding", !.attempted = @ + 1])
    /\ UNCHANGED vars

GoOn(r) ==
    /\ loop[r].phase = "yielding"
    /\ SetLoop(r, Continued(r, loop[r].at + 1, loop[r].attempted))
    /\ UNCHANGED vars

LoopTurn(r) ==
    \/ Wake(r) \/ SkipWoken(r) \/ RefuseWoken(r) \/ CallWoken(r)
    \/ Retry(r) \/ Resume(r) \/ GoOn(r)

-----------------------------------------------------------------------------
(* The turns of the scheduler, and what they do to the loops *)

\* A miss may leave the scheduler idle for the moment between the cancellation
\* of a queued speculative job and the new job.
Miss(w, s) ==
    /\ GetBusy(w, s) \/ GetNew(w, s)
    /\ loop' = IF /\ Preempted \cap pending # {}
                  /\ active = {} /\ pending \ Preempted = {}
               THEN Notified(loop) ELSE loop

Pumped ==
    /\ PumpTick \/ \E w \in Request : Abandon(w)
    /\ loop' = AfterPump(loop)

Ended ==
    /\ \E j \in Job : Finalize(j)
    /\ loop' = AfterPump(loop)

\* Faulty variant: a retired loop goes on waiting for the scheduler.
RetiredUnaborted(r) == AfterPump(loop)

\* retireLease: a timer is cleared, and whenIdle() rejects.
Retired(r) ==
    [AfterPump(loop) EXCEPT ![r].phase =
        CASE @ = "scheduled" -> "done"
          [] @ = "awaiting" -> "woken"
          [] OTHER -> @]

\* startProjectJob installs the index and schedules its prewarm.
InstallAndSchedule ==
    /\ Install
    /\ loop' = [(IF lease = 0 THEN loop ELSE Retired(lease))
                   EXCEPT ![revision + 1].phase = "scheduled"]

ClearAll ==
    /\ Clear
    /\ loop' = Retired(lease)

Undisturbed ==
    /\ \/ \E w \in Request, s \in Session : GetHit(w, s) \/ GetJoin(w, s)
       \/ \E w \in Request : Respond(w)
       \/ \E j \in Job :
             \/ CompleteForeground(j) \/ CompleteSpeculative(j)
             \/ RejectSpeculative(j) \/ Fail(j) \/ Discard(j)
    /\ UNCHANGED loop

PrewarmInit ==
    /\ Init
    /\ loop = [r \in Revision |-> [phase |-> "none", at |-> 0, attempted |-> 0]]

PrewarmNext ==
    \/ \E w \in Request, s \in Session : Miss(w, s)
    \/ Pumped \/ Ended \/ InstallAndSchedule \/ ClearAll \/ Undisturbed
    \/ \E r \in Revision : LoopTurn(r)

PrewarmSpec == PrewarmInit /\ [][PrewarmNext]_prewarmVars

\* As for the scheduler; and timers fire and promise continuations run.
PrewarmFairSpec ==
    /\ PrewarmSpec
    /\ WF_prewarmVars(PumpTick /\ loop' = AfterPump(loop))
    /\ \A j \in Job :
          /\ WF_prewarmVars(Complete(j) /\ UNCHANGED loop)
          /\ WF_prewarmVars(Finalize(j) /\ loop' = AfterPump(loop))
    /\ \A r \in Revision : WF_prewarmVars(LoopTurn(r))

-----------------------------------------------------------------------------
(* Properties *)

\* Speculation keeps to its budget: what a speculative result leaves in the
\* cache is within budgetBytes, although the loop asked what the cache holds
\* before the job ran, and requests filled the cache while it waited.
SpeculationWithinBudget ==
    [][\A r \in Revision, s \in Session :
          cache[r][s] = "none" /\ cache'[r][s] = "speculative"
             => Estimated(r)' <= BudgetBytes]_prewarmVars

\* No wake-up is lost: a loop that waits for the scheduler to be idle waits
\* while it is not, and for a revision that is live.
NoLostWakeup ==
    \A r \in Revision : loop[r].phase = "awaiting" =>
        ~SchedulerIdle /\ r \notin retired

\* A loop whose revision is retired comes to its end, whatever it was waiting
\* for and however busy the revisions after it keep the scheduler.
RetiredLoopEnds ==
    \A r \in Revision : r \in retired ~> loop[r].phase \in {"none", "done"}

=============================================================================
