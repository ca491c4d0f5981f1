--------------------------- MODULE Materialization ---------------------------
(***************************************************************************)
(* The materialized-session scheduler of Session Analyzer: one scheduler,  *)
(* shared by every index revision, and one owner per revision that holds   *)
(* the revision's job table and its cache of materialized sessions         *)
(* (src/src/materialized-session-owner.js), together with the leases that  *)
(* install, clear and retire revisions (src/src/index-revision-lease.js)   *)
(* and the HTTP requests that wait on the jobs (src/server.js).            *)
(*                                                                         *)
(* Every action is one turn of the event loop's job queue: JavaScript runs *)
(* it to completion, so what interleaves is the order of the turns.  The   *)
(* byte accounting and the recency order of a cache are those of module    *)
(* SessionCache; here an admission evicts any set it may evict.            *)
(***************************************************************************)
EXTENDS Integers, FiniteSets

CONSTANTS
    Session,       \* the sessions of an index
    Request,       \* the requests a client may have open
    Job,           \* identities of the job objects that are reachable
    NoJob,         \* "no entry" in a job table
    MaxQueued,     \* MAX_QUEUED_MATERIALIZATIONS
    MaxRevision    \* bound on the number of index revisions

ASSUME ConstantsAssumption ==
    /\ NoJob \notin Job
    /\ MaxQueued \in Nat \ {0}
    /\ MaxRevision \in Nat

VARIABLES
    revision,   \* state.indexRevision
    lease,      \* revision of state.revisionLease, 0 when it is null
    retired,    \* the revisions whose owner has been retired
    pending,    \* scheduler.pending as a set ...
    ahead,      \* ... ordered: ahead[j] are the pending jobs pushed before j
    active,     \* scheduler.active
    finishing,  \* active jobs that ran _completeJob, but not yet .finally
    pumpDue,    \* queueMicrotask(pump) is outstanding
    job,        \* the job objects
    jobs,       \* owner.jobs, per revision: session -> job
    cache,      \* owner.cache, per revision: session -> origin of its entry
    request,    \* what each request's handler is waiting for
    prewarm     \* what each revision's prewarm loop is waiting for

schedulerVars == <<pending, ahead, active, finishing, pumpDue>>
vars == <<revision, lease, retired, schedulerVars, job, jobs, cache, request, prewarm>>

-----------------------------------------------------------------------------
(* Types *)

Revision == 1..MaxRevision

Origin == {"none", "speculative", "foreground"}

JobRecord ==
    [rev: Revision, session: Session, status: {"queued", "active"},
     speculative: BOOLEAN,   \* job.speculativeOnly
     prewarmer: BOOLEAN,     \* the waiter of kind 'speculative' is live
     aborted: BOOLEAN,       \* job.controller.signal.aborted
     waiters: SUBSET Request]

\* A job object nothing refers to; its identity may be used again.
Unused == [status |-> "unused"]

Outcome == {"value", "busy", "aborted", "retired", "failed"}

RequestRecord ==
         [phase: {"waiting"}, rev: Revision, session: Session]
    \cup [phase: {"settled"}, outcome: Outcome, rev: Revision]
    \cup [phase: {"answered"}, outcome: Outcome]

Idle == [phase |-> "idle"]

\* owner.get(), called for a lease of revision r, has settled.
Settled(outcome, r) == [phase |-> "settled", outcome |-> outcome, rev |-> r]

PrewarmState ==
    {"ready", "waiting", "completed", "notAdmitted", "promoted", "preempted",
     "failed", "retired"}

TypeOK ==
    /\ revision \in 0..MaxRevision
    /\ lease \in 0..MaxRevision
    /\ retired \subseteq Revision
    /\ pending \subseteq Job
    /\ ahead \in [Job -> SUBSET Job]
    /\ active \subseteq Job
    /\ finishing \subseteq Job
    /\ pumpDue \in BOOLEAN
    /\ job \in [Job -> JobRecord \cup {Unused}]
    /\ jobs \in [Revision -> [Session -> Job \cup {NoJob}]]
    /\ cache \in [Revision -> [Session -> Origin]]
    /\ request \in [Request -> RequestRecord \cup {Idle}]
    /\ prewarm \in [Revision -> PrewarmState]

-----------------------------------------------------------------------------
(* The scheduler's queue *)

Used(j) == job[j] # Unused

\* job.waiters.size === 0, for a job record.
Unobserved(J) == J.waiters = {} /\ ~J.prewarmer

\* isIdle() and canAdmitSpeculative()
SchedulerIdle == active = {} /\ pending = {}

Runnable(J, dead) == J.status = "queued" /\ J.rev \notin dead /\ ~Unobserved(J)

\* The jobs pump() takes off the queue P when the set A is active: with room
\* for one job it discards every job it may not run up to the first it may.
Shifted(P, order, A, J, dead) ==
    IF A # {} THEN {}
    ELSE {j \in P : \A k \in order[j] : ~Runnable(J[k], dead)}

\* Those of them that it starts.
Started(P, order, A, J, dead) ==
    {j \in Shifted(P, order, A, J, dead) : Runnable(J[j], dead)}

\* pump(): the queue P, ordered by order, the active set A, the job objects J
\* and the job tables T become those of the next state.
Pump(P, order, A, J, T, dead) ==
    LET off  == Shifted(P, order, A, J, dead)
        on   == Started(P, order, A, J, dead)
        gone == off \ on
    IN  /\ pending' = P \ off
        /\ ahead' = [j \in Job |-> IF j \in P \ off THEN order[j] \ off ELSE {}]
        /\ active' = A \cup on
        /\ job' = [j \in Job |->
                     IF j \in on THEN [J[j] EXCEPT !.status = "active"]
                     ELSE IF j \in gone THEN Unused ELSE J[j]]
        /\ jobs' = [r \in Revision |-> [s \in Session |->
                     IF T[r][s] \in gone THEN NoJob ELSE T[r][s]]]

\* The order of the queue after the jobs in gone have been removed from it.
OrderWithout(gone) == [j \in Job |-> ahead[j] \ gone]

\* The tables with the entries that name a job of gone deleted.
TablesWithout(gone) ==
    [r \in Revision |-> [s \in Session |->
        IF jobs[r][s] \in gone THEN NoJob ELSE jobs[r][s]]]

\* Faulty variant of the definition that follows: one waiter is settled.
SettleFirst(W, outcome, r) ==
    [w \in Request |->
        IF w \in W /\ w = CHOOSE x \in W : TRUE THEN Settled(outcome, r) ELSE request[w]]

\* settleWaiter for each request of W, all of revision r.
Settle(W, outcome, r) ==
    [w \in Request |->
        IF w \in W THEN Settled(outcome, r) ELSE request[w]]

-----------------------------------------------------------------------------
(* A foreground request: withIndexRevisionLease captures the live lease    *)
(* and calls owner.get(session), all in one turn.                          *)

Opens(w) == request[w].phase \in {"idle", "answered"} /\ lease # 0

\* get() finds the session in the cache; a speculative entry is promoted.
GetHit(w, s) ==
    /\ Opens(w)
    /\ cache[lease][s] # "none"
    /\ cache' = [cache EXCEPT ![lease][s] = "foreground"]
    /\ request' = Settle({w}, "value", lease)
    /\ UNCHANGED <<revision, lease, retired, schedulerVars, job, jobs, prewarm>>

\* get() joins the session's job; a job that was speculative so far becomes a
\* foreground one, and the prewarm loop is told so (_promoteSpeculativeJob).
GetJoin(w, s) ==
    /\ Opens(w)
    /\ cache[lease][s] = "none"
    /\ jobs[lease][s] # NoJob
    /\ LET j == jobs[lease][s] IN
       /\ job' = [job EXCEPT ![j].waiters = @ \cup {w},
                             ![j].speculative = FALSE,
                             ![j].prewarmer = FALSE]
       /\ prewarm' = IF job[j].prewarmer
                     THEN [prewarm EXCEPT ![job[j].rev] = "promoted"]
                     ELSE prewarm
    /\ request' = [request EXCEPT ![w] =
          [phase |-> "waiting", rev |-> lease, session |-> s]]
    /\ UNCHANGED <<revision, lease, retired, schedulerVars, jobs, cache>>

\* Faulty variant: only the queue is searched for speculative jobs.
PreemptedInQueue == {j \in pending : job[j].speculative}

\* preemptSpeculative(): every job nobody but the prewarm loop waits for.
Preempted == {j \in pending \cup active : job[j].speculative}

\* A preempted job that is queued leaves the queue and its table at once; one
\* that is active leaves the table, is aborted, and stays active until its
\* materializer settles (_preemptSpeculativeJob, _cancelUnobservedJob).
JobsAfterPreemption ==
    [j \in Job |->
        IF j \in Preempted \cap pending THEN Unused
        ELSE IF j \in Preempted
             THEN [job[j] EXCEPT !.prewarmer = FALSE, !.aborted = TRUE]
             ELSE job[j]]

\* Faulty variant: the prewarm loop is not told.
PrewarmNotTold == prewarm

PrewarmAfterPreemption ==
    [r \in Revision |->
        IF \E j \in Preempted : job[j].prewarmer /\ job[j].rev = r
        THEN "preempted" ELSE prewarm[r]]

\* Faulty variant: jobs are not entered in their owner's queue.
QueueForgotten(r) == {}

\* owner.queue
Queue(r) == {j \in pending \ Preempted : job[j].rev = r}

MustQueue == active # {} \/ pending \ Preempted # {}

Misses(w, s) ==
    /\ Opens(w)
    /\ cache[lease][s] = "none"
    /\ jobs[lease][s] = NoJob

\* The preemption happens before the queue is found to be full.
GetBusy(w, s) ==
    /\ Misses(w, s)
    /\ MustQueue /\ Cardinality(Queue(lease)) >= MaxQueued
    /\ Pump(pending \ Preempted, OrderWithout(Preempted), active,
            JobsAfterPreemption, TablesWithout(Preempted), retired)
    /\ prewarm' = PrewarmAfterPreemption
    /\ request' = Settle({w}, "busy", lease)
    /\ UNCHANGED <<revision, lease, retired, finishing, pumpDue, cache>>

\* A new job is pushed behind the queue and the scheduler pumped.  (That the
\* cancellation of a preempted job pumps first changes nothing: both pumps
\* take jobs from the head of the same queue.)
GetNew(w, s) ==
    /\ Misses(w, s)
    /\ ~(MustQueue /\ Cardinality(Queue(lease)) >= MaxQueued)
    /\ \E j \in Job :
       /\ ~Used(j)
       /\ LET rest == pending \ Preempted
              new  == [rev |-> lease, session |-> s, status |-> "queued",
                       speculative |-> FALSE, prewarmer |-> FALSE,
                       aborted |-> FALSE, waiters |-> {w}]
          IN  Pump(rest \cup {j},
                   [OrderWithout(Preempted) EXCEPT ![j] = rest],
                   active,
                   [JobsAfterPreemption EXCEPT ![j] = new],
                   [TablesWithout(Preempted) EXCEPT ![lease][s] = j],
                   retired)
    /\ prewarm' = PrewarmAfterPreemption
    /\ request' = [request EXCEPT ![w] =
          [phase |-> "waiting", rev |-> lease, session |-> s]]
    /\ UNCHANGED <<revision, lease, retired, finishing, pumpDue, cache>>

\* The client goes away.  A waiting request is settled and, when it was its
\* job's last waiter, the job is cancelled (onAbort, _cancelUnobservedJob).
Abandon(w) ==
    /\ request[w].phase = "waiting"
    /\ \E j \in Job :
       /\ Used(j) /\ w \in job[j].waiters
       /\ LET J    == [job EXCEPT ![j].waiters = @ \ {w}]
              last == Unobserved(J[j])
          IN  IF last /\ job[j].status = "queued"
              THEN Pump(pending \ {j}, OrderWithout({j}), active,
                        [J EXCEPT ![j] = Unused], TablesWithout({j}), retired)
              ELSE /\ job' = [J EXCEPT ![j].aborted = @ \/ last]
                   /\ jobs' = IF last THEN TablesWithout({j}) ELSE jobs
                   /\ UNCHANGED <<pending, ahead, active>>
    /\ request' = Settle({w}, "aborted", request[w].rev)
    /\ UNCHANGED <<revision, lease, retired, finishing, pumpDue, cache, prewarm>>

\* Faulty variant: the lease is not looked at again.
GivenUnchecked(w, gone) ==
    IF gone THEN "aborted" ELSE request[w].outcome

\* assertIndexRevisionCurrent, and the same two tests for an error: by now the
\* client may have gone away or the revision been replaced (409).
Given(w, gone) ==
    IF gone \/ request[w].outcome = "aborted" THEN "aborted"
    ELSE IF lease # request[w].rev THEN "retired" ELSE request[w].outcome

\* The handler resumes, looks at its lease again and answers; the client may
\* open another request.
Respond(w) ==
    /\ request[w].phase = "settled"
    /\ \E gone \in BOOLEAN :
          request' = [request EXCEPT ![w] =
              [phase |-> "answered", outcome |-> Given(w, gone)]]
    /\ UNCHANGED <<revision, lease, retired, schedulerVars, job, jobs, cache, prewarm>>

-----------------------------------------------------------------------------
(* Speculative work *)

\* owner.prewarm(session), called by the prewarm loop of the live lease.  The
\* calls that return without a job (cached, busy) change no state.
Prewarm(s) ==
    /\ lease # 0 /\ lease \notin retired
    /\ prewarm[lease] # "waiting"
    /\ cache[lease][s] = "none"
    /\ jobs[lease][s] = NoJob /\ SchedulerIdle
    /\ \E j \in Job :
       /\ ~Used(j)
       /\ job' = [job EXCEPT ![j] =
             [rev |-> lease, session |-> s, status |-> "queued",
              speculative |-> TRUE, prewarmer |-> TRUE,
              aborted |-> FALSE, waiters |-> {}]]
       /\ jobs' = [jobs EXCEPT ![lease][s] = j]
       /\ pending' = pending \cup {j}
       /\ ahead' = [ahead EXCEPT ![j] = pending]
    /\ pumpDue' = TRUE
    /\ prewarm' = [prewarm EXCEPT ![lease] = "waiting"]
    /\ UNCHANGED <<revision, lease, retired, active, finishing, cache, request>>

\* The microtask enqueueSpeculative() left behind.
PumpTick ==
    /\ pumpDue
    /\ pumpDue' = FALSE
    /\ Pump(pending, ahead, active, job, jobs, retired)
    /\ UNCHANGED <<revision, lease, retired, finishing, cache, request, prewarm>>

-----------------------------------------------------------------------------
(* A materializer settles: _completeJob, then .finally one turn later.     *)

Running(j) == j \in active \ finishing

\* Faulty variant: what arrives is taken.
NeverDiscarded(j) == FALSE

Discarded(j) == job[j].rev \in retired \/ job[j].aborted \/ Unobserved(job[j])

\* Faulty variant: the job stays in the table.
ObservedInTable(j, outcome, result) ==
    /\ job' = [job EXCEPT ![j].waiters = {}, ![j].prewarmer = FALSE]
    /\ jobs' = jobs
    /\ request' = Settle(job[j].waiters, outcome, job[j].rev)
    /\ prewarm' = IF job[j].prewarmer
                  THEN [prewarm EXCEPT ![job[j].rev] = result] ELSE prewarm
    /\ finishing' = finishing \cup {j}
    /\ UNCHANGED <<revision, lease, retired, pending, ahead, active, pumpDue>>

\* Both settlements end the job's observation and leave its table.
Observed(j, outcome, result) ==
    /\ job' = [job EXCEPT ![j].waiters = {}, ![j].prewarmer = FALSE]
    /\ jobs' = TablesWithout({j})
    /\ request' = Settle(job[j].waiters, outcome, job[j].rev)
    /\ prewarm' = IF job[j].prewarmer
                  THEN [prewarm EXCEPT ![job[j].rev] = result] ELSE prewarm
    /\ finishing' = finishing \cup {j}
    /\ UNCHANGED <<revision, lease, retired, pending, ahead, active, pumpDue>>

Cached(r) == {s \in Session : cache[r][s] # "none"}
Speculative(r) == {s \in Session : cache[r][s] = "speculative"}

CacheWith(r, s, origin, victims) ==
    [cache EXCEPT ![r] = [x \in Session |->
        IF x = s THEN origin ELSE IF x \in victims THEN "none" ELSE @[x]]]

\* A foreground result is always admitted, at the cost of any entries.
CompleteForeground(j) ==
    /\ Running(j) /\ ~Discarded(j) /\ ~job[j].speculative
    /\ \E victims \in SUBSET Cached(job[j].rev) :
          cache' = CacheWith(job[j].rev, job[j].session, "foreground", victims)
    /\ Observed(j, "value", "completed")

\* A speculative result is admitted at the cost of speculative entries only.
CompleteSpeculative(j) ==
    /\ Running(j) /\ ~Discarded(j) /\ job[j].speculative
    /\ \E victims \in SUBSET Speculative(job[j].rev) :
          cache' = CacheWith(job[j].rev, job[j].session, "speculative", victims)
    /\ Observed(j, "value", "completed")

\* A speculative result that does not fit is dropped.
RejectSpeculative(j) ==
    /\ Running(j) /\ ~Discarded(j) /\ job[j].speculative
    /\ Observed(j, "value", "notAdmitted")
    /\ UNCHANGED cache

Fail(j) ==
    /\ Running(j) /\ ~Discarded(j)
    /\ Observed(j, "failed", "failed")
    /\ UNCHANGED cache

\* The result or the error of a job nobody waits for any more.
Discard(j) ==
    /\ Running(j) /\ Discarded(j)
    /\ Observed(j, IF job[j].rev \in retired THEN "retired" ELSE "failed",
                   IF job[j].rev \in retired THEN "retired" ELSE "failed")
    /\ UNCHANGED cache

Complete(j) ==
    \/ CompleteForeground(j) \/ CompleteSpeculative(j) \/ RejectSpeculative(j)
    \/ Fail(j) \/ Discard(j)

\* Faulty variant: the queue is not pumped.
FinalizeSilently(j) ==
    /\ j \in finishing
    /\ finishing' = finishing \ {j}
    /\ active' = active \ {j}
    /\ job' = [job EXCEPT ![j] = Unused]
    /\ UNCHANGED <<revision, lease, retired, pending, ahead, pumpDue, jobs, cache,
                   request, prewarm>>

Finalize(j) ==
    /\ j \in finishing
    /\ finishing' = finishing \ {j}
    /\ Pump(pending, ahead, active \ {j}, [job EXCEPT ![j] = Unused], jobs, retired)
    /\ UNCHANGED <<revision, lease, retired, pumpDue, cache, request, prewarm>>

-----------------------------------------------------------------------------
(* Index revisions *)

\* The tables after retire() deleted the entries of the sessions of its queued
\* jobs, whichever job those entries name.
TablesRetired(r, queued) ==
    [jobs EXCEPT ![r] = [s \in Session |->
        IF \E j \in queued : job[j].session = s THEN NoJob ELSE @[s]]]

\* owner.retire(): the cache is dropped, every waiter settled, the queue
\* emptied and the active job aborted.  Its table entry stays until it settles.
RetireJobs(r) ==
    LET mine   == {j \in Job : Used(j) /\ job[j].rev = r}
        queued == mine \cap pending
        on     == mine \cap active
        left   == [j \in Job |->
                     IF j \in queued THEN Unused
                     ELSE IF j \in on
                          THEN [job[j] EXCEPT !.waiters = {}, !.prewarmer = FALSE,
                                              !.aborted = TRUE]
                          ELSE job[j]]
    IN  /\ retired' = retired \cup {r}
        /\ cache' = [cache EXCEPT ![r] = [s \in Session |-> "none"]]
        /\ request' = Settle(UNION {job[j].waiters : j \in queued \cup on}, "retired", r)
        /\ prewarm' = IF \E j \in queued \cup on : job[j].prewarmer
                      THEN [prewarm EXCEPT ![r] = "retired"] ELSE prewarm
        /\ Pump(pending \ queued, OrderWithout(queued), active, left,
                TablesRetired(r, queued), retired \cup {r})
        /\ UNCHANGED <<finishing, pumpDue>>

\* installIndexRevision
Install ==
    /\ revision < MaxRevision
    /\ revision' = revision + 1
    /\ lease' = revision + 1
    /\ IF lease = 0
       THEN UNCHANGED <<retired, schedulerVars, job, jobs, cache, request, prewarm>>
       ELSE RetireJobs(lease)

\* clearIndexRevision
Clear ==
    /\ lease # 0 /\ revision < MaxRevision
    /\ revision' = revision + 1
    /\ lease' = 0
    /\ RetireJobs(lease)

-----------------------------------------------------------------------------
(* Specification *)

\* initializeIndexRevisionState, without an initial index
Init ==
    /\ revision = 0
    /\ lease = 0
    /\ retired = {}
    /\ pending = {} /\ ahead = [j \in Job |-> {}]
    /\ active = {} /\ finishing = {} /\ pumpDue = FALSE
    /\ job = [j \in Job |-> Unused]
    /\ jobs = [r \in Revision |-> [s \in Session |-> NoJob]]
    /\ cache = [r \in Revision |-> [s \in Session |-> "none"]]
    /\ request = [w \in Request |-> Idle]
    /\ prewarm = [r \in Revision |-> "ready"]

Next ==
    \/ \E w \in Request, s \in Session :
          GetHit(w, s) \/ GetJoin(w, s) \/ GetBusy(w, s) \/ GetNew(w, s)
    \/ \E w \in Request : Abandon(w) \/ Respond(w)
    \/ \E s \in Session : Prewarm(s)
    \/ PumpTick
    \/ \E j \in Job :
          \/ CompleteForeground(j) \/ CompleteSpeculative(j) \/ RejectSpeculative(j)
          \/ Fail(j) \/ Discard(j) \/ Finalize(j)
    \/ Install
    \/ Clear

\* Microtasks run; a materializer reads finite files and settles.  Nothing
\* makes a client go away, a revision change, or a prewarm start.
Fairness ==
    /\ WF_vars(PumpTick)
    /\ \A j \in Job : WF_vars(Complete(j)) /\ WF_vars(Finalize(j))

Spec == Init /\ [][Next]_vars

FairSpec == Spec /\ Fairness

-----------------------------------------------------------------------------
(* Properties *)

\* A table entry names a job that will still settle: a request that joins it
\* never joins a job that was cancelled, aborted or completed, and no session
\* is both cached and being materialized, so no entry is admitted twice.  Of
\* the six places that delete an entry, four test that it still names their
\* job; retire() goes by the session alone, and so does the sixth, which a
\* prewarm that found the scheduler idle never reaches.
JobTableSound ==
    \A r \in Revision, s \in Session : jobs[r][s] # NoJob =>
        LET j == jobs[r][s] IN
        /\ j \in pending \cup (active \ finishing)
        /\ job[j].rev = r /\ job[j].session = s
        /\ r \notin retired => /\ ~job[j].aborted
                               /\ ~Unobserved(job[j])
                               /\ cache[r][s] = "none"

\* A request that waits is waited for: exactly one job holds it as a waiter,
\* and that job is its session's entry in the table of its live revision.
NoOrphanWaiter ==
    \A w \in Request : request[w].phase = "waiting" =>
        LET r == request[w].rev
            s == request[w].session
        IN  /\ r = lease /\ r \notin retired
            /\ {j \in Job : Used(j) /\ w \in job[j].waiters} = {jobs[r][s]}

\* Speculation never delays the reader: a speculative job that has not been
\* aborted is the only work the scheduler has, in any revision.
SpeculationYields ==
    \A j \in pending \cup active :
        job[j].speculative /\ ~job[j].aborted /\ j \notin finishing
            => pending \cup active = {j}

\* No pump() is missing: with jobs queued, one is running or a pump is due.
NoStall == pending # {} => active # {} \/ pumpDue

\* One materialization at a time, over all revisions, and at most
\* MAX_QUEUED_MATERIALIZATIONS queued behind it, although the limit is tested
\* per owner and per request.
CapacityBounded ==
    /\ \A j, k \in active : j = k
    /\ Cardinality(pending) <= MaxQueued

\* A retired revision keeps nothing but the job that is still running: a late
\* result is not cached for it, it has no waiters and nothing queued.
RetiredOwnerDrained ==
    /\ \A r \in retired, s \in Session : cache[r][s] = "none"
    /\ \A j \in Job : Used(j) /\ job[j].rev \in retired =>
         j \in active /\ job[j].aborted /\ Unobserved(job[j])

\* The prewarm loop never hangs on a call of prewarm().
PrewarmSettles ==
    \A r \in Revision : prewarm[r] = "waiting" ~> prewarm[r] # "waiting"

=============================================================================
