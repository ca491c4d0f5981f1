---------------------------- MODULE ProjectIndex ----------------------------
(***************************************************************************)
(* The project index of the server (src/server.js): the transcript source  *)
(* it is built from, the jobs that build it, the revision that is live     *)
(* (src/src/index-revision-lease.js), the on-disk query store every build  *)
(* may leave behind (src/src/project-query-disk.js), the searches that     *)
(* read the store of the live revision, and the discovery of projects.     *)
(*                                                                         *)
(* A step is one turn of the event loop.  An index is named by the job     *)
(* that built it and so is a store: a build spills to disk at most once.   *)
(* What materializing the sessions of a revision adds to its lease is in   *)
(* module Materialization.                                                 *)
(***************************************************************************)
EXTENDS Integers, FiniteSets

CONSTANTS
    Source,              \* source kind and home, the identity of a source
    NoSource,
    Search,              \* project searches a client may have open
    Discovery,           \* requests for the list of projects
    MaxJob,              \* bound on the project jobs
    MaxSourceRevision    \* bound on the changes of the configuration

ASSUME ProjectAssumption ==
    /\ NoSource \notin Source
    /\ MaxJob \in Nat /\ MaxSourceRevision \in Nat

VARIABLES
    source,           \* state.sourceKind and its home
    sourceRevision,   \* state.sourceRevision
    started,          \* state.nextProjectJobId - 1
    activeJob,        \* state.activeProjectJob, 0 when it is null
    job,              \* the project jobs
    store,            \* the query store each build opened on disk
    index,            \* state.index, 0 when it is null
    indexRevision,    \* state.indexRevision
    projectCache,     \* the source state.projectCache was scanned from
    search,           \* the project searches
    discovery,        \* the requests of /api/projects
    closed            \* the HTTP server has closed

sourceVars == <<source, sourceRevision>>
indexVars == <<index, indexRevision>>
vars == <<sourceVars, started, activeJob, job, store, indexVars, projectCache,
          search, discovery, closed>>

-----------------------------------------------------------------------------
(* Types *)

Job == 1..MaxJob
Revision == 0..(MaxJob + MaxSourceRevision + 1)

JobRecord ==
    [status: {"running", "succeeded", "failed", "cancelled"},
     aborted: BOOLEAN,        \* controller.signal.aborted
     phase: {"queued", "building", "built", "validating", "rejected",
             "settled", "done"},
     source: Source,
     previous: 0..MaxJob,     \* previousIndex, once buildIndex is called
     result: 0..MaxJob]       \* the store of the index it built, 0 in memory

Unstarted == [status |-> "none", phase |-> "none"]

SearchRecord ==
    [phase: {"reading", "returned", "threw"}, revision: Revision,
     store: 0..MaxJob, tainted: BOOLEAN]   \* it read a store that was closed
    \cup [phase: {"answered"}, outcome: {"value", "retired", "failed"},
          tainted: BOOLEAN]

DiscoveryRecord ==
    [phase: {"configured", "scanning"}, revision: 0..MaxSourceRevision, source: Source]

Idle == [phase |-> "idle"]

TypeOK ==
    /\ source \in Source
    /\ sourceRevision \in 0..MaxSourceRevision
    /\ started \in 0..MaxJob
    /\ activeJob \in 0..started
    /\ job \in [Job -> JobRecord \cup {Unstarted}]
    /\ store \in [Job -> {"none", "writing", "finished", "closed"}]
    /\ index \in 0..started
    /\ indexRevision \in Revision
    /\ projectCache \in Source \cup {NoSource}
    /\ search \in [Search -> SearchRecord \cup {Idle}]
    /\ discovery \in [Discovery -> DiscoveryRecord \cup {Idle}]
    /\ closed \in BOOLEAN

-----------------------------------------------------------------------------
(* Cancelling a job, installing and clearing a revision *)

\* Faulty variant of the definition that follows: the status a job never has.
CancellableWhenQueued == activeJob # 0 /\ job[activeJob].status = "queued"

\* job.status is 'running' (a job is never 'queued').
Cancellable == activeJob # 0 /\ job[activeJob].status = "running"

\* cancelProjectJob(state.activeProjectJob)
JobsAfterCancel ==
    IF Cancellable
    THEN [job EXCEPT ![activeJob].status = "cancelled", ![activeJob].aborted = TRUE]
    ELSE job

\* The builder's abort listener closes a store that is not finished.
StoresAfterCancel ==
    IF Cancellable /\ store[activeJob] = "writing"
    THEN [store EXCEPT ![activeJob] = "closed"] ELSE store

\* The store of the live index, 0 when it has none on disk.
LiveStore == IF index = 0 THEN 0 ELSE job[index].result

\* disposeProjectQueryStore, of the stores S.
Disposed(S, id) == [i \in Job |-> IF i = id THEN "closed" ELSE S[i]]

\* Faulty variant: the store of the revision is left open.
ClearWithoutDisposal(S) ==
    /\ store' = S
    /\ index' = 0
    /\ indexRevision' = IF index = 0 THEN indexRevision ELSE indexRevision + 1

\* clearIndexRevision, when the stores are S.
ClearRevision(S) ==
    /\ store' = Disposed(S, LiveStore)
    /\ index' = 0
    /\ indexRevision' = IF index = 0 THEN indexRevision ELSE indexRevision + 1

\* Faulty variant: the store of the previous revision is always closed.
InstallAndDispose(j) ==
    /\ store' = Disposed(store, LiveStore)
    /\ index' = j
    /\ indexRevision' = indexRevision + 1

\* installIndexRevision(state, index) of the job j.
InstallRevision(j) ==
    /\ store' = IF LiveStore # job[j].result THEN Disposed(store, LiveStore) ELSE store
    /\ index' = j
    /\ indexRevision' = indexRevision + 1

-----------------------------------------------------------------------------
(* Requests that change the source or the jobs *)

\* resolveSourceMutation, when the active source changes.
ChangeSource(s) ==
    /\ ~closed /\ s # source /\ sourceRevision < MaxSourceRevision
    /\ source' = s
    /\ sourceRevision' = sourceRevision + 1
    /\ job' = JobsAfterCancel
    /\ ClearRevision(StoresAfterCancel)
    /\ projectCache' = NoSource
    /\ UNCHANGED <<started, activeJob, search, discovery, closed>>

\* resolveSourceMutation, when only the home of another kind of source does.
ChangeOtherHome ==
    /\ ~closed /\ sourceRevision < MaxSourceRevision
    /\ sourceRevision' = sourceRevision + 1
    /\ UNCHANGED <<source, started, activeJob, job, store, indexVars, projectCache,
                   search, discovery, closed>>

\* startProjectJob
StartProjectJob ==
    /\ ~closed /\ started < MaxJob
    /\ started' = started + 1
    /\ activeJob' = started + 1
    /\ job' = [JobsAfterCancel EXCEPT ![started + 1] =
          [status |-> "running", aborted |-> FALSE, phase |-> "queued",
           source |-> source, previous |-> 0, result |-> 0]]
    /\ store' = StoresAfterCancel
    /\ UNCHANGED <<sourceVars, indexVars, projectCache, search, discovery, closed>>

\* DELETE /api/project/status
CancelProjectJob ==
    /\ ~closed /\ Cancellable
    /\ job' = JobsAfterCancel
    /\ store' = StoresAfterCancel
    /\ UNCHANGED <<sourceVars, started, activeJob, indexVars, projectCache, search,
                   discovery, closed>>

\* server.on('close')
Close ==
    /\ ~closed
    /\ closed' = TRUE
    /\ job' = JobsAfterCancel
    /\ ClearRevision(StoresAfterCancel)
    /\ UNCHANGED <<sourceVars, started, activeJob, projectCache, search, discovery>>

-----------------------------------------------------------------------------
(* The promise of a job: buildIndex, then the handlers startProjectJob     *)
(* chained to it, inside withQueryStoreBuildScope.                         *)

jobStepVars == <<sourceVars, started, activeJob, projectCache, search, discovery, closed>>

\* The microtask that calls buildIndex, with state.index as it is by then.
CallBuild(j) ==
    /\ job[j].phase = "queued"
    /\ job' = [job EXCEPT ![j].phase = "building", ![j].previous = index]
    /\ UNCHANGED <<jobStepVars, store, indexVars>>

\* createDiskBuilder, when the rows outgrow the memory.  prepare() has just
\* found the signal not aborted.
OpenStore(j) ==
    /\ job[j].phase = "building" /\ store[j] = "none" /\ ~job[j].aborted
    /\ store' = [store EXCEPT ![j] = "writing"]
    /\ UNCHANGED <<jobStepVars, job, indexVars>>

\* finish(): the store outlives an abort from here on.
FinishStore(j) ==
    /\ job[j].phase = "building" /\ store[j] = "writing"
    /\ store' = [store EXCEPT ![j] = "finished"]
    /\ UNCHANGED <<jobStepVars, job, indexVars>>

\* An adapter may find the previous index, or its store, unchanged.
ReusablePrevious(j) ==
    LET p == job[j].previous IN
    IF p # 0 /\ job[p].source = job[j].source THEN {job[p].result} ELSE {}

BuildReturns(j) ==
    /\ job[j].phase = "building" /\ store[j] \in {"none", "finished"}
    /\ \E r \in ReusablePrevious(j) \cup {IF store[j] = "none" THEN 0 ELSE j} :
          job' = [job EXCEPT ![j].phase = "built", ![j].result = r]
    /\ UNCHANGED <<jobStepVars, store, indexVars>>

\* An error of the builder closes its store; any other error does not.
BuildThrows(j) ==
    /\ job[j].phase = "building"
    /\ job' = [job EXCEPT ![j].phase = "rejected"]
    /\ \/ store' = store
       \/ store[j] = "writing" /\ store' = [store EXCEPT ![j] = "closed"]
    /\ UNCHANGED <<jobStepVars, indexVars>>

\* The handler of the built index: a job cancelled meanwhile ends here.
StartValidation(j) ==
    /\ job[j].phase = "built"
    /\ job' = IF job[j].aborted
              THEN [job EXCEPT ![j].phase = "settled", ![j].status = "cancelled"]
              ELSE [job EXCEPT ![j].phase = "validating"]
    /\ UNCHANGED <<jobStepVars, store, indexVars>>

\* validateIndexOwnershipForCommit throws: the index is unsound, or the signal
\* was aborted.
ValidationThrows(j) ==
    /\ job[j].phase = "validating"
    /\ job' = [job EXCEPT ![j].phase = "rejected"]
    /\ UNCHANGED <<jobStepVars, store, indexVars>>

\* Faulty variant: the signal is not asked once more.
CommitAnyway(j) ==
    /\ job[j].phase = "validating"
    /\ job' = [job EXCEPT ![j].phase = "settled", ![j].status = "succeeded"]
    /\ InstallRevision(j)
    /\ UNCHANGED jobStepVars

\* It returns: the signal is asked once more, and the index is installed.
Commit(j) ==
    /\ job[j].phase = "validating" /\ ~job[j].aborted
    /\ job' = [job EXCEPT ![j].phase = "settled", ![j].status = "succeeded"]
    /\ InstallRevision(j)
    /\ UNCHANGED jobStepVars

CommitCancelled(j) ==
    /\ job[j].phase = "validating" /\ job[j].aborted
    /\ job' = [job EXCEPT ![j].phase = "settled", ![j].status = "cancelled"]
    /\ UNCHANGED <<jobStepVars, store, indexVars>>

\* Faulty variant: a build that throws has failed.
CatchAsFailure(j) ==
    /\ job[j].phase = "rejected"
    /\ job' = [job EXCEPT ![j].phase = "settled", ![j].status = "failed"]
    /\ UNCHANGED <<jobStepVars, store, indexVars>>

\* The catch handler.  The error may be an AbortError nobody's cancellation
\* explains; the job counts as cancelled then, too.
Catch(j) ==
    /\ job[j].phase = "rejected"
    /\ \E abortError \in BOOLEAN :
          job' = [job EXCEPT ![j].phase = "settled",
                     ![j].status = IF job[j].aborted \/ @ = "cancelled" \/ abortError
                                   THEN "cancelled" ELSE "failed"]
    /\ UNCHANGED <<jobStepVars, store, indexVars>>

\* The result of the operation is an index whose store is the job's own.
Committed(j) == job[j].status = "succeeded" /\ job[j].result = j

\* Faulty variant: nothing is disposed of once the build has succeeded.
LeaveScopeAfterSuccess(j) ==
    /\ job[j].phase = "settled"
    /\ job' = [job EXCEPT ![j].phase = "done"]
    /\ store' = IF store[j] = "none" \/ job[j].status = "succeeded"
                THEN store ELSE Disposed(store, j)
    /\ UNCHANGED <<jobStepVars, indexVars>>

\* The observer has been told; the scope disposes of what the build opened,
\* unless it is the store of the index that was committed.
LeaveScope(j) ==
    /\ job[j].phase = "settled"
    /\ job' = [job EXCEPT ![j].phase = "done"]
    /\ store' = IF store[j] = "none" \/ Committed(j)
                THEN store ELSE Disposed(store, j)
    /\ UNCHANGED <<jobStepVars, indexVars>>

JobStep(j) ==
    \/ CallBuild(j) \/ OpenStore(j) \/ FinishStore(j) \/ BuildReturns(j) \/ BuildThrows(j)
    \/ StartValidation(j) \/ ValidationThrows(j) \/ Commit(j) \/ CommitCancelled(j)
    \/ Catch(j) \/ LeaveScope(j)

-----------------------------------------------------------------------------
(* A search of the live index, under withIndexRevisionLease *)

searchStepVars == <<sourceVars, started, activeJob, job, store, indexVars, projectCache,
                    discovery, closed>>

\* Faulty variant: any live revision will do.
SomeLease(q) == index # 0

CurrentLease(q) == index # 0 /\ search[q].revision = indexRevision

OpenSearch(q) ==
    /\ ~closed /\ index # 0 /\ search[q].phase \in {"idle", "answered"}
    /\ search' = [search EXCEPT ![q] =
          [phase |-> "reading", revision |-> indexRevision, store |-> LiveStore,
           tainted |-> FALSE]]
    /\ UNCHANGED searchStepVars

\* A page or a text is read in a turn that did not ask the signal first, after
\* the store was closed: the read throws, or its descriptor is another file's.
ReadClosedStore(q) ==
    /\ search[q].phase = "reading"
    /\ search[q].store # 0 /\ store[search[q].store] = "closed"
    /\ \E phase \in {"reading", "threw"} :
          search' = [search EXCEPT ![q].phase = phase, ![q].tainted = TRUE]
    /\ UNCHANGED searchStepVars

\* The scan ends, finds its signal aborted, or finds a page damaged.
ScanEnds(q) ==
    /\ search[q].phase = "reading"
    /\ \E phase \in {"returned", "threw"} : search' = [search EXCEPT ![q].phase = phase]
    /\ UNCHANGED searchStepVars

\* assertIndexRevisionCurrent, and the same test in the catch block.
AnswerSearch(q) ==
    /\ search[q].phase \in {"returned", "threw"}
    /\ search' = [search EXCEPT ![q] =
          [phase |-> "answered", tainted |-> search[q].tainted,
           outcome |-> IF ~CurrentLease(q) THEN "retired"
                       ELSE IF search[q].phase = "returned" THEN "value" ELSE "failed"]]
    /\ UNCHANGED searchStepVars

-----------------------------------------------------------------------------
(* discoverProjectsForSource *)

discoveryStepVars == <<sourceVars, started, activeJob, job, store, indexVars, search, closed>>

Discover(d) ==
    /\ ~closed /\ discovery[d] = Idle
    /\ discovery' = [discovery EXCEPT ![d] =
          [phase |-> "configured", revision |-> sourceRevision, source |-> source]]
    /\ UNCHANGED <<discoveryStepVars, projectCache>>

\* discoverConfiguredProjects settles: with an error, a stale answer or the
\* summary, which end the request, or a scan follows.
ConfiguredProjects(d) ==
    /\ discovery[d].phase = "configured"
    /\ \/ discovery' = [discovery EXCEPT ![d] = Idle]
       \/ /\ discovery[d].revision = sourceRevision
          /\ discovery' = [discovery EXCEPT ![d].phase = "scanning"]
    /\ UNCHANGED <<discoveryStepVars, projectCache>>

\* Faulty variant: the revision is not compared again after the scan.
ScannedProjectsStale(d) ==
    /\ discovery[d].phase = "scanning"
    /\ projectCache' = discovery[d].source
    /\ discovery' = [discovery EXCEPT ![d] = Idle]
    /\ UNCHANGED discoveryStepVars

\* discoverProjects settles: with an error or for a source that has changed,
\* and what was cached stays, or with the projects of the source.
ScannedProjects(d) ==
    /\ discovery[d].phase = "scanning"
    /\ \/ UNCHANGED projectCache
       \/ /\ discovery[d].revision = sourceRevision
          /\ projectCache' = discovery[d].source
    /\ discovery' = [discovery EXCEPT ![d] = Idle]
    /\ UNCHANGED discoveryStepVars

-----------------------------------------------------------------------------
(* Specification *)

\* createServer, as main() calls it.
Init ==
    /\ source \in Source
    /\ sourceRevision = 0
    /\ started = 0 /\ activeJob = 0
    /\ job = [j \in Job |-> Unstarted]
    /\ store = [j \in Job |-> "none"]
    /\ index = 0 /\ indexRevision = 0
    /\ projectCache = NoSource
    /\ search = [q \in Search |-> Idle]
    /\ discovery = [d \in Discovery |-> Idle]
    /\ closed = FALSE

Next ==
    \/ \E s \in Source : ChangeSource(s)
    \/ ChangeOtherHome \/ StartProjectJob \/ CancelProjectJob \/ Close
    \/ \E j \in Job :
          \/ CallBuild(j) \/ OpenStore(j) \/ FinishStore(j)
          \/ BuildReturns(j) \/ BuildThrows(j)
          \/ StartValidation(j) \/ ValidationThrows(j) \/ Commit(j) \/ CommitCancelled(j)
          \/ Catch(j) \/ LeaveScope(j)
    \/ \E q \in Search :
          OpenSearch(q) \/ ReadClosedStore(q) \/ ScanEnds(q) \/ AnswerSearch(q)
    \/ \E d \in Discovery : Discover(d) \/ ConfiguredProjects(d) \/ ScannedProjects(d)

Spec == Init /\ [][Next]_vars

\* A build reads finitely many files and settles, microtasks run, and the
\* observer of settled jobs (it writes a line to the console) returns.
FairSpec == Spec /\ \A j \in Job : WF_vars(JobStep(j))

-----------------------------------------------------------------------------
(* Properties *)

\* The store of the live index is open: no scope, cancellation or replacement
\* disposes of a store that a committed index reads, not even of one that the
\* index shares with the index it replaced.
LiveStoreOpen == LiveStore # 0 => store[LiveStore] = "finished"

\* A store on disk that is still open is the live one, or the scope of the
\* build that opened it will still see to it.
NoStoreLeaks ==
    \A j \in Job : store[j] \in {"writing", "finished"} =>
        j = LiveStore \/ job[j].phase # "done"

\* However long builds take and however they overlap, at most one of the jobs
\* can still commit, and it is the one the client can see and cancel.
OneJobMayCommit ==
    \A j \in Job : job[j].status = "running" => j = activeJob /\ ~job[j].aborted

\* The live index and the cached list of projects belong to the source that is
\* selected, though both come from work that was started before.
SourceConsistent ==
    /\ index # 0 => job[index].source = source
    /\ projectCache \in {source, NoSource}

\* /api/project/status pairs a job that succeeded with state.index: that is
\* the index the job built.
StatusPairsOwnIndex ==
    activeJob # 0 /\ job[activeJob].status = "succeeded" /\ index # 0 => index = activeJob

\* A job the client has seen end does not end otherwise later on.
StatusIsFinal ==
    [][\A j \in Job : job[j].status \in {"succeeded", "failed", "cancelled"} =>
          job'[j].status = job[j].status]_vars

\* A search that read from a store after it was closed answers with neither
\* what it read nor the error it met, but that its revision was retired.
ClosedStoreNotPublished ==
    \A q \in Search : search[q].phase = "answered" /\ search[q].tainted =>
        search[q].outcome = "retired"

\* Every store a build opened is in use or closed in the end.
StoresReleased ==
    \A j \in Job : store[j] \in {"writing", "finished"} ~>
        (store[j] = "closed" \/ LiveStore = j)

=============================================================================
