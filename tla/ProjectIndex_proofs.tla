------------------------- MODULE ProjectIndex_proofs -------------------------
(***************************************************************************)
(* Proofs about ProjectIndex, for any sources, searches, discoveries and   *)
(* number of jobs and of changes of the configuration.                     *)
(*                                                                         *)
(* What holds the invariants together is that the only job that may still  *)
(* commit saw the index that is live: whatever takes that index away       *)
(* cancels the job as well.                                                *)
(***************************************************************************)
EXTENDS ProjectIndex, TLAPS

-----------------------------------------------------------------------------
(* The parts of the inductive invariant *)

Over == {"settled", "done"}

\* The jobs are those started, and the one the client sees is the newest.
Numbered ==
    /\ activeJob = started
    /\ \A j \in Job : job[j] # Unstarted <=> j <= started
    /\ \A j \in 1..started : job[j].previous <= started

\* A job runs until it is cancelled or settles; only the newest one does.
Running ==
    \A j \in 1..started :
        /\ job[j].status = "running" <=> ~job[j].aborted /\ job[j].phase \notin Over
        /\ job[j].status = "running" =>
              j = activeJob /\ ~closed /\ job[j].source = source
        /\ job[j].aborted => job[j].status = "cancelled"

\* A job opens its store when it is built, and a cancelled job writes to none.
Spilled ==
    \A j \in Job : store[j] # "none" =>
        /\ j <= started
        /\ job[j].phase # "queued"
        /\ store[j] = "writing" =>
              ~job[j].aborted /\ job[j].phase \in {"building", "rejected"} \cup Over

\* The live index was committed, for the source that is selected.  Its store
\* is open and the one of a job that committed it, be it another job.
Live ==
    /\ index # 0 => job[index].status = "succeeded" /\ job[index].source = source
    /\ LiveStore # 0 => store[LiveStore] = "finished" /\ Committed(LiveStore)

\* The job that runs saw the live index, and its result is an index in memory,
\* its own store, or the store of the live index.
Reusing ==
    \A j \in 1..started : job[j].status = "running" =>
        /\ job[j].phase # "queued" => job[j].previous = index
        /\ job[j].phase \in {"built", "validating"} =>
              \/ job[j].result = 0 /\ store[j] = "none"
              \/ job[j].result = j /\ store[j] = "finished"
              \/ job[j].result = LiveStore

\* A store that is open is the live one or belongs to a job that is not done.
Held ==
    \A j \in Job : store[j] \in {"writing", "finished"} =>
        \/ j = LiveStore
        \/ job[j].phase # "done" /\ ~Committed(j)

\* Revisions are counted by the commits, the changes of the source and Close.
Counted ==
    indexRevision <=
        sourceRevision + (IF closed THEN 1 ELSE 0)
        + (IF activeJob = 0 \/ job[activeJob].status = "succeeded"
           THEN activeJob ELSE activeJob - 1)

\* A search of the live revision reads the live store, and has read no other.
\* Once its revision is retired it never is the live one again.
Searching ==
    \A q \in Search :
        /\ search[q].phase \in {"reading", "returned", "threw"} =>
              /\ search[q].revision <= indexRevision
              /\ search[q].revision = indexRevision =>
                    index # 0 /\ search[q].store = LiveStore /\ ~search[q].tainted
        /\ search[q].phase = "answered" /\ search[q].tainted =>
              search[q].outcome = "retired"

\* Only a discovery for the selected source is current.
Discovering ==
    /\ projectCache \in {source, NoSource}
    /\ \A d \in Discovery : discovery[d] # Idle =>
          /\ discovery[d].revision <= sourceRevision
          /\ discovery[d].revision = sourceRevision => discovery[d].source = source

IInv ==
    /\ TypeOK /\ Numbered /\ Running /\ Spilled /\ Live /\ Reusing /\ Held
    /\ StatusPairsOwnIndex /\ Counted /\ Searching /\ Discovering

-----------------------------------------------------------------------------
(* Facts about one state *)

\* The index of a state is that of a job, and so is its store.
LEMMA StateFacts ==
    ASSUME IInv
    PROVE  /\ \A j \in 1..started : j \in Job /\ job[j] \in JobRecord
           /\ \A j \in Job : job[j].phase # "none" => j \in 1..started
           /\ \A j \in Job : job[j].status # "none" => j \in 1..started
           /\ LiveStore \in 0..MaxJob
           /\ \A j \in 1..started : job[j].phase \notin Over => j # index /\ j # LiveStore
           /\ index # 0 => index \in 1..started
           /\ LiveStore # 0 => LiveStore \in 1..started
<1> USE DEF IInv, TypeOK, Numbered, Running, Live
<1>1. /\ started \in Nat /\ started <= MaxJob /\ MaxJob \in Nat
      /\ index \in Nat /\ index <= started
  BY ProjectAssumption
<1>2. ASSUME NEW j \in 1..started
      PROVE  j \in Job /\ job[j] \in JobRecord
  BY <1>1 DEF Job
<1>3. ASSUME NEW j \in Job, job[j] # Unstarted
      PROVE  j \in 1..started
  BY <1>1, <1>3 DEF Job
<1>4. Unstarted.phase = "none" /\ Unstarted.status = "none"
  BY DEF Unstarted
<1>5. index # 0 => index \in 1..started
  BY <1>1
<1>6. LiveStore \in 0..MaxJob
  BY <1>1, <1>2, <1>5 DEF LiveStore, JobRecord
<1>7. LiveStore # 0 => LiveStore \in 1..started
  BY <1>1, <1>3, <1>4, <1>6 DEF Job, Committed
<1>8. \A j \in 1..started : job[j].status = "succeeded" => job[j].phase \in Over
  BY <1>2 DEF JobRecord
<1> QED
  BY <1>2, <1>3, <1>4, <1>5, <1>6, <1>7, <1>8 DEF Committed

\* A search that has not been answered knows the revision and the store it reads.
LEMMA SearchFacts ==
    ASSUME TypeOK, NEW q \in Search, search[q].phase \in {"reading", "returned", "threw"}
    PROVE  /\ search[q].revision \in Nat /\ search[q].revision \in Revision
           /\ search[q].store \in 0..MaxJob /\ search[q].tainted \in BOOLEAN
<1>1. search[q] \in SearchRecord \cup {Idle} /\ search[q] # Idle
  BY DEF TypeOK, Idle
<1> QED
  BY <1>1, ProjectAssumption DEF SearchRecord, Revision

-----------------------------------------------------------------------------
(* The steps of a job *)

\* What a job that has not settled, and its store, may become next.
Sensible(j, rec, open) ==
    /\ rec.aborted = job[j].aborted /\ rec.source = job[j].source
    /\ rec.previous <= started
    /\ rec.status = "running" <=> ~rec.aborted /\ rec.phase \notin Over
    /\ rec.aborted => rec.status = "cancelled"
    /\ rec.status # "succeeded" /\ rec.phase \notin {"queued", "done"}
    /\ open = "writing" => ~rec.aborted /\ rec.phase \in {"building", "rejected"} \cup Over
    /\ rec.status = "running" =>
          /\ rec.previous = index
          /\ rec.phase \in {"built", "validating"} =>
                \/ rec.result = 0 /\ open = "none"
                \/ rec.result = j /\ open = "finished"
                \/ rec.result = LiveStore

\* A job that has not settled moves on to the record rec, its store to open.
LEMMA JobMoves ==
    ASSUME IInv,
           NEW j \in Job, job[j].phase \notin Over \cup {"none"},
           NEW rec \in JobRecord, NEW open \in {"none", "writing", "finished", "closed"},
           job' = [job EXCEPT ![j] = rec],
           store' = [store EXCEPT ![j] = open],
           UNCHANGED <<jobStepVars, indexVars>>,
           Sensible(j, rec, open)
    PROVE  IInv'
<1> USE DEF jobStepVars, sourceVars, indexVars, Sensible
<1>1. /\ j \in 1..started /\ j # index /\ j # LiveStore
      /\ job[j] \in JobRecord /\ job[j].status # "succeeded"
  <2>1. j \in 1..started
    BY StateFacts
  <2>2. job[j] \in JobRecord /\ j # index /\ j # LiveStore
    BY <2>1, StateFacts
  <2> QED
    BY <2>1, <2>2 DEF IInv, Running
<1>2. /\ job'[j] = rec /\ store'[j] = open
      /\ \A i \in Job \ {j} : job'[i] = job[i] /\ store'[i] = store[i]
  BY DEF IInv, TypeOK
<1>3. LiveStore' = LiveStore
  BY <1>1, <1>2, StateFacts DEF LiveStore
<1>4. TypeOK'
  BY DEF IInv, TypeOK
<1>5. rec # Unstarted /\ job[j] # Unstarted
  BY <1>1 DEF JobRecord, Unstarted
<1>6. Numbered'
  BY <1>1, <1>2, <1>5, StateFacts DEF IInv, Numbered
<1>7. Running'
  BY <1>1, <1>2, StateFacts DEF IInv, Running
<1>8. Spilled'
  BY <1>1, <1>2 DEF IInv, Spilled
<1>9. Live'
  BY <1>1, <1>2, <1>3, StateFacts DEF IInv, Live, Committed
<1>10. Reusing'
  BY <1>1, <1>2, <1>3, StateFacts DEF IInv, Reusing
<1>11. Held'
  BY <1>1, <1>2, <1>3 DEF IInv, Held, Committed
<1>12. Counted'
  BY <1>1, <1>2, StateFacts DEF IInv, Counted, Numbered, Running
<1>13. Searching'
  BY <1>3 DEF IInv, Searching
<1>14. Discovering'
  BY DEF IInv, Discovering
<1>15. StatusPairsOwnIndex'
  BY <1>1, <1>2, StateFacts DEF IInv, StatusPairsOwnIndex, Numbered
<1> QED
  BY <1>4, <1>6, <1>7, <1>8, <1>9, <1>10, <1>11, <1>12, <1>13, <1>14, <1>15 DEF IInv

\* Every step of a job up to the one that settles it without committing.
LEMMA BuildSteps ==
    ASSUME IInv, NEW j \in Job,
           \/ CallBuild(j) \/ OpenStore(j) \/ FinishStore(j) \/ BuildReturns(j)
           \/ BuildThrows(j) \/ StartValidation(j) \/ ValidationThrows(j)
           \/ CommitCancelled(j) \/ Catch(j)
    PROVE  IInv'
<1> DEFINE early == {"queued", "building", "built", "validating", "rejected"}
<1>1. job[j].phase \in early
  BY DEF CallBuild, OpenStore, FinishStore, BuildReturns, BuildThrows, StartValidation,
         ValidationThrows, CommitCancelled, Catch
<1>2. /\ job[j].phase \notin Over \cup {"none"}
      /\ j \in 1..started /\ job[j] \in JobRecord /\ job[j].status # "succeeded"
  <2>1. job[j].phase \notin Over \cup {"none"}
    BY <1>1 DEF Over
  <2>2. j \in 1..started /\ job[j] \in JobRecord
    BY <2>1, StateFacts
  <2> QED
    BY <2>1, <2>2 DEF IInv, Running
<1>3. /\ job[j].status = "running" <=> ~job[j].aborted
      /\ job[j].aborted => job[j].status = "cancelled"
      /\ store[j] = "writing" => ~job[j].aborted /\ job[j].phase \in {"building", "rejected"}
      /\ job[j].phase = "queued" => store[j] = "none"
      /\ job[j].previous <= started /\ index <= started
      /\ store[j] \in {"none", "writing", "finished", "closed"}
      /\ index \in 0..MaxJob
  BY <1>1, <1>2, ProjectAssumption DEF IInv, TypeOK, Numbered, Running, Spilled, Over, Job
<1>4. /\ job = [job EXCEPT ![j] = job[j]]
      /\ store = [store EXCEPT ![j] = store[j]]
  BY DEF IInv, TypeOK
<1>5. CASE CallBuild(j)
  <2> DEFINE rec == [job[j] EXCEPT !.phase = "building", !.previous = index]
  <2>1. rec \in JobRecord /\ job' = [job EXCEPT ![j] = rec]
    BY <1>2, <1>3, <1>5 DEF CallBuild, JobRecord
  <2>2. store' = [store EXCEPT ![j] = store[j]] /\ UNCHANGED <<jobStepVars, indexVars>>
    BY <1>4, <1>5 DEF CallBuild
  <2>3. Sensible(j, rec, store[j])
    BY <1>2, <1>3, <1>5 DEF CallBuild, JobRecord, Over, Sensible
  <2> HIDE DEF rec
  <2> QED
    BY <1>2, <1>3, <2>1, <2>2, <2>3, JobMoves
<1>6. /\ job[j].status = "running" /\ job[j].phase # "queued" => job[j].previous = index
      /\ job[j].status = "running" /\ job[j].phase \in {"built", "validating"} =>
            \/ job[j].result = 0 /\ store[j] = "none"
            \/ job[j].result = j /\ store[j] = "finished"
            \/ job[j].result = LiveStore
  BY <1>2 DEF IInv, Reusing
<1>7. CASE OpenStore(j)
  <2>1. job' = [job EXCEPT ![j] = job[j]] /\ store' = [store EXCEPT ![j] = "writing"]
        /\ UNCHANGED <<jobStepVars, indexVars>>
    BY <1>4, <1>7 DEF OpenStore
  <2>2. Sensible(j, job[j], "writing")
    BY <1>2, <1>3, <1>6, <1>7 DEF OpenStore, Over, Sensible
  <2> QED
    BY <1>2, <2>1, <2>2, JobMoves
<1>8. CASE FinishStore(j)
  <2>1. job' = [job EXCEPT ![j] = job[j]] /\ store' = [store EXCEPT ![j] = "finished"]
        /\ UNCHANGED <<jobStepVars, indexVars>>
    BY <1>4, <1>8 DEF FinishStore
  <2>2. Sensible(j, job[j], "finished")
    BY <1>2, <1>3, <1>6, <1>8 DEF FinishStore, Over, Sensible
  <2> QED
    BY <1>2, <2>1, <2>2, JobMoves
<1>9. CASE BuildReturns(j)
  <2>1. PICK r \in ReusablePrevious(j) \cup {IF store[j] = "none" THEN 0 ELSE j} :
            job' = [job EXCEPT ![j].phase = "built", ![j].result = r]
    BY <1>9 DEF BuildReturns
  <2> DEFINE rec == [job[j] EXCEPT !.phase = "built", !.result = r]
  <2>2. r \in 0..MaxJob /\ job[j].previous \in 0..started
    <3>1. job[j].previous \in 0..started
      BY <1>2, <1>3 DEF JobRecord
    <3>2. job[j].previous # 0 =>
              job[job[j].previous] \in JobRecord /\ job[job[j].previous].result \in 0..MaxJob
      BY <3>1, StateFacts DEF JobRecord
    <3> QED
      BY <2>1, <3>1, <3>2, ProjectAssumption DEF ReusablePrevious, Job
  <2>3. rec \in JobRecord /\ job' = [job EXCEPT ![j] = rec]
    BY <1>2, <2>1, <2>2 DEF JobRecord
  <2>4. job[j].status = "running" =>
            \/ r = LiveStore
            \/ r = 0 /\ store[j] = "none"
            \/ r = j /\ store[j] = "finished"
    <3>1. job[j].phase = "building" /\ store[j] \in {"none", "finished"}
      BY <1>9 DEF BuildReturns
    <3>2. job[j].status = "running" => job[j].previous = index
      BY <1>6, <3>1
    <3>3. job[j].previous = index => ReusablePrevious(j) \subseteq {LiveStore}
      BY DEF ReusablePrevious, LiveStore
    <3>4. \/ r \in ReusablePrevious(j)
          \/ store[j] = "none" /\ r = 0
          \/ store[j] # "none" /\ r = j
      BY <2>1
    <3> QED
      BY <3>1, <3>2, <3>3, <3>4
  <2>5. store' = [store EXCEPT ![j] = store[j]] /\ UNCHANGED <<jobStepVars, indexVars>>
    BY <1>4, <1>9 DEF BuildReturns
  <2>6. Sensible(j, rec, store[j])
    <3>1. job[j].phase = "building" /\ store[j] # "writing"
      BY <1>9 DEF BuildReturns
    <3> QED
      BY <1>2, <1>3, <1>6, <2>2, <2>4, <3>1 DEF JobRecord, Over, Sensible
  <2> HIDE DEF rec
  <2> QED
    BY <1>2, <1>3, <2>3, <2>5, <2>6, JobMoves
<1>10. CASE BuildThrows(j)
  <2> DEFINE rec == [job[j] EXCEPT !.phase = "rejected"]
  <2>1. rec \in JobRecord /\ job' = [job EXCEPT ![j] = rec]
    BY <1>2, <1>10 DEF BuildThrows, JobRecord
  <2>2. PICK open \in {store[j], "closed"} : store' = [store EXCEPT ![j] = open]
    BY <1>4, <1>10 DEF BuildThrows
  <2>3. Sensible(j, rec, open)
    <3>1. job[j].phase = "building"
      BY <1>10 DEF BuildThrows
    <3> QED
      BY <1>2, <1>3, <1>6, <2>2, <3>1 DEF JobRecord, Over, Sensible
  <2>4. UNCHANGED <<jobStepVars, indexVars>>
    BY <1>10 DEF BuildThrows
  <2>5. open \in {"none", "writing", "finished", "closed"}
    BY <1>3, <2>2
  <2> HIDE DEF rec
  <2> QED
    BY <1>2, <2>1, <2>2, <2>3, <2>4, <2>5, JobMoves
<1>11. CASE StartValidation(j)
  <2> DEFINE rec == IF job[j].aborted
                    THEN [job[j] EXCEPT !.phase = "settled", !.status = "cancelled"]
                    ELSE [job[j] EXCEPT !.phase = "validating"]
  <2>1. rec \in JobRecord /\ job' = [job EXCEPT ![j] = rec]
    BY <1>2, <1>11 DEF StartValidation, JobRecord
  <2>2. store' = [store EXCEPT ![j] = store[j]] /\ UNCHANGED <<jobStepVars, indexVars>>
    BY <1>4, <1>11 DEF StartValidation
  <2>3. Sensible(j, rec, store[j])
    <3>1. job[j].phase = "built"
      BY <1>11 DEF StartValidation
    <3> QED
      BY <1>2, <1>3, <1>6, <3>1 DEF JobRecord, Over, Sensible
  <2> HIDE DEF rec
  <2> QED
    BY <1>2, <1>3, <2>1, <2>2, <2>3, JobMoves
<1>12. CASE ValidationThrows(j)
  <2> DEFINE rec == [job[j] EXCEPT !.phase = "rejected"]
  <2>1. rec \in JobRecord /\ job' = [job EXCEPT ![j] = rec]
    BY <1>2, <1>12 DEF ValidationThrows, JobRecord
  <2>2. store' = [store EXCEPT ![j] = store[j]] /\ UNCHANGED <<jobStepVars, indexVars>>
    BY <1>4, <1>12 DEF ValidationThrows
  <2>3. Sensible(j, rec, store[j])
    <3>1. job[j].phase = "validating"
      BY <1>12 DEF ValidationThrows
    <3> QED
      BY <1>2, <1>3, <1>6, <3>1 DEF JobRecord, Over, Sensible
  <2> HIDE DEF rec
  <2> QED
    BY <1>2, <1>3, <2>1, <2>2, <2>3, JobMoves
<1>13. CASE CommitCancelled(j)
  <2> DEFINE rec == [job[j] EXCEPT !.phase = "settled", !.status = "cancelled"]
  <2>1. rec \in JobRecord /\ job' = [job EXCEPT ![j] = rec]
    BY <1>2, <1>13 DEF CommitCancelled, JobRecord
  <2>2. store' = [store EXCEPT ![j] = store[j]] /\ UNCHANGED <<jobStepVars, indexVars>>
    BY <1>4, <1>13 DEF CommitCancelled
  <2>3. Sensible(j, rec, store[j])
    <3>1. job[j].phase = "validating" /\ job[j].aborted
      BY <1>13 DEF CommitCancelled
    <3> QED
      BY <1>2, <1>3, <1>6, <3>1 DEF JobRecord, Over, Sensible
  <2> HIDE DEF rec
  <2> QED
    BY <1>2, <1>3, <2>1, <2>2, <2>3, JobMoves
<1>14. CASE Catch(j)
  <2>0. PICK abortError \in BOOLEAN :
          job' = [job EXCEPT ![j].phase = "settled",
                     ![j].status = IF job[j].aborted \/ @ = "cancelled" \/ abortError
                                   THEN "cancelled" ELSE "failed"]
    BY <1>14 DEF Catch
  <2> DEFINE status == IF job[j].aborted \/ job[j].status = "cancelled" \/ abortError
                       THEN "cancelled" ELSE "failed"
             rec == [job[j] EXCEPT !.phase = "settled", !.status = status]
  <2>1. rec \in JobRecord /\ job' = [job EXCEPT ![j] = rec]
    BY <1>2, <2>0 DEF JobRecord
  <2>2. store' = [store EXCEPT ![j] = store[j]] /\ UNCHANGED <<jobStepVars, indexVars>>
    BY <1>4, <1>14 DEF Catch
  <2>3. Sensible(j, rec, store[j])
    <3>1. job[j].phase = "rejected"
      BY <1>14 DEF Catch
    <3> QED
      BY <1>2, <1>3, <1>6, <3>1 DEF JobRecord, Over, Sensible
  <2> HIDE DEF rec
  <2> QED
    BY <1>2, <1>3, <2>1, <2>2, <2>3, JobMoves
<1> QED
  BY <1>5, <1>7, <1>8, <1>9, <1>10, <1>11, <1>12, <1>13, <1>14

\* The job that commits is the one the client sees.  It replaces the live index
\* and disposes of its store, unless it goes on using it.
LEMMA CommitStep ==
    ASSUME IInv, NEW j \in Job, Commit(j)
    PROVE  IInv'
<1> DEFINE rec == [job[j] EXCEPT !.phase = "settled", !.status = "succeeded"]
<1>1. job[j].phase = "validating" /\ ~job[j].aborted
  BY DEF Commit
<1>2. /\ j \in 1..started /\ job[j] \in JobRecord /\ j # index /\ j # LiveStore
      /\ LiveStore \in 0..MaxJob
  BY <1>1, StateFacts DEF Over
<1>3. job[j].status = "running" /\ j = activeJob /\ ~closed /\ job[j].source = source
  BY <1>1, <1>2 DEF IInv, Running, Over
<1>4. /\ job' = [job EXCEPT ![j] = rec] /\ rec \in JobRecord
      /\ index' = j /\ indexRevision' = indexRevision + 1
      /\ UNCHANGED jobStepVars
  BY <1>2 DEF Commit, InstallRevision, JobRecord
<1>5. /\ job'[j] = rec /\ \A i \in Job \ {j} : job'[i] = job[i]
      /\ rec.status = "succeeded" /\ rec.phase = "settled" /\ rec.aborted = FALSE
      /\ rec.source = source /\ rec.previous = job[j].previous
      /\ rec.result = job[j].result
  BY <1>1, <1>2, <1>3, <1>4 DEF IInv, TypeOK, JobRecord
<1> HIDE DEF rec
<1>6. LiveStore' = job[j].result
  BY <1>2, <1>4, <1>5, ProjectAssumption DEF LiveStore
<1>7. \A i \in Job : store'[i] = IF i = LiveStore /\ LiveStore # job[j].result
                                THEN "closed" ELSE store[i]
  BY DEF Commit, InstallRevision, Disposed
<1>8. /\ store' \in [Job -> {"none", "writing", "finished", "closed"}]
      /\ \A i \in Job : store'[i] # "none" => store[i] # "none"
  <2>1. LiveStore \in Job => store[LiveStore] = "finished"
    BY ProjectAssumption DEF IInv, Live, Job
  <2> QED
    BY <1>7, <2>1 DEF Commit, InstallRevision, Disposed, IInv, TypeOK
<1>9. /\ \/ job[j].result = 0
         \/ job[j].result = j /\ store[j] = "finished"
         \/ job[j].result = LiveStore
      /\ job[j].result \in 0..MaxJob
  BY <1>1, <1>2, <1>3 DEF IInv, Reusing, JobRecord
<1>10. indexRevision' \in Revision /\ Counted'
  <2>1. /\ activeJob \in 1..MaxJob /\ indexRevision \in Nat
        /\ sourceRevision \in 0..MaxSourceRevision
        /\ indexRevision <= sourceRevision + 0 + (activeJob - 1)
    BY <1>2, <1>3, StateFacts, ProjectAssumption DEF IInv, TypeOK, Counted, Revision, Job
  <2>2. UNCHANGED <<activeJob, sourceRevision, closed>>
    BY <1>4 DEF jobStepVars, sourceVars
  <2> QED
    BY <1>3, <1>4, <1>5, <2>1, <2>2, ProjectAssumption DEF Counted, Revision
<1>11. TypeOK'
  <2>1. job' \in [Job -> JobRecord \cup {Unstarted}]
    BY <1>4 DEF IInv, TypeOK
  <2>2. index' \in 0..started'
    BY <1>2, <1>4 DEF jobStepVars
  <2> QED
    BY <1>4, <1>8, <1>10, <2>1, <2>2 DEF IInv, TypeOK, jobStepVars, sourceVars
<1> USE DEF jobStepVars, sourceVars
<1>12. rec # Unstarted /\ job[j] # Unstarted
  BY <1>2, <1>4 DEF JobRecord, Unstarted
<1>13. Numbered'
  BY <1>2, <1>4, <1>5, <1>12, StateFacts DEF IInv, Numbered
<1>14. Running'
  BY <1>2, <1>4, <1>5, StateFacts DEF IInv, Running, Over
<1>15. Spilled'
  BY <1>1, <1>2, <1>4, <1>5, <1>7, <1>8 DEF IInv, Spilled, Over
<1>16. Live'
  BY <1>2, <1>4, <1>5, <1>6, <1>7, <1>9, StateFacts DEF IInv, Live, Committed
<1>17. Reusing'
  BY <1>3, <1>4, <1>5, <1>14 DEF IInv, Running, Reusing
<1>18. Held'
  BY <1>2, <1>4, <1>5, <1>6, <1>7, <1>9 DEF IInv, Held, Committed
<1>19. Searching'
  <2>1. indexRevision \in Nat
    BY ProjectAssumption DEF IInv, TypeOK, Revision
  <2>2. \A q \in Search : search[q].phase \in {"reading", "returned", "threw"} =>
            search[q].revision \in Nat
    BY SearchFacts DEF IInv
  <2> QED
    BY <1>4, <2>1, <2>2 DEF IInv, Searching
<1>20. Discovering'
  BY <1>4 DEF IInv, Discovering
<1>21. StatusPairsOwnIndex'
  BY <1>3, <1>4 DEF StatusPairsOwnIndex
<1> QED
  BY <1>10, <1>11, <1>13, <1>14, <1>15, <1>16, <1>17, <1>18, <1>19, <1>20, <1>21 DEF IInv

\* The scope of a job disposes of its store unless it is the live one or was.
LEMMA LeaveScopeStep ==
    ASSUME IInv, NEW j \in Job, LeaveScope(j)
    PROVE  IInv'
<1> DEFINE rec == [job[j] EXCEPT !.phase = "done"]
<1>1. j \in 1..started /\ job[j] \in JobRecord /\ job[j].phase = "settled"
  <2>1. job[j].phase = "settled"
    BY DEF LeaveScope
  <2> QED
    BY <2>1, StateFacts
<1>2. /\ job' = [job EXCEPT ![j] = rec] /\ rec \in JobRecord
      /\ UNCHANGED <<jobStepVars, indexVars>>
  BY <1>1 DEF LeaveScope, JobRecord
<1>3. /\ job'[j] = rec /\ \A i \in Job \ {j} : job'[i] = job[i]
      /\ rec.status = job[j].status /\ rec.phase = "done" /\ rec.aborted = job[j].aborted
      /\ rec.source = job[j].source /\ rec.previous = job[j].previous
      /\ rec.result = job[j].result
  BY <1>1, <1>2 DEF IInv, TypeOK, JobRecord
<1> HIDE DEF rec
<1> USE DEF jobStepVars, sourceVars, indexVars
<1>4. \A i \in Job : store'[i] = IF i = j /\ store[j] # "none" /\ ~Committed(j)
                                THEN "closed" ELSE store[i]
  BY DEF LeaveScope, Disposed
<1>5. store' \in [Job -> {"none", "writing", "finished", "closed"}]
  BY DEF LeaveScope, Disposed, IInv, TypeOK
<1>6. LiveStore' = LiveStore
  BY <1>2, <1>3, StateFacts DEF LiveStore
<1>7. TypeOK'
  BY <1>2, <1>5 DEF IInv, TypeOK
<1>8. rec # Unstarted /\ job[j] # Unstarted
  BY <1>1, <1>2 DEF JobRecord, Unstarted
<1>9. Numbered'
  BY <1>1, <1>2, <1>3, <1>8, StateFacts DEF IInv, Numbered
<1>10. Running'
  BY <1>1, <1>2, <1>3, StateFacts DEF IInv, Running, Over
<1>11. Spilled'
  BY <1>1, <1>2, <1>3, <1>4, StateFacts DEF IInv, Spilled, Over
<1>12. Live'
  BY <1>2, <1>3, <1>4, <1>6, StateFacts DEF IInv, Live, Committed
<1>13. Reusing'
  BY <1>2, <1>3, <1>4, <1>6, <1>10, StateFacts DEF IInv, Running, Reusing, Over
<1>14. Held'
  BY <1>2, <1>3, <1>4, <1>6 DEF IInv, Held, Committed
<1>15. Counted'
  BY <1>1, <1>2, <1>3, StateFacts DEF IInv, Counted, Numbered
<1>16. Searching'
  BY <1>2, <1>6 DEF IInv, Searching
<1>17. Discovering'
  BY <1>2 DEF IInv, Discovering
<1>18. StatusPairsOwnIndex'
  BY <1>1, <1>2, <1>3, StateFacts DEF IInv, StatusPairsOwnIndex, Numbered
<1> QED
  BY <1>7, <1>9, <1>10, <1>11, <1>12, <1>13, <1>14, <1>15, <1>16, <1>17, <1>18 DEF IInv

-----------------------------------------------------------------------------
(* Cancelling the job that runs *)

\* What cancelling the active job does to each job and to each store: whoever
\* ran is cancelled, and closes the store it writes.
LEMMA CancelFacts ==
    ASSUME IInv
    PROVE  /\ JobsAfterCancel \in [Job -> JobRecord \cup {Unstarted}]
           /\ StoresAfterCancel \in [Job -> {"none", "writing", "finished", "closed"}]
           /\ \A i \in Job :
                 IF job[i].status = "running"
                 THEN /\ JobsAfterCancel[i].status = "cancelled" /\ JobsAfterCancel[i].aborted
                      /\ JobsAfterCancel[i].phase = job[i].phase
                      /\ JobsAfterCancel[i].source = job[i].source
                      /\ JobsAfterCancel[i].previous = job[i].previous
                      /\ JobsAfterCancel[i].result = job[i].result
                      /\ JobsAfterCancel[i] \in JobRecord
                      /\ StoresAfterCancel[i] =
                            IF store[i] = "writing" THEN "closed" ELSE store[i]
                 ELSE /\ JobsAfterCancel[i] = job[i]
                      /\ StoresAfterCancel[i] = store[i]
<1>1. \A i \in Job : job[i].status = "running" => Cancellable /\ i = activeJob
  BY StateFacts DEF IInv, Running, Cancellable
<1>2. CASE ~Cancellable
  BY <1>1, <1>2 DEF JobsAfterCancel, StoresAfterCancel, IInv, TypeOK
<1>3. CASE Cancellable
  <2> DEFINE a == activeJob
             rec == [job[a] EXCEPT !.status = "cancelled", !.aborted = TRUE]
  <2>1. a \in Job /\ job[a] \in JobRecord /\ job[a].status = "running"
    BY <1>3, StateFacts, ProjectAssumption DEF Cancellable, IInv, TypeOK, Job, Numbered
  <2>2. /\ rec \in JobRecord /\ rec.status = "cancelled" /\ rec.aborted = TRUE
        /\ rec.phase = job[a].phase /\ rec.source = job[a].source
        /\ rec.previous = job[a].previous /\ rec.result = job[a].result
    BY <2>1 DEF JobRecord
  <2>3. JobsAfterCancel = [job EXCEPT ![a] = rec]
    BY <1>3, <2>1 DEF JobsAfterCancel, IInv, TypeOK, JobRecord
  <2>4. StoresAfterCancel = IF store[a] = "writing" THEN [store EXCEPT ![a] = "closed"]
                            ELSE store
    BY <1>3 DEF StoresAfterCancel
  <2> HIDE DEF rec
  <2> QED
    BY <1>1, <2>1, <2>2, <2>3, <2>4 DEF IInv, TypeOK
<1> QED
  BY <1>2, <1>3

\* No job runs once the active one is cancelled, so the live revision may go,
\* and the source with it.
LEMMA CancelKeeps ==
    ASSUME IInv, NEW gone \in BOOLEAN,
           job' = JobsAfterCancel,
           store' \in [Job -> {"none", "writing", "finished", "closed"}],
           \A i \in Job : store'[i] = IF gone /\ i = LiveStore THEN "closed"
                                    ELSE StoresAfterCancel[i],
           index' = IF gone THEN 0 ELSE index,
           indexRevision' = IF gone /\ index # 0 THEN indexRevision + 1 ELSE indexRevision,
           gone \/ UNCHANGED source,
           UNCHANGED <<started, activeJob, search>>
    PROVE  /\ Numbered' /\ Running' /\ Spilled' /\ Live' /\ Reusing' /\ Held'
           /\ Searching'
<1>1. \A i \in Job : job'[i].status # "running"
  BY CancelFacts
<1>2. \A i \in 1..started : i \in Job /\ job[i] \in JobRecord
  BY StateFacts
<1>3. \A i \in Job : /\ job'[i].phase = job[i].phase /\ job'[i].source = job[i].source
                     /\ job'[i].previous = job[i].previous
                     /\ job'[i].result = job[i].result
                     /\ job'[i] = Unstarted <=> job[i] = Unstarted
                     /\ job'[i].status = "succeeded" <=> job[i].status = "succeeded"
  <2>1. \A r \in JobRecord : r # Unstarted
    BY DEF JobRecord, Unstarted
  <2>2. \A i \in Job : job[i].status = "running" => job[i] # Unstarted
    BY DEF Unstarted
  <2> QED
    BY <2>1, <2>2, CancelFacts
<1>4. \A i \in Job : StoresAfterCancel[i] = store[i] \/ StoresAfterCancel[i] = "closed"
  BY CancelFacts
<1>5. ~gone => LiveStore' = LiveStore
  BY <1>2, <1>3, StateFacts DEF LiveStore
<1>6. gone => LiveStore' = 0
  BY DEF LiveStore
<1>7. Numbered'
  BY <1>2, <1>3 DEF IInv, Numbered
<1>8. Running'
  <2>1. ASSUME NEW i \in 1..started, job[i].status = "running"
        PROVE  job'[i].aborted /\ job'[i].status = "cancelled"
    BY <1>2, <2>1, CancelFacts
  <2>2. ASSUME NEW i \in 1..started, job[i].status # "running"
        PROVE  job'[i] = job[i]
    BY <1>2, <2>2, CancelFacts
  <2> QED
    BY <1>1, <1>2, <1>3, <2>1, <2>2 DEF IInv, Running
<1>9. Spilled'
  <2>1. \A i \in Job : store'[i] # "none" => store[i] # "none"
    <3>1. LiveStore \in Job => store[LiveStore] # "none"
      BY ProjectAssumption DEF IInv, Live, Job
    <3>2. \A i \in Job : StoresAfterCancel[i] # "none" => store[i] # "none"
      BY CancelFacts
    <3> QED
      BY <3>1, <3>2
  <2>2. ASSUME NEW i \in Job, store'[i] = "writing"
        PROVE  store[i] = "writing" /\ job'[i] = job[i]
    BY <2>2, CancelFacts
  <2> QED
    BY <1>3, <2>1, <2>2 DEF IInv, Spilled
<1>10. Live'
  BY <1>1, <1>2, <1>3, <1>5, <1>6, CancelFacts, StateFacts DEF IInv, Live, Committed
<1>11. Reusing'
  BY <1>1, <1>2 DEF Reusing
<1>12. Held'
  BY <1>3, <1>4, <1>5, <1>6 DEF IInv, Held, Committed
<1>13. Searching'
  <2>1. indexRevision \in Nat
    BY ProjectAssumption DEF IInv, TypeOK, Revision
  <2>2. \A q \in Search : search[q].phase \in {"reading", "returned", "threw"} =>
            search[q].revision \in Nat
    BY SearchFacts DEF IInv
  <2> QED
    BY <1>5, <2>1, <2>2 DEF IInv, Searching
<1> QED
  BY <1>7, <1>8, <1>9, <1>10, <1>11, <1>12, <1>13

\* The requests that cancel a job: a change of the source, a cancellation, the
\* end of the server.
LEMMA CancelSteps ==
    ASSUME IInv, (\E s \in Source : ChangeSource(s)) \/ CancelProjectJob \/ Close
    PROVE  IInv'
<1> DEFINE gone == ~CancelProjectJob
<1>1. /\ job' = JobsAfterCancel
      /\ store' = IF gone THEN Disposed(StoresAfterCancel, LiveStore) ELSE StoresAfterCancel
      /\ index' = IF gone THEN 0 ELSE index
      /\ indexRevision' = IF gone /\ index # 0 THEN indexRevision + 1 ELSE indexRevision
      /\ gone \/ UNCHANGED source
      /\ UNCHANGED <<started, activeJob, search>>
  BY DEF ChangeSource, CancelProjectJob, Close, ClearRevision, sourceVars, indexVars
<1>2. /\ gone \in BOOLEAN
      /\ gone => \/ \E s \in Source : ChangeSource(s)
                 \/ Close
  OBVIOUS
<1>3. /\ source' \in Source /\ sourceRevision' \in 0..MaxSourceRevision
      /\ sourceRevision' >= sourceRevision /\ (closed => closed') /\ closed' \in BOOLEAN
      /\ gone => sourceRevision' = sourceRevision + 1 \/ (~closed /\ closed')
      /\ projectCache' \in {projectCache, NoSource}
      /\ projectCache' = NoSource \/ UNCHANGED source
      /\ sourceRevision' = sourceRevision => UNCHANGED source
      /\ UNCHANGED discovery
  <2>1. ASSUME NEW s \in Source, ChangeSource(s)
        PROVE  /\ source' \in Source /\ sourceRevision' = sourceRevision + 1
               /\ sourceRevision < MaxSourceRevision /\ UNCHANGED closed
               /\ projectCache' = NoSource /\ UNCHANGED discovery
    BY <2>1 DEF ChangeSource
  <2>2. ASSUME CancelProjectJob \/ Close
        PROVE  /\ UNCHANGED <<source, sourceRevision, projectCache, discovery>>
               /\ gone => ~closed /\ closed'
               /\ closed' \in {closed, TRUE}
    BY <2>2 DEF CancelProjectJob, Close, sourceVars
  <2>3. /\ source \in Source /\ sourceRevision \in 0..MaxSourceRevision
        /\ closed \in BOOLEAN /\ MaxSourceRevision \in Nat
    BY ProjectAssumption DEF IInv, TypeOK
  <2>4. CASE \E s \in Source : ChangeSource(s)
    BY <2>1, <2>3, <2>4
  <2>5. CASE CancelProjectJob \/ Close
    <3>1. closed \in BOOLEAN /\ closed' \in BOOLEAN /\ (closed => closed')
      BY <2>2, <2>3, <2>5
    <3>2. UNCHANGED <<source, sourceRevision, projectCache, discovery>>
      BY <2>2, <2>5
    <3>3. gone => ~closed /\ closed'
      BY <2>2, <2>5
    <3> HIDE DEF gone
    <3> QED
      BY <2>3, <3>1, <3>2, <3>3
  <2> QED
    BY <2>4, <2>5
<1> HIDE DEF gone
<1>4. /\ store' \in [Job -> {"none", "writing", "finished", "closed"}]
      /\ \A i \in Job : store'[i] = IF gone /\ i = LiveStore THEN "closed"
                                   ELSE StoresAfterCancel[i]
  BY <1>1, CancelFacts DEF Disposed
<1>5. /\ Numbered' /\ Running' /\ Spilled' /\ Live' /\ Reusing' /\ Held' /\ Searching'
  BY <1>1, <1>2, <1>4, CancelKeeps
<1>6. activeJob = 0 \/ (job'[activeJob].status = "succeeded" <=> job[activeJob].status = "succeeded")
  <2>1. activeJob # 0 => activeJob \in Job
    BY ProjectAssumption DEF IInv, TypeOK, Job
  <2> QED
    BY <1>1, <2>1, CancelFacts
<1>7. indexRevision' \in Revision /\ Counted'
  <2> DEFINE commits == IF activeJob = 0 \/ job[activeJob].status = "succeeded"
                        THEN activeJob ELSE activeJob - 1
             ends == IF closed THEN 1 ELSE 0
             later == IF closed' THEN 1 ELSE 0
  <2>1. /\ commits \in 0..MaxJob /\ indexRevision \in Nat
        /\ indexRevision <= sourceRevision + ends + commits
    BY ProjectAssumption DEF IInv, TypeOK, Counted, Revision
  <2>2. Counted' <=> indexRevision' <= sourceRevision' + later + commits
    BY <1>1, <1>6 DEF Counted
  <2>3. /\ ends \in 0..1 /\ later \in 0..1 /\ later >= ends
        /\ gone => sourceRevision' = sourceRevision + 1 \/ later = ends + 1
    BY <1>3 DEF IInv, TypeOK
  <2>4. /\ sourceRevision \in Nat /\ sourceRevision' \in 0..MaxSourceRevision
        /\ sourceRevision' >= sourceRevision
    BY <1>3, ProjectAssumption DEF IInv, TypeOK
  <2>5. indexRevision' \in {indexRevision, IF gone THEN indexRevision + 1 ELSE indexRevision}
    BY <1>1
  <2> HIDE DEF commits, ends, later
  <2>6. PICK c \in 0..MaxJob, e \in 0..1, l \in 0..1 :
            c = commits /\ e = ends /\ l = later
    BY <2>1, <2>3
  <2>7. PICK r \in Nat, b \in Nat, a \in 0..MaxSourceRevision :
            r = indexRevision /\ b = sourceRevision /\ a = sourceRevision'
    BY <2>1, <2>4
  <2>8. /\ l >= e /\ a >= b /\ r <= b + e + c
        /\ gone => a = b + 1 \/ l = e + 1
    BY <2>1, <2>3, <2>4, <2>6, <2>7
  <2>9. PICK n \in {r, IF gone THEN r + 1 ELSE r} : n = indexRevision'
    BY <2>5, <2>7
  <2>10. n <= a + l + c /\ n \in Nat
    BY <1>2, <2>8
  <2>11. n \in Revision
    BY <2>10, ProjectAssumption DEF Revision
  <2> QED
    BY <2>2, <2>6, <2>7, <2>9, <2>10, <2>11
<1>8. TypeOK'
  <2>1. index' \in 0..started'
    BY <1>1, ProjectAssumption DEF IInv, TypeOK
  <2> QED
    BY <1>1, <1>3, <1>4, <1>7, <2>1, CancelFacts DEF IInv, TypeOK
<1>9. Discovering'
  <2>1. \A d \in Discovery : discovery[d] # Idle => discovery[d].revision \in Nat
    BY ProjectAssumption DEF IInv, TypeOK, DiscoveryRecord
  <2>2. sourceRevision \in Nat /\ sourceRevision' \in Nat
    BY <1>3, ProjectAssumption DEF IInv, TypeOK
  <2> QED
    BY <1>3, <2>1, <2>2 DEF IInv, Discovering
<1>10. StatusPairsOwnIndex'
  BY <1>1, <1>6 DEF IInv, StatusPairsOwnIndex
<1> QED
  BY <1>5, <1>7, <1>8, <1>9, <1>10 DEF IInv

\* A new job cancels the one before it; the live revision stays.
LEMMA StartStep ==
    ASSUME IInv, StartProjectJob
    PROVE  IInv'
<1> DEFINE n == started + 1
           rec == [status |-> "running", aborted |-> FALSE, phase |-> "queued",
                   source |-> source, previous |-> 0, result |-> 0]
<1>1. /\ started \in Nat /\ n \in 1..MaxJob /\ n \in Job /\ activeJob = started
      /\ job[n] = Unstarted /\ store[n] = "none"
  <2>1. started \in Nat /\ n \in 1..MaxJob
    BY ProjectAssumption DEF IInv, TypeOK, StartProjectJob
  <2>2. ~(n <= started)
    BY <2>1
  <2> QED
    BY <2>1, <2>2 DEF IInv, TypeOK, Numbered, Spilled, Job
<1>2. rec \in JobRecord
  BY ProjectAssumption DEF IInv, TypeOK, JobRecord
<1>3. /\ job' = [JobsAfterCancel EXCEPT ![n] = rec] /\ store' = StoresAfterCancel
      /\ started' = n /\ activeJob' = n /\ ~closed
      /\ UNCHANGED <<source, sourceRevision, index, indexRevision, projectCache, search,
                     discovery, closed>>
  BY DEF StartProjectJob, sourceVars, indexVars
<1>4. rec.status = "running" /\ ~rec.aborted /\ rec.phase = "queued"
      /\ rec.source = source /\ rec.previous = 0 /\ rec # Unstarted
  BY DEF Unstarted
<1> HIDE DEF n, rec
<1>5. /\ job'[n] = rec
      /\ \A i \in Job \ {n} : job'[i] = JobsAfterCancel[i]
      /\ \A i \in Job : store'[i] = StoresAfterCancel[i]
  BY <1>1, <1>3, CancelFacts
<1>6. /\ \A i \in 1..started : i \in Job \ {n} /\ job[i] \in JobRecord
      /\ \A i \in 1..n : i = n \/ i \in 1..started
  BY <1>1, StateFacts DEF n
<1>7. \A i \in Job \ {n} :
          /\ job'[i].status # "running"
          /\ job'[i].phase = job[i].phase /\ job'[i].source = job[i].source
          /\ job'[i].previous = job[i].previous /\ job'[i].result = job[i].result
          /\ job'[i] = Unstarted <=> job[i] = Unstarted
          /\ job'[i].status = "succeeded" <=> job[i].status = "succeeded"
  <2>1. \A r \in JobRecord : r # Unstarted
    BY DEF JobRecord, Unstarted
  <2>2. \A i \in Job : job[i].status = "running" => job[i] # Unstarted
    BY DEF Unstarted
  <2> QED
    BY <1>5, <2>1, <2>2, CancelFacts
<1>8. index # n /\ LiveStore # n /\ LiveStore' = LiveStore
  <2>1. index # n /\ LiveStore # n
    BY <1>1, StateFacts DEF n
  <2> QED
    BY <1>3, <1>6, <1>7, <2>1, StateFacts DEF LiveStore
<1>9. TypeOK'
  <2>1. index \in 0..n /\ n \in 0..n /\ n \in 0..MaxJob
    BY <1>1 DEF n, IInv, TypeOK
  <2> QED
    BY <1>1, <1>2, <1>3, <2>1, CancelFacts DEF IInv, TypeOK
<1>10. Numbered'
  <2>1. ASSUME NEW i \in Job
        PROVE  job'[i] # Unstarted <=> i <= n
    <3>1. CASE i = n
      BY <1>1, <1>4, <1>5, <3>1
    <3>2. CASE i # n
      <4>1. i <= n <=> i <= started
        BY <1>1, <3>2 DEF n, Job
      <4> QED
        BY <1>7, <3>2, <4>1 DEF IInv, Numbered
    <3> QED
      BY <3>1, <3>2
  <2>2. ASSUME NEW i \in 1..started
        PROVE  job'[i].previous <= n
    <3>1. job'[i].previous \in Int /\ job'[i].previous <= started
      BY <1>6, <1>7 DEF IInv, Numbered, JobRecord
    <3> QED
      BY <1>1, <3>1 DEF n
  <2>3. job'[n].previous <= n
    BY <1>1, <1>4, <1>5
  <2> QED
    BY <1>3, <1>6, <2>1, <2>2, <2>3 DEF Numbered
<1>11. Running'
  <2>1. ASSUME NEW i \in 1..started, job[i].status = "running"
        PROVE  job'[i].aborted /\ job'[i].status = "cancelled"
    BY <1>5, <1>6, <2>1, CancelFacts
  <2>2. ASSUME NEW i \in 1..started, job[i].status # "running"
        PROVE  job'[i] = job[i]
    BY <1>5, <1>6, <2>2, CancelFacts
  <2> QED
    BY <1>3, <1>4, <1>5, <1>6, <1>7, <2>1, <2>2 DEF IInv, Running, Over
<1>12. Spilled'
  <2>1. ASSUME NEW i \in Job, store'[i] # "none"
        PROVE  i \in 1..started /\ store[i] # "none"
    <3>1. store[i] # "none"
      BY <1>5, <2>1, CancelFacts
    <3> QED
      BY <1>1, <3>1 DEF IInv, Spilled, Job
  <2>2. ASSUME NEW i \in 1..started, store'[i] = "writing"
        PROVE  store[i] = "writing" /\ job'[i] = job[i]
    BY <1>5, <1>6, <2>2, CancelFacts
  <2>3. \A i \in 1..started : i <= n
    BY <1>1 DEF n
  <2> QED
    BY <1>3, <1>6, <1>7, <2>1, <2>2, <2>3 DEF IInv, Spilled
<1>13. Live'
  BY <1>3, <1>5, <1>6, <1>7, <1>8, CancelFacts, StateFacts DEF IInv, Live, Committed
<1>14. Reusing'
  BY <1>3, <1>4, <1>5, <1>6, <1>7 DEF Reusing
<1>15. Held'
  <2>1. ASSUME NEW i \in Job, store'[i] \in {"writing", "finished"}
        PROVE  i # n /\ store[i] = store'[i]
    BY <1>1, <1>5, <2>1, CancelFacts
  <2> QED
    BY <1>7, <1>8, <2>1 DEF IInv, Held, Committed
<1>16. Counted'
  <2>1. Counted' <=> indexRevision <= sourceRevision + (IF closed THEN 1 ELSE 0) + (n - 1)
    BY <1>1, <1>3, <1>4, <1>5 DEF Counted
  <2>2. PICK r \in Nat, b \in Nat, a \in Nat :
            r = indexRevision /\ b = sourceRevision /\ a = activeJob
    BY <1>1, ProjectAssumption DEF IInv, TypeOK, Revision
  <2>3. r <= b + (IF closed THEN 1 ELSE 0) + a
    BY <2>2, <1>3 DEF IInv, Counted
  <2> QED
    BY <1>1, <1>3, <2>1, <2>2, <2>3 DEF n
<1>17. Searching' /\ Discovering'
  BY <1>3, <1>8 DEF IInv, Searching, Discovering
<1>18. StatusPairsOwnIndex'
  BY <1>3, <1>4, <1>5 DEF StatusPairsOwnIndex
<1> QED
  BY <1>9, <1>10, <1>11, <1>12, <1>13, <1>14, <1>15, <1>16, <1>17, <1>18 DEF IInv

-----------------------------------------------------------------------------
(* Searches, discoveries, and the change of another home *)

\* A search alone can only break what the invariant says of searches.
LEMMA SearchKeeps ==
    ASSUME IInv, search' \in [Search -> SearchRecord \cup {Idle}], Searching',
           UNCHANGED searchStepVars
    PROVE  IInv'
<1> USE DEF searchStepVars, sourceVars, indexVars
<1>1. LiveStore' = LiveStore
  BY DEF LiveStore
<1>2. TypeOK'
  BY DEF IInv, TypeOK
<1>3. /\ Numbered' /\ Running' /\ Spilled' /\ Counted' /\ Discovering'
      /\ StatusPairsOwnIndex'
  BY DEF IInv, Numbered, Running, Spilled, Counted, Discovering, StatusPairsOwnIndex
<1>4. Live' /\ Reusing' /\ Held'
  BY <1>1 DEF IInv, Live, Reusing, Held, Committed
<1> QED
  BY <1>2, <1>3, <1>4 DEF IInv

\* A search that is current reads an open store.  The revision it was opened
\* for is the live one, or will never be again.
LEMMA SearchSteps ==
    ASSUME IInv, NEW q \in Search,
           OpenSearch(q) \/ ReadClosedStore(q) \/ ScanEnds(q) \/ AnswerSearch(q)
    PROVE  IInv'
<1> USE DEF searchStepVars, sourceVars, indexVars
<1>1. UNCHANGED searchStepVars
  BY DEF OpenSearch, ReadClosedStore, ScanEnds, AnswerSearch
<1>2. LiveStore' = LiveStore
  BY <1>1 DEF LiveStore
<1>3. SUFFICES ASSUME NEW rec \in SearchRecord, search' = [search EXCEPT ![q] = rec],
                      /\ rec.phase \in {"reading", "returned", "threw"} =>
                            /\ rec.revision <= indexRevision
                            /\ rec.revision = indexRevision =>
                                  index # 0 /\ rec.store = LiveStore /\ ~rec.tainted
                      /\ rec.phase = "answered" /\ rec.tainted => rec.outcome = "retired"
               PROVE  IInv'
  <2> DEFINE Fits(rec) ==
                /\ rec \in SearchRecord /\ search' = [search EXCEPT ![q] = rec]
                /\ rec.phase \in {"reading", "returned", "threw"} =>
                      /\ rec.revision <= indexRevision
                      /\ rec.revision = indexRevision =>
                            index # 0 /\ rec.store = LiveStore /\ ~rec.tainted
                /\ rec.phase = "answered" /\ rec.tainted => rec.outcome = "retired"
  <2>1. CASE OpenSearch(q)
    <3> DEFINE rec == [phase |-> "reading", revision |-> indexRevision,
                       store |-> LiveStore, tainted |-> FALSE]
    <3>1. rec \in SearchRecord
      BY StateFacts DEF IInv, TypeOK, SearchRecord
    <3>2. indexRevision <= indexRevision
      BY ProjectAssumption DEF IInv, TypeOK, Revision
    <3>3. Fits(rec)
      BY <2>1, <3>1, <3>2 DEF OpenSearch
    <3> QED
      BY <3>3
  <2>2. ASSUME search[q].phase \in {"reading", "returned", "threw"}
        PROVE  /\ search[q] \in SearchRecord /\ search[q].tainted \in BOOLEAN
               /\ search[q].revision \in Revision /\ search[q].store \in 0..MaxJob
               /\ search[q].revision <= indexRevision
               /\ search[q].revision = indexRevision =>
                     index # 0 /\ search[q].store = LiveStore /\ ~search[q].tainted
    <3>1. search[q] \in SearchRecord
      BY <2>2 DEF IInv, TypeOK, Idle
    <3> QED
      BY <2>2, <3>1, SearchFacts DEF IInv, Searching
  <2>3. CASE ReadClosedStore(q)
    <3>1. PICK phase \in {"reading", "threw"} :
              search' = [search EXCEPT ![q].phase = phase, ![q].tainted = TRUE]
      BY <2>3 DEF ReadClosedStore
    <3> DEFINE rec == [search[q] EXCEPT !.phase = phase, !.tainted = TRUE]
    <3>2. /\ search[q].phase = "reading" /\ search[q].store # 0
          /\ store[search[q].store] = "closed"
      BY <2>3 DEF ReadClosedStore
    <3>3. search[q].revision # indexRevision
      BY <2>2, <3>2 DEF IInv, Live
    <3>4. rec \in SearchRecord /\ rec.revision = search[q].revision
      BY <2>2, <3>2 DEF SearchRecord
    <3>5. rec.phase = phase
      BY <2>2, <3>2 DEF SearchRecord
    <3>6. search' = [search EXCEPT ![q] = rec]
      BY <3>1
    <3> HIDE DEF rec
    <3>7. Fits(rec)
      BY <2>2, <3>2, <3>3, <3>4, <3>5, <3>6
    <3> QED
      BY <3>7
  <2>4. CASE ScanEnds(q)
    <3>1. PICK phase \in {"returned", "threw"} : search' = [search EXCEPT ![q].phase = phase]
      BY <2>4 DEF ScanEnds
    <3> DEFINE rec == [search[q] EXCEPT !.phase = phase]
    <3>2. search[q].phase = "reading"
      BY <2>4 DEF ScanEnds
    <3>3. /\ rec \in SearchRecord /\ rec.revision = search[q].revision
          /\ rec.store = search[q].store /\ rec.tainted = search[q].tainted
          /\ rec.phase = phase
      BY <2>2, <3>2 DEF SearchRecord
    <3>4. search' = [search EXCEPT ![q] = rec]
      BY <3>1
    <3> HIDE DEF rec
    <3>5. Fits(rec)
      BY <2>2, <3>2, <3>3, <3>4
    <3> QED
      BY <3>5
  <2>5. CASE AnswerSearch(q)
    <3> DEFINE outcome == IF ~CurrentLease(q) THEN "retired"
                          ELSE IF search[q].phase = "returned" THEN "value" ELSE "failed"
               rec == [phase |-> "answered", tainted |-> search[q].tainted,
                       outcome |-> outcome]
    <3>1. search[q].phase \in {"returned", "threw"}
      BY <2>5 DEF AnswerSearch
    <3>2. search[q].tainted => outcome = "retired"
      BY <2>2, <3>1 DEF CurrentLease
    <3>3. rec \in SearchRecord /\ outcome \in {"value", "retired", "failed"}
      BY <2>2, <3>1 DEF SearchRecord
    <3>4. search' = [search EXCEPT ![q] = rec]
      BY <2>5 DEF AnswerSearch
    <3>5. Fits(rec)
      BY <3>2, <3>3, <3>4
    <3> QED
      BY <3>5
  <2> QED
    BY <2>1, <2>3, <2>4, <2>5
<1>4. search' \in [Search -> SearchRecord \cup {Idle}]
  BY <1>3 DEF IInv, TypeOK
<1>5. Searching'
  BY <1>1, <1>2, <1>3 DEF IInv, TypeOK, Searching
<1> QED
  BY <1>1, <1>4, <1>5, SearchKeeps

\* What a scan of an earlier source found is not kept.
LEMMA DiscoverySteps ==
    ASSUME IInv, NEW d \in Discovery,
           Discover(d) \/ ConfiguredProjects(d) \/ ScannedProjects(d)
    PROVE  IInv'
<1> USE DEF discoveryStepVars, sourceVars, indexVars
<1>1. UNCHANGED discoveryStepVars
  BY DEF Discover, ConfiguredProjects, ScannedProjects
<1>2. sourceRevision <= sourceRevision
  BY ProjectAssumption DEF IInv, TypeOK
<1>3. discovery[d].phase \in {"configured", "scanning"} =>
          discovery[d] \in DiscoveryRecord /\ discovery[d] # Idle
  BY DEF IInv, TypeOK, Idle
<1>4. /\ discovery' \in [Discovery -> DiscoveryRecord \cup {Idle}]
      /\ projectCache' \in {source, NoSource}
      /\ \A e \in Discovery : discovery'[e] # Idle =>
            \/ discovery[e] # Idle /\ discovery'[e].revision = discovery[e].revision
                                   /\ discovery'[e].source = discovery[e].source
            \/ discovery'[e].revision = sourceRevision /\ discovery'[e].source = source
  <2>1. CASE Discover(d)
    BY <2>1 DEF Discover, IInv, TypeOK, Discovering, DiscoveryRecord
  <2>2. CASE ConfiguredProjects(d)
    BY <1>3, <2>2 DEF ConfiguredProjects, IInv, TypeOK, Discovering, DiscoveryRecord
  <2>3. CASE ScannedProjects(d)
    BY <1>3, <2>3 DEF ScannedProjects, IInv, TypeOK, Discovering
  <2> QED
    BY <2>1, <2>2, <2>3
<1>5. Discovering'
  BY <1>1, <1>2, <1>4 DEF IInv, Discovering
<1>6. TypeOK'
  BY <1>1, <1>4 DEF IInv, TypeOK
<1>7. LiveStore' = LiveStore
  BY <1>1 DEF LiveStore
<1>8. Numbered' /\ Running' /\ Spilled' /\ Counted' /\ StatusPairsOwnIndex'
  BY <1>1 DEF IInv, Numbered, Running, Spilled, Counted, StatusPairsOwnIndex
<1>9. Live' /\ Reusing' /\ Held' /\ Searching'
  BY <1>1, <1>7 DEF IInv, Live, Reusing, Held, Committed, Searching
<1> QED
  BY <1>5, <1>6, <1>8, <1>9 DEF IInv

\* A change that leaves the source alone outdates the discoveries all the same.
LEMMA OtherHomeStep ==
    ASSUME IInv, ChangeOtherHome
    PROVE  IInv'
<1> USE DEF ChangeOtherHome, sourceVars, indexVars
<1>1. LiveStore' = LiveStore
  BY DEF LiveStore
<1>2. TypeOK'
  BY ProjectAssumption DEF IInv, TypeOK
<1>3. Numbered' /\ Running' /\ Spilled' /\ StatusPairsOwnIndex'
  BY DEF IInv, Numbered, Running, Spilled, StatusPairsOwnIndex
<1>4. Live' /\ Reusing' /\ Held' /\ Searching'
  BY <1>1 DEF IInv, Live, Reusing, Held, Committed, Searching
<1>5. sourceRevision \in Nat
  BY ProjectAssumption DEF IInv, TypeOK
<1>6. Counted'
  BY <1>5, ProjectAssumption DEF IInv, TypeOK, Counted, Revision
<1>7. Discovering'
  <2>1. \A d \in Discovery : discovery[d] # Idle => discovery[d].revision \in Nat
    BY ProjectAssumption DEF IInv, TypeOK, DiscoveryRecord
  <2> QED
    BY <1>5, <2>1 DEF IInv, Discovering
<1> QED
  BY <1>2, <1>3, <1>4, <1>6, <1>7 DEF IInv

-----------------------------------------------------------------------------
(* Induction *)

\* The invariant holds when the server has been created.
LEMMA InitIInv == Init => IInv
<1> SUFFICES ASSUME Init PROVE IInv
  OBVIOUS
<1> USE ProjectAssumption DEF Init
<1>1. \A j \in Job : j \in Nat /\ j >= 1 /\ job[j] = Unstarted
  BY DEF Job
<1>2. TypeOK
  <2>1. /\ 0 \in 0..MaxSourceRevision /\ 0 \in 0..MaxJob /\ 0 \in 0..0 /\ 0 \in Revision
    BY DEF Revision
  <2> QED
    BY <2>1 DEF TypeOK
<1>3. Numbered
  BY <1>1 DEF Numbered
<1>4. Running /\ Spilled /\ Live /\ Reusing /\ Held
  BY DEF Running, Spilled, Live, LiveStore, Reusing, Held
<1>5. StatusPairsOwnIndex /\ Counted /\ Searching /\ Discovering
  BY DEF StatusPairsOwnIndex, Counted, Searching, Discovering, Idle
<1> QED
  BY <1>2, <1>3, <1>4, <1>5 DEF IInv

\* Every step keeps it.
LEMMA NextIInv == IInv /\ [Next]_vars => IInv'
<1> SUFFICES ASSUME IInv, [Next]_vars PROVE IInv'
  OBVIOUS
<1>1. CASE (\E s \in Source : ChangeSource(s)) \/ CancelProjectJob \/ Close
  BY <1>1, CancelSteps
<1>2. CASE ChangeOtherHome
  BY <1>2, OtherHomeStep
<1>3. CASE StartProjectJob
  BY <1>3, StartStep
<1>4. ASSUME NEW j \in Job,
             \/ CallBuild(j) \/ OpenStore(j) \/ FinishStore(j) \/ BuildReturns(j)
             \/ BuildThrows(j) \/ StartValidation(j) \/ ValidationThrows(j)
             \/ CommitCancelled(j) \/ Catch(j)
      PROVE  IInv'
  BY <1>4, BuildSteps
<1>5. ASSUME NEW j \in Job, Commit(j)
      PROVE  IInv'
  BY <1>5, CommitStep
<1>6. ASSUME NEW j \in Job, LeaveScope(j)
      PROVE  IInv'
  BY <1>6, LeaveScopeStep
<1>7. ASSUME NEW q \in Search,
             OpenSearch(q) \/ ReadClosedStore(q) \/ ScanEnds(q) \/ AnswerSearch(q)
      PROVE  IInv'
  BY <1>7, SearchSteps
<1>8. ASSUME NEW d \in Discovery,
             Discover(d) \/ ConfiguredProjects(d) \/ ScannedProjects(d)
      PROVE  IInv'
  BY <1>8, DiscoverySteps
<1>9. CASE UNCHANGED vars
  BY <1>9 DEF vars, sourceVars, indexVars, IInv, TypeOK, Numbered, Running, Spilled, Live,
              LiveStore, Committed, Reusing, Held, StatusPairsOwnIndex, Counted, Searching,
              Discovering
<1> QED
  BY <1>1, <1>2, <1>3, <1>4, <1>5, <1>6, <1>7, <1>8, <1>9 DEF Next

\* The inductive invariant holds in every reachable state.
THEOREM InvariantHolds == Spec => []IInv
BY InitIInv, NextIInv, PTL DEF Spec

-----------------------------------------------------------------------------
(* The theorems *)

\* In every reachable state the variables have their types; the revision of the
\* index, which a client is sent, is bounded by what was started and changed.
THEOREM TypesCorrect == Spec => []TypeOK
<1>1. IInv => TypeOK
  BY DEF IInv
<1> QED
  BY <1>1, InvariantHolds, PTL

\* However builds overlap, at most one job can still commit: the one the client
\* can see and cancel.
THEOREM CommitExclusive == Spec => []OneJobMayCommit
<1>1. IInv => OneJobMayCommit
  BY StateFacts DEF IInv, Running, OneJobMayCommit
<1> QED
  BY <1>1, InvariantHolds, PTL

\* A job that /api/project/status shows as succeeded built the index that is
\* live, if one is.
THEOREM StatusHonest == Spec => []StatusPairsOwnIndex
<1>1. IInv => StatusPairsOwnIndex
  BY DEF IInv
<1> QED
  BY <1>1, InvariantHolds, PTL

\* No scope, cancellation or replacement disposes of the store of the live index.
THEOREM LiveStoreKept == Spec => []LiveStoreOpen
<1>1. IInv => LiveStoreOpen
  BY DEF IInv, Live, LiveStoreOpen
<1> QED
  BY <1>1, InvariantHolds, PTL

\* A store that is open is the live one, or its build has not left its scope.
THEOREM StoresAccounted == Spec => []NoStoreLeaks
<1>1. IInv => NoStoreLeaks
  BY DEF IInv, Held, NoStoreLeaks
<1> QED
  BY <1>1, InvariantHolds, PTL

\* The live index and the cached projects are of the source that is selected.
THEOREM SourcesAgree == Spec => []SourceConsistent
<1>1. IInv => SourceConsistent
  BY DEF IInv, Live, Discovering, SourceConsistent
<1> QED
  BY <1>1, InvariantHolds, PTL

\* A search that read a closed store answers that its revision was retired.
THEOREM ClosedStoreUnseen == Spec => []ClosedStoreNotPublished
<1>1. IInv => ClosedStoreNotPublished
  BY DEF IInv, Searching, ClosedStoreNotPublished
<1> QED
  BY <1>1, InvariantHolds, PTL

Ended == {"succeeded", "failed", "cancelled"}

\* A job that has ended while its build is still under way is cancelled.
LEMMA EndedEarly ==
    ASSUME IInv, NEW j \in Job, job[j].status \in Ended, job[j].phase \notin Over
    PROVE  job[j].status = "cancelled" /\ job[j].aborted
BY StateFacts DEF IInv, Running, Ended

\* A job the client has seen end does not end otherwise later on: a build that
\* returns or throws after it was cancelled leaves it cancelled.
THEOREM StatusFinal == Spec => StatusIsFinal
<1> DEFINE Kept(i) == job[i].status \in Ended => job'[i].status = job[i].status
<1>1. ASSUME IInv, [Next]_vars, NEW i \in Job
      PROVE  Kept(i)
  <2>1. CASE (\E s \in Source : ChangeSource(s)) \/ CancelProjectJob \/ Close
    <3>1. job' = JobsAfterCancel
      BY <2>1 DEF ChangeSource, CancelProjectJob, Close
    <3> QED
      BY <1>1, <3>1, CancelFacts DEF Ended
  <2>2. CASE StartProjectJob
    <3>1. /\ job' = [JobsAfterCancel EXCEPT ![started + 1] =
                       [status |-> "running", aborted |-> FALSE, phase |-> "queued",
                        source |-> source, previous |-> 0, result |-> 0]]
      BY <2>2 DEF StartProjectJob
    <3>2. job[i].status \in Ended => i <= started /\ i \in Int /\ started \in Int
      BY <1>1, StateFacts, ProjectAssumption DEF IInv, TypeOK, Ended, Job
    <3>3. job[i].status \in Ended => i # started + 1
      BY <3>2
    <3>4. job[i].status \in Ended => JobsAfterCancel[i] = job[i]
      BY <1>1, CancelFacts DEF Ended
    <3>5. job[i].status \in Ended => job'[i] = JobsAfterCancel[i]
      BY <1>1, <3>1, <3>3, CancelFacts
    <3> QED
      BY <3>4, <3>5
  <2>3. ASSUME NEW j \in Job,
               \/ CallBuild(j) \/ OpenStore(j) \/ FinishStore(j) \/ BuildReturns(j)
               \/ BuildThrows(j) \/ ValidationThrows(j) \/ LeaveScope(j)
        PROVE  Kept(i)
    <3>1. job[j].phase # "none"
      BY <2>3 DEF CallBuild, OpenStore, FinishStore, BuildReturns, BuildThrows,
                  ValidationThrows, LeaveScope
    <3>2. job[j] \in JobRecord /\ job \in [Job -> JobRecord \cup {Unstarted}]
      BY <1>1, <3>1, StateFacts DEF IInv, TypeOK
    <3>3. CASE OpenStore(j) \/ FinishStore(j)
      BY <3>3 DEF OpenStore, FinishStore
    <3>4. CASE CallBuild(j)
      BY <3>2, <3>4 DEF CallBuild, JobRecord
    <3>5. CASE BuildReturns(j)
      <4>1. PICK r : job' = [job EXCEPT ![j].phase = "built", ![j].result = r]
        BY <3>5 DEF BuildReturns
      <4> QED
        BY <3>2, <4>1 DEF JobRecord
    <3>6. CASE BuildThrows(j) \/ ValidationThrows(j)
      BY <3>2, <3>6 DEF BuildThrows, ValidationThrows, JobRecord
    <3>7. CASE LeaveScope(j)
      BY <3>2, <3>7 DEF LeaveScope, JobRecord
    <3> QED
      BY <2>3, <3>3, <3>4, <3>5, <3>6, <3>7
  <2>4. ASSUME NEW j \in Job, StartValidation(j) \/ CommitCancelled(j) \/ Catch(j)
        PROVE  Kept(i)
    <3>1. job[j].phase \notin Over
      BY <2>4 DEF StartValidation, CommitCancelled, Catch, Over
    <3>2. job[j].status \in Ended => job[j].status = "cancelled" /\ job[j].aborted
      BY <1>1, <3>1, EndedEarly
    <3>3. job[j].phase # "none"
      BY <2>4 DEF StartValidation, CommitCancelled, Catch
    <3>4. job[j] \in JobRecord /\ job \in [Job -> JobRecord \cup {Unstarted}]
      BY <1>1, <3>3, StateFacts DEF IInv, TypeOK
    <3>5. CASE StartValidation(j)
      BY <3>2, <3>4, <3>5 DEF StartValidation, JobRecord
    <3>6. CASE CommitCancelled(j)
      BY <3>2, <3>4, <3>6 DEF CommitCancelled, JobRecord
    <3>7. CASE Catch(j)
      BY <3>2, <3>4, <3>7 DEF Catch, JobRecord
    <3> QED
      BY <2>4, <3>5, <3>6, <3>7
  <2>5. ASSUME NEW j \in Job, Commit(j)
        PROVE  Kept(i)
    <3>1. job[j].phase \notin Over /\ ~job[j].aborted
      BY <2>5 DEF Commit, Over
    <3>2. job[j].status \notin Ended
      BY <1>1, <3>1, EndedEarly
    <3> QED
      BY <1>1, <2>5, <3>2 DEF Commit, IInv, TypeOK
  <2>6. CASE UNCHANGED job
    BY <2>6
  <2> QED
    <3>1. ASSUME NEW q \in Search,
                 OpenSearch(q) \/ ReadClosedStore(q) \/ ScanEnds(q) \/ AnswerSearch(q)
          PROVE  UNCHANGED job
      BY <3>1 DEF OpenSearch, ReadClosedStore, ScanEnds, AnswerSearch, searchStepVars
    <3>2. ASSUME NEW d \in Discovery,
                 Discover(d) \/ ConfiguredProjects(d) \/ ScannedProjects(d)
          PROVE  UNCHANGED job
      BY <3>2 DEF Discover, ConfiguredProjects, ScannedProjects, discoveryStepVars
    <3>3. ChangeOtherHome \/ UNCHANGED vars => UNCHANGED job
      BY DEF ChangeOtherHome, vars
    <3> QED
      BY <1>1, <2>1, <2>2, <2>3, <2>4, <2>5, <2>6, <3>1, <3>2, <3>3 DEF Next
<1>2. IInv /\ [Next]_vars =>
          [\A j \in Job : job[j].status \in {"succeeded", "failed", "cancelled"} =>
                job'[j].status = job[j].status]_vars
  BY <1>1 DEF Ended
<1> QED
  BY <1>2, InvariantHolds, PTL DEF Spec, StatusIsFinal

=============================================================================
