----------------------- MODULE Materialization_proofs -----------------------
(***************************************************************************)
(* Proofs about Materialization, for any sessions, requests, jobs, queue   *)
(* limit and number of revisions.                                          *)
(*                                                                         *)
(* The inductive invariant is stated over the values a state consists of,  *)
(* because pump() is called in the middle of a turn: every action first    *)
(* brings the queue, the job objects and the tables into values that       *)
(* satisfy it, and PumpSound carries it over the pump.                     *)
(*                                                                         *)
(* In the end, that the scheduler implements MaterializationService: each  *)
(* of its steps is, seen by the requests, a step of the service or none.   *)
(***************************************************************************)
EXTENDS MaterializationRefinement, SessionPrewarm, FiniteSums_proofs

-----------------------------------------------------------------------------
(* The parts of the inductive invariant: for the queue P in the order given *)
(* by order, the active jobs A, those F of them that are finishing, the job *)
(* objects J, the tables T, the caches C and the requests R, when ls is the *)
(* live revision and dead are the retired ones.                             *)

Table == [Revision -> [Session -> Job \cup {NoJob}]]

Typed(P, order, A, J, T) ==
    /\ P \subseteq Job /\ A \subseteq Job
    /\ order \in [Job -> SUBSET Job]
    /\ J \in [Job -> JobRecord \cup {Unused}]
    /\ T \in Table

\* A job object is in use as long as it is queued or active, and knows which.
Allocated(P, A, F, J) ==
    /\ P \cap A = {} /\ F \subseteq A
    /\ \A j \in Job : J[j] # Unused <=> j \in P \cup A
    /\ \A j \in P : J[j].status = "queued"
    /\ \A j \in A : J[j].status = "active"

\* The queue is ordered, and at most one job is active.
Serial(P, order, A) ==
    /\ \A j, k \in A : j = k
    /\ \A j, k \in P : j = k \/ j \in order[k] \/ k \in order[j]

\* Who waits, waits for a job of the live revision that is in its table; a job
\* nobody waits for is not queued, and is aborted unless it is finishing.
Observing(ls, dead, P, A, F, J, T) ==
    \A j \in P \cup A :
        /\ J[j].rev \in dead \cup {ls}
        /\ ~Unobserved(J[j]) => /\ J[j].rev = ls /\ J[j].rev \notin dead
                                /\ T[ls][J[j].session] = j /\ ~J[j].aborted
        /\ Unobserved(J[j]) => j \in A /\ (J[j].aborted \/ j \in F)
        /\ J[j].rev \in dead => J[j].aborted
        /\ j \in F => Unobserved(J[j])

\* What the table of a revision names is a job of it that will still settle.
Tabled(dead, P, A, F, J, T, C) ==
    \A r \in Revision, s \in Session : T[r][s] # NoJob =>
        /\ T[r][s] \in P \cup (A \ F)
        /\ J[T[r][s]].rev = r /\ J[T[r][s]].session = s
        /\ r \notin dead => ~J[T[r][s]].aborted /\ C[r][s] = "none"

\* The waiters of the jobs are the requests that wait.
Waited(P, A, J, R) ==
    /\ \A j \in P \cup A, w \in Request : w \in J[j].waiters =>
          R[w].phase = "waiting" /\ R[w].rev = J[j].rev /\ R[w].session = J[j].session
    /\ \A w \in Request : R[w].phase = "waiting" =>
          \E j \in P \cup A : w \in J[j].waiters

\* Speculation is for the prewarm loop, and only when nothing else is to do.
Yielding(P, A, F, J) ==
    \A j \in P \cup A :
        /\ J[j].prewarmer => J[j].speculative
        /\ J[j].speculative => J[j].waiters = {}
        /\ J[j].speculative /\ ~J[j].aborted /\ j \notin F => P \cup A = {j}

\* A retired revision has no cache.
Drained(ls, dead, C) ==
    /\ ls \notin dead
    /\ \A r \in dead, s \in Session : C[r][s] = "none"

Sound(ls, dead, P, order, A, F, J, T, C, R) ==
    /\ Typed(P, order, A, J, T)
    /\ Allocated(P, A, F, J)
    /\ Serial(P, order, A)
    /\ Observing(ls, dead, P, A, F, J, T)
    /\ Tabled(dead, P, A, F, J, T, C)
    /\ Waited(P, A, J, R)
    /\ Yielding(P, A, F, J)
    /\ Drained(ls, dead, C)

\* Revisions are numbered as they come.
Numbered == lease \in {0, revision} /\ retired \subseteq 1..revision

\* The types of the variables Sound does not speak of.
Surface ==
    /\ revision \in 0..MaxRevision
    /\ lease \in 0..MaxRevision
    /\ retired \subseteq Revision
    /\ pumpDue \in BOOLEAN
    /\ cache \in [Revision -> [Session -> Origin]]
    /\ request \in [Request -> RequestRecord \cup {Idle}]
    /\ prewarm \in [Revision -> PrewarmState]

IInv ==
    /\ Surface
    /\ Numbered
    /\ Sound(lease, retired, pending, ahead, active, finishing, job, jobs, cache, request)

-----------------------------------------------------------------------------

\* A job that is runnable is an object in use.
LEMMA RunnableIsRecord ==
    ASSUME NEW J \in JobRecord \cup {Unused}, NEW dead, Runnable(J, dead)
    PROVE  J \in JobRecord
BY DEF Runnable, Unused, JobRecord

\* pump() keeps the invariant: it starts the job at the head of the queue when
\* none is active, and as the queue holds no job it would have to discard, it
\* does nothing else.
LEMMA PumpSound ==
    ASSUME NEW ls, NEW dead, NEW P, NEW order, NEW A, NEW F, NEW J, NEW T, NEW C, NEW R,
           Sound(ls, dead, P, order, A, F, J, T, C, R),
           Pump(P, order, A, J, T, dead)
    PROVE  Sound(ls, dead, pending', ahead', active', F, job', jobs', C, R)
<1> DEFINE on == Started(P, order, A, J, dead)
<1> USE DEF Sound
<1>1. \A j \in P : Runnable(J[j], dead)
  BY DEF Allocated, Observing, Typed, Runnable
<1>2. Shifted(P, order, A, J, dead) = on /\ on \subseteq P
  BY <1>1 DEF Started, Shifted
<1>3. /\ pending' = P \ on /\ active' = A \cup on
      /\ ahead' = [j \in Job |-> IF j \in P \ on THEN order[j] \ on ELSE {}]
      /\ job' = [j \in Job |-> IF j \in on THEN [J[j] EXCEPT !.status = "active"] ELSE J[j]]
      /\ jobs' = T
  <2>1. Shifted(P, order, A, J, dead) \ on = {}
    BY <1>2
  <2>2. jobs' = [r \in Revision |-> [s \in Session |-> T[r][s]]]
    BY <1>2, <2>1 DEF Pump
  <2>3. jobs' = T
    BY <2>2 DEF Typed, Table
  <2> QED
    BY <1>2, <2>1, <2>3 DEF Pump, Typed
<1>4. on # {} => A = {}
  BY DEF Started, Shifted
<1>5. \A j, k \in on : j = k
  BY <1>1, <1>2 DEF Started, Shifted, Serial
<1>6. P \subseteq Job /\ on \subseteq Job
  BY <1>2 DEF Typed
<1>7. \A j \in on : J[j] \in JobRecord
  BY <1>1, <1>2, <1>6, RunnableIsRecord DEF Typed
<1>8. \A j \in Job :
        /\ job'[j] # Unused <=> J[j] # Unused
        /\ J[j] # Unused =>
             /\ job'[j].rev = J[j].rev /\ job'[j].session = J[j].session
             /\ job'[j].speculative = J[j].speculative
             /\ job'[j].prewarmer = J[j].prewarmer
             /\ job'[j].aborted = J[j].aborted /\ job'[j].waiters = J[j].waiters
             /\ Unobserved(job'[j]) <=> Unobserved(J[j])
        /\ job'[j].status = IF j \in on THEN "active" ELSE J[j].status
  BY <1>3, <1>7 DEF JobRecord, Unused, Unobserved
<1>9. Typed(pending', ahead', active', job', jobs')
  <2>1. job' \in [Job -> JobRecord \cup {Unused}]
    BY <1>3, <1>7 DEF Typed, JobRecord
  <2> QED
    BY <1>3, <1>6, <2>1 DEF Typed
<1>10. Allocated(pending', active', F, job')
  BY <1>2, <1>3, <1>6, <1>8 DEF Allocated, Typed
<1>11. Serial(pending', ahead', active')
  BY <1>2, <1>3, <1>4, <1>5, <1>6 DEF Serial
<1>12. pending' \cup active' = P \cup A
  BY <1>2, <1>3
<1>13. \A j \in P \cup A : j \in Job /\ J[j] # Unused
  BY DEF Allocated, Typed
<1>14. Observing(ls, dead, pending', active', F, job', jobs')
  BY <1>3, <1>8, <1>12, <1>13 DEF Observing
<1>15. Tabled(dead, pending', active', F, job', jobs', C)
  BY <1>2, <1>3, <1>8, <1>12, <1>13 DEF Tabled, Allocated
<1>16. Waited(pending', active', job', R)
  BY <1>8, <1>12, <1>13 DEF Waited
<1>17. Yielding(pending', active', F, job')
  BY <1>8, <1>12, <1>13 DEF Yielding
<1> QED
  BY <1>9, <1>10, <1>11, <1>14, <1>15, <1>16, <1>17

-----------------------------------------------------------------------------
(* What an action does to the values of a state before it pumps. *)

\* The fields of a job object, and what it is to have them.
LEMMA JobFields ==
    ASSUME NEW K \in JobRecord
    PROVE  /\ K # Unused
           /\ K.waiters \subseteq Request /\ K.rev \in Revision /\ K.session \in Session
           /\ K.waiters # {} => ~Unobserved(K)
BY DEF JobRecord, Unused, Unobserved

\* L is the object K after some of its other fields were assigned.
SameJob(K, L) ==
    /\ L.rev = K.rev /\ L.session = K.session /\ L.status = K.status
    /\ L # Unused

\* The jobs of the queue and the active jobs are job objects.
LEMMA InUse ==
    ASSUME NEW P, NEW order, NEW A, NEW F, NEW J, NEW T,
           Typed(P, order, A, J, T), Allocated(P, A, F, J),
           NEW j \in P \cup A
    PROVE  j \in Job /\ J[j] \in JobRecord
BY DEF Typed, Allocated

\* A change of the requests and the caches that concerns nobody who waits and
\* caches nothing more.
LEMMA QuietSound ==
    ASSUME NEW ls, NEW dead, NEW P, NEW order, NEW A, NEW F, NEW J, NEW T, NEW C, NEW R,
           Sound(ls, dead, P, order, A, F, J, T, C, R),
           dead \subseteq Revision,
           NEW C2, NEW R2,
           \A r \in Revision, s \in Session : C[r][s] = "none" => C2[r][s] = "none",
           \A v \in Request : \/ R2[v] = R[v]
                              \/ R[v].phase # "waiting" /\ R2[v].phase # "waiting"
    PROVE  Sound(ls, dead, P, order, A, F, J, T, C2, R2)
<1>1. Waited(P, A, J, R2)
  BY DEF Sound, Waited
<1>2. Tabled(dead, P, A, F, J, T, C2)
  BY DEF Sound, Tabled
<1>3. Drained(ls, dead, C2)
  BY DEF Sound, Drained
<1> QED
  BY <1>1, <1>2, <1>3 DEF Sound

\* The waiting request w joins the job j of session s.
Joins(ls, dead, J, T, R, J2, R2, j, w, s) ==
    /\ ls \in Revision /\ ls \notin dead /\ w \in Request /\ s \in Session
    /\ j # NoJob /\ j = T[ls][s]
    /\ J2 \in [Job -> JobRecord \cup {Unused}]
    /\ \A k \in Job : k # j => J2[k] = J[k]
    /\ SameJob(J[j], J2[j]) /\ J2[j].aborted = J[j].aborted
    /\ J2[j].waiters = J[j].waiters \cup {w}
    /\ ~J2[j].speculative /\ ~J2[j].prewarmer
    /\ R[w].phase # "waiting"
    /\ R2[w].phase = "waiting" /\ R2[w].rev = ls /\ R2[w].session = s
    /\ \A v \in Request : v # w => R2[v] = R[v]

\* A request joins the session's job, which becomes a foreground job.
LEMMA JoinSound ==
    ASSUME NEW ls, NEW dead, NEW P, NEW order, NEW A, NEW F, NEW J, NEW T, NEW C, NEW R,
           Sound(ls, dead, P, order, A, F, J, T, C, R),
           NEW J2, NEW R2, NEW j, NEW w, NEW s,
           Joins(ls, dead, J, T, R, J2, R2, j, w, s)
    PROVE  Sound(ls, dead, P, order, A, F, J2, T, C, R2)
<1> USE DEF Joins
<1>2. j \in P \cup (A \ F) /\ J[j].rev = ls /\ J[j].session = s /\ ~J[j].aborted
  BY DEF Sound, Tabled
<1>3. j \in Job /\ J[j] \in JobRecord
  BY <1>2, InUse DEF Sound
<1>4. J2[j].waiters = J[j].waiters \cup {w}
  OBVIOUS
<1>5. J2[j].rev = ls /\ J2[j].session = s /\ J2[j].status = J[j].status
  BY <1>2 DEF SameJob
<1>6. ~J2[j].aborted
  BY <1>2
<1>7. ~J2[j].speculative /\ ~J2[j].prewarmer
  OBVIOUS
<1>8. J2[j] # Unused /\ ~Unobserved(J2[j])
  BY <1>4 DEF SameJob, Unobserved
<1>9. \A k \in P \cup A : k \in Job
  BY DEF Sound, Typed
<1>10. Typed(P, order, A, J2, T)
  BY DEF Sound, Typed
<1>11. Allocated(P, A, F, J2)
  BY <1>2, <1>5, <1>8, <1>9 DEF Sound, Allocated
<1>12. Observing(ls, dead, P, A, F, J2, T)
  BY <1>2, <1>5, <1>6, <1>8, <1>9 DEF Sound, Observing, Allocated
<1>13. Tabled(dead, P, A, F, J2, T, C)
  BY <1>2, <1>5, <1>6, <1>9 DEF Sound, Tabled
<1>14. Waited(P, A, J2, R2)
  <2>1. \A k \in P \cup A : w \notin J[k].waiters
    BY DEF Sound, Waited
  <2>2. \A k \in P \cup A, v \in Request : v \in J2[k].waiters =>
          R2[v].phase = "waiting" /\ R2[v].rev = J2[k].rev /\ R2[v].session = J2[k].session
    BY <1>2, <1>4, <1>5, <1>9, <2>1 DEF Sound, Waited
  <2>3. \A v \in Request : R2[v].phase = "waiting" => \E k \in P \cup A : v \in J2[k].waiters
    BY <1>2, <1>4, <1>9 DEF Sound, Waited
  <2> QED
    BY <2>2, <2>3 DEF Waited
<1>15. Yielding(P, A, F, J2)
  BY <1>2, <1>7, <1>9 DEF Sound, Yielding
<1> QED
  BY <1>10, <1>11, <1>12, <1>13, <1>14, <1>15 DEF Sound

\* The new job N, which is j, of the live revision's session s is observed
\* by the prewarm loop, or by requests that wait for nothing yet.
Enqueues(ls, dead, P, order, A, F, J, T, C, R, order2, J2, T2, R2, s, j, N) ==
    /\ ls \in Revision /\ ls \notin dead /\ NoJob \notin Job
    /\ s \in Session /\ T[ls][s] = NoJob /\ C[ls][s] = "none"
    /\ j \in Job /\ J[j] = Unused
    /\ N \in JobRecord
    /\ N.rev = ls /\ N.session = s /\ N.status = "queued" /\ ~N.aborted /\ ~Unobserved(N)
    /\ N.prewarmer => N.speculative
    /\ N.speculative => P \cup A = {} /\ N.waiters = {}
    /\ \A k \in P \cup A : J[k].speculative /\ ~J[k].aborted => k \in F
    /\ order2 \in [Job -> SUBSET Job] /\ order2[j] = P
    /\ \A k \in Job : k # j => order2[k] = order[k]
    /\ J2 \in [Job -> JobRecord \cup {Unused}] /\ J2[j] = N
    /\ \A k \in Job : k # j => J2[k] = J[k]
    /\ T2 \in Table /\ T2[ls][s] = j
    /\ \A r \in Revision, x \in Session : r # ls \/ x # s => T2[r][x] = T[r][x]
    /\ \A v \in Request : v \in N.waiters =>
          R[v].phase # "waiting" /\ R2[v].phase = "waiting"
          /\ R2[v].rev = ls /\ R2[v].session = s
    /\ \A v \in Request : v \notin N.waiters => R2[v] = R[v]

\* A new job N is pushed behind the queue: when it is speculative there is
\* nothing else to do, and otherwise nothing speculative is left to do.
LEMMA EnqueueSound ==
    ASSUME NEW ls, NEW dead, NEW P, NEW order, NEW A, NEW F, NEW J, NEW T, NEW C, NEW R,
           Sound(ls, dead, P, order, A, F, J, T, C, R),
           NEW order2, NEW J2, NEW T2, NEW R2, NEW s, NEW j, NEW N,
           Enqueues(ls, dead, P, order, A, F, J, T, C, R, order2, J2, T2, R2, s, j, N)
    PROVE  Sound(ls, dead, P \cup {j}, order2, A, F, J2, T2, C, R2)
<1> USE DEF Enqueues
<1>1. j \notin P \cup A
  BY DEF Sound, Allocated
<1>2. J2[j] = N /\ (\A k \in Job : k # j => J2[k] = J[k])
  BY DEF Sound, Typed
<1>3. P \subseteq Job /\ A \subseteq Job
  BY DEF Sound, Typed
<1>4. order2 \in [Job -> SUBSET Job] /\ order2[j] = P
      /\ (\A k \in Job : k # j => order2[k] = order[k])
  BY <1>3 DEF Sound, Typed
<1>5. N # Unused
  BY JobFields
<1>6. Typed(P \cup {j}, order2, A, J2, T2)
  BY <1>3, <1>4 DEF Sound, Typed
<1>7. Allocated(P \cup {j}, A, F, J2)
  BY <1>1, <1>2, <1>3, <1>5 DEF Sound, Allocated
<1>8. Serial(P \cup {j}, order2, A)
  BY <1>1, <1>3, <1>4 DEF Sound, Serial
<1>9. Observing(ls, dead, P \cup {j}, A, F, J2, T2)
  <2>1. j \notin F
    BY <1>1 DEF Sound, Allocated
  <2>2. \A k \in P \cup A : ~Unobserved(J[k]) => T2[ls][J[k].session] = k
    <3> SUFFICES ASSUME NEW k \in P \cup A, ~Unobserved(J[k])
                 PROVE  T2[ls][J[k].session] = k
      OBVIOUS
    <3>1. k \in Job /\ J[k] \in JobRecord
      BY InUse DEF Sound
    <3>2. J[k].session \in Session /\ T[ls][J[k].session] = k
      BY <3>1, JobFields DEF Sound, Observing
    <3>3. J[k].session # s
      BY <3>1, <3>2
    <3> QED
      BY <3>2, <3>3
  <2> QED
    BY <1>1, <1>2, <1>3, <2>1, <2>2 DEF Sound, Observing
<1>10. Tabled(dead, P \cup {j}, A, F, J2, T2, C)
  <2> SUFFICES ASSUME NEW r \in Revision, NEW x \in Session, T2[r][x] # NoJob
               PROVE  /\ T2[r][x] \in P \cup {j} \cup (A \ F)
                      /\ J2[T2[r][x]].rev = r /\ J2[T2[r][x]].session = x
                      /\ r \notin dead => ~J2[T2[r][x]].aborted /\ C[r][x] = "none"
    BY DEF Tabled
  <2>1. CASE r = ls /\ x = s
    BY <1>2, <2>1
  <2>2. CASE r # ls \/ x # s
    BY <1>1, <1>2, <1>3, <2>2 DEF Sound, Tabled
  <2> QED
    BY <2>1, <2>2
<1>11. Waited(P \cup {j}, A, J2, R2)
  <2>1. \A k \in P \cup A, v \in Request : v \in J[k].waiters => v \notin N.waiters
    BY DEF Sound, Waited
  <2>2. \A k \in P \cup {j} \cup A, v \in Request : v \in J2[k].waiters =>
          R2[v].phase = "waiting" /\ R2[v].rev = J2[k].rev /\ R2[v].session = J2[k].session
    BY <1>1, <1>2, <1>3, <2>1 DEF Sound, Waited
  <2>3. \A v \in Request : R2[v].phase = "waiting" =>
          \E k \in P \cup {j} \cup A : v \in J2[k].waiters
    BY <1>1, <1>2, <1>3 DEF Sound, Waited
  <2> QED
    BY <2>2, <2>3 DEF Waited
<1>12. Yielding(P \cup {j}, A, F, J2)
  BY <1>1, <1>2, <1>3 DEF Sound, Yielding
<1> QED
  BY <1>6, <1>7, <1>8, <1>9, <1>10, <1>11, <1>12 DEF Sound

\* The jobs of G are dropped.
Drops(P, order, A, J, T, R, order2, J2, T2, R2, G) ==
    /\ NoJob \notin Job
    /\ G \subseteq P \cup A
    /\ order2 \in [Job -> SUBSET Job]
    /\ \A j \in Job : order[j] \ G \subseteq order2[j]
    /\ J2 \in [Job -> JobRecord \cup {Unused}]
    /\ \A j \in G \cap P : J2[j] = Unused
    /\ \A j \in G \cap A : /\ J2[j].waiters = {} /\ ~J2[j].prewarmer /\ J2[j].aborted
                           /\ J2[j].speculative = J[j].speculative
                           /\ SameJob(J[j], J2[j])
    /\ \A j \in Job : j \notin G => J2[j] = J[j]
    /\ T2 \in Table
    /\ \A r \in Revision, s \in Session :
          T2[r][s] = IF T[r][s] \in G THEN NoJob ELSE T[r][s]
    /\ \A v \in Request : IF \E j \in G : v \in J[j].waiters
                          THEN R2[v].phase # "waiting"
                          ELSE R2[v] = R[v]

\* The jobs of G lose whoever waited for them: those that are queued leave the
\* queue, those that are active are aborted, and all of them leave the tables.
LEMMA DropSound ==
    ASSUME NEW ls, NEW dead, NEW P, NEW order, NEW A, NEW F, NEW J, NEW T, NEW C, NEW R,
           Sound(ls, dead, P, order, A, F, J, T, C, R),
           NEW order2, NEW J2, NEW T2, NEW R2, NEW G,
           Drops(P, order, A, J, T, R, order2, J2, T2, R2, G)
    PROVE  Sound(ls, dead, P \ G, order2, A, F, J2, T2, C, R2)
<1> USE DEF Drops
<1>1. P \subseteq Job /\ A \subseteq Job /\ P \cap A = {} /\ F \subseteq A
  BY DEF Sound, Typed, Allocated
<1>2. \A r \in Revision, s \in Session : T2[r][s] = IF T[r][s] \in G THEN NoJob ELSE T[r][s]
  OBVIOUS
<1>3. T2 \in Table
  OBVIOUS
<1>4. order2 \in [Job -> SUBSET Job] /\ (\A j \in Job : order[j] \ G \subseteq order2[j])
  OBVIOUS
<1>5. Typed(P \ G, order2, A, J2, T2)
  BY <1>1, <1>3, <1>4 DEF Typed
<1>6. Allocated(P \ G, A, F, J2)
  <2>1. \A j \in Job : J2[j] # Unused <=> j \in (P \ G) \cup A
    BY <1>1 DEF Sound, Allocated, SameJob
  <2>2. \A j \in P \ G : J2[j].status = "queued"
    BY <1>1 DEF Sound, Allocated, SameJob
  <2>3. \A j \in A : J2[j].status = "active"
    BY <1>1 DEF Sound, Allocated, SameJob
  <2> QED
    BY <1>1, <2>1, <2>2, <2>3 DEF Allocated
<1>7. Serial(P \ G, order2, A)
  BY <1>1, <1>4 DEF Sound, Serial
<1>8. Observing(ls, dead, P \ G, A, F, J2, T2)
  <2>1. \A j \in G \cap A : Unobserved(J2[j])
    BY DEF Unobserved
  <2>2. \A j \in (P \cup A) \ G :
          /\ J2[j] = J[j] /\ j \in Job
          /\ ~Unobserved(J[j]) => T2[ls][J[j].session] = j
    <3> SUFFICES ASSUME NEW j \in (P \cup A) \ G
                 PROVE  /\ J2[j] = J[j] /\ j \in Job
                        /\ ~Unobserved(J[j]) => T2[ls][J[j].session] = j
      OBVIOUS
    <3>1. j \in Job /\ J[j] \in JobRecord
      BY InUse DEF Sound
    <3>2. ~Unobserved(J[j]) => ls \in Revision /\ J[j].session \in Session
                               /\ T[ls][J[j].session] = j
      BY <3>1, JobFields DEF Sound, Observing
    <3> QED
      BY <1>2, <3>1, <3>2
  <2>3. \A j \in (P \ G) \cup A : j \notin G \/ j \in G \cap A
    BY <1>1
  <2>4. \A j \in G \cap A : J2[j].rev \in dead \cup {ls} /\ j \in A /\ J2[j].aborted
    BY DEF Sound, Observing, SameJob
  <2>5. \A j \in (P \cup A) \ G :
          /\ J2[j].rev \in dead \cup {ls}
          /\ ~Unobserved(J2[j]) => /\ J2[j].rev = ls /\ J2[j].rev \notin dead
                                   /\ T2[ls][J2[j].session] = j /\ ~J2[j].aborted
          /\ Unobserved(J2[j]) => j \in A /\ (J2[j].aborted \/ j \in F)
          /\ J2[j].rev \in dead => J2[j].aborted
          /\ j \in F => Unobserved(J2[j])
    BY <2>2 DEF Sound, Observing
  <2> QED
    BY <2>1, <2>3, <2>4, <2>5 DEF Observing
<1>9. Tabled(dead, P \ G, A, F, J2, T2, C)
  <2> SUFFICES ASSUME NEW r \in Revision, NEW s \in Session, T2[r][s] # NoJob
               PROVE  /\ T2[r][s] \in (P \ G) \cup (A \ F)
                      /\ J2[T2[r][s]].rev = r /\ J2[T2[r][s]].session = s
                      /\ r \notin dead => ~J2[T2[r][s]].aborted /\ C[r][s] = "none"
    BY DEF Tabled
  <2>1. T2[r][s] = T[r][s] /\ T[r][s] \notin G
    BY <1>2
  <2> QED
    BY <1>1, <2>1 DEF Sound, Tabled, SameJob
<1>10. Waited(P \ G, A, J2, R2)
  <2>1. \A j \in P \cup A, v \in Request : v \in J[j].waiters =>
          R[v].phase = "waiting" /\ R[v].rev = J[j].rev /\ R[v].session = J[j].session
    BY DEF Sound, Waited
  <2>2. \A j, k \in P \cup A, v \in Request :
          v \in J[j].waiters /\ v \in J[k].waiters => j = k
    <3> SUFFICES ASSUME NEW j \in P \cup A, NEW k \in P \cup A, NEW v \in Request,
                        v \in J[j].waiters, v \in J[k].waiters
                 PROVE  j = k
      OBVIOUS
    <3>1. J[j].session = J[k].session
      BY <2>1
    <3>2. ~Unobserved(J[j]) /\ ~Unobserved(J[k])
      BY DEF Unobserved
    <3> QED
      BY <3>1, <3>2 DEF Sound, Observing
  <2>3. \A j \in (P \ G) \cup A, v \in Request : v \in J2[j].waiters =>
          j \notin G /\ J2[j] = J[j] /\ R2[v] = R[v]
    BY <1>1, <2>2
  <2>4. \A v \in Request : R2[v].phase = "waiting" =>
          \E j \in (P \ G) \cup A : v \in J2[j].waiters
    <3> SUFFICES ASSUME NEW v \in Request, R2[v].phase = "waiting"
                 PROVE  \E j \in (P \ G) \cup A : v \in J2[j].waiters
      OBVIOUS
    <3>1. R2[v] = R[v] /\ ~\E j \in G : v \in J[j].waiters
      OBVIOUS
    <3>2. PICK j \in P \cup A : v \in J[j].waiters
      BY <3>1 DEF Sound, Waited
    <3> QED
      BY <1>1, <3>1, <3>2
  <2>5. \A j \in (P \ G) \cup A, v \in Request : v \in J2[j].waiters =>
          R2[v].phase = "waiting" /\ R2[v].rev = J2[j].rev /\ R2[v].session = J2[j].session
    BY <2>1, <2>3
  <2> QED
    BY <2>4, <2>5 DEF Waited
<1>11. Yielding(P \ G, A, F, J2)
  BY <1>1 DEF Sound, Yielding
<1> QED
  BY <1>5, <1>6, <1>7, <1>8, <1>9, <1>10, <1>11 DEF Sound

\* The request w stops waiting for j, for which others wait.
Leaves(P, A, J, R, J2, R2, w, j) ==
    /\ w \in Request /\ j \in P \cup A /\ w \in J[j].waiters
    /\ J2 \in [Job -> JobRecord \cup {Unused}]
    /\ \A k \in Job : k # j => J2[k] = J[k]
    /\ SameJob(J[j], J2[j]) /\ J2[j].aborted = J[j].aborted
    /\ J2[j].speculative = J[j].speculative /\ J2[j].prewarmer = J[j].prewarmer
    /\ J2[j].waiters = J[j].waiters \ {w}
    /\ ~Unobserved(J2[j])
    /\ R2[w].phase # "waiting"
    /\ \A v \in Request : v # w => R2[v] = R[v]

\* A job loses a waiter and keeps another.
LEMMA LeaveSound ==
    ASSUME NEW ls, NEW dead, NEW P, NEW order, NEW A, NEW F, NEW J, NEW T, NEW C, NEW R,
           Sound(ls, dead, P, order, A, F, J, T, C, R),
           NEW J2, NEW R2, NEW w, NEW j,
           Leaves(P, A, J, R, J2, R2, w, j)
    PROVE  Sound(ls, dead, P, order, A, F, J2, T, C, R2)
<1> USE DEF Leaves
<1>1. j \in Job /\ J[j] \in JobRecord
  BY InUse DEF Sound
<1>2. J2[j].waiters = J[j].waiters \ {w}
  OBVIOUS
<1>3. /\ J2[j].rev = J[j].rev /\ J2[j].session = J[j].session
      /\ J2[j].status = J[j].status /\ J2[j].aborted = J[j].aborted
      /\ J2[j].speculative = J[j].speculative /\ J2[j].prewarmer = J[j].prewarmer
  BY DEF SameJob
<1>4. J2[j] # Unused
  BY DEF SameJob
<1>5. \A k \in P \cup A : k \in Job
  BY DEF Sound, Typed
<1>6. ~Unobserved(J[j])
  BY DEF Unobserved
<1>6a. \A k \in P \cup A :
          /\ J2[k].rev = J[k].rev /\ J2[k].session = J[k].session
          /\ J2[k].aborted = J[k].aborted
          /\ Unobserved(J2[k]) <=> Unobserved(J[k])
  BY <1>3, <1>5, <1>6
<1>7. Typed(P, order, A, J2, T)
  BY DEF Sound, Typed
<1>8. Allocated(P, A, F, J2)
  BY <1>3, <1>4, <1>5 DEF Sound, Allocated
<1>9. Observing(ls, dead, P, A, F, J2, T)
  BY <1>6a DEF Sound, Observing
<1>10. Tabled(dead, P, A, F, J2, T, C)
  BY <1>6a DEF Sound, Tabled
<1>11. Waited(P, A, J2, R2)
  <2>1. \A k \in P \cup A : k # j => w \notin J[k].waiters
    <3> SUFFICES ASSUME NEW k \in P \cup A, w \in J[k].waiters
                 PROVE  k = j
      OBVIOUS
    <3>1. J[j].session = J[k].session
      BY DEF Sound, Waited
    <3>2. ~Unobserved(J[k])
      BY DEF Unobserved
    <3> QED
      BY <1>6, <3>1, <3>2 DEF Sound, Observing
  <2>2. \A k \in P \cup A, v \in Request : v \in J2[k].waiters =>
          v # w /\ v \in J[k].waiters /\ J2[k].rev = J[k].rev /\ J2[k].session = J[k].session
    BY <1>2, <1>3, <1>5, <2>1
  <2>3. \A v \in Request : R2[v].phase = "waiting" => \E k \in P \cup A : v \in J2[k].waiters
    BY <1>2, <1>5 DEF Sound, Waited
  <2>4. \A k \in P \cup A, v \in Request : v \in J2[k].waiters =>
          R2[v].phase = "waiting" /\ R2[v].rev = J2[k].rev /\ R2[v].session = J2[k].session
    BY <2>2 DEF Sound, Waited
  <2> QED
    BY <2>3, <2>4 DEF Waited
<1>12. Yielding(P, A, F, J2)
  <2>1. J[j].speculative => J2[j].waiters = {}
    BY <1>2 DEF Sound, Yielding
  <2> QED
    BY <1>3, <1>5, <2>1 DEF Sound, Yielding
<1> QED
  BY <1>7, <1>8, <1>9, <1>10, <1>11, <1>12 DEF Sound

\* The materializer of j settles.
Settles(dead, A, F, J, T, C, R, J2, T2, C2, R2, j) ==
    /\ NoJob \notin Job /\ dead \subseteq Revision
    /\ j \in A /\ j \notin F
    /\ J2 \in [Job -> JobRecord \cup {Unused}]
    /\ \A k \in Job : k # j => J2[k] = J[k]
    /\ SameJob(J[j], J2[j]) /\ J2[j].aborted = J[j].aborted
    /\ J2[j].speculative = J[j].speculative
    /\ J2[j].waiters = {} /\ ~J2[j].prewarmer
    /\ T2 \in Table
    /\ \A r \in Revision, s \in Session :
          T2[r][s] = IF T[r][s] = j THEN NoJob ELSE T[r][s]
    /\ \A r \in Revision, s \in Session : C[r][s] = "none" =>
          C2[r][s] = "none" \/ (r \notin dead /\ T[r][s] = j)
    /\ \A v \in Request : IF v \in J[j].waiters
                          THEN R2[v].phase # "waiting"
                          ELSE R2[v] = R[v]

\* An active job settles: it settles its waiters and leaves its table, and its
\* session may be cached, in a revision that is not retired, when the job was
\* that revision's entry.
LEMMA ObservedSound ==
    ASSUME NEW ls, NEW dead, NEW P, NEW order, NEW A, NEW F, NEW J, NEW T, NEW C, NEW R,
           Sound(ls, dead, P, order, A, F, J, T, C, R),
           NEW J2, NEW T2, NEW C2, NEW R2, NEW j,
           Settles(dead, A, F, J, T, C, R, J2, T2, C2, R2, j)
    PROVE  Sound(ls, dead, P, order, A, F \cup {j}, J2, T2, C2, R2)
<1> USE DEF Settles
<1>1. j \in Job /\ J[j] \in JobRecord
  BY InUse DEF Sound
<1>2. J2[j].waiters = {} /\ ~J2[j].prewarmer
  OBVIOUS
<1>3. /\ J2[j].rev = J[j].rev /\ J2[j].session = J[j].session
      /\ J2[j].status = J[j].status /\ J2[j].aborted = J[j].aborted
      /\ J2[j].speculative = J[j].speculative
  BY DEF SameJob
<1>4. J2[j] # Unused
  BY DEF SameJob
<1>5. /\ P \subseteq Job /\ A \subseteq Job /\ P \cap A = {}
      /\ \A k \in P \cup A : k # j => J2[k] = J[k]
  BY DEF Sound, Typed, Allocated
<1>6. \A r \in Revision, s \in Session : T2[r][s] = IF T[r][s] = j THEN NoJob ELSE T[r][s]
  OBVIOUS
<1>7. T2 \in Table
  OBVIOUS
<1>8. Typed(P, order, A, J2, T2)
  BY <1>7 DEF Sound, Typed
<1>9. Allocated(P, A, F \cup {j}, J2)
  BY <1>1, <1>3, <1>4, <1>5 DEF Sound, Allocated
<1>10. Observing(ls, dead, P, A, F \cup {j}, J2, T2)
  <2>1. Unobserved(J2[j])
    BY <1>2 DEF Unobserved
  <2>2. \A k \in P \cup A : k # j /\ ~Unobserved(J[k]) => T2[ls][J[k].session] = k
    <3> SUFFICES ASSUME NEW k \in P \cup A, k # j, ~Unobserved(J[k])
                 PROVE  T2[ls][J[k].session] = k
      OBVIOUS
    <3>1. k \in Job /\ J[k] \in JobRecord
      BY InUse DEF Sound
    <3>2. ls \in Revision /\ J[k].session \in Session /\ T[ls][J[k].session] = k
      BY <3>1, JobFields DEF Sound, Observing
    <3> QED
      BY <1>6, <3>2
  <2>3. /\ J2[j].rev \in dead \cup {ls}
        /\ J2[j].rev \in dead => J2[j].aborted
    BY <1>3 DEF Sound, Observing
  <2> QED
    BY <1>5, <2>1, <2>2, <2>3 DEF Sound, Observing
<1>11. Tabled(dead, P, A, F \cup {j}, J2, T2, C2)
  <2> SUFFICES ASSUME NEW r \in Revision, NEW s \in Session, T2[r][s] # NoJob
               PROVE  /\ T2[r][s] \in P \cup (A \ (F \cup {j}))
                      /\ J2[T2[r][s]].rev = r /\ J2[T2[r][s]].session = s
                      /\ r \notin dead => ~J2[T2[r][s]].aborted /\ C2[r][s] = "none"
    BY DEF Tabled
  <2>1. T2[r][s] = T[r][s] /\ T[r][s] # j
    BY <1>6
  <2>2. T[r][s] \in P \cup A
    BY <2>1 DEF Sound, Tabled
  <2> QED
    BY <1>5, <2>1, <2>2 DEF Sound, Tabled
<1>12. Waited(P, A, J2, R2)
  <2>1. \A k \in P \cup A, v \in Request : v \in J[k].waiters =>
          R[v].phase = "waiting" /\ R[v].rev = J[k].rev /\ R[v].session = J[k].session
    BY DEF Sound, Waited
  <2>2. \A k \in P \cup A, v \in Request : v \in J[k].waiters /\ v \in J[j].waiters => k = j
    <3> SUFFICES ASSUME NEW k \in P \cup A, NEW v \in Request,
                        v \in J[k].waiters, v \in J[j].waiters
                 PROVE  k = j
      OBVIOUS
    <3>1. J[j].session = J[k].session
      BY <2>1
    <3>2. ~Unobserved(J[k]) /\ ~Unobserved(J[j])
      BY DEF Unobserved
    <3> QED
      BY <3>1, <3>2 DEF Sound, Observing
  <2>3. \A k \in P \cup A, v \in Request : v \in J2[k].waiters =>
          J2[k] = J[k] /\ R2[v] = R[v]
    BY <1>2, <1>5, <2>2
  <2>4. \A v \in Request : R2[v].phase = "waiting" => \E k \in P \cup A : v \in J2[k].waiters
    BY <1>5 DEF Sound, Waited
  <2>5. \A k \in P \cup A, v \in Request : v \in J2[k].waiters =>
          R2[v].phase = "waiting" /\ R2[v].rev = J2[k].rev /\ R2[v].session = J2[k].session
    BY <2>1, <2>3
  <2> QED
    BY <2>4, <2>5 DEF Waited
<1>13. Yielding(P, A, F \cup {j}, J2)
  BY <1>2, <1>3, <1>5 DEF Sound, Yielding
<1>14. Drained(ls, dead, C2)
  BY DEF Sound, Drained
<1> QED
  BY <1>8, <1>9, <1>10, <1>11, <1>12, <1>13, <1>14 DEF Sound

\* The slot of a job that settled is freed.
LEMMA FinalizeSound ==
    ASSUME NEW ls, NEW dead, NEW P, NEW order, NEW A, NEW F, NEW J, NEW T, NEW C, NEW R,
           Sound(ls, dead, P, order, A, F, J, T, C, R),
           NEW j \in F,
           NEW J2 \in [Job -> JobRecord \cup {Unused}], J2[j] = Unused,
           \A k \in Job : k # j => J2[k] = J[k]
    PROVE  Sound(ls, dead, P, order, A \ {j}, F \ {j}, J2, T, C, R)
<1>1. /\ P \subseteq Job /\ A \subseteq Job /\ P \cap A = {} /\ F \subseteq A
      /\ j \in Job /\ J2[j] = Unused /\ (\A k \in Job : k # j => J2[k] = J[k])
  BY DEF Sound, Typed, Allocated
<1>2. J[j].waiters = {}
  BY <1>1 DEF Sound, Observing, Unobserved
<1>3. Typed(P, order, A \ {j}, J2, T)
  BY <1>1 DEF Sound, Typed
<1>4. Allocated(P, A \ {j}, F \ {j}, J2)
  BY <1>1 DEF Sound, Allocated
<1>5. Serial(P, order, A \ {j})
  BY DEF Sound, Serial
<1>6. Observing(ls, dead, P, A \ {j}, F \ {j}, J2, T)
  BY <1>1 DEF Sound, Observing
<1>7. Tabled(dead, P, A \ {j}, F \ {j}, J2, T, C)
  BY <1>1 DEF Sound, Tabled
<1>8. Waited(P, A \ {j}, J2, R)
  BY <1>1, <1>2 DEF Sound, Waited
<1>9. Yielding(P, A \ {j}, F \ {j}, J2)
  BY <1>1 DEF Sound, Yielding
<1> QED
  BY <1>3, <1>4, <1>5, <1>6, <1>7, <1>8, <1>9 DEF Sound

\* What is queued is queued for the live revision.
LEMMA QueueIsLive ==
    ASSUME NEW ls, NEW dead, NEW P, NEW order, NEW A, NEW F, NEW J, NEW T, NEW C, NEW R,
           Sound(ls, dead, P, order, A, F, J, T, C, R)
    PROVE  /\ \A j \in P : J[j].rev = ls
           /\ \A j \in A : J[j].rev # ls => Unobserved(J[j]) /\ J[j].aborted
BY DEF Sound, Observing, Allocated

\* The fields of an active job of a revision that is being retired.
LEMMA RetiredFields ==
    ASSUME NEW K \in JobRecord, NEW L,
           \/ L = [K EXCEPT !.waiters = {}, !.prewarmer = FALSE, !.aborted = TRUE]
           \/ L = K /\ Unobserved(K) /\ K.aborted
    PROVE  /\ SameJob(K, L)
           /\ L.waiters = {} /\ ~L.prewarmer /\ L.aborted
<1>1. CASE L = [K EXCEPT !.waiters = {}, !.prewarmer = FALSE, !.aborted = TRUE]
  <2>1. L.rev = K.rev /\ L.session = K.session /\ L.status = K.status
    BY <1>1 DEF JobRecord
  <2>2. L.waiters = {} /\ ~L.prewarmer /\ L.aborted
    BY <1>1 DEF JobRecord
  <2>3. L # Unused
    BY <1>1 DEF JobRecord, Unused
  <2> QED
    BY <2>1, <2>2, <2>3 DEF SameJob
<1>2. CASE L = K /\ Unobserved(K) /\ K.aborted
  BY <1>2, JobFields DEF Unobserved, SameJob
<1> QED
  BY <1>1, <1>2

\* The live revision ls is retired, and ls2 is the live revision.
Retires(ls, dead, P, A, J, T, C, ls2, order2, J2, T2, C2, R2) ==
    /\ NoJob \notin Job /\ dead \subseteq Revision /\ ls \in Revision
    /\ ls2 \notin dead \cup {ls}
    /\ order2 \in [Job -> SUBSET Job]
    /\ J2 \in [Job -> JobRecord \cup {Unused}]
    /\ \A j \in P : J2[j] = Unused
    /\ \A j \in A :
          /\ SameJob(J[j], J2[j])
          /\ J2[j].waiters = {} /\ ~J2[j].prewarmer /\ J2[j].aborted
    /\ \A j \in Job : j \notin P \cup A => J2[j] = J[j]
    /\ T2 \in Table
    /\ \A r \in Revision, s \in Session :
          T2[r][s] = IF T[r][s] \in P THEN NoJob ELSE T[r][s]
    /\ \A s \in Session : C2[ls][s] = "none"
    /\ \A r \in dead, s \in Session : C[r][s] = "none" => C2[r][s] = "none"
    /\ \A v \in Request : R2[v].phase # "waiting"

\* The live revision is retired: its jobs lose whoever waited for them, and it
\* loses its cache.  As nobody waits for a job of another revision, nothing is
\* left to be queued.
LEMMA RetireSound ==
    ASSUME NEW ls, NEW dead, NEW P, NEW order, NEW A, NEW F, NEW J, NEW T, NEW C, NEW R,
           Sound(ls, dead, P, order, A, F, J, T, C, R),
           NEW ls2, NEW order2, NEW J2, NEW T2, NEW C2, NEW R2,
           Retires(ls, dead, P, A, J, T, C, ls2, order2, J2, T2, C2, R2)
    PROVE  Sound(ls2, dead \cup {ls}, {}, order2, A, F, J2, T2, C2, R2)
<1> USE DEF Retires
<1>1. P \subseteq Job /\ A \subseteq Job /\ P \cap A = {} /\ F \subseteq A
  BY DEF Sound, Typed, Allocated
<1>2. \A r \in Revision, s \in Session : T2[r][s] = IF T[r][s] \in P THEN NoJob ELSE T[r][s]
  OBVIOUS
<1>3. Typed({}, order2, A, J2, T2)
  BY <1>1 DEF Typed
<1>4. Allocated({}, A, F, J2)
  <2>1. \A j \in Job : J2[j] # Unused <=> j \in A
    BY <1>1 DEF Sound, Allocated, SameJob
  <2> QED
    BY <1>1, <2>1 DEF Sound, Allocated, SameJob
<1>5. Serial({}, order2, A)
  BY DEF Sound, Serial
<1>6. Observing(ls2, dead \cup {ls}, {}, A, F, J2, T2)
  <2>1. \A j \in A : Unobserved(J2[j])
    BY DEF Unobserved
  <2>2. \A j \in A : J2[j].rev \in dead \cup {ls}
    BY DEF Sound, Observing, SameJob
  <2> QED
    BY <2>1, <2>2 DEF Observing
<1>7. Tabled(dead \cup {ls}, {}, A, F, J2, T2, C2)
  <2> SUFFICES ASSUME NEW r \in Revision, NEW s \in Session, T2[r][s] # NoJob
               PROVE  /\ T2[r][s] \in A \ F
                      /\ J2[T2[r][s]].rev = r /\ J2[T2[r][s]].session = s
                      /\ r \in dead \cup {ls}
    BY DEF Tabled
  <2>1. T2[r][s] = T[r][s] /\ T[r][s] \notin P
    BY <1>2
  <2>2. T[r][s] \in A \ F /\ J[T[r][s]].rev = r /\ J[T[r][s]].session = s
    BY <2>1 DEF Sound, Tabled
  <2>3. r \in dead \cup {ls}
    BY <2>2 DEF Sound, Observing
  <2> QED
    BY <2>1, <2>2, <2>3 DEF SameJob
<1>8. Waited({}, A, J2, R2)
  BY DEF Waited
<1>9. Yielding({}, A, F, J2)
  BY DEF Yielding
<1>10. Drained(ls2, dead \cup {ls}, C2)
  BY DEF Sound, Drained
<1> QED
  BY <1>3, <1>4, <1>5, <1>6, <1>7, <1>8, <1>9, <1>10 DEF Sound

\* A revision is installed when there is no live one.
LEMMA InstallFirstSound ==
    ASSUME NEW dead, NEW P, NEW order, NEW A, NEW F, NEW J, NEW T, NEW C, NEW R,
           Sound(0, dead, P, order, A, F, J, T, C, R), MaxRevision \in Nat,
           NEW ls2, ls2 \notin dead
    PROVE  Sound(ls2, dead, P, order, A, F, J, T, C, R)
<1>1. \A j \in P \cup A : J[j].rev # 0
  BY InUse, JobFields DEF Sound, Revision
<1>2. Observing(ls2, dead, P, A, F, J, T)
  BY <1>1 DEF Sound, Observing
<1>3. Drained(ls2, dead, C)
  BY DEF Sound, Drained
<1> QED
  BY <1>2, <1>3 DEF Sound

-----------------------------------------------------------------------------
(* Each action keeps the invariant. *)

\* The requests that settle W, of revision r, with an outcome.
LEMMA SettleTyped ==
    ASSUME request \in [Request -> RequestRecord \cup {Idle}],
           NEW W, NEW outcome, outcome \in Outcome, NEW r, r \in Revision
    PROVE  Settle(W, outcome, r) \in [Request -> RequestRecord \cup {Idle}]
BY DEF Settle, Settled, RequestRecord

\* And what becomes of each of them.
LEMMA SettleEnds ==
    ASSUME NEW W, NEW outcome, NEW r, NEW v \in Request
    PROVE  /\ v \in W => Settle(W, outcome, r)[v].phase = "settled"
           /\ v \notin W => Settle(W, outcome, r)[v] = request[v]
BY DEF Settle, Settled

\* The fields of a request that waits, or has settled.
LEMMA RequestFields ==
    ASSUME request \in [Request -> RequestRecord \cup {Idle}], NEW w \in Request
    PROVE  /\ request[w].phase = "waiting" => request[w].rev \in Revision
           /\ request[w].phase = "settled" =>
                request[w].rev \in Revision /\ request[w].outcome \in Outcome
BY DEF RequestRecord, Idle

\* What the actions need to know of the state they start in.
LEMMA StateFacts ==
    ASSUME IInv
    PROVE  /\ lease \in 0..MaxRevision /\ retired \subseteq Revision
           /\ lease # 0 => lease \in Revision
           /\ lease \notin retired
           /\ NoJob \notin Job
           /\ job \in [Job -> JobRecord \cup {Unused}]
           /\ jobs \in Table
           /\ Sound(lease, retired, pending, ahead, active, finishing, job, jobs, cache, request)
BY ConstantsAssumption DEF IInv, Surface, Sound, Drained, Typed, Revision

\* A session that is cached, asked for by a request that does not wait yet.
LEMMA GetHitKeeps ==
    ASSUME IInv, NEW w \in Request, NEW s \in Session, GetHit(w, s)
    PROVE  IInv'
<1>1. lease \in Revision /\ request[w].phase # "waiting"
  BY StateFacts DEF GetHit, Opens
<1>2. cache' = [cache EXCEPT ![lease][s] = "foreground"] /\ cache[lease][s] # "none"
  BY DEF GetHit
<1>3. /\ cache' \in [Revision -> [Session -> Origin]]
      /\ \A r \in Revision, x \in Session : cache[r][x] = "none" => cache'[r][x] = "none"
  BY <1>1, <1>2 DEF IInv, Surface, Origin
<1>4. /\ request' \in [Request -> RequestRecord \cup {Idle}]
      /\ \A v \in Request : \/ request'[v] = request[v]
                            \/ request[v].phase # "waiting" /\ request'[v].phase # "waiting"
  <2>1. request' = Settle({w}, "value", lease)
    BY DEF GetHit
  <2>2. request \in [Request -> RequestRecord \cup {Idle}]
    BY DEF IInv, Surface
  <2> QED
    BY <1>1, <2>1, <2>2, SettleTyped, SettleEnds DEF Outcome
<1>5. Sound(lease, retired, pending, ahead, active, finishing, job, jobs, cache', request')
  BY <1>3, <1>4, StateFacts, QuietSound
<1>6. Surface' /\ Numbered'
  BY <1>3, <1>4 DEF GetHit, IInv, Surface, Numbered, schedulerVars
<1> QED
  BY <1>5, <1>6 DEF GetHit, schedulerVars, IInv

\* A request that has settled is answered.
LEMMA RespondKeeps ==
    ASSUME IInv, NEW w \in Request, Respond(w)
    PROVE  IInv'
<1>1. /\ request' \in [Request -> RequestRecord \cup {Idle}]
      /\ \A v \in Request : \/ request'[v] = request[v]
                            \/ request[v].phase # "waiting" /\ request'[v].phase # "waiting"
  <2>1. PICK gone \in BOOLEAN : request' = [request EXCEPT ![w] =
                  [phase |-> "answered", outcome |-> Given(w, gone)]]
    BY DEF Respond
  <2>2. Given(w, gone) \in Outcome
    BY RequestFields DEF Respond, Given, Outcome, IInv, Surface
  <2>3. [phase |-> "answered", outcome |-> Given(w, gone)] \in RequestRecord
    BY <2>2 DEF RequestRecord
  <2> QED
    BY <2>1, <2>3 DEF Respond, IInv, Surface
<1>2. Sound(lease, retired, pending, ahead, active, finishing, job, jobs, cache, request')
  BY <1>1, StateFacts, QuietSound
<1>3. Surface' /\ Numbered'
  BY <1>1 DEF Respond, IInv, Surface, Numbered, schedulerVars
<1> QED
  BY <1>2, <1>3 DEF Respond, schedulerVars, IInv

\* The session has a job: it becomes, or stays, a foreground one.
LEMMA GetJoinKeeps ==
    ASSUME IInv, NEW w \in Request, NEW s \in Session, GetJoin(w, s)
    PROVE  IInv'
<1>1. /\ lease \in Revision /\ request[w].phase # "waiting"
      /\ jobs[lease][s] # NoJob /\ UNCHANGED <<revision, lease, retired, schedulerVars, jobs, cache>>
  BY StateFacts DEF GetJoin, Opens
<1>2. PICK j \in Job : j = jobs[lease][s]
  BY <1>1, StateFacts DEF Table
<1>3. job[j] \in JobRecord /\ job[j].rev = lease
  BY <1>1, <1>2, StateFacts, InUse DEF Sound, Tabled
<1>4. job' = [job EXCEPT ![j] = [job[j] EXCEPT !.waiters = job[j].waiters \cup {w},
                                   !.speculative = FALSE, !.prewarmer = FALSE]]
  BY <1>2, <1>3, StateFacts DEF GetJoin
<1>5. /\ job'[j] = [job[j] EXCEPT !.waiters = job[j].waiters \cup {w},
                                 !.speculative = FALSE, !.prewarmer = FALSE]
      /\ \A k \in Job : k # j => job'[k] = job[k]
  BY <1>4, StateFacts
<1>6. job' \in [Job -> JobRecord \cup {Unused}]
  <2>1. [job[j] EXCEPT !.waiters = job[j].waiters \cup {w},
                       !.speculative = FALSE, !.prewarmer = FALSE] \in JobRecord
    BY <1>3 DEF JobRecord
  <2> QED
    BY <1>4, <2>1, StateFacts
<1>7. request' = [request EXCEPT ![w] = [phase |-> "waiting", rev |-> lease, session |-> s]]
  BY DEF GetJoin
<1>8. /\ request' \in [Request -> RequestRecord \cup {Idle}]
      /\ request'[w] = [phase |-> "waiting", rev |-> lease, session |-> s]
      /\ \A v \in Request : v # w => request'[v] = request[v]
  BY <1>1, <1>7 DEF IInv, Surface, RequestRecord
<1>9. prewarm' \in [Revision -> PrewarmState]
  BY <1>2, <1>3 DEF GetJoin, IInv, Surface, PrewarmState
<1>10. Sound(lease, retired, pending, ahead, active, finishing, job', jobs, cache, request')
  <2>1. /\ request[w].phase # "waiting"
        /\ request'[w].phase = "waiting" /\ request'[w].rev = lease /\ request'[w].session = s
    BY <1>1, <1>8
  <2>2. /\ Sound(lease, retired, pending, ahead, active, finishing, job, jobs, cache, request)
        /\ lease \notin retired
    BY StateFacts
  <2>3. /\ SameJob(job[j], job'[j]) /\ job'[j].aborted = job[j].aborted
        /\ job'[j].waiters = job[j].waiters \cup {w}
    BY <1>3, <1>5 DEF SameJob, JobRecord, Unused
  <2>4. ~job'[j].speculative /\ ~job'[j].prewarmer
    BY <1>3, <1>5 DEF JobRecord
  <2>5. lease \in Revision /\ jobs[lease][s] # NoJob
    BY <1>1
  <2>6. Joins(lease, retired, job, jobs, request, job', request', j, w, s)
    BY <1>2, <1>5, <1>6, <1>8, <2>1, <2>2, <2>3, <2>4, <2>5 DEF Joins
  <2> QED
    BY <2>2, <2>6, JoinSound
<1>11. Surface' /\ Numbered'
  BY <1>1, <1>8, <1>9 DEF IInv, Surface, Numbered, schedulerVars
<1> QED
  BY <1>1, <1>10, <1>11 DEF schedulerVars, IInv

\* pump() runs by itself.
LEMMA PumpTickKeeps ==
    ASSUME IInv, PumpTick
    PROVE  IInv'
<1>1. Sound(lease, retired, pending', ahead', active', finishing, job', jobs', cache, request)
  BY StateFacts, PumpSound DEF PumpTick
<1>2. Surface' /\ Numbered'
  BY DEF PumpTick, IInv, Surface, Numbered
<1> QED
  BY <1>1, <1>2 DEF PumpTick, IInv

\* The tables without some jobs are tables.
LEMMA TablesWithoutTyped ==
    ASSUME jobs \in Table, NEW G
    PROVE  /\ TablesWithout(G) \in Table
           /\ \A r \in Revision, s \in Session :
                TablesWithout(G)[r][s] = IF jobs[r][s] \in G THEN NoJob ELSE jobs[r][s]
<1>1. \A r \in Revision, s \in Session : jobs[r][s] \in Job \cup {NoJob}
  BY DEF Table
<1> QED
  BY <1>1 DEF Table, TablesWithout

\* The queue without some jobs is ordered like the queue.
LEMMA OrderWithoutTyped ==
    ASSUME IInv, NEW G
    PROVE  /\ OrderWithout(G) \in [Job -> SUBSET Job]
           /\ \A j \in Job : OrderWithout(G)[j] = ahead[j] \ G
BY DEF OrderWithout, IInv, Sound, Typed

\* The fields of an active job that was preempted.
LEMMA PreemptedFields ==
    ASSUME NEW K \in JobRecord, NEW L,
           L = [K EXCEPT !.prewarmer = FALSE, !.aborted = TRUE]
    PROVE  /\ L \in JobRecord /\ SameJob(K, L)
           /\ L.speculative = K.speculative /\ L.waiters = K.waiters
<1>1. L \in JobRecord
  BY DEF JobRecord
<1>2. L.rev = K.rev /\ L.session = K.session /\ L.status = K.status
  BY DEF JobRecord
<1>3. L.speculative = K.speculative /\ L.waiters = K.waiters
  BY DEF JobRecord
<1> QED
  BY <1>1, <1>2, <1>3, JobFields DEF SameJob

\* Preemption leaves nothing speculative to do.
LEMMA PreemptionSound ==
    ASSUME IInv
    PROVE  /\ Sound(lease, retired, pending \ Preempted, OrderWithout(Preempted), active,
                    finishing, JobsAfterPreemption, TablesWithout(Preempted), cache, request)
           /\ \A k \in (pending \ Preempted) \cup active :
                JobsAfterPreemption[k].speculative /\ ~JobsAfterPreemption[k].aborted
                   => k \in finishing
<1> DEFINE G == Preempted
           J2 == JobsAfterPreemption
<1>1. G \subseteq pending \cup active /\ pending \subseteq Job /\ active \subseteq Job
      /\ pending \cap active = {}
  BY DEF Preempted, IInv, Sound, Typed, Allocated
<1>2. \A j \in pending \cup active : job[j] \in JobRecord
  BY StateFacts, InUse DEF Sound
<1>3. \A j \in G : job[j].speculative /\ job[j].waiters = {}
  BY DEF Preempted, IInv, Sound, Yielding
<1>4. \A j \in Job : J2[j] = IF j \in G \cap pending THEN Unused
                             ELSE IF j \in G
                                  THEN [job[j] EXCEPT !.prewarmer = FALSE, !.aborted = TRUE]
                                  ELSE job[j]
  BY DEF JobsAfterPreemption
<1>5. \A j \in G \cap active : J2[j] = [job[j] EXCEPT !.prewarmer = FALSE, !.aborted = TRUE]
  BY <1>1, <1>4
<1>6. \A j \in G \cap active :
        /\ J2[j] \in JobRecord /\ SameJob(job[j], J2[j])
        /\ J2[j].speculative = job[j].speculative
        /\ J2[j].waiters = {}
  BY <1>2, <1>3, <1>5, PreemptedFields
<1>7. \A j \in G \cap active : ~J2[j].prewarmer /\ J2[j].aborted
  BY <1>2, <1>5 DEF JobRecord
<1>8. J2 \in [Job -> JobRecord \cup {Unused}]
  <2>1. \A j \in Job : J2[j] \in JobRecord \cup {Unused}
    BY <1>1, <1>4, <1>6, StateFacts
  <2> QED
    BY <2>1 DEF JobsAfterPreemption
<1>9. Drops(pending, ahead, active, job, jobs, request, OrderWithout(G), J2,
            TablesWithout(G), request, G)
  <2>1. \A v \in Request : ~\E j \in G : v \in job[j].waiters
    BY <1>3
  <2>2. /\ \A j \in G \cap pending : J2[j] = Unused
        /\ \A j \in Job : j \notin G => J2[j] = job[j]
    BY <1>1, <1>4
  <2>3. TablesWithout(G) \in Table
        /\ \A r \in Revision, s \in Session :
             TablesWithout(G)[r][s] = IF jobs[r][s] \in G THEN NoJob ELSE jobs[r][s]
    BY StateFacts, TablesWithoutTyped
  <2>4. OrderWithout(G) \in [Job -> SUBSET Job]
        /\ \A j \in Job : OrderWithout(G)[j] = ahead[j] \ G
    BY OrderWithoutTyped
  <2> HIDE DEF G, J2
  <2> QED
    BY <1>1, <1>6, <1>7, <1>8, <2>1, <2>2, <2>3, <2>4, StateFacts DEF Drops
<1>10. Sound(lease, retired, pending \ G, OrderWithout(G), active, finishing, J2,
             TablesWithout(G), cache, request)
  BY <1>9, StateFacts, DropSound
<1>11. ASSUME NEW k \in (pending \ G) \cup active, J2[k].speculative, ~J2[k].aborted
       PROVE  k \in finishing
  <2>1. k \notin G
    BY <1>7, <1>11
  <2>2. J2[k] = job[k]
    BY <1>1, <1>4, <2>1
  <2> QED
    BY <1>11, <2>1, <2>2 DEF Preempted
<1> QED
  BY <1>10, <1>11

LEMMA PrewarmPreemptedTyped ==
    ASSUME prewarm \in [Revision -> PrewarmState]
    PROVE  PrewarmAfterPreemption \in [Revision -> PrewarmState]
BY DEF PrewarmAfterPreemption, PrewarmState

\* The queue is full: the request is answered, after the preemption.
LEMMA GetBusyKeeps ==
    ASSUME IInv, NEW w \in Request, NEW s \in Session, GetBusy(w, s)
    PROVE  IInv'
<1>1. /\ request' \in [Request -> RequestRecord \cup {Idle}]
      /\ \A v \in Request : \/ request'[v] = request[v]
                            \/ request[v].phase # "waiting" /\ request'[v].phase # "waiting"
  <2>1. request' = Settle({w}, "busy", lease) /\ request[w].phase # "waiting"
    BY DEF GetBusy, Misses, Opens
  <2>2. request \in [Request -> RequestRecord \cup {Idle}]
    BY DEF IInv, Surface
  <2>3. lease \in Revision
    BY StateFacts DEF GetBusy, Misses, Opens
  <2>4. Settle({w}, "busy", lease) \in [Request -> RequestRecord \cup {Idle}]
    BY <2>2, <2>3, SettleTyped DEF Outcome
  <2>5. request'[w].phase = "settled" /\ \A v \in Request : v # w => request'[v] = request[v]
    BY <2>1 DEF Settle, Settled
  <2> QED
    BY <2>1, <2>4, <2>5
<1>2. Sound(lease, retired, pending \ Preempted, OrderWithout(Preempted), active, finishing,
            JobsAfterPreemption, TablesWithout(Preempted), cache, request')
  BY <1>1, StateFacts, PreemptionSound, QuietSound
<1>3. Sound(lease, retired, pending', ahead', active', finishing, job', jobs', cache, request')
  BY <1>2, PumpSound DEF GetBusy
<1>4. Surface' /\ Numbered'
  BY <1>1, PrewarmPreemptedTyped DEF GetBusy, IInv, Surface, Numbered
<1> QED
  BY <1>3, <1>4 DEF GetBusy, IInv

\* A new job is queued for the request.
LEMMA GetNewKeeps ==
    ASSUME IInv, NEW w \in Request, NEW s \in Session, GetNew(w, s)
    PROVE  IInv'
<1>1. /\ lease \in Revision /\ lease \notin retired /\ request[w].phase # "waiting"
      /\ cache[lease][s] = "none" /\ jobs[lease][s] = NoJob
  BY StateFacts DEF GetNew, Misses, Opens
<1> DEFINE rest == pending \ Preempted
           N    == [rev |-> lease, session |-> s, status |-> "queued",
                    speculative |-> FALSE, prewarmer |-> FALSE,
                    aborted |-> FALSE, waiters |-> {w}]
<1>2. PICK j \in Job :
        /\ job[j] = Unused
        /\ Pump(rest \cup {j}, [OrderWithout(Preempted) EXCEPT ![j] = rest], active,
                [JobsAfterPreemption EXCEPT ![j] = N],
                [TablesWithout(Preempted) EXCEPT ![lease][s] = j], retired)
  BY DEF GetNew, Used
<1> DEFINE order2 == [OrderWithout(Preempted) EXCEPT ![j] = rest]
           J2     == [JobsAfterPreemption EXCEPT ![j] = N]
           T2     == [TablesWithout(Preempted) EXCEPT ![lease][s] = j]
<1>3. request' = [request EXCEPT ![w] = [phase |-> "waiting", rev |-> lease, session |-> s]]
  BY DEF GetNew
<1>4. /\ request' \in [Request -> RequestRecord \cup {Idle}]
      /\ request'[w].phase = "waiting" /\ request'[w].rev = lease /\ request'[w].session = s
      /\ \A v \in Request : v # w => request'[v] = request[v]
  BY <1>1, <1>3 DEF IInv, Surface, RequestRecord
<1>5. /\ N \in JobRecord
      /\ N.rev = lease /\ N.session = s /\ N.status = "queued"
      /\ N.waiters = {w}
  BY <1>1 DEF JobRecord
<1>6. ~N.aborted /\ ~N.prewarmer /\ ~N.speculative /\ ~Unobserved(N)
  BY <1>5 DEF Unobserved
<1>7. Sound(lease, retired, rest, OrderWithout(Preempted), active, finishing,
            JobsAfterPreemption, TablesWithout(Preempted), cache, request)
  BY PreemptionSound
<1>8. /\ rest \subseteq Job /\ OrderWithout(Preempted) \in [Job -> SUBSET Job]
      /\ JobsAfterPreemption \in [Job -> JobRecord \cup {Unused}]
      /\ TablesWithout(Preempted) \in Table
  BY <1>7 DEF Sound, Typed
<1>9. order2 \in [Job -> SUBSET Job] /\ order2[j] = rest
      /\ \A k \in Job : k # j => order2[k] = OrderWithout(Preempted)[k]
  BY <1>8
<1>10. J2 \in [Job -> JobRecord \cup {Unused}] /\ J2[j] = N
       /\ \A k \in Job : k # j => J2[k] = JobsAfterPreemption[k]
  <2> HIDE DEF N
  <2> QED
    BY <1>5, <1>8
<1>11. T2 \in Table /\ T2[lease][s] = j
       /\ \A r \in Revision, x \in Session :
            r # lease \/ x # s => T2[r][x] = TablesWithout(Preempted)[r][x]
  BY <1>1, <1>8 DEF Table
<1>12. TablesWithout(Preempted)[lease][s] = NoJob
  BY <1>1, StateFacts, TablesWithoutTyped
<1>13. JobsAfterPreemption[j] = Unused
  <2>1. j \notin Preempted
    BY <1>2, StateFacts, InUse, JobFields DEF Preempted, Sound
  <2> QED
    BY <1>2, <2>1 DEF JobsAfterPreemption
<1>14. Enqueues(lease, retired, rest, OrderWithout(Preempted), active, finishing,
                JobsAfterPreemption, TablesWithout(Preempted), cache, request,
                order2, J2, T2, request', s, j, N)
  <2>1. \A v \in Request : v \in N.waiters <=> v = w
    BY <1>5
  <2>2. \A k \in rest \cup active :
          JobsAfterPreemption[k].speculative /\ ~JobsAfterPreemption[k].aborted
             => k \in finishing
    BY PreemptionSound
  <2>3. NoJob \notin Job
    BY StateFacts
  <2> HIDE DEF N, rest, order2, J2, T2
  <2> QED
    BY <1>1, <1>4, <1>5, <1>6, <1>9, <1>10, <1>11, <1>12, <1>13, <2>1, <2>2, <2>3
    DEF Enqueues
<1>15. Sound(lease, retired, rest \cup {j}, order2, active, finishing, J2, T2, cache, request')
  <2> HIDE DEF N, rest, order2, J2, T2
  <2> QED
    BY <1>7, <1>14, EnqueueSound
<1>16. Sound(lease, retired, pending', ahead', active', finishing, job', jobs', cache, request')
  BY <1>2, <1>15, PumpSound
<1>17. Surface' /\ Numbered'
  BY <1>4, PrewarmPreemptedTyped DEF GetNew, IInv, Surface, Numbered
<1> QED
  BY <1>16, <1>17 DEF GetNew, IInv

\* A session is prewarmed: there is nothing else to do.
LEMMA PrewarmKeeps ==
    ASSUME IInv, NEW s \in Session, Prewarm(s)
    PROVE  IInv'
<1> DEFINE N == [rev |-> lease, session |-> s, status |-> "queued",
                 speculative |-> TRUE, prewarmer |-> TRUE,
                 aborted |-> FALSE, waiters |-> {}]
<1>1. /\ lease \in Revision /\ lease \notin retired /\ cache[lease][s] = "none"
      /\ jobs[lease][s] = NoJob /\ pending = {} /\ active = {}
  BY StateFacts DEF Prewarm, SchedulerIdle
<1>2. PICK j \in Job :
        /\ job[j] = Unused
        /\ job' = [job EXCEPT ![j] = N]
        /\ jobs' = [jobs EXCEPT ![lease][s] = j]
        /\ pending' = pending \cup {j}
        /\ ahead' = [ahead EXCEPT ![j] = pending]
  BY DEF Prewarm, Used
<1>3. /\ N \in JobRecord
      /\ N.rev = lease /\ N.session = s /\ N.status = "queued"
      /\ N.waiters = {}
  BY <1>1 DEF JobRecord
<1>4. ~N.aborted /\ N.prewarmer /\ N.speculative /\ ~Unobserved(N)
  BY DEF Unobserved
<1>5. ahead' \in [Job -> SUBSET Job] /\ ahead'[j] = pending
      /\ \A k \in Job : k # j => ahead'[k] = ahead[k]
  BY <1>2 DEF IInv, Sound, Typed
<1>6. job' \in [Job -> JobRecord \cup {Unused}] /\ job'[j] = N
      /\ \A k \in Job : k # j => job'[k] = job[k]
  <2> HIDE DEF N
  <2> QED
    BY <1>2, <1>3, StateFacts
<1>7. jobs' \in Table /\ jobs'[lease][s] = j
      /\ \A r \in Revision, x \in Session : r # lease \/ x # s => jobs'[r][x] = jobs[r][x]
  BY <1>1, <1>2, StateFacts DEF Table
<1>8. Enqueues(lease, retired, pending, ahead, active, finishing, job, jobs, cache, request,
               ahead', job', jobs', request, s, j, N)
  <2>1. NoJob \notin Job
    BY StateFacts
  <2> HIDE DEF N
  <2> QED
    BY <1>1, <1>2, <1>3, <1>4, <1>5, <1>6, <1>7, <2>1 DEF Enqueues
<1>9. Sound(lease, retired, pending \cup {j}, ahead', active, finishing, job', jobs', cache,
            request)
  <2> HIDE DEF N
  <2> QED
    BY <1>8, StateFacts, EnqueueSound
<1>10. Surface' /\ Numbered'
  BY <1>1 DEF Prewarm, IInv, Surface, Numbered, PrewarmState
<1> QED
  BY <1>2, <1>9, <1>10 DEF Prewarm, IInv

\* The client of a request that waits goes away.
LEMMA AbandonKeeps ==
    ASSUME IInv, NEW w \in Request, Abandon(w)
    PROVE  IInv'
<1>1. PICK j \in Job :
        /\ Used(j) /\ w \in job[j].waiters
        /\ LET J    == [job EXCEPT ![j].waiters = @ \ {w}]
               last == Unobserved(J[j])
           IN  IF last /\ job[j].status = "queued"
               THEN Pump(pending \ {j}, OrderWithout({j}), active,
                         [J EXCEPT ![j] = Unused], TablesWithout({j}), retired)
               ELSE /\ job' = [J EXCEPT ![j].aborted = @ \/ last]
                    /\ jobs' = IF last THEN TablesWithout({j}) ELSE jobs
                    /\ UNCHANGED <<pending, ahead, active>>
  BY DEF Abandon
<1>2. /\ j \in pending \cup active /\ job[j] \in JobRecord
      /\ job[j].status = "queued" => j \in pending
      /\ job[j].status # "queued" => j \in active
  BY <1>1, StateFacts, InUse DEF Used, Sound, Allocated
<1>3. ~Unobserved(job[j]) /\ ~job[j].aborted
  BY <1>1, <1>2, StateFacts DEF Unobserved, Sound, Observing
<1> DEFINE K == [job[j] EXCEPT !.waiters = job[j].waiters \ {w}]
           J == [job EXCEPT ![j] = K]
<1>4. [job EXCEPT ![j].waiters = @ \ {w}] = J
  OBVIOUS
<1>5. J[j] = K /\ (\A k \in Job : k # j => J[k] = job[k])
  BY StateFacts
<1>6. K \in JobRecord /\ K.waiters = job[j].waiters \ {w} /\ K.aborted = job[j].aborted
  BY <1>2 DEF JobRecord
<1>7. SameJob(job[j], K) /\ K.speculative = job[j].speculative
      /\ K.prewarmer = job[j].prewarmer
  BY <1>2, <1>6, JobFields DEF JobRecord, SameJob
<1>8. /\ request' \in [Request -> RequestRecord \cup {Idle}]
      /\ request'[w].phase # "waiting"
      /\ \A v \in Request : v # w => request'[v] = request[v]
  <2>1. /\ request' = Settle({w}, "aborted", request[w].rev)
        /\ request[w].rev \in Revision
    BY RequestFields DEF Abandon, IInv, Surface
  <2>2. request \in [Request -> RequestRecord \cup {Idle}]
    BY DEF IInv, Surface
  <2> QED
    BY <2>1, <2>2, SettleTyped, SettleEnds DEF Outcome
<1>9. Surface' /\ Numbered'
  BY <1>8 DEF Abandon, IInv, Surface, Numbered
<1>10. CASE ~Unobserved(K)
  <2>1. job' = [J EXCEPT ![j].aborted = @ \/ FALSE]
        /\ jobs' = jobs /\ UNCHANGED <<pending, ahead, active>>
    BY <1>1, <1>4, <1>5, <1>10
  <2>2. /\ job'[j] = [K EXCEPT !.aborted = K.aborted \/ FALSE]
        /\ \A k \in Job : k # j => job'[k] = job[k]
    BY <1>5, <1>6, <2>1, StateFacts
  <2>3. job'[j] = K
    BY <1>6, <2>2 DEF JobRecord
  <2>4. job' \in [Job -> JobRecord \cup {Unused}]
    BY <1>6, <2>1, <2>2, <2>3, StateFacts
  <2>5. Leaves(pending, active, job, request, job', request', w, j)
    <3> HIDE DEF K, J
    <3> QED
      BY <1>1, <1>2, <1>6, <1>7, <1>8, <1>10, <2>2, <2>3, <2>4 DEF Leaves
  <2>6. Sound(lease, retired, pending, ahead, active, finishing, job', jobs, cache, request')
    BY <2>5, StateFacts, LeaveSound
  <2> QED
    BY <1>9, <2>1, <2>6 DEF Abandon, IInv
<1>11. job[j].waiters = {w} \/ ~Unobserved(K)
  BY <1>1, <1>6 DEF Unobserved
<1>12. \A v \in Request : (\E k \in {j} : v \in job[k].waiters) => v = w \/ ~Unobserved(K)
  BY <1>11
<1>13. CASE Unobserved(K) /\ job[j].status = "queued"
  <2>1. Pump(pending \ {j}, OrderWithout({j}), active, [job EXCEPT ![j] = Unused],
             TablesWithout({j}), retired)
    BY <1>1, <1>4, <1>5, <1>13
  <2>2. /\ [job EXCEPT ![j] = Unused] \in [Job -> JobRecord \cup {Unused}]
        /\ [job EXCEPT ![j] = Unused][j] = Unused
        /\ \A k \in Job : k # j => [job EXCEPT ![j] = Unused][k] = job[k]
    BY StateFacts
  <2>3. Drops(pending, ahead, active, job, jobs, request, OrderWithout({j}),
              [job EXCEPT ![j] = Unused], TablesWithout({j}), request', {j})
    <3>1. j \notin active
      BY <1>2, <1>13, StateFacts DEF Sound, Allocated
    <3>2. \A v \in Request : IF \E k \in {j} : v \in job[k].waiters
                             THEN request'[v].phase # "waiting"
                             ELSE request'[v] = request[v]
      BY <1>1, <1>8, <1>12, <1>13
    <3> QED
      BY <1>2, <2>2, <3>1, <3>2, StateFacts, TablesWithoutTyped, OrderWithoutTyped DEF Drops
  <2>4. Sound(lease, retired, pending \ {j}, OrderWithout({j}), active, finishing,
              [job EXCEPT ![j] = Unused], TablesWithout({j}), cache, request')
    BY <2>3, StateFacts, DropSound
  <2>5. Sound(lease, retired, pending', ahead', active', finishing, job', jobs', cache, request')
    BY <2>1, <2>4, PumpSound
  <2> QED
    BY <1>9, <2>5 DEF Abandon, IInv
<1>14. CASE Unobserved(K) /\ job[j].status # "queued"
  <2>1. job' = [J EXCEPT ![j].aborted = @ \/ TRUE]
        /\ jobs' = TablesWithout({j}) /\ UNCHANGED <<pending, ahead, active>>
    BY <1>1, <1>4, <1>5, <1>14
  <2>2. /\ job'[j] = [K EXCEPT !.aborted = TRUE]
        /\ \A k \in Job : k # j => job'[k] = job[k]
    BY <1>5, <1>6, <2>1, StateFacts
  <2>3. /\ job'[j] \in JobRecord /\ SameJob(job[j], job'[j])
        /\ job'[j].speculative = job[j].speculative
        /\ job'[j].waiters = {}
    <3>1. /\ job'[j] \in JobRecord /\ SameJob(K, job'[j])
          /\ job'[j].speculative = K.speculative /\ job'[j].waiters = K.waiters
      BY <1>6, <2>2, JobFields DEF JobRecord, SameJob
    <3> QED
      BY <1>7, <1>14, <3>1 DEF SameJob, Unobserved
  <2>4. ~job'[j].prewarmer /\ job'[j].aborted
    BY <1>6, <1>14, <2>2 DEF JobRecord, Unobserved
  <2>5. job' \in [Job -> JobRecord \cup {Unused}]
    BY <1>6, <2>1, <2>2, <2>3, StateFacts
  <2>6. Drops(pending, ahead, active, job, jobs, request, ahead,
              job', jobs', request', {j})
    <3>1. j \notin pending
      BY <1>2, <1>14, StateFacts DEF Sound, Allocated
    <3>2. \A v \in Request : IF \E k \in {j} : v \in job[k].waiters
                             THEN request'[v].phase # "waiting"
                             ELSE request'[v] = request[v]
      BY <1>1, <1>8, <1>12, <1>14
    <3> HIDE DEF K, J
    <3> QED
      BY <1>2, <2>1, <2>2, <2>3, <2>4, <2>5, <3>1, <3>2, StateFacts, TablesWithoutTyped
      DEF Drops, Sound, Typed
  <2>7. Sound(lease, retired, pending \ {j}, ahead, active, finishing,
              job', jobs', cache, request')
    BY <2>6, StateFacts, DropSound
  <2>8. pending \ {j} = pending
    BY <1>2, <1>14, StateFacts DEF Sound, Allocated
  <2> QED
    BY <1>9, <2>1, <2>7, <2>8 DEF Abandon, IInv
<1> QED
  BY <1>10, <1>13, <1>14

\* What the five settlements of a job have in common.
LEMMA ObservedKeeps ==
    ASSUME IInv, NEW j \in Job, Running(j),
           NEW outcome \in Outcome, NEW result \in PrewarmState,
           Observed(j, outcome, result),
           cache' \in [Revision -> [Session -> Origin]],
           \A r \in Revision, s \in Session : cache[r][s] = "none" =>
              cache'[r][s] = "none" \/ (r \notin retired /\ jobs[r][s] = j)
    PROVE  IInv'
<1>1. /\ j \in active /\ j \notin finishing /\ job[j] \in JobRecord
      /\ job[j].rev \in Revision
  BY StateFacts, InUse, JobFields DEF Running, Sound
<1>2. job' = [job EXCEPT ![j] = [job[j] EXCEPT !.waiters = {}, !.prewarmer = FALSE]]
  BY DEF Observed
<1>3. /\ job'[j] = [job[j] EXCEPT !.waiters = {}, !.prewarmer = FALSE]
      /\ \A k \in Job : k # j => job'[k] = job[k]
  BY <1>2, StateFacts
<1>4. /\ job'[j] \in JobRecord
      /\ job'[j].rev = job[j].rev /\ job'[j].session = job[j].session
      /\ job'[j].status = job[j].status /\ job'[j].aborted = job[j].aborted
      /\ job'[j].speculative = job[j].speculative
  BY <1>1, <1>3 DEF JobRecord
<1>5. job'[j].waiters = {} /\ ~job'[j].prewarmer
  BY <1>1, <1>3 DEF JobRecord
<1>6. SameJob(job[j], job'[j])
  BY <1>4, JobFields DEF SameJob
<1>7. job' \in [Job -> JobRecord \cup {Unused}]
  BY <1>2, <1>3, <1>4, StateFacts
<1>8. /\ request' \in [Request -> RequestRecord \cup {Idle}]
      /\ \A v \in Request : IF v \in job[j].waiters
                            THEN request'[v].phase # "waiting"
                            ELSE request'[v] = request[v]
  <2>1. request' = Settle(job[j].waiters, outcome, job[j].rev)
    BY DEF Observed
  <2>2. request \in [Request -> RequestRecord \cup {Idle}]
    BY DEF IInv, Surface
  <2>3. Settle(job[j].waiters, outcome, job[j].rev) \in [Request -> RequestRecord \cup {Idle}]
    BY <1>1, <2>2, SettleTyped
  <2> QED
    BY <2>1, <2>3, SettleEnds
<1>9. Settles(retired, active, finishing, job, jobs, cache, request, job', jobs', cache',
              request', j)
  <2>1. /\ jobs' \in Table
        /\ \A r \in Revision, s \in Session :
             jobs'[r][s] = IF jobs[r][s] = j THEN NoJob ELSE jobs[r][s]
    BY StateFacts, TablesWithoutTyped DEF Observed
  <2>2. \A r \in Revision, s \in Session : cache[r][s] = "none" =>
          cache'[r][s] = "none" \/ (r \notin retired /\ jobs[r][s] = j)
    OBVIOUS
  <2>3. NoJob \notin Job /\ retired \subseteq Revision
    BY StateFacts
  <2>4. /\ \A k \in Job : k # j => job'[k] = job[k]
        /\ SameJob(job[j], job'[j]) /\ job'[j].aborted = job[j].aborted
        /\ job'[j].speculative = job[j].speculative
        /\ job'[j].waiters = {} /\ ~job'[j].prewarmer
    BY <1>3, <1>4, <1>5, <1>6
  <2>5. /\ j \in active /\ j \notin finishing
        /\ \A v \in Request : IF v \in job[j].waiters
                              THEN request'[v].phase # "waiting"
                              ELSE request'[v] = request[v]
    BY <1>1, <1>8
  <2> QED
    BY <1>7, <2>1, <2>2, <2>3, <2>4, <2>5 DEF Settles
<1>10. Sound(lease, retired, pending, ahead, active, finishing \cup {j}, job', jobs', cache',
             request')
  BY <1>9, StateFacts, ObservedSound
<1>11. prewarm' \in [Revision -> PrewarmState]
  BY <1>1 DEF Observed, IInv, Surface
<1>12. Surface' /\ Numbered'
  BY <1>8, <1>11 DEF Observed, IInv, Surface, Numbered
<1> QED
  BY <1>10, <1>12 DEF Observed, IInv

\* A result that is cached is cached for the revision's own table entry.
LEMMA AdmissionTyped ==
    ASSUME IInv, NEW j \in Job, Running(j), ~Discarded(j),
           NEW origin \in Origin, NEW victims,
           cache' = CacheWith(job[j].rev, job[j].session, origin, victims)
    PROVE  /\ cache' \in [Revision -> [Session -> Origin]]
           /\ \A r \in Revision, s \in Session : cache[r][s] = "none" =>
                cache'[r][s] = "none" \/ (r \notin retired /\ jobs[r][s] = j)
<1>1. /\ j \in active /\ job[j] \in JobRecord
      /\ job[j].rev \in Revision /\ job[j].session \in Session
  BY StateFacts, InUse, JobFields DEF Running, Sound
<1>2. /\ job[j].rev \notin retired /\ job[j].rev = lease
      /\ jobs[lease][job[j].session] = j
  BY <1>1 DEF Discarded, IInv, Sound, Observing
<1>3. \A r \in Revision, s \in Session : cache[r][s] \in Origin
  BY DEF IInv, Surface
<1>4. \A r \in Revision, s \in Session :
        cache'[r][s] = IF r # job[j].rev THEN cache[r][s]
                       ELSE IF s = job[j].session THEN origin
                       ELSE IF s \in victims THEN "none" ELSE cache[r][s]
  BY <1>1 DEF CacheWith, IInv, Surface
<1>5. cache' \in [Revision -> [Session -> Origin]]
  <2>1. [x \in Session |-> IF x = job[j].session THEN origin
                           ELSE IF x \in victims THEN "none" ELSE cache[job[j].rev][x]]
          \in [Session -> Origin]
    BY <1>1, <1>3 DEF Origin
  <2> QED
    BY <1>1, <2>1 DEF CacheWith, IInv, Surface
<1>6. ASSUME NEW r \in Revision, NEW s \in Session, cache[r][s] = "none"
      PROVE  cache'[r][s] = "none" \/ (r \notin retired /\ jobs[r][s] = j)
  <2>1. CASE r = job[j].rev /\ s = job[j].session
    BY <1>2, <2>1
  <2>2. CASE r # job[j].rev
    BY <1>4, <1>6, <2>2
  <2>3. CASE r = job[j].rev /\ s # job[j].session
    <3>1. cache'[r][s] = IF s \in victims THEN "none" ELSE cache[r][s]
      BY <1>4, <2>3
    <3> QED
      BY <1>6, <3>1
  <2> QED
    BY <2>1, <2>2, <2>3
<1> QED
  BY <1>5, <1>6

\* A materializer settles, in each of the five ways.
LEMMA CompleteKeeps ==
    ASSUME IInv, NEW j \in Job, Complete(j)
    PROVE  IInv'
<1>1. /\ "value" \in Outcome /\ "failed" \in Outcome /\ "retired" \in Outcome
      /\ "completed" \in PrewarmState /\ "notAdmitted" \in PrewarmState
      /\ "failed" \in PrewarmState /\ "retired" \in PrewarmState
      /\ "foreground" \in Origin /\ "speculative" \in Origin
  BY DEF Outcome, PrewarmState, Origin
<1>2. ASSUME Running(j), UNCHANGED cache,
             NEW outcome \in Outcome, NEW result \in PrewarmState,
             Observed(j, outcome, result)
      PROVE  IInv'
  <2>1. /\ cache' \in [Revision -> [Session -> Origin]]
        /\ \A r \in Revision, s \in Session : cache[r][s] = "none" =>
             cache'[r][s] = "none" \/ (r \notin retired /\ jobs[r][s] = j)
    <3>1. cache' = cache
      BY <1>2
    <3>2. cache \in [Revision -> [Session -> Origin]]
      BY DEF IInv, Surface
    <3> QED
      BY <3>1, <3>2
  <2> QED
    BY <1>2, <2>1, ObservedKeeps
<1>3. CASE CompleteForeground(j)
  BY <1>1, <1>3, AdmissionTyped, ObservedKeeps DEF CompleteForeground
<1>4. CASE CompleteSpeculative(j)
  BY <1>1, <1>4, AdmissionTyped, ObservedKeeps DEF CompleteSpeculative
<1>5. CASE RejectSpeculative(j)
  BY <1>1, <1>2, <1>5 DEF RejectSpeculative
<1>6. CASE Fail(j)
  BY <1>1, <1>2, <1>6 DEF Fail
<1>7. CASE Discard(j)
  BY <1>1, <1>2, <1>7 DEF Discard
<1> QED
  BY <1>3, <1>4, <1>5, <1>6, <1>7 DEF Complete

\* The slot of a job that settled is freed, and the queue pumped.
LEMMA FinalizeKeeps ==
    ASSUME IInv, NEW j \in Job, Finalize(j)
    PROVE  IInv'
<1>1. /\ [job EXCEPT ![j] = Unused] \in [Job -> JobRecord \cup {Unused}]
      /\ [job EXCEPT ![j] = Unused][j] = Unused
      /\ \A k \in Job : k # j => [job EXCEPT ![j] = Unused][k] = job[k]
  BY StateFacts
<1>2. Sound(lease, retired, pending, ahead, active \ {j}, finishing \ {j},
            [job EXCEPT ![j] = Unused], jobs, cache, request)
  BY <1>1, StateFacts, FinalizeSound DEF Finalize
<1>3. Sound(lease, retired, pending', ahead', active', finishing', job', jobs', cache, request)
  BY <1>2, PumpSound DEF Finalize
<1>4. Surface' /\ Numbered'
  BY DEF Finalize, IInv, Surface, Numbered
<1> QED
  BY <1>3, <1>4 DEF Finalize, IInv

\* retire() goes by the session alone, and removes the entries of its queued
\* jobs and no other.
LEMMA TablesRetiredAre ==
    ASSUME IInv, lease # 0
    PROVE  TablesRetired(lease, pending) = TablesWithout(pending)
<1>1. lease \in Revision /\ jobs \in Table /\ NoJob \notin Job /\ pending \subseteq Job
  BY StateFacts DEF Sound, Typed
<1>2. \A j \in pending : job[j].rev = lease /\ jobs[lease][job[j].session] = j
  BY StateFacts, QueueIsLive DEF Sound, Observing, Allocated
<1>3. \A r \in Revision, s \in Session : jobs[r][s] \in pending =>
          job[jobs[r][s]].rev = r /\ job[jobs[r][s]].session = s
  BY <1>1, StateFacts DEF Sound, Tabled
<1>4. ASSUME NEW s \in Session
      PROVE  (\E j \in pending : job[j].session = s) <=> jobs[lease][s] \in pending
  BY <1>1, <1>2, <1>3, <1>4
<1>5. ASSUME NEW r \in Revision, NEW s \in Session
      PROVE  TablesRetired(lease, pending)[r][s] = TablesWithout(pending)[r][s]
  <2>1. CASE r = lease
    BY <1>1, <1>4, <2>1 DEF TablesRetired, TablesWithout, Table
  <2>2. CASE r # lease
    BY <1>1, <1>2, <1>3, <2>2 DEF TablesRetired, TablesWithout, Table
  <2> QED
    BY <2>1, <2>2
<1>6. TablesRetired(lease, pending) \in Table /\ TablesWithout(pending) \in Table
  BY <1>1 DEF TablesRetired, TablesWithout, Table
<1> HIDE DEF Table
<1>7. \A r \in Revision : TablesRetired(lease, pending)[r] = TablesWithout(pending)[r]
  BY <1>5, <1>6 DEF Table
<1> QED
  BY <1>6, <1>7 DEF Table

\* The live revision is retired, and ls2 takes its place.
LEMMA RetireKeeps ==
    ASSUME IInv, NEW ls2 \in {0, revision + 1}, lease # 0, revision < MaxRevision,
           revision' = revision + 1, lease' = ls2, RetireJobs(lease)
    PROVE  IInv'
<1> DEFINE mine   == {j \in Job : Used(j) /\ job[j].rev = lease}
           queued == mine \cap pending
           on     == mine \cap active
           left   == [j \in Job |->
                        IF j \in queued THEN Unused
                        ELSE IF j \in on
                             THEN [job[j] EXCEPT !.waiters = {}, !.prewarmer = FALSE,
                                                 !.aborted = TRUE]
                             ELSE job[j]]
<1>1. /\ lease \in Revision /\ lease \notin retired /\ retired \subseteq Revision
      /\ NoJob \notin Job
  BY StateFacts
<1>2. /\ pending \subseteq Job /\ active \subseteq Job /\ pending \cap active = {}
      /\ \A j \in Job : Used(j) <=> j \in pending \cup active
  BY DEF IInv, Sound, Typed, Allocated, Used
<1>3. \A j \in active : job[j] \in JobRecord
  BY StateFacts, InUse DEF Sound
<1>4. /\ \A j \in pending : job[j].rev = lease
      /\ \A j \in active : job[j].rev # lease => Unobserved(job[j]) /\ job[j].aborted
  BY StateFacts, QueueIsLive
<1>5. queued = pending
  BY <1>2, <1>4
<1>6. \A j \in active : j \in on <=> job[j].rev = lease
  BY <1>2
<1>7. /\ \A j \in pending : left[j] = Unused
      /\ \A j \in Job : j \notin pending \cup active => left[j] = job[j]
  BY <1>2, <1>5
<1>8. \A j \in active : /\ SameJob(job[j], left[j])
                        /\ left[j].waiters = {} /\ ~left[j].prewarmer /\ left[j].aborted
  <2> SUFFICES ASSUME NEW j \in active
               PROVE  /\ SameJob(job[j], left[j])
                      /\ left[j].waiters = {} /\ ~left[j].prewarmer /\ left[j].aborted
    OBVIOUS
  <2>1. left[j] = IF job[j].rev = lease
                  THEN [job[j] EXCEPT !.waiters = {}, !.prewarmer = FALSE, !.aborted = TRUE]
                  ELSE job[j]
    BY <1>2, <1>6
  <2> HIDE DEF left
  <2> QED
    BY <1>3, <1>4, <2>1, RetiredFields
<1>9. left \in [Job -> JobRecord \cup {Unused}]
  <2>1. \A j \in on : [job[j] EXCEPT !.waiters = {}, !.prewarmer = FALSE, !.aborted = TRUE]
                        \in JobRecord
    BY <1>3 DEF JobRecord
  <2> HIDE DEF queued, on
  <2> QED
    BY <2>1, StateFacts
<1>10. /\ request' \in [Request -> RequestRecord \cup {Idle}]
       /\ \A v \in Request : request'[v].phase # "waiting"
  <2>1. request' = Settle(UNION {job[j].waiters : j \in queued \cup on}, "retired", lease)
    BY DEF RetireJobs
  <2>2. /\ request' \in [Request -> RequestRecord \cup {Idle}]
        /\ \A v \in Request :
             IF v \in UNION {job[j].waiters : j \in queued \cup on}
             THEN request'[v].phase = "settled" ELSE request'[v] = request[v]
    <3> DEFINE W == UNION {job[j].waiters : j \in queued \cup on}
    <3>1. request \in [Request -> RequestRecord \cup {Idle}] /\ "retired" \in Outcome
      BY DEF IInv, Surface, Outcome
    <3> HIDE DEF W
    <3>2. Settle(W, "retired", lease) \in [Request -> RequestRecord \cup {Idle}]
      BY <1>1, <3>1, SettleTyped
    <3>3. request' = Settle(W, "retired", lease)
      BY <2>1 DEF W
    <3>4. /\ request' \in [Request -> RequestRecord \cup {Idle}]
          /\ \A v \in Request :
               IF v \in W THEN request'[v].phase = "settled" ELSE request'[v] = request[v]
      BY <3>2, <3>3, SettleEnds
    <3> QED
      BY <3>4 DEF W
  <2>3. \A v \in Request : request[v].phase = "waiting" =>
          \E j \in pending \cup active : v \in job[j].waiters
    BY DEF IInv, Sound, Waited
  <2>4. \A j \in pending \cup active : job[j].waiters # {} => j \in queued \cup on
    BY <1>4, <1>5, <1>6 DEF Unobserved
  <2>5. \A v \in Request : request[v].phase = "waiting" =>
          v \in UNION {job[j].waiters : j \in queued \cup on}
    BY <2>3, <2>4
  <2> QED
    BY <2>2, <2>5
<1>11. /\ cache' = [cache EXCEPT ![lease] = [s \in Session |-> "none"]]
       /\ retired' = retired \cup {lease}
       /\ finishing' = finishing /\ pumpDue' = pumpDue
       /\ prewarm' = IF \E j \in queued \cup on : job[j].prewarmer
                     THEN [prewarm EXCEPT ![lease] = "retired"] ELSE prewarm
       /\ Pump(pending \ queued, OrderWithout(queued), active, left,
               TablesRetired(lease, queued), retired \cup {lease})
  BY DEF RetireJobs
<1>12. /\ cache' \in [Revision -> [Session -> Origin]]
       /\ \A s \in Session : cache'[lease][s] = "none"
       /\ \A r \in retired, s \in Session : cache[r][s] = "none" => cache'[r][s] = "none"
  BY <1>1, <1>11 DEF IInv, Surface, Origin
<1>13. prewarm' \in [Revision -> PrewarmState]
  BY <1>11 DEF IInv, Surface, PrewarmState
<1>14. /\ revision \in Nat /\ revision + 1 \in Revision /\ revision + 1 # lease
       /\ revision + 1 \notin retired /\ 0 \notin retired
  BY <1>1, ConstantsAssumption DEF IInv, Surface, Numbered, Revision
<1>15. Retires(lease, retired, pending, active, job, jobs, cache, ls2,
               OrderWithout(pending), left, TablesWithout(pending), cache', request')
  <2> HIDE DEF left, queued, on
  <2> QED
    BY <1>1, <1>7, <1>8, <1>9, <1>10, <1>12, <1>14, StateFacts, TablesWithoutTyped,
       OrderWithoutTyped
    DEF Retires
<1>16. Sound(ls2, retired \cup {lease}, {}, OrderWithout(pending), active, finishing, left,
             TablesWithout(pending), cache', request')
  <2> HIDE DEF left
  <2> QED
    BY <1>15, StateFacts, RetireSound
<1>17. Pump({}, OrderWithout(pending), active, left, TablesWithout(pending),
            retired \cup {lease})
  BY <1>5, <1>11, TablesRetiredAre
<1>18. Sound(ls2, retired \cup {lease}, pending', ahead', active', finishing, job', jobs',
             cache', request')
  <2> HIDE DEF left
  <2> QED
    BY <1>16, <1>17, PumpSound
<1>19. Surface'
  <2>1. /\ revision' \in 0..MaxRevision /\ lease' \in 0..MaxRevision
        /\ retired' \subseteq Revision
    <3>1. revision \in Nat /\ MaxRevision \in Nat
      BY <1>14, ConstantsAssumption
    <3> HIDE DEF mine, queued, on, left
    <3> QED
      BY <1>1, <1>11, <3>1
  <2>2. pumpDue' \in BOOLEAN
    BY <1>11 DEF IInv, Surface
  <2> QED
    BY <1>10, <1>12, <1>13, <2>1, <2>2 DEF Surface
<1>20. Numbered'
  <2>1. lease = revision /\ retired \subseteq 1..revision
    BY DEF IInv, Numbered
  <2>2. retired' = retired \cup {lease} /\ revision \in Nat
    BY <1>11, <1>14
  <2>3. retired' \subseteq 1..(revision + 1)
    BY <1>1, <2>1, <2>2 DEF Revision
  <2> QED
    BY <2>3 DEF Numbered
<1> QED
  BY <1>11, <1>18, <1>19, <1>20 DEF IInv

\* A new index is installed.
LEMMA InstallKeeps ==
    ASSUME IInv, Install
    PROVE  IInv'
<1>1. CASE lease # 0
  BY <1>1, RetireKeeps DEF Install
<1>2. CASE lease = 0
  <2>1. revision + 1 \notin retired /\ revision + 1 \in 0..MaxRevision
    BY ConstantsAssumption DEF Install, IInv, Surface, Numbered
  <2>2. Sound(revision + 1, retired, pending, ahead, active, finishing, job, jobs, cache,
              request)
    BY <1>2, <2>1, StateFacts, ConstantsAssumption, InstallFirstSound
  <2>3. /\ revision' = revision + 1 /\ lease' = revision + 1
        /\ UNCHANGED <<retired, pumpDue, cache, request, prewarm>>
    BY <1>2 DEF Install, schedulerVars
  <2>4. Surface'
    BY <2>1, <2>3 DEF IInv, Surface
  <2>5. Numbered'
    <3>1. revision \in Nat /\ retired \subseteq 1..revision
      BY ConstantsAssumption DEF IInv, Surface, Numbered
    <3> QED
      BY <2>3, <3>1 DEF Numbered
  <2> QED
    BY <1>2, <2>2, <2>4, <2>5 DEF Install, schedulerVars, IInv
<1> QED
  BY <1>1, <1>2

\* The index is cleared.
LEMMA ClearKeeps ==
    ASSUME IInv, Clear
    PROVE  IInv'
BY RetireKeeps DEF Clear

\* The invariant holds initially.
LEMMA InitIInv == Init => IInv
<1> SUFFICES ASSUME Init PROVE IInv
  OBVIOUS
<1> USE ConstantsAssumption DEF Init, Idle, Unused
<1>1. Surface /\ Numbered
  <2>1. /\ cache \in [Revision -> [Session -> Origin]]
        /\ prewarm \in [Revision -> PrewarmState]
    BY DEF Origin, PrewarmState
  <2>2. request \in [Request -> RequestRecord \cup {Idle}]
    OBVIOUS
  <2>3. /\ revision \in 0..MaxRevision /\ lease \in 0..MaxRevision /\ retired \subseteq Revision
    OBVIOUS
  <2>4. pumpDue \in BOOLEAN
    OBVIOUS
  <2> QED
    BY <2>1, <2>2, <2>3, <2>4 DEF Surface, Numbered
<1>2. Typed(pending, ahead, active, job, jobs)
  BY DEF Typed, Table
<1>3. /\ Allocated(pending, active, finishing, job) /\ Serial(pending, ahead, active)
      /\ Observing(lease, retired, pending, active, finishing, job, jobs)
      /\ Tabled(retired, pending, active, finishing, job, jobs, cache)
      /\ Waited(pending, active, job, request)
      /\ Yielding(pending, active, finishing, job)
      /\ Drained(lease, retired, cache)
  BY DEF Allocated, Serial, Observing, Tabled, Waited, Yielding, Drained
<1> QED
  BY <1>1, <1>2, <1>3 DEF IInv, Sound

\* Every step keeps it.
LEMMA NextIInv == IInv /\ [Next]_vars => IInv'
<1> SUFFICES ASSUME IInv, [Next]_vars
             PROVE  IInv'
  OBVIOUS
<1>1. ASSUME NEW w \in Request, NEW s \in Session,
             GetHit(w, s) \/ GetJoin(w, s) \/ GetBusy(w, s) \/ GetNew(w, s)
      PROVE  IInv'
  BY <1>1, GetHitKeeps, GetJoinKeeps, GetBusyKeeps, GetNewKeeps
<1>2. ASSUME NEW w \in Request, Abandon(w) \/ Respond(w)
      PROVE  IInv'
  BY <1>2, AbandonKeeps, RespondKeeps
<1>3. ASSUME NEW s \in Session, Prewarm(s)
      PROVE  IInv'
  BY <1>3, PrewarmKeeps
<1>4. CASE PumpTick
  BY <1>4, PumpTickKeeps
<1>5. ASSUME NEW j \in Job, Complete(j) \/ Finalize(j)
      PROVE  IInv'
  BY <1>5, CompleteKeeps, FinalizeKeeps
<1>6. CASE Install
  BY <1>6, InstallKeeps
<1>7. CASE Clear
  BY <1>7, ClearKeeps
<1>8. CASE UNCHANGED vars
  BY <1>8 DEF vars, schedulerVars, IInv, Surface, Numbered
<1> QED
  BY <1>1, <1>2, <1>3, <1>4, <1>5, <1>6, <1>7, <1>8 DEF Next, Complete

-----------------------------------------------------------------------------
(* The theorems. *)

\* Every reachable state of the scheduler satisfies the inductive invariant,
\* whatever the sessions, the requests and the limits are.
THEOREM Inductive == Spec => []IInv
BY InitIInv, NextIInv, PTL DEF Spec

\* Type correctness of every reachable state.
THEOREM TypesCorrect == Spec => []TypeOK
<1>1. IInv => TypeOK
  BY DEF IInv, TypeOK, Surface, Sound, Typed, Table, Allocated
<1> QED
  BY <1>1, Inductive, PTL

\* No request joins a job that will not settle, and no session is cached while
\* a job for it is in the table.
THEOREM TablesSound == Spec => []JobTableSound
<1>1. IInv => JobTableSound
  <2> SUFFICES ASSUME IInv, NEW r \in Revision, NEW s \in Session, jobs[r][s] # NoJob
               PROVE  /\ jobs[r][s] \in pending \cup (active \ finishing)
                      /\ job[jobs[r][s]].rev = r /\ job[jobs[r][s]].session = s
                      /\ r \notin retired => /\ ~job[jobs[r][s]].aborted
                                             /\ ~Unobserved(job[jobs[r][s]])
                                             /\ cache[r][s] = "none"
    BY DEF JobTableSound
  <2> QED
    BY DEF IInv, Sound, Tabled, Observing, Allocated
<1> QED
  BY <1>1, Inductive, PTL

\* Every request that waits is a waiter of exactly one job, which its
\* session's entry in the live revision's table names.
THEOREM WaitersSound == Spec => []NoOrphanWaiter
<1>1. IInv => NoOrphanWaiter
  <2> SUFFICES ASSUME IInv, NEW w \in Request, request[w].phase = "waiting"
               PROVE  /\ request[w].rev = lease /\ request[w].rev \notin retired
                      /\ {j \in Job : Used(j) /\ w \in job[j].waiters}
                           = {jobs[request[w].rev][request[w].session]}
    BY DEF NoOrphanWaiter
  <2>1. \A j \in pending \cup active : w \in job[j].waiters =>
          /\ request[w].rev = lease /\ request[w].rev \notin retired
          /\ jobs[lease][request[w].session] = j
    BY DEF IInv, Sound, Waited, Observing, Unobserved
  <2>2. PICK j \in pending \cup active : w \in job[j].waiters
    BY DEF IInv, Sound, Waited
  <2>3. \A k \in Job : Used(k) <=> k \in pending \cup active
    BY DEF IInv, Sound, Allocated, Used
  <2>4. j \in Job
    BY DEF IInv, Sound, Typed
  <2> QED
    BY <2>1, <2>2, <2>3, <2>4
<1> QED
  BY <1>1, Inductive, PTL

\* A speculative job that is not aborted is all the work there is.
THEOREM SpeculationSound == Spec => []SpeculationYields
<1>1. IInv => SpeculationYields
  BY DEF SpeculationYields, IInv, Sound, Yielding
<1> QED
  BY <1>1, Inductive, PTL

\* A retired revision caches nothing, and all that is left of its work is a
\* running job that is aborted and that nobody waits for.
THEOREM RetirementSound == Spec => []RetiredOwnerDrained
<1>1. IInv => RetiredOwnerDrained
  <2> SUFFICES ASSUME IInv PROVE RetiredOwnerDrained
    OBVIOUS
  <2>1. \A r \in retired, s \in Session : cache[r][s] = "none"
    BY DEF IInv, Sound, Drained
  <2>2. ASSUME NEW j \in Job, Used(j), job[j].rev \in retired
        PROVE  j \in active /\ job[j].aborted /\ Unobserved(job[j])
    <3>1. j \in pending \cup active
      BY <2>2 DEF IInv, Sound, Allocated, Used
    <3> QED
      BY <2>2, <3>1 DEF IInv, Sound, Observing
  <2> QED
    BY <2>1, <2>2 DEF RetiredOwnerDrained
<1> QED
  BY <1>1, Inductive, PTL

-----------------------------------------------------------------------------
(* The queue: it stays within its limit, and is never left with jobs while  *)
(* nothing is about to run them.  Of the queue, the invariant so far says   *)
(* only that it is totally ordered.                                         *)

\* The order of the queue P mentions queued jobs only, and is well-founded:
\* whichever jobs of the queue one considers, one of them comes first.
WellOrdered(P, order) ==
    /\ P \subseteq Job
    /\ \A j \in P : order[j] \subseteq P
    /\ \A S \in SUBSET P : S # {} => \E j \in S : order[j] \cap S = {}

WithinLimit == IsFiniteSet(pending) /\ Cardinality(pending) <= MaxQueued

QInv ==
    /\ IInv
    /\ WellOrdered(pending, ahead)
    /\ WithinLimit
    /\ NoStall

-----------------------------------------------------------------------------
(* What the actions do to a queue *)

\* Jobs may leave a queue from anywhere.
LEMMA RemovalOrdered ==
    ASSUME NEW P, NEW order, WellOrdered(P, order), NEW gone,
           NEW Q, Q = P \ gone,
           NEW order2, \A j \in Q : order2[j] = order[j] \ gone
    PROVE  WellOrdered(Q, order2)
<1>1. \A j \in Q : order2[j] \subseteq Q
  BY DEF WellOrdered
<1>2. ASSUME NEW S \in SUBSET Q, S # {}
      PROVE  \E j \in S : order2[j] \cap S = {}
  <2>1. PICK j \in S : order[j] \cap S = {}
    BY <1>2 DEF WellOrdered
  <2> QED
    BY <2>1
<1> QED
  BY <1>1, <1>2 DEF WellOrdered

\* A job that is pushed goes behind all others.
LEMMA PushOrdered ==
    ASSUME NEW P, NEW order, WellOrdered(P, order), NEW j \in Job, j \notin P,
           NEW order2, order2[j] = P, \A k \in P : order2[k] = order[k]
    PROVE  WellOrdered(P \cup {j}, order2)
<1>1. P \cup {j} \subseteq Job /\ \A k \in P \cup {j} : order2[k] \subseteq P
  BY DEF WellOrdered
<1>2. ASSUME NEW S \in SUBSET (P \cup {j}), S # {}
      PROVE  \E k \in S : order2[k] \cap S = {}
  <2>1. CASE S \ {j} = {}
    BY <1>2, <2>1
  <2>2. CASE S \ {j} # {}
    <3>1. S \ {j} \in SUBSET P
      OBVIOUS
    <3>2. PICK k \in S \ {j} : order[k] \cap (S \ {j}) = {}
      BY <2>2, <3>1 DEF WellOrdered
    <3>3. order2[k] = order[k] /\ order2[k] \subseteq P
      BY <1>1, <3>1
    <3> QED
      BY <3>2, <3>3
  <2> QED
    BY <2>1, <2>2
<1> QED
  BY <1>1, <1>2 DEF WellOrdered

\* pump() takes jobs off the queue and leaves none when it starts none.
LEMMA PumpQueue ==
    ASSUME NEW P, NEW order, NEW A, NEW J, NEW T, NEW dead,
           WellOrdered(P, order), Pump(P, order, A, J, T, dead)
    PROVE  /\ pending' \subseteq P
           /\ WellOrdered(pending', ahead')
           /\ pending' # {} => active' # {}
<1> DEFINE off == Shifted(P, order, A, J, dead)
<1>1. /\ pending' = P \ off
      /\ active' = A \cup Started(P, order, A, J, dead)
      /\ ahead' = [j \in Job |-> IF j \in P \ off THEN order[j] \ off ELSE {}]
  BY DEF Pump
<1>2. \A j \in pending' : ahead'[j] = order[j] \ off
  BY <1>1 DEF WellOrdered
<1>3. WellOrdered(pending', ahead')
  <2> HIDE DEF off
  <2>1. pending' = P \ off
    BY <1>1
  <2> QED
    BY <1>2, <2>1, RemovalOrdered
<1>4. ASSUME pending' # {}, A = {}
      PROVE  Started(P, order, A, J, dead) # {}
  <2> DEFINE fit == {j \in P : Runnable(J[j], dead)}
  <2>1. fit # {}
    BY <1>1, <1>4 DEF Shifted, WellOrdered
  <2>2. PICK j \in fit : order[j] \cap fit = {}
    BY <2>1 DEF WellOrdered
  <2>3. j \in off
    BY <1>4, <2>2 DEF Shifted, WellOrdered
  <2> QED
    BY <2>2, <2>3 DEF Started
<1> QED
  BY <1>1, <1>3, <1>4

\* A part of a queue is within the limit.
LEMMA PartWithinLimit ==
    ASSUME WithinLimit, pending' \subseteq pending
    PROVE  WithinLimit'
<1>1. IsFiniteSet(pending') /\ Cardinality(pending') <= Cardinality(pending)
  BY FS_Subset DEF WithinLimit
<1>2. Cardinality(pending') \in Nat /\ Cardinality(pending) \in Nat
  BY <1>1, FS_CardinalityType DEF WithinLimit
<1> QED
  BY <1>1, <1>2, ConstantsAssumption DEF WithinLimit

\* Every queued job is of the live revision, so the limit of its owner, which
\* is what get() tests, is a limit of the scheduler.
LEMMA QueuedIsLive ==
    ASSUME IInv
    PROVE  \A j \in pending : j \in Job /\ Used(j) /\ job[j].rev = lease
BY DEF IInv, Sound, Typed, Allocated, Observing, Used

\* A step that takes a set of jobs off the queue and then pumps.
LEMMA RemovalKeeps ==
    ASSUME WellOrdered(pending, ahead), WithinLimit, NEW gone, NEW A, NEW J, NEW T, NEW dead,
           Pump(pending \ gone, OrderWithout(gone), A, J, T, dead)
    PROVE  WellOrdered(pending, ahead)' /\ WithinLimit' /\ NoStall'
<1>1. \A j \in pending \ gone : OrderWithout(gone)[j] = ahead[j] \ gone
  BY DEF OrderWithout, WellOrdered
<1>2. WellOrdered(pending \ gone, OrderWithout(gone))
  BY <1>1, RemovalOrdered
<1>3. /\ pending' \subseteq pending \ gone /\ WellOrdered(pending', ahead')
      /\ pending' # {} => active' # {}
  BY <1>2, PumpQueue
<1> QED
  BY <1>3, PartWithinLimit DEF NoStall

\* A step that pumps the queue as it is.
LEMMA PumpKeeps ==
    ASSUME WellOrdered(pending, ahead), WithinLimit, NEW A, NEW J, NEW T, NEW dead,
           Pump(pending, ahead, A, J, T, dead)
    PROVE  WellOrdered(pending, ahead)' /\ WithinLimit' /\ NoStall'
<1>1. /\ pending' \subseteq pending /\ WellOrdered(pending', ahead')
      /\ pending' # {} => active' # {}
  BY PumpQueue
<1> QED
  BY <1>1, PartWithinLimit DEF NoStall

\* A step that leaves the scheduler alone, except that jobs complete in it.
LEMMA RestKeeps ==
    ASSUME QInv, UNCHANGED <<pending, ahead, active, pumpDue>>
    PROVE  WellOrdered(pending, ahead)' /\ WithinLimit' /\ NoStall'
BY DEF QInv, WithinLimit, NoStall

-----------------------------------------------------------------------------
(* The actions that lengthen the queue *)

\* get() pushes a job: the queue was below its limit, or there was none.
LEMMA GetNewQueue ==
    ASSUME QInv, NEW w \in Request, NEW s \in Session, GetNew(w, s)
    PROVE  WellOrdered(pending, ahead)' /\ WithinLimit' /\ NoStall'
<1> DEFINE rest == pending \ Preempted
           order(j) == [OrderWithout(Preempted) EXCEPT ![j] = rest]
<1>1. PICK j \in Job : /\ ~Used(j)
                       /\ \E J, T : Pump(rest \cup {j}, order(j), active, J, T, retired)
  BY DEF GetNew
<1>2. j \notin pending
  BY <1>1 DEF QInv, IInv, Sound, Allocated, Used
<1>3. WellOrdered(rest, OrderWithout(Preempted))
  <2>1. \A k \in rest : OrderWithout(Preempted)[k] = ahead[k] \ Preempted
    BY DEF OrderWithout, QInv, WellOrdered
  <2> QED
    BY <2>1, RemovalOrdered DEF QInv
<1>4. WellOrdered(rest \cup {j}, order(j))
  <2>1. order(j)[j] = rest /\ \A k \in rest : order(j)[k] = OrderWithout(Preempted)[k]
    BY <1>2, <1>3 DEF OrderWithout, WellOrdered
  <2> HIDE DEF order, rest
  <2>2. j \notin rest
    BY <1>2 DEF rest
  <2> QED
    BY <1>3, <2>1, <2>2, PushOrdered
<1>5. /\ pending' \subseteq rest \cup {j} /\ WellOrdered(pending', ahead')
      /\ pending' # {} => active' # {}
  BY <1>1, <1>4, PumpQueue
<1>6. IsFiniteSet(rest) /\ Cardinality(rest) \in Nat
  BY FS_Subset, FS_CardinalityType DEF QInv, WithinLimit
<1>7. Cardinality(rest) < MaxQueued
  <2>1. CASE rest = {}
    BY <2>1, FS_EmptySet, ConstantsAssumption
  <2>2. CASE rest # {}
    <3>1. Queue(lease) = rest
      BY QueuedIsLive DEF QInv, Queue
    <3>2. ~(Cardinality(Queue(lease)) >= MaxQueued)
      BY <2>2 DEF GetNew, MustQueue
    <3> QED
      BY <1>6, <3>1, <3>2, ConstantsAssumption
  <2> QED
    BY <2>1, <2>2
<1>8. IsFiniteSet(rest \cup {j}) /\ Cardinality(rest \cup {j}) <= MaxQueued
  <2> HIDE DEF rest
  <2>1. /\ IsFiniteSet(rest \cup {j})
        /\ Cardinality(rest \cup {j}) \in {Cardinality(rest), Cardinality(rest) + 1}
    BY <1>6, FS_AddElement
  <2> QED
    BY <1>6, <1>7, <2>1, ConstantsAssumption
<1>9. WithinLimit'
  <2> DEFINE full == rest \cup {j}
  <2>1. IsFiniteSet(full) /\ Cardinality(full) <= MaxQueued /\ pending' \in SUBSET full
    BY <1>5, <1>8
  <2> HIDE DEF full
  <2>2. IsFiniteSet(pending') /\ Cardinality(pending') <= Cardinality(full)
    BY <2>1, FS_Subset
  <2>3. Cardinality(pending') \in Nat /\ Cardinality(full) \in Nat
    BY <2>1, <2>2, FS_CardinalityType
  <2> QED
    BY <2>1, <2>2, <2>3, ConstantsAssumption DEF WithinLimit
<1> QED
  BY <1>5, <1>9 DEF NoStall

\* prewarm() pushes a job on an empty queue, and leaves a microtask.
LEMMA PrewarmQueue ==
    ASSUME QInv, NEW s \in Session, Prewarm(s)
    PROVE  WellOrdered(pending, ahead)' /\ WithinLimit' /\ NoStall'
<1>1. PICK j \in Job : /\ pending' = pending \cup {j}
                       /\ ahead' = [ahead EXCEPT ![j] = pending]
  BY DEF Prewarm
<1>2. pending = {} /\ pumpDue'
  BY DEF Prewarm, SchedulerIdle
<1>3. ahead'[j] = pending
  BY <1>1 DEF QInv, IInv, Sound, Typed
<1>4. WellOrdered(pending', ahead')
  BY <1>1, <1>2, <1>3, PushOrdered DEF QInv
<1>5. WithinLimit'
  <2>1. pending' = {j}
    BY <1>1, <1>2
  <2>2. IsFiniteSet({j}) /\ Cardinality({j}) = 1
    BY FS_Singleton
  <2>3. MaxQueued \in Nat /\ 1 <= MaxQueued
    BY ConstantsAssumption
  <2> QED
    BY <2>1, <2>2, <2>3 DEF WithinLimit
<1> QED
  BY <1>2, <1>4, <1>5 DEF NoStall

\* retire() empties the queue of its owner.
LEMMA RetireQueue ==
    ASSUME QInv, NEW r, RetireJobs(r)
    PROVE  WellOrdered(pending, ahead)' /\ WithinLimit' /\ NoStall'
<1> DEFINE queued == {j \in Job : Used(j) /\ job[j].rev = r} \cap pending
<1>1. \E A, J, T, dead : Pump(pending \ queued, OrderWithout(queued), A, J, T, dead)
  BY DEF RetireJobs
<1> QED
  BY <1>1, RemovalKeeps DEF QInv

-----------------------------------------------------------------------------
(* Induction *)

\* The invariant holds initially.
LEMMA InitQInv == Init => QInv
<1> SUFFICES ASSUME Init PROVE QInv
  OBVIOUS
<1>1. WellOrdered(pending, ahead)
  BY DEF Init, WellOrdered
<1>2. WithinLimit
  BY FS_EmptySet, ConstantsAssumption DEF Init, WithinLimit
<1> QED
  BY <1>1, <1>2, InitIInv DEF Init, QInv, NoStall

\* Every step keeps it.
LEMMA NextQInv == QInv /\ [Next]_vars => QInv'
<1> SUFFICES ASSUME QInv, [Next]_vars
             PROVE  WellOrdered(pending, ahead)' /\ WithinLimit' /\ NoStall'
  BY NextIInv DEF QInv
<1>1. ASSUME NEW w \in Request, NEW s \in Session, GetHit(w, s) \/ GetJoin(w, s)
      PROVE  WellOrdered(pending, ahead)' /\ WithinLimit' /\ NoStall'
  BY <1>1, RestKeeps DEF GetHit, GetJoin, schedulerVars
<1>2. ASSUME NEW w \in Request, NEW s \in Session, GetBusy(w, s)
      PROVE  WellOrdered(pending, ahead)' /\ WithinLimit' /\ NoStall'
  BY <1>2, RemovalKeeps DEF GetBusy, QInv
<1>3. ASSUME NEW w \in Request, NEW s \in Session, GetNew(w, s)
      PROVE  WellOrdered(pending, ahead)' /\ WithinLimit' /\ NoStall'
  BY <1>3, GetNewQueue
<1>4. ASSUME NEW w \in Request, Abandon(w)
      PROVE  WellOrdered(pending, ahead)' /\ WithinLimit' /\ NoStall'
  <2>1. PICK j \in Job :
          \/ \E J, T : Pump(pending \ {j}, OrderWithout({j}), active, J, T, retired)
          \/ UNCHANGED <<pending, ahead, active>>
    BY <1>4 DEF Abandon
  <2>2. UNCHANGED pumpDue
    BY <1>4 DEF Abandon
  <2> QED
    BY <2>1, <2>2, RemovalKeeps, RestKeeps DEF QInv
<1>5. ASSUME NEW w \in Request, Respond(w)
      PROVE  WellOrdered(pending, ahead)' /\ WithinLimit' /\ NoStall'
  BY <1>5, RestKeeps DEF Respond, schedulerVars
<1>6. ASSUME NEW s \in Session, Prewarm(s)
      PROVE  WellOrdered(pending, ahead)' /\ WithinLimit' /\ NoStall'
  BY <1>6, PrewarmQueue
<1>7. CASE PumpTick
  BY <1>7, PumpKeeps DEF PumpTick, QInv
<1>8. ASSUME NEW j \in Job, Complete(j)
      PROVE  WellOrdered(pending, ahead)' /\ WithinLimit' /\ NoStall'
  BY <1>8, RestKeeps
  DEF Complete, CompleteForeground, CompleteSpeculative, RejectSpeculative, Fail, Discard,
      Observed
<1>9. ASSUME NEW j \in Job, Finalize(j)
      PROVE  WellOrdered(pending, ahead)' /\ WithinLimit' /\ NoStall'
  BY <1>9, PumpKeeps DEF Finalize, QInv
<1>10. CASE Install \/ Clear
  BY <1>10, RetireQueue, RestKeeps DEF Install, Clear, schedulerVars
<1>11. CASE UNCHANGED vars
  BY <1>11, RestKeeps DEF vars, schedulerVars
<1> QED
  BY <1>1, <1>2, <1>3, <1>4, <1>5, <1>6, <1>7, <1>8, <1>9, <1>10, <1>11 DEF Next, Complete

-----------------------------------------------------------------------------
(* The theorems *)

\* At most one job runs, and no more than the limit are queued behind it,
\* whichever owners they belong to.
THEOREM CapacitySound == Spec => []CapacityBounded
<1>1. QInv => CapacityBounded
  BY DEF QInv, WithinLimit, CapacityBounded, IInv, Sound, Serial
<1> QED
  BY <1>1, InitQInv, NextQInv, PTL DEF Spec

\* No pump() is missing: while jobs are queued one is running, or the
\* microtask that will pump is outstanding.
THEOREM QueueServed == Spec => []NoStall
<1>1. QInv => NoStall
  BY DEF QInv
<1> QED
  BY <1>1, InitQInv, NextQInv, PTL DEF Spec

-----------------------------------------------------------------------------
(* The service that requests see *)

\* The sessions the service keeps a result of.
Known == IF lease = 0 THEN {} ELSE Cached(lease)

\* Nothing is cached for a revision that is still to come.
FutureEmpty ==
    \A r \in Revision, s \in Session : r > revision => cache[r][s] = "none"

RInv == IInv /\ FutureEmpty

\* A step that requests do not see.
Unseen == UNCHANGED <<revision, lease, Known, request>>

-----------------------------------------------------------------------------
(* Who waits *)

\* A waiter of a job of the queue, or of an active job, waits for its session at
\* the live revision, and whoever waits for that is a waiter of that job.
LEMMA WaitersAre ==
    ASSUME IInv, NEW j \in pending \cup active, ~Unobserved(job[j])
    PROVE  /\ lease # 0 /\ job[j].rev = lease /\ lease \in Revision
           /\ job[j].session \in Session
           /\ jobs[lease][job[j].session] = j
           /\ Service!WaitsFor(job[j].session) = job[j].waiters
<1>1. /\ j \in Job /\ job[j] \in JobRecord
      /\ job[j].rev = lease /\ jobs[lease][job[j].session] = j
  BY StateFacts, InUse DEF Sound, Observing
<1>2. lease \in Revision /\ job[j].session \in Session /\ job[j].waiters \subseteq Request
  BY <1>1, JobFields
<1>3. lease # 0
  BY <1>2 DEF Revision
<1> DEFINE s == job[j].session
<1>4. ASSUME NEW w \in job[j].waiters
      PROVE  w \in Service!WaitsFor(s)
  <2>1. /\ w \in Request
        /\ request[w].phase = "waiting" /\ request[w].rev = lease /\ request[w].session = s
    BY <1>1, <1>2, StateFacts DEF Sound, Waited
  <2>2. request[w] = [phase |-> "waiting", rev |-> lease, session |-> s]
    BY <2>1 DEF IInv, Surface, RequestRecord, Idle
  <2> QED
    BY <2>1, <2>2 DEF Service!WaitsFor, Service!Waits, Service!Waiting
<1>5. ASSUME NEW w \in Service!WaitsFor(s)
      PROVE  w \in job[j].waiters
  <2>1. /\ w \in Request
        /\ request[w].phase = "waiting" /\ request[w].rev = lease /\ request[w].session = s
    BY DEF Service!WaitsFor, Service!Waits, Service!Waiting
  <2>2. PICK k \in pending \cup active : w \in job[k].waiters
    BY <2>1, StateFacts DEF Sound, Waited
  <2>3. job[k].session = s /\ ~Unobserved(job[k])
    BY <2>1, <2>2, StateFacts DEF Sound, Waited, Unobserved
  <2>4. jobs[lease][s] = k
    BY <2>3, StateFacts DEF Sound, Observing
  <2> QED
    BY <1>1, <2>2, <2>4
<1> QED
  BY <1>1, <1>2, <1>3, <1>4, <1>5

\* Nobody waits for a session that has no job.
LEMMA NobodyWaits ==
    ASSUME IInv, NEW s \in Session, jobs[lease][s] = NoJob
    PROVE  Service!WaitsFor(s) = {}
<1> SUFFICES ASSUME NEW w \in Service!WaitsFor(s) PROVE FALSE
  OBVIOUS
<1>1. /\ w \in Request
      /\ request[w].phase = "waiting" /\ request[w].rev = lease /\ request[w].session = s
  BY DEF Service!WaitsFor, Service!Waits, Service!Waiting
<1>2. PICK k \in pending \cup active : w \in job[k].waiters
  BY <1>1, StateFacts DEF Sound, Waited
<1>3. job[k].session = s /\ ~Unobserved(job[k]) /\ k \in Job
  BY <1>1, <1>2, StateFacts DEF Sound, Waited, Unobserved, Typed
<1>4. jobs[lease][s] = k
  BY <1>3, StateFacts DEF Sound, Observing
<1> QED
  BY <1>3, <1>4, StateFacts

\* The requests of the model as the service sees them.
LEMMA RequestsAre ==
    ASSUME IInv
    PROVE  /\ request = [w \in Request |-> request[w]]
           /\ lease # 0 => lease \in Revision
           /\ lease \in 0..MaxRevision /\ revision \in 0..MaxRevision
           /\ MaxRevision \in Nat
           /\ cache \in [Revision -> [Session -> Origin]]
BY StateFacts, ConstantsAssumption DEF IInv, Surface, RequestRecord, Idle

-----------------------------------------------------------------------------
(* The steps of a request *)

\* A hit of get().
LEMMA HitRefines ==
    ASSUME IInv, NEW w \in Request, NEW s \in Session, GetHit(w, s)
    PROVE  Service!Hit(w, s)
<1>1. Opens(w) /\ lease # 0 /\ s \in Known
  BY DEF GetHit, Opens, Known, Cached
<1>2. request' = [v \in Request |-> IF v \in {w} THEN Settled("value", lease) ELSE request[v]]
      /\ UNCHANGED <<revision, lease>>
  BY DEF GetHit, Settle
<1>3. Known' = Known
  <2>1. lease' = lease /\ lease \in Revision /\ lease # 0
    BY <1>1, <1>2, RequestsAre
  <2>2. Cached(lease)' = Cached(lease)
    BY <2>1, RequestsAre DEF GetHit, Cached
  <2> QED
    BY <2>1, <2>2 DEF Known
<1> QED
  BY <1>1, <1>2, <1>3 DEF Service!Hit, Service!Opens, Opens, Service!AllSettled,
     Service!Settled, Settled, Known

\* A request that joins a job, or has one made, waits for its session.
LEMMA WaitRefines ==
    ASSUME IInv, NEW w \in Request, NEW s \in Session, GetJoin(w, s) \/ GetNew(w, s)
    PROVE  Service!Wait(w, s)
<1>1. Opens(w) /\ lease # 0 /\ s \notin Known
  BY DEF GetJoin, GetNew, Misses, Opens, Known, Cached
<1>2. /\ request' = [request EXCEPT ![w] =
             [phase |-> "waiting", rev |-> lease, session |-> s]]
      /\ UNCHANGED <<revision, lease, cache>>
  BY DEF GetJoin, GetNew
<1>3. Known' = Known
  BY <1>2 DEF Known, Cached
<1> QED
  BY <1>1, <1>2, <1>3 DEF Service!Wait, Service!Opens, Opens, Service!Waiting, Known

\* A request is turned away only when it could have joined nobody.
LEMMA TurnAwayRefines ==
    ASSUME IInv, NEW w \in Request, NEW s \in Session, GetBusy(w, s)
    PROVE  Service!TurnAway(w, s)
<1>1. Opens(w) /\ lease # 0 /\ s \notin Known
  BY DEF GetBusy, Misses, Opens, Known, Cached
<1>2. Service!WaitsFor(s) = {}
  BY NobodyWaits DEF GetBusy, Misses
<1>3. /\ request' = [v \in Request |-> IF v \in {w} THEN Settled("busy", lease) ELSE request[v]]
      /\ UNCHANGED <<revision, lease, cache>>
  BY DEF GetBusy, Settle
<1>4. Known' = Known
  BY <1>3 DEF Known, Cached
<1> QED
  BY <1>1, <1>2, <1>3, <1>4 DEF Service!TurnAway, Service!Opens, Opens, Service!AllSettled,
     Service!Settled, Settled, Known

\* A request that goes away takes no other with it.
LEMMA LeaveRefines ==
    ASSUME IInv, NEW w \in Request, Abandon(w)
    PROVE  Service!Leave(w)
<1>1. /\ request[w].phase = "waiting"
      /\ request' = [v \in Request |-> IF v \in {w} THEN Settled("aborted", request[w].rev)
                                                    ELSE request[v]]
      /\ UNCHANGED <<revision, lease, cache>>
  BY DEF Abandon, Settle
<1>2. Known' = Known
  BY <1>1 DEF Known, Cached
<1>3. request[w].rev = lease
  <2>1. PICK k \in pending \cup active : w \in job[k].waiters
    BY <1>1, StateFacts DEF Sound, Waited
  <2>2. ~Unobserved(job[k])
    BY <2>1 DEF Unobserved
  <2> QED
    BY <2>1, <2>2, StateFacts, WaitersAre DEF Sound, Waited
<1> QED
  BY <1>1, <1>2, <1>3 DEF Service!Leave, Service!Waits, Service!AllSettled, Service!Settled,
     Settled, Known

\* What a client is given, the service may give it.
LEMMA GiveRefines ==
    ASSUME IInv, NEW w \in Request, Respond(w)
    PROVE  Service!Give(w)
<1>1. Known' = Known
  BY DEF Respond, Known, Cached
<1>2. PICK gone \in BOOLEAN : request' = [request EXCEPT ![w] =
                [phase |-> "answered", outcome |-> Given(w, gone)]]
  BY DEF Respond
<1>3. Given(w, gone) \in IF request[w].rev = lease
                         THEN {request[w].outcome, "aborted"} ELSE {"retired", "aborted"}
  BY DEF Given
<1> QED
  BY <1>1, <1>2, <1>3 DEF Respond, Service!Give, Service!Answered, Known

-----------------------------------------------------------------------------
(* The steps of a job *)

\* Settling nobody changes no request.
LEMMA SettleNobody ==
    ASSUME IInv, NEW outcome, NEW r
    PROVE  Settle({}, outcome, r) = request
BY RequestsAre DEF Settle

\* A job that completes for nobody is not seen, when nothing is cached.
LEMMA UnseenEnd ==
    ASSUME IInv, NEW j, job[j].waiters = {}, NEW outcome, NEW result,
           Observed(j, outcome, result), UNCHANGED cache
    PROVE  Unseen
<1>1. request' = request /\ UNCHANGED <<revision, lease>>
  BY SettleNobody DEF Observed
<1> QED
  BY <1>1 DEF Unseen, Known, Cached

\* What an admission leaves of what was cached.
LEMMA AdmissionKept ==
    ASSUME IInv, lease # 0, UNCHANGED lease, NEW s \in Session, NEW victims,
           NEW origin, origin # "none", cache' = CacheWith(lease, s, origin, victims)
    PROVE  \E kept \in SUBSET Known : Known' = kept \cup {s}
<1>1. lease \in Revision
  BY RequestsAre
<1>2. \A x \in Session : cache'[lease][x] =
         IF x = s THEN origin ELSE IF x \in victims THEN "none" ELSE cache[lease][x]
  BY <1>1, RequestsAre DEF CacheWith
<1> DEFINE kept == {x \in Cached(lease) : x \notin victims /\ x # s}
<1>3. Cached(lease)' = kept \cup {s}
  BY <1>2 DEF Cached
<1>4. Known' = kept \cup {s} /\ kept \in SUBSET Known
  BY <1>3 DEF Known
<1> QED
  BY <1>4

\* A result that is waited for reaches all who wait for it.
LEMMA DeliverRefines ==
    ASSUME IInv, NEW j \in Job, CompleteForeground(j)
    PROVE  Service!Deliver(job[j].session)
<1>1. j \in pending \cup active /\ ~Unobserved(job[j]) /\ job[j].waiters # {}
  BY StateFacts DEF CompleteForeground, Running, Discarded, Sound, Yielding, Unobserved
<1>2. /\ lease # 0 /\ job[j].rev = lease /\ job[j].session \in Session
      /\ Service!WaitsFor(job[j].session) = job[j].waiters
  BY <1>1, WaitersAre
<1>3. /\ request' = [w \in Request |-> IF w \in job[j].waiters THEN Settled("value", lease)
                                       ELSE request[w]]
      /\ UNCHANGED <<revision, lease>>
  BY <1>2 DEF CompleteForeground, Observed, Settle
<1>4. \E kept \in SUBSET Known : Known' = kept \cup {job[j].session}
  <2>1. PICK victims : cache' = CacheWith(lease, job[j].session, "foreground", victims)
    BY <1>2 DEF CompleteForeground
  <2> QED
    BY <1>2, <1>3, <2>1, AdmissionKept
<1> QED
  BY <1>1, <1>2, <1>3, <1>4 DEF Service!Deliver, Service!AllSettled, Service!Settled,
     Settled, Known

\* A speculative result is one nobody has asked for.
LEMMA SpeculateRefines ==
    ASSUME IInv, NEW j \in Job, CompleteSpeculative(j)
    PROVE  Service!Speculate(job[j].session)
<1>1. j \in pending \cup active /\ ~Unobserved(job[j]) /\ job[j].waiters = {}
  BY StateFacts DEF CompleteSpeculative, Running, Discarded, Sound, Yielding
<1>2. /\ lease # 0 /\ job[j].rev = lease /\ job[j].session \in Session /\ lease \in Revision
      /\ jobs[lease][job[j].session] = j
      /\ Service!WaitsFor(job[j].session) = {}
  BY <1>1, WaitersAre
<1>3. cache[lease][job[j].session] = "none"
  BY <1>2, StateFacts DEF Sound, Tabled
<1>4. UNCHANGED <<request, revision, lease>>
  BY <1>1, SettleNobody DEF CompleteSpeculative, Observed
<1>5. \E kept \in SUBSET Known : Known' = kept \cup {job[j].session}
  <2>1. PICK victims : cache' = CacheWith(lease, job[j].session, "speculative", victims)
    BY <1>2 DEF CompleteSpeculative
  <2> QED
    BY <1>2, <1>4, <2>1, AdmissionKept
<1> QED
  BY <1>2, <1>3, <1>4, <1>5 DEF Service!Speculate, Known, Cached

\* An error answers all who wait, if anybody does.
LEMMA RefuseRefines ==
    ASSUME IInv, NEW j \in Job, Fail(j)
    PROVE  \/ /\ Service!Refuse(job[j].session)
              /\ job[j].session \in Session
           \/ Unseen
<1>1. j \in pending \cup active /\ ~Unobserved(job[j])
  BY DEF Fail, Running, Discarded
<1>2. CASE job[j].waiters = {}
  BY <1>2, UnseenEnd DEF Fail
<1>3. CASE job[j].waiters # {}
  <2>1. /\ job[j].session \in Session /\ Service!WaitsFor(job[j].session) = job[j].waiters
        /\ job[j].rev = lease
    BY <1>1, WaitersAre
  <2>2. /\ request' = [w \in Request |-> IF w \in job[j].waiters THEN Settled("failed", lease)
                                         ELSE request[w]]
        /\ UNCHANGED <<revision, lease, cache>>
    BY <2>1 DEF Fail, Observed, Settle
  <2>3. Known' = Known
    BY <2>2 DEF Known, Cached
  <2> QED
    BY <1>3, <2>1, <2>2, <2>3 DEF Service!Refuse, Service!AllSettled, Service!Settled,
       Settled, Known
<1> QED
  BY <1>2, <1>3

\* What is discarded nobody waits for.
LEMMA DiscardUnseen ==
    ASSUME IInv, NEW j \in Job, RejectSpeculative(j) \/ Discard(j)
    PROVE  Unseen
<1>1. j \in pending \cup active
  BY DEF RejectSpeculative, Discard, Running
<1>2. job[j].waiters = {}
  <2>1. CASE RejectSpeculative(j)
    BY <1>1, <2>1, StateFacts DEF RejectSpeculative, Sound, Yielding
  <2>2. CASE Discard(j)
    <3>1. Unobserved(job[j])
      BY <1>1, <2>2, StateFacts DEF Discard, Discarded, Sound, Observing
    <3> QED
      BY <3>1 DEF Unobserved
  <2> QED
    BY <2>1, <2>2
<1>3. UNCHANGED cache /\ \E outcome, result : Observed(j, outcome, result)
  BY DEF RejectSpeculative, Discard
<1> QED
  BY <1>2, <1>3, UnseenEnd

\* Nor are the queue and the calls of prewarm() seen.
LEMMA SchedulerUnseen ==
    ASSUME PumpTick \/ (\E s \in Session : Prewarm(s)) \/ (\E j \in Job : Finalize(j))
    PROVE  Unseen
<1>1. UNCHANGED <<revision, lease, cache, request>>
  BY DEF PumpTick, Prewarm, Finalize
<1> QED
  BY <1>1 DEF Unseen, Known, Cached

-----------------------------------------------------------------------------
(* A change of the live revision *)

\* All who wait are waiters of the live revision's jobs.
LEMMA AllAreWaiters ==
    ASSUME IInv
    PROVE  Service!Waits = UNION {job[j].waiters : j \in {k \in pending \cup active :
                                                             job[k].rev = lease}}
<1>1. ASSUME NEW w \in Service!Waits
      PROVE  \E k \in pending \cup active : job[k].rev = lease /\ w \in job[k].waiters
  <2>1. w \in Request /\ request[w].phase = "waiting"
    BY DEF Service!Waits
  <2>2. PICK k \in pending \cup active : w \in job[k].waiters
    BY <2>1, StateFacts DEF Sound, Waited
  <2>3. ~Unobserved(job[k])
    BY <2>2 DEF Unobserved
  <2> QED
    BY <2>2, <2>3, WaitersAre
<1>2. ASSUME NEW k \in pending \cup active, NEW w \in job[k].waiters
      PROVE  w \in Service!Waits
  <2>1. w \in Request
    BY StateFacts, InUse, JobFields DEF Sound
  <2> QED
    BY <2>1, StateFacts DEF Sound, Waited, Service!Waits
<1> QED
  BY <1>1, <1>2

\* Nobody waits when there is no live revision.
LEMMA NobodyWithoutLease ==
    ASSUME IInv, lease = 0
    PROVE  Service!Waits = {}
<1>1. \A k \in pending \cup active : job[k].rev # 0
  BY StateFacts, InUse, JobFields DEF Sound, Revision
<1> QED
  BY <1>1, AllAreWaiters

\* retire() answers all who wait, and leaves nothing cached of the revision.
LEMMA RetireAnswers ==
    ASSUME IInv, lease # 0, RetireJobs(lease)
    PROVE  /\ request' = Service!AllSettled(Service!Waits, "retired")
           /\ cache' = [cache EXCEPT ![lease] = [s \in Session |-> "none"]]
<1>1. /\ pending \subseteq Job /\ active \subseteq Job
      /\ \A j \in Job : Used(j) <=> j \in pending \cup active
  BY DEF IInv, Sound, Typed, Allocated, Used
<1> DEFINE mine == {j \in Job : Used(j) /\ job[j].rev = lease}
<1>2. (mine \cap pending) \cup (mine \cap active) =
        {k \in pending \cup active : job[k].rev = lease}
  BY <1>1
<1>3. /\ request' = Settle(UNION {job[j].waiters :
                             j \in (mine \cap pending) \cup (mine \cap active)}, "retired", lease)
      /\ cache' = [cache EXCEPT ![lease] = [s \in Session |-> "none"]]
  BY DEF RetireJobs
<1>4. request' = Settle(Service!Waits, "retired", lease)
  <2> HIDE DEF mine
  <2> QED
    BY <1>2, <1>3, AllAreWaiters
<1> QED
  BY <1>3, <1>4 DEF Settle, Settled, Service!AllSettled, Service!Settled

\* A new revision, or none: those who wait are told, and nothing is known.
LEMMA ChangeRefines ==
    ASSUME RInv, Install \/ Clear
    PROVE  \E next \in 0..MaxRevision : Service!ChangeRevision(next)
<1> USE DEF RInv
<1>1. /\ revision \in Nat /\ MaxRevision \in Nat /\ revision < MaxRevision
      /\ cache \in [Revision -> [Session -> Origin]]
      /\ lease # 0 => lease \in Revision /\ lease = revision
  BY RequestsAre DEF Install, Clear, IInv, Numbered
<1>2. /\ revision + 1 \in Revision /\ revision + 1 # 0 /\ revision + 1 # lease
      /\ revision + 1 > revision
      /\ revision + 1 \in 0..MaxRevision /\ 0 \in 0..MaxRevision
  BY <1>1 DEF Revision
<1>3. request' = Service!AllSettled(Service!Waits, "retired")
  <2>1. CASE lease = 0
    <3>1. request' = request /\ Service!Waits = {}
      BY <2>1, NobodyWithoutLease DEF Install, Clear
    <3> QED
      BY <3>1, RequestsAre DEF Service!AllSettled
  <2>2. CASE lease # 0
    BY <2>2, RetireAnswers DEF Install, Clear
  <2> QED
    BY <2>1, <2>2
<1>4. \A s \in Session : cache'[revision + 1][s] = "none"
  <2>1. \A s \in Session : cache[revision + 1][s] = "none"
    BY <1>2 DEF FutureEmpty
  <2>2. CASE lease = 0
    BY <2>1, <2>2 DEF Install, Clear
  <2>3. CASE lease # 0
    <3>1. cache' = [cache EXCEPT ![lease] = [s \in Session |-> "none"]]
      BY <2>3, RetireAnswers DEF Install, Clear
    <3>2. cache'[revision + 1] = cache[revision + 1]
      BY <1>1, <1>2, <2>3, <3>1
    <3> QED
      BY <2>1, <3>2
  <2> QED
    BY <2>2, <2>3
<1>5. CASE Install
  <2>1. revision' = revision + 1 /\ lease' = revision + 1
    BY <1>5 DEF Install
  <2>2. Cached(lease)' = {}
    BY <1>4, <2>1 DEF Cached
  <2>3. Known' = {}
    BY <2>2 DEF Known
  <2>4. Service!ChangeRevision(revision + 1)
    BY <1>1, <1>2, <1>3, <2>1, <2>3 DEF Service!ChangeRevision, Known
  <2> QED
    BY <1>2, <2>4
<1>6. CASE Clear
  <2>1. revision' = revision + 1 /\ lease' = 0 /\ lease # 0
    BY <1>6 DEF Clear
  <2>2. Known' = {}
    BY <2>1 DEF Known
  <2>3. Service!ChangeRevision(0)
    BY <1>1, <1>3, <2>1, <2>2 DEF Service!ChangeRevision, Known
  <2> QED
    BY <1>2, <2>3
<1> QED
  BY <1>5, <1>6

-----------------------------------------------------------------------------
(* Nothing is cached ahead of its revision *)

\* What a step caches, it caches for the live revision.
LEMMA CachedWhenLive ==
    ASSUME IInv, Next, NEW r \in Revision, NEW s \in Session,
           cache[r][s] = "none", cache'[r][s] # "none"
    PROVE  r = lease
<1>1. /\ cache \in [Revision -> [Session -> Origin]]
      /\ lease # 0 => lease \in Revision
  BY RequestsAre
<1>2. cache' # cache
  OBVIOUS
<1>3. ASSUME NEW w \in Request, NEW x \in Session, GetHit(w, x)
      PROVE  r = lease
  <2>1. lease \in Revision /\ cache' = [cache EXCEPT ![lease][x] = "foreground"]
    BY <1>1, <1>3 DEF GetHit, Opens
  <2> QED
    BY <1>1, <2>1
<1>4. ASSUME NEW j \in Job, CompleteForeground(j) \/ CompleteSpeculative(j)
      PROVE  r = lease
  <2>1. j \in pending \cup active /\ ~Unobserved(job[j])
    BY <1>4 DEF CompleteForeground, CompleteSpeculative, Running, Discarded
  <2>2. job[j].rev = lease /\ lease \in Revision
    BY <2>1, WaitersAre
  <2>3. PICK origin, victims :
          cache' = CacheWith(lease, job[j].session, origin, victims)
    BY <1>4, <2>2 DEF CompleteForeground, CompleteSpeculative
  <2>4. ASSUME r # lease PROVE cache'[r] = cache[r]
    BY <1>1, <2>2, <2>3, <2>4 DEF CacheWith
  <2> QED
    BY <2>4
<1>5. ASSUME lease # 0, RetireJobs(lease)
      PROVE  r = lease
  <2>1. cache' = [cache EXCEPT ![lease] = [x \in Session |-> "none"]]
    BY <1>5, RetireAnswers
  <2> QED
    BY <1>1, <1>5, <2>1
<1>6. CASE Install \/ Clear
  BY <1>2, <1>5, <1>6 DEF Install, Clear
<1>7. CASE ~(Install \/ Clear)
  BY <1>2, <1>3, <1>4, <1>7 DEF Next, GetJoin, GetBusy, GetNew, Abandon, Respond,
     Prewarm, PumpTick, RejectSpeculative, Fail, Discard, Finalize
<1> QED
  BY <1>6, <1>7

\* The invariant of the refinement is inductive.
LEMMA RInvStep == RInv /\ [Next]_vars => RInv'
<1> SUFFICES ASSUME RInv, [Next]_vars PROVE RInv'
  OBVIOUS
<1>1. IInv /\ IInv'
  BY NextIInv DEF RInv
<1>2. revision \in Nat /\ revision' \in Nat /\ revision' >= revision
  <2>1. revision \in Nat
    BY <1>1, RequestsAre
  <2>2. revision' \in {revision, revision + 1}
    BY DEF Next, vars, GetHit, GetJoin, GetBusy, GetNew, Abandon, Respond, Prewarm, PumpTick,
       CompleteForeground, CompleteSpeculative, RejectSpeculative, Fail, Discard, Observed,
       Finalize, Install, Clear
  <2> QED
    BY <2>1, <2>2
<1>3. CASE UNCHANGED vars
  BY <1>1, <1>3 DEF RInv, vars, FutureEmpty
<1>4. CASE Next
  <2>1. ASSUME NEW r \in Revision, NEW s \in Session, r > revision'
        PROVE  cache'[r][s] = "none"
    <3>1. r \in Nat /\ r > revision
      BY <1>2, <2>1, ConstantsAssumption DEF Revision
    <3>2. r # lease /\ cache[r][s] = "none"
      BY <1>1, <1>2, <3>1 DEF RInv, FutureEmpty, IInv, Numbered
    <3> QED
      BY <1>1, <1>4, <3>2, CachedWhenLive
  <2> QED
    BY <1>1, <2>1 DEF RInv, FutureEmpty
<1> QED
  BY <1>3, <1>4

-----------------------------------------------------------------------------
(* The refinement *)

\* Every step is one of the service, or none.
LEMMA StepRefines == RInv /\ [Next]_vars => [Service!Next]_Service!vars
<1> SUFFICES ASSUME RInv, [Next]_vars
             PROVE  Service!Next \/ Unseen
  BY DEF Unseen, Known, Service!vars
<1>0. IInv
  BY DEF RInv
<1>1. ASSUME NEW w \in Request, NEW s \in Session,
             GetHit(w, s) \/ GetJoin(w, s) \/ GetBusy(w, s) \/ GetNew(w, s)
      PROVE  Service!Next
  BY <1>0, <1>1, HitRefines, WaitRefines, TurnAwayRefines DEF Service!Next
<1>2. ASSUME NEW w \in Request, Abandon(w) \/ Respond(w)
      PROVE  Service!Next
  BY <1>0, <1>2, LeaveRefines, GiveRefines DEF Service!Next
<1>3. ASSUME NEW s \in Session, Prewarm(s)
      PROVE  Unseen
  BY <1>3, SchedulerUnseen
<1>4. CASE PumpTick
  BY <1>4, SchedulerUnseen
<1>5. ASSUME NEW j \in Job, Finalize(j)
      PROVE  Unseen
  BY <1>5, SchedulerUnseen
<1>6. ASSUME NEW j \in Job, CompleteForeground(j) \/ CompleteSpeculative(j)
      PROVE  Service!Next
  <2>1. /\ j \in pending \cup active /\ ~Unobserved(job[j])
    BY <1>6 DEF CompleteForeground, CompleteSpeculative, Running, Discarded
  <2>2. job[j].session \in Session
    BY <1>0, <2>1, WaitersAre
  <2> QED
    BY <1>0, <1>6, <2>2, DeliverRefines, SpeculateRefines DEF Service!Next
<1>7. ASSUME NEW j \in Job, RejectSpeculative(j) \/ Fail(j) \/ Discard(j)
      PROVE  Service!Next \/ Unseen
  BY <1>0, <1>7, RefuseRefines, DiscardUnseen DEF Service!Next
<1>8. CASE Install \/ Clear
  BY <1>8, ChangeRefines DEF Service!Next
<1>9. CASE UNCHANGED vars
  BY <1>9 DEF vars, Unseen, Known, Cached
<1> QED
  BY <1>1, <1>2, <1>3, <1>4, <1>5, <1>6, <1>7, <1>8, <1>9 DEF Next

\* The initial state is the service's.
LEMMA InitRefines == Init => RInv /\ Service!Init
<1> SUFFICES ASSUME Init PROVE RInv /\ Service!Init
  OBVIOUS
<1>1. RInv
  BY InitIInv DEF Init, RInv, FutureEmpty
<1>2. Known = {}
  BY DEF Init, Known
<1> QED
  BY <1>1, <1>2 DEF Init, Idle, Service!Init, Service!Idle, Known

\* The scheduler implements the service: whatever the queue, preemption,
\* cancellation and teardown do underneath, requests see one computation per
\* session and revision, whose result reaches all who wait for it and are still
\* there, and a change of the revision answers everybody at once.
THEOREM SchedulerImplementsService == Spec => ImplementsService
<1>1. Init => RInv /\ Service!Init
  BY InitRefines
<1>2. RInv /\ [Next]_vars => RInv' /\ [Service!Next]_Service!vars
  BY RInvStep, StepRefines
<1> QED
  BY <1>1, <1>2, PTL DEF Spec, ImplementsService, Service!Spec

-----------------------------------------------------------------------------
(* The loops *)

\* A loop that waits, or is told, or has called, is at a candidate, and has not
\* yet made all its attempts.
Between == {"awaiting", "woken", "called", "refused"}

LoopsAtCandidates ==
    \A r \in Revision : loop[r].phase \in Between =>
        loop[r].at \in 1..Len(Candidates) /\ loop[r].attempted < CandidateCap

\* A loop that yields is at a candidate too.
YieldsAtCandidate ==
    \A r \in Revision :
        loop[r].phase = "yielding" => loop[r].at \in 1..Len(Candidates)

LoopInv == LoopTypeOK /\ LoopsAtCandidates /\ YieldsAtCandidate

\* A record of a loop that LoopInv allows.
Fine(L) ==
    /\ L \in LoopRecord
    /\ L.phase \in Between => L.at \in 1..Len(Candidates) /\ L.attempted < CandidateCap
    /\ L.phase = "yielding" => L.at \in 1..Len(Candidates)

LEMMA LoopInvIs == LoopInv <=> /\ loop = [r \in Revision |-> loop[r]]
                               /\ \A r \in Revision : Fine(loop[r])
BY DEF LoopInv, LoopTypeOK, LoopsAtCandidates, YieldsAtCandidate, Fine

LEMMA CandidateFacts ==
    /\ Len(Candidates) \in Nat /\ CandidateCap \in Nat /\ 0 < CandidateCap
    /\ \A k \in 1..Len(Candidates) : Candidates[k] \in Session
BY PrewarmAssumption DEF PrewarmAssumption

\* A set of numbers has the smallest one that Min chooses.
LEMMA MinIs ==
    ASSUME NEW S \in SUBSET Nat, S # {}
    PROVE  Min(S) \in S
<1>1. \E m \in S : \A n \in S : m <= n
  BY SmallestNumber
<1> QED
  BY <1>1 DEF Min

\* Where a loop that goes on from candidate i comes to.
LEMMA ContinuedFine ==
    ASSUME NEW r \in Revision, NEW i \in 1..(Len(Candidates) + 1),
           NEW attempted \in 0..CandidateCap
    PROVE  /\ Fine(Continued(r, i, attempted))
           /\ Continued(r, i, attempted).phase = "awaiting" => ~SchedulerIdle /\ r \notin retired
<1>1. CASE attempted >= CandidateCap \/ r \in retired \/ Spent(r) \/ Eligible(r, i) = {}
  <2>1. Continued(r, i, attempted) = [phase |-> "done", at |-> i, attempted |-> attempted]
    BY <1>1 DEF Continued
  <2> QED
    BY <2>1, CandidateFacts DEF Fine, LoopRecord, Between
<1>2. CASE ~(attempted >= CandidateCap \/ r \in retired \/ Spent(r) \/ Eligible(r, i) = {})
  <2> DEFINE k == Min(Eligible(r, i))
  <2>1. k \in i..Len(Candidates)
    <3>1. Eligible(r, i) \in SUBSET (i..Len(Candidates))
      BY DEF Eligible
    <3>2. Eligible(r, i) \in SUBSET Nat
      BY <3>1, CandidateFacts
    <3> QED
      BY <1>2, <3>1, <3>2, MinIs
  <2>2. Continued(r, i, attempted) =
          [phase |-> IF SchedulerIdle THEN "woken" ELSE "awaiting",
           at |-> k, attempted |-> attempted]
    BY <1>2 DEF Continued, WhenIdle
  <2>3. k \in 1..Len(Candidates) /\ k \in 0..(Len(Candidates) + 1) /\ attempted < CandidateCap
    <3> HIDE DEF k
    <3> QED
      BY <1>2, <2>1, CandidateFacts
  <2> HIDE DEF k
  <2> QED
    BY <1>2, <2>2, <2>3 DEF Fine, LoopRecord
<1> QED
  BY <1>1, <1>2

\* A change of a loop's phase, of one it has a candidate in to another.
LEMMA PhaseFine ==
    ASSUME NEW L, Fine(L), L.phase \in Between,
           NEW phase \in {"woken", "awaiting", "called", "refused", "done"}
    PROVE  Fine([L EXCEPT !.phase = phase])
BY DEF Fine, LoopRecord, Between

\* notifyIdle() wakes all that wait.
LEMMA NotifiedFine ==
    ASSUME LoopInv
    PROVE  /\ Notified(loop) = [r \in Revision |-> Notified(loop)[r]]
           /\ \A r \in Revision : /\ Fine(Notified(loop)[r])
                                  /\ Notified(loop)[r].phase # "awaiting"
                                  /\ loop[r].phase # "awaiting" => Notified(loop)[r] = loop[r]
<1>1. ASSUME NEW r \in Revision, loop[r].phase = "awaiting"
      PROVE  /\ Fine([loop[r] EXCEPT !.phase = "woken"])
             /\ [loop[r] EXCEPT !.phase = "woken"].phase # "awaiting"
  <2>1. Fine(loop[r]) /\ loop[r] \in LoopRecord
    BY LoopInvIs DEF Fine
  <2> QED
    BY <1>1, <2>1, PhaseFine DEF Between, LoopRecord
<1>2. \A r \in Revision : Fine(loop[r])
  BY LoopInvIs
<1>3. \A r \in Revision : Notified(loop)[r] =
          IF loop[r].phase = "awaiting" THEN [loop[r] EXCEPT !.phase = "woken"] ELSE loop[r]
  BY DEF Notified
<1> QED
  BY <1>1, <1>2, <1>3 DEF Notified

\* The same after a pump: none is left waiting unless the scheduler is busy.
LEMMA AfterPumpFine ==
    ASSUME LoopInv
    PROVE  /\ AfterPump(loop) = [r \in Revision |-> AfterPump(loop)[r]]
           /\ \A r \in Revision :
                 /\ Fine(AfterPump(loop)[r])
                 /\ AfterPump(loop)[r].phase = "awaiting" =>
                        loop[r].phase = "awaiting" /\ ~SchedulerIdle'
BY NotifiedFine, LoopInvIs DEF AfterPump, SchedulerIdle

\* A turn of a loop, and where it comes to.
LEMMA LoopTurnFine ==
    ASSUME LoopInv, NEW r \in Revision, LoopTurn(r)
    PROVE  \E L : /\ loop' = [loop EXCEPT ![r] = L] /\ Fine(L)
                  /\ L.phase = "awaiting" =>
                       ~SchedulerIdle /\ r \notin retired /\ UNCHANGED vars
<1>1. Fine(loop[r]) /\ loop[r] \in LoopRecord
  BY LoopInvIs DEF Fine
<1>2. ASSUME NEW i \in 1..(Len(Candidates) + 1), NEW attempted \in 0..CandidateCap,
             loop' = [loop EXCEPT ![r] = Continued(r, i, attempted)], UNCHANGED vars
      PROVE  \E L : /\ loop' = [loop EXCEPT ![r] = L] /\ Fine(L)
                    /\ L.phase = "awaiting" =>
                         ~SchedulerIdle /\ r \notin retired /\ UNCHANGED vars
  <2> DEFINE K == Continued(r, i, attempted)
  <2>1. Fine(K) /\ (K.phase = "awaiting" => ~SchedulerIdle /\ r \notin retired)
    BY ContinuedFine
  <2>2. loop' = [loop EXCEPT ![r] = K] /\ UNCHANGED vars
    BY <1>2
  <2> HIDE DEF K
  <2> QED
    BY <2>1, <2>2
<1>3. CASE Wake(r)
  <2>1. 1 \in 1..(Len(Candidates) + 1) /\ 0 \in 0..CandidateCap
    BY CandidateFacts
  <2> QED
    BY <1>2, <1>3, <2>1 DEF Wake, SetLoop
<1>4. CASE SkipWoken(r) \/ GoOn(r)
  <2>1. loop[r].at \in 1..Len(Candidates) /\ loop[r].attempted \in 0..CandidateCap
    BY <1>1, <1>4 DEF SkipWoken, GoOn, Fine, Between, LoopRecord
  <2>2. loop[r].at + 1 \in 1..(Len(Candidates) + 1)
    BY <2>1, CandidateFacts
  <2>3. loop' = [loop EXCEPT ![r] = Continued(r, loop[r].at + 1, loop[r].attempted)]
        /\ UNCHANGED vars
    BY <1>4 DEF SkipWoken, GoOn, SetLoop
  <2> QED
    BY <1>2, <2>1, <2>2, <2>3
<1>5. ASSUME NEW phase \in {"called", "refused"}, loop[r].phase = "woken",
             loop' = [loop EXCEPT ![r] = [loop[r] EXCEPT !.phase = phase]]
      PROVE  \E L : /\ loop' = [loop EXCEPT ![r] = L] /\ Fine(L)
                    /\ L.phase # "awaiting"
  <2>1. Fine([loop[r] EXCEPT !.phase = phase])
    BY <1>1, <1>5, PhaseFine DEF Between
  <2>2. [loop[r] EXCEPT !.phase = phase].phase = phase
    BY <1>1 DEF LoopRecord
  <2> QED
    BY <1>5, <2>1, <2>2
<1>6. CASE RefuseWoken(r) \/ CallWoken(r)
  BY <1>5, <1>6 DEF RefuseWoken, CallWoken, SetLoop
<1>7. CASE Retry(r)
  <2>1. CASE r \in retired
    <3>1. Fine([loop[r] EXCEPT !.phase = "done"])
      BY <1>1, <1>7, PhaseFine DEF Retry, Between
    <3>2. [loop[r] EXCEPT !.phase = "done"].phase = "done"
      BY <1>1 DEF LoopRecord
    <3> QED
      BY <1>7, <2>1, <3>1, <3>2 DEF Retry, SetLoop
  <2>2. CASE r \notin retired
    <3>1. Fine(WhenIdle(r, loop[r].at, loop[r].attempted))
      BY <1>1, <1>7 DEF Retry, WhenIdle, Fine, Between, LoopRecord
    <3>2. WhenIdle(r, loop[r].at, loop[r].attempted).phase = "awaiting" => ~SchedulerIdle
      BY DEF WhenIdle
    <3> QED
      BY <1>7, <2>2, <3>1, <3>2 DEF Retry, SetLoop
  <2> QED
    BY <2>1, <2>2
<1>8. CASE Resume(r)
  <2> DEFINE L == IF r \in retired \/ prewarm[r] = "retired"
                  THEN [loop[r] EXCEPT !.phase = "done"]
                  ELSE [loop[r] EXCEPT !.phase = "yielding", !.attempted = @ + 1]
  <2>1. /\ loop[r].phase = "called"
        /\ loop' = [loop EXCEPT ![r] = L]
    BY <1>8 DEF Resume, SetLoop
  <2>2. Fine(L) /\ L.phase # "awaiting"
    <3>1. CASE r \in retired \/ prewarm[r] = "retired"
      <4>1. Fine([loop[r] EXCEPT !.phase = "done"])
        BY <1>1, <2>1, PhaseFine DEF Between
      <4> QED
        BY <1>1, <3>1, <4>1 DEF LoopRecord
    <3>2. CASE ~(r \in retired \/ prewarm[r] = "retired")
      <4>1. L = [loop[r] EXCEPT !.phase = "yielding", !.attempted = loop[r].attempted + 1]
        BY <3>2
      <4>2. loop[r].attempted + 1 \in 0..CandidateCap /\ loop[r].at \in 1..Len(Candidates)
        BY <1>1, <2>1, CandidateFacts DEF Fine, Between, LoopRecord
      <4> HIDE DEF L
      <4> QED
        BY <1>1, <4>1, <4>2 DEF Fine, LoopRecord, Between
    <3> QED
      BY <3>1, <3>2
  <2> HIDE DEF L
  <2> QED
    BY <2>1, <2>2
<1> QED
  BY <1>3, <1>4, <1>6, <1>7, <1>8 DEF LoopTurn

-----------------------------------------------------------------------------
(* Steps *)

\* A turn of a loop does nothing to the scheduler, or calls prewarm().
LEMMA TurnIsNext ==
    ASSUME LoopInv, NEW r \in Revision, LoopTurn(r)
    PROVE  [Next]_vars
<1>1. CASE CallWoken(r)
  <2>1. loop[r].at \in 1..Len(Candidates)
    BY <1>1 DEF CallWoken, LoopInv, LoopsAtCandidates, Between
  <2>2. Candidates[loop[r].at] \in Session /\ Prewarm(Candidates[loop[r].at])
    BY <1>1, <2>1, CandidateFacts DEF CallWoken
  <2> QED
    BY <2>2 DEF Next
<1>2. CASE UNCHANGED vars
  BY <1>2
<1> QED
  BY <1>1, <1>2 DEF LoopTurn, Wake, SkipWoken, RefuseWoken, Retry, Resume, GoOn

\* So every step is one of the scheduler, or leaves it alone.
LEMMA StepIsNext ==
    ASSUME LoopInv, [PrewarmNext]_prewarmVars
    PROVE  [Next]_vars
<1>1. CASE UNCHANGED prewarmVars
  BY <1>1 DEF prewarmVars
<1>2. ASSUME NEW w \in Request, NEW s \in Session, Miss(w, s)
      PROVE  Next
  BY <1>2 DEF Miss, Next
<1>3. CASE Pumped \/ Ended
  BY <1>3 DEF Pumped, Ended, Next
<1>4. CASE InstallAndSchedule \/ ClearAll
  BY <1>4 DEF InstallAndSchedule, ClearAll, Next
<1>5. CASE Undisturbed
  BY <1>5 DEF Undisturbed, Next
<1> QED
  BY <1>1, <1>2, <1>3, <1>4, <1>5, TurnIsNext DEF PrewarmNext

\* The retired loop, and the loop a new revision starts.
LEMMA RetiredFine ==
    ASSUME LoopInv, NEW q
    PROVE  /\ Retired(q) = [r \in Revision |-> Retired(q)[r]]
           /\ \A r \in Revision :
                 /\ Fine(Retired(q)[r])
                 /\ Retired(q)[r].phase = "awaiting" =>
                       loop[r].phase = "awaiting" /\ ~SchedulerIdle' /\ r # q
<1> DEFINE M == AfterPump(loop)
           L == [M[q] EXCEPT !.phase = CASE @ = "scheduled" -> "done"
                                         [] @ = "awaiting" -> "woken"
                                         [] OTHER -> @]
<1>1. /\ M = [r \in Revision |-> M[r]]
      /\ \A r \in Revision : /\ Fine(M[r])
                             /\ M[r].phase = "awaiting" =>
                                  loop[r].phase = "awaiting" /\ ~SchedulerIdle'
  BY AfterPumpFine
<1>2. Retired(q) = [M EXCEPT ![q] = L]
  BY DEF Retired
<1> HIDE DEF M
<1>3. ASSUME q \in Revision
      PROVE  Fine(L) /\ L.phase # "awaiting"
  <2>1. Fine(M[q]) /\ M[q] \in LoopRecord
    BY <1>1, <1>3 DEF Fine
  <2>2. CASE M[q].phase = "scheduled"
    <3>1. L = [M[q] EXCEPT !.phase = "done"]
      BY <2>2
    <3> QED
      BY <2>1, <2>2, <3>1 DEF Fine, LoopRecord, Between
  <2>3. CASE M[q].phase = "awaiting"
    <3>1. L = [M[q] EXCEPT !.phase = "woken"]
      BY <2>3
    <3> QED
      BY <2>1, <2>3, <3>1 DEF Fine, LoopRecord, Between
  <2>4. CASE M[q].phase # "scheduled" /\ M[q].phase # "awaiting"
    <3>1. L = [M[q] EXCEPT !.phase = M[q].phase]
      BY <2>4
    <3>2. L = M[q]
      BY <2>1, <3>1 DEF LoopRecord
    <3> QED
      BY <2>1, <2>4, <3>2
  <2> QED
    BY <2>2, <2>3, <2>4
<1> HIDE DEF L
<1> QED
  BY <1>1, <1>2, <1>3

\* A pump leaves the scheduler busy when it was, or has something to start.
LEMMA PumpBusy ==
    ASSUME NEW P, NEW order, NEW A, NEW J, NEW T, NEW dead,
           Pump(P, order, A, J, T, dead),
           A # {} \/ \E j \in P : Runnable(J[j], dead)
    PROVE  ~SchedulerIdle'
BY DEF Pump, Shifted, Started, SchedulerIdle

\* After a miss the scheduler is busy, whatever was preempted.
LEMMA MissBusy ==
    ASSUME IInv, NEW w \in Request, NEW s \in Session, GetBusy(w, s) \/ GetNew(w, s)
    PROVE  ~SchedulerIdle'
<1>1. /\ lease \notin retired
      /\ \A j \in pending : j \in Job /\ Runnable(job[j], retired)
  <2>1. \A j \in pending : /\ j \in Job /\ job[j].status = "queued"
                           /\ ~Unobserved(job[j]) /\ job[j].rev \notin retired
    BY StateFacts DEF Sound, Typed, Allocated, Observing
  <2> QED
    BY <2>1, StateFacts DEF Runnable
<1>2. CASE GetBusy(w, s)
  <2>1. active # {} \/ \E j \in pending \ Preempted : Runnable(JobsAfterPreemption[j], retired)
    BY <1>1, <1>2 DEF GetBusy, MustQueue, JobsAfterPreemption
  <2> QED
    BY <1>2, <2>1, PumpBusy DEF GetBusy
<1>3. CASE GetNew(w, s)
  <2> DEFINE new == [rev |-> lease, session |-> s, status |-> "queued",
                     speculative |-> FALSE, prewarmer |-> FALSE,
                     aborted |-> FALSE, waiters |-> {w}]
  <2>1. PICK j \in Job : Pump((pending \ Preempted) \cup {j},
                              [OrderWithout(Preempted) EXCEPT ![j] = pending \ Preempted],
                              active,
                              [JobsAfterPreemption EXCEPT ![j] = new],
                              [TablesWithout(Preempted) EXCEPT ![lease][s] = j],
                              retired)
    BY <1>3 DEF GetNew
  <2>2. Runnable(new, retired)
    BY <1>1 DEF Runnable, Unobserved
  <2>3. [JobsAfterPreemption EXCEPT ![j] = new][j] = new
    BY DEF JobsAfterPreemption
  <2> HIDE DEF new
  <2> DEFINE P == (pending \ Preempted) \cup {j}
             J == [JobsAfterPreemption EXCEPT ![j] = new]
  <2>4. j \in P /\ Runnable(J[j], retired)
    BY <2>2, <2>3
  <2>5. \E order, T : Pump(P, order, active, J, T, retired)
    BY <2>1
  <2> HIDE DEF P, J
  <2> QED
    BY <2>4, <2>5, PumpBusy
<1> QED
  BY <1>2, <1>3

\* Every step keeps the invariant of the loops, and loses no wake-up.
LEMMA LoopStep ==
    ASSUME LoopInv, IInv, NoLostWakeup, [PrewarmNext]_prewarmVars
    PROVE  LoopInv' /\ NoLostWakeup'
<1>1. /\ loop = [r \in Revision |-> loop[r]]
      /\ \A r \in Revision : Fine(loop[r])
  BY LoopInvIs
<1>2. SUFFICES /\ loop' = [r \in Revision |-> loop'[r]]
               /\ \A r \in Revision :
                     /\ Fine(loop'[r])
                     /\ loop'[r].phase = "awaiting" => ~SchedulerIdle' /\ r \notin retired'
  BY DEF LoopInv, LoopTypeOK, LoopsAtCandidates, YieldsAtCandidate, Fine, NoLostWakeup
<1>3. CASE UNCHANGED prewarmVars \/ Undisturbed
  <2>1. UNCHANGED <<loop, pending, active, retired>>
    BY <1>3 DEF prewarmVars, vars, schedulerVars, Undisturbed, GetHit, GetJoin, Respond,
       CompleteForeground, CompleteSpeculative, RejectSpeculative, Fail, Discard, Observed
  <2> QED
    BY <1>1, <2>1 DEF NoLostWakeup, SchedulerIdle
<1>4. ASSUME NEW w \in Request, NEW s \in Session, Miss(w, s)
      PROVE  /\ loop' = [r \in Revision |-> loop'[r]]
             /\ \A r \in Revision :
                   /\ Fine(loop'[r])
                   /\ loop'[r].phase = "awaiting" => ~SchedulerIdle' /\ r \notin retired'
  <2>1. ~SchedulerIdle' /\ retired' = retired
    BY <1>4, MissBusy DEF Miss, GetBusy, GetNew
  <2>2. loop' = loop \/ loop' = Notified(loop)
    BY <1>4 DEF Miss
  <2> QED
    BY <1>1, <2>1, <2>2, NotifiedFine DEF NoLostWakeup
<1>5. CASE Pumped \/ Ended
  <2>1. loop' = AfterPump(loop) /\ retired' = retired
    BY <1>5 DEF Pumped, Ended, PumpTick, Abandon, Finalize
  <2> QED
    BY <2>1, AfterPumpFine DEF NoLostWakeup
<1>6. ASSUME lease # 0, RetireJobs(lease)
      PROVE  retired' = retired \cup {lease}
  BY <1>6 DEF RetireJobs
<1>7. CASE ClearAll
  <2>1. loop' = Retired(lease) /\ retired' = retired \cup {lease}
    BY <1>6, <1>7 DEF ClearAll, Clear
  <2> QED
    BY <2>1, RetiredFine DEF NoLostWakeup
<1>8. CASE InstallAndSchedule
  <2> DEFINE M == IF lease = 0 THEN loop ELSE Retired(lease)
             q == revision + 1
  <2>1. /\ M = [r \in Revision |-> M[r]]
        /\ \A r \in Revision : /\ Fine(M[r])
                               /\ M[r].phase = "awaiting" => ~SchedulerIdle' /\ r \notin retired'
    <3>1. CASE lease = 0
      <4>1. UNCHANGED <<pending, active, retired>>
        BY <1>8, <3>1 DEF InstallAndSchedule, Install, schedulerVars
      <4> QED
        BY <1>1, <3>1, <4>1 DEF NoLostWakeup, SchedulerIdle
    <3>2. CASE lease # 0
      <4>1. retired' = retired \cup {lease}
        BY <1>6, <1>8, <3>2 DEF InstallAndSchedule, Install
      <4> QED
        BY <3>2, <4>1, RetiredFine DEF NoLostWakeup
    <3> QED
      BY <3>1, <3>2
  <2>2. loop' = [M EXCEPT ![q] = [M[q] EXCEPT !.phase = "scheduled"]]
    BY <1>8 DEF InstallAndSchedule
  <2> HIDE DEF M, q
  <2>3. q \in Revision => /\ Fine([M[q] EXCEPT !.phase = "scheduled"])
                          /\ [M[q] EXCEPT !.phase = "scheduled"].phase = "scheduled"
    BY <2>1 DEF Fine, LoopRecord, Between
  <2> QED
    BY <2>1, <2>2, <2>3
<1>9. ASSUME NEW q \in Revision, LoopTurn(q)
      PROVE  /\ loop' = [r \in Revision |-> loop'[r]]
             /\ \A r \in Revision :
                   /\ Fine(loop'[r])
                   /\ loop'[r].phase = "awaiting" => ~SchedulerIdle' /\ r \notin retired'
  <2>1. PICK L : /\ loop' = [loop EXCEPT ![q] = L] /\ Fine(L)
                 /\ L.phase = "awaiting" =>
                      ~SchedulerIdle /\ q \notin retired /\ UNCHANGED vars
    BY <1>9, LoopTurnFine
  <2>2. UNCHANGED vars \/ CallWoken(q)
    BY <1>9 DEF LoopTurn, Wake, SkipWoken, RefuseWoken, Retry, Resume, GoOn
  <2>3. CASE UNCHANGED vars
    <3>1. SchedulerIdle' = SchedulerIdle /\ retired' = retired
      BY <2>3 DEF vars, schedulerVars, SchedulerIdle
    <3> QED
      BY <1>1, <2>1, <3>1 DEF NoLostWakeup
  <2>4. CASE CallWoken(q)
    <3>1. SchedulerIdle /\ ~SchedulerIdle' /\ retired' = retired
      BY <2>4 DEF CallWoken, Prewarm, SchedulerIdle
    <3>2. \A r \in Revision : loop[r].phase # "awaiting"
      BY <3>1 DEF NoLostWakeup
    <3> QED
      BY <1>1, <2>1, <3>1, <3>2
  <2> QED
    BY <2>2, <2>3, <2>4
<1> QED
  BY <1>3, <1>4, <1>5, <1>7, <1>8, <1>9 DEF PrewarmNext

\* The loops start with nothing to wait for.
LEMMA LoopInit ==
    ASSUME PrewarmInit
    PROVE  LoopInv /\ NoLostWakeup
<1>1. \A r \in Revision : loop[r] = [phase |-> "none", at |-> 0, attempted |-> 0]
  BY DEF PrewarmInit
<1>2. [phase |-> "none", at |-> 0, attempted |-> 0] \in LoopRecord
  BY CandidateFacts DEF LoopRecord
<1>3. loop \in [Revision -> LoopRecord]
  BY <1>1, <1>2 DEF PrewarmInit
<1>4. \A r \in Revision : loop[r].phase = "none"
  BY <1>1
<1> QED
  BY <1>3, <1>4 DEF LoopInv, LoopTypeOK, LoopsAtCandidates, YieldsAtCandidate, Between,
     NoLostWakeup

-----------------------------------------------------------------------------
(* What is budgeted *)

\* A speculative job whose result may still be kept.
Speculating(j) ==
    /\ j \in pending \cup active /\ j \notin finishing
    /\ job[j].speculative /\ ~job[j].aborted

\* The sessions of revision r in the caches c, and their size.
Holds(c, r) == {s \in Session : c[r][s] # "none"}
Size(c, r) == SumOver(Bytes, Holds(c, r))

\* Its result would keep to the budget if it came now.
Budgeted ==
    \A j \in Job : Speculating(j) =>
        Size(cache, job[j].rev) + Bytes[job[j].session] <= BudgetBytes

\* What the loop counts is the size of what is cached.
LEMMA EstimatedIs ==
    /\ \A r : Estimated(r) = Size(cache, r)
    /\ \A r : Estimated(r)' = Size(cache', r)
<1>1. \A r : Estimated(r) = Size(cache, r)
  BY DEF Estimated, Cached, Size, Holds, SumOver
<1>2. \A r : Estimated(r)' = Size(cache', r)
  BY DEF Estimated, Cached, Size, Holds, SumOver, MapThenSumSet, MapThenFoldSet
<1> QED
  BY <1>1, <1>2

LEMMA BudgetFacts ==
    /\ BudgetBytes \in Nat
    /\ Bytes \in [Session -> Nat]
    /\ \A S \in SUBSET Session : IsFiniteSet(S) /\ SumOver(Bytes, S) \in Nat
<1>1. /\ IsFiniteSet(Session) /\ Bytes \in [Session -> Nat \ {0}]
      /\ BudgetBytes \in Nat
  BY PrewarmAssumption DEF PrewarmAssumption
<1>2. Bytes \in [Session -> Nat]
  BY <1>1
<1>3. \A S \in SUBSET Session : IsFiniteSet(S)
  BY <1>1, FS_Subset
<1> QED
  BY <1>1, <1>2, <1>3, SumNat

\* A part of a set has no larger size, and one member s more has that of s more.
LEMMA SumBound ==
    ASSUME NEW S \in SUBSET Session, NEW T \in SUBSET Session
    PROVE  /\ T \subseteq S => SumOver(Bytes, T) <= SumOver(Bytes, S)
           /\ \A s \in Session : T \subseteq S \cup {s} =>
                SumOver(Bytes, T) <= SumOver(Bytes, S) + Bytes[s]
<1>1. ASSUME NEW U \in SUBSET Session, NEW V \in SUBSET U
      PROVE  SumOver(Bytes, V) <= SumOver(Bytes, U)
  <2>1. SumOver(Bytes, U) = SumOver(Bytes, V) + SumOver(Bytes, U \ V)
    BY BudgetFacts, SumSplits
  <2>2. PICK a \in Nat, b \in Nat : a = SumOver(Bytes, V) /\ b = SumOver(Bytes, U \ V)
    BY BudgetFacts
  <2> QED
    BY <2>1, <2>2
<1>2. ASSUME NEW s \in Session, T \subseteq S \cup {s}
      PROVE  SumOver(Bytes, T) <= SumOver(Bytes, S) + Bytes[s]
  <2>1. PICK a \in Nat, b \in Nat, c \in Nat, d \in Nat :
          /\ a = SumOver(Bytes, T) /\ b = SumOver(Bytes, S)
          /\ c = SumOver(Bytes, T \ {s}) /\ d = Bytes[s]
    BY BudgetFacts
  <2>2. c <= b
    BY <1>1, <1>2, <2>1
  <2>3. a = d + c \/ a = c
    <3>1. CASE s \in T
      BY <2>1, <3>1, BudgetFacts, SumAdds
    <3>2. CASE s \notin T
      <4>1. T \ {s} = T
        BY <3>2
      <4> QED
        BY <2>1, <4>1
    <3> QED
      BY <3>1, <3>2
  <2> QED
    BY <2>1, <2>2, <2>3
<1> QED
  BY <1>1, <1>2

\* In a step a job goes on speculating if it did, the same job for a cache that
\* holds nothing more.
GoesOn(k) ==
    /\ Speculating(k)
    /\ job'[k].rev = job[k].rev /\ job'[k].session = job[k].session
    /\ Holds(cache', job[k].rev) \subseteq Holds(cache, job[k].rev)

\* Those that go on keep to the budget.
LEMMA GoesOnBudgeted ==
    ASSUME IInv, Budgeted, NEW k \in Job, GoesOn(k)
    PROVE  Size(cache', job'[k].rev) + Bytes[job'[k].session] <= BudgetBytes
<1> DEFINE r == job[k].rev
           s == job[k].session
           S == Holds(cache, r)
           T == Holds(cache', r)
<1>1. r \in Revision /\ s \in Session
  BY StateFacts, InUse, JobFields DEF Speculating, GoesOn, Sound
<1>2. S \in SUBSET Session /\ T \in SUBSET Session
  BY DEF Holds
<1>3. /\ T \subseteq S /\ Size(cache, r) + Bytes[s] <= BudgetBytes
      /\ job'[k].rev = r /\ job'[k].session = s
  BY DEF GoesOn, Budgeted
<1>4. Size(cache', r) = SumOver(Bytes, T) /\ Size(cache, r) = SumOver(Bytes, S)
  BY DEF Size
<1> HIDE DEF r, s, S, T
<1>5. PICK a \in Nat, b \in Nat, d \in Nat :
        a = SumOver(Bytes, T) /\ b = SumOver(Bytes, S) /\ d = Bytes[s]
  BY <1>1, <1>2, BudgetFacts
<1>6. a <= b
  BY <1>2, <1>3, <1>5, SumBound
<1> QED
  BY <1>3, <1>4, <1>5, <1>6, BudgetFacts

\* What a pump does to the jobs it leaves: it may start one.
LEMMA PumpJobs ==
    ASSUME NEW P, NEW order, NEW A, NEW J, NEW T, NEW dead,
           Pump(P, order, A, J, T, dead), P \subseteq Job, A \subseteq Job
    PROVE  /\ pending' \cup active' \subseteq P \cup A
           /\ \A k \in pending' \cup active' : J[k] \in JobRecord =>
                 /\ job'[k].rev = J[k].rev /\ job'[k].session = J[k].session
                 /\ job'[k].speculative = J[k].speculative
                 /\ job'[k].aborted = J[k].aborted
<1> DEFINE off == Shifted(P, order, A, J, dead)
           on  == Started(P, order, A, J, dead)
<1>1. /\ on \subseteq off /\ off \subseteq P
      /\ A # {} => off = {}
      /\ pending' = P \ off /\ active' = A \cup on
      /\ job' = [j \in Job |->
                   IF j \in on THEN [J[j] EXCEPT !.status = "active"]
                   ELSE IF j \in off \ on THEN Unused ELSE J[j]]
  BY DEF Shifted, Started, Pump
<1> HIDE DEF off, on
<1>2. ASSUME NEW k \in pending' \cup active'
      PROVE  /\ k \in Job
             /\ job'[k] = J[k] \/ job'[k] = [J[k] EXCEPT !.status = "active"]
  BY <1>1, <1>2
<1>3. ASSUME NEW k \in pending' \cup active', J[k] \in JobRecord
      PROVE  /\ job'[k].rev = J[k].rev /\ job'[k].session = J[k].session
             /\ job'[k].speculative = J[k].speculative
             /\ job'[k].aborted = J[k].aborted
  BY <1>2, <1>3 DEF JobRecord
<1> QED
  BY <1>1, <1>3

\* Jobs of the queue and active jobs are records, of known sessions.
LEMMA JobsKnown ==
    ASSUME IInv, NEW k \in pending \cup active
    PROVE  /\ k \in Job /\ job[k] \in JobRecord /\ job[k] # Unused
           /\ job[k].rev \in Revision /\ job[k].session \in Session
           /\ job[k].speculative \in BOOLEAN /\ job[k].aborted \in BOOLEAN
           /\ pending \subseteq Job /\ active \subseteq Job /\ finishing \subseteq active
<1>1. k \in Job /\ job[k] \in JobRecord
  BY StateFacts, InUse DEF Sound
<1> QED
  BY <1>1, JobFields, StateFacts DEF Sound, Typed, Allocated, JobRecord

\* A step that neither pumps nor completes a job.
LEMMA QuietGoesOn ==
    ASSUME IInv, NEW k \in Job, Speculating(k)',
           UNCHANGED <<pending, active, finishing>>,
           job'[k] = job[k] \/ ~job'[k].speculative,
           \A r \in Revision : Holds(cache', r) \subseteq Holds(cache, r)
    PROVE  GoesOn(k)
BY JobsKnown DEF Speculating, GoesOn

\* A hit finds what is cached, and a job that is joined is for the reader.
LEMMA GetGoesOn ==
    ASSUME IInv, NEW k \in Job, Speculating(k)', NEW w \in Request, NEW s \in Session,
           GetHit(w, s) \/ GetJoin(w, s)
    PROVE  GoesOn(k)
<1>1. CASE GetHit(w, s)
  <2>1. UNCHANGED <<pending, active, finishing, job>> /\ lease \in Revision
    BY <1>1, StateFacts DEF GetHit, Opens, schedulerVars
  <2>2. ASSUME NEW r \in Revision
        PROVE  Holds(cache', r) \subseteq Holds(cache, r)
    BY <1>1, <2>1 DEF GetHit, Holds, IInv, Surface
  <2> QED
    BY <2>1, <2>2, QuietGoesOn
<1>2. CASE GetJoin(w, s)
  <2> DEFINE j == jobs[lease][s]
  <2>1. UNCHANGED <<pending, active, finishing, cache>>
    BY <1>2 DEF GetJoin, schedulerVars
  <2>2. job' = [job EXCEPT ![j].waiters = @ \cup {w}, ![j].speculative = FALSE,
                           ![j].prewarmer = FALSE]
    BY <1>2 DEF GetJoin
  <2> HIDE DEF j
  <2>3. ASSUME k = j
        PROVE  ~job'[k].speculative
    <3>1. job[k] \in JobRecord
      BY <2>1, JobsKnown DEF Speculating
    <3>2. job'[k].speculative = FALSE
      BY <2>2, <2>3, <3>1, StateFacts DEF JobRecord
    <3> QED
      BY <3>2
  <2>4. k # j => job'[k] = job[k]
    BY <2>2, StateFacts
  <2> QED
    BY <2>1, <2>3, <2>4, QuietGoesOn
<1> QED
  BY <1>1, <1>2

\* A miss leaves no job to speculate.
LEMMA MissPreempts ==
    ASSUME IInv, NEW k \in Job, NEW w \in Request, NEW s \in Session,
           GetBusy(w, s) \/ GetNew(w, s)
    PROVE  ~Speculating(k)'
<1> SUFFICES ASSUME k \in pending' \cup active', job'[k].speculative, ~job'[k].aborted
             PROVE  FALSE
  BY DEF Speculating
<1> DEFINE P == pending \ Preempted
<1>1. /\ P \subseteq Job /\ active \subseteq Job
      /\ \A j \in P \cup active :
            /\ JobsAfterPreemption[j] \in JobRecord
            /\ JobsAfterPreemption[j].speculative => JobsAfterPreemption[j].aborted
  <2>1. /\ pending \subseteq Job /\ active \subseteq Job /\ pending \cap active = {}
    BY StateFacts DEF Sound, Typed, Allocated
  <2>2. ASSUME NEW j \in P
        PROVE  JobsAfterPreemption[j] = job[j] /\ ~job[j].speculative
    BY <2>1 DEF JobsAfterPreemption, Preempted
  <2>3. ASSUME NEW j \in active
        PROVE  /\ JobsAfterPreemption[j] \in JobRecord
               /\ JobsAfterPreemption[j].speculative => JobsAfterPreemption[j].aborted
    <3>1. job[j] \in JobRecord
      BY JobsKnown
    <3>2. JobsAfterPreemption[j] = IF job[j].speculative
                                   THEN [job[j] EXCEPT !.prewarmer = FALSE, !.aborted = TRUE]
                                   ELSE job[j]
      BY <2>1 DEF JobsAfterPreemption, Preempted
    <3> QED
      BY <3>1, <3>2 DEF JobRecord
  <2> QED
    BY <2>1, <2>2, <2>3, JobsKnown
<1>2. CASE GetBusy(w, s)
  <2>1. Pump(P, OrderWithout(Preempted), active, JobsAfterPreemption,
             TablesWithout(Preempted), retired)
    BY <1>2 DEF GetBusy
  <2> HIDE DEF P
  <2> QED
    BY <1>1, <2>1, PumpJobs
<1>3. CASE GetNew(w, s)
  <2> DEFINE new == [rev |-> lease, session |-> s, status |-> "queued",
                     speculative |-> FALSE, prewarmer |-> FALSE,
                     aborted |-> FALSE, waiters |-> {w}]
             J(j) == [JobsAfterPreemption EXCEPT ![j] = new]
  <2>1. PICK j \in Job : Pump(P \cup {j},
                              [OrderWithout(Preempted) EXCEPT ![j] = P],
                              active, J(j),
                              [TablesWithout(Preempted) EXCEPT ![lease][s] = j],
                              retired)
    BY <1>3 DEF GetNew
  <2>2. new \in JobRecord /\ ~new.speculative
    BY <1>3, StateFacts DEF GetNew, Misses, Opens, JobRecord
  <2>3. /\ J(j)[j] = new
        /\ \A i \in Job : i # j => J(j)[i] = JobsAfterPreemption[i]
    BY DEF JobsAfterPreemption
  <2> HIDE DEF P, J, new
  <2>4. \A i \in P \cup {j} \cup active :
            J(j)[i] \in JobRecord /\ (J(j)[i].speculative => J(j)[i].aborted)
    BY <1>1, <2>2, <2>3
  <2>5. P \cup {j} \subseteq Job
    BY <1>1
  <2>6. /\ k \in P \cup {j} \cup active
        /\ J(j)[k] \in JobRecord =>
             job'[k].speculative = J(j)[k].speculative /\ job'[k].aborted = J(j)[k].aborted
    <3> DEFINE Q == P \cup {j}
               K == J(j)
    <3>1. PICK order, T : Pump(Q, order, active, K, T, retired)
      BY <2>1
    <3>2. Q \subseteq Job /\ active \subseteq Job
      BY <1>1, <2>5
    <3> HIDE DEF Q, K
    <3>3. /\ pending' \cup active' \subseteq Q \cup active
          /\ \A i \in pending' \cup active' : K[i] \in JobRecord =>
                /\ job'[i].rev = K[i].rev /\ job'[i].session = K[i].session
                /\ job'[i].speculative = K[i].speculative
                /\ job'[i].aborted = K[i].aborted
      <4>1. Pump(Q, order, active, K, T, retired)
        BY <3>1
      <4> QED
        BY <3>2, <4>1, PumpJobs, SMTT(30)
    <3> QED
      BY <3>3 DEF Q, K
  <2> QED
    BY <2>4, <2>6
<1> QED
  BY <1>2, <1>3

\* A pump of jobs that go on.
LEMMA PumpGoesOn ==
    ASSUME IInv, NEW k \in Job, Speculating(k)',
           NEW P \in SUBSET pending, NEW A \in SUBSET active, NEW order, NEW J, NEW T,
           NEW dead, Pump(P, order, A, J, T, dead),
           k \in P \cup A => J[k] = job[k],
           finishing' = finishing \/ finishing' = finishing \ (active \ A),
           UNCHANGED cache
    PROVE  GoesOn(k)
<1>1. P \subseteq Job /\ A \subseteq Job
  BY StateFacts DEF Sound, Typed
<1>2. /\ k \in P \cup A
      /\ J[k] \in JobRecord =>
           /\ job'[k].rev = J[k].rev /\ job'[k].session = J[k].session
           /\ job'[k].speculative = J[k].speculative /\ job'[k].aborted = J[k].aborted
  <2>1. k \in pending' \cup active'
    BY DEF Speculating
  <2> QED
    BY <1>1, <2>1, PumpJobs
<1>3. k \in pending \cup active /\ J[k] = job[k] /\ job[k] \in JobRecord
  BY <1>2, JobsKnown
<1>4. k \notin finishing
  BY <1>2, StateFacts DEF Speculating, Sound, Allocated
<1> QED
  BY <1>2, <1>3, <1>4 DEF Speculating, GoesOn

\* A pump, as a microtask or after a job, or because a request has gone away:
\* it cannot have waited for a speculative job.
LEMMA PumpedGoesOn ==
    ASSUME IInv, NEW k \in Job, Speculating(k)',
           PumpTick \/ (\E w \in Request : Abandon(w)) \/ (\E j \in Job : Finalize(j))
    PROVE  GoesOn(k)
<1>1. /\ pending \subseteq Job /\ active \subseteq Job /\ pending \cap active = {}
      /\ finishing \subseteq active
      /\ \A j \in Job : job[j] # Unused <=> j \in pending \cup active
      /\ \A j \in active : job[j].status = "active"
  BY StateFacts DEF Sound, Typed, Allocated
<1>2. CASE PumpTick
  BY <1>2, PumpGoesOn DEF PumpTick
<1>3. ASSUME NEW j \in Job, Finalize(j)
      PROVE  GoesOn(k)
  <2> DEFINE A == active \ {j}
             J == [job EXCEPT ![j] = Unused]
  <2>1. /\ Pump(pending, ahead, A, J, jobs, retired)
        /\ j \in finishing /\ finishing' = finishing \ {j} /\ cache' = cache
    BY <1>3 DEF Finalize
  <2>2. A \in SUBSET active /\ finishing' = finishing \ (active \ A)
    BY <1>1, <2>1
  <2>3. k \in pending \cup A => J[k] = job[k]
    BY <1>1, <2>1
  <2> HIDE DEF A, J
  <2> QED
    BY <2>1, <2>2, <2>3, PumpGoesOn
<1>4. ASSUME NEW w \in Request, Abandon(w)
      PROVE  GoesOn(k)
  <2> DEFINE J(j) == [job EXCEPT ![j].waiters = @ \ {w}]
             last(j) == Unobserved(J(j)[j])
  <2>1. PICK j \in Job :
          /\ Used(j) /\ w \in job[j].waiters
          /\ IF last(j) /\ job[j].status = "queued"
             THEN Pump(pending \ {j}, OrderWithout({j}), active,
                       [J(j) EXCEPT ![j] = Unused], TablesWithout({j}), retired)
             ELSE /\ job' = [J(j) EXCEPT ![j].aborted = @ \/ last(j)]
                  /\ UNCHANGED <<pending, ahead, active>>
    BY <1>4 DEF Abandon
  <2>2. UNCHANGED <<finishing, cache>>
    BY <1>4 DEF Abandon
  <2>3. j \in pending \cup active /\ job[j] \in JobRecord /\ ~job[j].speculative
    <3>1. j \in pending \cup active
      BY <1>1, <2>1 DEF Used
    <3> QED
      BY <2>1, <3>1, StateFacts, JobsKnown DEF Sound, Yielding
  <2>4. CASE last(j) /\ job[j].status = "queued"
    <3> DEFINE P == pending \ {j}
               K == [J(j) EXCEPT ![j] = Unused]
    <3>1. j \notin active /\ P \in SUBSET pending
      BY <1>1, <2>4
    <3>2. k \in P \cup active => K[k] = job[k]
      <4>1. k \in P \cup active => k # j
        BY <3>1
      <4>2. k # j => K[k] = job[k]
        BY StateFacts
      <4> QED
        BY <4>1, <4>2
    <3>3. \E order, T : Pump(P, order, active, K, T, retired)
      BY <2>1, <2>4
    <3> HIDE DEF P, K
    <3> QED
      BY <2>2, <3>1, <3>2, <3>3, PumpGoesOn
  <2>5. CASE ~(last(j) /\ job[j].status = "queued")
    <3>1. job' = [J(j) EXCEPT ![j].aborted = @ \/ last(j)]
          /\ UNCHANGED <<pending, active>>
      BY <2>1, <2>5
    <3>2. k # j => job'[k] = job[k]
      BY <3>1, StateFacts
    <3>3. job'[j].speculative = job[j].speculative
      <4> HIDE DEF last
      <4> QED
        BY <2>3, <3>1, StateFacts DEF JobRecord
    <3> QED
      BY <2>2, <2>3, <3>1, <3>2, <3>3, QuietGoesOn
  <2> QED
    BY <2>4, <2>5
<1> QED
  BY <1>2, <1>3, <1>4

\* A job that completes was the one that speculated, or none did.
LEMMA CompleteEnds ==
    ASSUME IInv, NEW k \in Job, NEW j \in Job, Running(j),
           NEW outcome, NEW result, Observed(j, outcome, result)
    PROVE  ~Speculating(k)'
<1>1. /\ job' = [job EXCEPT ![j].waiters = {}, ![j].prewarmer = FALSE]
      /\ finishing' = finishing \cup {j} /\ UNCHANGED <<pending, active>>
      /\ j \in active
  BY DEF Observed, Running
<1>2. k # j => job'[k] = job[k]
  BY <1>1, StateFacts
<1> QED
  BY <1>1, <1>2, StateFacts DEF Speculating, Sound, Yielding

\* A revision that is retired leaves only jobs that are aborted.
LEMMA RetireEnds ==
    ASSUME IInv, NEW k \in Job, lease # 0, RetireJobs(lease)
    PROVE  ~Speculating(k)'
<1> DEFINE mine == {j \in Job : Used(j) /\ job[j].rev = lease}
           queued == mine \cap pending
           on == mine \cap active
           left == [j \in Job |->
                      IF j \in queued THEN Unused
                      ELSE IF j \in on
                           THEN [job[j] EXCEPT !.waiters = {}, !.prewarmer = FALSE,
                                               !.aborted = TRUE]
                           ELSE job[j]]
           P == pending \ queued
<1>1. /\ Pump(P, OrderWithout(queued), active, left, TablesRetired(lease, queued),
              retired \cup {lease})
      /\ finishing' = finishing
  BY DEF RetireJobs
<1>2. /\ pending \subseteq Job /\ active \subseteq Job /\ pending \cap active = {}
      /\ \A j \in pending \cup active : Used(j) /\ job[j] \in JobRecord
      /\ \A j \in pending : job[j].rev = lease
      /\ \A j \in active : job[j].rev # lease => job[j].aborted
  BY StateFacts, JobsKnown, QueueIsLive DEF Sound, Typed, Allocated, Used
<1>3. P = {}
  BY <1>2
<1>4. \A j \in active : left[j] \in JobRecord /\ left[j].aborted
  <2>1. ASSUME NEW j \in active
        PROVE  left[j] \in JobRecord /\ left[j].aborted
    <3>1. job[j] \in JobRecord /\ j \in Job /\ j \notin queued
      BY <1>2
    <3>2. CASE j \in on
      <4>1. left[j] = [job[j] EXCEPT !.waiters = {}, !.prewarmer = FALSE, !.aborted = TRUE]
        BY <3>1, <3>2
      <4> HIDE DEF left
      <4> QED
        BY <3>1, <4>1 DEF JobRecord
    <3>3. CASE j \notin on
      <4>1. left[j] = job[j] /\ job[j].rev # lease
        BY <1>2, <3>1, <3>3
      <4> QED
        BY <1>2, <3>1, <4>1
    <3> QED
      BY <3>2, <3>3
  <2> QED
    BY <2>1
<1>5. \E order, T, dead : Pump(P, order, active, left, T, dead)
  BY <1>1
<1> HIDE DEF P, left
<1>6. /\ pending' \cup active' \subseteq P \cup active
      /\ \A i \in pending' \cup active' :
            left[i] \in JobRecord => job'[i].aborted = left[i].aborted
  BY <1>2, <1>3, <1>5, PumpJobs, SMTT(30)
<1> QED
  BY <1>3, <1>4, <1>6 DEF Speculating

\* Every step but a call of prewarm() makes no job speculate that did not.
LEMMA SchedulerGoesOn ==
    ASSUME IInv, NEW k \in Job, Speculating(k)', [PrewarmNext]_prewarmVars,
           \A q \in Revision : ~CallWoken(q)
    PROVE  GoesOn(k)
<1>1. CASE \/ UNCHANGED vars \/ \E w \in Request : Respond(w)
           \/ Install /\ lease = 0
  <2>1. UNCHANGED <<pending, active, finishing, job, cache>>
    BY <1>1 DEF vars, schedulerVars, Respond, Install
  <2> QED
    BY <2>1, QuietGoesOn
<1>2. ASSUME NEW j \in Job,
             \/ CompleteForeground(j) \/ CompleteSpeculative(j) \/ RejectSpeculative(j)
             \/ Fail(j) \/ Discard(j)
      PROVE  FALSE
  <2>1. Running(j) /\ \E outcome, result : Observed(j, outcome, result)
    BY <1>2 DEF CompleteForeground, CompleteSpeculative, RejectSpeculative, Fail, Discard
  <2> QED
    BY <2>1, CompleteEnds
<1>3. CASE \/ ClearAll
           \/ InstallAndSchedule /\ lease # 0
  <2>1. lease # 0 /\ RetireJobs(lease)
    BY <1>3 DEF ClearAll, Clear, InstallAndSchedule, Install
  <2> QED
    BY <2>1, RetireEnds
<1>4. ASSUME NEW w \in Request, NEW s \in Session, Miss(w, s)
      PROVE  FALSE
  BY <1>4, MissPreempts DEF Miss
<1>5. CASE Pumped \/ Ended
  BY <1>5, PumpedGoesOn DEF Pumped, Ended
<1>6. CASE Undisturbed
  BY <1>1, <1>2, <1>6, GetGoesOn DEF Undisturbed
<1>7. ASSUME NEW q \in Revision, LoopTurn(q)
      PROVE  UNCHANGED vars
  BY <1>7 DEF LoopTurn, Wake, SkipWoken, RefuseWoken, Retry, Resume, GoOn
<1> QED
  BY <1>1, <1>3, <1>4, <1>5, <1>6, <1>7
  DEF PrewarmNext, prewarmVars, InstallAndSchedule

\* prewarm() is called when nothing else is there, and its session affordable.
LEMMA CallBudgeted ==
    ASSUME IInv, NEW q \in Revision, CallWoken(q), NEW k \in Job, Speculating(k)'
    PROVE  Size(cache', job'[k].rev) + Bytes[job'[k].session] <= BudgetBytes
<1> DEFINE s == Candidates[loop[q].at]
           new(j) == [rev |-> lease, session |-> s, status |-> "queued",
                      speculative |-> TRUE, prewarmer |-> TRUE,
                      aborted |-> FALSE, waiters |-> {}]
<1>1. PICK j \in Job : /\ job' = [job EXCEPT ![j] = new(j)]
                       /\ pending' = pending \cup {j}
  BY DEF CallWoken, Prewarm
<1>2. /\ q = lease /\ Affordable(q, s) /\ pending = {} /\ active = {}
      /\ UNCHANGED <<active, cache>>
  BY DEF CallWoken, Prewarm, SchedulerIdle
<1>3. k = j
  BY <1>1, <1>2 DEF Speculating
<1>4. job'[k].rev = q /\ job'[k].session = s
  BY <1>1, <1>2, <1>3, StateFacts
<1>5. Size(cache', q) + Bytes[s] <= BudgetBytes
  BY <1>2, EstimatedIs DEF Affordable
<1> QED
  BY <1>4, <1>5

\* The budget is kept to by whatever still speculates.
LEMMA BudgetStep ==
    ASSUME IInv, Budgeted, [PrewarmNext]_prewarmVars
    PROVE  Budgeted'
<1>1. ASSUME NEW k \in Job, Speculating(k)'
      PROVE  Size(cache', job'[k].rev) + Bytes[job'[k].session] <= BudgetBytes
  <2>1. CASE \E q \in Revision : CallWoken(q)
    BY <1>1, <2>1, CallBudgeted
  <2>2. CASE \A q \in Revision : ~CallWoken(q)
    BY <1>1, <2>2, SchedulerGoesOn, GoesOnBudgeted
  <2> QED
    BY <2>1, <2>2
<1>2. \A k \in Job : Size(cache, job[k].rev)' = Size(cache', job'[k].rev)
  BY DEF Size, Holds
<1> QED
  BY <1>1, <1>2 DEF Budgeted

\* A speculative entry comes by the completion of a speculative job only.
LEMMA OnlySpeculation ==
    ASSUME IInv, [Next]_vars, NEW r \in Revision, NEW s \in Session,
           cache[r][s] = "none", cache'[r][s] = "speculative"
    PROVE  \E j \in Job : CompleteSpeculative(j) /\ job[j].rev = r /\ job[j].session = s
<1>1. /\ cache \in [Revision -> [Session -> Origin]]
      /\ lease # 0 => lease \in Revision
  BY StateFacts DEF IInv, Surface
<1>2. cache' # cache
  OBVIOUS
<1>3. ASSUME NEW w \in Request, NEW x \in Session, GetHit(w, x)
      PROVE  FALSE
  <2>1. lease \in Revision /\ cache[lease][x] # "none"
        /\ cache' = [cache EXCEPT ![lease][x] = "foreground"]
    BY <1>1, <1>3 DEF GetHit, Opens
  <2>2. CASE r = lease /\ s = x
    BY <2>1, <2>2
  <2>3. CASE ~(r = lease /\ s = x)
    <3>1. cache'[r][s] = cache[r][s]
      BY <1>1, <2>1, <2>3
    <3> QED
      BY <3>1
  <2> QED
    BY <2>2, <2>3
<1>4. ASSUME NEW j \in Job, NEW origin, NEW victims,
             CompleteForeground(j) \/ CompleteSpeculative(j),
             cache' = CacheWith(job[j].rev, job[j].session, origin, victims)
      PROVE  origin = "speculative" /\ job[j].rev = r /\ job[j].session = s
  <2>1. job[j].rev \in Revision /\ job[j].session \in Session
    BY <1>4, JobsKnown DEF CompleteForeground, CompleteSpeculative, Running
  <2>2. \A q \in Revision, x \in Session :
          cache'[q][x] = IF q = job[j].rev
                         THEN IF x = job[j].session THEN origin
                              ELSE IF x \in victims THEN "none" ELSE cache[q][x]
                         ELSE cache[q][x]
    BY <1>1, <1>4, <2>1 DEF CacheWith
  <2> QED
    BY <2>2
<1>5. ASSUME NEW j \in Job, CompleteForeground(j)
      PROVE  FALSE
  <2>1. PICK victims : cache' = CacheWith(job[j].rev, job[j].session, "foreground", victims)
    BY <1>5 DEF CompleteForeground
  <2>2. "foreground" = "speculative"
    BY <1>4, <1>5, <2>1
  <2> QED
    BY <2>2
<1>6. ASSUME lease # 0, RetireJobs(lease)
      PROVE  FALSE
  <2>1. cache' = [cache EXCEPT ![lease] = [x \in Session |-> "none"]]
    BY <1>6 DEF RetireJobs
  <2> QED
    BY <1>1, <1>6, <2>1
<1>7. ~(Install \/ Clear)
  BY <1>2, <1>6 DEF Install, Clear
<1>8. PICK j \in Job : CompleteSpeculative(j)
  BY <1>2, <1>3, <1>5, <1>7 DEF Next, vars, GetJoin, GetBusy, GetNew, Abandon, Respond,
     Prewarm, PumpTick, RejectSpeculative, Fail, Discard, Finalize
<1>9. PICK victims : cache' = CacheWith(job[j].rev, job[j].session, "speculative", victims)
  BY <1>8 DEF CompleteSpeculative
<1>10. job[j].rev = r /\ job[j].session = s
  BY <1>4, <1>8, <1>9
<1> QED
  BY <1>8, <1>10

\* Such an entry leaves what is cached within the budget.
LEMMA SpeculationBudgeted ==
    ASSUME IInv, Budgeted, [Next]_vars, NEW r \in Revision, NEW s \in Session,
           cache[r][s] = "none", cache'[r][s] = "speculative"
    PROVE  Estimated(r)' <= BudgetBytes
<1>1. PICK j \in Job : CompleteSpeculative(j) /\ job[j].rev = r /\ job[j].session = s
  BY OnlySpeculation
<1>2. Size(cache, r) + Bytes[s] <= BudgetBytes
  BY <1>1 DEF Budgeted, Speculating, CompleteSpeculative, Running, Discarded
<1> DEFINE S == Holds(cache, r)
           T == Holds(cache', r)
<1>3. T \subseteq S \cup {s}
  <2>1. PICK victims : cache' = CacheWith(r, s, "speculative", victims)
    BY <1>1 DEF CompleteSpeculative
  <2> QED
    BY <2>1 DEF CacheWith, Holds, IInv, Surface
<1>4. S \in SUBSET Session /\ T \in SUBSET Session
  BY DEF Holds
<1>5. Estimated(r)' = SumOver(Bytes, T) /\ Size(cache, r) = SumOver(Bytes, S)
  BY EstimatedIs DEF Size
<1> HIDE DEF S, T
<1>6. PICK a \in Nat, b \in Nat, d \in Nat :
        a = SumOver(Bytes, T) /\ b = SumOver(Bytes, S) /\ d = Bytes[s]
  BY <1>4, BudgetFacts
<1>7. a <= b + d
  BY <1>3, <1>4, <1>6, SumBound
<1> QED
  BY <1>2, <1>5, <1>6, <1>7, BudgetFacts

-----------------------------------------------------------------------------
(* Theorems *)

\* The inductive invariant of the scheduler with its loops.
PInv == IInv /\ LoopInv /\ NoLostWakeup /\ Budgeted

\* It holds of every reachable state.
THEOREM PrewarmInductive == PrewarmSpec => []PInv
<1>1. PrewarmInit => PInv
  <2>1. PrewarmInit => IInv
    BY InitIInv DEF PrewarmInit
  <2>2. PrewarmInit => Budgeted
    BY DEF PrewarmInit, Init, Budgeted, Speculating
  <2> QED
    BY <2>1, <2>2, LoopInit DEF PInv
<1>2. PInv /\ [PrewarmNext]_prewarmVars => PInv'
  <2> SUFFICES ASSUME PInv, [PrewarmNext]_prewarmVars PROVE PInv'
    OBVIOUS
  <2>1. IInv'
    BY StepIsNext, NextIInv DEF PInv
  <2> QED
    BY <2>1, LoopStep, BudgetStep DEF PInv
<1> QED
  BY <1>1, <1>2, PTL DEF PrewarmSpec

\* The prewarm loops do to the scheduler only what it lets everybody do: what is
\* proved of the scheduler holds of it with the loops of session-prewarm.js.
THEOREM PrewarmIsMaterialization == PrewarmSpec => Spec
<1>1. PrewarmInit => Init
  BY DEF PrewarmInit
<1>2. PInv /\ [PrewarmNext]_prewarmVars => [Next]_vars
  BY StepIsNext DEF PInv
<1> QED
  BY <1>1, <1>2, PrewarmInductive, PTL DEF PrewarmSpec, Spec

\* A loop is always at a candidate of its index, within the cap on its attempts.
THEOREM LoopTypes == PrewarmSpec => []LoopTypeOK
<1>1. PInv => LoopTypeOK
  BY DEF PInv, LoopInv
<1> QED
  BY <1>1, PrewarmInductive, PTL

\* No loop waits in idleWaiters for a scheduler that is idle, or for a revision
\* that is retired.
THEOREM WakeupsKept == PrewarmSpec => []NoLostWakeup
<1>1. PInv => NoLostWakeup
  BY DEF PInv
<1> QED
  BY <1>1, PrewarmInductive, PTL

\* A speculative result is cached within budgetBytes, although the loop compared
\* with the budget when it called prewarm().
THEOREM BudgetKept == PrewarmSpec => SpeculationWithinBudget
<1>1. PInv /\ [PrewarmNext]_prewarmVars
        => [\A r \in Revision, s \in Session :
              cache[r][s] = "none" /\ cache'[r][s] = "speculative"
                => Estimated(r)' <= BudgetBytes]_prewarmVars
  BY StepIsNext, SpeculationBudgeted DEF PInv
<1> QED
  BY <1>1, PrewarmInductive, PTL DEF PrewarmSpec, SpeculationWithinBudget

=============================================================================
