------------------------ MODULE ProjectChooser_proofs ------------------------
(***************************************************************************)
(* What the project chooser keeps true of a tab and the server, for any    *)
(* repositories, sources, lists, retries and number of events: whatever    *)
(* locks the tab's controls is under way, the tab's source is the          *)
(* server's, and a project opens only on an answer about the job that the  *)
(* user waits for.                                                         *)
(***************************************************************************)
EXTENDS ProjectChooser, FiniteSetTheorems, TLAPS

-----------------------------------------------------------------------------
(* Types *)

Sources == Source \cup {NoRoot}

\* What the server tells of its state
Told == [code: {200, 202, 409}, source: Source, job: JobRecord, current: Roots]

\* ... of a job that is asked for, and whose project may have been replaced
StatusTold ==
  {r \in Told : r.job.status = "succeeded" => r.current \in {NoRoot, r.job.root}}

\* ... of a job that it starts, of one that is not the latest, and in a conflict
Accepted == [code: {202}, job: JobRecord]
Bare == [code: {0, 404, 409}]

Ops == {"init", "start", "poll", "where", "cancel", "stray", "summary", "discover", "return",
        "mutate", "reconcile", "refresh", "refreshPoll", "refreshWhere", "refreshSessions",
        "resumeSessions"}

Thens == {"none", "tab", "cancel", "switch", "home"}

Replies == Told \cup Accepted \cup Bare

CallRecord == [op: Ops, live: BOOLEAN, job: Nat, root: Roots, source: Sources,
               then: Thens, reply: Replies]

Observation == [job: Nat, asked: BOOLEAN, source: Sources, failures: Nat,
                pending: BOOLEAN, paused: BOOLEAN]

Observations == Observation \cup {NoObservation}

Mode == {"start", "select", "analyze"}

RefreshState == [on: BOOLEAN, job: Nat, retries: Nat, timer: BOOLEAN]

TabState ==
  [mode: Mode, root: Roots, source: Sources, loading: Roots,
   job: Nat, returning: BOOLEAN, switching: BOOLEAN, cancelling: BOOLEAN,
   projects: SUBSET Root, drawn: SUBSET Root, failed: Roots,
   obs: Observations, timer: BOOLEAN,
   refresh: RefreshState,
   calls: SUBSET CallRecord]

StartOps == {"start", "refresh"}
StatusOps == {"poll", "refreshPoll", "cancel", "stray"}
ListOps == {"summary", "discover"}
MutateOps == {"mutate", "reconcile"}
RefreshOps == {"refresh", "refreshPoll", "refreshWhere", "refreshSessions", "resumeSessions"}

\* The calls whose answers say what the source is
Looks == Observers \cup ListOps \cup {"init", "return", "refreshPoll", "refreshWhere",
                                      "refreshSessions", "resumeSessions"}

\* What a call may be answered
ReplyTyped(c) ==
  Answered(c) =>
    /\ c.op \in StartOps => c.reply \in Accepted /\ c.reply.job.id # 0
    /\ c.op \in StatusOps => c.reply \in StatusTold \cup [code: {404}]
    /\ c.op \in ListOps => c.reply \in Told \cup {Conflict}
    /\ c.op \notin StartOps \cup StatusOps \cup ListOps => c.reply \in Told

-----------------------------------------------------------------------------
(* The inductive invariant, of the tab s, the server v and what is excused, x *)

Live(calls, ops) == {c \in calls : c.live /\ c.op \in ops}

One(S) == \E c \in S : S = {c}

\* Only what is observed or asked for can be given up.
CallsTyped(s) ==
  \A c \in s.calls : /\ ReplyTyped(c)
                     /\ c.live \/ c.op \in Observers \cup Requests

\* The page is loading: it has only made its first call.
Starting(s) ==
  IF s.mode = "start"
  THEN /\ One(s.calls) /\ s.calls = Live(s.calls, {"init"})
       /\ s.job = 0 /\ s.loading = NoRoot /\ s.obs = NoObservation /\ ~s.timer
       /\ ~s.returning /\ ~s.switching /\ s.refresh = NoRefresh
  ELSE Live(s.calls, {"init"}) = {}

\* One thing at a time
Exclusive(s) ==
  /\ s.refresh.on => s.loading = NoRoot /\ s.job = 0 /\ ~s.returning /\ ~s.switching
  /\ s.returning => s.loading = NoRoot /\ s.job = 0 /\ ~s.switching
  /\ s.switching => s.loading = NoRoot /\ s.job = 0

\* A project is being opened: it is asked for ...
Asking(s) ==
  IF s.loading # NoRoot /\ s.job = 0
  THEN One(Live(s.calls, {"start"})) ELSE Live(s.calls, {"start"}) = {}

\* ... and then its job is observed.
Observing(s) ==
  IF s.job = 0
  THEN s.obs = NoObservation /\ ~s.timer /\ Live(s.calls, Observers) = {}
  ELSE /\ ObservationCurrent(s)
       /\ IF s.obs.pending
          THEN One(Live(s.calls, Observers)) /\ ~s.timer /\ ~s.obs.paused
          ELSE Live(s.calls, Observers) = {} /\ (s.timer <=> ~s.obs.paused)

Returning(s) ==
  IF s.returning THEN One(Live(s.calls, {"return"})) ELSE Live(s.calls, {"return"}) = {}

\* No list that was asked for before a switch is waited for.
Switching(s) ==
  /\ IF s.switching THEN One(Live(s.calls, MutateOps)) ELSE Live(s.calls, MutateOps) = {}
  /\ \A c \in Live(s.calls, MutateOps) :
       /\ c.source \in Source
       /\ c.then # "home" => Live(s.calls, ListOps) = {}

\* A refresh that is lost stays on.
Refreshing(s, x) ==
  /\ "refresh" \in x => s.refresh.on
  /\ IF s.refresh.on /\ "refresh" \notin x
     THEN IF s.refresh.timer THEN Live(s.calls, RefreshOps) = {}
          ELSE One(Live(s.calls, RefreshOps))
     ELSE Live(s.calls, RefreshOps) = {} /\ ~s.refresh.timer

\* The server has made the change that the tab waits to hear of.
Moved(s, v) ==
  \E m \in Live(s.calls, MutateOps) : m.source = v.source /\ (m.op = "mutate" => Answered(m))

\* The tab, and what it is about to hear, agree with the server on the source.
Agreeing(s, v, x) ==
  "source" \in x \/
  /\ \A m \in Live(s.calls, MutateOps) : Answered(m) => m.reply.source = v.source
  /\ Moved(s, v) \/
     /\ s.mode # "start" => s.source = v.source
     /\ \A c \in Live(s.calls, Looks) : c.reply \in Told => c.reply.source = v.source

\* The job with this number, if the server still has it, is for this root.
JobFor(v, id, root) == id <= v.job.id /\ (id = v.job.id => v.job.root = root)

\* The job that the tab observes, or is to observe, is for the project it opens.
Wanted(s, v) ==
  /\ s.job # 0 => JobFor(v, s.job, s.loading)
  /\ \A c \in Live(s.calls, {"start"}) :
       /\ c.root = s.loading
       /\ Answered(c) => JobFor(v, c.reply.job.id, c.root)
  /\ \A c \in Live(s.calls, {"init"}) :
       Answered(c) /\ c.reply.code = 202 =>
         c.reply.job.id # 0 /\ JobFor(v, c.reply.job.id, c.reply.job.root)
  /\ \A c \in Live(s.calls, Observers) :
       /\ c.job = s.job
       /\ c.op = "where" => c.root = s.loading
       /\ c.op # "where" /\ c.reply \in Told => c.reply.job.root = s.loading

ServerInv(v) == v \in ServerState /\ Numbered(v.job)

Controls(s, x) ==
  /\ s \in TabState /\ CallsTyped(s) /\ Starting(s) /\ Exclusive(s)
  /\ Asking(s) /\ Observing(s) /\ Returning(s) /\ Switching(s) /\ Refreshing(s, x)

ChooserInv ==
  /\ ServerInv(server)
  /\ Controls(tab, excused)
  /\ Agreeing(tab, server, excused)
  /\ Wanted(tab, server)

-----------------------------------------------------------------------------
(* Calls *)

AllLive(N) == \A d \in N : d.live

\* Calls that are given up are calls still.
LEMMA RetiredTyped ==
    ASSUME NEW calls \in SUBSET CallRecord, NEW R
    PROVE  Retired(calls, R) \in SUBSET CallRecord
<1>1. \A d \in calls : [d EXCEPT !.live = d.live /\ d.op \notin R] \in CallRecord
  BY DEF CallRecord
<1> QED
  BY <1>1 DEF Retired

-----------------------------------------------------------------------------
(* The parts of the tab's functions, by what they do *)

Fresh == {d \in CallRecord : d.live /\ ~Answered(d)}

\* u is a tab that has given up the calls of R of s and made those of N.
Makes(s, u, R, N) ==
  /\ u \in TabState
  /\ R \subseteq Observers \cup Requests /\ N \subseteq Fresh
  /\ u.calls = Retired(s.calls, R) \cup N

\* No project is being opened.
Closed(s) == s.loading = NoRoot /\ s.job = 0 /\ s.obs = NoObservation /\ ~s.timer

\* What the opening of a project leaves alone
Beside(s, u) == u.switching = s.switching /\ u.refresh = s.refresh

\* The fields the invariant speaks of, but for the observation's and the calls
Same(s, u) ==
  /\ u.mode = s.mode /\ u.source = s.source /\ u.loading = s.loading /\ u.job = s.job
  /\ u.returning = s.returning /\ Beside(s, u)

\* The job is observed by a call, or by nothing but a timer or a pause.
Awaited(s) == ObservationCurrent(s) /\ s.obs.pending /\ ~s.obs.paused /\ ~s.timer
Rested(s) == ObservationCurrent(s) /\ ~s.obs.pending /\ (s.timer <=> ~s.obs.paused)

\* The calls that the tab makes
WithJob(op, job, then) == [Call(op) EXCEPT !.job = job, !.then = then]
WithRoot(op, root) == [Call(op) EXCEPT !.root = root]
WithSource(op, source, then) == [Call(op) EXCEPT !.source = source, !.then = then]

Listing(saved) == WithRoot("summary", saved)

\* u no longer opens a project; it may ask for the list of projects.
Closes(s, u) ==
  /\ Closed(u) /\ ~u.returning /\ Beside(s, u)
  /\ \E R, N : /\ Makes(s, u, R, N) /\ Observers \subseteq R
               /\ N = {} \/ (Requests \subseteq R /\ \E saved \in Roots : N = {Listing(saved)})

LEMMA RetiredTwice ==
    ASSUME NEW calls \in SUBSET CallRecord, NEW R, NEW R2
    PROVE  /\ Retired(calls, {}) = calls
           /\ Retired(Retired(calls, R), R2) = Retired(calls, R \cup R2)
<1> DEFINE r(d) == [d EXCEPT !.live = d.live /\ d.op \notin R]
<1>1. ASSUME NEW d \in calls
      PROVE  /\ [d EXCEPT !.live = d.live /\ d.op \notin {}] = d
             /\ [r(d) EXCEPT !.live = r(d).live /\ r(d).op \notin R2]
                  = [d EXCEPT !.live = d.live /\ d.op \notin R \cup R2]
  <2>1. d \in CallRecord
    OBVIOUS
  <2>2. [d EXCEPT !.live = d.live /\ d.op \notin {}] = d
    <3>1. (d.live /\ d.op \notin {}) = d.live
      BY <2>1 DEF CallRecord
    <3> QED
      BY <2>1, <3>1 DEF CallRecord
  <2>3. r(d).live = (d.live /\ d.op \notin R) /\ r(d).op = d.op
    BY <2>1 DEF CallRecord
  <2>4. (r(d).live /\ r(d).op \notin R2) = (d.live /\ d.op \notin R \cup R2)
    BY <2>3
  <2>5. PICK b : b = (d.live /\ d.op \notin R \cup R2)
    OBVIOUS
  <2>6. [r(d) EXCEPT !.live = b] = [d EXCEPT !.live = b]
    BY <2>1 DEF CallRecord
  <2> QED
    BY <2>2, <2>4, <2>5, <2>6
<1>2. Retired(calls, R) = {r(d) : d \in calls}
  BY DEF Retired
<1> HIDE DEF r
<1> DEFINE z(d) == [d EXCEPT !.live = d.live /\ d.op \notin {}]
           t(e) == [e EXCEPT !.live = e.live /\ e.op \notin R2]
           k(d) == [d EXCEPT !.live = d.live /\ d.op \notin R \cup R2]
<1>3. \A d \in calls : z(d) = d /\ t(r(d)) = k(d)
  BY <1>1
<1>4. /\ Retired(calls, {}) = {z(d) : d \in calls}
      /\ Retired(calls, R \cup R2) = {k(d) : d \in calls}
      /\ \A X : Retired(X, R2) = {t(e) : e \in X}
  <2>1. Retired(calls, {}) = {z(d) : d \in calls}
    BY Zenon DEF Retired
  <2>2. Retired(calls, R \cup R2) = {k(d) : d \in calls}
    BY Zenon DEF Retired
  <2>3. \A X : Retired(X, R2) = {t(e) : e \in X}
    BY Zenon DEF Retired
  <2> QED
    BY <2>1, <2>2, <2>3
<1> HIDE DEF z, t, k
<1>5. Retired(Retired(calls, R), R2) = {t(r(d)) : d \in calls}
  BY <1>2, <1>4
<1>6. {t(r(d)) : d \in calls} = {k(d) : d \in calls}
  BY <1>3
<1>7. {z(d) : d \in calls} = calls
  BY <1>3
<1> QED
  BY <1>4, <1>5, <1>6, <1>7

LEMMA Chain ==
    ASSUME NEW s \in TabState, NEW t, NEW u, NEW R, NEW R2, NEW N,
           Makes(s, t, R, {}), Makes(t, u, R2, N)
    PROVE  Makes(s, u, R \cup R2, N)
<1>1. s.calls \in SUBSET CallRecord
  BY DEF TabState
<1>2. u.calls = Retired(Retired(s.calls, R), R2) \cup N
  BY DEF Makes
<1> QED
  BY <1>1, <1>2, RetiredTwice DEF Makes

\* An assignment of other fields than the calls
LEMMA Assigns ==
    ASSUME NEW s \in TabState, NEW u \in TabState, u.calls = s.calls
    PROVE  Makes(s, u, {}, {})
BY RetiredTwice DEF Makes, TabState

LEMMA UnobservedIs ==
    ASSUME NEW s \in TabState, NEW u, u = Unobserved(s)
    PROVE  /\ Makes(s, u, Observers, {})
           /\ Same(s, u) /\ u.obs = NoObservation /\ ~u.timer
<1>1. PICK X \in SUBSET CallRecord : X = Retired(s.calls, Observers)
  BY RetiredTyped DEF TabState
<1>2. u = [s EXCEPT !.obs = NoObservation, !.timer = FALSE, !.calls = X]
  BY <1>1 DEF Unobserved
<1>3. u \in TabState /\ u.calls = X
  <2>1. NoObservation \in Observations
    BY DEF Observations
  <2> QED
    BY <1>2, <2>1 DEF TabState
<1> QED
  BY <1>1, <1>2, <1>3 DEF TabState, Same, Beside, Makes

LEMMA BumpedIs ==
    ASSUME NEW s \in TabState, NEW u, u = Bumped(s)
    PROVE  /\ Makes(s, u, Requests, {})
           /\ Same(s, u) /\ u.timer = s.timer
           /\ s.obs = NoObservation => u.obs = NoObservation
<1>1. PICK X \in SUBSET CallRecord : X = Retired(s.calls, Requests)
  BY RetiredTyped DEF TabState
<1>2. PICK o \in Observations :
        o = IF s.obs = NoObservation THEN s.obs ELSE [s.obs EXCEPT !.asked = FALSE]
  <2>1. s.obs \in Observations
    BY DEF TabState
  <2>2. s.obs # NoObservation => [s.obs EXCEPT !.asked = FALSE] \in Observation
    BY <2>1 DEF Observations, Observation
  <2> QED
    BY <2>1, <2>2 DEF Observations
<1>3. u = [s EXCEPT !.calls = X, !.obs = o]
  BY <1>1, <1>2 DEF Bumped
<1>4. u \in TabState /\ u.calls = X
  BY <1>3 DEF TabState
<1>7. u.obs = o
  BY <1>3 DEF TabState
<1>5. Same(s, u) /\ u.timer = s.timer
  BY <1>3 DEF TabState, Same, Beside
<1>6. Makes(s, u, Requests, {})
  BY <1>1, <1>4 DEF Makes
<1> QED
  BY <1>2, <1>5, <1>6, <1>7

LEMMA CallingIs ==
    ASSUME NEW s \in TabState, NEW d \in Fresh, NEW u, u = Calling(s, d)
    PROVE  /\ Makes(s, u, {}, {d})
           /\ Same(s, u) /\ u.obs = s.obs /\ u.timer = s.timer
<1>1. u.calls = s.calls \cup {d} /\ u \in TabState
  BY DEF Calling, TabState, Fresh
<1>2. u.calls = Retired(s.calls, {}) \cup {d}
  BY <1>1, RetiredTwice DEF TabState
<1> QED
  BY <1>1, <1>2 DEF Calling, TabState, Same, Beside, Makes

\* The calls the tab makes
LEMMA CallIs ==
    ASSUME NEW op \in Ops, NEW d \in CallRecord, d.live = TRUE, d.reply = Unanswered
    PROVE  d \in Fresh
BY DEF Fresh, Answered

LEMMA PlainCall ==
    ASSUME NEW op \in Ops
    PROVE  /\ Call(op) \in CallRecord /\ Call(op) \in Fresh
           /\ Call(op).op = op /\ Call(op).live = TRUE /\ Call(op).reply = Unanswered
<1>1. /\ 0 \in Nat /\ NoRoot \in Roots /\ NoRoot \in Sources
      /\ Unanswered \in Replies /\ "none" \in Thens
  BY DEF Roots, Sources, Unanswered, Bare, Replies, Thens
<1>2. Call(op) \in CallRecord /\ Call(op).op = op /\ Call(op).live = TRUE
      /\ Call(op).reply = Unanswered
  BY <1>1 DEF Call, CallRecord
<1> QED
  BY <1>2, CallIs

LEMMA JobCall ==
    ASSUME NEW op \in Ops, NEW job \in Nat, NEW then \in Thens,
           NEW d, d = WithJob(op, job, then)
    PROVE  d \in Fresh /\ d.op = op /\ d.job = job
<1>1. d \in CallRecord /\ d.op = op /\ d.live = TRUE /\ d.reply = Unanswered /\ d.job = job
  BY PlainCall DEF CallRecord, WithJob
<1> QED
  BY <1>1, CallIs

LEMMA RootCall ==
    ASSUME NEW op \in Ops, NEW root \in Roots, NEW d, d = WithRoot(op, root)
    PROVE  d \in Fresh /\ d.op = op /\ d.root = root
<1>1. d \in CallRecord /\ d.op = op /\ d.live = TRUE /\ d.reply = Unanswered /\ d.root = root
  BY PlainCall DEF CallRecord, WithRoot
<1> QED
  BY <1>1, CallIs

LEMMA SourceCall ==
    ASSUME NEW op \in Ops, NEW source \in Sources, NEW then \in Thens,
           NEW d, d = WithSource(op, source, then)
    PROVE  d \in Fresh /\ d.op = op /\ d.source = source /\ d.then = then
<1>1. /\ d \in CallRecord /\ d.op = op /\ d.live = TRUE /\ d.reply = Unanswered
      /\ d.source = source /\ d.then = then
  BY PlainCall DEF CallRecord, WithSource
<1> QED
  BY <1>1, CallIs

LEMMA ObservedIs ==
    ASSUME NEW s \in TabState, NEW pending \in BOOLEAN, NEW u, u = Observed(s, pending)
    PROVE  /\ Makes(s, u, Observers, {})
           /\ Same(s, u) /\ ~u.timer /\ ObservationCurrent(u)
           /\ u.obs.pending = pending /\ ~u.obs.paused
<1>1. PICK t \in TabState : /\ t = Unobserved(s) /\ Makes(s, t, Observers, {})
                            /\ Same(s, t) /\ ~t.timer
  BY UnobservedIs DEF Makes
<1>2. PICK o \in Observation :
        o = [job |-> s.job, asked |-> TRUE, source |-> s.source, failures |-> 0,
             pending |-> pending, paused |-> FALSE]
  BY DEF Observation, TabState
<1>3. u = [t EXCEPT !.obs = o]
  BY <1>1, <1>2 DEF Observed
<1>7. o \in Observations
  BY DEF Observations
<1>4. u \in TabState /\ u.obs = o /\ u.calls = t.calls /\ Same(t, u) /\ u.timer = t.timer
  BY <1>3, <1>7 DEF TabState, Same, Beside
<1>5. o # NoObservation
  BY <1>2 DEF NoObservation, Observation
<1>6. ObservationCurrent(u) /\ u.obs.pending = pending /\ ~u.obs.paused
  BY <1>1, <1>2, <1>4, <1>5 DEF ObservationCurrent, Same
<1> QED
  BY <1>1, <1>4, <1>6 DEF Same, Beside, Makes

\* u observes the job of s by a poll.
Polls(s, u) ==
  /\ Same(s, u) /\ Awaited(u)
  /\ \E R, d : /\ R \subseteq Observers /\ Makes(s, u, R, {d})
               /\ d.op = "poll" /\ d.job = s.job

\* pollProjectJob, of a job that is not observed yet or rests
LEMMA PolledIs ==
    ASSUME NEW s \in TabState, NEW by \in {"tab", "cancel"}, NEW u, u = Polled(s, by),
           s.obs = NoObservation \/ (ObservationCurrent(s) /\ ~s.obs.pending /\ ~s.obs.paused)
    PROVE  Polls(s, u)
<1>0. PICK d : d = WithJob("poll", s.job, by)
  OBVIOUS
<1>1. d \in Fresh /\ d.op = "poll" /\ d.job = s.job
  <2>1. s.job \in Nat /\ "poll" \in Ops /\ by \in Thens
    BY DEF TabState, Ops, Thens
  <2> QED
    BY <1>0, <2>1, JobCall
<1>2. PICK o, R : /\ o = IF s.obs = NoObservation THEN Observed(s, FALSE) ELSE s
                  /\ R \subseteq Observers /\ Makes(s, o, R, {})
                  /\ Same(s, o) /\ ObservationCurrent(o)
                  /\ ~o.obs.pending /\ ~o.obs.paused
  <2>1. CASE s.obs = NoObservation
    BY <2>1, ObservedIs
  <2>2. CASE s.obs # NoObservation
    BY <2>2, Assigns DEF Same, Beside
  <2> QED
    BY <2>1, <2>2
<1>3. o \in TabState /\ o.obs # NoObservation
  BY <1>2 DEF Makes, ObservationCurrent
<1>4. PICK t : t = [o EXCEPT !.timer = FALSE, !.obs.pending = TRUE]
  OBVIOUS
<1>5. o.obs \in Observation
  BY <1>3 DEF TabState, Observations
<1>6. PICK q \in Observation :
        /\ q = [o.obs EXCEPT !.pending = TRUE]
        /\ q.pending /\ q.paused = o.obs.paused /\ q.job = o.obs.job /\ q.asked = o.obs.asked
        /\ q.source = o.obs.source
  <2>1. [o.obs EXCEPT !.pending = TRUE] \in Observation
    BY <1>5 DEF Observation
  <2>2. ASSUME NEW q, q = [o.obs EXCEPT !.pending = TRUE]
        PROVE  /\ q.pending /\ q.paused = o.obs.paused /\ q.job = o.obs.job
               /\ q.asked = o.obs.asked /\ q.source = o.obs.source
    BY <1>5, <2>2 DEF Observation
  <2> QED
    BY <2>1, <2>2
<1>7. t = [o EXCEPT !.timer = FALSE, !.obs = q]
  BY <1>3, <1>4, <1>6 DEF TabState
<1>8. /\ t \in TabState /\ t.calls = o.calls /\ t.obs = q /\ ~t.timer /\ Same(o, t)
  <2>1. q \in Observations
    BY DEF Observations
  <2> QED
    BY <1>3, <1>7, <2>1 DEF TabState, Same, Beside
<1>9. u = Calling(t, d)
  BY <1>0, <1>2, <1>4 DEF Polled, WithJob
<1>10. /\ Makes(t, u, {}, {d}) /\ Same(t, u) /\ u.obs = t.obs /\ u.timer = t.timer
  BY <1>1, <1>8, <1>9, CallingIs
<1>11. Same(s, u)
  BY <1>2, <1>8, <1>10 DEF Same, Beside
<1>12. Awaited(u)
  <2>1. q # NoObservation
    BY DEF Observation, NoObservation
  <2>2. u.obs = q /\ u.job = o.job /\ u.source = o.source /\ ~u.timer
    BY <1>8, <1>10 DEF Same
  <2>3. o.obs.asked /\ o.obs.job = o.job /\ o.obs.source = o.source /\ ~o.obs.paused
    BY <1>2 DEF ObservationCurrent
  <2> QED
    BY <1>6, <2>1, <2>2, <2>3 DEF Awaited, ObservationCurrent
<1>13. Makes(s, u, R \cup {} \cup {}, {d})
  BY <1>2, <1>3, <1>8, <1>10, Assigns, Chain
<1> QED
  BY <1>1, <1>2, <1>11, <1>12, <1>13 DEF Polls

\* A call of the kinds the tab asks for lists with
LEMMA ListingIs ==
    ASSUME NEW saved \in Roots
    PROVE  Listing(saved) \in Fresh /\ Listing(saved).op = "summary"
BY RootCall DEF Listing, Ops

LEMMA ListRefreshedIs ==
    ASSUME NEW s \in TabState, s.obs = NoObservation, NEW saved \in Roots,
           NEW u, u = ListRefreshed(s, saved)
    PROVE  /\ Makes(s, u, Requests, {Listing(saved)})
           /\ Same(s, u) /\ u.obs = NoObservation /\ u.timer = s.timer
<1>1. PICK t \in TabState : /\ t = Bumped(s) /\ Makes(s, t, Requests, {})
                            /\ Same(s, t) /\ t.timer = s.timer /\ t.obs = NoObservation
  BY BumpedIs DEF Makes
<1>2. PICK X \in SUBSET Root : X = IF s.projects = {} THEN {} ELSE t.drawn
  BY <1>1 DEF TabState
<1>3. PICK q : q = [t EXCEPT !.drawn = X]
  OBVIOUS
<1>4. /\ q \in TabState /\ q.calls = t.calls /\ Same(t, q) /\ q.timer = t.timer
      /\ q.obs = t.obs
  BY <1>3 DEF TabState, Same, Beside
<1>5. u = Calling(q, Listing(saved))
  BY <1>1, <1>2, <1>3 DEF ListRefreshed, Listing, WithRoot
<1>6. Makes(q, u, {}, {Listing(saved)}) /\ Same(q, u) /\ u.obs = q.obs /\ u.timer = q.timer
  BY <1>4, <1>5, ListingIs, CallingIs
<1>7. Makes(s, u, Requests \cup {} \cup {}, {Listing(saved)})
  BY <1>1, <1>4, <1>6, Assigns, Chain
<1>8. Requests \cup {} \cup {} = Requests
  OBVIOUS
<1> QED
  BY <1>1, <1>4, <1>6, <1>7, <1>8 DEF Same, Beside

LEMMA ChooserShownIs ==
    ASSUME NEW s \in TabState, NEW saved \in Roots, NEW u, u = ChooserShown(s, saved)
    PROVE  Closes(s, u) /\ u.mode = "select" /\ u.source = s.source
<1>1. PICK t \in TabState : /\ t = Unobserved(s) /\ Makes(s, t, Observers, {})
                            /\ Same(s, t) /\ ~t.timer /\ t.obs = NoObservation
  BY UnobservedIs DEF Makes
<1>2. PICK q : q = [t EXCEPT !.returning = FALSE, !.mode = "select", !.loading = NoRoot,
                             !.job = 0, !.drawn = {}]
  OBVIOUS
<1>3. /\ q \in TabState /\ q.calls = t.calls /\ q.timer = t.timer /\ q.obs = t.obs
      /\ q.mode = "select" /\ ~q.returning /\ q.loading = NoRoot /\ q.job = 0
      /\ q.source = t.source /\ Beside(t, q)
  BY <1>2 DEF TabState, Beside, Mode, Roots
<1>4. u = ListRefreshed(q, saved)
  BY <1>1, <1>2 DEF ChooserShown
<1>5. /\ Makes(q, u, Requests, {Listing(saved)})
      /\ Same(q, u) /\ u.obs = NoObservation /\ u.timer = q.timer
  BY <1>1, <1>3, <1>4, ListRefreshedIs
<1>6. Makes(s, u, Observers \cup {} \cup Requests, {Listing(saved)})
  BY <1>1, <1>3, <1>5, Assigns, Chain
<1>7. \E R, N : /\ Makes(s, u, R, N) /\ Observers \subseteq R
                /\ N = {} \/ (Requests \subseteq R /\ \E r \in Roots : N = {Listing(r)})
  BY <1>6
<1>8. Closed(u) /\ ~u.returning /\ Beside(s, u) /\ u.mode = "select" /\ u.source = s.source
  BY <1>1, <1>3, <1>5 DEF Closed, Same, Beside
<1> QED
  BY <1>7, <1>8 DEF Closes

\* The tab asks for a project; t is s without the call that it answers.
Asks(s, t, u, root) ==
  /\ u.mode = s.mode /\ Beside(s, u) /\ u.loading = root /\ u.job = 0
  /\ ~u.returning /\ u.obs = NoObservation /\ ~u.timer
  /\ \E d : /\ Makes(t, u, Observers \cup Requests, {d})
            /\ d.op = "start" /\ d.root = root

LEMMA ProjectSelectedIs ==
    ASSUME NEW s \in TabState, ~Busy(s), NEW root \in Root,
           NEW u, u = ProjectSelected(s, root)
    PROVE  Asks(s, s, u, root) /\ u.source = s.source
<1>1. PICK t \in TabState : /\ t = Unobserved(s) /\ Makes(s, t, Observers, {})
                            /\ Same(s, t) /\ ~t.timer /\ t.obs = NoObservation
  BY UnobservedIs DEF Makes
<1>2. PICK b \in TabState : /\ b = Bumped(t) /\ Makes(t, b, Requests, {})
                            /\ Same(t, b) /\ ~b.timer /\ b.obs = NoObservation
  BY <1>1, BumpedIs DEF Makes
<1>3. PICK q : q = [b EXCEPT !.returning = FALSE, !.loading = root, !.job = 0,
                             !.drawn = s.projects]
  OBVIOUS
<1>4. /\ q \in TabState /\ q.calls = b.calls /\ q.timer = b.timer /\ q.obs = b.obs
      /\ q.mode = b.mode /\ ~q.returning /\ q.loading = root /\ q.job = 0
      /\ q.source = b.source /\ Beside(b, q)
  <2>1. s.projects \in SUBSET Root /\ root \in Roots
    BY DEF TabState, Roots
  <2> QED
    BY <1>3, <2>1 DEF TabState, Beside
<1>5. PICK d : d = WithRoot("start", root)
  OBVIOUS
<1>6. d \in Fresh /\ d.op = "start" /\ d.root = root
  <2>1. root \in Roots /\ "start" \in Ops
    BY DEF Roots, Ops
  <2> QED
    BY <1>5, <2>1, RootCall
<1>7. u = Calling(q, d)
  BY <1>1, <1>2, <1>3, <1>5 DEF ProjectSelected, WithRoot
<1>8. Makes(q, u, {}, {d}) /\ Same(q, u) /\ u.obs = q.obs /\ u.timer = q.timer
  BY <1>4, <1>6, <1>7, CallingIs
<1>9. Makes(s, b, Observers \cup Requests, {})
  BY <1>1, <1>2, Chain
<1>10. Makes(s, u, Observers \cup Requests \cup {} \cup {}, {d})
  BY <1>4, <1>8, <1>9, Assigns, Chain
<1>11. Observers \cup Requests \cup {} \cup {} = Observers \cup Requests
  OBVIOUS
<1> QED
  BY <1>1, <1>2, <1>4, <1>6, <1>8, <1>10, <1>11 DEF Asks, Same, Beside

LEMMA ClosesAfter ==
    ASSUME NEW s \in TabState, NEW t, NEW u, NEW R,
           Makes(s, t, R, {}), Beside(s, t), Closes(t, u)
    PROVE  Closes(s, u)
<1>1. PICK Q, N : /\ Makes(t, u, Q, N) /\ Observers \subseteq Q
                  /\ N = {} \/ (Requests \subseteq Q /\ \E r \in Roots : N = {Listing(r)})
  BY DEF Closes
<1>2. Makes(s, u, R \cup Q, N) /\ Observers \subseteq R \cup Q
      /\ (Requests \subseteq Q => Requests \subseteq R \cup Q)
  BY <1>1, Chain
<1>3. \E Q2, N2 : /\ Makes(s, u, Q2, N2) /\ Observers \subseteq Q2
                  /\ N2 = {} \/ (Requests \subseteq Q2 /\ \E r \in Roots : N2 = {Listing(r)})
  BY <1>1, <1>2
<1> QED
  BY <1>3 DEF Closes, Beside

\* The tab gives up what it observed, and nothing else of it is opened.
LEMMA ClosesItself ==
    ASSUME NEW s \in TabState, NEW t, NEW u \in TabState,
           t = Unobserved(s), u.calls = t.calls, u.timer = t.timer, u.obs = t.obs,
           u.job = 0, u.loading = NoRoot, ~u.returning, Beside(t, u)
    PROVE  Closes(s, u)
<1>1. /\ Makes(s, t, Observers, {}) /\ Same(s, t) /\ ~t.timer /\ t.obs = NoObservation
      /\ t \in TabState
  BY UnobservedIs DEF Makes
<1>2. Makes(s, u, Observers \cup {}, {})
  BY <1>1, Assigns, Chain
<1>3. \E Q, N : /\ Makes(s, u, Q, N) /\ Observers \subseteq Q
                /\ N = {} \/ (Requests \subseteq Q /\ \E r \in Roots : N = {Listing(r)})
  BY <1>2
<1> QED
  BY <1>1, <1>3 DEF Closes, Closed, Same, Beside

LEMMA OpenedIs ==
    ASSUME NEW s \in TabState, NEW reply \in Told, NEW u, u = Opened(s, reply)
    PROVE  /\ Closes(s, u) /\ u.mode = "analyze"
           /\ u.source = reply.source /\ u.root = reply.current
<1>1. PICK t \in TabState : t = Unobserved(s)
  BY UnobservedIs DEF Makes
<1>2. /\ s.projects \in SUBSET Root /\ NoRoot \in Roots /\ "analyze" \in Mode
      /\ reply.current \in Roots /\ reply.source \in Sources
  BY DEF TabState, Told, Roots, Mode, Sources
<1>3. u = [t EXCEPT !.failed = NoRoot, !.loading = NoRoot, !.job = 0,
             !.returning = FALSE, !.drawn = s.projects, !.mode = "analyze",
             !.root = reply.current, !.source = reply.source]
  BY <1>1 DEF Opened
<1>4. /\ u \in TabState /\ u.calls = t.calls /\ u.timer = t.timer /\ u.obs = t.obs
      /\ u.job = 0 /\ u.loading = NoRoot /\ ~u.returning /\ u.mode = "analyze"
      /\ u.source = reply.source /\ u.root = reply.current /\ Beside(t, u)
  <2>1. PICK P, cur, src : P = s.projects /\ cur = reply.current /\ src = reply.source
    OBVIOUS
  <2>2. P \in SUBSET Root /\ cur \in Roots /\ src \in Sources /\ NoRoot \in Roots
        /\ "analyze" \in Mode
    BY <1>2, <2>1
  <2>3. u = [t EXCEPT !.failed = NoRoot, !.loading = NoRoot, !.job = 0,
               !.returning = FALSE, !.drawn = P, !.mode = "analyze",
               !.root = cur, !.source = src]
    BY <1>3, <2>1
  <2>4. u \in TabState
    <3>1. PICK q : q = [t EXCEPT !.failed = NoRoot, !.loading = NoRoot, !.job = 0,
                                 !.returning = FALSE]
      OBVIOUS
    <3>2. q \in TabState
      BY <2>2, <3>1 DEF TabState
    <3>3. u = [q EXCEPT !.drawn = P, !.mode = "analyze", !.root = cur, !.source = src]
      BY <2>3, <3>1
    <3> QED
      BY <2>2, <3>2, <3>3 DEF TabState
  <2>5. /\ u.calls = t.calls /\ u.timer = t.timer /\ u.obs = t.obs
        /\ u.job = 0 /\ u.loading = NoRoot /\ ~u.returning /\ u.mode = "analyze"
        /\ u.source = src /\ u.root = cur
    BY <2>3 DEF TabState
  <2>6. Beside(t, u)
    BY <2>3 DEF TabState, Beside
  <2> QED
    BY <2>1, <2>4, <2>5, <2>6
<1> QED
  BY <1>1, <1>4, ClosesItself

LEMMA FailureShownIs ==
    ASSUME NEW s \in TabState, NEW job, job.root \in Roots, NEW u, u = FailureShown(s, job)
    PROVE  Closes(s, u) /\ u.mode = "select" /\ u.source = s.source
<1>1. PICK t \in TabState : t = Unobserved(s) /\ Makes(s, t, Observers, {}) /\ Same(s, t)
  BY UnobservedIs DEF Makes
<1>2. PICK q : q = [t EXCEPT !.failed = job.root, !.job = 0, !.loading = NoRoot]
  OBVIOUS
<1>3. q \in TabState /\ q.calls = t.calls /\ Beside(t, q) /\ q.source = t.source
  BY <1>2 DEF TabState, Beside, Roots
<1>4. NoRoot \in Roots /\ u = ChooserShown(q, NoRoot)
  BY <1>1, <1>2 DEF FailureShown, Roots
<1>5. Closes(q, u) /\ u.mode = "select" /\ u.source = q.source
  BY <1>3, <1>4, ChooserShownIs
<1>6. Makes(s, q, Observers \cup {}, {})
  BY <1>1, <1>3, Assigns, Chain
<1> QED
  BY <1>1, <1>3, <1>5, <1>6, ClosesAfter DEF Same, Beside

\* handleProjectJobResponse, of a job that was cancelled
LEMMA CancelledIs ==
    ASSUME NEW s \in TabState, NEW reply, reply.job.status = "cancelled",
           NEW u, u = Responded(s, reply)
    PROVE  Closes(s, u) /\ u.mode \in {s.mode, "select"} /\ u.source = s.source
<1>1. PICK t \in TabState : t = Unobserved(s) /\ Makes(s, t, Observers, {}) /\ Same(s, t)
  BY UnobservedIs DEF Makes
<1>2. PICK q : q = [t EXCEPT !.loading = NoRoot, !.job = 0, !.returning = FALSE]
  OBVIOUS
<1>3. /\ q \in TabState /\ q.calls = t.calls /\ q.timer = t.timer /\ q.obs = t.obs
      /\ q.loading = NoRoot /\ q.job = 0 /\ ~q.returning /\ q.mode = t.mode
      /\ q.source = t.source /\ Beside(t, q)
  BY <1>2 DEF TabState, Beside, Roots
<1>4. Makes(s, q, Observers \cup {}, {})
  BY <1>1, <1>3, Assigns, Chain
<1>5. CASE s.projects = {}
  <2>1. u = ChooserShown(q, NoRoot) /\ NoRoot \in Roots
    BY <1>1, <1>2, <1>5 DEF Responded, Roots
  <2>2. Closes(q, u) /\ u.mode = "select" /\ u.source = q.source
    BY <1>3, <2>1, ChooserShownIs
  <2> QED
    BY <1>1, <1>3, <1>4, <2>2, ClosesAfter DEF Same, Beside
<1>6. CASE s.projects # {}
  <2>1. u = [q EXCEPT !.drawn = s.projects]
    BY <1>1, <1>2, <1>6 DEF Responded
  <2>2. /\ u \in TabState /\ u.calls = q.calls /\ u.timer = q.timer /\ u.obs = q.obs
        /\ u.loading = NoRoot /\ u.job = 0 /\ ~u.returning /\ u.mode = q.mode
        /\ u.source = q.source /\ Beside(q, u)
    BY <1>3, <2>1 DEF TabState, Beside
  <2> QED
    BY <1>1, <1>3, <2>2, ClosesItself DEF Same, Beside
<1> QED
  BY <1>5, <1>6

-----------------------------------------------------------------------------
(* How the calls change from the tab s to the tab u, which is what t, that is *)
(* s without the calls of C, becomes.                                       *)

Taken(s, t, C) == t \in TabState /\ C \subseteq s.calls /\ t.calls = s.calls \ C

\* What giving up calls, taking some out and making others does to those that
\* are heard.
LEMMA LiveMade ==
    ASSUME NEW s \in TabState, NEW t, NEW C, Taken(s, t, C), NEW u, NEW R, NEW N,
           Makes(t, u, R, N), NEW ops
    PROVE  \A e : e \in Live(u.calls, ops) <=>
                   \/ e \in Live(s.calls, ops) /\ e \notin C /\ e.op \notin R
                   \/ e \in N /\ e.op \in ops
<1>1. PICK calls \in SUBSET CallRecord : calls = s.calls
  BY DEF TabState
<1>2. AllLive(N)
  BY DEF Makes, Fresh, AllLive
<1>3. u.calls = Retired(calls \ C, R) \cup N
  BY <1>1 DEF Makes, Taken
<1> DEFINE r(d) == [d EXCEPT !.live = d.live /\ d.op \notin R]
<1>4. ASSUME NEW d \in calls
      PROVE  /\ r(d).live = (d.live /\ d.op \notin R) /\ r(d).op = d.op
             /\ d.live /\ d.op \notin R => r(d) = d
  <2>1. d \in CallRecord
    OBVIOUS
  <2>2. r(d).live = (d.live /\ d.op \notin R) /\ r(d).op = d.op
    BY <2>1 DEF CallRecord
  <2>3. ASSUME d.live, d.op \notin R PROVE r(d) = d
    <3>1. (d.live /\ d.op \notin R) = d.live
      BY <2>3
    <3>2. r(d) = [d EXCEPT !.live = d.live]
      BY <3>1
    <3> QED
      BY <2>1, <3>2 DEF CallRecord
  <2> QED
    BY <2>2, <2>3
<1>5. Retired(calls \ C, R) = {r(d) : d \in calls \ C}
  BY DEF Retired
<1> HIDE DEF r
<1>6. ASSUME NEW e \in Live(Retired(calls \ C, R), ops)
      PROVE  e \in Live(calls, ops) /\ e \notin C /\ e.op \notin R
  <2>1. PICK d \in calls \ C : e = r(d)
    BY <1>5 DEF Live
  <2>2. d.live /\ d.op \notin R /\ e = d
    BY <1>4, <2>1 DEF Live
  <2> QED
    BY <2>2 DEF Live
<1>7. ASSUME NEW d \in Live(calls, ops), d \notin C, d.op \notin R
      PROVE  d \in Live(Retired(calls \ C, R), ops)
  <2>1. d \in calls /\ d.live
    BY DEF Live
  <2>2. r(d) = d
    BY <1>4, <1>7, <2>1
  <2>3. d \in Retired(calls \ C, R)
    BY <1>5, <1>7, <2>1, <2>2
  <2> QED
    BY <2>3 DEF Live
<1>8. \A e : e \in u.calls <=> e \in Retired(calls \ C, R) \/ e \in N
  BY <1>3
<1>9. \A e : e \in Live(u.calls, ops) <=>
             \/ e \in Live(Retired(calls \ C, R), ops)
             \/ e \in N /\ e.op \in ops
  BY <1>2, <1>8 DEF Live, AllLive
<1>10. \A e : e \in Live(s.calls, ops) <=> e \in Live(calls, ops)
  BY <1>1 DEF Live
<1> QED
  BY <1>6, <1>7, <1>9, <1>10

\* Calls of some kinds stay, ...
LEMMA LiveSteady ==
    ASSUME NEW s \in TabState, NEW t, NEW C, Taken(s, t, C), NEW u, NEW R, NEW N,
           Makes(t, u, R, N), NEW ops,
           \A c \in C : c \notin Live(s.calls, ops), \A d \in N : d.op \notin ops,
           R \cap ops = {} \/ Live(s.calls, ops) = {}
    PROVE  Live(u.calls, ops) = Live(s.calls, ops)
<1>1. \A e \in Live(s.calls, ops) : e.op \in ops
  BY DEF Live
<1> QED
  BY <1>1, LiveMade

\* ... go, ...
LEMMA LiveGone ==
    ASSUME NEW s \in TabState, NEW t, NEW C, Taken(s, t, C), NEW u, NEW R, NEW N,
           Makes(t, u, R, N), NEW ops,
           ops \subseteq R \/ Live(s.calls, ops) \subseteq C, \A d \in N : d.op \notin ops
    PROVE  Live(u.calls, ops) = {}
<1>1. \A e \in Live(s.calls, ops) : e.op \in ops
  BY DEF Live
<1> QED
  BY <1>1, LiveMade

\* ... or give way to a new one.
LEMMA LiveNew ==
    ASSUME NEW s \in TabState, NEW t, NEW C, Taken(s, t, C), NEW u, NEW R, NEW N,
           Makes(t, u, R, N), NEW ops,
           ops \subseteq R \/ Live(s.calls, ops) \subseteq C,
           NEW d, N = {d}, d.op \in ops
    PROVE  Live(u.calls, ops) = {d} /\ One(Live(u.calls, ops))
<1>1. \A e \in Live(s.calls, ops) : e.op \in ops
  BY DEF Live
<1>2. Live(u.calls, ops) = {d}
  BY <1>1, LiveMade
<1> QED
  BY <1>2 DEF One

LEMMA CallsTypedKept ==
    ASSUME NEW s \in TabState, CallsTyped(s), NEW t, NEW C, Taken(s, t, C), NEW u,
           NEW R, NEW N, Makes(t, u, R, N)
    PROVE  CallsTyped(u)
<1> SUFFICES ASSUME NEW e \in u.calls
             PROVE  ReplyTyped(e) /\ (e.live \/ e.op \in Observers \cup Requests)
  BY DEF CallsTyped
<1>1. CASE e \in N
  BY <1>1 DEF Makes, Fresh, ReplyTyped
<1>2. CASE e \notin N
  <2>1. PICK d \in s.calls : e = [d EXCEPT !.live = d.live /\ d.op \notin R]
    BY <1>2 DEF Makes, Taken, Retired
  <2>2. d \in CallRecord
    BY DEF TabState
  <2>3. e.op = d.op /\ e.reply = d.reply /\ e.live = (d.live /\ d.op \notin R)
    BY <2>1, <2>2 DEF CallRecord
  <2>4. ReplyTyped(d) /\ (d.live \/ d.op \in Observers \cup Requests)
    BY DEF CallsTyped
  <2>5. ReplyTyped(e)
    BY <2>3, <2>4 DEF ReplyTyped, Answered
  <2>6. R \subseteq Observers \cup Requests
    BY DEF Makes
  <2> QED
    BY <2>3, <2>4, <2>5, <2>6
<1> QED
  BY <1>1, <1>2

-----------------------------------------------------------------------------
(* What a step of the tab keeps, by the kind of step                        *)

LEMMA AgreeingKept ==
    ASSUME NEW x, NEW x2, x \subseteq x2, NEW v, NEW s \in TabState, Agreeing(s, v, x),
           NEW t, NEW C, Taken(s, t, C), NEW u, NEW R, NEW N, Makes(t, u, R, N),
           Live(u.calls, MutateOps) = Live(s.calls, MutateOps),
           \/ u.source = s.source /\ (s.mode = "start" => u.mode = "start")
           \/ \E c \in Live(s.calls, Looks) : c.reply \in Told /\ u.source = c.reply.source
    PROVE  Agreeing(u, v, x2)
<1>1. CASE "source" \in x2
  BY <1>1 DEF Agreeing
<1>2. CASE "source" \notin x2
  <2>1. /\ \A m \in Live(u.calls, MutateOps) : Answered(m) => m.reply.source = v.source
        /\ Moved(s, v) => Moved(u, v)
    BY <1>2 DEF Agreeing, Moved
  <2>2. ASSUME ~Moved(s, v)
        PROVE  /\ u.mode # "start" => u.source = v.source
               /\ \A c \in Live(u.calls, Looks) : c.reply \in Told => c.reply.source = v.source
    <3>1. /\ s.mode # "start" => s.source = v.source
          /\ \A c \in Live(s.calls, Looks) : c.reply \in Told => c.reply.source = v.source
      BY <1>2, <2>2 DEF Agreeing
    <3>2. \A c \in Live(u.calls, Looks) : c \in Live(s.calls, Looks) \/ c \in N
      BY LiveMade
    <3>3. \A c \in N : c.reply = Unanswered
      BY DEF Makes, Fresh, Answered
    <3>4. Unanswered \notin Told
      BY DEF Unanswered, Told
    <3> QED
      BY <3>1, <3>2, <3>3, <3>4
  <2> QED
    BY <2>1, <2>2 DEF Agreeing
<1> QED
  BY <1>1, <1>2

LEMMA WantedKept ==
    ASSUME NEW v, NEW s, Wanted(s, v), NEW u,
           u.job # 0 => JobFor(v, u.job, u.loading),
           \A c \in Live(u.calls, {"start"}) :
             \/ c \in Live(s.calls, {"start"}) /\ u.loading = s.loading
             \/ c.root = u.loading /\ ~Answered(c),
           \A c \in Live(u.calls, {"init"}) : c \in Live(s.calls, {"init"}),
           \A c \in Live(u.calls, Observers) :
             \/ c \in Live(s.calls, Observers) /\ u.job = s.job /\ u.loading = s.loading
             \/ c.job = u.job /\ (c.op = "where" => c.root = u.loading) /\ ~Answered(c)
    PROVE  Wanted(u, v)
<1>1. \A c \in Live(u.calls, {"start"}) :
        c.root = u.loading /\ (Answered(c) => JobFor(v, c.reply.job.id, c.root))
  BY DEF Wanted
<1>2. \A c \in Live(u.calls, {"init"}) :
        Answered(c) /\ c.reply.code = 202 =>
          c.reply.job.id # 0 /\ JobFor(v, c.reply.job.id, c.reply.job.root)
  BY DEF Wanted
<1>3. ASSUME NEW c \in Live(u.calls, Observers)
      PROVE  /\ c.job = u.job /\ (c.op = "where" => c.root = u.loading)
             /\ c.op # "where" /\ c.reply \in Told => c.reply.job.root = u.loading
  <2>1. ~Answered(c) => c.reply \notin Told
    BY DEF Answered, Unanswered, Told
  <2> QED
    BY <2>1 DEF Wanted
<1> QED
  BY <1>1, <1>2, <1>3 DEF Wanted

\* No project is being opened any more.
LEMMA CloseKeeps ==
    ASSUME NEW x, NEW x2, NEW v, NEW s, Controls(s, x), Wanted(s, v), ~s.switching,
           NEW C, NEW t, Taken(s, t, C), Beside(s, t), NEW u, Closes(t, u),
           u.mode # "start", s.mode = "start" => Live(s.calls, {"init"}) \subseteq C,
           Live(s.calls, {"start"}) \subseteq C,
           s.returning => Live(s.calls, {"return"}) \subseteq C,
           \/ x2 = x /\ (\A c \in C : c.op \notin RefreshOps)
           \/ /\ "refresh" \in x2 /\ s.refresh.on /\ ~s.refresh.timer
              /\ Live(s.calls, RefreshOps) \subseteq C
    PROVE  /\ Controls(u, x2) /\ Wanted(u, v)
           /\ /\ x \subseteq x2 /\ Agreeing(s, v, x)
              /\ \/ u.source = s.source /\ s.mode # "start"
                 \/ \E c \in Live(s.calls, Looks) :
                      c.reply \in Told /\ u.source = c.reply.source
              => Agreeing(u, v, x2)
<1>1. PICK R, N : /\ Makes(t, u, R, N) /\ Observers \subseteq R
                  /\ N = {} \/ (Requests \subseteq R /\ \E r \in Roots : N = {Listing(r)})
  BY DEF Closes
<1>2. \A d \in N : d.op = "summary"
  BY <1>1, ListingIs
<1>3. s \in TabState /\ u \in TabState /\ CallsTyped(s)
  BY <1>1 DEF Controls, Makes
<1>4. CallsTyped(u)
  BY <1>1, <1>3, CallsTypedKept
<1>5. Live(u.calls, {"start"}) = {} /\ Live(u.calls, Observers) = {}
  BY <1>1, <1>2, <1>3, LiveGone DEF Observers
<1>6. Live(s.calls, MutateOps) = {} /\ Live(u.calls, MutateOps) = {}
  <2>1. Live(s.calls, MutateOps) = {}
    BY DEF Controls, Switching
  <2> QED
    BY <1>1, <1>2, <1>3, <2>1, LiveGone DEF MutateOps
<1>7. Live(u.calls, {"init"}) = {}
  <2>1. Live(s.calls, {"init"}) \subseteq C
    BY DEF Controls, Starting
  <2>2. \A d \in N : d.op \notin {"init"}
    BY <1>2
  <2>3. \A e : e \in Live(u.calls, {"init"}) =>
                \/ e \in Live(s.calls, {"init"}) /\ e \notin C
                \/ e \in N /\ e.op \in {"init"}
    BY <1>1, <1>3, LiveMade
  <2> QED
    BY <2>1, <2>2, <2>3
<1>8. Live(u.calls, {"return"}) = {}
  <2>1. Live(s.calls, {"return"}) \subseteq C
    BY DEF Controls, Returning
  <2>2. \A d \in N : d.op \notin {"return"}
    BY <1>2
  <2>3. \A e : e \in Live(u.calls, {"return"}) =>
                \/ e \in Live(s.calls, {"return"}) /\ e \notin C
                \/ e \in N /\ e.op \in {"return"}
    BY <1>1, <1>3, LiveMade
  <2> QED
    BY <2>1, <2>2, <2>3
<1>9. Closed(u) /\ ~u.returning /\ u.switching = s.switching /\ u.refresh = s.refresh
  BY DEF Closes, Beside
<1>10. Refreshing(u, x2)
  <2>1. Refreshing(s, x)
    BY DEF Controls
  <2>2. CASE x2 = x /\ (\A c \in C : c.op \notin RefreshOps)
    <3>1. \A c \in C : c \notin Live(s.calls, RefreshOps)
      BY <2>2 DEF Live
    <3>2. R \cap RefreshOps = {}
      BY <1>1 DEF Makes, RefreshOps, Observers, Requests
    <3>3. Live(u.calls, RefreshOps) = Live(s.calls, RefreshOps)
      <4>1. \A d \in N : d.op \notin RefreshOps
        BY <1>2 DEF RefreshOps
      <4> QED
        BY <1>1, <1>3, <3>1, <3>2, <4>1, LiveSteady
    <3> QED
      BY <1>9, <2>1, <2>2, <3>3 DEF Refreshing
  <2>3. CASE /\ "refresh" \in x2 /\ s.refresh.on /\ ~s.refresh.timer
             /\ Live(s.calls, RefreshOps) \subseteq C
    <3>1. \A d \in N : d.op \notin RefreshOps
      BY <1>2 DEF RefreshOps
    <3>2. \A e : e \in Live(u.calls, RefreshOps) =>
                  \/ e \in Live(s.calls, RefreshOps) /\ e \notin C
                  \/ e \in N /\ e.op \in RefreshOps
      BY <1>1, <1>3, LiveMade
    <3>3. Live(u.calls, RefreshOps) = {}
      BY <2>3, <3>1, <3>2
    <3> QED
      BY <1>9, <2>3, <3>3 DEF Refreshing
  <2> QED
    BY <2>2, <2>3
<1>11. Controls(u, x2)
  <2>1. Starting(u) /\ Returning(u) /\ Switching(u)
    BY <1>6, <1>7, <1>8, <1>9 DEF Starting, Returning, Switching
  <2>2. Exclusive(u) /\ Asking(u) /\ Observing(u)
    BY <1>5, <1>9 DEF Exclusive, Asking, Observing, Closed
  <2> QED
    BY <1>3, <1>4, <1>10, <2>1, <2>2 DEF Controls
<1>12. Wanted(u, v)
  BY <1>5, <1>7, <1>9, WantedKept DEF Closed
<1>13. ASSUME x \subseteq x2, Agreeing(s, v, x),
             \/ u.source = s.source /\ s.mode # "start"
             \/ \E c \in Live(s.calls, Looks) : c.reply \in Told /\ u.source = c.reply.source
       PROVE  Agreeing(u, v, x2)
  BY <1>1, <1>3, <1>6, <1>13, AgreeingKept
<1> QED
  BY <1>11, <1>12, <1>13

\* The project's job is observed still, by a new call, or it rests.
LEMMA ObserveKeeps ==
    ASSUME NEW x, NEW v, NEW s, Controls(s, x), Wanted(s, v), Agreeing(s, v, x), s.job # 0,
           NEW C, NEW t, Taken(s, t, C), \A c \in C : c.op \in Observers,
           NEW u, Same(s, u), NEW R, R \subseteq Observers, NEW N, Makes(t, u, R, N),
           Observers \subseteq R \/ Live(s.calls, Observers) \subseteq C,
           \/ Rested(u) /\ N = {}
           \/ Awaited(u) /\ \E d : /\ N = {d} /\ d.op \in Observers /\ d.job = s.job
                                   /\ d.op = "where" => d.root = s.loading
    PROVE  Controls(u, x) /\ Wanted(u, v) /\ Agreeing(u, v, x)
<1>1. s \in TabState /\ u \in TabState /\ CallsTyped(u)
  <2>1. s \in TabState /\ u \in TabState /\ CallsTyped(s)
    BY DEF Controls, Makes
  <2> QED
    BY <2>1, CallsTypedKept
<1>2. \A d \in N : d.op \in Observers
  OBVIOUS
<1>3. ASSUME NEW ops, ops \cap Observers = {}
      PROVE  Live(u.calls, ops) = Live(s.calls, ops)
  <2>1. \A c \in C : c \notin Live(s.calls, ops)
    BY <1>3 DEF Live
  <2>2. \A d \in N : d.op \notin ops
    BY <1>2, <1>3
  <2>3. R \cap ops = {}
    BY <1>3
  <2> QED
    BY <1>1, <2>1, <2>2, <2>3, LiveSteady
<1>4. /\ Live(u.calls, {"init"}) = Live(s.calls, {"init"})
      /\ Live(u.calls, {"start"}) = Live(s.calls, {"start"})
      /\ Live(u.calls, {"return"}) = Live(s.calls, {"return"})
      /\ Live(u.calls, MutateOps) = Live(s.calls, MutateOps)
      /\ Live(u.calls, ListOps) = Live(s.calls, ListOps)
      /\ Live(u.calls, RefreshOps) = Live(s.calls, RefreshOps)
  BY <1>3 DEF Observers, MutateOps, ListOps, RefreshOps
<1>5. s.mode # "start"
  BY DEF Controls, Starting
<1>6. Observing(u) /\ (\A c \in Live(u.calls, Observers) : N = {c})
  <2>1. u.job # 0
    BY DEF Same
  <2>2. CASE Rested(u) /\ N = {}
    <3>1. Live(u.calls, Observers) = {}
      BY <1>1, <2>2, LiveGone
    <3> QED
      BY <2>1, <2>2, <3>1 DEF Rested, Observing
  <2>3. ASSUME Awaited(u), NEW d, N = {d}, d.op \in Observers
        PROVE  Observing(u) /\ (\A c \in Live(u.calls, Observers) : N = {c})
    <3>1. Live(u.calls, Observers) = {d} /\ One(Live(u.calls, Observers))
      BY <1>1, <2>3, LiveNew
    <3> QED
      BY <2>1, <2>3, <3>1 DEF Awaited, Observing
  <2> QED
    BY <2>2, <2>3
<1>7. Starting(u) /\ Exclusive(u) /\ Asking(u) /\ Returning(u) /\ Switching(u) /\ Refreshing(u, x)
  <2>1. Starting(u)
    BY <1>4, <1>5 DEF Controls, Starting, Same
  <2>2. Exclusive(u)
    BY DEF Controls, Exclusive, Same, Beside
  <2>3. Asking(u) /\ Returning(u)
    BY <1>4 DEF Controls, Asking, Returning, Same
  <2>4. Switching(u) /\ Refreshing(u, x)
    BY <1>4 DEF Controls, Switching, Refreshing, Same, Beside
  <2> QED
    BY <2>1, <2>2, <2>3, <2>4
<1>8. Controls(u, x)
  BY <1>1, <1>6, <1>7 DEF Controls
<1>9. Wanted(u, v)
  <2>1. u.job = s.job /\ u.loading = s.loading
    BY DEF Same
  <2>2. JobFor(v, u.job, u.loading)
    BY <2>1 DEF Wanted
  <2>3. ASSUME NEW c \in Live(u.calls, Observers)
        PROVE  c.job = u.job /\ (c.op = "where" => c.root = u.loading) /\ ~Answered(c)
    <3>1. N = {c}
      BY <1>6
    <3>2. ~Answered(c)
      BY <3>1 DEF Makes, Fresh
    <3> QED
      BY <2>1, <3>1, <3>2
  <2> QED
    BY <1>4, <2>1, <2>2, <2>3, WantedKept
<1>10. Agreeing(u, v, x)
  <2>1. u.source = s.source
    BY DEF Same
  <2> QED
    BY <1>1, <1>4, <1>5, <2>1, AgreeingKept
<1> QED
  BY <1>8, <1>9, <1>10

\* Nothing changes but the list of projects, and calls for it or that no one
\* waits for.
LEMMA QuietKeeps ==
    ASSUME NEW x, NEW v, NEW s, Controls(s, x), Wanted(s, v), Agreeing(s, v, x),
           s.mode # "start",
           NEW C, NEW t, Taken(s, t, C), \A c \in C : ~c.live \/ c.op \in ListOps \cup {"stray"},
           NEW u, u.mode = s.mode, u.loading = s.loading, u.job = s.job,
           u.returning = s.returning, Beside(s, u), u.obs = s.obs, u.timer = s.timer,
           NEW N, Makes(t, u, {}, N), \A d \in N : d.op \in ListOps \cup {"stray"},
           Live(s.calls, ListOps) = {} => \A d \in N : d.op \notin ListOps,
           \/ u.source = s.source
           \/ /\ s.job = 0
              /\ \E c \in Live(s.calls, Looks) : c.reply \in Told /\ u.source = c.reply.source
    PROVE  Controls(u, x) /\ Wanted(u, v) /\ Agreeing(u, v, x)
<1>1. s \in TabState /\ u \in TabState /\ CallsTyped(u)
  <2>1. s \in TabState /\ u \in TabState /\ CallsTyped(s)
    BY DEF Controls, Makes
  <2> QED
    BY <2>1, CallsTypedKept
<1>2. ASSUME NEW ops, ops \cap (ListOps \cup {"stray"}) = {}
      PROVE  Live(u.calls, ops) = Live(s.calls, ops)
  <2>1. \A c \in C : c \notin Live(s.calls, ops)
    BY <1>2 DEF Live
  <2>2. \A d \in N : d.op \notin ops
    BY <1>2
  <2>3. {} \cap ops = {}
    OBVIOUS
  <2> QED
    BY <1>1, <2>1, <2>2, <2>3, LiveSteady
<1>3. /\ Live(u.calls, {"init"}) = Live(s.calls, {"init"})
      /\ Live(u.calls, {"start"}) = Live(s.calls, {"start"})
      /\ Live(u.calls, {"return"}) = Live(s.calls, {"return"})
      /\ Live(u.calls, Observers) = Live(s.calls, Observers)
      /\ Live(u.calls, MutateOps) = Live(s.calls, MutateOps)
      /\ Live(u.calls, RefreshOps) = Live(s.calls, RefreshOps)
  BY <1>2 DEF Observers, MutateOps, ListOps, RefreshOps
<1>4. ASSUME Live(s.calls, ListOps) = {} PROVE Live(u.calls, ListOps) = {}
  <2>1. (\A c \in Live(s.calls, ListOps) : c \in C) /\ (\A d \in N : d.op \notin ListOps)
    BY <1>4
  <2> QED
    BY <1>1, <2>1, LiveGone
<1>5. Starting(u) /\ Exclusive(u) /\ Asking(u) /\ Returning(u)
  <2>1. Starting(u)
    BY <1>3 DEF Controls, Starting
  <2>2. Exclusive(u)
    BY DEF Controls, Exclusive, Beside
  <2>3. Asking(u) /\ Returning(u)
    BY <1>3 DEF Controls, Asking, Returning
  <2> QED
    BY <2>1, <2>2, <2>3
<1>6. Switching(u) /\ Refreshing(u, x)
  BY <1>3, <1>4 DEF Controls, Switching, Refreshing, Beside
<1>7. Observing(u)
  <2>1. CASE s.job = 0
    BY <1>3, <2>1 DEF Controls, Observing
  <2>2. CASE s.job # 0
    <3>1. u.source = s.source
      BY <2>2
    <3>2. ObservationCurrent(u) <=> ObservationCurrent(s)
      BY <3>1 DEF ObservationCurrent
    <3> QED
      BY <1>3, <2>2, <3>2 DEF Controls, Observing
  <2> QED
    BY <2>1, <2>2
<1>8. Controls(u, x)
  BY <1>1, <1>5, <1>6, <1>7 DEF Controls
<1>9. Wanted(u, v)
  <2>1. u.job # 0 => JobFor(v, u.job, u.loading)
    BY DEF Wanted
  <2> QED
    BY <1>3, <2>1, WantedKept
<1>10. Agreeing(u, v, x)
  BY <1>1, <1>3, AgreeingKept
<1> QED
  BY <1>8, <1>9, <1>10

AllOf(C, ops) == \A c \in C : c.op \in ops

\* A project is asked for.
LEMMA SelectKeeps ==
    ASSUME NEW x, NEW v, NEW s, Controls(s, x), Wanted(s, v), Agreeing(s, v, x),
           s.mode # "start", ~Busy(s),
           NEW C, NEW t, Taken(s, t, C), AllOf(C, ListOps),
           NEW root, root # NoRoot, NEW u, Asks(s, t, u, root),
           \/ u.source = s.source
           \/ \E c \in Live(s.calls, Looks) : c.reply \in Told /\ u.source = c.reply.source
    PROVE  Controls(u, x) /\ Wanted(u, v) /\ Agreeing(u, v, x)
<1>0. /\ u.mode = s.mode /\ Beside(s, u) /\ u.loading = root /\ u.job = 0
      /\ ~u.returning /\ u.obs = NoObservation /\ ~u.timer
  BY DEF Asks
<1>20. PICK d : /\ Makes(t, u, Observers \cup Requests, {d})
               /\ d.op = "start" /\ d.root = u.loading
  BY DEF Asks
<1>1. s \in TabState /\ u \in TabState /\ CallsTyped(u)
  <2>1. s \in TabState /\ u \in TabState /\ CallsTyped(s)
    BY <1>20 DEF Controls, Makes
  <2> QED
    BY <1>20, <2>1, CallsTypedKept
<1>2. ASSUME NEW ops, ops \cap (Observers \cup Requests) = {}
      PROVE  Live(u.calls, ops) = Live(s.calls, ops)
  <2>1. \A c \in C : c \notin Live(s.calls, ops)
    BY <1>2 DEF AllOf, Live, ListOps, Requests
  <2>2. \A e \in {d} : e.op \notin ops
    BY <1>2, <1>20 DEF Requests
  <2>3. (Observers \cup Requests) \cap ops = {}
    BY <1>2
  <2> QED
    BY <1>1, <2>1, <2>2, <2>3, <1>20, LiveSteady
<1>3. /\ Live(u.calls, {"init"}) = Live(s.calls, {"init"})
      /\ Live(u.calls, {"return"}) = Live(s.calls, {"return"})
      /\ Live(u.calls, MutateOps) = Live(s.calls, MutateOps)
      /\ Live(u.calls, RefreshOps) = Live(s.calls, RefreshOps)
  BY <1>2 DEF Observers, MutateOps, Requests, RefreshOps
<1>4. Live(u.calls, {"start"}) = {d} /\ One(Live(u.calls, {"start"}))
  <2>1. {"start"} \subseteq Observers \cup Requests
    BY DEF Requests
  <2> QED
    BY <1>1, <1>20, <2>1, LiveNew
<1>5. Live(u.calls, Observers) = {}
  <2>1. Observers \subseteq Observers \cup Requests /\ (\A e \in {d} : e.op \notin Observers)
    BY <1>20 DEF Observers
  <2>2. \A e : e \in Live(u.calls, Observers) =>
                \/ e \in Live(s.calls, Observers) /\ e.op \notin Observers \cup Requests
                \/ e \in {d} /\ e.op \in Observers
    BY <1>1, <1>20, LiveMade
  <2>3. \A e \in Live(s.calls, Observers) : e.op \in Observers
    BY DEF Live
  <2> QED
    BY <2>1, <2>2, <2>3
<1>6. /\ ~s.refresh.on /\ ~s.returning /\ ~s.switching
      /\ Live(s.calls, MutateOps) = {} /\ Live(s.calls, {"return"}) = {}
  BY DEF Busy, Controls, Switching, Returning
<1>7. Starting(u) /\ Exclusive(u) /\ Asking(u)
  BY <1>0, <1>3, <1>4, <1>6 DEF Controls, Starting, Exclusive, Asking, Beside
<1>8. Observing(u) /\ Returning(u) /\ Switching(u) /\ Refreshing(u, x)
  BY <1>0, <1>3, <1>5, <1>6 DEF Controls, Observing, Returning, Switching, Refreshing, Beside
<1>9. Controls(u, x)
  BY <1>1, <1>7, <1>8 DEF Controls
<1>10. Wanted(u, v)
  <2>1. d \in Fresh
    BY <1>20 DEF Makes
  <2> QED
    BY <1>0, <1>3, <1>4, <1>5, <1>20, <2>1, WantedKept DEF Fresh
<1>11. Agreeing(u, v, x)
  BY <1>0, <1>1, <1>3, <1>20, AgreeingKept
<1> QED
  BY <1>9, <1>10, <1>11

\* The tab goes back to the project it has open.
LEMMA ReturnKeeps ==
    ASSUME NEW x, NEW v, NEW s, Controls(s, x), Wanted(s, v), Agreeing(s, v, x),
           s.mode # "start", ~Busy(s),
           NEW u, u = Calling([Bumped(Unobserved(s)) EXCEPT !.returning = TRUE], Call("return"))
    PROVE  /\ Controls(u, x) /\ Wanted(u, v) /\ Agreeing(u, v, x)
           /\ u.mode = s.mode
<1>1. s \in TabState /\ "return" \in Ops
  BY DEF Controls, Ops
<1>2. PICK w \in TabState : /\ w = Unobserved(s) /\ Makes(s, w, Observers, {})
                            /\ Same(s, w) /\ ~w.timer /\ w.obs = NoObservation
  BY <1>1, UnobservedIs DEF Makes
<1>3. PICK b \in TabState : /\ b = Bumped(w) /\ Makes(w, b, Requests, {})
                            /\ Same(w, b) /\ ~b.timer /\ b.obs = NoObservation
  BY <1>2, BumpedIs DEF Makes
<1>4. PICK q : q = [b EXCEPT !.returning = TRUE]
  OBVIOUS
<1>5. /\ q \in TabState /\ q.calls = b.calls /\ ~q.timer /\ q.obs = NoObservation
      /\ q.mode = b.mode /\ q.returning /\ q.loading = b.loading /\ q.job = b.job
      /\ q.source = b.source /\ Beside(b, q)
  BY <1>3, <1>4 DEF TabState, Beside
<1>6. PICK d : d = Call("return")
  OBVIOUS
<1>7. d \in Fresh /\ d.op = "return"
  BY <1>1, <1>6, PlainCall
<1>8. Makes(q, u, {}, {d}) /\ Same(q, u) /\ u.obs = q.obs /\ u.timer = q.timer
  <2>1. u = Calling(q, d)
    BY <1>2, <1>3, <1>4, <1>6
  <2> QED
    BY <1>5, <1>7, <2>1, CallingIs
<1>9. Makes(s, b, Observers \cup Requests, {}) /\ Makes(b, q, {}, {})
  BY <1>1, <1>2, <1>3, <1>5, Chain, Assigns
<1>10. Makes(s, u, Observers \cup Requests \cup {} \cup {}, {d})
  BY <1>1, <1>5, <1>8, <1>9, Chain
<1>11. PICK R : R = Observers \cup Requests /\ Makes(s, u, R, {d})
  BY <1>10
<1>12. /\ u.mode = s.mode /\ u.source = s.source /\ u.loading = s.loading /\ u.job = s.job
       /\ u.returning /\ Beside(s, u) /\ u.obs = NoObservation /\ ~u.timer
  <2>1. Same(s, w) /\ Same(w, b)
    BY <1>2, <1>3
  <2>2. /\ b.mode = s.mode /\ b.source = s.source /\ b.loading = s.loading /\ b.job = s.job
        /\ Beside(s, b)
    BY <2>1 DEF Same, Beside
  <2> QED
    BY <1>5, <1>8, <2>2 DEF Same, Beside
<1>13. Taken(s, s, {})
  BY <1>1 DEF Taken
<1>14. u \in TabState /\ CallsTyped(u)
  BY <1>1, <1>11, <1>13, CallsTypedKept DEF Controls, Makes
<1>15. /\ s.loading = NoRoot /\ s.job = 0 /\ ~s.refresh.on /\ ~s.returning /\ ~s.switching
       /\ Live(s.calls, MutateOps) = {} /\ Live(s.calls, {"return"}) = {}
       /\ Live(s.calls, {"init"}) = {}
  BY DEF Busy, Controls, Switching, Returning, Starting
<1>16. ASSUME NEW ops, ops \cap (Observers \cup Requests) = {}, "return" \notin ops
      PROVE  Live(u.calls, ops) = Live(s.calls, ops)
  <2>1. \A e \in {d} : e.op \notin ops
    BY <1>7, <1>16
  <2>2. R \cap ops = {} /\ (\A c \in {} : c \notin Live(s.calls, ops))
    BY <1>11, <1>16
  <2> QED
    BY <1>1, <1>11, <1>13, <2>1, <2>2, LiveSteady
<1>17. /\ Live(u.calls, {"init"}) = Live(s.calls, {"init"})
       /\ Live(u.calls, MutateOps) = Live(s.calls, MutateOps)
       /\ Live(u.calls, RefreshOps) = Live(s.calls, RefreshOps)
  BY <1>16 DEF Observers, MutateOps, Requests, RefreshOps
<1>18. Live(u.calls, {"start"}) = {}
  <2>1. {"start"} \subseteq R /\ (\A e \in {d} : e.op \notin {"start"})
    BY <1>7, <1>11 DEF Requests
  <2> QED
    BY <1>1, <1>11, <1>13, <2>1, LiveGone
<1>19. Live(u.calls, Observers) = {}
  <2>1. Observers \subseteq R /\ (\A e \in {d} : e.op \notin Observers)
    BY <1>7, <1>11 DEF Observers
  <2>2. \A e : e \in Live(u.calls, Observers) =>
                \/ e \in Live(s.calls, Observers) /\ e.op \notin R
                \/ e \in {d} /\ e.op \in Observers
    BY <1>1, <1>11, <1>13, LiveMade
  <2>3. \A e \in Live(s.calls, Observers) : e.op \in Observers
    BY DEF Live
  <2> QED
    BY <2>1, <2>2, <2>3
<1>20. One(Live(u.calls, {"return"}))
  <2>1. {"return"} \subseteq R \/ Live(s.calls, {"return"}) \subseteq {}
    BY <1>15
  <2> QED
    BY <1>1, <1>7, <1>11, <1>13, <2>1, LiveNew
<1>21. Starting(u) /\ Exclusive(u) /\ Asking(u)
  BY <1>12, <1>15, <1>17, <1>18 DEF Starting, Exclusive, Asking, Beside
<1>22. Observing(u) /\ Returning(u) /\ Switching(u) /\ Refreshing(u, x)
  BY <1>12, <1>15, <1>17, <1>19, <1>20
     DEF Controls, Observing, Returning, Switching, Refreshing, Beside
<1>23. Wanted(u, v)
  BY <1>12, <1>15, <1>17, <1>18, <1>19, WantedKept
<1>24. Agreeing(u, v, x)
  BY <1>1, <1>11, <1>12, <1>13, <1>17, AgreeingKept
<1> QED
  BY <1>12, <1>14, <1>21, <1>22, <1>23, <1>24 DEF Controls

\* The source changes: the tab asks for it.
LEMMA MutatingKeeps ==
    ASSUME NEW x, NEW v, NEW s, Controls(s, x), Wanted(s, v), Agreeing(s, v, x),
           s.mode # "start", ~Busy(s),
           NEW b \in TabState, Same(s, b), b.obs = NoObservation, b.timer = s.timer,
           NEW R, R \subseteq Requests, Makes(s, b, R, {}),
           NEW source \in Source, NEW by \in Thens, by # "home" => ListOps \subseteq R,
           NEW u, u = Mutating(b, source, by)
    PROVE  /\ Controls(u, x) /\ Wanted(u, v) /\ Agreeing(u, v, x)
           /\ u.mode = s.mode
<1>1. s \in TabState /\ Taken(s, s, {})
  BY DEF Controls, Taken
<1>2. PICK q : q = [b EXCEPT !.switching = TRUE, !.drawn = b.projects]
  OBVIOUS
<1>3. /\ q \in TabState /\ q.calls = b.calls /\ q.timer = b.timer /\ q.obs = NoObservation
      /\ q.mode = b.mode /\ q.returning = b.returning /\ q.loading = b.loading
      /\ q.job = b.job /\ q.source = b.source /\ q.switching /\ q.refresh = b.refresh
  <2>1. PICK P \in SUBSET Root : P = b.projects
    BY DEF TabState
  <2>2. q = [b EXCEPT !.switching = TRUE, !.drawn = P]
    BY <1>2, <2>1
  <2> QED
    BY <2>2 DEF TabState
<1>4. PICK d : d = WithSource("mutate", source, by)
  OBVIOUS
<1>5. d \in Fresh /\ d.op = "mutate" /\ d.then = by /\ d.source \in Source
  <2>1. "mutate" \in Ops /\ source \in Sources
    BY DEF Ops, Sources
  <2> QED
    BY <1>4, <2>1, SourceCall
<1>6. Makes(q, u, {}, {d}) /\ Same(q, u) /\ u.obs = q.obs /\ u.timer = q.timer
  <2>1. u = Calling(q, d)
    BY <1>2, <1>4 DEF Mutating, WithSource
  <2> QED
    BY <1>3, <1>5, <2>1, CallingIs
<1>7. Makes(s, u, R, {d})
  <2>1. Makes(b, q, {}, {})
    BY <1>3, Assigns
  <2>2. Makes(s, q, R \cup {}, {})
    BY <1>1, <2>1, Chain
  <2>3. Makes(s, u, R \cup {} \cup {}, {d})
    BY <1>1, <1>6, <2>2, Chain
  <2>4. R \cup {} \cup {} = R
    OBVIOUS
  <2> QED
    BY <2>3, <2>4
<1>8. /\ u.mode = s.mode /\ u.source = s.source /\ u.loading = s.loading /\ u.job = s.job
      /\ u.returning = s.returning /\ u.switching /\ u.refresh = s.refresh
      /\ u.obs = NoObservation /\ u.timer = s.timer
  <2>1. /\ b.mode = s.mode /\ b.source = s.source /\ b.loading = s.loading /\ b.job = s.job
        /\ b.returning = s.returning /\ b.refresh = s.refresh
    BY DEF Same, Beside
  <2> QED
    BY <1>3, <1>6, <2>1 DEF Same, Beside
<1>9. u \in TabState /\ CallsTyped(u)
  <2>1. u \in TabState /\ CallsTyped(s)
    BY <1>7 DEF Controls, Makes
  <2> QED
    BY <1>1, <1>7, <2>1, CallsTypedKept
<1>10. /\ s.loading = NoRoot /\ s.job = 0 /\ ~s.refresh.on /\ ~s.returning /\ ~s.switching
       /\ Live(s.calls, MutateOps) = {} /\ Live(s.calls, {"start"}) = {}
       /\ Live(s.calls, Observers) = {} /\ Live(s.calls, {"init"}) = {} /\ ~s.timer
  <2>1. s.loading = NoRoot /\ s.job = 0 /\ ~s.refresh.on /\ ~s.returning /\ ~s.switching
    BY DEF Busy
  <2>2. Live(s.calls, MutateOps) = {} /\ Live(s.calls, {"start"}) = {}
    BY <2>1 DEF Controls, Switching, Asking
  <2>3. Live(s.calls, Observers) = {} /\ Live(s.calls, {"init"}) = {} /\ ~s.timer
    BY <2>1 DEF Controls, Observing, Starting
  <2> QED
    BY <2>1, <2>2, <2>3
<1>11. ASSUME NEW ops, "mutate" \notin ops, ops \cap Requests = {} \/ Live(s.calls, ops) = {}
       PROVE  Live(u.calls, ops) = Live(s.calls, ops)
  <2>1. \A e \in {d} : e.op \notin ops
    BY <1>5, <1>11
  <2>2. R \cap ops = {} \/ Live(s.calls, ops) = {}
    BY <1>11
  <2>3. \A c \in {} : c \notin Live(s.calls, ops)
    OBVIOUS
  <2> QED
    BY <1>1, <1>7, <2>1, <2>2, <2>3, LiveSteady
<1>12. /\ Live(u.calls, {"init"}) = {} /\ Live(u.calls, {"start"}) = {}
       /\ Live(u.calls, Observers) = {}
       /\ Live(u.calls, {"return"}) = Live(s.calls, {"return"})
       /\ Live(u.calls, RefreshOps) = Live(s.calls, RefreshOps)
  <2>1. Live(u.calls, {"init"}) = {} /\ Live(u.calls, {"start"}) = {}
    BY <1>10, <1>11
  <2>2. Live(u.calls, Observers) = {}
    BY <1>10, <1>11 DEF Observers
  <2>3. Live(u.calls, {"return"}) = Live(s.calls, {"return"})
    BY <1>11 DEF Requests
  <2>4. Live(u.calls, RefreshOps) = Live(s.calls, RefreshOps)
    BY <1>11 DEF RefreshOps, Requests
  <2> QED
    BY <2>1, <2>2, <2>3, <2>4
<1>13. Live(u.calls, MutateOps) = {d} /\ One(Live(u.calls, MutateOps))
  <2>1. MutateOps \subseteq R \/ Live(s.calls, MutateOps) \subseteq {}
    BY <1>10
  <2>2. d.op \in MutateOps
    BY <1>5 DEF MutateOps
  <2> QED
    BY <1>1, <1>7, <2>1, <2>2, LiveNew
<1>14. ASSUME by # "home" PROVE Live(u.calls, ListOps) = {}
  <2>1. ListOps \subseteq R /\ d.op \notin ListOps
    BY <1>5, <1>14 DEF ListOps
  <2>2. \A e : e \in Live(u.calls, ListOps) =>
                \/ e \in Live(s.calls, ListOps) /\ e.op \notin R
                \/ e \in {d} /\ e.op \in ListOps
    BY <1>1, <1>7, LiveMade
  <2>3. \A e \in Live(s.calls, ListOps) : e.op \in ListOps
    BY DEF Live
  <2> QED
    BY <2>1, <2>2, <2>3
<1>15. Switching(u)
  BY <1>5, <1>8, <1>13, <1>14 DEF Switching
<1>16. Starting(u) /\ Exclusive(u) /\ Asking(u) /\ Observing(u)
  <2>1. Starting(u)
    BY <1>8, <1>12 DEF Starting
  <2>2. Exclusive(u)
    BY <1>8, <1>10 DEF Exclusive
  <2>3. Asking(u) /\ Observing(u)
    BY <1>8, <1>10, <1>12 DEF Asking, Observing
  <2> QED
    BY <2>1, <2>2, <2>3
<1>17. Returning(u) /\ Refreshing(u, x)
  BY <1>8, <1>12 DEF Controls, Returning, Refreshing
<1>18. Wanted(u, v)
  BY <1>8, <1>10, <1>12, WantedKept
<1>19. Agreeing(u, v, x)
  <2>1. CASE "source" \in x
    BY <2>1 DEF Agreeing
  <2>2. CASE "source" \notin x
    <3>1. /\ s.source = v.source
          /\ \A c \in Live(s.calls, Looks) : c.reply \in Told => c.reply.source = v.source
      BY <1>10, <2>2 DEF Agreeing, Moved
    <3>2. \A c \in Live(u.calls, Looks) : c \in Live(s.calls, Looks) \/ c = d
      BY <1>1, <1>7, LiveMade
    <3>3. d.reply \notin Told /\ ~Answered(d)
      BY <1>5 DEF Fresh, Answered, Unanswered, Told
    <3>4. \A m \in Live(u.calls, MutateOps) : ~Answered(m)
      BY <1>13, <3>3
    <3>5. \A c \in Live(u.calls, Looks) : c.reply \in Told => c.reply.source = v.source
      BY <3>1, <3>2, <3>3
    <3> QED
      BY <1>8, <3>1, <3>4, <3>5 DEF Agreeing
  <2> QED
    BY <2>1, <2>2
<1> QED
  BY <1>8, <1>9, <1>15, <1>16, <1>17, <1>18, <1>19 DEF Controls

\* The tab's controls are free again after a change of the source.
Frees(s, u) ==
  /\ u.mode = s.mode /\ u.loading = s.loading /\ u.job = s.job /\ u.returning = s.returning
  /\ ~u.switching /\ u.refresh = s.refresh /\ u.obs = s.obs /\ u.timer = s.timer

LEMMA SwitchedKeeps ==
    ASSUME NEW x, NEW x2, x2 \in {x, x \cup {"source"}},
           NEW v, NEW s, Controls(s, x), Wanted(s, v), Agreeing(s, v, x),
           NEW c \in Live(s.calls, MutateOps), NEW t, Taken(s, t, {c}),
           NEW u, Frees(s, u), NEW R, R \subseteq Requests, NEW N, Makes(t, u, R, N),
           N = {} \/ (Requests \subseteq R /\ N = {Listing(NoRoot)}),
           \/ "source" \in x2
           \/ u.source = v.source /\ (N = {} => c.then # "home")
           \/ ~Moved(s, v) /\ (u.source = s.source \/ u.source = v.source)
    PROVE  Controls(u, x2) /\ Wanted(u, v) /\ Agreeing(u, v, x2)
<1>1. s \in TabState /\ c.op \in MutateOps /\ c \in s.calls /\ c.live
  BY DEF Controls, Live
<1>2. u \in TabState /\ CallsTyped(u)
  <2>1. u \in TabState /\ CallsTyped(s)
    BY DEF Controls, Makes
  <2> QED
    BY <1>1, <2>1, CallsTypedKept
<1>3. /\ s.switching /\ Live(s.calls, MutateOps) = {c}
      /\ c.then # "home" => Live(s.calls, ListOps) = {}
  BY DEF Controls, Switching, One
<1>4. /\ s.loading = NoRoot /\ s.job = 0 /\ ~s.refresh.on /\ ~s.returning /\ s.mode # "start"
  BY <1>3 DEF Controls, Exclusive, Starting
<1>5. /\ Live(s.calls, {"start"}) = {} /\ Live(s.calls, {"init"}) = {}
      /\ Live(s.calls, Observers) = {} /\ ~s.timer /\ s.obs = NoObservation
      /\ Live(s.calls, {"return"}) = {} /\ Live(s.calls, RefreshOps) = {} /\ ~s.refresh.timer
  <2>1. Live(s.calls, {"start"}) = {} /\ Live(s.calls, {"init"}) = {}
    BY <1>4 DEF Controls, Asking, Starting
  <2>2. Live(s.calls, Observers) = {} /\ ~s.timer /\ s.obs = NoObservation
    BY <1>4 DEF Controls, Observing
  <2>3. Live(s.calls, {"return"}) = {} /\ Live(s.calls, RefreshOps) = {} /\ ~s.refresh.timer
    BY <1>4 DEF Controls, Returning, Refreshing
  <2> QED
    BY <2>1, <2>2, <2>3
<1>6. \A d \in N : d.op = "summary" /\ d \in Fresh
  <2>1. NoRoot \in Roots
    BY DEF Roots
  <2> QED
    BY <2>1, ListingIs
<1>7. ASSUME NEW ops, "summary" \notin ops, Live(s.calls, ops) \subseteq {c}
      PROVE  Live(u.calls, ops) = {}
  <2>1. \A d \in N : d.op \notin ops
    BY <1>6, <1>7
  <2>2. \A e : e \in Live(u.calls, ops) =>
                \/ e \in Live(s.calls, ops) /\ e \notin {c}
                \/ e \in N /\ e.op \in ops
    BY <1>1, LiveMade
  <2> QED
    BY <1>7, <2>1, <2>2
<1>8. /\ Live(u.calls, {"start"}) = {} /\ Live(u.calls, {"init"}) = {}
      /\ Live(u.calls, {"return"}) = {} /\ Live(u.calls, MutateOps) = {}
      /\ Live(u.calls, Observers) = {} /\ Live(u.calls, RefreshOps) = {}
  <2>1. /\ Live(u.calls, {"start"}) = {} /\ Live(u.calls, {"init"}) = {}
        /\ Live(u.calls, {"return"}) = {}
    BY <1>5, <1>7
  <2>2. Live(u.calls, MutateOps) = {}
    BY <1>3, <1>7 DEF MutateOps
  <2>3. Live(u.calls, Observers) = {} /\ Live(u.calls, RefreshOps) = {}
    BY <1>5, <1>7 DEF Observers, RefreshOps
  <2> QED
    BY <2>1, <2>2, <2>3
<1>9. Controls(u, x2)
  <2>1. Starting(u) /\ Exclusive(u) /\ Asking(u) /\ Observing(u)
    BY <1>4, <1>5, <1>8 DEF Frees, Starting, Exclusive, Asking, Observing
  <2>2. Returning(u) /\ Switching(u)
    BY <1>4, <1>5, <1>8 DEF Frees, Returning, Switching
  <2>3. "refresh" \notin x2
    BY <1>4 DEF Controls, Refreshing
  <2>4. Refreshing(u, x2)
    BY <1>4, <1>5, <1>8, <2>3 DEF Frees, Refreshing
  <2> QED
    BY <1>2, <2>1, <2>2, <2>4 DEF Controls
<1>10. Wanted(u, v)
  BY <1>4, <1>8, WantedKept DEF Frees
<1>11. Agreeing(u, v, x2)
  <2>1. CASE "source" \in x2
    BY <2>1 DEF Agreeing
  <2>2. CASE "source" \notin x2
    <3>1. \A e \in Live(u.calls, Looks) :
            (e \in Live(s.calls, Looks) /\ e.op \notin R) \/ e \in N
      BY <1>1, LiveMade
    <3>2. \A e \in N : e.reply \notin Told
      BY <1>6 DEF Fresh, Answered, Unanswered, Told
    <3>3. ASSUME u.source = v.source, N = {} => c.then # "home",
                 NEW e \in Live(u.calls, Looks), e \notin N
          PROVE  FALSE
      <4>1. e \in Live(s.calls, Looks) /\ e.op \notin R
        BY <3>1, <3>3
      <4>2. e \in Live(s.calls, ListOps)
        <5>1. /\ e \notin Live(s.calls, Observers) /\ e \notin Live(s.calls, {"init"})
              /\ e \notin Live(s.calls, {"return"}) /\ e \notin Live(s.calls, RefreshOps)
          BY <1>5
        <5> QED
          BY <4>1, <5>1 DEF Live, Looks, RefreshOps
      <4>3. N # {} => ListOps \subseteq R
        BY DEF ListOps, Requests
      <4> QED
        BY <1>3, <3>3, <4>1, <4>2, <4>3 DEF Live
    <3>4. ASSUME ~Moved(s, v)
          PROVE  /\ s.source = v.source
                 /\ \A e \in Live(s.calls, Looks) : e.reply \in Told => e.reply.source = v.source
      BY <1>4, <2>2, <3>4 DEF Agreeing
    <3>5. /\ u.source = v.source
          /\ \A e \in Live(u.calls, Looks) : e.reply \in Told => e.reply.source = v.source
      <4>1. CASE u.source = v.source /\ (N = {} => c.then # "home")
        BY <3>2, <3>3, <4>1
      <4>2. CASE ~Moved(s, v) /\ (u.source = s.source \/ u.source = v.source)
        BY <3>1, <3>2, <3>4, <4>2
      <4> QED
        BY <2>2, <4>1, <4>2
    <3> QED
      BY <1>8, <3>5 DEF Agreeing
  <2> QED
    BY <2>1, <2>2
<1> QED
  BY <1>9, <1>10, <1>11

\* The answer to a change is lost: the tab asks what the source is now.
LEMMA ReconcilingKeeps ==
    ASSUME NEW x, NEW v, NEW s, Controls(s, x), Wanted(s, v), Agreeing(s, v, x),
           NEW c \in Live(s.calls, MutateOps), c.op = "mutate", NEW t, Taken(s, t, {c}),
           Same(s, t), t.obs = s.obs, t.timer = s.timer,
           NEW u, u = MutateFailed(t, c)
    PROVE  /\ Controls(u, x) /\ Wanted(u, v) /\ Agreeing(u, v, x)
           /\ u.mode = s.mode
<1>1. s \in TabState /\ c \in s.calls /\ c.live /\ t \in TabState /\ c \in CallRecord
  BY DEF Controls, Live, Taken, TabState
<1>2. PICK d : d = [c EXCEPT !.op = "reconcile", !.reply = Unanswered]
  OBVIOUS
<1>3. d \in Fresh /\ d.op = "reconcile" /\ d.then = c.then /\ d.source = c.source
  <2>1. "reconcile" \in Ops /\ Unanswered \in Replies
    BY DEF Ops, Replies, Bare, Unanswered
  <2>2. d \in CallRecord /\ d.live = c.live /\ d.reply = Unanswered
    BY <1>1, <1>2, <2>1 DEF CallRecord
  <2>3. d.op = "reconcile" /\ d.then = c.then /\ d.source = c.source
    BY <1>1, <1>2 DEF CallRecord
  <2>4. d.live = TRUE
    BY <1>1, <2>2
  <2> QED
    BY <2>1, <2>2, <2>3, <2>4 DEF Fresh, Answered
<1>4. Makes(t, u, {}, {d}) /\ Same(t, u) /\ u.obs = t.obs /\ u.timer = t.timer
  <2>1. u = Calling(t, d)
    BY <1>2 DEF MutateFailed
  <2> QED
    BY <1>1, <1>3, <2>1, CallingIs
<1>5. /\ u.mode = s.mode /\ u.source = s.source /\ u.loading = s.loading /\ u.job = s.job
      /\ u.returning = s.returning /\ u.switching = s.switching /\ u.refresh = s.refresh
      /\ u.obs = s.obs /\ u.timer = s.timer
  BY <1>4 DEF Same, Beside
<1>6. u \in TabState /\ CallsTyped(u)
  <2>1. u \in TabState /\ CallsTyped(s)
    BY <1>4 DEF Controls, Makes
  <2> QED
    BY <1>1, <1>4, <2>1, CallsTypedKept
<1>7. /\ s.switching /\ Live(s.calls, MutateOps) = {c} /\ s.mode # "start"
      /\ c.then # "home" => Live(s.calls, ListOps) = {}
  BY DEF Controls, Switching, One, Starting
<1>8. ASSUME NEW ops, ops \cap MutateOps = {}
      PROVE  Live(u.calls, ops) = Live(s.calls, ops)
  <2>1. \A e \in {d} : e.op \notin ops
    BY <1>3, <1>8 DEF MutateOps
  <2>2. \A e \in {c} : e \notin Live(s.calls, ops)
    BY <1>8 DEF Live, MutateOps
  <2>3. {} \cap ops = {}
    OBVIOUS
  <2> QED
    BY <1>1, <1>4, <2>1, <2>2, <2>3, LiveSteady
<1>9. /\ Live(u.calls, {"init"}) = Live(s.calls, {"init"})
      /\ Live(u.calls, {"start"}) = Live(s.calls, {"start"})
      /\ Live(u.calls, {"return"}) = Live(s.calls, {"return"})
      /\ Live(u.calls, ListOps) = Live(s.calls, ListOps)
      /\ Live(u.calls, Observers) = Live(s.calls, Observers)
      /\ Live(u.calls, RefreshOps) = Live(s.calls, RefreshOps)
      /\ Live(u.calls, Looks) = Live(s.calls, Looks)
  BY <1>8 DEF Observers, MutateOps, ListOps, RefreshOps, Looks
<1>10. Live(u.calls, MutateOps) = {d} /\ One(Live(u.calls, MutateOps))
  <2>1. MutateOps \subseteq {} \/ Live(s.calls, MutateOps) \subseteq {c}
    BY <1>7
  <2>2. d.op \in MutateOps
    BY <1>3 DEF MutateOps
  <2> QED
    BY <1>1, <1>4, <2>1, <2>2, LiveNew
<1>11. Starting(u) /\ Exclusive(u) /\ Asking(u) /\ Observing(u)
  <2>1. Starting(u) /\ Exclusive(u) /\ Asking(u)
    BY <1>5, <1>7, <1>9 DEF Controls, Starting, Exclusive, Asking
  <2>2. s.job = 0
    BY <1>7 DEF Controls, Exclusive
  <2>3. Observing(u)
    BY <1>5, <1>9, <2>2 DEF Controls, Observing
  <2> QED
    BY <2>1, <2>3
<1>12. Returning(u) /\ Switching(u) /\ Refreshing(u, x)
  BY <1>3, <1>5, <1>7, <1>9, <1>10 DEF Controls, Returning, Switching, Refreshing
<1>13. Wanted(u, v)
  <2>1. u.job # 0 => JobFor(v, u.job, u.loading)
    BY <1>5 DEF Wanted
  <2> QED
    BY <1>5, <1>9, <2>1, WantedKept
<1>14. Agreeing(u, v, x)
  <2>1. CASE "source" \in x
    BY <2>1 DEF Agreeing
  <2>2. CASE "source" \notin x
    <3>1. ~Answered(d)
      BY <1>3 DEF Fresh
    <3>2. Moved(s, v) => Moved(u, v)
      BY <1>3, <1>7, <1>10 DEF Moved
    <3> QED
      BY <1>5, <1>9, <1>10, <2>2, <3>1, <3>2 DEF Agreeing
  <2> QED
    BY <2>1, <2>2
<1> QED
  BY <1>5, <1>6, <1>11, <1>12, <1>13, <1>14 DEF Controls

\* The end of a change of the source
LEMMA MutationFailedIs ==
    ASSUME NEW s \in TabState, s.obs = NoObservation, NEW c, NEW u, u = MutationFailed(s, c)
    PROVE  /\ Frees(s, u) /\ u.source = s.source
           /\ \/ Makes(s, u, {}, {})
              \/ Makes(s, u, Requests, {Listing(NoRoot)})
<1>1. PICK f : f = [s EXCEPT !.switching = FALSE, !.drawn = s.projects]
  OBVIOUS
<1>2. /\ f \in TabState /\ f.calls = s.calls /\ f.obs = NoObservation
      /\ f.source = s.source /\ Frees(s, f)
  <2>1. PICK P \in SUBSET Root : P = s.projects
    BY DEF TabState
  <2>2. f = [s EXCEPT !.switching = FALSE, !.drawn = P]
    BY <1>1, <2>1
  <2> QED
    BY <2>2 DEF TabState, Frees
<1>3. Makes(s, f, {}, {})
  BY <1>2, Assigns
<1>4. CASE c.then # "switch"
  <2>1. u = f
    BY <1>1, <1>4 DEF MutationFailed
  <2> QED
    BY <1>2, <1>3, <2>1
<1>5. CASE c.then = "switch"
  <2>1. u = ListRefreshed(f, NoRoot) /\ NoRoot \in Roots
    BY <1>1, <1>5 DEF MutationFailed, Roots
  <2>2. /\ Makes(f, u, Requests, {Listing(NoRoot)}) /\ Same(f, u)
        /\ u.obs = NoObservation /\ u.timer = f.timer
    BY <1>2, <2>1, ListRefreshedIs
  <2>3. Makes(s, u, {} \cup Requests, {Listing(NoRoot)})
    BY <1>3, <2>2, Chain
  <2>4. {} \cup Requests = Requests
    OBVIOUS
  <2>5. Makes(s, u, Requests, {Listing(NoRoot)})
    BY <2>3, <2>4
  <2>6. Frees(s, u) /\ u.source = s.source
    BY <1>2, <2>2 DEF Frees, Same, Beside
  <2> QED
    BY <2>5, <2>6
<1> QED
  BY <1>4, <1>5

LEMMA MutationDoneIs ==
    ASSUME NEW s \in TabState, s.obs = NoObservation, NEW c, NEW selected \in BOOLEAN,
           NEW u, u = MutationDone(s, c, selected)
    PROVE  /\ Frees(s, u) /\ u.source = s.source
           /\ \/ Makes(s, u, {}, {}) /\ c.then # "home"
              \/ Makes(s, u, Requests, {Listing(NoRoot)})
<1>1. PICK f, l : /\ f = [s EXCEPT !.switching = FALSE, !.drawn = s.projects]
                  /\ l = [f EXCEPT !.root = NoRoot, !.projects = {}, !.drawn = {}]
  OBVIOUS
<1>2. /\ f \in TabState /\ f.calls = s.calls /\ f.obs = NoObservation
      /\ f.source = s.source /\ Frees(s, f)
  <2>1. PICK P \in SUBSET Root : P = s.projects
    BY DEF TabState
  <2>2. f = [s EXCEPT !.switching = FALSE, !.drawn = P]
    BY <1>1, <2>1
  <2> QED
    BY <2>2 DEF TabState, Frees
<1>3. /\ l \in TabState /\ l.calls = s.calls /\ l.obs = NoObservation
      /\ l.source = s.source /\ Frees(s, l)
  <2>1. NoRoot \in Roots
    BY DEF Roots
  <2>2. l \in TabState /\ l.calls = f.calls /\ l.obs = f.obs /\ l.source = f.source
    BY <1>1, <1>2, <2>1 DEF TabState
  <2>3. /\ l.mode = f.mode /\ l.loading = f.loading /\ l.job = f.job
        /\ l.returning = f.returning /\ l.switching = f.switching /\ l.refresh = f.refresh
        /\ l.timer = f.timer
    BY <1>1, <1>2 DEF TabState
  <2> QED
    BY <1>2, <2>2, <2>3 DEF Frees
<1>4. ASSUME NEW g \in {f, l}, u = ListRefreshed(g, NoRoot)
      PROVE  /\ Frees(s, u) /\ u.source = s.source
             /\ Makes(s, u, Requests, {Listing(NoRoot)})
  <2>1. /\ g \in TabState /\ g.calls = s.calls /\ g.obs = NoObservation
        /\ g.source = s.source /\ Frees(s, g) /\ NoRoot \in Roots
    BY <1>2, <1>3 DEF Roots
  <2>2. /\ Makes(g, u, Requests, {Listing(NoRoot)}) /\ Same(g, u)
        /\ u.obs = NoObservation /\ u.timer = g.timer
    BY <1>4, <2>1, ListRefreshedIs
  <2>3. Makes(s, g, {}, {})
    BY <2>1, Assigns
  <2>4. Makes(s, u, {} \cup Requests, {Listing(NoRoot)})
    BY <2>2, <2>3, Chain
  <2>5. {} \cup Requests = Requests
    OBVIOUS
  <2>6. Makes(s, u, Requests, {Listing(NoRoot)})
    BY <2>4, <2>5
  <2>7. Frees(s, u) /\ u.source = s.source
    BY <2>1, <2>2 DEF Frees, Same, Beside
  <2> QED
    BY <2>6, <2>7
<1>5. CASE ~selected
  <2>1. u = ListRefreshed(l, NoRoot)
    BY <1>1, <1>5 DEF MutationDone
  <2> QED
    BY <1>4, <2>1
<1>6. CASE selected /\ c.then = "home"
  <2>1. u = ListRefreshed(f, NoRoot)
    BY <1>1, <1>6 DEF MutationDone
  <2> QED
    BY <1>4, <2>1
<1>7. CASE selected /\ c.then # "home"
  <2>1. u = f
    BY <1>1, <1>7 DEF MutationDone
  <2> QED
    BY <1>2, <1>7, <2>1, Assigns
<1> QED
  BY <1>5, <1>6, <1>7

\* A refresh is under way, by its timer or a call, or it is over.
Around(s, u) ==
  /\ u.mode = s.mode /\ u.loading = s.loading /\ u.job = s.job /\ u.returning = s.returning
  /\ u.switching = s.switching /\ u.obs = s.obs /\ u.timer = s.timer

Refreshes(s, u) ==
  /\ Around(s, u)
  /\ \/ Makes(s, u, {}, {}) /\ u.refresh.on = u.refresh.timer
     \/ /\ u.refresh.on /\ ~u.refresh.timer
        /\ \E d : Makes(s, u, {}, {d}) /\ d.op \in RefreshOps

LEMMA WithRefresh ==
    ASSUME NEW s \in TabState, NEW r \in RefreshState, NEW u, u = [s EXCEPT !.refresh = r]
    PROVE  /\ u \in TabState /\ Around(s, u) /\ u.source = s.source /\ u.root = s.root
           /\ u.refresh = r /\ u.calls = s.calls
BY DEF TabState, Around

LEMMA RefreshFailedIs ==
    ASSUME NEW s \in TabState, s.refresh.on, NEW retryable \in BOOLEAN,
           NEW u, u = RefreshFailed(s, retryable)
    PROVE  Refreshes(s, u) /\ u.source = s.source
<1>1. s.refresh \in RefreshState
  BY DEF TabState
<1>2. NoRefresh \in RefreshState /\ NoRefresh.on = FALSE /\ NoRefresh.timer = FALSE
  BY DEF NoRefresh, RefreshState
<1>3. PICK r \in RefreshState :
        r = [s.refresh EXCEPT !.retries = @ + 1, !.timer = TRUE] /\ r.on /\ r.timer
  <2>1. s.refresh.retries \in Nat /\ s.refresh.retries + 1 \in Nat
    BY <1>1 DEF RefreshState
  <2>2. PICK n \in Nat : n = s.refresh.retries + 1
    BY <2>1
  <2>3. [s.refresh EXCEPT !.retries = n, !.timer = TRUE] \in RefreshState
    BY <1>1 DEF RefreshState
  <2>4. ASSUME NEW q, q = [s.refresh EXCEPT !.retries = n, !.timer = TRUE]
        PROVE  q.on /\ q.timer
    BY <1>1, <2>4 DEF RefreshState
  <2> QED
    BY <2>2, <2>3, <2>4
<1>4. CASE retryable /\ s.refresh.job # 0 /\ s.refresh.retries < Retries
  <2>1. u = [s EXCEPT !.refresh = r]
    <3>1. u = [s EXCEPT !.refresh.retries = @ + 1, !.refresh.timer = TRUE]
      BY <1>4 DEF RefreshFailed
    <3> QED
      BY <1>3, <3>1 DEF TabState
  <2>2. u \in TabState /\ Around(s, u) /\ u.source = s.source /\ u.refresh = r /\ u.calls = s.calls
    BY <2>1, WithRefresh
  <2>3. Makes(s, u, {}, {})
    BY <2>2, Assigns
  <2> QED
    BY <1>3, <2>2, <2>3 DEF Refreshes
<1>5. CASE ~(retryable /\ s.refresh.job # 0 /\ s.refresh.retries < Retries)
  <2>1. PICK r0 \in RefreshState : r0 = NoRefresh
    BY <1>2
  <2>2. u = [s EXCEPT !.refresh = r0]
    BY <1>5, <2>1 DEF RefreshFailed
  <2>3. u \in TabState /\ Around(s, u) /\ u.source = s.source /\ u.refresh = r0 /\ u.calls = s.calls
    BY <2>2, WithRefresh
  <2>4. Makes(s, u, {}, {})
    BY <2>3, Assigns
  <2> QED
    BY <1>2, <2>1, <2>3, <2>4 DEF Refreshes
<1> QED
  BY <1>4, <1>5

\* The refresh is made by the call d.
LEMMA RefreshCalls ==
    ASSUME NEW s \in TabState, s.refresh.on, ~s.refresh.timer,
           NEW d \in Fresh, d.op \in RefreshOps, NEW u, u = Calling(s, d)
    PROVE  Refreshes(s, u) /\ u.source = s.source
<1>1. Makes(s, u, {}, {d}) /\ Same(s, u) /\ u.obs = s.obs /\ u.timer = s.timer
  BY CallingIs
<1>2. u.refresh = s.refresh /\ u.source = s.source /\ Around(s, u)
  BY <1>1 DEF Same, Beside, Around
<1> QED
  BY <1>1, <1>2 DEF Refreshes

\* ... after other fields than the calls were set.
LEMMA RefreshesAfter ==
    ASSUME NEW s \in TabState, NEW q \in TabState, q.calls = s.calls, Around(s, q),
           NEW u, Refreshes(q, u)
    PROVE  Refreshes(s, u)
<1>1. Makes(s, q, {}, {})
  BY Assigns
<1>2. Around(s, u)
  BY DEF Refreshes, Around
<1>3. ASSUME NEW N, Makes(q, u, {}, N) PROVE Makes(s, u, {}, N)
  <2>1. Makes(s, u, {} \cup {}, N)
    BY <1>1, <1>3, Chain
  <2>2. {} \cup {} = {}
    OBVIOUS
  <2> QED
    BY <2>1, <2>2
<1> QED
  BY <1>2, <1>3 DEF Refreshes

LEMMA RefreshPolledIs ==
    ASSUME NEW s \in TabState, s.refresh.on, NEW u, u = RefreshPolled(s)
    PROVE  Refreshes(s, u) /\ u.source = s.source
<1>1. s.refresh \in RefreshState
  BY DEF TabState
<1>2. PICK r \in RefreshState :
        r = [s.refresh EXCEPT !.timer = FALSE] /\ r.on /\ ~r.timer
  <2>1. [s.refresh EXCEPT !.timer = FALSE] \in RefreshState
    BY <1>1 DEF RefreshState
  <2>2. ASSUME NEW r, r = [s.refresh EXCEPT !.timer = FALSE]
        PROVE  r.on /\ ~r.timer
    BY <1>1, <2>2 DEF RefreshState
  <2> QED
    BY <2>1, <2>2
<1>3. PICK q : q = [s EXCEPT !.refresh = r]
  OBVIOUS
<1>4. /\ q \in TabState /\ Around(s, q) /\ q.source = s.source
      /\ q.refresh = r /\ q.calls = s.calls
  BY <1>3, WithRefresh
<1>5. PICK d : d = WithJob("refreshPoll", s.refresh.job, "none")
  OBVIOUS
<1>6. d \in Fresh /\ d.op \in RefreshOps
  <2>1. s.refresh.job \in Nat /\ "refreshPoll" \in Ops /\ "none" \in Thens
    BY <1>1 DEF RefreshState, Ops, Thens
  <2>2. d \in Fresh /\ d.op = "refreshPoll"
    BY <1>5, <2>1, JobCall
  <2> QED
    BY <2>2 DEF RefreshOps
<1>7. u = Calling(q, d)
  <2>1. d = [Call("refreshPoll") EXCEPT !.job = s.refresh.job]
    <3>1. PICK j : j = s.refresh.job
      OBVIOUS
    <3>2. [Call("refreshPoll") EXCEPT !.job = j, !.then = "none"]
            = [Call("refreshPoll") EXCEPT !.job = j]
      <4>1. "refreshPoll" \in Ops
        BY DEF Ops
      <4>2. PICK k \in CallRecord : k = Call("refreshPoll")
        BY <4>1, PlainCall
      <4>3. k.then = "none"
        BY <4>2 DEF Call
      <4>4. [k EXCEPT !.job = j, !.then = "none"] = [k EXCEPT !.job = j]
        BY <4>3 DEF CallRecord
      <4> QED
        BY <4>2, <4>4
    <3> QED
      BY <1>5, <3>1, <3>2 DEF WithJob
  <2>2. q = [s EXCEPT !.refresh.timer = FALSE]
    BY <1>2, <1>3 DEF TabState
  <2> QED
    BY <2>1, <2>2 DEF RefreshPolled
<1>8. Refreshes(q, u) /\ u.source = q.source
  BY <1>2, <1>4, <1>6, <1>7, RefreshCalls
<1> QED
  BY <1>4, <1>8, RefreshesAfter

LEMMA RefreshStartedIs ==
    ASSUME NEW s \in TabState, s.refresh.on, NEW c, c.reply \in Accepted,
           NEW u, u = RefreshStarted(s, c)
    PROVE  Refreshes(s, u) /\ u.source = s.source
<1>1. s.refresh \in RefreshState
  BY DEF TabState
<1>2. PICK n \in Nat : n = c.reply.job.id
  BY DEF Accepted, JobRecord
<1>3. PICK r \in RefreshState : r = [s.refresh EXCEPT !.job = n] /\ r.on
  <2>1. [s.refresh EXCEPT !.job = n] \in RefreshState
    BY <1>1 DEF RefreshState
  <2>2. ASSUME NEW r, r = [s.refresh EXCEPT !.job = n]
        PROVE  r.on
    BY <1>1, <2>2 DEF RefreshState
  <2> QED
    BY <2>1, <2>2
<1>4. PICK q : q = [s EXCEPT !.refresh = r]
  OBVIOUS
<1>5. /\ q \in TabState /\ Around(s, q) /\ q.source = s.source
      /\ q.refresh = r /\ q.calls = s.calls
  BY <1>4, WithRefresh
<1>6. u = RefreshPolled(q)
  <2>1. q = [s EXCEPT !.refresh.job = n]
    BY <1>3, <1>4 DEF TabState
  <2> QED
    BY <1>2, <2>1 DEF RefreshStarted
<1>7. Refreshes(q, u) /\ u.source = q.source
  BY <1>3, <1>5, <1>6, RefreshPolledIs
<1> QED
  BY <1>5, <1>7, RefreshesAfter

LEMMA RefreshFinishedIs ==
    ASSUME NEW s \in TabState, s.refresh.on, ~s.refresh.timer, NEW reply \in Told,
           NEW u, u = RefreshFinished(s, reply)
    PROVE  Refreshes(s, u) /\ u.source = reply.source
<1>1. PICK cur \in Roots, src \in Sources : cur = reply.current /\ src = reply.source
  BY DEF Told, Sources
<1>2. PICK q : q = [s EXCEPT !.root = cur, !.source = src]
  OBVIOUS
<1>3. /\ q \in TabState /\ Around(s, q) /\ q.source = src
      /\ q.refresh = s.refresh /\ q.calls = s.calls
  BY <1>2 DEF TabState, Around
<1>4. PICK d : d = Call("refreshSessions")
  OBVIOUS
<1>5. d \in Fresh /\ d.op \in RefreshOps
  <2>1. "refreshSessions" \in Ops
    BY DEF Ops
  <2>2. d \in Fresh /\ d.op = "refreshSessions"
    BY <1>4, <2>1, PlainCall
  <2> QED
    BY <2>2 DEF RefreshOps
<1>6. u = Calling(q, d)
  BY <1>1, <1>2, <1>4 DEF RefreshFinished
<1>7. Refreshes(q, u) /\ u.source = q.source
  BY <1>3, <1>5, <1>6, RefreshCalls
<1> QED
  BY <1>1, <1>3, <1>7, RefreshesAfter

\* No answer comes to the call that a refresh goes on with.
Loses(s, u) == Around(s, u) /\ Makes(s, u, {}, {}) /\ u.refresh.on /\ ~u.refresh.timer

Turns(s, u, x, x2) ==
  \/ x2 = x /\ Refreshes(s, u)
  \/ "refresh" \in x2 /\ Loses(s, u)

\* The tab knows the source as before, or from an answer that it heard.
Hears(s, u) ==
  \/ u.source = s.source
  \/ \E c \in Live(s.calls, Looks) : c.reply \in Told /\ u.source = c.reply.source

LEMMA RefreshKeeps ==
    ASSUME NEW x, NEW x2, x2 \in {x, x \cup {"refresh"}},
           NEW v, NEW s, Controls(s, x), Wanted(s, v), Agreeing(s, v, x),
           s.refresh.on, "refresh" \notin x, NEW C, NEW t, Taken(s, t, C), Around(s, t),
           Live(s.calls, RefreshOps) \subseteq C, AllOf(C, RefreshOps),
           NEW u, Turns(t, u, x, x2), Hears(s, u)
    PROVE  Controls(u, x2) /\ Wanted(u, v) /\ Agreeing(u, v, x2)
<1>12. /\ s.mode # "start" /\ s.loading = NoRoot /\ s.job = 0
       /\ ~s.returning /\ ~s.switching
  BY DEF Controls, Starting, Exclusive, NoRefresh
<1>1. PICK N : /\ Makes(t, u, {}, N) /\ \A d \in N : d.op \in RefreshOps
               /\ \/ x2 = x /\ N = {} /\ u.refresh.on = u.refresh.timer
                  \/ /\ x2 = x /\ u.refresh.on /\ ~u.refresh.timer
                     /\ \E d : N = {d} /\ d.op \in RefreshOps
                  \/ "refresh" \in x2 /\ N = {} /\ u.refresh.on /\ ~u.refresh.timer
  BY DEF Turns, Refreshes, Loses
<1>2. /\ u.mode = s.mode /\ u.loading = s.loading /\ u.job = s.job
      /\ u.returning = s.returning /\ u.switching = s.switching /\ u.obs = s.obs
      /\ u.timer = s.timer
  BY DEF Turns, Refreshes, Loses, Around
<1>3. s \in TabState /\ u \in TabState /\ CallsTyped(u)
  <2>1. s \in TabState /\ u \in TabState /\ CallsTyped(s)
    BY <1>1 DEF Controls, Makes
  <2> QED
    BY <1>1, <2>1, CallsTypedKept
<1>4. ASSUME NEW ops, ops \cap RefreshOps = {}
      PROVE  Live(u.calls, ops) = Live(s.calls, ops)
  <2>1. \A c \in C : c \notin Live(s.calls, ops)
    BY <1>4 DEF AllOf, Live
  <2>2. \A d \in N : d.op \notin ops
    BY <1>1, <1>4
  <2>3. {} \cap ops = {}
    OBVIOUS
  <2> QED
    BY <1>1, <1>3, <2>1, <2>2, <2>3, LiveSteady
<1>5. /\ Live(u.calls, {"init"}) = Live(s.calls, {"init"})
      /\ Live(u.calls, {"start"}) = Live(s.calls, {"start"})
      /\ Live(u.calls, {"return"}) = Live(s.calls, {"return"})
      /\ Live(u.calls, ListOps) = Live(s.calls, ListOps)
      /\ Live(u.calls, Observers) = Live(s.calls, Observers)
      /\ Live(u.calls, MutateOps) = Live(s.calls, MutateOps)
  BY <1>4 DEF Observers, MutateOps, ListOps, RefreshOps
<1>6. Live(u.calls, RefreshOps) = N
  <2>1. \A e : e \in Live(u.calls, RefreshOps) <=>
               \/ e \in Live(s.calls, RefreshOps) /\ e \notin C /\ e.op \notin {}
               \/ e \in N /\ e.op \in RefreshOps
    BY <1>1, <1>3, LiveMade
  <2> QED
    BY <1>1, <2>1
<1>7. Refreshing(u, x2)
  <2>1. CASE x2 = x /\ N = {} /\ u.refresh.on = u.refresh.timer
    BY <1>6, <2>1 DEF Refreshing
  <2>2. CASE x2 = x /\ u.refresh.on /\ ~u.refresh.timer /\ (\E d : N = {d})
    BY <1>6, <2>2 DEF Refreshing, One
  <2>3. CASE "refresh" \in x2 /\ N = {} /\ u.refresh.on /\ ~u.refresh.timer
    BY <1>6, <2>3 DEF Refreshing
  <2> QED
    BY <1>1, <2>1, <2>2, <2>3
<1>8. Starting(u) /\ Exclusive(u) /\ Asking(u) /\ Observing(u)
  <2>1. Starting(u) /\ Exclusive(u) /\ Asking(u)
    BY <1>2, <1>5, <1>12 DEF Controls, Starting, Exclusive, Asking
  <2>2. Observing(u)
    BY <1>2, <1>5, <1>12 DEF Controls, Observing
  <2> QED
    BY <2>1, <2>2
<1>9. Returning(u) /\ Switching(u)
  BY <1>2, <1>5, <1>12 DEF Controls, Returning, Switching
<1>10. Wanted(u, v)
  BY <1>2, <1>5, <1>12, WantedKept
<1>11. Agreeing(u, v, x2)
  <2>1. x \subseteq x2
    OBVIOUS
  <2>2. \/ u.source = s.source
        \/ \E c \in Live(s.calls, Looks) : c.reply \in Told /\ u.source = c.reply.source
    BY DEF Hears
  <2> QED
    BY <1>1, <1>2, <1>3, <1>5, <1>12, <2>1, <2>2, AgreeingKept
<1> QED
  BY <1>2, <1>3, <1>7, <1>8, <1>9, <1>10, <1>11 DEF Controls

-----------------------------------------------------------------------------
(* What the tab does with the end of a call c; t is the tab s without c.    *)

Keeps(u, v, x) == Controls(u, x) /\ Wanted(u, v) /\ Agreeing(u, v, x)

Ends(s, v, x, c, t) ==
  Keeps(s, v, x) /\ c \in s.calls /\ t = [s EXCEPT !.calls = s.calls \ {c}]

LEMMA EndsIs ==
    ASSUME NEW s, NEW v, NEW x, NEW c, NEW t, Ends(s, v, x, c, t)
    PROVE  /\ Controls(s, x) /\ Wanted(s, v) /\ Agreeing(s, v, x)
           /\ s \in TabState /\ c \in s.calls /\ c \in CallRecord
           /\ ReplyTyped(c) /\ (c.live \/ c.op \in Observers \cup Requests)
           /\ Taken(s, t, {c}) /\ t \in TabState /\ Same(s, t) /\ Around(s, t)
<1>1. Keeps(s, v, x) /\ c \in s.calls /\ t = [s EXCEPT !.calls = s.calls \ {c}]
  BY DEF Ends
<1>2. s \in TabState /\ CallsTyped(s)
  BY <1>1 DEF Keeps, Controls
<1>3. /\ t \in TabState /\ t.calls = s.calls \ {c}
      /\ t.obs = s.obs /\ t.timer = s.timer
      /\ t.mode = s.mode /\ t.source = s.source /\ t.loading = s.loading
      /\ t.job = s.job /\ t.returning = s.returning /\ t.switching = s.switching
      /\ t.refresh = s.refresh
  <2>1. PICK X \in SUBSET CallRecord : X = s.calls \ {c}
    BY <1>2 DEF TabState
  <2>2. t = [s EXCEPT !.calls = X]
    BY <1>1, <2>1
  <2> QED
    BY <1>2, <2>1, <2>2 DEF TabState
<1>4. Same(s, t) /\ Around(s, t) /\ Taken(s, t, {c})
  BY <1>1, <1>3 DEF Same, Beside, Around, Taken
<1>5. c \in CallRecord
  BY <1>1, <1>2 DEF TabState
<1> QED
  BY <1>1, <1>2, <1>3, <1>4, <1>5 DEF Keeps, CallsTyped

\* A call of the observation that is heard is the only one.
LEMMA ObserverEnds ==
    ASSUME NEW s, NEW v, NEW x, NEW c, NEW t, Ends(s, v, x, c, t), c.op \in Observers, c.live
    PROVE  /\ c \in Live(s.calls, Observers) /\ Live(s.calls, Observers) = {c}
           /\ s.job # 0 /\ s.mode # "start" /\ c.job = s.job
           /\ ~s.returning /\ ~s.switching /\ ~s.refresh.on
           /\ Live(s.calls, {"start"}) = {}
           /\ c.op = "where" => c.root = s.loading
           /\ c.op # "where" /\ c.reply \in Told => c.reply.job.root = s.loading
           /\ Heard(t, c) /\ ObservationCurrent(t) /\ t.obs \in Observation
           /\ t.obs.pending /\ ~t.obs.paused /\ ~t.timer
           /\ c \in Live(s.calls, Looks)
<1>0. /\ Starting(s) /\ Exclusive(s) /\ Asking(s) /\ Observing(s) /\ Wanted(s, v)
      /\ s \in TabState /\ c \in s.calls
      /\ t.obs = s.obs /\ t.timer = s.timer /\ t.job = s.job /\ t.source = s.source
      /\ t \in TabState
  <2>1. /\ Controls(s, x) /\ Wanted(s, v) /\ c \in s.calls /\ t \in TabState
        /\ Same(s, t) /\ Around(s, t)
    BY EndsIs
  <2> QED
    BY <2>1 DEF Controls, Same, Around
<1>1. c \in Live(s.calls, Observers) /\ c \in Live(s.calls, Looks)
  BY <1>0 DEF Live, Looks
<1>2. s.job # 0 /\ ObservationCurrent(s) /\ s.obs.pending
  BY <1>0, <1>1 DEF Observing
<1>3. Live(s.calls, Observers) = {c} /\ ~s.timer /\ ~s.obs.paused
  BY <1>0, <1>1, <1>2 DEF Observing, One
<1>4. s.mode # "start" /\ ~s.returning /\ ~s.switching /\ ~s.refresh.on
  BY <1>0, <1>2 DEF Starting, Exclusive
<1>5. Live(s.calls, {"start"}) = {}
  BY <1>0, <1>2 DEF Asking
<1>6. ObservationCurrent(t) /\ Heard(t, c)
  BY <1>0, <1>2 DEF ObservationCurrent, Heard
<1>7. t.obs \in Observation
  BY <1>0, <1>6 DEF ObservationCurrent, TabState, Observations
<1>8. /\ c.job = s.job
      /\ c.op = "where" => c.root = s.loading
      /\ c.op # "where" /\ c.reply \in Told => c.reply.job.root = s.loading
  BY <1>0, <1>1 DEF Wanted
<1> QED
  BY <1>0, <1>1, <1>2, <1>3, <1>4, <1>5, <1>6, <1>7, <1>8

LEMMA UnpendedIs ==
    ASSUME NEW t \in TabState, ObservationCurrent(t), NEW c \in CallRecord, c.live,
           NEW u, u = Unpended(t, c)
    PROVE  /\ u \in TabState /\ Same(t, u) /\ u.calls = t.calls /\ u.timer = t.timer
           /\ ObservationCurrent(u) /\ u.obs \in Observation
           /\ ~u.obs.pending /\ u.obs.paused = t.obs.paused
<1>1. t.obs \in Observation /\ t.obs # NoObservation
  BY DEF ObservationCurrent, TabState, Observations
<1>2. PICK o : o = [t.obs EXCEPT !.pending = FALSE]
  OBVIOUS
<1>3. /\ o \in Observation /\ o.job = t.obs.job /\ o.asked = t.obs.asked
      /\ o.source = t.obs.source /\ ~o.pending /\ o.paused = t.obs.paused
  <2>1. o \in Observation
    BY <1>1, <1>2 DEF Observation
  <2>2. o.pending = FALSE /\ o.paused = t.obs.paused /\ o.asked = t.obs.asked
    BY <1>1, <1>2 DEF Observation
  <2>3. o.job = t.obs.job /\ o.source = t.obs.source
    BY <1>1, <1>2 DEF Observation
  <2> QED
    BY <2>1, <2>2, <2>3
<1>4. PICK b \in BOOLEAN : b = (t.cancelling /\ c.op # "cancel" /\ c.then # "cancel")
  OBVIOUS
<1>5. u = [t EXCEPT !.obs = o, !.cancelling = b]
  BY <1>1, <1>2, <1>4 DEF Unpended
<1>6. o \in Observations /\ o # NoObservation
  BY <1>3 DEF Observations, Observation, NoObservation
<1>7. /\ u \in TabState /\ Same(t, u) /\ u.calls = t.calls /\ u.timer = t.timer /\ u.obs = o
  BY <1>5, <1>6 DEF TabState, Same, Beside
<1>8. ObservationCurrent(u)
  BY <1>3, <1>6, <1>7 DEF ObservationCurrent, Same
<1> QED
  BY <1>3, <1>7, <1>8

\* A call that was given up
LEMMA UnpendedDead ==
    ASSUME NEW t \in TabState, NEW c \in CallRecord, ~c.live, NEW u, u = Unpended(t, c)
    PROVE  /\ u \in TabState /\ Same(t, u) /\ u.calls = t.calls /\ u.timer = t.timer
           /\ u.obs = t.obs
<1>1. PICK b \in BOOLEAN : b = (t.cancelling /\ c.op # "cancel" /\ c.then # "cancel")
  OBVIOUS
<1>2. u = [t EXCEPT !.obs = t.obs, !.cancelling = b]
  BY <1>1 DEF Unpended
<1> QED
  BY <1>2 DEF TabState, Same, Beside

\* handleProjectJobError, of a poll that is heard
LEMMA PollFailedIs ==
    ASSUME NEW t \in TabState, NEW c \in CallRecord, c.live, Heard(t, c), ~t.timer, ~t.obs.paused,
           NEW retryable \in BOOLEAN, NEW u, u = PollFailed(t, c, retryable)
    PROVE  Rested(u) /\ Same(t, u) /\ Makes(t, u, {}, {})
<1>1. PICK f : f = Unpended(t, c)
  OBVIOUS
<1>2. /\ f \in TabState /\ Same(t, f) /\ f.calls = t.calls /\ f.timer = t.timer
      /\ ObservationCurrent(f) /\ f.obs \in Observation
      /\ ~f.obs.pending /\ f.obs.paused = t.obs.paused
  <2>1. ObservationCurrent(t)
    BY DEF Heard
  <2> QED
    BY <1>1, <2>1, UnpendedIs
<1>3. CASE retryable /\ t.obs.failures < Retries
  <2>1. u = [f EXCEPT !.timer = TRUE, !.obs.failures = @ + 1]
    BY <1>1, <1>3 DEF PollFailed
  <2>2. PICK n \in Nat : n = f.obs.failures + 1
    BY <1>2 DEF Observation
  <2>3. PICK o : o = [f.obs EXCEPT !.failures = n]
    OBVIOUS
  <2>4. o \in Observation
    BY <1>2, <2>3 DEF Observation
  <2>5. o.job = f.obs.job /\ o.asked = f.obs.asked /\ o.source = f.obs.source
    BY <1>2, <2>3 DEF Observation
  <2>6. ~o.pending /\ ~o.paused
    BY <1>2, <2>3 DEF Observation
  <2>7. o \in Observations /\ o # NoObservation
    BY <2>4 DEF Observations, Observation, NoObservation
  <2>8. u = [f EXCEPT !.timer = TRUE, !.obs = o]
    BY <1>2, <2>1, <2>2, <2>3 DEF TabState
  <2>9. u \in TabState /\ Same(f, u) /\ u.calls = f.calls /\ u.timer = TRUE /\ u.obs = o
    BY <1>2, <2>7, <2>8 DEF TabState, Same, Beside
  <2>10. Rested(u)
    BY <1>2, <2>5, <2>6, <2>7, <2>9 DEF Rested, ObservationCurrent, Same
  <2>11. u.calls = t.calls
    BY <1>2, <2>9
  <2> QED
    BY <1>2, <2>9, <2>10, <2>11, Assigns DEF Same, Beside
<1>4. CASE ~(retryable /\ t.obs.failures < Retries)
  <2>1. u = [f EXCEPT !.obs.paused = TRUE]
    BY <1>1, <1>4 DEF PollFailed
  <2>3. PICK o : o = [f.obs EXCEPT !.paused = TRUE]
    OBVIOUS
  <2>4. o \in Observation
    BY <1>2, <2>3 DEF Observation
  <2>5. o.job = f.obs.job /\ o.asked = f.obs.asked /\ o.source = f.obs.source
    BY <1>2, <2>3 DEF Observation
  <2>6. ~o.pending /\ o.paused
    BY <1>2, <2>3 DEF Observation
  <2>7. o \in Observations /\ o # NoObservation
    BY <2>4 DEF Observations, Observation, NoObservation
  <2>8. u = [f EXCEPT !.obs = o]
    BY <1>2, <2>1, <2>3 DEF TabState
  <2>9. u \in TabState /\ Same(f, u) /\ u.calls = f.calls /\ u.timer = f.timer /\ u.obs = o
    BY <1>2, <2>7, <2>8 DEF TabState, Same, Beside
  <2>10. Rested(u)
    BY <1>2, <2>5, <2>6, <2>7, <2>9 DEF Rested, ObservationCurrent, Same
  <2>11. u.calls = t.calls
    BY <1>2, <2>9
  <2> QED
    BY <1>2, <2>9, <2>10, <2>11, Assigns DEF Same, Beside
<1> QED
  BY <1>3, <1>4

\* A tab whose job rests after the answer reply, or that closes the project
Settled(t, u, reply) ==
  \/ Rested(u) /\ Same(t, u) /\ Makes(t, u, {}, {})
  \/ Closes(t, u) /\ u.mode \in {t.mode, "select"} /\ u.source = t.source
  \/ /\ Closes(t, u) /\ u.mode = "analyze" /\ reply.job.status = "succeeded"
     /\ u.source = reply.source /\ u.root = reply.current

\* handleProjectJobResponse, of an answer to an observation f without a call
LEMMA RespondedSettles ==
    ASSUME NEW t \in TabState, NEW f \in TabState, f.calls = t.calls, Same(t, f),
           ObservationCurrent(f), ~f.obs.pending, ~f.obs.paused,
           NEW reply, reply \in Told \/ reply = [job |-> [status |-> "cancelled"]],
           NEW u, u = Responded(f, reply)
    PROVE  Settled(t, u, reply)
<1>1. Makes(t, f, {}, {}) /\ Beside(t, f)
  BY Assigns DEF Same
<1>2. CASE reply.job.status = "succeeded" /\ reply \in Told
  <2>1. /\ Closes(f, u) /\ u.mode = "analyze"
        /\ u.source = reply.source /\ u.root = reply.current
    <3>1. u = Opened(f, reply) /\ reply \in Told
      BY <1>2 DEF Responded
    <3> QED
      BY <3>1, OpenedIs
  <2>2. Closes(t, u)
    BY <1>1, <2>1, ClosesAfter
  <2> QED
    BY <1>2, <2>1, <2>2 DEF Settled
<1>3. CASE reply.job.status = "failed" /\ reply \in Told
  <2>1. reply.job.root \in Roots
    BY <1>3 DEF Told, JobRecord
  <2>2. Closes(f, u) /\ u.mode = "select" /\ u.source = f.source
    <3>1. u = FailureShown(f, reply.job)
      BY <1>3 DEF Responded
    <3> QED
      BY <2>1, <3>1, FailureShownIs
  <2>3. Closes(t, u)
    BY <1>1, <2>2, ClosesAfter
  <2> QED
    BY <2>2, <2>3 DEF Settled, Same
<1>4. CASE reply.job.status = "cancelled"
  <2>2. Closes(f, u) /\ u.mode \in {f.mode, "select"} /\ u.source = f.source
    BY <1>4, CancelledIs
  <2>3. Closes(t, u)
    BY <1>1, <2>2, ClosesAfter
  <2> QED
    BY <2>2, <2>3 DEF Settled, Same
<1>5. CASE reply.job.status \notin {"succeeded", "failed", "cancelled"}
  <2>1. u = [f EXCEPT !.timer = TRUE]
    BY <1>5 DEF Responded
  <2>2. u \in TabState /\ u.calls = f.calls /\ Same(f, u) /\ u.obs = f.obs /\ u.timer = TRUE
    BY <2>1 DEF TabState, Same, Beside
  <2>3. Same(t, u) /\ Rested(u)
    BY <2>2 DEF Same, Beside, Rested, ObservationCurrent
  <2>4. Makes(t, u, {}, {})
    BY <2>2, Assigns
  <2> QED
    BY <2>3, <2>4 DEF Settled
<1>6. reply = [job |-> [status |-> "cancelled"]] => reply.job.status = "cancelled"
  OBVIOUS
<1> QED
  BY <1>2, <1>3, <1>4, <1>5, <1>6

\* The rest of pollProjectJob once it knows the state of the project
LEMMA PollSettledIs ==
    ASSUME NEW t \in TabState, NEW c \in CallRecord, c.live, Heard(t, c),
           NEW reply \in Told, NEW u, u = PollSettled(t, c, reply)
    PROVE  Settled(t, u, reply)
<1>1. PICK f : f = Unpended(t, c)
  OBVIOUS
<1>2. /\ f \in TabState /\ Same(t, f) /\ f.calls = t.calls
      /\ ObservationCurrent(f) /\ f.obs \in Observation /\ ~f.obs.pending
  <2>1. ObservationCurrent(t)
    BY DEF Heard
  <2> QED
    BY <1>1, <2>1, UnpendedIs
<1>3. PICK q : q = [f EXCEPT !.obs.failures = 0, !.obs.paused = FALSE]
  OBVIOUS
<1>4. PICK o : o = [f.obs EXCEPT !.failures = 0, !.paused = FALSE]
  OBVIOUS
<1>5. o \in Observation
  BY <1>2, <1>4 DEF Observation
<1>6. o.job = f.obs.job /\ o.asked = f.obs.asked /\ o.source = f.obs.source
  BY <1>2, <1>4 DEF Observation
<1>7. ~o.pending /\ ~o.paused
  BY <1>2, <1>4 DEF Observation
<1>8. o \in Observations /\ o # NoObservation
  BY <1>5 DEF Observations, Observation, NoObservation
<1>9. q = [f EXCEPT !.obs = o]
  BY <1>2, <1>3, <1>4 DEF TabState
<1>10. q \in TabState /\ Same(f, q) /\ q.calls = f.calls /\ q.obs = o
  BY <1>2, <1>8, <1>9 DEF TabState, Same, Beside
<1>11. ObservationCurrent(q) /\ ~q.obs.pending /\ ~q.obs.paused
  BY <1>2, <1>6, <1>7, <1>8, <1>10 DEF ObservationCurrent, Same
<1>12. Same(t, q) /\ q.calls = t.calls
  BY <1>2, <1>10 DEF Same, Beside
<1>13. u = Responded(q, reply)
  BY <1>1, <1>3 DEF PollSettled
<1> QED
  BY <1>10, <1>11, <1>12, <1>13, RespondedSettles

\* What is wanted when the project is opened
Opens(s, u, c) ==
  s.mode = "select" /\ u.mode = "analyze" =>
    \/ s.returning
    \/ /\ u.root = s.loading /\ u.job = 0
       /\ c.op \in {"poll", "where"} /\ c.live /\ c.job = s.job

\* The observation rests.
LEMMA RestKeeps ==
    ASSUME NEW s, NEW v, NEW x, NEW c, NEW t, Ends(s, v, x, c, t), c.op \in Observers, c.live,
           NEW u, Rested(u), Same(t, u), Makes(t, u, {}, {})
    PROVE  Keeps(u, v, x) /\ Opens(s, u, c)
<1>1. /\ Controls(s, x) /\ Wanted(s, v) /\ Agreeing(s, v, x) /\ Taken(s, t, {c}) /\ Same(s, t)
  BY EndsIs
<1>2. Live(s.calls, Observers) = {c} /\ s.job # 0
  BY ObserverEnds
<1>3. Same(s, u)
  BY <1>1 DEF Same, Beside
<1>4. /\ \A d \in {c} : d.op \in Observers
      /\ Observers \subseteq {} \/ Live(s.calls, Observers) \subseteq {c}
  BY <1>2
<1>5. Controls(u, x) /\ Wanted(u, v) /\ Agreeing(u, v, x)
  BY <1>1, <1>2, <1>3, <1>4, ObserveKeeps
<1> QED
  BY <1>3, <1>5 DEF Keeps, Opens, Same

\* ... or goes on with another call.
LEMMA AwaitKeeps ==
    ASSUME NEW s, NEW v, NEW x, NEW c, NEW t, Ends(s, v, x, c, t), c.op \in Observers, c.live,
           NEW u, Awaited(u), Same(t, u), NEW R, R \subseteq Observers, NEW d,
           Makes(t, u, R, {d}), d.op \in Observers, d.job = s.job,
           d.op = "where" => d.root = s.loading
    PROVE  Keeps(u, v, x) /\ Opens(s, u, c)
<1>1. /\ Controls(s, x) /\ Wanted(s, v) /\ Agreeing(s, v, x) /\ Taken(s, t, {c}) /\ Same(s, t)
  BY EndsIs
<1>2. Live(s.calls, Observers) = {c} /\ s.job # 0
  BY ObserverEnds
<1>3. Same(s, u)
  BY <1>1 DEF Same, Beside
<1>4. /\ \A e \in {c} : e.op \in Observers
      /\ Observers \subseteq R \/ Live(s.calls, Observers) \subseteq {c}
  BY <1>2
<1>5. \E e : /\ {d} = {e} /\ e.op \in Observers /\ e.job = s.job
             /\ e.op = "where" => e.root = s.loading
  OBVIOUS
<1>6. Controls(u, x) /\ Wanted(u, v) /\ Agreeing(u, v, x)
  BY <1>1, <1>2, <1>3, <1>4, <1>5, ObserveKeeps
<1> QED
  BY <1>3, <1>6 DEF Keeps, Opens, Same

LEMMA SettledKeeps ==
    ASSUME NEW s, NEW v, NEW x, NEW c, NEW t, Ends(s, v, x, c, t), c.op \in Observers, c.live,
           NEW reply, NEW u, Settled(t, u, reply),
           reply.job.status = "succeeded" =>
             /\ c.op \in {"poll", "where"} /\ c.reply \in Told
             /\ reply.source = c.reply.source
             /\ reply.current = s.loading
    PROVE  Keeps(u, v, x) /\ Opens(s, u, c)
<1>1. /\ Controls(s, x) /\ Wanted(s, v) /\ Agreeing(s, v, x) /\ Taken(s, t, {c}) /\ Same(s, t)
  BY EndsIs
<1>2. /\ c \in Live(s.calls, Observers) /\ Live(s.calls, Observers) = {c}
      /\ s.job # 0 /\ s.mode # "start" /\ c.job = s.job /\ ~s.switching /\ ~s.returning
      /\ Live(s.calls, {"start"}) = {} /\ c \in Live(s.calls, Looks)
  BY ObserverEnds
<1>3. Beside(s, t) /\ t.mode = s.mode /\ t.source = s.source /\ t.mode # "start"
  BY <1>1, <1>2 DEF Same
<1>4. CASE Rested(u) /\ Same(t, u) /\ Makes(t, u, {}, {})
  BY <1>4, RestKeeps
<1>5. ASSUME Closes(t, u), u.mode # "start",
             u.source = s.source \/ (c.reply \in Told /\ u.source = c.reply.source)
      PROVE  Keeps(u, v, x)
  <2>1. /\ Live(s.calls, {"start"}) \subseteq {c}
        /\ (\A d \in {c} : d.op \notin RefreshOps)
        /\ x \subseteq x
    BY <1>2 DEF Observers, RefreshOps
  <2>2. Controls(u, x) /\ Wanted(u, v)
    BY <1>1, <1>2, <1>3, <1>5, <2>1, CloseKeeps
  <2>3. \/ u.source = s.source /\ s.mode # "start"
        \/ \E d \in Live(s.calls, Looks) : d.reply \in Told /\ u.source = d.reply.source
    BY <1>2, <1>5
  <2>4. Agreeing(u, v, x)
    BY <1>1, <1>2, <1>3, <1>5, <2>1, <2>3, CloseKeeps
  <2> QED
    BY <2>2, <2>4 DEF Keeps
<1>6. CASE Closes(t, u) /\ u.mode \in {t.mode, "select"} /\ u.source = t.source
  <2>1. u.mode # "start" /\ u.source = s.source
    BY <1>3, <1>6
  <2> QED
    BY <1>3, <1>5, <1>6, <2>1 DEF Opens
<1>7. CASE /\ Closes(t, u) /\ u.mode = "analyze" /\ reply.job.status = "succeeded"
           /\ u.source = reply.source /\ u.root = reply.current
  <2>1. u.job = 0
    BY <1>7 DEF Closes, Closed
  <2> QED
    BY <1>2, <1>5, <1>7, <2>1 DEF Opens
<1> QED
  BY <1>4, <1>6, <1>7 DEF Settled

\* No one waits for the call: nothing of the tab changes but what the finally
\* of its function sets.
LEMMA DeadKeeps ==
    ASSUME NEW s, NEW v, NEW x, NEW c, NEW t, Ends(s, v, x, c, t), ~c.live,
           NEW u \in TabState, Same(t, u), u.calls = t.calls, u.timer = t.timer, u.obs = t.obs
    PROVE  Keeps(u, v, x) /\ Opens(s, u, c)
<1>1. /\ Controls(s, x) /\ Wanted(s, v) /\ Agreeing(s, v, x) /\ Taken(s, t, {c}) /\ Same(s, t)
      /\ t \in TabState /\ Around(s, t) /\ c \in s.calls
  BY EndsIs
<1>2. s.mode # "start"
  BY <1>1 DEF Controls, Starting, Live
<1>3. Makes(t, u, {}, {})
  BY <1>1, Assigns
<1>4. /\ u.mode = s.mode /\ u.loading = s.loading /\ u.job = s.job /\ u.source = s.source
      /\ u.returning = s.returning /\ Beside(s, u) /\ u.obs = s.obs /\ u.timer = s.timer
  <2>1. t.obs = s.obs /\ t.timer = s.timer
    BY <1>1 DEF Around
  <2>2. u.obs = s.obs /\ u.timer = s.timer
    BY <2>1
  <2>3. /\ u.mode = s.mode /\ u.loading = s.loading /\ u.job = s.job /\ u.source = s.source
        /\ u.returning = s.returning /\ Beside(s, u)
    BY <1>1 DEF Same, Beside
  <2> QED
    BY <2>2, <2>3
<1>5. \A d \in {c} : ~d.live \/ d.op \in ListOps \cup {"stray"}
  OBVIOUS
<1>6. Controls(u, x) /\ Wanted(u, v) /\ Agreeing(u, v, x)
  BY <1>1, <1>2, <1>3, <1>4, <1>5, QuietKeeps
<1> QED
  BY <1>4, <1>6 DEF Keeps, Opens

LEMMA PollFailKeeps ==
    ASSUME NEW s, NEW v, NEW x, NEW c, NEW t, Ends(s, v, x, c, t), c.op \in Observers,
           NEW retryable \in BOOLEAN, NEW u, u = PollFailed(t, c, retryable)
    PROVE  Keeps(u, v, x) /\ Opens(s, u, c)
<1>1. t \in TabState /\ c \in CallRecord
  BY EndsIs
<1>2. CASE c.live
  <2>1. Heard(t, c) /\ ~t.timer /\ ~t.obs.paused
    BY <1>2, ObserverEnds
  <2>2. Rested(u) /\ Same(t, u) /\ Makes(t, u, {}, {})
    BY <1>1, <1>2, <2>1, PollFailedIs
  <2> QED
    BY <1>2, <2>2, RestKeeps
<1>3. CASE ~c.live
  <2>1. u = Unpended(t, c)
    BY <1>3 DEF PollFailed, Heard
  <2>2. u \in TabState /\ Same(t, u) /\ u.calls = t.calls /\ u.timer = t.timer /\ u.obs = t.obs
    BY <1>1, <1>3, <2>1, UnpendedDead
  <2> QED
    BY <1>3, <2>2, DeadKeeps
<1> QED
  BY <1>2, <1>3

\* pollProjectJob after its await
LEMMA PollKeeps ==
    ASSUME NEW s, NEW v, NEW x, NEW c, NEW t, Ends(s, v, x, c, t), c.op = "poll", Answered(c),
           NEW u, u = PollAnswered(t, c)
    PROVE  Keeps(u, v, x) /\ Opens(s, u, c)
<1>1. t \in TabState /\ c \in CallRecord /\ ReplyTyped(c) /\ Same(s, t) /\ c.op \in Observers
  <2>1. t \in TabState /\ c \in CallRecord /\ ReplyTyped(c) /\ Same(s, t)
    BY EndsIs
  <2> QED
    BY <2>1 DEF Observers
<1>2. CASE ~c.live
  <2>1. u = Unpended(t, c)
    BY <1>2 DEF PollAnswered, Heard
  <2>2. u \in TabState /\ Same(t, u) /\ u.calls = t.calls /\ u.timer = t.timer /\ u.obs = t.obs
    BY <1>1, <1>2, <2>1, UnpendedDead
  <2> QED
    BY <1>2, <2>2, DeadKeeps
<1>3. CASE c.live
  <2>1. /\ Heard(t, c) /\ ObservationCurrent(t) /\ t.obs.pending /\ ~t.obs.paused /\ ~t.timer
        /\ c.job = s.job
    BY <1>1, <1>3, ObserverEnds
  <2>2. c.reply \in Told => c.reply.job.root = s.loading
    <3>1. c \in Live(s.calls, Observers)
      BY <1>1, <1>3, ObserverEnds
    <3>2. Wanted(s, v)
      BY EndsIs
    <3> QED
      BY <3>1, <3>2 DEF Wanted
  <2>3. c.reply \in StatusTold \/ c.reply \in [code: {404}]
    BY <1>1 DEF ReplyTyped, StatusOps
  <2>4. CASE c.reply \in [code: {404}]
    <3>1. c.reply.code = 404
      BY <2>4
    <3>2. u = PollFailed(t, c, FALSE)
      BY <2>1, <3>1 DEF PollAnswered
    <3> QED
      BY <1>1, <3>2, PollFailKeeps
  <2>5. CASE c.reply \in StatusTold
    <3>1. /\ c.reply \in Told /\ c.reply.code # 404
          /\ c.reply.job.status = "succeeded" => c.reply.current \in {NoRoot, s.loading}
      BY <2>2, <2>5 DEF StatusTold, Told
    <3>2. CASE c.reply.job.status = "succeeded" /\ c.reply.current = NoRoot
      <4>1. PICK r : r = c.reply.job.root
        OBVIOUS
      <4>2. r \in Roots /\ r = s.loading
        BY <2>2, <3>1, <4>1 DEF Told, JobRecord
      <4>3. PICK d : d = [c EXCEPT !.op = "where", !.root = r, !.reply = Unanswered]
        OBVIOUS
      <4>4. d \in Fresh /\ d.op = "where" /\ d.job = c.job /\ d.root = r
        <5>1. "where" \in Ops /\ Unanswered \in Replies
          BY DEF Ops, Replies, Bare, Unanswered
        <5>2. d \in CallRecord /\ d.live = c.live /\ d.reply = Unanswered
          BY <1>1, <4>2, <4>3, <5>1 DEF CallRecord
        <5>3. d.op = "where" /\ d.job = c.job /\ d.root = r
          BY <1>1, <4>3 DEF CallRecord
        <5> QED
          BY <1>3, <5>2, <5>3 DEF Fresh, Answered
      <4>5. u = Calling(t, d)
        BY <2>1, <3>1, <3>2, <4>1, <4>3 DEF PollAnswered
      <4>6. Makes(t, u, {}, {d}) /\ Same(t, u) /\ u.obs = t.obs /\ u.timer = t.timer
        BY <1>1, <4>4, <4>5, CallingIs
      <4>7. Awaited(u)
        BY <2>1, <4>6 DEF Awaited, ObservationCurrent, Same
      <4>8. d.op \in Observers /\ d.job = s.job /\ (d.op = "where" => d.root = s.loading)
        BY <2>1, <4>2, <4>4 DEF Observers
      <4>9. {} \subseteq Observers
        OBVIOUS
      <4> QED
        BY <1>1, <1>3, <4>6, <4>7, <4>8, <4>9, AwaitKeeps
    <3>3. CASE ~(c.reply.job.status = "succeeded" /\ c.reply.current = NoRoot)
      <4>1. u = PollSettled(t, c, c.reply)
        BY <2>1, <3>1, <3>3 DEF PollAnswered
      <4>2. Settled(t, u, c.reply)
        <5>1. PICK reply \in Told : reply = c.reply
          BY <3>1
        <5> QED
          BY <1>1, <1>3, <2>1, <4>1, <5>1, PollSettledIs
      <4>3. c.reply.job.status = "succeeded" =>
              /\ c.op \in {"poll", "where"} /\ c.reply \in Told
              /\ c.reply.source = c.reply.source
              /\ c.reply.current = s.loading
        BY <3>1, <3>3
      <4> QED
        BY <1>1, <1>3, <4>2, <4>3, SettledKeeps
    <3> QED
      BY <3>2, <3>3
  <2> QED
    BY <2>3, <2>4, <2>5
<1> QED
  BY <1>2, <1>3

\* restoreProjectSelection: the tab knows where the project is open.
LEMMA WhereKeeps ==
    ASSUME NEW s, NEW v, NEW x, NEW c, NEW t, Ends(s, v, x, c, t), c.op = "where", Answered(c),
           NEW u, u = WhereAnswered(t, c)
    PROVE  Keeps(u, v, x) /\ Opens(s, u, c)
<1>1. t \in TabState /\ c \in CallRecord /\ c.reply \in Told /\ Same(s, t) /\ c.op \in Observers
  <2>1. t \in TabState /\ c \in CallRecord /\ ReplyTyped(c) /\ Same(s, t)
    BY EndsIs
  <2> QED
    BY <2>1 DEF Observers, ReplyTyped, StartOps, StatusOps, ListOps
<1>2. CASE ~c.live
  <2>1. u = Unpended(t, c)
    BY <1>2 DEF WhereAnswered, Heard
  <2>2. u \in TabState /\ Same(t, u) /\ u.calls = t.calls /\ u.timer = t.timer /\ u.obs = t.obs
    BY <1>1, <1>2, <2>1, UnpendedDead
  <2> QED
    BY <1>2, <2>2, DeadKeeps
<1>3. CASE c.live
  <2>1. Heard(t, c)
    BY <1>1, <1>3, ObserverEnds
  <2>2. CASE ~(c.reply.code # 409 /\ c.reply.current = c.root)
    <3>1. u = PollFailed(t, c, FALSE)
      BY <2>1, <2>2 DEF WhereAnswered
    <3> QED
      BY <1>1, <3>1, PollFailKeeps
  <2>3. CASE c.reply.code # 409 /\ c.reply.current = c.root
    <3>1. PICK reply : reply = [c.reply EXCEPT !.job.status = "succeeded"]
      OBVIOUS
    <3>2. reply \in Told /\ reply.source = c.reply.source /\ reply.current = c.reply.current
      <4>1. PICK j \in JobRecord : j = [c.reply.job EXCEPT !.status = "succeeded"]
        <5>1. c.reply.job \in JobRecord /\ "succeeded" \in JobStatus
          BY <1>1 DEF Told, JobStatus
        <5> QED
          BY <5>1 DEF JobRecord
      <4>2. reply = [c.reply EXCEPT !.job = j]
        BY <1>1, <3>1, <4>1 DEF Told
      <4> QED
        BY <1>1, <4>2 DEF Told
    <3>3. c.root = s.loading
      <4>1. c \in Live(s.calls, Observers)
        BY <1>1, <1>3, ObserverEnds
      <4>2. Wanted(s, v)
        BY EndsIs
      <4> QED
        BY <4>1, <4>2 DEF Wanted
    <3>4. u = PollSettled(t, c, reply)
      BY <2>1, <2>3, <3>1 DEF WhereAnswered
    <3>5. Settled(t, u, reply)
      BY <1>1, <1>3, <2>1, <3>2, <3>4, PollSettledIs
    <3>6. reply.job.status = "succeeded" =>
            /\ c.op \in {"poll", "where"} /\ c.reply \in Told
            /\ reply.source = c.reply.source
            /\ reply.current = s.loading
      BY <1>1, <2>3, <3>2, <3>3
    <3> QED
      BY <1>1, <1>3, <3>5, <3>6, SettledKeeps
  <2> QED
    BY <2>2, <2>3
<1> QED
  BY <1>2, <1>3

\* The observation goes on with a poll.
LEMMA PollAgain ==
    ASSUME NEW s, NEW v, NEW x, NEW c, NEW t, Ends(s, v, x, c, t), c.op \in Observers, c.live,
           NEW f \in TabState, Same(t, f), f.calls = t.calls,
           ObservationCurrent(f), ~f.obs.pending, ~f.obs.paused,
           NEW by \in {"tab", "cancel"}, NEW p, p = Polled(f, by),
           NEW u \in TabState, Same(p, u), u.calls = p.calls, u.obs = p.obs, u.timer = p.timer
    PROVE  Keeps(u, v, x) /\ Opens(s, u, c)
<1>1. t \in TabState /\ Same(s, t)
  BY EndsIs
<1>11. f.obs = NoObservation \/ (ObservationCurrent(f) /\ ~f.obs.pending /\ ~f.obs.paused)
  OBVIOUS
<1>12. Polls(f, p)
  BY <1>11, PolledIs
<1>2. Same(f, p) /\ Awaited(p)
  BY <1>12 DEF Polls
<1>3. PICK R, d : /\ R \subseteq Observers /\ Makes(f, p, R, {d})
                  /\ d.op = "poll" /\ d.job = f.job
  BY <1>12 DEF Polls
<1>4. Makes(t, f, {}, {})
  BY <1>1, Assigns
<1>5. Makes(t, p, {} \cup R, {d})
  BY <1>1, <1>3, <1>4, Chain
<1>6. Makes(t, u, {} \cup R, {d})
  BY <1>5 DEF Makes
<1>7. Same(t, u)
  BY <1>2 DEF Same, Beside
<1>8. Awaited(u)
  BY <1>2 DEF Awaited, ObservationCurrent, Same
<1>9. d.op \in Observers /\ d.job = s.job /\ (d.op = "where" => d.root = s.loading)
  BY <1>1, <1>3 DEF Observers, Same
<1>10. {} \cup R \subseteq Observers
  BY <1>3
<1> QED
  BY <1>6, <1>7, <1>8, <1>9, <1>10, AwaitKeeps

\* The click handler of the cancel button after its await
LEMMA CancelKeeps ==
    ASSUME NEW s, NEW v, NEW x, NEW c, NEW t, Ends(s, v, x, c, t), c.op = "cancel", Answered(c),
           NEW u, u = CancelAnswered(t, c)
    PROVE  Keeps(u, v, x) /\ Opens(s, u, c)
<1>1. t \in TabState /\ c \in CallRecord /\ ReplyTyped(c) /\ Same(s, t) /\ c.op \in Observers
  <2>1. t \in TabState /\ c \in CallRecord /\ ReplyTyped(c) /\ Same(s, t)
    BY EndsIs
  <2> QED
    BY <2>1 DEF Observers
<1>2. PICK f : f = Unpended(t, c)
  OBVIOUS
<1>3. CASE ~c.live
  <2>1. u = f
    BY <1>2, <1>3 DEF CancelAnswered, Heard
  <2>2. u \in TabState /\ Same(t, u) /\ u.calls = t.calls /\ u.timer = t.timer /\ u.obs = t.obs
    BY <1>1, <1>2, <1>3, <2>1, UnpendedDead
  <2> QED
    BY <1>3, <2>2, DeadKeeps
<1>4. CASE c.live
  <2>1. Heard(t, c) /\ ObservationCurrent(t) /\ ~t.obs.paused
    BY <1>1, <1>4, ObserverEnds
  <2>2. /\ f \in TabState /\ Same(t, f) /\ f.calls = t.calls
        /\ ObservationCurrent(f) /\ ~f.obs.pending /\ ~f.obs.paused
    BY <1>1, <1>2, <1>4, <2>1, UnpendedIs
  <2>3. c.reply \in StatusTold \/ c.reply \in [code: {404}]
    BY <1>1 DEF ReplyTyped, StatusOps
  <2>4. CASE c.reply \in [code: {404}]
    <3>1. c.reply.code = 404
      BY <2>4
    <3>2. PICK reply : reply = [job |-> [status |-> "cancelled"]]
      OBVIOUS
    <3>3. u = Responded(f, reply)
      BY <1>2, <2>1, <3>1, <3>2 DEF CancelAnswered
    <3>4. Settled(t, u, reply)
      BY <1>1, <2>2, <3>2, <3>3, RespondedSettles
    <3>5. reply.job.status # "succeeded"
      BY <3>2
    <3> QED
      BY <1>1, <1>4, <3>4, <3>5, SettledKeeps
  <2>5. CASE c.reply \in StatusTold
    <3>1. c.reply \in Told /\ c.reply.code # 404
      BY <2>5 DEF StatusTold, Told
    <3>2. CASE c.reply.job.status = "succeeded"
      <4>1. u = Polled(f, "tab")
        BY <1>2, <2>1, <3>1, <3>2 DEF CancelAnswered
      <4>2. u \in TabState /\ Same(u, u)
        <5>1. f.obs = NoObservation
                \/ (ObservationCurrent(f) /\ ~f.obs.pending /\ ~f.obs.paused)
          BY <2>2
        <5>2. \E R, d : Makes(f, u, R, {d})
          BY <2>2, <4>1, <5>1, PolledIs DEF Polls
        <5> QED
          BY <5>2 DEF Makes, Same, Beside
      <4> QED
        BY <1>1, <1>4, <2>2, <4>1, <4>2, PollAgain
    <3>3. CASE c.reply.job.status # "succeeded"
      <4>1. u = Responded(f, c.reply)
        BY <1>2, <2>1, <3>1, <3>3 DEF CancelAnswered
      <4>2. PICK reply \in Told : reply = c.reply
        BY <3>1
      <4>3. Settled(t, u, reply)
        BY <1>1, <2>2, <4>1, <4>2, RespondedSettles
      <4> QED
        BY <1>1, <1>4, <3>3, <4>2, <4>3, SettledKeeps
    <3> QED
      BY <3>2, <3>3
  <2> QED
    BY <2>3, <2>4, <2>5
<1> QED
  BY <1>3, <1>4

\* ... when the cancellation is lost
LEMMA CancelFailKeeps ==
    ASSUME NEW s, NEW v, NEW x, NEW c, NEW t, Ends(s, v, x, c, t), c.op = "cancel", c.live,
           NEW u, u = CancelFailed(t, c)
    PROVE  Keeps(u, v, x) /\ Opens(s, u, c)
<1>1. t \in TabState /\ c \in CallRecord /\ Same(s, t) /\ c.op \in Observers
  <2>1. t \in TabState /\ c \in CallRecord /\ Same(s, t)
    BY EndsIs
  <2> QED
    BY <2>1 DEF Observers
<1>2. PICK f : f = Unpended(t, c)
  OBVIOUS
<1>3. Heard(t, c) /\ ObservationCurrent(t) /\ ~t.obs.paused
  BY <1>1, ObserverEnds
<1>4. /\ f \in TabState /\ Same(t, f) /\ f.calls = t.calls
      /\ ObservationCurrent(f) /\ ~f.obs.pending /\ ~f.obs.paused
  BY <1>1, <1>2, <1>3, UnpendedIs
<1>5. PICK p : p = Polled(f, "cancel")
  OBVIOUS
<1>6. p \in TabState
  <2>1. f.obs = NoObservation \/ (ObservationCurrent(f) /\ ~f.obs.pending /\ ~f.obs.paused)
    BY <1>4
  <2>2. \E R, d : Makes(f, p, R, {d})
    BY <1>4, <1>5, <2>1, PolledIs DEF Polls
  <2> QED
    BY <2>2 DEF Makes
<1>7. u = [p EXCEPT !.cancelling = TRUE]
  BY <1>2, <1>3, <1>5 DEF CancelFailed
<1>8. u \in TabState /\ Same(p, u) /\ u.calls = p.calls /\ u.obs = p.obs /\ u.timer = p.timer
  BY <1>6, <1>7 DEF TabState, Same, Beside
<1> QED
  BY <1>1, <1>4, <1>5, <1>8, PollAgain

-----------------------------------------------------------------------------
(* The request to open a project *)

LEMMA Loaded ==
    ASSUME NEW s, NEW v, NEW x, NEW c, NEW t, Ends(s, v, x, c, t), c.op # "init"
    PROVE  s.mode # "start"
<1>1. Controls(s, x) /\ c \in s.calls
  BY EndsIs
<1> QED
  BY <1>1 DEF Controls, Starting, Live

\* The loaded tab knows the source as before, or from an answer that it heard.
Learns(s, u) ==
  \/ u.source = s.source /\ s.mode # "start"
  \/ \E c \in Live(s.calls, Looks) : c.reply \in Told /\ u.source = c.reply.source

\* The tab begins to observe a job.
LEMMA BeginKeeps ==
    ASSUME NEW x, NEW v, NEW s, Controls(s, x), Wanted(s, v), Agreeing(s, v, x),
           s.job = 0, ~s.returning, ~s.switching, ~s.refresh.on,
           NEW C, NEW t, Taken(s, t, C), AllOf(C, {"start", "init"}),
           Live(s.calls, {"start"}) \subseteq C, Live(s.calls, {"init"}) \subseteq C,
           NEW u, Awaited(u), u.mode # "start", ~u.returning, Beside(s, u),
           u.job # 0, JobFor(v, u.job, u.loading),
           NEW R, R \subseteq Observers, NEW d, Makes(t, u, R, {d}),
           d.op = "poll", d.job = u.job,
           Learns(s, u)
    PROVE  Keeps(u, v, x)
<1>1. s \in TabState /\ u \in TabState /\ CallsTyped(u)
  <2>1. s \in TabState /\ u \in TabState /\ CallsTyped(s)
    BY DEF Controls, Makes
  <2> QED
    BY <2>1, CallsTypedKept
<1>2. ASSUME NEW ops, ops \cap (Observers \cup {"start", "init"}) = {}
      PROVE  Live(u.calls, ops) = Live(s.calls, ops)
  <2>1. \A c \in C : c \notin Live(s.calls, ops)
    BY <1>2 DEF Live, AllOf
  <2>2. \A e \in {d} : e.op \notin ops
    BY <1>2 DEF Observers
  <2>3. R \cap ops = {}
    BY <1>2
  <2> QED
    BY <1>1, <2>1, <2>2, <2>3, LiveSteady
<1>3. /\ Live(u.calls, {"return"}) = Live(s.calls, {"return"})
      /\ Live(u.calls, MutateOps) = Live(s.calls, MutateOps)
      /\ Live(u.calls, RefreshOps) = Live(s.calls, RefreshOps)
  BY <1>2 DEF Observers, MutateOps, RefreshOps
<1>4. Live(u.calls, {"start"}) = {} /\ Live(u.calls, {"init"}) = {}
  <2>1. /\ \A e \in {d} : e.op \notin {"start"}
        /\ \A e \in {d} : e.op \notin {"init"}
    OBVIOUS
  <2>2. \A e : e \in Live(u.calls, {"start"}) =>
                \/ e \in Live(s.calls, {"start"}) /\ e \notin C
                \/ e \in {d} /\ e.op \in {"start"}
    BY <1>1, LiveMade
  <2>3. \A e : e \in Live(u.calls, {"init"}) =>
                \/ e \in Live(s.calls, {"init"}) /\ e \notin C
                \/ e \in {d} /\ e.op \in {"init"}
    BY <1>1, LiveMade
  <2> QED
    BY <2>1, <2>2, <2>3
<1>5. Live(u.calls, Observers) = {d} /\ One(Live(u.calls, Observers))
  <2>1. Live(s.calls, Observers) = {} /\ d.op \in Observers
    BY DEF Controls, Observing, Observers
  <2> QED
    BY <1>1, <2>1, LiveNew
<1>6. /\ Live(s.calls, MutateOps) = {} /\ Live(s.calls, {"return"}) = {}
      /\ ~u.switching /\ ~u.refresh.on /\ u.refresh = s.refresh
  BY DEF Controls, Switching, Returning, Beside
<1>7. Starting(u) /\ Exclusive(u) /\ Asking(u) /\ Returning(u) /\ Switching(u)
  BY <1>3, <1>4, <1>6 DEF Starting, Exclusive, Asking, Returning, Switching
<1>8. Observing(u) /\ Refreshing(u, x)
  BY <1>3, <1>5, <1>6 DEF Controls, Observing, Awaited, Refreshing
<1>9. Controls(u, x)
  BY <1>1, <1>7, <1>8 DEF Controls
<1>10. Wanted(u, v)
  <2>1. ~Answered(d)
    BY DEF Makes, Fresh
  <2> QED
    BY <1>4, <1>5, <2>1, WantedKept
<1>11. Agreeing(u, v, x)
  <2>1. x \subseteq x
    OBVIOUS
  <2>2. \/ u.source = s.source /\ (s.mode = "start" => u.mode = "start")
        \/ \E c \in Live(s.calls, Looks) : c.reply \in Told /\ u.source = c.reply.source
    BY DEF Learns
  <2> QED
    BY <1>1, <1>3, <2>1, <2>2, AgreeingKept
<1> QED
  BY <1>9, <1>10, <1>11 DEF Keeps

\* The request that is heard is the only one.
LEMMA RequestEnds ==
    ASSUME NEW s, NEW v, NEW x, NEW c, NEW t, Ends(s, v, x, c, t), c.op = "start", c.live
    PROVE  /\ Live(s.calls, {"start"}) = {c} /\ s.loading # NoRoot /\ s.job = 0
           /\ ~s.returning /\ ~s.switching /\ ~s.refresh.on
           /\ s.obs = NoObservation /\ ~s.timer /\ Live(s.calls, Observers) = {}
           /\ Live(s.calls, {"init"}) = {} /\ s.mode # "start"
           /\ c.root = s.loading
<1>1. Controls(s, x) /\ Wanted(s, v) /\ c \in s.calls /\ s.mode # "start"
  BY EndsIs, Loaded
<1>2. c \in Live(s.calls, {"start"})
  BY <1>1 DEF Live
<1>3. Live(s.calls, {"start"}) = {c} /\ s.loading # NoRoot /\ s.job = 0
  BY <1>1, <1>2 DEF Controls, Asking, One
<1>4. /\ ~s.returning /\ ~s.switching /\ ~s.refresh.on
      /\ s.obs = NoObservation /\ ~s.timer /\ Live(s.calls, Observers) = {}
      /\ Live(s.calls, {"init"}) = {}
  BY <1>1, <1>3 DEF Controls, Exclusive, Observing, Starting
<1> QED
  BY <1>1, <1>2, <1>3, <1>4 DEF Wanted

\* Nothing changes but the lists, and a call for them or that no one waits for.
LEMMA ListsKeep ==
    ASSUME NEW s, NEW v, NEW x, NEW c, NEW t, Ends(s, v, x, c, t),
           ~c.live \/ c.op \in ListOps \cup {"stray"}, c.op # "init",
           NEW u, Around(t, u), u.refresh = t.refresh, NEW N, Makes(t, u, {}, N),
           \A d \in N : d.op = "stray" \/ (d.op \in ListOps /\ c.live /\ c.op \in ListOps),
           \/ u.source = t.source
           \/ t.job = 0 /\ c.live /\ c.op \in ListOps /\ c.reply \in Told
              /\ u.source = c.reply.source
    PROVE  Keeps(u, v, x) /\ Opens(s, u, c)
<1>1. /\ Controls(s, x) /\ Wanted(s, v) /\ Agreeing(s, v, x) /\ Taken(s, t, {c})
      /\ Same(s, t) /\ Around(s, t) /\ c \in s.calls
  BY EndsIs
<1>2. s.mode # "start"
  BY Loaded
<1>3. /\ u.mode = s.mode /\ u.loading = s.loading /\ u.job = s.job
      /\ u.returning = s.returning /\ Beside(s, u) /\ u.obs = s.obs /\ u.timer = s.timer
      /\ t.source = s.source /\ t.job = s.job
  <2>1. /\ u.mode = s.mode /\ u.loading = s.loading /\ u.job = s.job
        /\ u.returning = s.returning /\ u.switching = s.switching
        /\ u.obs = s.obs /\ u.timer = s.timer
    BY <1>1 DEF Around
  <2> QED
    BY <1>1, <2>1 DEF Same, Beside
<1>4. \A d \in {c} : ~d.live \/ d.op \in ListOps \cup {"stray"}
  OBVIOUS
<1>5. \A d \in N : d.op \in ListOps \cup {"stray"}
  OBVIOUS
<1>6. c.live /\ c.op \in ListOps => c \in Live(s.calls, ListOps) /\ c \in Live(s.calls, Looks)
  BY <1>1 DEF Live, Looks
<1>7. Live(s.calls, ListOps) = {} => \A d \in N : d.op \notin ListOps
  <2>1. "stray" \notin ListOps
    BY DEF ListOps
  <2> QED
    BY <1>6, <2>1
<1>8. \/ u.source = s.source
      \/ s.job = 0 /\ \E e \in Live(s.calls, Looks) : e.reply \in Told /\ u.source = e.reply.source
  BY <1>3, <1>6
<1>9. Controls(u, x) /\ Wanted(u, v) /\ Agreeing(u, v, x)
  BY <1>1, <1>2, <1>3, <1>4, <1>5, <1>7, <1>8, QuietKeeps
<1> QED
  BY <1>3, <1>9 DEF Keeps, Opens

\* selectProject after its await
LEMMA StartKeeps ==
    ASSUME NEW s, NEW v, NEW x, NEW c, NEW t, Ends(s, v, x, c, t), c.op = "start", Answered(c),
           NEW u, u = StartAnswered(t, c)
    PROVE  Keeps(u, v, x) /\ Opens(s, u, c)
<1>1. /\ Controls(s, x) /\ Wanted(s, v) /\ Agreeing(s, v, x) /\ Taken(s, t, {c})
      /\ Same(s, t) /\ Around(s, t) /\ c \in s.calls /\ t \in TabState /\ ReplyTyped(c)
  BY EndsIs
<1>2. PICK id : id = c.reply.job.id
  OBVIOUS
<1>3. id \in Nat /\ id # 0
  BY <1>1, <1>2 DEF ReplyTyped, StartOps, Accepted, JobRecord
<1>4. CASE ~c.live
  <2>1. PICK d : d = WithJob("stray", id, "none")
    OBVIOUS
  <2>2. d \in Fresh /\ d.op = "stray"
    <3>1. "stray" \in Ops /\ "none" \in Thens
      BY DEF Ops, Thens
    <3> QED
      BY <1>3, <2>1, <3>1, JobCall
  <2>3. u = Calling(t, d)
    <3>1. PICK e : e = Call("stray")
      OBVIOUS
    <3>2. e \in CallRecord /\ e.then = "none"
      <4>1. "stray" \in Ops
        BY DEF Ops
      <4> QED
        BY <3>1, <4>1, PlainCall DEF Call
    <3>3. d = [e EXCEPT !.job = id]
      BY <2>1, <3>1, <3>2 DEF WithJob, CallRecord
    <3> QED
      BY <1>2, <1>4, <3>1, <3>3 DEF StartAnswered
  <2>4. Makes(t, u, {}, {d}) /\ Same(t, u) /\ u.obs = t.obs /\ u.timer = t.timer
    BY <1>1, <2>2, <2>3, CallingIs
  <2>5. Around(t, u) /\ u.refresh = t.refresh /\ u.source = t.source
    BY <2>4 DEF Around, Same, Beside
  <2>6. \A e \in {d} : e.op = "stray" \/ (e.op \in ListOps /\ c.live /\ c.op \in ListOps)
    BY <2>2
  <2> QED
    BY <1>4, <2>4, <2>5, <2>6, ListsKeep
<1>5. CASE c.live
  <2>1. /\ Live(s.calls, {"start"}) = {c} /\ s.loading # NoRoot /\ s.job = 0
        /\ ~s.returning /\ ~s.switching /\ ~s.refresh.on
        /\ s.obs = NoObservation /\ ~s.timer /\ Live(s.calls, Observers) = {}
        /\ Live(s.calls, {"init"}) = {} /\ s.mode # "start" /\ c.root = s.loading
    BY <1>5, RequestEnds
  <2>2. PICK f : f = [t EXCEPT !.job = id]
    OBVIOUS
  <2>3. /\ f \in TabState /\ f.calls = t.calls /\ f.obs = t.obs /\ f.job = id
        /\ f.mode = t.mode /\ f.source = t.source /\ f.loading = t.loading
        /\ f.returning = t.returning /\ Beside(t, f)
    BY <1>1, <1>3, <2>2 DEF TabState, Beside
  <2>4. u = Polled(f, "tab") /\ f.obs = NoObservation
    BY <1>1, <1>2, <1>5, <2>1, <2>2, <2>3 DEF StartAnswered, Around
  <2>5. Polls(f, u)
    BY <2>3, <2>4, PolledIs
  <2>6. PICK R, d : /\ R \subseteq Observers /\ Makes(f, u, R, {d})
                    /\ d.op = "poll" /\ d.job = f.job
    BY <2>5 DEF Polls
  <2>7. Makes(t, u, {} \cup R, {d})
    BY <1>1, <2>3, <2>6, Assigns, Chain
  <2>8. /\ Awaited(u) /\ u.mode = s.mode /\ u.source = s.source /\ u.loading = s.loading
        /\ u.job = id /\ ~u.returning /\ Beside(s, u)
    BY <1>1, <2>1, <2>3, <2>5 DEF Polls, Same, Beside
  <2>9. JobFor(v, u.job, u.loading)
    <3>1. c \in Live(s.calls, {"start"})
      BY <2>1
    <3> QED
      BY <1>1, <1>2, <2>1, <2>8, <3>1 DEF Wanted
  <2>10. /\ AllOf({c}, {"start", "init"}) /\ Learns(s, u)
         /\ Live(s.calls, {"start"}) \subseteq {c} /\ Live(s.calls, {"init"}) \subseteq {c}
         /\ {} \cup R \subseteq Observers
         /\ d.job = u.job /\ u.job # 0
    BY <1>3, <2>1, <2>3, <2>6, <2>8 DEF AllOf, Learns
  <2>11. Keeps(u, v, x)
    BY <1>1, <2>1, <2>6, <2>7, <2>8, <2>9, <2>10, BeginKeeps
  <2> QED
    BY <2>8, <2>11 DEF Opens
<1> QED
  BY <1>4, <1>5

\* Giving up what no one waits for changes nothing.
LEMMA RetiredIdle ==
    ASSUME NEW calls \in SUBSET CallRecord, NEW R, Live(calls, R) = {}
    PROVE  Retired(calls, R) = calls
<1> DEFINE r(d) == [d EXCEPT !.live = d.live /\ d.op \notin R]
<1>1. ASSUME NEW d \in calls PROVE r(d) = d
  <2>1. (d.live /\ d.op \notin R) = d.live
    BY DEF Live, CallRecord
  <2>2. r(d) = [d EXCEPT !.live = d.live]
    BY <2>1
  <2> QED
    BY <2>2 DEF CallRecord
<1>2. Retired(calls, R) = {r(d) : d \in calls}
  BY Zenon DEF Retired
<1> HIDE DEF r
<1> QED
  BY <1>1, <1>2

LEMMA StartFailKeeps ==
    ASSUME NEW s, NEW v, NEW x, NEW c, NEW t, Ends(s, v, x, c, t), c.op = "start", c.live,
           NEW u, u = StartFailed(t, c)
    PROVE  Keeps(u, v, x) /\ Opens(s, u, c)
<1>1. /\ Controls(s, x) /\ Wanted(s, v) /\ Agreeing(s, v, x) /\ Taken(s, t, {c})
      /\ Same(s, t) /\ Around(s, t) /\ c \in s.calls /\ s \in TabState /\ t \in TabState
  BY EndsIs
<1>2. /\ Live(s.calls, {"start"}) = {c} /\ ~s.returning /\ ~s.switching /\ s.mode # "start"
      /\ s.obs = NoObservation /\ Live(s.calls, Observers) = {}
  BY RequestEnds
<1>3. u = [t EXCEPT !.timer = FALSE, !.job = 0, !.loading = NoRoot, !.returning = FALSE,
                    !.drawn = t.projects]
  BY DEF StartFailed
<1>4. /\ u \in TabState /\ u.calls = t.calls /\ ~u.timer /\ u.job = 0 /\ u.loading = NoRoot
      /\ ~u.returning /\ Beside(t, u) /\ u.obs = t.obs /\ u.mode = t.mode /\ u.source = t.source
  <2>1. NoRoot \in Roots /\ t.projects \in SUBSET Root
    BY <1>1 DEF Roots, TabState
  <2>2. PICK f : f = [t EXCEPT !.timer = FALSE, !.job = 0, !.loading = NoRoot]
    OBVIOUS
  <2>3. /\ f \in TabState /\ f.calls = t.calls /\ ~f.timer /\ f.job = 0
        /\ f.loading = NoRoot /\ Beside(t, f) /\ f.obs = t.obs
        /\ f.mode = t.mode /\ f.source = t.source
    BY <1>1, <2>1, <2>2 DEF TabState, Beside
  <2>4. u = [f EXCEPT !.returning = FALSE, !.drawn = t.projects]
    BY <1>1, <1>3, <2>2 DEF TabState
  <2>5. /\ u \in TabState /\ u.calls = f.calls /\ u.timer = f.timer /\ u.job = f.job
        /\ u.loading = f.loading /\ ~u.returning /\ Beside(f, u) /\ u.obs = f.obs
        /\ u.mode = f.mode /\ u.source = f.source
    BY <2>1, <2>3, <2>4 DEF TabState, Beside
  <2> QED
    BY <2>3, <2>5 DEF Beside
<1>5. Retired(t.calls, Observers) = t.calls
  <2>1. t.calls \in SUBSET CallRecord
    BY <1>1 DEF TabState
  <2>2. Live(t.calls, Observers) = {}
    BY <1>1, <1>2 DEF Taken, Live
  <2> QED
    BY <2>1, <2>2, RetiredIdle
<1>6. Makes(t, u, Observers, {})
  BY <1>4, <1>5 DEF Makes
<1>7. Closes(t, u)
  <2>1. u.obs = NoObservation
    BY <1>1, <1>2, <1>4 DEF Around
  <2> QED
    BY <1>4, <1>6, <2>1 DEF Closes, Closed
<1>8. /\ Live(s.calls, {"start"}) \subseteq {c} /\ (\A d \in {c} : d.op \notin RefreshOps)
      /\ x \subseteq x /\ u.mode = s.mode /\ u.source = s.source /\ Beside(s, t)
  BY <1>1, <1>2, <1>4 DEF RefreshOps, Same
<1>9. Controls(u, x) /\ Wanted(u, v)
  BY <1>1, <1>2, <1>7, <1>8, CloseKeeps
<1>10. Agreeing(u, v, x)
  BY <1>1, <1>2, <1>7, <1>8, CloseKeeps
<1> QED
  BY <1>8, <1>9, <1>10 DEF Keeps, Opens

-----------------------------------------------------------------------------
(* The lists of projects *)

\* Nothing the invariant speaks of changes but the source.
Lists(t, u) == Around(t, u) /\ u.refresh = t.refresh /\ Makes(t, u, {}, {})

LEMMA RedrawnIs ==
    ASSUME NEW t \in TabState, NEW c, NEW u, u = Redrawn(t, c)
    PROVE  Lists(t, u) /\ u.source = t.source
<1>1. CASE ListActive(t, c)
  <2>1. u = [t EXCEPT !.drawn = t.projects] /\ t.projects \in SUBSET Root
    BY <1>1 DEF Redrawn, TabState
  <2>2. u \in TabState /\ u.calls = t.calls /\ u.source = t.source
    BY <2>1 DEF TabState
  <2>3. Around(t, u) /\ u.refresh = t.refresh
    BY <2>1 DEF TabState, Around
  <2> QED
    BY <2>2, <2>3, Assigns DEF Lists
<1>2. CASE ~ListActive(t, c)
  <2>1. u = t
    BY <1>2 DEF Redrawn
  <2> QED
    BY <2>1, Assigns DEF Lists, Around
<1> QED
  BY <1>1, <1>2

LEMMA RelistedIs ==
    ASSUME NEW t \in TabState, NEW c, c.reply.source \in Source, NEW u, u = Relisted(t, c)
    PROVE  Lists(t, u) /\ u.source = c.reply.source
<1>1. PICK L \in SUBSET Root : L = Listed[c.reply.source]
  BY ChooserAssumption
<1>2. PICK source \in Sources : source = c.reply.source
  BY DEF Sources
<1>3. u = [t EXCEPT !.source = source, !.projects = L, !.drawn = L]
  BY <1>1, <1>2 DEF Relisted
<1>4. u \in TabState /\ u.calls = t.calls /\ u.source = source
  BY <1>3 DEF TabState
<1>5. Around(t, u) /\ u.refresh = t.refresh
  BY <1>3 DEF TabState, Around
<1> QED
  BY <1>2, <1>4, <1>5, Assigns DEF Lists

\* The projects are looked for.
LEMMA DiscoveringIs ==
    ASSUME NEW t \in TabState, NEW c \in CallRecord, c.live, NEW u, u = Discovering(t, c)
    PROVE  /\ Around(t, u) /\ u.refresh = t.refresh /\ u.source = t.source
           /\ \E d : d.op = "discover" /\ Makes(t, u, {}, {d})
<1>1. PICK d : d = [c EXCEPT !.op = "discover", !.reply = Unanswered]
  OBVIOUS
<1>2. d \in Fresh /\ d.op = "discover"
  <2>1. "discover" \in Ops /\ Unanswered \in Replies
    BY DEF Ops, Replies, Bare, Unanswered
  <2>2. d \in CallRecord /\ d.live = c.live /\ d.reply = Unanswered /\ d.op = "discover"
    BY <1>1, <2>1 DEF CallRecord
  <2> QED
    BY <2>2 DEF Fresh, Answered
<1>3. u = Calling(t, d)
  BY <1>1 DEF Discovering
<1>4. Makes(t, u, {}, {d}) /\ Same(t, u) /\ u.obs = t.obs /\ u.timer = t.timer
  BY <1>2, <1>3, CallingIs
<1> QED
  BY <1>2, <1>4 DEF Same, Beside, Around

\* A call for the lists, or one that no one waits for, ends and the lists may change.
LEMMA ListKeeps ==
    ASSUME NEW s, NEW v, NEW x, NEW c, NEW t, Ends(s, v, x, c, t),
           ~c.live \/ c.op \in ListOps \cup {"stray"}, c.op # "init",
           NEW u, Lists(t, u), u.source = t.source
    PROVE  Keeps(u, v, x) /\ Opens(s, u, c)
<1>1. Around(t, u) /\ u.refresh = t.refresh /\ Makes(t, u, {}, {})
  BY DEF Lists
<1>2. \A d \in {} : d.op = "stray" \/ (d.op \in ListOps /\ c.live /\ c.op \in ListOps)
  OBVIOUS
<1> QED
  BY <1>1, <1>2, ListsKeep

LEMMA SummaryKeeps ==
    ASSUME NEW s, NEW v, NEW x, NEW c, NEW t, Ends(s, v, x, c, t), c.op = "summary",
           Answered(c), NEW u, u = SummaryAnswered(t, c)
    PROVE  Keeps(u, v, x) /\ Opens(s, u, c)
<1>1. t \in TabState /\ c \in CallRecord /\ ReplyTyped(c) /\ c.op \in ListOps
  <2>1. t \in TabState /\ c \in CallRecord /\ ReplyTyped(c)
    BY EndsIs
  <2> QED
    BY <2>1 DEF ListOps
<1>2. CASE c.reply.code = 409
  <2>1. u = Redrawn(t, c)
    BY <1>2 DEF SummaryAnswered
  <2>2. Lists(t, u) /\ u.source = t.source
    BY <1>1, <2>1, RedrawnIs
  <2> QED
    BY <1>1, <2>2, ListKeeps
<1>3. CASE c.reply.code # 409 /\ ListActive(t, c)
  <2>1. c.reply \in Told /\ c.live /\ t.job = 0
    BY <1>1, <1>3 DEF ReplyTyped, ListActive, Conflict
  <2>2. c.reply.source \in Source
    BY <2>1 DEF Told
  <2>3. PICK f : f = Relisted(t, c)
    OBVIOUS
  <2>4. Lists(t, f) /\ f.source = c.reply.source
    BY <1>1, <2>2, <2>3, RelistedIs
  <2>5. u = Discovering(f, c)
    BY <1>3, <2>3 DEF SummaryAnswered
  <2>6. f \in TabState /\ Makes(t, f, {}, {})
    BY <2>4 DEF Lists, Makes
  <2>7. Around(f, u) /\ u.refresh = f.refresh /\ u.source = f.source
    BY <1>1, <2>1, <2>5, <2>6, DiscoveringIs
  <2>8. PICK d : d.op = "discover" /\ Makes(f, u, {}, {d})
    BY <1>1, <2>1, <2>5, <2>6, DiscoveringIs
  <2>9. Makes(t, u, {} \cup {}, {d})
    BY <1>1, <2>6, <2>8, Chain
  <2>10. Makes(t, u, {}, {d})
    BY <2>9
  <2>11. Around(t, u) /\ u.refresh = t.refresh /\ u.source = c.reply.source
    BY <2>4, <2>7 DEF Lists, Around
  <2>12. \A e \in {d} : e.op = "stray" \/ (e.op \in ListOps /\ c.live /\ c.op \in ListOps)
    BY <1>1, <2>1, <2>8 DEF ListOps
  <2> QED
    BY <1>1, <2>1, <2>10, <2>11, <2>12, ListsKeep
<1>4. CASE c.reply.code # 409 /\ ~ListActive(t, c)
  <2>1. u = t
    BY <1>4 DEF SummaryAnswered
  <2>2. Lists(t, u) /\ u.source = t.source
    BY <1>1, <2>1, Assigns DEF Lists, Around
  <2> QED
    BY <1>1, <2>2, ListKeeps
<1> QED
  BY <1>2, <1>3, <1>4

LEMMA SummaryFailKeeps ==
    ASSUME NEW s, NEW v, NEW x, NEW c, NEW t, Ends(s, v, x, c, t), c.op = "summary", c.live,
           NEW u, u = SummaryFailed(t, c)
    PROVE  Keeps(u, v, x) /\ Opens(s, u, c)
<1>1. t \in TabState /\ c \in CallRecord /\ c.op \in ListOps
  <2>1. t \in TabState /\ c \in CallRecord
    BY EndsIs
  <2> QED
    BY <2>1 DEF ListOps
<1>2. CASE ListActive(t, c)
  <2>1. u = Discovering(t, c)
    BY <1>2 DEF SummaryFailed
  <2>2. Around(t, u) /\ u.refresh = t.refresh /\ u.source = t.source
    BY <1>1, <2>1, DiscoveringIs
  <2>3. PICK d : d.op = "discover" /\ Makes(t, u, {}, {d})
    BY <1>1, <2>1, DiscoveringIs
  <2>4. \A e \in {d} : e.op = "stray" \/ (e.op \in ListOps /\ c.live /\ c.op \in ListOps)
    BY <1>1, <2>3 DEF ListOps
  <2> QED
    BY <1>1, <2>2, <2>3, <2>4, ListsKeep
<1>3. CASE ~ListActive(t, c)
  <2>1. u = t
    BY <1>3 DEF SummaryFailed
  <2>2. Lists(t, u) /\ u.source = t.source
    BY <1>1, <2>1, Assigns DEF Lists, Around
  <2> QED
    BY <1>1, <2>2, ListKeeps
<1> QED
  BY <1>2, <1>3

LEMMA DiscoverKeeps ==
    ASSUME NEW s, NEW v, NEW x, NEW c, NEW t, Ends(s, v, x, c, t), c.op = "discover",
           Answered(c), NEW u, u = DiscoverAnswered(t, c)
    PROVE  Keeps(u, v, x) /\ Opens(s, u, c)
<1>1. /\ Controls(s, x) /\ Wanted(s, v) /\ Agreeing(s, v, x) /\ Taken(s, t, {c})
      /\ Same(s, t) /\ s \in TabState /\ t \in TabState /\ c \in CallRecord
      /\ c \in s.calls /\ ReplyTyped(c) /\ c.op \in ListOps /\ s.mode # "start"
  <2>1. /\ Controls(s, x) /\ Wanted(s, v) /\ Agreeing(s, v, x) /\ Taken(s, t, {c})
        /\ Same(s, t) /\ s \in TabState /\ t \in TabState /\ c \in CallRecord
        /\ c \in s.calls /\ ReplyTyped(c) /\ s.mode # "start"
    BY EndsIs, Loaded
  <2> QED
    BY <2>1 DEF ListOps
<1>2. CASE c.reply.code = 409 \/ ~ListActive(t, c)
  <2>1. u = Redrawn(t, c)
    BY <1>2 DEF DiscoverAnswered
  <2>2. Lists(t, u) /\ u.source = t.source
    BY <1>1, <2>1, RedrawnIs
  <2> QED
    BY <1>1, <2>2, ListKeeps
<1>3. CASE c.reply.code # 409 /\ ListActive(t, c)
  <2>1. c.reply \in Told /\ c.live /\ t.job = 0
    BY <1>1, <1>3 DEF ReplyTyped, ListActive, Conflict
  <2>2. c.reply.source \in Source
    BY <2>1 DEF Told
  <2>3. PICK f : f = Relisted(t, c)
    OBVIOUS
  <2>4. Lists(t, f) /\ f.source = c.reply.source
    BY <1>1, <2>2, <2>3, RelistedIs
  <2>5. ASSUME u = f PROVE Keeps(u, v, x) /\ Opens(s, u, c)
    <3>1. Around(t, u) /\ u.refresh = t.refresh /\ Makes(t, u, {}, {})
      BY <2>4, <2>5 DEF Lists
    <3>2. \A d \in {} : d.op = "stray" \/ (d.op \in ListOps /\ c.live /\ c.op \in ListOps)
      OBVIOUS
    <3> QED
      BY <1>1, <2>1, <2>4, <2>5, <3>1, <3>2, ListsKeep
  <2>6. CASE c.root \notin Listed[c.reply.source]
    <3>1. u = f
      BY <1>3, <2>3, <2>6 DEF DiscoverAnswered
    <3> QED
      BY <2>5, <3>1
  <2>7. CASE c.root \in Listed[c.reply.source]
    <3>1. u = ProjectSelected(f, c.root)
      BY <1>3, <2>3, <2>7 DEF DiscoverAnswered
    <3>2. CASE Busy(f)
      <4>1. u = f
        BY <3>1, <3>2 DEF ProjectSelected
      <4> QED
        BY <2>5, <4>1
    <3>3. CASE ~Busy(f)
      <4>1. f \in TabState /\ Makes(t, f, {}, {}) /\ Around(t, f) /\ f.refresh = t.refresh
        BY <2>4 DEF Lists, Makes
      <4>2. PICK root : root = c.root
        OBVIOUS
      <4>3. root \in Root /\ root # NoRoot
        BY <2>2, <2>7, <4>2, ChooserAssumption
      <4>4. u = ProjectSelected(f, root)
        BY <3>1, <4>2
      <4>5. Asks(f, f, u, root) /\ u.source = f.source
        BY <3>3, <4>1, <4>3, <4>4, ProjectSelectedIs
      <4>6. PICK d : /\ Makes(f, u, Observers \cup Requests, {d})
                     /\ d.op = "start" /\ d.root = root
        BY <4>5 DEF Asks
      <4>7. Makes(t, u, {} \cup (Observers \cup Requests), {d})
        BY <1>1, <4>1, <4>6, Chain
      <4>8. Makes(t, u, Observers \cup Requests, {d})
        BY <4>7
      <4>9. ~Busy(s)
        BY <1>1, <3>3, <4>1 DEF Busy, Around, Same, Beside
      <4>10. Asks(s, t, u, root) /\ u.mode = s.mode /\ u.source = c.reply.source
        BY <1>1, <2>4, <4>1, <4>5, <4>6, <4>8 DEF Asks, Around, Same, Beside
      <4>11. AllOf({c}, ListOps)
        BY <1>1 DEF AllOf
      <4>12. \/ u.source = s.source
             \/ \E e \in Live(s.calls, Looks) : e.reply \in Told /\ u.source = e.reply.source
        <5>1. c \in Live(s.calls, Looks)
          BY <1>1, <2>1 DEF Live, Looks
        <5> QED
          BY <2>1, <4>10, <5>1
      <4>14. Asks(s, t, u, root)
        BY <4>10
      <4>13. Controls(u, x) /\ Wanted(u, v) /\ Agreeing(u, v, x)
        BY <1>1, <4>3, <4>9, <4>11, <4>12, <4>14, SelectKeeps
      <4> QED
        BY <4>10, <4>13 DEF Keeps, Opens
    <3> QED
      BY <3>2, <3>3
  <2> QED
    BY <2>6, <2>7
<1> QED
  BY <1>2, <1>3

LEMMA DiscoverFailKeeps ==
    ASSUME NEW s, NEW v, NEW x, NEW c, NEW t, Ends(s, v, x, c, t), c.op = "discover",
           NEW u, u = Redrawn(t, c)
    PROVE  Keeps(u, v, x) /\ Opens(s, u, c)
<1>1. t \in TabState
  BY EndsIs
<1>2. Lists(t, u) /\ u.source = t.source
  BY <1>1, RedrawnIs
<1>3. c.op \in ListOps
  BY DEF ListOps
<1> QED
  BY <1>2, <1>3, ListKeeps

\* The cancellation of a job that no one waits for any more
LEMMA StrayKeeps ==
    ASSUME NEW s, NEW v, NEW x, NEW c, NEW t, Ends(s, v, x, c, t), c.op = "stray"
    PROVE  Keeps(t, v, x) /\ Opens(s, t, c)
<1>1. t \in TabState
  BY EndsIs
<1>2. Lists(t, t)
  BY <1>1, Assigns DEF Lists, Around
<1> QED
  BY <1>2, ListKeeps

-----------------------------------------------------------------------------
(* The return to the project that is open *)

LEMMA ClosedIs ==
    ASSUME NEW t \in TabState, NEW u \in TabState, u.calls = t.calls,
           Live(t.calls, Observers) = {}, Closed(u), ~u.returning, Beside(t, u)
    PROVE  Closes(t, u)
<1>1. Retired(t.calls, Observers) = t.calls
  BY RetiredIdle DEF TabState
<1>2. Makes(t, u, Observers, {})
  BY <1>1 DEF Makes
<1> QED
  BY <1>2 DEF Closes

LEMMA ReturnEnds ==
    ASSUME NEW s, NEW v, NEW x, NEW c, NEW t, Ends(s, v, x, c, t), c.op = "return"
    PROVE  /\ c.live /\ Live(s.calls, {"return"}) = {c} /\ s.returning
           /\ s.loading = NoRoot /\ s.job = 0 /\ ~s.switching /\ ~s.refresh.on
           /\ s.obs = NoObservation /\ ~s.timer /\ Live(s.calls, Observers) = {}
           /\ Live(s.calls, {"start"}) = {} /\ s.mode # "start"
<1>1. Controls(s, x) /\ c \in s.calls /\ s.mode # "start"
      /\ (c.live \/ c.op \in Observers \cup Requests)
  BY EndsIs, Loaded
<1>2. c.live /\ c \in Live(s.calls, {"return"})
  BY <1>1 DEF Live, Observers, Requests
<1>3. s.returning /\ Live(s.calls, {"return"}) = {c}
  BY <1>1, <1>2 DEF Controls, Returning, One
<1>4. s.loading = NoRoot /\ s.job = 0 /\ ~s.switching /\ ~s.refresh.on
  BY <1>1, <1>3 DEF Controls, Exclusive
<1> QED
  BY <1>1, <1>2, <1>3, <1>4 DEF Controls, Observing, Asking

\* The return is over, with the project or without.
LEMMA ReturnsKeep ==
    ASSUME NEW s, NEW v, NEW x, NEW c, NEW t, Ends(s, v, x, c, t), c.op = "return",
           NEW u, Closes(t, u), u.mode # "start",
           u.source = s.source \/ (c.reply \in Told /\ u.source = c.reply.source)
    PROVE  Keeps(u, v, x) /\ Opens(s, u, c)
<1>1. /\ Controls(s, x) /\ Wanted(s, v) /\ Agreeing(s, v, x) /\ Taken(s, t, {c})
      /\ Same(s, t) /\ c \in s.calls
  BY EndsIs
<1>2. /\ c.live /\ Live(s.calls, {"return"}) = {c} /\ s.returning /\ ~s.switching
      /\ Live(s.calls, {"start"}) = {} /\ s.mode # "start"
  BY ReturnEnds
<1>3. /\ Live(s.calls, {"start"}) \subseteq {c} /\ Live(s.calls, {"return"}) \subseteq {c}
      /\ (\A d \in {c} : d.op \notin RefreshOps) /\ x \subseteq x /\ Beside(s, t)
      /\ c \in Live(s.calls, Looks)
  BY <1>1, <1>2 DEF RefreshOps, Same, Live, Looks
<1>4. Controls(u, x) /\ Wanted(u, v)
  BY <1>1, <1>2, <1>3, CloseKeeps
<1>5. \/ u.source = s.source /\ s.mode # "start"
      \/ \E d \in Live(s.calls, Looks) : d.reply \in Told /\ u.source = d.reply.source
  BY <1>2, <1>3
<1>6. Agreeing(u, v, x)
  BY <1>1, <1>2, <1>3, <1>5, CloseKeeps
<1> QED
  BY <1>2, <1>4, <1>6 DEF Keeps, Opens

LEMMA ReturnFailKeeps ==
    ASSUME NEW s, NEW v, NEW x, NEW c, NEW t, Ends(s, v, x, c, t), c.op = "return",
           NEW u, u = [t EXCEPT !.returning = FALSE]
    PROVE  Keeps(u, v, x) /\ Opens(s, u, c)
<1>1. t \in TabState /\ Same(s, t) /\ Around(s, t) /\ Taken(s, t, {c})
  BY EndsIs
<1>2. /\ s.loading = NoRoot /\ s.job = 0 /\ s.obs = NoObservation /\ ~s.timer
      /\ Live(s.calls, Observers) = {} /\ s.mode # "start"
  BY ReturnEnds
<1>3. /\ u \in TabState /\ u.calls = t.calls /\ u.loading = t.loading /\ u.job = t.job
      /\ u.obs = t.obs /\ u.timer = t.timer /\ ~u.returning /\ u.mode = t.mode
      /\ u.source = t.source /\ Beside(t, u)
  BY <1>1 DEF TabState, Beside
<1>4. Closed(u)
  BY <1>1, <1>2, <1>3 DEF Closed, Around
<1>5. Live(t.calls, Observers) = {}
  BY <1>1, <1>2 DEF Taken, Live
<1>6. Closes(t, u)
  BY <1>1, <1>3, <1>4, <1>5, ClosedIs
<1>7. u.mode # "start" /\ u.source = s.source
  BY <1>1, <1>2, <1>3 DEF Same
<1> QED
  BY <1>6, <1>7, ReturnsKeep

LEMMA ReturnHeardKeeps ==
    ASSUME NEW s, NEW v, NEW x, NEW c, NEW t, Ends(s, v, x, c, t), c.op = "return", Answered(c),
           NEW u, u = ReturnAnswered(t, c)
    PROVE  Keeps(u, v, x) /\ Opens(s, u, c)
<1>1. t \in TabState /\ c.reply \in Told
  <2>1. t \in TabState /\ ReplyTyped(c)
    BY EndsIs
  <2> QED
    BY <2>1 DEF ReplyTyped, StartOps, StatusOps, ListOps
<1>2. CASE c.reply.code # 409 /\ c.reply.current # NoRoot
  <2>1. PICK reply \in Told : reply = c.reply
    BY <1>1
  <2>2. u = Opened(t, reply)
    BY <1>2, <2>1 DEF ReturnAnswered
  <2>3. Closes(t, u) /\ u.mode = "analyze" /\ u.source = reply.source
    BY <1>1, <2>2, OpenedIs
  <2> QED
    BY <1>1, <2>1, <2>3, ReturnsKeep
<1>3. CASE ~(c.reply.code # 409 /\ c.reply.current # NoRoot)
  <2>1. u = [t EXCEPT !.returning = FALSE]
    BY <1>3 DEF ReturnAnswered
  <2> QED
    BY <2>1, ReturnFailKeeps
<1> QED
  BY <1>2, <1>3

-----------------------------------------------------------------------------
(* The change of the source *)

LEMMA MutateEnds ==
    ASSUME NEW s, NEW v, NEW x, NEW c, NEW t, Ends(s, v, x, c, t), c.op \in MutateOps
    PROVE  /\ c.live /\ c \in Live(s.calls, MutateOps) /\ Live(s.calls, MutateOps) = {c}
           /\ s.switching /\ s.loading = NoRoot /\ s.job = 0
           /\ s.obs = NoObservation /\ s.mode # "start"
<1>1. Controls(s, x) /\ c \in s.calls /\ s.mode # "start"
      /\ (c.live \/ c.op \in Observers \cup Requests)
  <2>1. c.op # "init"
    BY DEF MutateOps
  <2> QED
    BY <2>1, EndsIs, Loaded
<1>2. c.live /\ c \in Live(s.calls, MutateOps)
  BY <1>1 DEF Live, Observers, Requests, MutateOps
<1>3. s.switching /\ Live(s.calls, MutateOps) = {c}
  BY <1>1, <1>2 DEF Controls, Switching, One
<1>4. s.loading = NoRoot /\ s.job = 0
  BY <1>1, <1>3 DEF Controls, Exclusive
<1> QED
  BY <1>1, <1>2, <1>3, <1>4 DEF Controls, Observing

LEMMA SourcedIs ==
    ASSUME NEW t \in TabState, NEW source \in Source, NEW u, u = Sourced(t, source)
    PROVE  Lists(t, u) /\ u.source = source
<1>1. PICK r \in Roots : r = IF source = t.source THEN t.failed ELSE NoRoot
  BY DEF TabState, Roots
<1>2. u = [t EXCEPT !.source = source, !.failed = r]
  BY <1>1 DEF Sourced, TabState
<1>3. u \in TabState /\ u.calls = t.calls /\ u.source = source
  BY <1>2 DEF TabState, Sources
<1>4. Around(t, u) /\ u.refresh = t.refresh
  BY <1>2 DEF TabState, Around
<1> QED
  BY <1>3, <1>4, Assigns DEF Lists

\* The controls are free again: u is f, the tab with what it heard of the source,
\* after the call c; the project list is asked for where it may have changed.
Lets(f, u, c, done) ==
  /\ Frees(f, u) /\ u.source = f.source
  /\ \/ Makes(f, u, {}, {}) /\ (done => c.then # "home")
     \/ Makes(f, u, Requests, {Listing(NoRoot)})

LEMMA FreedKeeps ==
    ASSUME NEW s, NEW v, NEW x, NEW c, NEW t, Ends(s, v, x, c, t), c.op \in MutateOps,
           NEW x2, x2 \in {x, x \cup {"source"}},
           NEW f, Lists(t, f), NEW done \in BOOLEAN, NEW u, Lets(f, u, c, done),
           \/ "source" \in x2
           \/ done /\ f.source = v.source
           \/ ~Moved(s, v) /\ (f.source = s.source \/ f.source = v.source)
    PROVE  Keeps(u, v, x2) /\ Opens(s, u, c)
<1>1. /\ Controls(s, x) /\ Wanted(s, v) /\ Agreeing(s, v, x) /\ Taken(s, t, {c})
      /\ Around(s, t) /\ Same(s, t) /\ t \in TabState
  BY EndsIs
<1>2. c \in Live(s.calls, MutateOps)
  BY MutateEnds
<1>3. Frees(s, u) /\ u.source = f.source
  BY <1>1 DEF Lets, Lists, Frees, Around, Same, Beside
<1>4. f \in TabState /\ Makes(t, f, {}, {})
  BY DEF Lists, Makes
<1>5. CASE Makes(f, u, {}, {}) /\ (done => c.then # "home")
  <2>1. Makes(t, u, {} \cup {}, {})
    BY <1>1, <1>4, <1>5, Chain
  <2>2. Makes(t, u, {}, {}) /\ {} \subseteq Requests
    BY <2>1
  <2>3. \/ "source" \in x2
        \/ u.source = v.source /\ ({} = {} => c.then # "home")
        \/ ~Moved(s, v) /\ (u.source = s.source \/ u.source = v.source)
    BY <1>3, <1>5
  <2>4. Controls(u, x2) /\ Wanted(u, v) /\ Agreeing(u, v, x2)
    BY <1>1, <1>2, <1>3, <2>2, <2>3, SwitchedKeeps
  <2> QED
    BY <1>3, <2>4 DEF Keeps, Opens, Frees
<1>6. CASE Makes(f, u, Requests, {Listing(NoRoot)})
  <2>1. Makes(t, u, {} \cup Requests, {Listing(NoRoot)})
    BY <1>1, <1>4, <1>6, Chain
  <2>2. Makes(t, u, Requests, {Listing(NoRoot)}) /\ Requests \subseteq Requests
    BY <2>1
  <2>3. PICK N : N = {Listing(NoRoot)}
    OBVIOUS
  <2>4. N # {}
    BY <2>3
  <2>5. \/ "source" \in x2
        \/ u.source = v.source /\ (N = {} => c.then # "home")
        \/ ~Moved(s, v) /\ (u.source = s.source \/ u.source = v.source)
    BY <1>3, <2>4
  <2>6. Makes(t, u, Requests, N)
    BY <2>2, <2>3
  <2>7. N = {} \/ (Requests \subseteq Requests /\ N = {Listing(NoRoot)})
    BY <2>3
  <2>8. Controls(u, x2) /\ Wanted(u, v) /\ Agreeing(u, v, x2)
    BY <1>1, <1>2, <1>3, <2>2, <2>5, <2>6, <2>7, SwitchedKeeps
  <2> QED
    BY <1>3, <2>8 DEF Keeps, Opens, Frees
<1> QED
  BY <1>5, <1>6 DEF Lets

LEMMA FailedLets ==
    ASSUME NEW f \in TabState, f.obs = NoObservation, NEW c, NEW u, u = MutationFailed(f, c)
    PROVE  Lets(f, u, c, FALSE)
BY MutationFailedIs DEF Lets

LEMMA DoneLets ==
    ASSUME NEW f \in TabState, f.obs = NoObservation, NEW c, NEW selected \in BOOLEAN,
           NEW u, u = MutationDone(f, c, selected)
    PROVE  Lets(f, u, c, TRUE)
BY MutationDoneIs DEF Lets

\* What the tab hears of its change is what the server has.
LEMMA ChangeTold ==
    ASSUME NEW s, NEW v, NEW x, NEW c, NEW t, Ends(s, v, x, c, t), c.op \in MutateOps,
           Answered(c)
    PROVE  /\ c.reply \in Told /\ c.reply.source \in Source
           /\ "source" \in x \/ c.reply.source = v.source
<1>1. Agreeing(s, v, x) /\ ReplyTyped(c)
  BY EndsIs
<1>2. c \in Live(s.calls, MutateOps)
  BY MutateEnds
<1>3. c.reply \in Told
  BY <1>1 DEF ReplyTyped, StartOps, StatusOps, ListOps, MutateOps
<1> QED
  BY <1>1, <1>2, <1>3 DEF Told, Agreeing

LEMMA MutateHeardKeeps ==
    ASSUME NEW s, NEW v, NEW x, NEW c, NEW t, Ends(s, v, x, c, t), c.op = "mutate", Answered(c),
           NEW u, u = MutateAnswered(t, c)
    PROVE  Keeps(u, v, x) /\ Opens(s, u, c)
<1>1. t \in TabState /\ Around(s, t) /\ c.op \in MutateOps
  <2>1. t \in TabState /\ Around(s, t)
    BY EndsIs
  <2> QED
    BY <2>1 DEF MutateOps
<1>2. c.reply.source \in Source /\ ("source" \in x \/ c.reply.source = v.source)
  BY <1>1, ChangeTold
<1>3. PICK f : f = Sourced(t, c.reply.source)
  OBVIOUS
<1>4. Lists(t, f) /\ f.source = c.reply.source
  BY <1>1, <1>2, <1>3, SourcedIs
<1>5. f \in TabState /\ f.obs = NoObservation
  <2>1. s.obs = NoObservation
    BY <1>1, MutateEnds
  <2> QED
    BY <1>1, <1>4, <2>1 DEF Lists, Makes, Around
<1>6. PICK selected \in BOOLEAN : selected = (c.reply.current # NoRoot)
  OBVIOUS
<1>7. u = MutationDone(f, c, selected)
  BY <1>3, <1>6 DEF MutateAnswered
<1>8. Lets(f, u, c, TRUE)
  BY <1>5, <1>7, DoneLets
<1>9. x \in {x, x \cup {"source"}} /\ TRUE \in BOOLEAN
  OBVIOUS
<1>10. \/ "source" \in x
       \/ TRUE /\ f.source = v.source
       \/ ~Moved(s, v) /\ (f.source = s.source \/ f.source = v.source)
  BY <1>2, <1>4
<1> QED
  BY <1>1, <1>4, <1>8, <1>9, <1>10, FreedKeeps

\* The server refuses the change, which it did not make.
LEMMA RefuseKeeps ==
    ASSUME NEW s, NEW v, NEW x, NEW c, NEW t, Ends(s, v, x, c, t), c.op = "mutate", ~Answered(c),
           NEW u, u = MutationFailed(t, c)
    PROVE  Keeps(u, v, x) /\ Opens(s, u, c)
<1>1. t \in TabState /\ Around(s, t) /\ Same(s, t) /\ c.op \in MutateOps
  <2>1. t \in TabState /\ Around(s, t) /\ Same(s, t)
    BY EndsIs
  <2> QED
    BY <2>1 DEF MutateOps
<1>2. s.obs = NoObservation /\ Live(s.calls, MutateOps) = {c}
  BY <1>1, MutateEnds
<1>3. Lists(t, t)
  BY <1>1, Assigns DEF Lists, Around
<1>4. t.obs = NoObservation /\ t.source = s.source
  BY <1>1, <1>2 DEF Around, Same
<1>5. Lets(t, u, c, FALSE)
  BY <1>1, <1>4, FailedLets
<1>6. ~Moved(s, v)
  BY <1>2 DEF Moved
<1>7. x \in {x, x \cup {"source"}} /\ FALSE \in BOOLEAN
  OBVIOUS
<1>8. \/ "source" \in x
      \/ FALSE /\ t.source = v.source
      \/ ~Moved(s, v) /\ (t.source = s.source \/ t.source = v.source)
  BY <1>4, <1>6
<1> QED
  BY <1>1, <1>3, <1>5, <1>7, <1>8, FreedKeeps

\* Neither the change nor the look after it is answered.
LEMMA ReconcileLostKeeps ==
    ASSUME NEW s, NEW v, NEW x, NEW c, NEW t, Ends(s, v, x, c, t), c.op = "reconcile",
           NEW u, u = MutationFailed(t, c)
    PROVE  Keeps(u, v, x \cup {"source"}) /\ Opens(s, u, c)
<1>1. t \in TabState /\ Around(s, t) /\ c.op \in MutateOps
  <2>1. t \in TabState /\ Around(s, t)
    BY EndsIs
  <2> QED
    BY <2>1 DEF MutateOps
<1>2. s.obs = NoObservation
  BY <1>1, MutateEnds
<1>3. Lists(t, t)
  BY <1>1, Assigns DEF Lists, Around
<1>4. t.obs = NoObservation
  BY <1>1, <1>2 DEF Around
<1>5. Lets(t, u, c, FALSE)
  BY <1>1, <1>4, FailedLets
<1>6. "source" \in x \cup {"source"}
  OBVIOUS
<1>7. x \cup {"source"} \in {x, x \cup {"source"}} /\ FALSE \in BOOLEAN
  BY <1>6
<1>8. \/ "source" \in x \cup {"source"}
      \/ FALSE /\ t.source = v.source
      \/ ~Moved(s, v) /\ (t.source = s.source \/ t.source = v.source)
  BY <1>6
<1> QED
  BY <1>1, <1>3, <1>5, <1>7, <1>8, FreedKeeps

LEMMA ReconcileHeardKeeps ==
    ASSUME NEW s, NEW v, NEW x, NEW c, NEW t, Ends(s, v, x, c, t), c.op = "reconcile",
           Answered(c), NEW u, u = ReconcileAnswered(t, c)
    PROVE  Keeps(u, v, x) /\ Opens(s, u, c)
<1>1. t \in TabState /\ Around(s, t) /\ c.op \in MutateOps
  <2>1. t \in TabState /\ Around(s, t)
    BY EndsIs
  <2> QED
    BY <2>1 DEF MutateOps
<1>2. /\ c.reply \in Told /\ c.reply.source \in Source
      /\ ("source" \in x \/ c.reply.source = v.source)
  BY <1>1, ChangeTold
<1>3. PICK g : g = Sourced(t, c.reply.source)
  OBVIOUS
<1>4. Lists(t, g) /\ g.source = c.reply.source
  BY <1>1, <1>2, <1>3, SourcedIs
<1>5. g \in TabState
  BY <1>4 DEF Lists, Makes
<1>6. PICK f : f = [g EXCEPT !.root = c.reply.current,
                             !.projects = IF c.reply.current = NoRoot THEN {} ELSE g.projects]
  OBVIOUS
<1>7. Lists(t, f) /\ f.source = c.reply.source /\ f \in TabState
  <2>1. PICK P \in SUBSET Root : P = IF c.reply.current = NoRoot THEN {} ELSE g.projects
    BY <1>5 DEF TabState
  <2>2. PICK r \in Roots : r = c.reply.current
    BY <1>2 DEF Told
  <2>3. f = [g EXCEPT !.root = r, !.projects = P]
    BY <1>6, <2>1, <2>2
  <2>4. f \in TabState /\ f.calls = g.calls /\ f.source = g.source
    BY <1>5, <2>3 DEF TabState
  <2>5. Around(g, f) /\ f.refresh = g.refresh
    BY <1>5, <2>3 DEF TabState, Around
  <2>6. Makes(t, f, {}, {})
    BY <1>4, <2>4 DEF Lists, Makes
  <2>7. Around(t, f) /\ f.refresh = t.refresh
    BY <1>4, <2>5 DEF Lists, Around
  <2> QED
    BY <1>4, <2>4, <2>6, <2>7 DEF Lists
<1>8. f.obs = NoObservation /\ Live(s.calls, MutateOps) = {c}
  <2>1. s.obs = NoObservation /\ Live(s.calls, MutateOps) = {c}
    BY <1>1, MutateEnds
  <2> QED
    BY <1>1, <1>7, <2>1 DEF Lists, Around
<1>9. x \in {x, x \cup {"source"}} /\ TRUE \in BOOLEAN /\ FALSE \in BOOLEAN
  OBVIOUS
<1>10. CASE c.reply.source = c.source
  <2>1. PICK selected \in BOOLEAN : selected = (c.reply.current # NoRoot)
    OBVIOUS
  <2>2. u = MutationDone(f, c, selected)
    BY <1>3, <1>6, <1>10, <2>1 DEF ReconcileAnswered
  <2>3. Lets(f, u, c, TRUE)
    BY <1>7, <1>8, <2>2, DoneLets
  <2>4. \/ "source" \in x
        \/ TRUE /\ f.source = v.source
        \/ ~Moved(s, v) /\ (f.source = s.source \/ f.source = v.source)
    BY <1>2, <1>7
  <2> QED
    BY <1>1, <1>7, <1>9, <2>3, <2>4, FreedKeeps
<1>11. CASE c.reply.source # c.source
  <2>1. u = MutationFailed(f, c)
    BY <1>3, <1>6, <1>11 DEF ReconcileAnswered
  <2>2. Lets(f, u, c, FALSE)
    BY <1>7, <1>8, <2>1, FailedLets
  <2>3. "source" \in x \/ ~Moved(s, v)
    BY <1>2, <1>8, <1>11 DEF Moved
  <2>4. \/ "source" \in x
        \/ FALSE /\ f.source = v.source
        \/ ~Moved(s, v) /\ (f.source = s.source \/ f.source = v.source)
    BY <1>2, <1>7, <2>3
  <2> QED
    BY <1>1, <1>7, <1>9, <2>2, <2>4, FreedKeeps
<1> QED
  BY <1>10, <1>11

LEMMA MutateLostKeeps ==
    ASSUME NEW s, NEW v, NEW x, NEW c, NEW t, Ends(s, v, x, c, t), c.op = "mutate",
           NEW u, u = MutateFailed(t, c)
    PROVE  Keeps(u, v, x) /\ Opens(s, u, c)
<1>1. /\ Controls(s, x) /\ Wanted(s, v) /\ Agreeing(s, v, x) /\ Taken(s, t, {c})
      /\ Around(s, t) /\ Same(s, t)
  BY EndsIs
<1>2. c \in Live(s.calls, MutateOps)
  <2>1. c.op \in MutateOps
    BY DEF MutateOps
  <2> QED
    BY <2>1, MutateEnds
<1>3. t.obs = s.obs /\ t.timer = s.timer
  BY <1>1 DEF Around
<1>4. Controls(u, x) /\ Wanted(u, v) /\ Agreeing(u, v, x) /\ u.mode = s.mode
  BY <1>1, <1>2, <1>3, ReconcilingKeeps
<1> QED
  BY <1>4 DEF Keeps, Opens

-----------------------------------------------------------------------------
(* The refresh of the project *)

LEMMA RefreshEnds ==
    ASSUME NEW s, NEW v, NEW x, NEW c, NEW t, Ends(s, v, x, c, t), c.op \in RefreshOps
    PROVE  /\ c.live /\ Live(s.calls, RefreshOps) = {c} /\ "refresh" \notin x
           /\ s.refresh.on /\ ~s.refresh.timer
           /\ s.loading = NoRoot /\ s.job = 0 /\ ~s.returning /\ ~s.switching
           /\ s.obs = NoObservation /\ s.mode # "start"
           /\ Live(s.calls, {"start"}) = {} /\ Live(s.calls, {"return"}) = {}
<1>1. Controls(s, x) /\ c \in s.calls /\ s.mode # "start"
      /\ (c.live \/ c.op \in Observers \cup Requests)
  <2>1. c.op # "init"
    BY DEF RefreshOps
  <2> QED
    BY <2>1, EndsIs, Loaded
<1>2. c.live /\ c \in Live(s.calls, RefreshOps)
  BY <1>1 DEF Live, Observers, Requests, RefreshOps
<1>3. /\ s.refresh.on /\ "refresh" \notin x /\ ~s.refresh.timer
      /\ Live(s.calls, RefreshOps) = {c}
  BY <1>1, <1>2 DEF Controls, Refreshing, One
<1>4. s.loading = NoRoot /\ s.job = 0 /\ ~s.returning /\ ~s.switching
  BY <1>1, <1>3 DEF Controls, Exclusive
<1> QED
  BY <1>1, <1>2, <1>3, <1>4 DEF Controls, Observing, Asking, Returning

\* The refresh goes on or is over, and the tab may have heard of the source.
LEMMA RefreshesKeep ==
    ASSUME NEW s, NEW v, NEW x, NEW c, NEW t, Ends(s, v, x, c, t), c.op \in RefreshOps,
           NEW u, Refreshes(t, u),
           \/ u.source = t.source
           \/ c.op \in Looks /\ c.reply \in Told /\ u.source = c.reply.source
    PROVE  Keeps(u, v, x) /\ Opens(s, u, c)
<1>1. /\ Controls(s, x) /\ Wanted(s, v) /\ Agreeing(s, v, x) /\ Taken(s, t, {c})
      /\ Around(s, t) /\ Same(s, t) /\ c \in s.calls
  BY EndsIs
<1>2. c.live /\ Live(s.calls, RefreshOps) = {c} /\ "refresh" \notin x /\ s.refresh.on
  BY RefreshEnds
<1>3. /\ Live(s.calls, RefreshOps) \subseteq {c} /\ AllOf({c}, RefreshOps)
      /\ x \in {x, x \cup {"refresh"}} /\ Turns(t, u, x, x)
  BY <1>2 DEF AllOf, Turns
<1>4. Hears(s, u)
  BY <1>1, <1>2 DEF Hears, Live, Same
<1>5. Controls(u, x) /\ Wanted(u, v) /\ Agreeing(u, v, x)
  BY <1>1, <1>2, <1>3, <1>4, RefreshKeeps
<1>6. u.mode = s.mode
  BY <1>1 DEF Refreshes, Around
<1> QED
  BY <1>5, <1>6 DEF Keeps, Opens

LEMMA RefreshBegunKeeps ==
    ASSUME NEW s, NEW v, NEW x, NEW c, NEW t, Ends(s, v, x, c, t), c.op = "refresh", Answered(c),
           NEW u, u = RefreshStarted(t, c)
    PROVE  Keeps(u, v, x) /\ Opens(s, u, c)
<1>1. t \in TabState /\ t.refresh = s.refresh /\ c.reply \in Accepted /\ c.op \in RefreshOps
  <2>1. t \in TabState /\ Same(s, t) /\ ReplyTyped(c)
    BY EndsIs
  <2> QED
    BY <2>1 DEF ReplyTyped, StartOps, RefreshOps, Same, Beside
<1>2. t.refresh.on
  BY <1>1, RefreshEnds
<1>3. Refreshes(t, u) /\ u.source = t.source
  BY <1>1, <1>2, RefreshStartedIs
<1> QED
  BY <1>1, <1>3, RefreshesKeep

LEMMA RefreshLostKeeps ==
    ASSUME NEW s, NEW v, NEW x, NEW c, NEW t, Ends(s, v, x, c, t), c.op \in RefreshOps,
           NEW retryable \in BOOLEAN, NEW u, u = RefreshFailed(t, retryable)
    PROVE  Keeps(u, v, x) /\ Opens(s, u, c)
<1>1. t \in TabState /\ t.refresh = s.refresh
  <2>1. t \in TabState /\ Same(s, t)
    BY EndsIs
  <2> QED
    BY <2>1 DEF Same, Beside
<1>2. t.refresh.on
  BY <1>1, RefreshEnds
<1>3. Refreshes(t, u) /\ u.source = t.source
  BY <1>1, <1>2, RefreshFailedIs
<1> QED
  BY <1>3, RefreshesKeep

\* The refresh goes on when its timer fires.
LEMMA TimerSet ==
    ASSUME NEW t \in TabState, t.refresh.on, NEW u, u = [t EXCEPT !.refresh.timer = TRUE]
    PROVE  Refreshes(t, u) /\ u.source = t.source
<1>1. t.refresh \in RefreshState
  BY DEF TabState
<1>2. PICK r \in RefreshState :
        r = [t.refresh EXCEPT !.timer = TRUE] /\ r.on = t.refresh.on /\ r.timer = TRUE
  <2>1. [t.refresh EXCEPT !.timer = TRUE] \in RefreshState
    BY <1>1 DEF RefreshState
  <2>2. ASSUME NEW r, r = [t.refresh EXCEPT !.timer = TRUE]
        PROVE  r.on = t.refresh.on /\ r.timer = TRUE
    BY <1>1, <2>2 DEF RefreshState
  <2> QED
    BY <2>1, <2>2
<1>3. PICK q : q = [t EXCEPT !.refresh = r]
  OBVIOUS
<1>7. u = q
  BY <1>2, <1>3 DEF TabState
<1>8. /\ q \in TabState /\ Around(t, q) /\ q.source = t.source
      /\ q.refresh = r /\ q.calls = t.calls
  BY <1>3, WithRefresh
<1>4. /\ u \in TabState /\ Around(t, u) /\ u.source = t.source
      /\ u.refresh = r /\ u.calls = t.calls
  BY <1>7, <1>8
<1>5. u.refresh.on = u.refresh.timer
  <2>1. t.refresh.on = TRUE
    BY DEF TabState, RefreshState
  <2> QED
    BY <1>2, <1>4, <2>1
<1>6. Makes(t, u, {}, {})
  BY <1>4, Assigns
<1> QED
  BY <1>4, <1>5, <1>6 DEF Refreshes

LEMMA RefreshPollKeeps ==
    ASSUME NEW s, NEW v, NEW x, NEW c, NEW t, Ends(s, v, x, c, t), c.op = "refreshPoll",
           Answered(c), NEW u, u = RefreshAnswered(t, c)
    PROVE  Keeps(u, v, x) /\ Opens(s, u, c)
<1>1. /\ t \in TabState /\ t.refresh = s.refresh /\ c.op \in RefreshOps /\ c.op \in Looks
      /\ c.reply \in StatusTold \/ c.reply \in [code: {404}]
  <2>1. t \in TabState /\ Same(s, t) /\ ReplyTyped(c)
    BY EndsIs
  <2> QED
    BY <2>1 DEF ReplyTyped, StatusOps, RefreshOps, Looks, Same, Beside
<1>2. t.refresh.on /\ ~t.refresh.timer
  BY <1>1, RefreshEnds
<1>3. CASE u = RefreshFailed(t, FALSE)
  <2>1. PICK retryable \in BOOLEAN : u = RefreshFailed(t, retryable)
    BY <1>3
  <2> QED
    BY <1>1, <2>1, RefreshLostKeeps
<1>4. CASE c.reply.code = 404
  BY <1>3, <1>4 DEF RefreshAnswered
<1>5. CASE c.reply.code # 404
  <2>1. c.reply \in Told
    BY <1>1, <1>5 DEF StatusTold
  <2>2. CASE c.reply.job.status = "running"
    <3>1. u = [t EXCEPT !.refresh.timer = TRUE]
      BY <1>5, <2>2 DEF RefreshAnswered
    <3>2. Refreshes(t, u) /\ u.source = t.source
      BY <1>1, <1>2, <3>1, TimerSet
    <3> QED
      BY <1>1, <3>2, RefreshesKeep
  <2>3. CASE c.reply.job.status = "succeeded" /\ c.reply.current # NoRoot
    <3>1. PICK reply \in Told : reply = c.reply
      BY <2>1
    <3>2. u = RefreshFinished(t, reply)
      BY <1>5, <2>3, <3>1 DEF RefreshAnswered
    <3>3. Refreshes(t, u) /\ u.source = reply.source
      BY <1>1, <1>2, <3>2, RefreshFinishedIs
    <3> QED
      BY <1>1, <2>1, <3>1, <3>3, RefreshesKeep
  <2>4. CASE c.reply.job.status = "succeeded" /\ c.reply.current = NoRoot
    <3>1. PICK d : d = Call("refreshWhere")
      OBVIOUS
    <3>2. d \in Fresh /\ d.op \in RefreshOps
      <4>1. "refreshWhere" \in Ops
        BY DEF Ops
      <4> QED
        BY <3>1, <4>1, PlainCall DEF RefreshOps
    <3>3. u = Calling(t, d)
      BY <1>5, <2>4, <3>1 DEF RefreshAnswered
    <3>4. Refreshes(t, u) /\ u.source = t.source
      BY <1>1, <1>2, <3>2, <3>3, RefreshCalls
    <3> QED
      BY <1>1, <3>4, RefreshesKeep
  <2>5. CASE c.reply.job.status \notin {"running", "succeeded"}
    BY <1>3, <1>5, <2>5 DEF RefreshAnswered
  <2> QED
    BY <2>2, <2>3, <2>4, <2>5
<1> QED
  BY <1>4, <1>5

LEMMA RefreshWhereKeeps ==
    ASSUME NEW s, NEW v, NEW x, NEW c, NEW t, Ends(s, v, x, c, t), c.op = "refreshWhere",
           Answered(c), NEW u, u = RefreshWhereAnswered(t, c)
    PROVE  Keeps(u, v, x) /\ Opens(s, u, c)
<1>1. /\ t \in TabState /\ t.refresh = s.refresh /\ c.op \in RefreshOps /\ c.op \in Looks
      /\ c.reply \in Told
  <2>1. t \in TabState /\ Same(s, t) /\ ReplyTyped(c)
    BY EndsIs
  <2> QED
    BY <2>1 DEF ReplyTyped, StartOps, StatusOps, ListOps, RefreshOps, Looks, Same, Beside
<1>2. t.refresh.on /\ ~t.refresh.timer
  BY <1>1, RefreshEnds
<1>3. CASE c.reply.code # 409 /\ c.reply.current # NoRoot
  <2>1. PICK reply \in Told : reply = c.reply
    BY <1>1
  <2>2. u = RefreshFinished(t, reply)
    BY <1>3, <2>1 DEF RefreshWhereAnswered
  <2>3. Refreshes(t, u) /\ u.source = reply.source
    BY <1>1, <1>2, <2>2, RefreshFinishedIs
  <2> QED
    BY <1>1, <2>1, <2>3, RefreshesKeep
<1>4. CASE ~(c.reply.code # 409 /\ c.reply.current # NoRoot)
  <2>1. PICK retryable \in BOOLEAN : u = RefreshFailed(t, retryable)
    BY <1>4 DEF RefreshWhereAnswered
  <2> QED
    BY <1>1, <2>1, RefreshLostKeeps
<1> QED
  BY <1>3, <1>4

\* The sessions of the project are listed: the refresh is over.
LEMMA RefreshDoneKeeps ==
    ASSUME NEW s, NEW v, NEW x, NEW c, NEW t, Ends(s, v, x, c, t), c.op = "refreshSessions",
           NEW u, u = [t EXCEPT !.refresh = NoRefresh]
    PROVE  Keeps(u, v, x) /\ Opens(s, u, c)
<1>1. t \in TabState /\ c.op \in RefreshOps
  <2>1. t \in TabState
    BY EndsIs
  <2> QED
    BY <2>1 DEF RefreshOps
<1>2. PICK r \in RefreshState : r = NoRefresh
  BY DEF RefreshState, NoRefresh
<1>3. PICK q : q = [t EXCEPT !.refresh = r]
  OBVIOUS
<1>4. u = q
  BY <1>2, <1>3
<1>5. /\ q \in TabState /\ Around(t, q) /\ q.source = t.source
      /\ q.refresh = r /\ q.calls = t.calls
  BY <1>1, <1>3, WithRefresh
<1>6. Makes(t, u, {}, {})
  BY <1>1, <1>4, <1>5, Assigns
<1>7. u.refresh.on = u.refresh.timer
  <2>1. r.on = FALSE /\ r.timer = FALSE
    BY <1>2 DEF NoRefresh
  <2>2. u.refresh = r
    BY <1>4, <1>5
  <2> QED
    BY <2>1, <2>2
<1>8. Refreshes(t, u) /\ u.source = t.source
  BY <1>4, <1>5, <1>6, <1>7 DEF Refreshes
<1> QED
  BY <1>1, <1>8, RefreshesKeep

\* init is caught after it resumed a refresh: the chooser is shown, and the
\* refresh stays on.
LEMMA ResumeCaughtKeeps ==
    ASSUME NEW s, NEW v, NEW x, NEW c, NEW t, Ends(s, v, x, c, t), c.op = "resumeSessions",
           Answered(c), c.reply.code = 409, NEW u, u = ResumeAnswered(t, c)
    PROVE  Keeps(u, v, x \cup {"refresh"}) /\ Opens(s, u, c)
<1>1. /\ Controls(s, x) /\ Wanted(s, v) /\ Agreeing(s, v, x) /\ Taken(s, t, {c})
      /\ Around(s, t) /\ Same(s, t) /\ t \in TabState /\ c \in s.calls /\ c \in CallRecord
      /\ c.op \in RefreshOps /\ c.op \in Looks /\ c.reply \in Told
  <2>1. /\ Controls(s, x) /\ Wanted(s, v) /\ Agreeing(s, v, x) /\ Taken(s, t, {c})
        /\ Around(s, t) /\ Same(s, t)
    BY EndsIs
  <2>2. t \in TabState /\ c \in CallRecord /\ ReplyTyped(c)
    BY EndsIs
  <2>5. c \in s.calls
    BY DEF Ends
  <2>3. c.op \in RefreshOps /\ c.op \in Looks
    BY DEF RefreshOps, Looks
  <2>4. c.reply \in Told
    BY <2>2 DEF ReplyTyped, StartOps, StatusOps, ListOps
  <2> QED
    BY <2>1, <2>2, <2>3, <2>4, <2>5
<1>2. /\ c.live /\ Live(s.calls, RefreshOps) = {c} /\ s.refresh.on /\ ~s.refresh.timer
      /\ ~s.returning /\ ~s.switching /\ s.mode # "start" /\ Live(s.calls, {"start"}) = {}
  BY <1>1, RefreshEnds
<1>3. PICK source \in Sources : source = c.reply.source
  BY <1>1 DEF Told, Sources
<1>4. PICK f : f = [t EXCEPT !.source = source]
  OBVIOUS
<1>5. f \in TabState /\ f.calls = t.calls /\ f.source = source /\ Beside(t, f)
  BY <1>1, <1>4 DEF TabState, Beside
<1>6. PICK root \in Roots : root = c.root
  BY <1>1 DEF CallRecord
<1>7. u = ChooserShown(f, root)
  BY <1>3, <1>4, <1>6 DEF ResumeAnswered
<1>8. Closes(f, u) /\ u.mode = "select" /\ u.source = f.source
  BY <1>5, <1>7, ChooserShownIs
<1>9. Closes(t, u)
  <2>1. Makes(t, f, {}, {})
    BY <1>1, <1>5, Assigns
  <2> QED
    BY <1>1, <1>5, <1>8, <2>1, ClosesAfter
<1>10. /\ Live(s.calls, {"start"}) \subseteq {c} /\ Beside(s, t) /\ u.mode # "start"
       /\ "refresh" \in x \cup {"refresh"} /\ x \subseteq x \cup {"refresh"}
       /\ Live(s.calls, RefreshOps) \subseteq {c}
  BY <1>1, <1>2, <1>8 DEF Same
<1>11. Controls(u, x \cup {"refresh"}) /\ Wanted(u, v)
  BY <1>1, <1>2, <1>9, <1>10, CloseKeeps
<1>12. \/ u.source = s.source /\ s.mode # "start"
       \/ \E d \in Live(s.calls, Looks) : d.reply \in Told /\ u.source = d.reply.source
  <2>1. c \in Live(s.calls, Looks)
    BY <1>1, <1>2 DEF Live
  <2> QED
    BY <1>1, <1>3, <1>5, <1>8, <2>1
<1>13. Agreeing(u, v, x \cup {"refresh"})
  BY <1>1, <1>2, <1>9, <1>10, <1>12, CloseKeeps
<1> QED
  BY <1>8, <1>11, <1>13 DEF Keeps, Opens

LEMMA ResumeKeeps ==
    ASSUME NEW s, NEW v, NEW x, NEW c, NEW t, Ends(s, v, x, c, t), c.op = "resumeSessions",
           c.reply.code # 409, NEW u, u = ResumeAnswered(t, c)
    PROVE  Keeps(u, v, x) /\ Opens(s, u, c)
<1>1. t \in TabState /\ t.refresh = s.refresh /\ c.op \in RefreshOps
  <2>1. t \in TabState /\ Same(s, t)
    BY EndsIs
  <2> QED
    BY <2>1 DEF RefreshOps, Same, Beside
<1>2. t.refresh.on
  BY <1>1, RefreshEnds
<1>3. u = [t EXCEPT !.refresh.timer = TRUE]
  BY DEF ResumeAnswered
<1>4. Refreshes(t, u) /\ u.source = t.source
  BY <1>1, <1>2, <1>3, TimerSet
<1> QED
  BY <1>1, <1>4, RefreshesKeep

\* The sessions of a project whose refresh is resumed do not come.
LEMMA ResumeLostKeeps ==
    ASSUME NEW s, NEW v, NEW x, NEW c, NEW t, Ends(s, v, x, c, t), c.op = "resumeSessions"
    PROVE  Keeps(t, v, x \cup {"refresh"}) /\ Opens(s, t, c)
<1>1. /\ Controls(s, x) /\ Wanted(s, v) /\ Agreeing(s, v, x) /\ Taken(s, t, {c})
      /\ Around(s, t) /\ Same(s, t) /\ t \in TabState /\ c.op \in RefreshOps
  <2>1. /\ Controls(s, x) /\ Wanted(s, v) /\ Agreeing(s, v, x) /\ Taken(s, t, {c})
        /\ Around(s, t) /\ Same(s, t) /\ t \in TabState
    BY EndsIs
  <2> QED
    BY <2>1 DEF RefreshOps
<1>2. Live(s.calls, RefreshOps) = {c} /\ s.refresh.on /\ ~s.refresh.timer /\ "refresh" \notin x
  BY <1>1, RefreshEnds
<1>3. t.refresh = s.refresh /\ t.source = s.source
  BY <1>1 DEF Same, Beside
<1>4. Makes(t, t, {}, {}) /\ Around(t, t)
  BY <1>1, Assigns DEF Around
<1>5. Turns(t, t, x, x \cup {"refresh"}) /\ Hears(s, t)
  BY <1>2, <1>3, <1>4 DEF Turns, Loses, Hears
<1>6. /\ Live(s.calls, RefreshOps) \subseteq {c} /\ AllOf({c}, RefreshOps)
      /\ x \cup {"refresh"} \in {x, x \cup {"refresh"}}
  BY <1>1, <1>2 DEF AllOf
<1>7. Controls(t, x \cup {"refresh"}) /\ Wanted(t, v) /\ Agreeing(t, v, x \cup {"refresh"})
  BY <1>1, <1>2, <1>5, <1>6, RefreshKeeps
<1>8. t.mode = s.mode
  BY <1>1 DEF Same
<1> QED
  BY <1>7, <1>8 DEF Keeps, Opens

-----------------------------------------------------------------------------
(* The page is loaded *)

LEMMA InitEnds ==
    ASSUME NEW s, NEW v, NEW x, NEW c, NEW t, Ends(s, v, x, c, t), c.op = "init"
    PROVE  /\ c.live /\ s.calls = {c} /\ t.calls = {} /\ s.mode = "start"
           /\ s.job = 0 /\ s.loading = NoRoot /\ s.obs = NoObservation /\ ~s.timer
           /\ ~s.returning /\ ~s.switching /\ s.refresh = NoRefresh
<1>1. /\ Controls(s, x) /\ c \in s.calls /\ (c.live \/ c.op \in Observers \cup Requests)
      /\ Taken(s, t, {c})
  BY EndsIs
<1>2. c.live /\ c \in Live(s.calls, {"init"})
  BY <1>1 DEF Live, Observers, Requests
<1>3. s.mode = "start"
  BY <1>1, <1>2 DEF Controls, Starting
<1>4. s.calls = {c}
  BY <1>1, <1>3 DEF Controls, Starting, One
<1> QED
  BY <1>1, <1>2, <1>3, <1>4 DEF Controls, Starting, Taken

\* The page shows no project that is being opened.
LEMMA ShownKeeps ==
    ASSUME NEW s, NEW v, NEW x, NEW c, NEW t, Ends(s, v, x, c, t), c.op = "init",
           c.reply \in Told, NEW u, Closes(t, u), u.mode # "start",
           u.source = c.reply.source
    PROVE  Keeps(u, v, x) /\ Opens(s, u, c)
<1>1. /\ Controls(s, x) /\ Wanted(s, v) /\ Agreeing(s, v, x) /\ Taken(s, t, {c})
      /\ Same(s, t)
  BY EndsIs
<1>2. c.live /\ s.calls = {c} /\ s.mode = "start" /\ ~s.returning /\ ~s.switching
  BY InitEnds
<1>3. /\ Live(s.calls, {"start"}) \subseteq {c} /\ Live(s.calls, {"init"}) \subseteq {c}
      /\ (\A d \in {c} : d.op \notin RefreshOps) /\ x \subseteq x /\ Beside(s, t)
      /\ c \in Live(s.calls, Looks)
  BY <1>1, <1>2 DEF RefreshOps, Same, Live, Looks
<1>4. Controls(u, x) /\ Wanted(u, v)
  BY <1>1, <1>2, <1>3, CloseKeeps
<1>5. \/ u.source = s.source /\ s.mode # "start"
      \/ \E d \in Live(s.calls, Looks) : d.reply \in Told /\ u.source = d.reply.source
  BY <1>3
<1>6. Agreeing(u, v, x)
  BY <1>1, <1>2, <1>3, <1>5, CloseKeeps
<1> QED
  BY <1>2, <1>4, <1>6 DEF Keeps, Opens

\* A refresh is under way, which the tab resumes.
LEMMA ResumesKeep ==
    ASSUME NEW s, NEW v, NEW x, NEW c, NEW t, Ends(s, v, x, c, t), c.op = "init",
           c.reply \in Told, NEW f \in TabState, f.calls = t.calls, f.mode = "analyze",
           f.source = c.reply.source, f.loading = t.loading, f.job = t.job, f.obs = t.obs,
           f.timer = t.timer, f.returning = t.returning, f.switching = t.switching,
           f.refresh.on, ~f.refresh.timer,
           NEW u, u = Calling(f, Call("resumeSessions"))
    PROVE  Keeps(u, v, x) /\ Opens(s, u, c)
<1>1. /\ Controls(s, x) /\ Agreeing(s, v, x) /\ Taken(s, t, {c})
      /\ Same(s, t) /\ Around(s, t) /\ s \in TabState /\ t \in TabState
  BY EndsIs
<1>2. /\ c.live /\ s.calls = {c} /\ t.calls = {} /\ s.mode = "start"
      /\ s.job = 0 /\ s.loading = NoRoot /\ s.obs = NoObservation /\ ~s.timer
      /\ ~s.returning /\ ~s.switching /\ s.refresh = NoRefresh
  BY InitEnds
<1>3. PICK d : d = Call("resumeSessions")
  OBVIOUS
<1>4. d \in Fresh /\ d.op = "resumeSessions" /\ d.live = TRUE
  <2>1. "resumeSessions" \in Ops
    BY DEF Ops
  <2> QED
    BY <1>3, <2>1, PlainCall
<1>5. Makes(f, u, {}, {d}) /\ Same(f, u) /\ u.obs = f.obs /\ u.timer = f.timer
  BY <1>3, <1>4, CallingIs
<1>6. u.calls = {d} /\ u \in TabState
  <2>1. u = [f EXCEPT !.calls = f.calls \cup {d}]
    BY <1>3 DEF Calling
  <2>2. u.calls = f.calls \cup {d}
    BY <2>1 DEF TabState
  <2> QED
    BY <1>2, <1>5, <2>2 DEF Makes
<1>7. /\ u.mode = "analyze" /\ u.source = c.reply.source /\ u.loading = NoRoot /\ u.job = 0
      /\ u.obs = NoObservation /\ ~u.timer /\ ~u.returning /\ ~u.switching
      /\ u.refresh.on /\ ~u.refresh.timer
  BY <1>1, <1>2, <1>5 DEF Same, Beside, Around
<1>8. \A ops : Live(u.calls, ops) = IF d.op \in ops THEN {d} ELSE {}
  BY <1>4, <1>6 DEF Live
<1>9. /\ Live(u.calls, {"init"}) = {} /\ Live(u.calls, {"start"}) = {}
      /\ Live(u.calls, Observers) = {} /\ Live(u.calls, {"return"}) = {}
      /\ Live(u.calls, MutateOps) = {} /\ Live(u.calls, RefreshOps) = {d}
  BY <1>4, <1>8 DEF Observers, MutateOps, RefreshOps
<1>10. "refresh" \notin x
  BY <1>1, <1>2 DEF Controls, Refreshing, NoRefresh
<1>11. CallsTyped(u)
  BY <1>4, <1>6 DEF CallsTyped, ReplyTyped, Fresh
<1>12. Starting(u) /\ Exclusive(u) /\ Asking(u) /\ Observing(u)
  BY <1>7, <1>9 DEF Starting, Exclusive, Asking, Observing
<1>13. Returning(u) /\ Switching(u) /\ Refreshing(u, x)
  BY <1>7, <1>9, <1>10 DEF Returning, Switching, Refreshing, One
<1>14. Controls(u, x)
  BY <1>6, <1>11, <1>12, <1>13 DEF Controls
<1>15. Wanted(u, v)
  BY <1>7, <1>9 DEF Wanted
<1>16. Agreeing(u, v, x)
  <2>1. Makes(t, u, {} \cup {}, {d})
    <3>1. Makes(t, f, {}, {})
      BY <1>1, Assigns
    <3> QED
      BY <1>1, <1>5, <3>1, Chain
  <2>2. Live(u.calls, MutateOps) = Live(s.calls, MutateOps)
    <3>1. Live(s.calls, MutateOps) = {}
      BY <1>2 DEF Live, MutateOps
    <3> QED
      BY <1>9, <3>1
  <2>3. c \in Live(s.calls, Looks) /\ x \subseteq x
    BY <1>2 DEF Live, Looks
  <2>4. \/ u.source = s.source /\ (s.mode = "start" => u.mode = "start")
        \/ \E e \in Live(s.calls, Looks) : e.reply \in Told /\ u.source = e.reply.source
    BY <1>7, <2>3
  <2> QED
    BY <1>1, <2>1, <2>2, <2>3, <2>4, AgreeingKept
<1> QED
  BY <1>2, <1>14, <1>15, <1>16 DEF Keeps, Opens

\* The page learns what the server does; c.root is the project to go back to.
LEMMA InitKeeps ==
    ASSUME NEW s, NEW v, NEW x, NEW c, NEW t, Ends(s, v, x, c, t), c.op = "init", Answered(c),
           NEW u, u = InitAnswered(t, c)
    PROVE  Keeps(u, v, x) /\ Opens(s, u, c)
<1>1. /\ Controls(s, x) /\ Wanted(s, v) /\ Agreeing(s, v, x) /\ Taken(s, t, {c})
      /\ Same(s, t) /\ Around(s, t) /\ s \in TabState /\ t \in TabState
      /\ c \in CallRecord /\ ReplyTyped(c)
  BY EndsIs
<1>2. /\ c.live /\ s.calls = {c} /\ t.calls = {} /\ s.mode = "start"
      /\ s.job = 0 /\ s.loading = NoRoot /\ s.obs = NoObservation /\ ~s.timer
      /\ ~s.returning /\ ~s.switching /\ s.refresh = NoRefresh
  BY InitEnds
<1>3. c.reply \in Told
  BY <1>1 DEF ReplyTyped, StartOps, StatusOps, ListOps
<1>4. PICK r \in Told : r = c.reply
  BY <1>3
<1>5. r.source \in Sources /\ r.job \in JobRecord /\ r.current \in Roots
  BY DEF Told, Sources
<1>6. r.job.id \in Nat /\ r.job.root \in Roots
  BY <1>5 DEF JobRecord
<1>7. /\ t.job = 0 /\ t.loading = NoRoot /\ t.obs = NoObservation /\ ~t.timer
      /\ ~t.returning /\ ~t.switching /\ t.refresh = NoRefresh
  BY <1>1, <1>2 DEF Same, Beside, Around
<1>8. PICK k : k = [t EXCEPT !.source = r.source]
  OBVIOUS
<1>9. /\ k \in TabState /\ k.calls = t.calls /\ k.source = r.source /\ Beside(t, k)
  BY <1>1, <1>5, <1>8 DEF TabState, Beside
<1>10. Makes(t, k, {}, {})
  BY <1>1, <1>9, Assigns
<1>11. ASSUME Closes(k, u), u.mode # "start", u.source = k.source
       PROVE  Keeps(u, v, x) /\ Opens(s, u, c)
  <2>1. Closes(t, u)
    BY <1>1, <1>9, <1>10, <1>11, ClosesAfter
  <2>2. u.source = c.reply.source
    BY <1>4, <1>9, <1>11
  <2> QED
    BY <1>3, <1>11, <2>1, <2>2, ShownKeeps
<1>12. PICK f : f = [k EXCEPT !.mode = "analyze", !.root = r.current]
  OBVIOUS
<1>13. /\ f \in TabState /\ f.calls = t.calls /\ f.mode = "analyze" /\ f.source = c.reply.source
       /\ f.loading = t.loading /\ f.job = t.job /\ f.obs = t.obs /\ f.timer = t.timer
       /\ f.returning = t.returning /\ f.switching = t.switching /\ f.refresh = t.refresh
  BY <1>1, <1>4, <1>5, <1>8, <1>9, <1>12 DEF TabState, Mode
<1>14. CASE r.code = 409
  <2>1. PICK root \in Roots : root = c.root
    BY <1>1 DEF CallRecord
  <2>2. u = ChooserShown(k, root)
    BY <1>4, <1>8, <1>14, <2>1 DEF InitAnswered
  <2>3. Closes(k, u) /\ u.mode = "select" /\ u.source = k.source
    BY <1>9, <2>2, ChooserShownIs
  <2>4. u.mode # "start"
    BY <2>3
  <2> QED
    BY <1>11, <2>3, <2>4
<1>15. CASE r.code = 200 /\ r.job.status = "failed"
  <2>1. u = FailureShown(k, r.job)
    BY <1>4, <1>8, <1>15 DEF InitAnswered
  <2>2. Closes(k, u) /\ u.mode = "select" /\ u.source = k.source
    BY <1>6, <1>9, <2>1, FailureShownIs
  <2>3. u.mode # "start"
    BY <2>2
  <2> QED
    BY <1>11, <2>2, <2>3
<1>16. CASE r.code = 202 /\ r.current = r.job.root
  <2>1. PICK n \in RefreshState :
          /\ n = [NoRefresh EXCEPT !.on = TRUE, !.job = r.job.id]
          /\ n.on = TRUE /\ n.timer = FALSE
    <3>1. NoRefresh \in RefreshState /\ NoRefresh.timer = FALSE
      BY DEF RefreshState, NoRefresh
    <3>2. ASSUME NEW n, n = [NoRefresh EXCEPT !.on = TRUE, !.job = r.job.id]
          PROVE  n \in RefreshState /\ n.on = TRUE /\ n.timer = FALSE
      BY <1>6, <3>1, <3>2 DEF RefreshState
    <3> QED
      BY <3>2
  <2>2. PICK q : q = [f EXCEPT !.refresh = n]
    OBVIOUS
  <2>3. /\ q \in TabState /\ Around(f, q) /\ q.source = f.source /\ q.refresh = n
        /\ q.calls = f.calls
    BY <1>13, <2>2, WithRefresh
  <2>4. u = Calling(q, Call("resumeSessions"))
    <3>1. u = Calling([f EXCEPT !.refresh = [NoRefresh EXCEPT !.on = TRUE,
                                                             !.job = r.job.id]],
                      Call("resumeSessions"))
      BY <1>4, <1>8, <1>12, <1>16 DEF InitAnswered
    <3> QED
      BY <2>1, <2>2, <3>1
  <2>5. q.refresh.on /\ ~q.refresh.timer
    BY <2>1, <2>3
  <2>6. /\ q.calls = t.calls /\ q.mode = "analyze" /\ q.source = c.reply.source
        /\ q.loading = t.loading /\ q.job = t.job /\ q.obs = t.obs /\ q.timer = t.timer
        /\ q.returning = t.returning /\ q.switching = t.switching
    BY <1>13, <2>3 DEF Around
  <2> QED
    BY <1>3, <2>3, <2>4, <2>5, <2>6, ResumesKeep
<1>17. CASE r.code = 202 /\ r.current # r.job.root
  <2>1. PICK q : q = [k EXCEPT !.mode = "select", !.loading = r.job.root, !.job = r.job.id]
    OBVIOUS
  <2>2. /\ q \in TabState /\ q.calls = t.calls /\ q.mode = "select" /\ q.loading = r.job.root
        /\ q.job = r.job.id /\ q.source = r.source /\ q.obs = t.obs
        /\ q.returning = t.returning /\ Beside(t, q)
    BY <1>1, <1>6, <1>8, <1>9, <2>1 DEF TabState, Mode, Beside
  <2>3. u = Polled(q, "tab")
    BY <1>4, <1>8, <1>17, <2>1 DEF InitAnswered
  <2>4. Polls(q, u)
    BY <1>7, <2>2, <2>3, PolledIs
  <2>5. PICK R, d : /\ R \subseteq Observers /\ Makes(q, u, R, {d})
                    /\ d.op = "poll" /\ d.job = q.job
    BY <2>4 DEF Polls
  <2>6. Same(q, u) /\ Awaited(u)
    BY <2>4 DEF Polls
  <2>7. Makes(t, u, {} \cup R, {d})
    <3>1. Makes(t, q, {}, {})
      BY <1>1, <2>2, Assigns
    <3> QED
      BY <1>1, <2>5, <3>1, Chain
  <2>8. /\ u.mode # "start" /\ ~u.returning /\ Beside(s, u) /\ u.job = r.job.id
        /\ u.loading = r.job.root /\ u.source = r.source
    BY <1>1, <1>7, <2>2, <2>6 DEF Same, Beside
  <2>9. u.job # 0 /\ JobFor(v, u.job, u.loading)
    <3>1. c \in Live(s.calls, {"init"})
      BY <1>2 DEF Live
    <3>2. c.reply.code = 202
      BY <1>4, <1>17
    <3>3. c.reply.job.id # 0 /\ JobFor(v, c.reply.job.id, c.reply.job.root)
      BY <1>1, <3>1, <3>2 DEF Wanted
    <3> QED
      BY <1>4, <2>8, <3>3
  <2>10. d.op = "poll" /\ d.job = u.job
    BY <2>2, <2>5, <2>8
  <2>11. /\ Live(s.calls, {"start"}) \subseteq {c} /\ Live(s.calls, {"init"}) \subseteq {c}
         /\ {} \cup R \subseteq Observers /\ AllOf({c}, {"start", "init"})
         /\ ~s.refresh.on
    BY <1>2, <2>5 DEF Live, NoRefresh, AllOf
  <2>12. Learns(s, u)
    <3>1. c \in Live(s.calls, Looks)
      BY <1>2 DEF Live, Looks
    <3> QED
      BY <1>3, <1>4, <2>8, <3>1 DEF Learns
  <2>13. Keeps(u, v, x)
    BY <1>1, <1>2, <2>6, <2>7, <2>8, <2>9, <2>10, <2>11, <2>12, BeginKeeps
  <2> QED
    BY <1>2, <2>13 DEF Opens
<1>18. CASE /\ r.code # 409 /\ ~(r.code = 200 /\ r.job.status = "failed")
            /\ r.code # 202
  <2>1. u = f
    BY <1>4, <1>8, <1>12, <1>18 DEF InitAnswered
  <2>2. Closes(t, u)
    <3>1. Live(t.calls, Observers) = {}
      BY <1>2 DEF Live
    <3>2. Closed(u) /\ ~u.returning /\ Beside(t, u)
      BY <1>7, <1>13, <2>1 DEF Closed, Beside
    <3> QED
      BY <1>1, <1>13, <2>1, <3>1, <3>2, ClosedIs
  <2>3. u.mode # "start" /\ u.source = c.reply.source
    BY <1>13, <2>1
  <2> QED
    BY <1>3, <2>2, <2>3, ShownKeeps
<1> QED
  BY <1>14, <1>15, <1>16, <1>17, <1>18

-----------------------------------------------------------------------------
(* Answers and failures *)

LEMMA HandledKeeps ==
    ASSUME NEW s, NEW v, NEW x, NEW c, NEW t, Ends(s, v, x, c, t), Answered(c),
           NEW u, u = Handled(t, c),
           NEW y, y = x \cup (IF c.op = "resumeSessions" /\ c.reply.code = 409
                              THEN {"refresh"} ELSE {})
    PROVE  Keeps(u, v, y) /\ Opens(s, u, c)
<1>1. c.op \in Ops /\ t \in TabState
  <2>1. c \in CallRecord /\ t \in TabState
    BY EndsIs
  <2> QED
    BY <2>1 DEF CallRecord
<1>2. CASE c.op = "resumeSessions"
  <2>1. u = ResumeAnswered(t, c)
    BY <1>2 DEF Handled
  <2>2. CASE c.reply.code = 409
    <3>1. y = x \cup {"refresh"}
      BY <1>2, <2>2
    <3> QED
      BY <1>2, <2>1, <2>2, <3>1, ResumeCaughtKeeps
  <2>3. CASE c.reply.code # 409
    <3>1. y = x
      BY <2>3
    <3> QED
      BY <1>2, <2>1, <2>3, <3>1, ResumeKeeps
  <2> QED
    BY <2>2, <2>3
<1>3. CASE c.op # "resumeSessions"
  <2>1. y = x
    BY <1>3
  <2>2. CASE c.op = "init"
    <3>1. u = InitAnswered(t, c)
      BY <2>2 DEF Handled
    <3> QED
      BY <2>1, <2>2, <3>1, InitKeeps
  <2>3. CASE c.op = "start"
    <3>1. u = StartAnswered(t, c)
      BY <2>3 DEF Handled
    <3> QED
      BY <2>1, <2>3, <3>1, StartKeeps
  <2>4. CASE c.op = "poll"
    <3>1. u = PollAnswered(t, c)
      BY <2>4 DEF Handled
    <3> QED
      BY <2>1, <2>4, <3>1, PollKeeps
  <2>5. CASE c.op = "where"
    <3>1. u = WhereAnswered(t, c)
      BY <2>5 DEF Handled
    <3> QED
      BY <2>1, <2>5, <3>1, WhereKeeps
  <2>6. CASE c.op = "cancel"
    <3>1. u = CancelAnswered(t, c)
      BY <2>6 DEF Handled
    <3> QED
      BY <2>1, <2>6, <3>1, CancelKeeps
  <2>7. CASE c.op = "summary"
    <3>1. u = SummaryAnswered(t, c)
      BY <2>7 DEF Handled
    <3> QED
      BY <2>1, <2>7, <3>1, SummaryKeeps
  <2>8. CASE c.op = "discover"
    <3>1. u = DiscoverAnswered(t, c)
      BY <2>8 DEF Handled
    <3> QED
      BY <2>1, <2>8, <3>1, DiscoverKeeps
  <2>9. CASE c.op = "return"
    <3>1. u = ReturnAnswered(t, c)
      BY <2>9 DEF Handled
    <3> QED
      BY <2>1, <2>9, <3>1, ReturnHeardKeeps
  <2>10. CASE c.op = "mutate"
    <3>1. u = MutateAnswered(t, c)
      BY <2>10 DEF Handled
    <3> QED
      BY <2>1, <2>10, <3>1, MutateHeardKeeps
  <2>11. CASE c.op = "reconcile"
    <3>1. u = ReconcileAnswered(t, c)
      BY <2>11 DEF Handled
    <3> QED
      BY <2>1, <2>11, <3>1, ReconcileHeardKeeps
  <2>12. CASE c.op = "refresh"
    <3>1. u = RefreshStarted(t, c)
      BY <2>12 DEF Handled
    <3> QED
      BY <2>1, <2>12, <3>1, RefreshBegunKeeps
  <2>13. CASE c.op = "refreshPoll"
    <3>1. u = RefreshAnswered(t, c)
      BY <2>13 DEF Handled
    <3> QED
      BY <2>1, <2>13, <3>1, RefreshPollKeeps
  <2>14. CASE c.op = "refreshWhere"
    <3>1. u = RefreshWhereAnswered(t, c)
      BY <2>14 DEF Handled
    <3> QED
      BY <2>1, <2>14, <3>1, RefreshWhereKeeps
  <2>15. CASE c.op = "refreshSessions"
    <3>1. u = [t EXCEPT !.refresh = NoRefresh]
      BY <2>15 DEF Handled
    <3> QED
      BY <2>1, <2>15, <3>1, RefreshDoneKeeps
  <2>16. CASE c.op = "stray"
    <3>1. u = t
      BY <2>16 DEF Handled
    <3> QED
      BY <2>1, <2>16, <3>1, StrayKeeps
  <2> QED
    BY <1>1, <1>3, <2>2, <2>3, <2>4, <2>5, <2>6, <2>7, <2>8, <2>9, <2>10, <2>11, <2>12,
       <2>13, <2>14, <2>15, <2>16 DEF Ops
<1> QED
  BY <1>2, <1>3

LEMMA FailedKeeps ==
    ASSUME NEW s, NEW v, NEW x, NEW c, NEW t, Ends(s, v, x, c, t), c.op # "init", c.live,
           NEW u, u = Failed(t, c),
           NEW y, y = x \cup (CASE c.op = "resumeSessions" -> {"refresh"}
                                [] c.op = "reconcile" -> {"source"}
                                [] OTHER -> {})
    PROVE  Keeps(u, v, y) /\ Opens(s, u, c)
<1>1. c.op \in Ops /\ t \in TabState
  <2>1. c \in CallRecord /\ t \in TabState
    BY EndsIs
  <2> QED
    BY <2>1 DEF CallRecord
<1>2. CASE c.op = "resumeSessions"
  <2>1. u = t
    BY <1>2 DEF Failed
  <2>2. y = x \cup {"refresh"}
    BY <1>2
  <2> QED
    BY <1>2, <2>1, <2>2, ResumeLostKeeps
<1>3. CASE c.op = "reconcile"
  <2>1. u = MutationFailed(t, c)
    BY <1>3 DEF Failed
  <2>2. y = x \cup {"source"}
    BY <1>3
  <2> QED
    BY <1>3, <2>1, <2>2, ReconcileLostKeeps
<1>4. CASE c.op \notin {"resumeSessions", "reconcile"}
  <2>1. y = x
    BY <1>4
  <2>2. CASE c.op = "start"
    <3>1. u = StartFailed(t, c)
      BY <2>2 DEF Failed
    <3> QED
      BY <2>1, <2>2, <3>1, StartFailKeeps
  <2>3. CASE c.op \in {"poll", "where"}
    <3>1. PICK retryable \in BOOLEAN : u = PollFailed(t, c, retryable)
      BY <2>3 DEF Failed
    <3>2. c.op \in Observers
      BY <2>3 DEF Observers
    <3> QED
      BY <2>1, <3>1, <3>2, PollFailKeeps
  <2>4. CASE c.op = "cancel"
    <3>1. u = CancelFailed(t, c)
      BY <2>4 DEF Failed
    <3> QED
      BY <2>1, <2>4, <3>1, CancelFailKeeps
  <2>5. CASE c.op = "summary"
    <3>1. u = SummaryFailed(t, c)
      BY <2>5 DEF Failed
    <3> QED
      BY <2>1, <2>5, <3>1, SummaryFailKeeps
  <2>6. CASE c.op = "discover"
    <3>1. u = Redrawn(t, c)
      BY <2>6 DEF Failed
    <3> QED
      BY <2>1, <2>6, <3>1, DiscoverFailKeeps
  <2>7. CASE c.op = "return"
    <3>1. u = [t EXCEPT !.returning = FALSE]
      BY <2>7 DEF Failed
    <3> QED
      BY <2>1, <2>7, <3>1, ReturnFailKeeps
  <2>8. CASE c.op = "mutate"
    <3>1. u = MutateFailed(t, c)
      BY <2>8 DEF Failed
    <3> QED
      BY <2>1, <2>8, <3>1, MutateLostKeeps
  <2>9. CASE c.op \in {"refresh", "refreshPoll", "refreshWhere", "refreshSessions"}
    <3>1. PICK retryable \in BOOLEAN : u = RefreshFailed(t, retryable)
      BY <2>9 DEF Failed
    <3>2. c.op \in RefreshOps
      BY <2>9 DEF RefreshOps
    <3> QED
      BY <2>1, <3>1, <3>2, RefreshLostKeeps
  <2>10. CASE c.op = "stray"
    <3>1. u = t
      BY <2>10 DEF Failed
    <3> QED
      BY <2>1, <2>10, <3>1, StrayKeeps
  <2> QED
    BY <1>1, <1>4, <2>2, <2>3, <2>4, <2>5, <2>6, <2>7, <2>8, <2>9, <2>10 DEF Ops
<1> QED
  BY <1>2, <1>3, <1>4

-----------------------------------------------------------------------------
(* Acts of the user, and timers *)

\* No project opens.
Stays(s, u) == s.mode = "select" => u.mode # "analyze"

LEMMA Untouched ==
    ASSUME NEW s, NEW v, NEW x, Keeps(s, v, x)
    PROVE  /\ s \in TabState /\ Taken(s, s, {}) /\ Controls(s, x) /\ Wanted(s, v)
           /\ Agreeing(s, v, x) /\ Beside(s, s) /\ Same(s, s) /\ Around(s, s)
           /\ s.mode # "start" => Live(s.calls, {"init"}) = {}
BY DEF Keeps, Controls, Taken, Beside, Same, Around, Starting

\* Nothing holds the controls.
LEMMA Idle ==
    ASSUME NEW s, NEW v, NEW x, Keeps(s, v, x), ~Busy(s)
    PROVE  /\ s.loading = NoRoot /\ s.job = 0 /\ ~s.refresh.on /\ ~s.returning /\ ~s.switching
           /\ Live(s.calls, {"start"}) = {} /\ Live(s.calls, Observers) = {}
           /\ s.obs = NoObservation /\ ~s.timer /\ "refresh" \notin x
           /\ Live(s.calls, RefreshOps) = {} /\ ~s.refresh.timer
BY DEF Keeps, Controls, Busy, Asking, Observing, Refreshing

LEMMA ShowKeeps ==
    ASSUME NEW s, NEW v, NEW x, Keeps(s, v, x), s.mode # "start", ~Busy(s),
           NEW u, u = ChooserShown(s, NoRoot)
    PROVE  Keeps(u, v, x) /\ Stays(s, u)
<1>1. /\ s \in TabState /\ Taken(s, s, {}) /\ Controls(s, x) /\ Wanted(s, v)
      /\ Agreeing(s, v, x) /\ Beside(s, s)
  BY Untouched
<1>2. Closes(s, u) /\ u.mode = "select" /\ u.source = s.source
  BY <1>1, ChooserShownIs DEF Roots
<1>3. /\ ~s.switching /\ ~s.returning /\ Live(s.calls, {"start"}) \subseteq {}
      /\ (\A c \in {} : c.op \notin RefreshOps) /\ x \subseteq x /\ u.mode # "start"
  BY <1>2, Idle
<1>4. Controls(u, x) /\ Wanted(u, v)
  BY <1>1, <1>2, <1>3, CloseKeeps
<1>5. Agreeing(u, v, x)
  BY <1>1, <1>2, <1>3, CloseKeeps
<1> QED
  BY <1>2, <1>4, <1>5 DEF Keeps, Stays

LEMMA ExitKeeps ==
    ASSUME NEW s, NEW v, NEW x, Keeps(s, v, x), s.mode # "start", ~Busy(s),
           NEW u, u = Calling([Bumped(Unobserved(s)) EXCEPT !.returning = TRUE], Call("return"))
    PROVE  Keeps(u, v, x) /\ Stays(s, u)
<1>1. Controls(s, x) /\ Wanted(s, v) /\ Agreeing(s, v, x)
  BY Untouched
<1>2. Controls(u, x) /\ Wanted(u, v) /\ Agreeing(u, v, x) /\ u.mode = s.mode
  BY <1>1, ReturnKeeps
<1> QED
  BY <1>2 DEF Keeps, Stays

LEMMA PickKeeps ==
    ASSUME NEW s, NEW v, NEW x, Keeps(s, v, x), s.mode # "start", ~Busy(s),
           NEW root \in Root, NEW u, u = ProjectSelected(s, root)
    PROVE  Keeps(u, v, x) /\ Stays(s, u)
<1>1. /\ s \in TabState /\ Taken(s, s, {}) /\ Controls(s, x) /\ Wanted(s, v)
      /\ Agreeing(s, v, x)
  BY Untouched
<1>2. Asks(s, s, u, root) /\ u.source = s.source
  BY <1>1, ProjectSelectedIs
<1>3. AllOf({}, ListOps) /\ root # NoRoot
  BY ChooserAssumption DEF AllOf
<1>4. \/ u.source = s.source
      \/ \E c \in Live(s.calls, Looks) : c.reply \in Told /\ u.source = c.reply.source
  BY <1>2
<1>5. Controls(u, x) /\ Wanted(u, v) /\ Agreeing(u, v, x)
  BY <1>1, <1>2, <1>3, <1>4, SelectKeeps
<1>6. u.mode = s.mode
  BY <1>2 DEF Asks
<1> QED
  BY <1>5, <1>6 DEF Keeps, Stays

LEMMA CancelClickKeeps ==
    ASSUME NEW s, NEW v, NEW x, Keeps(s, v, x), s.job # 0, NEW u, u = CancelClicked(s)
    PROVE  Keeps(u, v, x) /\ Stays(s, u)
<1>1. /\ s \in TabState /\ Taken(s, s, {}) /\ Controls(s, x) /\ Wanted(s, v)
      /\ Agreeing(s, v, x)
  BY Untouched
<1>2. PICK o : o = Observed(s, TRUE)
  OBVIOUS
<1>3. /\ Makes(s, o, Observers, {}) /\ Same(s, o) /\ ~o.timer /\ ObservationCurrent(o)
      /\ o.obs.pending = TRUE /\ ~o.obs.paused
  BY <1>1, <1>2, ObservedIs
<1>4. PICK f : f = [o EXCEPT !.cancelling = TRUE]
  OBVIOUS
<1>5. /\ f \in TabState /\ f.calls = o.calls /\ f.obs = o.obs /\ f.timer = o.timer
      /\ Same(o, f)
  BY <1>3, <1>4 DEF Makes, TabState, Same, Beside
<1>6. PICK d : d = WithJob("cancel", s.job, "none")
  OBVIOUS
<1>7. d \in Fresh /\ d.op = "cancel" /\ d.job = s.job
  <2>1. "cancel" \in Ops /\ "none" \in Thens /\ s.job \in Nat
    BY <1>1 DEF Ops, Thens, TabState
  <2> QED
    BY <1>6, <2>1, JobCall
<1>8. u = Calling(f, d)
  <2>1. PICK e : e = Call("cancel")
    OBVIOUS
  <2>2. e \in CallRecord /\ e.then = "none"
    <3>1. "cancel" \in Ops
      BY DEF Ops
    <3> QED
      BY <2>1, <3>1, PlainCall DEF Call
  <2>3. d = [e EXCEPT !.job = s.job]
    BY <1>6, <2>1, <2>2 DEF WithJob, CallRecord
  <2> QED
    BY <1>2, <1>4, <2>1, <2>3 DEF CancelClicked
<1>9. Makes(f, u, {}, {d}) /\ Same(f, u) /\ u.obs = f.obs /\ u.timer = f.timer
  BY <1>5, <1>7, <1>8, CallingIs
<1>10. Same(s, u)
  BY <1>3, <1>5, <1>9 DEF Same, Beside
<1>11. Awaited(u)
  BY <1>3, <1>5, <1>9 DEF Awaited, ObservationCurrent, Same
<1>12. Makes(s, u, Observers \cup {} \cup {}, {d})
  <2>1. o \in TabState
    BY <1>3 DEF Makes
  <2> QED
    BY <1>1, <1>3, <1>5, <1>9, <2>1, Assigns, Chain
<1>13. /\ Observers \cup {} \cup {} \subseteq Observers
       /\ Observers \subseteq Observers \cup {} \cup {}
       /\ \A c \in {} : c.op \in Observers
  OBVIOUS
<1>14. \E e : /\ {d} = {e} /\ e.op \in Observers /\ e.job = s.job
              /\ e.op = "where" => e.root = s.loading
  BY <1>7 DEF Observers
<1>15. Controls(u, x) /\ Wanted(u, v) /\ Agreeing(u, v, x)
  BY <1>1, <1>10, <1>11, <1>12, <1>13, <1>14, ObserveKeeps
<1> QED
  BY <1>10, <1>15 DEF Keeps, Stays, Same

\* The observation that rests goes on with a poll.
LEMMA PollAnewKeeps ==
    ASSUME NEW s, NEW v, NEW x, Keeps(s, v, x), s.job # 0, ~s.obs.pending,
           NEW f \in TabState, Same(s, f), f.calls = s.calls, ObservationCurrent(f),
           ~f.obs.pending, ~f.obs.paused, NEW u, u = Polled(f, "tab")
    PROVE  Keeps(u, v, x) /\ Stays(s, u)
<1>1. /\ s \in TabState /\ Taken(s, s, {}) /\ Controls(s, x) /\ Wanted(s, v)
      /\ Agreeing(s, v, x)
  BY Untouched
<1>2. Polls(f, u)
  BY PolledIs
<1>3. PICK R, d : /\ R \subseteq Observers /\ Makes(f, u, R, {d})
                  /\ d.op = "poll" /\ d.job = f.job
  BY <1>2 DEF Polls
<1>4. Same(f, u) /\ Awaited(u)
  BY <1>2 DEF Polls
<1>5. Same(s, u) /\ d.job = s.job
  BY <1>3, <1>4 DEF Same, Beside
<1>6. Makes(s, u, {} \cup R, {d})
  BY <1>1, <1>3, Assigns, Chain
<1>7. /\ {} \cup R \subseteq Observers /\ Live(s.calls, Observers) \subseteq {}
      /\ \A c \in {} : c.op \in Observers
  BY <1>1, <1>3 DEF Controls, Observing
<1>8. \E e : /\ {d} = {e} /\ e.op \in Observers /\ e.job = s.job
             /\ e.op = "where" => e.root = s.loading
  BY <1>3, <1>5 DEF Observers
<1>9. Controls(u, x) /\ Wanted(u, v) /\ Agreeing(u, v, x)
  BY <1>1, <1>4, <1>5, <1>6, <1>7, <1>8, ObserveKeeps
<1> QED
  BY <1>5, <1>9 DEF Keeps, Stays, Same

LEMMA ContinueKeeps ==
    ASSUME NEW s, NEW v, NEW x, Keeps(s, v, x), ObservationCurrent(s), ~s.obs.pending,
           NEW u, u = Polled([s EXCEPT !.obs.failures = 0, !.obs.paused = FALSE], "tab")
    PROVE  Keeps(u, v, x) /\ Stays(s, u)
<1>1. s \in TabState /\ Controls(s, x)
  BY Untouched
<1>2. s.job # 0
  BY <1>1 DEF Controls, Observing, ObservationCurrent
<1>3. s.obs \in Observation
  BY <1>1 DEF TabState, Observations, ObservationCurrent
<1>4. PICK o : o = [s.obs EXCEPT !.failures = 0, !.paused = FALSE]
  OBVIOUS
<1>5. /\ o \in Observation /\ o.pending = s.obs.pending /\ o.paused = FALSE
      /\ o.asked = s.obs.asked /\ o.job = s.obs.job /\ o.source = s.obs.source
  BY <1>3, <1>4 DEF Observation
<1>6. PICK f : f = [s EXCEPT !.obs = o]
  OBVIOUS
<1>7. f = [s EXCEPT !.obs.failures = 0, !.obs.paused = FALSE]
  BY <1>1, <1>4, <1>6 DEF TabState
<1>8. f \in TabState /\ f.calls = s.calls /\ f.obs = o /\ Same(s, f)
  <2>1. o \in Observations
    BY <1>5 DEF Observations
  <2> QED
    BY <1>1, <1>6, <2>1 DEF TabState, Same, Beside
<1>9. ObservationCurrent(f)
  <2>1. o # NoObservation
    BY <1>5 DEF Observation, NoObservation
  <2> QED
    BY <1>5, <1>8, <2>1 DEF ObservationCurrent, Same
<1>10. ~f.obs.pending /\ ~f.obs.paused /\ u = Polled(f, "tab")
  BY <1>5, <1>7, <1>8
<1> QED
  BY <1>2, <1>8, <1>9, <1>10, PollAnewKeeps

LEMMA PollFiresKeeps ==
    ASSUME NEW s, NEW v, NEW x, Keeps(s, v, x), s.timer,
           NEW u, u = Polled([s EXCEPT !.timer = FALSE], "tab")
    PROVE  Keeps(u, v, x) /\ Stays(s, u)
<1>1. s \in TabState /\ Controls(s, x)
  BY Untouched
<1>2. s.job # 0 /\ ObservationCurrent(s) /\ ~s.obs.pending /\ ~s.obs.paused
  BY <1>1 DEF Controls, Observing
<1>3. PICK f : f = [s EXCEPT !.timer = FALSE]
  OBVIOUS
<1>4. f \in TabState /\ f.calls = s.calls /\ f.obs = s.obs /\ Same(s, f)
  BY <1>1, <1>3 DEF TabState, Same, Beside
<1>5. ObservationCurrent(f) /\ ~f.obs.pending /\ ~f.obs.paused
  BY <1>2, <1>4 DEF ObservationCurrent, Same
<1> QED
  BY <1>2, <1>3, <1>4, <1>5, PollAnewKeeps

\* A refresh asks for the project to be indexed again.
LEMMA RefreshClickKeeps ==
    ASSUME NEW s, NEW v, NEW x, Keeps(s, v, x), s.mode # "start", ~Busy(s),
           NEW u, u = Calling([s EXCEPT !.refresh.on = TRUE],
                              [Call("refresh") EXCEPT !.root = s.root])
    PROVE  Keeps(u, v, x) /\ Stays(s, u)
<1>1. /\ s \in TabState /\ Taken(s, s, {}) /\ Controls(s, x) /\ Wanted(s, v)
      /\ Agreeing(s, v, x)
  BY Untouched
<1>2. /\ s.loading = NoRoot /\ s.job = 0 /\ ~s.refresh.on /\ ~s.returning /\ ~s.switching
      /\ "refresh" \notin x /\ Live(s.calls, RefreshOps) = {}
  BY Idle
<1>3. s.refresh \in RefreshState /\ s.root \in Roots
  BY <1>1 DEF TabState
<1>4. PICK r \in RefreshState : /\ r = [s.refresh EXCEPT !.on = TRUE]
                                /\ r.on = TRUE /\ r.timer = s.refresh.timer
  <2>1. ASSUME NEW r, r = [s.refresh EXCEPT !.on = TRUE]
        PROVE  r \in RefreshState /\ r.on = TRUE /\ r.timer = s.refresh.timer
    BY <1>3, <2>1 DEF RefreshState
  <2> QED
    BY <2>1
<1>5. PICK f : f = [s EXCEPT !.refresh = r]
  OBVIOUS
<1>6. f \in TabState /\ Around(s, f) /\ f.source = s.source /\ f.refresh = r /\ f.calls = s.calls
  BY <1>1, <1>5, WithRefresh
\* The state between: as if its timer were to send the request.
<1>7. PICK w \in RefreshState : w.on = TRUE /\ w.timer = TRUE
  <2>1. [on |-> TRUE, job |-> 0, retries |-> 0, timer |-> TRUE] \in RefreshState
    BY DEF RefreshState
  <2> QED
    BY <2>1
<1>8. PICK g : g = [s EXCEPT !.refresh = w]
  OBVIOUS
<1>9. g \in TabState /\ Around(s, g) /\ g.source = s.source /\ g.refresh = w /\ g.calls = s.calls
  BY <1>1, <1>8, WithRefresh
<1>10. Controls(g, x)
  <2>1. CallsTyped(g) /\ Starting(g)
    BY <1>1, <1>9 DEF Controls, CallsTyped, Starting, Around
  <2>2. Exclusive(g)
    BY <1>2, <1>9 DEF Exclusive, Around
  <2>3. Asking(g) /\ Observing(g)
    BY <1>1, <1>9 DEF Controls, Asking, Observing, ObservationCurrent, Around
  <2>4. Returning(g) /\ Switching(g)
    BY <1>1, <1>9 DEF Controls, Returning, Switching, Around
  <2>5. Refreshing(g, x)
    BY <1>2, <1>7, <1>9 DEF Refreshing
  <2> QED
    BY <1>9, <2>1, <2>2, <2>3, <2>4, <2>5 DEF Controls
<1>11. Wanted(g, v)
  BY <1>1, <1>9 DEF Wanted, Around
<1>12. Agreeing(g, v, x)
  BY <1>1, <1>9 DEF Agreeing, Moved, Around
<1>13. PICK d : d = WithRoot("refresh", s.root)
  OBVIOUS
<1>14. d \in Fresh /\ d.op = "refresh"
  <2>1. "refresh" \in Ops
    BY DEF Ops
  <2> QED
    BY <1>3, <1>13, <2>1, RootCall
<1>15. u = Calling(f, d)
  <2>1. f = [s EXCEPT !.refresh.on = TRUE]
    BY <1>1, <1>4, <1>5 DEF TabState
  <2> QED
    BY <1>13, <2>1 DEF WithRoot
<1>16. Makes(f, u, {}, {d}) /\ Same(f, u) /\ u.obs = f.obs /\ u.timer = f.timer
  BY <1>6, <1>14, <1>15, CallingIs
<1>17. Makes(g, u, {} \cup {}, {d})
  <2>1. Makes(g, f, {}, {})
    BY <1>6, <1>9, Assigns
  <2> QED
    BY <1>9, <1>16, <2>1, Chain
<1>18. Around(g, u) /\ u.refresh = r /\ u.source = s.source
  BY <1>6, <1>9, <1>16 DEF Around, Same, Beside
<1>19. u.refresh.on /\ ~u.refresh.timer
  <2>1. r.on = TRUE /\ ~s.refresh.timer /\ r.timer = s.refresh.timer
    BY <1>4, Idle
  <2> QED
    BY <1>18, <2>1
<1>20. Refreshes(g, u)
  <2>1. Makes(g, u, {}, {d})
    BY <1>17
  <2>2. \E e : Makes(g, u, {}, {e}) /\ e.op \in RefreshOps
    BY <1>14, <2>1 DEF RefreshOps
  <2> QED
    BY <1>18, <1>19, <2>2 DEF Refreshes
<1>21. Turns(g, u, x, x) /\ Hears(g, u)
  BY <1>9, <1>18, <1>20 DEF Turns, Hears
<1>22. /\ g.refresh.on /\ Taken(g, g, {}) /\ Around(g, g) /\ AllOf({}, RefreshOps)
       /\ Live(g.calls, RefreshOps) \subseteq {} /\ x \in {x, x \cup {"refresh"}}
  <2>1. g.refresh.on
    BY <1>7, <1>9
  <2>2. Taken(g, g, {})
    BY <1>9 DEF Taken
  <2> QED
    BY <1>2, <1>9, <2>1, <2>2 DEF Around, AllOf
<1>23. Controls(u, x) /\ Wanted(u, v) /\ Agreeing(u, v, x)
  BY <1>2, <1>10, <1>11, <1>12, <1>21, <1>22, RefreshKeeps
<1>24. u.mode = s.mode
  BY <1>6, <1>16 DEF Same, Around
<1> QED
  BY <1>23, <1>24 DEF Keeps, Stays

LEMMA RefreshFiresKeeps ==
    ASSUME NEW s, NEW v, NEW x, Keeps(s, v, x), s.refresh.timer,
           NEW u, u = RefreshPolled(s)
    PROVE  Keeps(u, v, x) /\ Stays(s, u)
<1>1. /\ s \in TabState /\ Taken(s, s, {}) /\ Controls(s, x) /\ Wanted(s, v)
      /\ Agreeing(s, v, x) /\ Around(s, s)
  BY Untouched
<1>2. s.refresh.on /\ "refresh" \notin x /\ Live(s.calls, RefreshOps) = {}
  BY <1>1 DEF Controls, Refreshing
<1>3. Refreshes(s, u) /\ u.source = s.source
  BY <1>1, <1>2, RefreshPolledIs
<1>4. Turns(s, u, x, x) /\ Hears(s, u)
  BY <1>3 DEF Turns, Hears
<1>5. /\ Live(s.calls, RefreshOps) \subseteq {} /\ AllOf({}, RefreshOps)
      /\ x \in {x, x \cup {"refresh"}}
  BY <1>2 DEF AllOf
<1>6. Controls(u, x) /\ Wanted(u, v) /\ Agreeing(u, v, x)
  BY <1>1, <1>2, <1>4, <1>5, RefreshKeeps
<1>7. u.mode = s.mode
  BY <1>3 DEF Refreshes, Around
<1> QED
  BY <1>6, <1>7 DEF Keeps, Stays

LEMMA SwitchKeeps ==
    ASSUME NEW s, NEW v, NEW x, Keeps(s, v, x), s.mode # "start", ~Busy(s),
           NEW source \in Source, NEW u, u = Mutating(Bumped(s), source, "switch")
    PROVE  Keeps(u, v, x) /\ Stays(s, u)
<1>1. s \in TabState /\ Controls(s, x) /\ Wanted(s, v) /\ Agreeing(s, v, x)
  BY Untouched
<1>2. PICK b : b = Bumped(s)
  OBVIOUS
<1>3. /\ Makes(s, b, Requests, {}) /\ Same(s, b) /\ b.timer = s.timer
      /\ s.obs = NoObservation => b.obs = NoObservation
  BY <1>1, <1>2, BumpedIs
<1>4. b \in TabState /\ b.obs = NoObservation
  BY <1>3, Idle DEF Makes
<1>5. /\ Requests \subseteq Requests /\ "switch" \in Thens
      /\ "switch" # "home" => ListOps \subseteq Requests
  BY DEF Thens, ListOps, Requests
<1>6. u = Mutating(b, source, "switch")
  BY <1>2
<1>7. Controls(u, x) /\ Wanted(u, v) /\ Agreeing(u, v, x) /\ u.mode = s.mode
  BY <1>1, <1>3, <1>4, <1>5, <1>6, MutatingKeeps
<1> QED
  BY <1>7 DEF Keeps, Stays

LEMMA HomeKeeps ==
    ASSUME NEW s, NEW v, NEW x, Keeps(s, v, x), s.mode # "start", ~Busy(s),
           NEW source \in Source, NEW u, u = Mutating(s, source, "home")
    PROVE  Keeps(u, v, x) /\ Stays(s, u)
<1>1. s \in TabState /\ Controls(s, x) /\ Wanted(s, v) /\ Agreeing(s, v, x) /\ Same(s, s)
  BY Untouched
<1>2. s.obs = NoObservation
  BY Idle
<1>3. Makes(s, s, {}, {})
  BY <1>1, Assigns
<1>4. /\ {} \subseteq Requests /\ "home" \in Thens
      /\ "home" # "home" => ListOps \subseteq {}
  BY DEF Thens
<1>5. Controls(u, x) /\ Wanted(u, v) /\ Agreeing(u, v, x) /\ u.mode = s.mode
  BY <1>1, <1>2, <1>3, <1>4, MutatingKeeps
<1> QED
  BY <1>5 DEF Keeps, Stays

-----------------------------------------------------------------------------
(* The server, and what it answers *)

\* The server goes from v to w: its jobs are numbered on, and keep their roots.
Follows(v, w) ==
  /\ ServerInv(v) /\ ServerInv(w)
  /\ v.job.id <= w.job.id
  /\ w.job.id = v.job.id => w.job.root = v.job.root

LEMMA JobForKept ==
    ASSUME NEW v, NEW w, Follows(v, w), NEW id \in Nat, NEW root, JobFor(v, id, root)
    PROVE  JobFor(w, id, root)
<1>1. v.job.id \in Nat /\ w.job.id \in Nat
  BY DEF Follows, ServerInv, ServerState, JobRecord
<1> QED
  BY <1>1 DEF JobFor, Follows

LEMMA ServerFields ==
    ASSUME NEW v, ServerInv(v)
    PROVE  /\ v.source \in Source /\ v.index \in Roots /\ v.job \in JobRecord
           /\ v.job.id \in Nat /\ v.job.root \in Roots /\ v.job.status \in JobStatus
           /\ v.job.ofSource \in BOOLEAN /\ Numbered(v.job)
BY DEF ServerInv, ServerState, JobRecord

LEMMA StartedIs ==
    ASSUME NEW v, ServerInv(v), NEW root \in Roots, NEW w, w = JobStarted(v, root)
    PROVE  /\ Follows(v, w) /\ w.source = v.source
           /\ w.job.root = root /\ w.job.id # 0
<1>1. PICK j : j = [id |-> v.job.id + 1, root |-> root, status |-> "running", ofSource |-> TRUE]
  OBVIOUS
<1>2. v \in ServerState /\ v.job.id \in Nat
  BY ServerFields DEF ServerInv
<1>3. j \in JobRecord /\ j.id = v.job.id + 1 /\ j.root = root
  BY <1>1, <1>2 DEF JobRecord, JobStatus
<1>4. w = [v EXCEPT !.job = j]
  BY <1>1 DEF JobStarted
<1>5. w \in ServerState /\ w.job = j /\ w.source = v.source
  BY <1>2, <1>3, <1>4 DEF ServerState
<1>6. v.job.id <= j.id /\ j.id # v.job.id /\ j.id # 0
  BY <1>2, <1>3
<1> QED
  BY <1>3, <1>5, <1>6 DEF Follows, ServerInv, Numbered

LEMMA CancelledJob ==
    ASSUME NEW v, ServerInv(v), NEW w, w = JobCancelled(v)
    PROVE  /\ Follows(v, w) /\ w.source = v.source
           /\ w.job.root = v.job.root /\ w.job.id = v.job.id
<1>1. PICK st \in JobStatus :
        st = (IF v.job.status = "running" THEN "cancelled" ELSE v.job.status) /\ st # "running"
  BY ServerFields DEF JobStatus
<1>2. v \in ServerState /\ v.job \in JobRecord
  BY ServerFields DEF ServerInv
<1>3. PICK j : j = [v.job EXCEPT !.status = st]
  OBVIOUS
<1>4. j \in JobRecord /\ j.id = v.job.id /\ j.root = v.job.root /\ j.status = st
  BY <1>2, <1>3 DEF JobRecord
<1>5. w = [v EXCEPT !.job = j]
  BY <1>1, <1>2, <1>3 DEF JobCancelled, ServerState
<1>6. w \in ServerState /\ w.job = j /\ w.source = v.source
  BY <1>2, <1>4, <1>5 DEF ServerState
<1>7. v.job.id <= v.job.id
  BY ServerFields
<1> QED
  BY <1>1, <1>4, <1>6, <1>7 DEF Follows, ServerInv, Numbered

LEMMA MutatedIs ==
    ASSUME NEW v, ServerInv(v), NEW source \in Source, NEW w, w = SourceMutated(v, source)
    PROVE  Follows(v, w) /\ w.source = source
<1>1. CASE source = v.source
  <2>1. w = v /\ v.job.id <= v.job.id
    BY <1>1, ServerFields DEF SourceMutated
  <2> QED
    BY <1>1, <2>1 DEF Follows
<1>2. CASE source # v.source
  <2>1. PICK c : c = JobCancelled(v)
    OBVIOUS
  <2>2. Follows(v, c) /\ c.job.root = v.job.root /\ c.job.id = v.job.id
    BY <2>1, CancelledJob
  <2>3. c \in ServerState /\ c.job \in JobRecord /\ Numbered(c.job)
    BY <2>2, ServerFields DEF Follows, ServerInv
  <2>4. PICK j : j = [c.job EXCEPT !.ofSource = FALSE]
    OBVIOUS
  <2>5. /\ j \in JobRecord /\ j.id = c.job.id /\ j.root = c.job.root
        /\ j.status = c.job.status
    BY <2>3, <2>4 DEF JobRecord
  <2>6. w = [c EXCEPT !.source = source, !.index = NoRoot, !.job = j]
    BY <1>2, <2>1, <2>3, <2>4 DEF SourceMutated, ServerState
  <2>7. w \in ServerState /\ w.job = j /\ w.source = source
    BY <2>3, <2>5, <2>6 DEF ServerState, Roots
  <2> QED
    BY <2>2, <2>3, <2>5, <2>7 DEF Follows, ServerInv, Numbered
<1> QED
  BY <1>1, <1>2

\* What the server does for a call: only a change of the source changes it.
LEMMA EffectIs ==
    ASSUME NEW v, ServerInv(v), NEW c \in CallRecord,
           c.op = "mutate" => c.source \in Source,
           NEW w, w = Effect(v, c)
    PROVE  /\ Follows(v, w)
           /\ c.op # "mutate" => w.source = v.source
           /\ c.op = "mutate" => w.source = c.source
           /\ c.op \in StartOps => w.job.root = c.root /\ w.job.id # 0
<1>1. CASE c.op \in StartOps
  <2>1. w = JobStarted(v, c.root) /\ c.root \in Roots
    BY <1>1 DEF Effect, StartOps, CallRecord
  <2> QED
    BY <1>1, <2>1, StartedIs DEF StartOps
<1>2. CASE c.op \in {"cancel", "stray"} /\ v.job.id = c.job
  <2>1. w = JobCancelled(v)
    BY <1>2 DEF Effect
  <2> QED
    BY <1>2, <2>1, CancelledJob DEF StartOps
<1>3. CASE c.op = "mutate"
  <2>1. w = SourceMutated(v, c.source)
    BY <1>3 DEF Effect
  <2> QED
    BY <1>3, <2>1, MutatedIs DEF StartOps
<1>4. CASE /\ c.op \notin StartOps /\ c.op # "mutate"
           /\ ~(c.op \in {"cancel", "stray"} /\ v.job.id = c.job)
  <2>1. w = v /\ v.job.id <= v.job.id
    BY <1>4, ServerFields DEF Effect, StartOps
  <2> QED
    BY <1>4, <2>1 DEF Follows
<1> QED
  BY <1>1, <1>2, <1>3, <1>4

\* A full answer tells the server's source.
LEMMA AnswerIs ==
    ASSUME NEW w, ServerInv(w), NEW code \in {200, 202, 409}, NEW job \in JobRecord,
           NEW current \in Roots, NEW r, r = Answer(code, w, job, current)
    PROVE  /\ r \in Told /\ r.source = w.source /\ r.job = job /\ r.code = code
           /\ r.current = current
<1>1. w.source \in Source
  BY ServerFields
<1>2. r = [code |-> code, source |-> w.source, job |-> job, current |-> current]
  BY DEF Answer
<1> QED
  BY <1>1, <1>2 DEF Told

LEMMA NoJobIs == NoJob \in JobRecord /\ NoJob.id = 0
BY DEF NoJob, JobRecord, Roots, JobStatus

LEMMA StateAnswerIs ==
    ASSUME NEW w, ServerInv(w), NEW r, r = StateAnswer(w)
    PROVE  /\ r \in Told /\ r.source = w.source
           /\ r.code = 202 => r.job = w.job /\ w.job.id # 0
<1>1. w.job \in JobRecord /\ w.index \in Roots /\ Numbered(w.job) /\ NoRoot \in Roots
  BY ServerFields DEF Roots
<1>2. CASE w.job.status = "running"
  <2>1. r = Answer(202, w, w.job, w.index)
    BY <1>2 DEF StateAnswer
  <2> QED
    BY <1>1, <1>2, <2>1, AnswerIs DEF Numbered
<1>3. CASE w.job.status = "failed" /\ w.job.ofSource /\ w.index = NoRoot
  <2>1. r = Answer(200, w, w.job, NoRoot)
    BY <1>3 DEF StateAnswer
  <2>2. r \in Told /\ r.source = w.source /\ r.code = 200
    BY <1>1, <2>1, AnswerIs
  <2> QED
    BY <2>2
<1>4. CASE /\ w.job.status # "running"
           /\ ~(w.job.status = "failed" /\ w.job.ofSource /\ w.index = NoRoot)
  <2>1. PICK code \in {200, 202, 409} : r = Answer(code, w, NoJob, w.index) /\ code # 202
    BY <1>4 DEF StateAnswer
  <2>2. r \in Told /\ r.source = w.source /\ r.code = code
    BY <1>1, <2>1, NoJobIs, AnswerIs
  <2> QED
    BY <2>1, <2>2
<1> QED
  BY <1>2, <1>3, <1>4

LEMMA StatusAnswerIs ==
    ASSUME NEW w, ServerInv(w), NEW id, NEW r, r = StatusAnswer(w, id)
    PROVE  /\ r \in StatusTold \cup [code: {404}]
           /\ r \in Told => r.source = w.source /\ r.job = w.job /\ w.job.id = id
<1>1. CASE w.job.id # id
  <2>1. r = [code |-> 404]
    BY <1>1 DEF StatusAnswer
  <2>2. r \in [code: {404}] /\ r.code = 404
    BY <2>1
  <2>3. r \notin Told
    BY <2>2 DEF Told
  <2> QED
    BY <2>2, <2>3
<1>2. CASE w.job.id = id
  <2>1. PICK current \in {NoRoot, w.job.root} : r = Answer(200, w, w.job, current)
    BY <1>2 DEF StatusAnswer
  <2>2. current \in Roots /\ w.job \in JobRecord /\ 200 \in {200, 202, 409}
    BY ServerFields DEF Roots
  <2>3. r \in Told /\ r.source = w.source /\ r.job = w.job /\ r.current = current
    BY <2>1, <2>2, AnswerIs
  <2>4. r \in StatusTold
    BY <2>1, <2>3 DEF StatusTold
  <2> QED
    BY <1>2, <2>3, <2>4
<1> QED
  BY <1>1, <1>2

\* r is what the server may answer c, which it handles on its way from v to w.
Answers(v, w, c, r) ==
  /\ r \in Replies /\ ReplyTyped([c EXCEPT !.reply = r])
  /\ c.op # "mutate" => w.source = v.source
  /\ c.op = "mutate" => w.source = c.source
  /\ c.op \in MutateOps => r \in Told /\ r.source = w.source
  /\ c.op \in Looks /\ r \in Told => r.source = w.source
  /\ c.op = "start" => r.job.id = w.job.id /\ w.job.root = c.root
  /\ c.op = "init" /\ r.code = 202 => r.job = w.job /\ w.job.id # 0
  /\ c.op \in {"poll", "cancel"} /\ r \in Told => r.job = w.job /\ w.job.id = c.job

LEMMA ReplyFields ==
    ASSUME NEW c \in CallRecord, NEW r \in Replies, NEW a, a = [c EXCEPT !.reply = r]
    PROVE  /\ a \in CallRecord /\ a.reply = r /\ a.op = c.op /\ a.live = c.live
           /\ a.job = c.job /\ a.root = c.root /\ a.source = c.source /\ a.then = c.then
BY DEF CallRecord

LEMMA ReplyIs ==
    ASSUME NEW v, ServerInv(v), NEW c \in CallRecord,
           c.op = "mutate" => c.source \in Source,
           NEW w, w = Effect(v, c), NEW r, r = Reply(w, c)
    PROVE  Answers(v, w, c, r)
<1>1. /\ Follows(v, w) /\ ServerInv(w)
      /\ c.op # "mutate" => w.source = v.source
      /\ c.op = "mutate" => w.source = c.source
      /\ c.op \in StartOps => w.job.root = c.root /\ w.job.id # 0
  BY EffectIs DEF Follows
<1>2. w.job \in JobRecord /\ w.index \in Roots /\ NoRoot \in Roots
  BY <1>1, ServerFields DEF Roots
<1>3. CASE c.op \in StatusOps
  <2>1. r = StatusAnswer(w, c.job)
    BY <1>3 DEF Reply, StatusOps
  <2>2. /\ r \in StatusTold \cup [code: {404}]
        /\ r \in Told => r.source = w.source /\ r.job = w.job /\ w.job.id = c.job
    BY <1>1, <2>1, StatusAnswerIs
  <2>3. r \in Replies
    BY <2>2 DEF Replies, StatusTold, Bare
  <2>4. ReplyTyped([c EXCEPT !.reply = r])
    <3>1. PICK a : a = [c EXCEPT !.reply = r]
      OBVIOUS
    <3>2. a.reply = r /\ a.op = c.op
      BY <2>3, <3>1, ReplyFields
    <3> QED
      BY <1>3, <2>2, <3>1, <3>2 DEF ReplyTyped, StartOps, StatusOps, ListOps
  <2> QED
    BY <1>1, <1>3, <2>2, <2>3, <2>4 DEF Answers, StatusOps, MutateOps
<1>4. CASE c.op \in StartOps
  <2>1. r = [code |-> 202, job |-> w.job]
    BY <1>4 DEF Reply, StartOps
  <2>2. r \in Accepted /\ r.job = w.job
    BY <1>2, <2>1 DEF Accepted
  <2>3. r \in Replies
    BY <2>2 DEF Replies
  <2>4. ReplyTyped([c EXCEPT !.reply = r])
    <3>1. PICK a : a = [c EXCEPT !.reply = r]
      OBVIOUS
    <3>2. a.reply = r /\ a.op = c.op
      BY <2>3, <3>1, ReplyFields
    <3> QED
      BY <1>1, <1>4, <2>2, <3>1, <3>2 DEF ReplyTyped, StartOps, StatusOps, ListOps
  <2> QED
    BY <1>1, <1>4, <2>2, <2>3, <2>4 DEF Answers, StartOps, MutateOps, Looks, Observers, ListOps
<1>5. CASE c.op \notin StatusOps \cup StartOps
  <2>1. /\ r \in Told /\ r.source = w.source
        /\ c.op = "init" /\ r.code = 202 => r.job = w.job /\ w.job.id # 0
    <3>1. CASE c.op \in {"init", "where", "refreshWhere", "return", "reconcile"}
      <4>1. r = StateAnswer(w)
        BY <3>1 DEF Reply
      <4> QED
        BY <1>1, <4>1, StateAnswerIs
    <3>2. CASE c.op \notin {"init", "where", "refreshWhere", "return", "reconcile"}
      <4>1. PICK code \in {200, 202, 409}, current \in Roots : r = Answer(code, w, NoJob, current)
        <5>1. c.op \in {"refreshSessions", "resumeSessions", "mutate", "summary", "discover"}
          BY <1>5, <3>2 DEF CallRecord, Ops, StatusOps, StartOps
        <5>2. CASE c.op \in {"refreshSessions", "resumeSessions"}
          BY <1>2, <5>2 DEF Reply
        <5>3. CASE c.op = "mutate"
          BY <1>2, <5>3 DEF Reply
        <5>4. CASE c.op \in {"summary", "discover"}
          BY <1>2, <5>4 DEF Reply
        <5> QED
          BY <5>1, <5>2, <5>3, <5>4
      <4>2. r \in Told /\ r.source = w.source
        BY <1>1, <4>1, NoJobIs, AnswerIs
      <4> QED
        BY <3>2, <4>2
    <3> QED
      BY <3>1, <3>2
  <2>2. r \in Replies
    BY <2>1 DEF Replies
  <2>3. ReplyTyped([c EXCEPT !.reply = r])
    <3>1. PICK a : a = [c EXCEPT !.reply = r]
      OBVIOUS
    <3>2. a.reply = r /\ a.op = c.op
      BY <2>2, <3>1, ReplyFields
    <3> QED
      BY <1>5, <2>1, <3>1, <3>2 DEF ReplyTyped
  <2> QED
    BY <1>1, <1>5, <2>1, <2>2, <2>3 DEF Answers, StatusOps, StartOps
<1> QED
  BY <1>3, <1>4, <1>5

\* Conflicts, which the server answers where it looks for projects
LEMMA ConflictIs ==
    ASSUME NEW v, NEW c \in CallRecord, c.op \in ListOps
    PROVE  Answers(v, v, c, Conflict)
<1>1. Conflict \in Replies /\ Conflict \notin Told
  BY DEF Conflict, Replies, Bare, Told
<1>2. ReplyTyped([c EXCEPT !.reply = Conflict])
  <2>1. PICK a : a = [c EXCEPT !.reply = Conflict]
    OBVIOUS
  <2>2. a.reply = Conflict /\ a.op = c.op
    BY <1>1, <2>1, ReplyFields
  <2> QED
    BY <2>1, <2>2 DEF ReplyTyped, StartOps, StatusOps, ListOps
<1> QED
  BY <1>1, <1>2 DEF Answers, ListOps, MutateOps

\* u is s with the call c answered: a.
Replied(s, c, a, u) ==
  /\ u \in TabState /\ Same(s, u) /\ Around(s, u)
  /\ u.calls = (s.calls \ {c}) \cup {a}

LEMMA RepliedIs ==
    ASSUME NEW s \in TabState, NEW c \in s.calls, NEW r \in Replies,
           NEW a, a = [c EXCEPT !.reply = r],
           NEW u, u = Calling([s EXCEPT !.calls = s.calls \ {c}], a)
    PROVE  Replied(s, c, a, u)
<1>1. c \in CallRecord /\ s.calls \in SUBSET CallRecord
  BY DEF TabState
<1>2. a \in CallRecord
  BY <1>1, ReplyFields
<1>3. PICK t : t = [s EXCEPT !.calls = s.calls \ {c}]
  OBVIOUS
<1>4. t \in TabState /\ t.calls = s.calls \ {c} /\ Same(s, t) /\ Around(s, t)
  BY <1>1, <1>3 DEF TabState, Same, Beside, Around
<1>5. PICK X \in SUBSET CallRecord : X = t.calls \cup {a}
  BY <1>1, <1>2, <1>4
<1>7. u = [t EXCEPT !.calls = X]
  BY <1>3, <1>5 DEF Calling
<1>6. u \in TabState /\ u.calls = X /\ Same(t, u) /\ Around(t, u)
  BY <1>4, <1>7 DEF TabState, Same, Beside, Around
<1> QED
  BY <1>4, <1>5, <1>6 DEF Replied, Same, Beside, Around

\* An answer replaces its call among those that are heard.
Replaces(s, c, a, u, ops) ==
  /\ \A e : e \in Live(u.calls, ops) <=>
              \/ e \in Live(s.calls, ops) /\ e # c
              \/ e = a /\ c \in Live(s.calls, ops)
  /\ One(Live(s.calls, ops)) => One(Live(u.calls, ops))
  /\ Live(s.calls, ops) = {} => Live(u.calls, ops) = {}

LEMMA RepliedLive ==
    ASSUME NEW s, NEW c \in s.calls, c \in CallRecord, NEW r \in Replies,
           NEW a, a = [c EXCEPT !.reply = r], NEW u, Replied(s, c, a, u), NEW ops
    PROVE  Replaces(s, c, a, u, ops)
<1>1. a.live = c.live /\ a.op = c.op
  BY ReplyFields
<1>2. \A e : e \in Live(u.calls, ops) <=>
               \/ e \in Live(s.calls, ops) /\ e # c
               \/ e = a /\ c \in Live(s.calls, ops)
  BY <1>1 DEF Replied, Live
<1>3. ASSUME One(Live(s.calls, ops)) PROVE One(Live(u.calls, ops))
  <2>1. PICK k : Live(s.calls, ops) = {k}
    BY <1>3 DEF One
  <2>2. CASE k = c
    <3>1. Live(u.calls, ops) = {a}
      BY <1>2, <2>1, <2>2
    <3> QED
      BY <3>1 DEF One
  <2>3. CASE k # c
    <3>1. Live(u.calls, ops) = {k}
      BY <1>2, <2>1, <2>3
    <3> QED
      BY <3>1 DEF One
  <2> QED
    BY <2>2, <2>3
<1>4. ASSUME Live(s.calls, ops) = {} PROVE Live(u.calls, ops) = {}
  BY <1>2, <1>4
<1> QED
  BY <1>2, <1>3, <1>4 DEF Replaces

LEMMA RepliedControls ==
    ASSUME NEW s, NEW x, Controls(s, x), NEW c \in s.calls, c \in CallRecord,
           NEW r \in Replies, NEW a, a = [c EXCEPT !.reply = r], ReplyTyped(a),
           NEW u, Replied(s, c, a, u)
    PROVE  Controls(u, x)
<1> DEFINE Kept(ops) == /\ One(Live(s.calls, ops)) => One(Live(u.calls, ops))
                        /\ Live(s.calls, ops) = {} => Live(u.calls, ops) = {}
<1>1. ASSUME NEW ops PROVE Kept(ops)
  <2>1. Replaces(s, c, a, u, ops)
    BY RepliedLive
  <2> QED
    BY <2>1 DEF Replaces
<1> HIDE DEF Kept
<1>2. /\ Kept({"start"}) /\ Kept({"init"}) /\ Kept(Observers) /\ Kept({"return"})
      /\ Kept(MutateOps) /\ Kept(RefreshOps) /\ Kept(ListOps)
  BY <1>1
<1> USE DEF Kept
<1>3. a \in CallRecord /\ a.live = c.live /\ a.op = c.op /\ a.source = c.source /\ a.then = c.then
  BY ReplyFields
<1>4. u \in TabState /\ Same(s, u) /\ Around(s, u) /\ u.refresh = s.refresh /\ u.source = s.source
  BY DEF Replied, Same, Beside
<1>5. CallsTyped(u)
  BY <1>3 DEF Controls, CallsTyped, Replied
<1>6. Starting(u)
  <2>1. CASE s.mode = "start"
    <3>1. PICK k : s.calls = {k} /\ k.live /\ k.op = "init"
      BY <2>1 DEF Controls, Starting, One, Live
    <3>2. u.calls = {a}
      BY <3>1 DEF Replied
    <3>3. One(u.calls) /\ u.calls = Live(u.calls, {"init"})
      BY <1>3, <3>1, <3>2 DEF One, Live
    <3> QED
      BY <1>4, <2>1, <3>3 DEF Controls, Starting, Around
  <2>2. CASE s.mode # "start"
    BY <1>2, <1>4, <2>2 DEF Controls, Starting, Around
  <2> QED
    BY <2>1, <2>2
<1>7. Exclusive(u)
  BY <1>4 DEF Controls, Exclusive, Around
<1>8. Asking(u)
  BY <1>2, <1>4 DEF Controls, Asking, Around
<1>9. ObservationCurrent(s) => ObservationCurrent(u)
  BY <1>4 DEF ObservationCurrent, Around
<1>10. Observing(u)
  BY <1>2, <1>4, <1>9 DEF Controls, Observing, Around
<1>11. Returning(u)
  BY <1>2, <1>4 DEF Controls, Returning, Around
<1>12. Switching(u)
  <2>1. ASSUME NEW e \in Live(u.calls, MutateOps)
        PROVE  e.source \in Source /\ (e.then # "home" => Live(u.calls, ListOps) = {})
    <3>1. PICK k \in Live(s.calls, MutateOps) : k.source = e.source /\ k.then = e.then
      <4>2. Replaces(s, c, a, u, MutateOps)
        BY RepliedLive
      <4>1. \/ e \in Live(s.calls, MutateOps) /\ e # c
            \/ e = a /\ c \in Live(s.calls, MutateOps)
        BY <2>1, <4>2 DEF Replaces
      <4> QED
        BY <1>3, <4>1
    <3> QED
      BY <1>2, <3>1 DEF Controls, Switching
  <2> QED
    BY <1>2, <1>4, <2>1 DEF Controls, Switching, Around
<1>13. Refreshing(u, x)
  BY <1>2, <1>4 DEF Controls, Refreshing, Around
<1> QED
  BY <1>4, <1>5, <1>6, <1>7, <1>8, <1>10, <1>11, <1>12, <1>13 DEF Controls

LEMMA RepliedWanted ==
    ASSUME NEW s, NEW x, Controls(s, x), NEW v, Wanted(s, v), NEW w, Follows(v, w),
           NEW c \in s.calls, c \in CallRecord, NEW r \in Replies, Answers(v, w, c, r),
           NEW a, a = [c EXCEPT !.reply = r], NEW u, Replied(s, c, a, u)
    PROVE  Wanted(u, w)
<1>1. /\ a \in CallRecord /\ a.live = c.live /\ a.op = c.op /\ a.root = c.root /\ a.job = c.job
      /\ a.reply = r
  BY ReplyFields
<1>2. u.job = s.job /\ u.loading = s.loading /\ s.job \in Nat /\ s.calls \in SUBSET CallRecord
  BY DEF Replied, Same, Controls, TabState
<1>3. w.job.id \in Nat
  BY ServerFields DEF Follows
<1>4. u.job # 0 => JobFor(w, u.job, u.loading)
  BY <1>2, JobForKept DEF Wanted
<1>5. ASSUME NEW e \in Live(u.calls, {"start"})
      PROVE  e.root = u.loading /\ (Answered(e) => JobFor(w, e.reply.job.id, e.root))
  <2>1. CASE e \in Live(s.calls, {"start"})
    <3>1. e \in CallRecord /\ ReplyTyped(e) /\ e.op = "start"
      BY <1>2, <2>1 DEF Live, Controls, CallsTyped
    <3>2. Answered(e) => e.reply.job.id \in Nat
      BY <3>1 DEF ReplyTyped, StartOps, Accepted, JobRecord
    <3> QED
      BY <1>2, <2>1, <3>2, JobForKept DEF Wanted
  <2>2. CASE e = a /\ c \in Live(s.calls, {"start"})
    <3>1. c.op = "start" /\ c.root = s.loading
      BY <2>2 DEF Wanted, Live
    <3>2. r.job.id = w.job.id /\ w.job.root = c.root
      BY <3>1 DEF Answers
    <3>3. JobFor(w, r.job.id, c.root)
      BY <1>3, <3>2 DEF JobFor
    <3> QED
      BY <1>1, <1>2, <2>2, <3>1, <3>3
  <2>3. Replaces(s, c, a, u, {"start"})
    BY RepliedLive
  <2> QED
    BY <1>5, <2>1, <2>2, <2>3 DEF Replaces
<1>6. ASSUME NEW e \in Live(u.calls, {"init"}), Answered(e), e.reply.code = 202
      PROVE  e.reply.job.id # 0 /\ JobFor(w, e.reply.job.id, e.reply.job.root)
  <2>1. CASE e \in Live(s.calls, {"init"})
    <3>1. e \in CallRecord /\ ReplyTyped(e) /\ e.op = "init"
      BY <1>2, <2>1 DEF Live, Controls, CallsTyped
    <3>2. e.reply.job.id \in Nat
      BY <1>6, <3>1 DEF ReplyTyped, StartOps, StatusOps, ListOps, Told, JobRecord
    <3> QED
      BY <1>6, <2>1, <3>2, JobForKept DEF Wanted
  <2>2. CASE e = a /\ c \in Live(s.calls, {"init"})
    <3>1. c.op = "init" /\ r.code = 202
      BY <1>1, <1>6, <2>2 DEF Live
    <3>2. r.job = w.job /\ w.job.id # 0
      BY <3>1 DEF Answers
    <3>3. JobFor(w, r.job.id, r.job.root)
      BY <1>3, <3>2 DEF JobFor
    <3> QED
      BY <1>1, <2>2, <3>2, <3>3
  <2>3. Replaces(s, c, a, u, {"init"})
    BY RepliedLive
  <2> QED
    BY <1>6, <2>1, <2>2, <2>3 DEF Replaces
<1>7. ASSUME NEW e \in Live(u.calls, Observers)
      PROVE  /\ e.job = u.job
             /\ e.op = "where" => e.root = u.loading
             /\ e.op # "where" /\ e.reply \in Told => e.reply.job.root = u.loading
  <2>1. CASE e \in Live(s.calls, Observers)
    BY <1>2, <2>1 DEF Wanted
  <2>2. CASE e = a /\ c \in Live(s.calls, Observers)
    <3>1. c.job = s.job /\ (c.op = "where" => c.root = s.loading) /\ c.op \in Observers
      BY <2>2 DEF Wanted, Live
    <3>2. s.job # 0
      BY <2>2 DEF Controls, Observing
    <3>3. ASSUME c.op # "where", r \in Told PROVE r.job.root = s.loading
      <4>1. c.op \in {"poll", "cancel"}
        BY <3>1, <3>3 DEF Observers
      <4>2. r.job = w.job /\ w.job.id = c.job
        BY <3>3, <4>1 DEF Answers
      <4>3. JobFor(w, s.job, s.loading)
        BY <1>2, <1>4, <3>2
      <4> QED
        BY <3>1, <4>2, <4>3 DEF JobFor
    <3> QED
      BY <1>1, <1>2, <2>2, <3>1, <3>3
  <2>3. Replaces(s, c, a, u, Observers)
    BY RepliedLive
  <2> QED
    BY <1>7, <2>1, <2>2, <2>3 DEF Replaces
<1> QED
  BY <1>4, <1>5, <1>6, <1>7 DEF Wanted

LEMMA RepliedAgreeing ==
    ASSUME NEW s, NEW x, Controls(s, x), NEW v, Agreeing(s, v, x), NEW w,
           NEW c \in s.calls, c \in CallRecord, NEW r \in Replies, Answers(v, w, c, r),
           NEW a, a = [c EXCEPT !.reply = r], NEW u, Replied(s, c, a, u)
    PROVE  Agreeing(u, w, x)
<1>1. /\ a \in CallRecord /\ a.live = c.live /\ a.op = c.op /\ a.source = c.source
      /\ a.reply = r
  BY ReplyFields
<1>2. u.mode = s.mode /\ u.source = s.source
  BY DEF Replied, Same
<1>6. Replaces(s, c, a, u, MutateOps) /\ Replaces(s, c, a, u, Looks)
  <2>1. Replaces(s, c, a, u, MutateOps)
    BY RepliedLive
  <2>2. Replaces(s, c, a, u, Looks)
    BY RepliedLive
  <2> QED
    BY <2>1, <2>2
<1>3. CASE "source" \in x
  BY <1>3 DEF Agreeing
<1>4. CASE "source" \notin x /\ c.op = "mutate"
  <2>1. c \in Live(s.calls, MutateOps)
    BY <1>4 DEF Controls, CallsTyped, Observers, Requests, MutateOps, Live
  <2>2. Live(s.calls, MutateOps) = {c}
    BY <2>1 DEF Controls, Switching, One
  <2>3. r \in Told /\ r.source = w.source /\ w.source = c.source
    BY <1>4 DEF Answers, MutateOps
  <2>4. \A e : e \in Live(u.calls, MutateOps) <=> e = a
    BY <1>6, <2>2 DEF Replaces
  <2>5. Answered(a)
    BY <1>1, <2>3 DEF Answered, Told, Unanswered
  <2>6. Moved(u, w)
    BY <1>1, <2>3, <2>4, <2>5 DEF Moved
  <2> QED
    BY <1>1, <2>3, <2>4, <2>6 DEF Agreeing
<1>5. CASE "source" \notin x /\ c.op # "mutate"
  <2>1. w.source = v.source
    BY <1>5 DEF Answers
  <2>2. ASSUME NEW m \in Live(u.calls, MutateOps), Answered(m)
        PROVE  m.reply.source = w.source
    <3>1. CASE m \in Live(s.calls, MutateOps)
      BY <1>5, <2>1, <2>2, <3>1 DEF Agreeing
    <3>2. CASE m = a /\ c \in Live(s.calls, MutateOps)
      BY <1>1, <3>2 DEF Answers, Live
    <3> QED
      BY <1>6, <2>2, <3>1, <3>2 DEF Replaces
  <2>3. ASSUME Moved(s, v) PROVE Moved(u, w)
    <3>1. PICK m \in Live(s.calls, MutateOps) :
            m.source = v.source /\ (m.op = "mutate" => Answered(m))
      BY <2>3 DEF Moved
    <3>2. CASE m # c
      <4>1. m \in Live(u.calls, MutateOps)
        BY <1>6, <3>1, <3>2 DEF Replaces
      <4> QED
        BY <2>1, <3>1, <4>1 DEF Moved
    <3>3. CASE m = c
      <4>1. a \in Live(u.calls, MutateOps)
        BY <1>6, <3>1, <3>3 DEF Replaces
      <4> QED
        BY <1>1, <1>5, <2>1, <3>1, <3>3, <4>1 DEF Moved
    <3> QED
      BY <3>2, <3>3
  <2>4. ASSUME ~Moved(s, v)
        PROVE  /\ u.mode # "start" => u.source = w.source
               /\ \A e \in Live(u.calls, Looks) : e.reply \in Told => e.reply.source = w.source
    <3>1. /\ s.mode # "start" => s.source = v.source
          /\ \A e \in Live(s.calls, Looks) : e.reply \in Told => e.reply.source = v.source
      BY <1>5, <2>4 DEF Agreeing
    <3>2. ASSUME NEW e \in Live(u.calls, Looks), e.reply \in Told
          PROVE  e.reply.source = w.source
      <4>1. CASE e \in Live(s.calls, Looks)
        BY <2>1, <3>1, <3>2, <4>1
      <4>2. CASE e = a /\ c \in Live(s.calls, Looks)
        BY <1>1, <3>2, <4>2 DEF Answers, Live
      <4> QED
        BY <1>6, <3>2, <4>1, <4>2 DEF Replaces
    <3> QED
      BY <1>2, <2>1, <3>1, <3>2
  <2> QED
    BY <2>2, <2>3, <2>4 DEF Agreeing
<1> QED
  BY <1>3, <1>4, <1>5

-----------------------------------------------------------------------------
(* The steps *)

\* The server goes on, by itself or for another tab.
LEMMA ServerMoves ==
    ASSUME NEW s, NEW v, NEW x, Keeps(s, v, x), NEW w, Follows(v, w), NEW y,
           \/ w.source = v.source /\ y = x
           \/ y = x \cup {"source"}
    PROVE  Keeps(s, w, y)
<1>1. Controls(s, x) /\ Wanted(s, v) /\ Agreeing(s, v, x) /\ s \in TabState
  BY DEF Keeps, Controls
<1>2. x \subseteq y /\ ("refresh" \in y <=> "refresh" \in x)
  OBVIOUS
<1>3. Controls(s, y)
  BY <1>1, <1>2 DEF Controls, Refreshing
<1>4. s.job \in Nat /\ s.calls \in SUBSET CallRecord
  BY <1>1 DEF TabState
<1>5. Wanted(s, w)
  <2>1. s.job # 0 => JobFor(w, s.job, s.loading)
    BY <1>1, <1>4, JobForKept DEF Wanted
  <2>2. ASSUME NEW c \in Live(s.calls, {"start"})
        PROVE  c.root = s.loading /\ (Answered(c) => JobFor(w, c.reply.job.id, c.root))
    <3>1. c \in CallRecord /\ ReplyTyped(c) /\ c.op = "start"
      BY <1>1, <1>4 DEF Live, Controls, CallsTyped
    <3>2. Answered(c) => c.reply.job.id \in Nat
      BY <3>1 DEF ReplyTyped, StartOps, Accepted, JobRecord
    <3> QED
      BY <1>1, <2>2, <3>2, JobForKept DEF Wanted
  <2>3. ASSUME NEW c \in Live(s.calls, {"init"}), Answered(c), c.reply.code = 202
        PROVE  c.reply.job.id # 0 /\ JobFor(w, c.reply.job.id, c.reply.job.root)
    <3>1. c \in CallRecord /\ ReplyTyped(c) /\ c.op = "init"
      BY <1>1, <1>4 DEF Live, Controls, CallsTyped
    <3>2. c.reply.job.id \in Nat
      BY <2>3, <3>1 DEF ReplyTyped, StartOps, StatusOps, ListOps, Told, JobRecord
    <3> QED
      BY <1>1, <2>3, <3>2, JobForKept DEF Wanted
  <2>4. \A c \in Live(s.calls, Observers) :
          /\ c.job = s.job
          /\ c.op = "where" => c.root = s.loading
          /\ c.op # "where" /\ c.reply \in Told => c.reply.job.root = s.loading
    BY <1>1 DEF Wanted
  <2> QED
    BY <2>1, <2>2, <2>3, <2>4 DEF Wanted
<1>6. Agreeing(s, w, y)
  BY <1>1 DEF Agreeing, Moved
<1> QED
  BY <1>3, <1>5, <1>6 DEF Keeps

\* The action property, of one step
OpensWanted ==
  tab.mode = "select" /\ tab'.mode = "analyze" =>
    \/ tab.returning
    \/ /\ tab'.root = tab.loading
       /\ \E c \in tab.calls \ tab'.calls :
            c.op \in {"poll", "where"} /\ c.live /\ c.job = tab.job

LEMMA InvIs == ChooserInv <=> ServerInv(server) /\ Keeps(tab, server, excused)
BY DEF ChooserInv, Keeps

LEMMA InvIsNext == ChooserInv' <=> ServerInv(server') /\ Keeps(tab', server', excused')
BY DEF ChooserInv, Keeps, ServerInv, Numbered, Controls, CallsTyped, Starting, Exclusive,
       Asking, Observing, Returning, Switching, Refreshing, Agreeing, Moved, Wanted, Live, One,
       ReplyTyped, Answered, ObservationCurrent, JobFor

\* What the user does, and a timer of the tab: the server goes on as it was.
LEMMA TabActs ==
    ASSUME ChooserInv, Keeps(tab', server, excused), Stays(tab, tab'),
           UNCHANGED <<server, excused>>
    PROVE  ChooserInv' /\ OpensWanted
<1>1. ServerInv(server') /\ Keeps(tab', server', excused')
  BY InvIs
<1>2. OpensWanted
  BY DEF OpensWanted, Stays
<1> QED
  BY <1>1, <1>2, InvIsNext

LEMMA UserActsKeep ==
    ASSUME ChooserInv, UserActs
    PROVE  ChooserInv' /\ OpensWanted
<1>1. Keeps(tab, server, excused) /\ ServerInv(server)
  BY InvIs
<1>2. tab \in TabState
  BY <1>1, Untouched
<1>3. CASE ShowChooser
  <2>1. Keeps(tab', server, excused) /\ Stays(tab, tab')
    BY <1>1, <1>3, ShowKeeps DEF ShowChooser, Acts
  <2> QED
    BY <1>3, <2>1, TabActs DEF ShowChooser, Acts
<1>4. CASE ExitChooser
  <2>1. Keeps(tab', server, excused) /\ Stays(tab, tab')
    BY <1>1, <1>4, ExitKeeps DEF ExitChooser, Acts
  <2> QED
    BY <1>4, <2>1, TabActs DEF ExitChooser, Acts
<1>5. CASE Cancel
  <2>1. Keeps(tab', server, excused) /\ Stays(tab, tab')
    BY <1>1, <1>5, CancelClickKeeps DEF Cancel, Acts
  <2> QED
    BY <1>5, <2>1, TabActs DEF Cancel, Acts
<1>6. CASE Continue
  <2>1. Keeps(tab', server, excused) /\ Stays(tab, tab')
    BY <1>1, <1>6, ContinueKeeps DEF Continue, Acts
  <2> QED
    BY <1>6, <2>1, TabActs DEF Continue, Acts
<1>7. CASE RefreshProject
  <2>1. Keeps(tab', server, excused) /\ Stays(tab, tab')
    BY <1>1, <1>7, RefreshClickKeeps DEF RefreshProject, Acts
  <2> QED
    BY <1>7, <2>1, TabActs DEF RefreshProject, Acts
<1>8. CASE \E root \in Root : SelectProject(root)
  <2>1. PICK root \in Root : SelectProject(root)
    BY <1>8
  <2>2. Keeps(tab', server, excused) /\ Stays(tab, tab')
    BY <1>1, <2>1, PickKeeps DEF SelectProject, Acts
  <2> QED
    BY <2>1, <2>2, TabActs DEF SelectProject, Acts
<1>9. CASE \E source \in Source : SwitchSource(source)
  <2>1. PICK source \in Source : SwitchSource(source)
    BY <1>9
  <2>2. Keeps(tab', server, excused) /\ Stays(tab, tab')
    BY <1>1, <2>1, SwitchKeeps DEF SwitchSource, Acts
  <2> QED
    BY <2>1, <2>2, TabActs DEF SwitchSource, Acts
<1>10. CASE \E source \in Source : ChangeHome(source)
  <2>1. PICK source \in Source : ChangeHome(source)
    BY <1>10
  <2>2. Keeps(tab', server, excused) /\ Stays(tab, tab')
    BY <1>1, <2>1, HomeKeeps DEF ChangeHome, Acts
  <2> QED
    BY <2>1, <2>2, TabActs DEF ChangeHome, Acts
<1> QED
  BY <1>3, <1>4, <1>5, <1>6, <1>7, <1>8, <1>9, <1>10 DEF UserActs

LEMMA TimersKeep ==
    ASSUME ChooserInv, Timers
    PROVE  ChooserInv' /\ OpensWanted
<1>1. Keeps(tab, server, excused)
  BY InvIs
<1>2. CASE FirePoll
  <2>1. Keeps(tab', server, excused) /\ Stays(tab, tab')
    BY <1>1, <1>2, PollFiresKeeps DEF FirePoll, Does
  <2> QED
    BY <1>2, <2>1, TabActs DEF FirePoll, Does
<1>3. CASE FireRefreshPoll
  <2>1. Keeps(tab', server, excused) /\ Stays(tab, tab')
    BY <1>1, <1>3, RefreshFiresKeeps DEF FireRefreshPoll, Does
  <2> QED
    BY <1>3, <2>1, TabActs DEF FireRefreshPoll, Does
<1> QED
  BY <1>2, <1>3 DEF Timers

\* The call that opens a project is over.
LEMMA Opening ==
    ASSUME NEW c \in tab.calls, Opens(tab, tab', c), Keeps(tab', server', excused')
    PROVE  OpensWanted
<1> SUFFICES ASSUME tab.mode = "select", tab'.mode = "analyze", ~tab.returning
             PROVE  /\ tab'.root = tab.loading
                    /\ \E d \in tab.calls \ tab'.calls :
                         d.op \in {"poll", "where"} /\ d.live /\ d.job = tab.job
  BY DEF OpensWanted
<1>1. /\ tab'.root = tab.loading /\ tab'.job = 0
      /\ c.op \in {"poll", "where"} /\ c.live /\ c.job = tab.job
  BY DEF Opens
<1>2. PICK u : u = tab'
  OBVIOUS
<1>3. Live(u.calls, Observers) = {}
  <2>1. Observing(u)
    BY <1>2 DEF Keeps, Controls
  <2> QED
    BY <1>1, <1>2, <2>1 DEF Observing
<1>4. c \notin u.calls
  BY <1>1, <1>3 DEF Live, Observers
<1> QED
  BY <1>1, <1>2, <1>4

LEMMA WithoutIs ==
    ASSUME ChooserInv, NEW c \in tab.calls
    PROVE  Ends(tab, server, excused, c, Without(c))
BY InvIs DEF Ends, Without

LEMMA HearKeeps ==
    ASSUME ChooserInv, NEW c \in tab.calls, Hear(c)
    PROVE  ChooserInv' /\ OpensWanted
<1>1. Ends(tab, server, excused, c, Without(c)) /\ ServerInv(server)
  BY WithoutIs, InvIs
<1>2. /\ Answered(c) /\ tab' = Handled(Without(c), c) /\ server' = server
      /\ excused' = excused \cup (IF c.op = "resumeSessions" /\ c.reply.code = 409
                                  THEN {"refresh"} ELSE {})
  BY DEF Hear, Does
<1>3. Keeps(tab', server, excused') /\ Opens(tab, tab', c)
  BY <1>1, <1>2, HandledKeeps
<1>4. Keeps(tab', server', excused') /\ ServerInv(server')
  BY <1>1, <1>2, <1>3
<1>5. OpensWanted
  BY <1>3, <1>4, Opening
<1> QED
  BY <1>4, <1>5, InvIsNext

LEMMA FailKeeps ==
    ASSUME ChooserInv, NEW c \in tab.calls, Fail(c)
    PROVE  ChooserInv' /\ OpensWanted
<1>1. Ends(tab, server, excused, c, Without(c)) /\ ServerInv(server)
  BY WithoutIs, InvIs
<1>2. /\ c.op # "init" /\ c.live /\ tab' = Failed(Without(c), c) /\ server' = server
      /\ excused' = excused \cup (CASE c.op = "resumeSessions" -> {"refresh"}
                                    [] c.op = "reconcile" -> {"source"}
                                    [] OTHER -> {})
  BY DEF Fail
<1>3. Keeps(tab', server, excused') /\ Opens(tab, tab', c)
  BY <1>1, <1>2, FailedKeeps
<1>4. Keeps(tab', server', excused') /\ ServerInv(server')
  BY <1>1, <1>2, <1>3
<1>5. OpensWanted
  BY <1>3, <1>4, Opening
<1> QED
  BY <1>4, <1>5, InvIsNext

LEMMA RefusalKeeps ==
    ASSUME ChooserInv, NEW c \in tab.calls, Refuse(c)
    PROVE  ChooserInv' /\ OpensWanted
<1>1. Ends(tab, server, excused, c, Without(c)) /\ ServerInv(server)
  BY WithoutIs, InvIs
<1>2. /\ c.op = "mutate" /\ ~Answered(c) /\ tab' = MutationFailed(Without(c), c)
      /\ server' = server /\ excused' = excused
  BY DEF Refuse, Does
<1>3. Keeps(tab', server, excused) /\ Opens(tab, tab', c)
  BY <1>1, <1>2, RefuseKeeps
<1>4. Keeps(tab', server', excused') /\ ServerInv(server')
  BY <1>1, <1>2, <1>3
<1>5. OpensWanted
  BY <1>3, <1>4, Opening
<1> QED
  BY <1>4, <1>5, InvIsNext

\* The server answers a call with r, and is w then.
LEMMA RepliesKeep ==
    ASSUME ChooserInv, NEW c \in tab.calls, NEW w, Follows(server, w), NEW r,
           Answers(server, w, c, r),
           tab' = Calling(Without(c), [c EXCEPT !.reply = r]), server' = w, excused' = excused
    PROVE  ChooserInv' /\ OpensWanted
<1>1. PICK s, x, v : s = tab /\ x = excused /\ v = server
  OBVIOUS
<1>2. /\ Controls(s, x) /\ Wanted(s, v) /\ Agreeing(s, v, x) /\ s \in TabState
      /\ c \in s.calls
  <2>1. Keeps(s, v, x)
    BY <1>1, InvIs
  <2> QED
    BY <1>1, <2>1, Untouched
<1>3. c \in CallRecord /\ r \in Replies /\ ReplyTyped([c EXCEPT !.reply = r])
  BY <1>2 DEF TabState, Answers
<1>4. PICK a, u : a = [c EXCEPT !.reply = r] /\ u = Calling([s EXCEPT !.calls = s.calls \ {c}], a)
  OBVIOUS
<1>5. Replied(s, c, a, u)
  BY <1>2, <1>3, <1>4, RepliedIs
<1>6. Controls(u, x)
  BY <1>2, <1>3, <1>4, <1>5, RepliedControls
<1>7. Follows(v, w) /\ Answers(v, w, c, r)
  BY <1>1
<1>8. Wanted(u, w)
  BY <1>2, <1>3, <1>4, <1>5, <1>7, RepliedWanted
<1>9. Agreeing(u, w, x)
  BY <1>2, <1>3, <1>4, <1>5, <1>7, RepliedAgreeing
<1>10. u = tab'
  BY <1>1, <1>4 DEF Without
<1>11. Keeps(tab', server', excused') /\ ServerInv(server')
  BY <1>1, <1>6, <1>7, <1>8, <1>9, <1>10 DEF Keeps, Follows
<1>12. OpensWanted
  BY <1>1, <1>5, <1>10 DEF OpensWanted, Replied, Around
<1> QED
  BY <1>11, <1>12, InvIsNext

LEMMA ServeKeeps ==
    ASSUME ChooserInv, NEW c \in tab.calls, Serve(c) \/ ServeConflict(c)
    PROVE  ChooserInv' /\ OpensWanted
<1>1. ServerInv(server) /\ Keeps(tab, server, excused)
  BY InvIs
<1>2. /\ c \in CallRecord /\ (c.live \/ c.op \in Observers \cup Requests) /\ Switching(tab)
  BY <1>1 DEF Keeps, Controls, TabState, CallsTyped
<1>3. c.op = "mutate" => c.source \in Source
  BY <1>2 DEF Switching, Live, Observers, Requests, MutateOps
<1>4. CASE Serve(c)
  <2>1. PICK w, r : w = Effect(server, c) /\ r = Reply(w, c)
    OBVIOUS
  <2>2. Follows(server, w)
    BY <1>1, <1>2, <1>3, <2>1, EffectIs
  <2>3. Answers(server, w, c, r)
    BY <1>1, <1>2, <1>3, <2>1, ReplyIs
  <2>4. /\ tab' = Calling(Without(c), [c EXCEPT !.reply = r]) /\ server' = w
        /\ excused' = excused
    BY <1>4, <2>1 DEF Serve
  <2> QED
    BY <2>2, <2>3, <2>4, RepliesKeep
<1>5. CASE ServeConflict(c)
  <2>1. PICK r : r = Conflict
    OBVIOUS
  <2>2. Follows(server, server)
    <3>1. server.job.id <= server.job.id
      BY <1>1, ServerFields
    <3> QED
      BY <1>1, <3>1 DEF Follows
  <2>3. Answers(server, server, c, r)
    BY <1>2, <1>5, <2>1, ConflictIs DEF ServeConflict, ListOps
  <2>4. /\ tab' = Calling(Without(c), [c EXCEPT !.reply = r]) /\ server' = server
        /\ excused' = excused
    BY <1>5, <2>1 DEF ServeConflict
  <2> QED
    BY <2>2, <2>3, <2>4, RepliesKeep
<1> QED
  BY <1>4, <1>5

\* A job that settles keeps its number and root.
LEMMA SettlesIs ==
    ASSUME NEW v, ServerInv(v), NEW w,
           \/ w = [v EXCEPT !.job.status = "succeeded", !.index = v.job.root]
           \/ w = [v EXCEPT !.job.status = "failed"]
    PROVE  Follows(v, w) /\ w.source = v.source
<1>1. PICK st \in {"succeeded", "failed"}, index \in Roots :
        w = [v EXCEPT !.job.status = st, !.index = index]
  <2>1. v.job.root \in Roots /\ v.index \in Roots /\ v \in ServerState
    BY ServerFields DEF ServerInv
  <2>2. CASE w = [v EXCEPT !.job.status = "succeeded", !.index = v.job.root]
    BY <2>1, <2>2
  <2>3. CASE w = [v EXCEPT !.job.status = "failed"]
    <3>1. PICK j : j = [v.job EXCEPT !.status = "failed"]
      OBVIOUS
    <3>2. w = [v EXCEPT !.job = j]
      BY <2>1, <2>3, <3>1 DEF ServerState
    <3>3. [v EXCEPT !.job = j] = [v EXCEPT !.job = j, !.index = v.index]
      BY <2>1 DEF ServerState
    <3>4. w = [v EXCEPT !.job.status = "failed", !.index = v.index]
      BY <2>1, <3>1, <3>2, <3>3 DEF ServerState
    <3> QED
      BY <2>1, <3>4
  <2> QED
    BY <2>2, <2>3
<1>2. v \in ServerState /\ v.job \in JobRecord /\ v.job.id <= v.job.id
  BY ServerFields DEF ServerInv
<1>3. PICK j : j = [v.job EXCEPT !.status = st]
  OBVIOUS
<1>4. j \in JobRecord /\ j.id = v.job.id /\ j.root = v.job.root /\ j.status = st
  BY <1>1, <1>2, <1>3 DEF JobRecord, JobStatus
<1>5. w = [v EXCEPT !.job = j, !.index = index]
  BY <1>1, <1>2, <1>3 DEF ServerState
<1>6. w \in ServerState /\ w.job = j /\ w.source = v.source
  BY <1>1, <1>2, <1>4, <1>5 DEF ServerState
<1> QED
  BY <1>1, <1>2, <1>4, <1>6 DEF Follows, ServerInv, Numbered

LEMMA ServerActs ==
    ASSUME ChooserInv, tab' = tab, Follows(server, server'),
           \/ server'.source = server.source /\ excused' = excused
           \/ excused' = excused \cup {"source"}
    PROVE  ChooserInv' /\ OpensWanted
<1>1. Keeps(tab, server, excused)
  BY InvIs
<1>2. PICK w, y : w = server' /\ y = excused'
  OBVIOUS
<1>3. \/ w.source = server.source /\ y = excused
      \/ y = excused \cup {"source"}
  BY <1>2
<1>4. Keeps(tab, w, y)
  BY <1>1, <1>2, <1>3, ServerMoves
<1>5. Keeps(tab', server', excused') /\ ServerInv(server')
  BY <1>2, <1>4 DEF Follows
<1>6. OpensWanted
  BY DEF OpensWanted
<1> QED
  BY <1>5, <1>6, InvIsNext

LEMMA ServerKeeps ==
    ASSUME ChooserInv, JobSettles \/ OtherTabs
    PROVE  ChooserInv' /\ OpensWanted
<1>1. ServerInv(server)
  BY InvIs
<1>2. CASE JobSettles
  <2>1. Follows(server, server') /\ server'.source = server.source
    BY <1>1, <1>2, SettlesIs DEF JobSettles
  <2> QED
    BY <1>2, <2>1, ServerActs DEF JobSettles
<1>3. CASE \E root \in Root : OtherStarts(root)
  <2>1. PICK root \in Roots : OtherStarts(root)
    BY <1>3 DEF Roots
  <2>2. server' = JobStarted(server, root) /\ tab' = tab /\ excused' = excused
    BY <2>1 DEF OtherStarts, Foreign
  <2>3. Follows(server, server') /\ server'.source = server.source
    BY <1>1, <2>2, StartedIs
  <2> QED
    BY <2>2, <2>3, ServerActs
<1>4. CASE OtherCancels
  <2>1. server' = JobCancelled(server) /\ tab' = tab /\ excused' = excused
    BY <1>4 DEF OtherCancels, Foreign
  <2>2. Follows(server, server') /\ server'.source = server.source
    BY <1>1, <2>1, CancelledJob
  <2> QED
    BY <2>1, <2>2, ServerActs
<1>5. CASE \E source \in Source : OtherSwitches(source)
  <2>1. PICK source \in Source : OtherSwitches(source)
    BY <1>5
  <2>2. /\ server' = SourceMutated(server, source) /\ tab' = tab
        /\ excused' = excused \cup {"source"}
    BY <2>1 DEF OtherSwitches, Foreign
  <2>3. Follows(server, server')
    BY <1>1, <2>2, MutatedIs
  <2> QED
    BY <2>2, <2>3, ServerActs
<1> QED
  BY <1>2, <1>3, <1>4, <1>5 DEF OtherTabs

-----------------------------------------------------------------------------
(* The theorems *)

\* The page is loaded.
LEMMA InitChooser == Init => ChooserInv
<1> SUFFICES ASSUME Init PROVE ChooserInv
  OBVIOUS
<1>1. ServerInv(server)
  BY ChooserAssumption DEF Init, ServerInv
<1>2. PICK saved \in Saved :
        tab = [mode |-> "start", root |-> NoRoot, source |-> NoRoot, loading |-> NoRoot,
               job |-> 0, returning |-> FALSE, switching |-> FALSE, cancelling |-> FALSE,
               projects |-> {}, drawn |-> {}, failed |-> NoRoot, obs |-> NoObservation,
               timer |-> FALSE, refresh |-> NoRefresh,
               calls |-> {[Call("init") EXCEPT !.root = saved]}]
  BY DEF Init
<1>3. PICK d : d = WithRoot("init", saved)
  OBVIOUS
<1>4. d \in Fresh /\ d.op = "init"
  <2>1. "init" \in Ops /\ saved \in Roots
    BY ChooserAssumption DEF Ops
  <2> QED
    BY <1>3, <2>1, RootCall
<1>5. d \in CallRecord /\ d.live /\ ~Answered(d)
  BY <1>4 DEF Fresh
<1>6. PICK s : s = tab
  OBVIOUS
<1>7. /\ s.mode = "start" /\ s.job = 0 /\ s.loading = NoRoot /\ s.obs = NoObservation
      /\ ~s.timer /\ ~s.returning /\ ~s.switching /\ s.refresh = NoRefresh /\ s.calls = {d}
  BY <1>2, <1>3, <1>6 DEF WithRoot
<1>8. s \in TabState
  <2>1. NoRefresh \in RefreshState /\ NoObservation \in Observations
    BY DEF NoRefresh, RefreshState, Observations
  <2>2. {d} \in SUBSET CallRecord /\ NoRoot \in Roots /\ NoRoot \in Sources /\ "start" \in Mode
    BY <1>5 DEF Roots, Sources, Mode
  <2> QED
    BY <1>2, <1>3, <1>6, <2>1, <2>2 DEF TabState, WithRoot
<1>9. \A ops : Live(s.calls, ops) = IF "init" \in ops THEN {d} ELSE {}
  BY <1>4, <1>5, <1>7 DEF Live
<1>10. /\ Live(s.calls, {"init"}) = {d} /\ Live(s.calls, {"start"}) = {}
       /\ Live(s.calls, Observers) = {} /\ Live(s.calls, {"return"}) = {}
       /\ Live(s.calls, MutateOps) = {} /\ Live(s.calls, RefreshOps) = {}
  BY <1>9 DEF Observers, MutateOps, RefreshOps
<1>11. CallsTyped(s)
  BY <1>5, <1>7 DEF CallsTyped, ReplyTyped
<1>12. Starting(s) /\ Exclusive(s)
  BY <1>7, <1>10 DEF Starting, Exclusive, One, NoRefresh
<1>13. Asking(s) /\ Observing(s) /\ Returning(s) /\ Switching(s)
  BY <1>7, <1>10 DEF Asking, Observing, Returning, Switching
<1>14. excused = {}
  BY DEF Init
<1>15. Refreshing(s, {})
  BY <1>7, <1>10 DEF Refreshing, NoRefresh
<1>16. Controls(s, {})
  BY <1>8, <1>11, <1>12, <1>13, <1>15 DEF Controls
<1>17. Wanted(s, server)
  BY <1>5, <1>7, <1>10 DEF Wanted
<1>18. \A c \in Live(s.calls, Looks) : c.reply \notin Told
  <2>1. d.reply \notin Told
    BY <1>5 DEF Answered, Unanswered, Told
  <2> QED
    BY <1>7, <2>1 DEF Live
<1>19. Agreeing(s, server, {})
  BY <1>7, <1>10, <1>18 DEF Agreeing
<1> QED
  BY <1>1, <1>6, <1>14, <1>16, <1>17, <1>19 DEF ChooserInv

LEMMA NextKeeps == ChooserInv /\ Next => ChooserInv' /\ OpensWanted
<1> SUFFICES ASSUME ChooserInv, Next PROVE ChooserInv' /\ OpensWanted
  OBVIOUS
<1>1. CASE UserActs
  BY <1>1, UserActsKeep
<1>2. CASE Network
  <2>1. PICK c \in tab.calls :
          Hear(c) \/ Fail(c) \/ Refuse(c) \/ Serve(c) \/ ServeConflict(c)
    BY <1>2 DEF Network
  <2>2. CASE Hear(c)
    BY <2>2, HearKeeps
  <2>3. CASE Fail(c)
    BY <2>3, FailKeeps
  <2>4. CASE Refuse(c)
    BY <2>4, RefusalKeeps
  <2>5. CASE Serve(c) \/ ServeConflict(c)
    BY <2>5, ServeKeeps
  <2> QED
    BY <2>1, <2>2, <2>3, <2>4, <2>5
<1>3. CASE Timers
  BY <1>3, TimersKeep
<1>4. CASE JobSettles \/ OtherTabs
  BY <1>4, ServerKeeps
<1> QED
  BY <1>1, <1>2, <1>3, <1>4 DEF Next

LEMMA StutterKeeps == ChooserInv /\ UNCHANGED vars => ChooserInv'
<1> SUFFICES ASSUME ChooserInv, UNCHANGED vars PROVE ChooserInv'
  OBVIOUS
<1>1. server' = server /\ tab' = tab /\ excused' = excused
  BY DEF vars
<1>2. ServerInv(server') /\ Keeps(tab', server', excused')
  BY <1>1, InvIs
<1> QED
  BY <1>2, InvIsNext

\* The inductive invariant: what the tab and the server keep true of each other
\* through every callback, answer, failure and act of another tab.
THEOREM ChooserInvHolds == Spec => []ChooserInv
<1>1. ChooserInv /\ [Next]_vars => ChooserInv'
  BY NextKeeps, StutterKeeps
<1> QED
  BY InitChooser, <1>1, PTL DEF Spec

\* The numbers of calls that NeverStranded speaks of
LEMMA CardinalityOne ==
    ASSUME NEW S
    PROVE  (One(S) => Cardinality(S) = 1) /\ (S = {} => Cardinality(S) = 0)
<1>1. Cardinality({}) = 0
  BY FS_EmptySet
<1>2. ASSUME One(S) PROVE Cardinality(S) = 1
  <2>1. PICK c : S = {c}
    BY <1>2 DEF One
  <2> QED
    BY <2>1, FS_Singleton
<1> QED
  BY <1>1, <1>2

LEMMA OpeningUnderWay ==
    ASSUME ChooserInv, tab.loading # NoRoot \/ tab.job # 0
    PROVE  /\ Cardinality(Calls({"start"} \cup Observers))
                + (IF tab.timer THEN 1 ELSE 0)
                + (IF tab.obs # NoObservation /\ tab.obs.paused THEN 1 ELSE 0) = 1
           /\ tab.job # 0 => ObservationCurrent(tab)
<1>1. Asking(tab) /\ Observing(tab)
  BY DEF ChooserInv, Controls
<1>2. Calls({"start"} \cup Observers) = Live(tab.calls, {"start"}) \cup Live(tab.calls, Observers)
  BY DEF Calls, Live
<1>3. PICK n : n = Cardinality(Calls({"start"} \cup Observers))
  OBVIOUS
<1>4. CASE tab.job = 0
  <2>1. /\ One(Live(tab.calls, {"start"})) /\ Live(tab.calls, Observers) = {}
        /\ tab.obs = NoObservation /\ ~tab.timer
    BY <1>1, <1>4 DEF Asking, Observing
  <2>2. One(Calls({"start"} \cup Observers))
    BY <1>2, <2>1 DEF One
  <2>3. n = 1
    BY <1>3, <2>2, CardinalityOne
  <2> QED
    BY <1>3, <1>4, <2>1, <2>3
<1>5. CASE tab.job # 0
  <2>1. Live(tab.calls, {"start"}) = {} /\ ObservationCurrent(tab) /\ tab.obs # NoObservation
    BY <1>1, <1>5 DEF Asking, Observing, ObservationCurrent
  <2>2. CASE tab.obs.pending
    <3>1. One(Live(tab.calls, Observers)) /\ ~tab.timer /\ ~tab.obs.paused
      BY <1>1, <1>5, <2>2 DEF Observing
    <3>2. One(Calls({"start"} \cup Observers))
      BY <1>2, <2>1, <3>1 DEF One
    <3>3. n = 1
      BY <1>3, <3>2, CardinalityOne
    <3> QED
      BY <1>3, <2>1, <3>1, <3>3
  <2>3. CASE ~tab.obs.pending
    <3>1. Live(tab.calls, Observers) = {} /\ (tab.timer <=> ~tab.obs.paused)
      BY <1>1, <1>5, <2>3 DEF Observing
    <3>2. Calls({"start"} \cup Observers) = {}
      BY <1>2, <2>1, <3>1
    <3>3. n = 0
      BY <1>3, <3>2, CardinalityOne
    <3> QED
      BY <1>3, <2>1, <3>1, <3>3
  <2> QED
    BY <2>2, <2>3
<1> QED
  BY <1>4, <1>5

LEMMA RefreshHeld ==
    ASSUME ChooserInv, "refresh" \notin excused, tab.refresh.on
    PROVE  Cardinality(Calls({"refresh", "refreshPoll", "refreshWhere", "refreshSessions",
                              "resumeSessions"}))
             + (IF tab.refresh.timer THEN 1 ELSE 0) = 1
<1>1. Refreshing(tab, excused)
  BY DEF ChooserInv, Controls
<1>2. PICK S : S = Calls({"refresh", "refreshPoll", "refreshWhere", "refreshSessions",
                          "resumeSessions"})
  OBVIOUS
<1>3. S = Live(tab.calls, RefreshOps)
  BY <1>2 DEF Calls, Live, RefreshOps
<1>4. PICK n : n = Cardinality(S)
  OBVIOUS
<1>5. CASE tab.refresh.timer
  <2>1. S = {}
    BY <1>1, <1>3, <1>5 DEF Refreshing
  <2>2. n = 0
    BY <1>4, <2>1, CardinalityOne
  <2> QED
    BY <1>2, <1>4, <1>5, <2>2
<1>6. CASE ~tab.refresh.timer
  <2>1. One(S)
    BY <1>1, <1>3, <1>6 DEF Refreshing
  <2>2. n = 1
    BY <1>4, <2>1, CardinalityOne
  <2> QED
    BY <1>2, <1>4, <1>6, <2>2
<1> QED
  BY <1>5, <1>6

\* Whatever locks the project controls of a tab is under way, exactly once: for
\* every number of retries and of repositories, and whatever calls are lost.
THEOREM TabNeverStranded == Spec => []NeverStranded
<1>1. ASSUME ChooserInv PROVE NeverStranded
  <2>1. tab.returning => Calls({"return"}) # {}
    <3>1. Returning(tab) /\ Calls({"return"}) = Live(tab.calls, {"return"})
      BY <1>1 DEF ChooserInv, Controls, Calls, Live
    <3> QED
      BY <3>1 DEF Returning, One
  <2>2. tab.switching => Cardinality(Calls({"mutate", "reconcile"})) = 1
    <3>1. Switching(tab) /\ Calls({"mutate", "reconcile"}) = Live(tab.calls, MutateOps)
      BY <1>1 DEF ChooserInv, Controls, Calls, Live, MutateOps
    <3> QED
      BY <3>1, CardinalityOne DEF Switching
  <2> QED
    BY <1>1, <2>1, <2>2, OpeningUnderWay, RefreshHeld DEF NeverStranded, RefreshUnderWay
<1> QED
  BY <1>1, ChooserInvHolds, PTL

\* The tab's source is the server's, or a change of it is being told.
THEOREM TabSourceAgrees == Spec => []SourceAgrees
<1>1. ASSUME ChooserInv PROVE SourceAgrees
  <2>1. Agreeing(tab, server, excused) /\ Calls({"mutate", "reconcile"}) = Live(tab.calls, MutateOps)
    BY <1>1 DEF ChooserInv, Calls, Live, MutateOps
  <2> QED
    BY <2>1 DEF SourceAgrees, Agreeing, Moved
<1> QED
  BY <1>1, ChooserInvHolds, PTL

\* The chooser gives way only to the project that the user waits for, or on return.
THEOREM TabOpensOnlyWanted == Spec => OpensOnlyWanted
<1>1. ChooserInv /\ [Next]_vars => [OpensWanted]_vars
  BY NextKeeps
<1> QED
  BY <1>1, ChooserInvHolds, PTL DEF OpensOnlyWanted, OpensWanted, Spec

=============================================================================
