---------------------------- MODULE ProjectChooser ----------------------------
(***************************************************************************)
(* How a browser tab opens, cancels, leaves and refreshes a project and    *)
(* changes the source (src/src/browser/app.js), against a server that runs *)
(* one job at a time and that other tabs use as well.  Every await of the  *)
(* tab is a call in `tab.calls': the server answers it at some point, the  *)
(* tab hears the answer later, or the call fails before or after it was    *)
(* answered.  Each action is one callback of the tab, or one request the   *)
(* server handles.                                                         *)
(***************************************************************************)
EXTENDS Naturals, FiniteSets

CONSTANTS Root, NoRoot,  \* repositories, and none
          Source,        \* active sources: a kind and its home
          Listed,        \* what discovery finds: Source -> SUBSET Root
          Retries,       \* delays of handleProjectJobError, and of the refresh
          Started,       \* states of the server when the page is loaded
          Saved,         \* what readLastSelectedRepo may return
          MaxEvents      \* bound: acts of the user, acts of other tabs and calls
                         \* that fail, together

Roots == Root \cup {NoRoot}

JobStatus == {"none", "running", "succeeded", "failed", "cancelled"}

JobRecord == [id: Nat, root: Roots, status: JobStatus, ofSource: BOOLEAN]

ServerState == [source: Source, index: Roots, job: JobRecord]

\* Only a job that was started runs, and jobs that were started have a number.
Numbered(job) == job.status = "running" => job.id # 0

ASSUME ChooserAssumption ==
  /\ NoRoot \notin Root /\ Listed \in [Source -> SUBSET Root]
  /\ Saved \subseteq Roots
  /\ \A s \in Started : s \in ServerState /\ Numbered(s.job)
  /\ Retries \in Nat /\ MaxEvents \in Nat

VARIABLES server,   \* source, index (the root of its project) and latest job
          tab,      \* the part of the tab's state object that is about projects
          events,   \* how many acts of the user and of other tabs, and failures
          excused   \* history: what another tab or a lost answer has put out of
                    \* the hands of this one

vars == <<server, tab, events, excused>>

(***************************************************************************)
(* The server (src/server.js).                                             *)
(***************************************************************************)
\* ofSource: it was started under the source that is active.
NoJob == [id |-> 0, root |-> NoRoot, status |-> "none", ofSource |-> FALSE]

\* startProjectJob, which cancels the job before
JobStarted(s, root) ==
  [s EXCEPT !.job = [id |-> s.job.id + 1, root |-> root, status |-> "running",
                     ofSource |-> TRUE]]

JobCancelled(s) ==
  [s EXCEPT !.job.status = IF @ = "running" THEN "cancelled" ELSE @]

\* resolveSourceMutation
SourceMutated(s, source) ==
  IF source = s.source THEN s
  ELSE [JobCancelled(s) EXCEPT !.source = source, !.index = NoRoot, !.job.ofSource = FALSE]

Effect(s, c) ==
  CASE c.op \in {"start", "refresh"} -> JobStarted(s, c.root)
    [] c.op \in {"cancel", "stray"} /\ s.job.id = c.job -> JobCancelled(s)
    [] c.op = "mutate" -> SourceMutated(s, c.source)
    [] OTHER -> s

Answer(code, s, job, current) ==
  [code |-> code, source |-> s.source, job |-> job, current |-> current]

Unanswered == [code |-> 0]
Conflict == [code |-> 409]

\* GET and DELETE of /api/project/status
StatusAnswer(s, id) ==
  IF s.job.id # id THEN [code |-> 404]
  ELSE Answer(200, s, s.job,
              IF s.job.status = "succeeded" /\ s.index = s.job.root THEN s.index ELSE NoRoot)

\* GET /api/state
StateAnswer(s) ==
  CASE s.job.status = "running" -> Answer(202, s, s.job, s.index)
    [] s.job.status = "failed" /\ s.job.ofSource /\ s.index = NoRoot ->
         Answer(200, s, s.job, NoRoot)
    [] OTHER -> Answer(IF s.index = NoRoot THEN 409 ELSE 200, s, NoJob, s.index)

Reply(s, c) ==
  CASE c.op \in {"poll", "refreshPoll", "cancel", "stray"} -> StatusAnswer(s, c.job)
    [] c.op \in {"init", "where", "refreshWhere", "return", "reconcile"} -> StateAnswer(s)
    [] c.op \in {"refreshSessions", "resumeSessions"} ->
         Answer(IF s.index = NoRoot THEN 409 ELSE 200, s, NoJob, s.index)
    [] c.op \in {"start", "refresh"} -> [code |-> 202, job |-> s.job]
    [] c.op = "mutate" -> Answer(200, s, NoJob, s.index)
    [] c.op \in {"summary", "discover"} -> Answer(200, s, NoJob, NoRoot)

(***************************************************************************)
(* Parts of the tab's functions.  `live' says of a call that the observa-  *)
(* tion or the request id it was made under is still the tab's: both are   *)
(* compared by identity, and none comes back.                              *)
(***************************************************************************)
Call(op) == [op |-> op, live |-> TRUE, job |-> 0, root |-> NoRoot, source |-> NoRoot,
             then |-> "none", reply |-> Unanswered]

Calling(s, c) == [s EXCEPT !.calls = @ \cup {c}]

NoObservation == [job |-> 0]

Observers == {"poll", "where", "cancel"}
Requests  == {"start", "summary", "discover"}

Retired(calls, ops) == {[c EXCEPT !.live = @ /\ c.op \notin ops] : c \in calls}

\* sourceConfigBusy
Busy(s) ==
  s.loading # NoRoot \/ s.job # 0 \/ s.refresh.on \/ s.returning \/ s.switching

\* resetProjectObservation
Unobserved(s) ==
  [s EXCEPT !.obs = NoObservation, !.timer = FALSE, !.calls = Retired(@, Observers)]

\* projectChooserRequestId += 1
Bumped(s) ==
  [s EXCEPT !.calls = Retired(@, Requests),
            !.obs = IF @ = NoObservation THEN @ ELSE [@ EXCEPT !.asked = FALSE]]

\* projectObservationCurrent of the tab's own observation
ObservationCurrent(s) ==
  /\ s.obs # NoObservation /\ s.obs.asked
  /\ s.obs.job = s.job /\ s.obs.source = s.source

\* A faulty variant: an answer is heard whichever observation it was for.
HeardByAny(s, c) == ObservationCurrent(s)

\* ... of the one a call was made under
Heard(s, c) == c.live /\ ObservationCurrent(s)

\* A faulty variant: a late list is taken for a current one.
ListActiveLate(s, c) == s.mode = "select" /\ s.loading = NoRoot /\ s.job = 0

\* isActiveProjectChooserRequest
ListActive(s, c) == c.live /\ s.mode = "select" /\ s.loading = NoRoot /\ s.job = 0

\* beginProjectObservation
Observed(s, pending) ==
  [Unobserved(s) EXCEPT !.obs = [job |-> s.job, asked |-> TRUE, source |-> s.source,
                                 failures |-> 0, pending |-> pending, paused |-> FALSE]]

\* pollProjectJob up to its await
Polled(s, by) ==
  LET o == IF s.obs = NoObservation THEN Observed(s, FALSE) ELSE s
  IN  IF ~ObservationCurrent(o) \/ o.obs.pending THEN o
      ELSE Calling([o EXCEPT !.timer = FALSE, !.obs.pending = TRUE],
                   [Call("poll") EXCEPT !.job = s.job, !.then = by])

\* refreshProjectList up to its await; saved is the project to restore, if any.
ListRefreshed(s, saved) ==
  LET fresh == Bumped(s)
  IN  Calling([fresh EXCEPT !.drawn = IF s.projects = {} THEN {} ELSE @],
              [Call("summary") EXCEPT !.root = saved])

\* showProjectChooser up to its await
ChooserShown(s, saved) ==
  ListRefreshed([Unobserved(s) EXCEPT
                   !.returning = FALSE, !.mode = "select", !.loading = NoRoot,
                   !.job = 0, !.drawn = {}], saved)

\* selectProject up to its await
ProjectSelected(s, root) ==
  IF Busy(s) THEN s
  ELSE Calling([Bumped(Unobserved(s)) EXCEPT !.returning = FALSE, !.loading = root,
                                             !.job = 0, !.drawn = s.projects],
               [Call("start") EXCEPT !.root = root])

\* finishProjectSelection
Opened(s, reply) ==
  [Unobserved(s) EXCEPT !.failed = NoRoot, !.loading = NoRoot, !.job = 0,
     !.returning = FALSE, !.drawn = s.projects, !.mode = "analyze",
     !.root = reply.current, !.source = reply.source]

\* showFailedProjectJob
FailureShown(s, job) ==
  ChooserShown([Unobserved(s) EXCEPT !.failed = job.root, !.job = 0, !.loading = NoRoot],
               NoRoot)

\* handleProjectJobResponse
Responded(s, reply) ==
  LET closed == [Unobserved(s) EXCEPT !.loading = NoRoot, !.job = 0, !.returning = FALSE]
  IN  CASE reply.job.status = "succeeded" -> Opened(s, reply)
        [] reply.job.status = "failed" -> FailureShown(s, reply.job)
        [] reply.job.status = "cancelled" ->
             IF s.projects # {} THEN [closed EXCEPT !.drawn = s.projects]
             ELSE ChooserShown(closed, NoRoot)
        [] OTHER -> [s EXCEPT !.timer = TRUE]

\* The finally of the call c of an observation, and of the cancel button
\* once the handler that disabled it is through
Unpended(s, c) ==
  [s EXCEPT !.obs = IF c.live /\ @ # NoObservation THEN [@ EXCEPT !.pending = FALSE] ELSE @,
            !.cancelling = @ /\ c.op # "cancel" /\ c.then # "cancel"]

\* A faulty variant: the finally is forgotten where the status is an error.
PollFailedPending(s, c, retryable) ==
  CASE ~Heard(s, c) -> s
    [] Heard(s, c) /\ retryable /\ s.obs.failures < Retries ->
         [s EXCEPT !.timer = TRUE, !.obs.failures = @ + 1]
    [] OTHER -> [s EXCEPT !.obs.paused = TRUE]

\* handleProjectJobError, with the finally of pollProjectJob
PollFailed(s, c, retryable) ==
  LET free == Unpended(s, c)
  IN  CASE ~Heard(s, c) -> free
        [] Heard(s, c) /\ retryable /\ s.obs.failures < Retries ->
             [free EXCEPT !.timer = TRUE, !.obs.failures = @ + 1]
        [] OTHER -> [free EXCEPT !.obs.paused = TRUE]

(***************************************************************************)
(* What the tab does with an answer; s is the tab without the call c.      *)
(***************************************************************************)
StartAnswered(s, c) ==
  IF ~c.live THEN Calling(s, [Call("stray") EXCEPT !.job = c.reply.job.id])
  ELSE Polled([s EXCEPT !.job = c.reply.job.id], "tab")

StartFailed(s, c) ==
  IF ~c.live THEN s
  ELSE [s EXCEPT !.timer = FALSE, !.job = 0, !.loading = NoRoot, !.returning = FALSE,
                 !.drawn = s.projects]

\* The rest of pollProjectJob once it knows the state of the project
PollSettled(s, c, reply) ==
  Responded([Unpended(s, c) EXCEPT !.obs.failures = 0, !.obs.paused = FALSE], reply)

PollAnswered(s, c) ==
  CASE ~Heard(s, c) -> Unpended(s, c)
    [] Heard(s, c) /\ c.reply.code = 404 -> PollFailed(s, c, FALSE)
    [] /\ Heard(s, c) /\ c.reply.code # 404
       /\ c.reply.job.status = "succeeded" /\ c.reply.current = NoRoot ->
         Calling(s, [c EXCEPT !.op = "where", !.root = c.reply.job.root,
                              !.reply = Unanswered])
    [] OTHER -> PollSettled(s, c, c.reply)

\* The project of the job is open, or its index was replaced meanwhile.
WhereAnswered(s, c) ==
  CASE ~Heard(s, c) -> Unpended(s, c)
    [] Heard(s, c) /\ c.reply.code # 409 /\ c.reply.current = c.root ->
         PollSettled(s, c, [c.reply EXCEPT !.job.status = "succeeded"])
    [] OTHER -> PollFailed(s, c, FALSE)

\* The click handler of the cancel button after its await; where the outcome is
\* not known the handler goes on to poll, and the button stays disabled.
CancelAnswered(s, c) ==
  CASE ~Heard(s, c) -> Unpended(s, c)
    [] Heard(s, c) /\ c.reply.code = 404 ->
         Responded(Unpended(s, c), [job |-> [status |-> "cancelled"]])
    [] Heard(s, c) /\ c.reply.code # 404 /\ c.reply.job.status = "succeeded" ->
         Polled(Unpended(s, c), "tab")
    [] OTHER -> Responded(Unpended(s, c), c.reply)

CancelFailed(s, c) ==
  IF Heard(s, c) THEN [Polled(Unpended(s, c), "cancel") EXCEPT !.cancelling = TRUE]
  ELSE Unpended(s, c)

Relisted(s, c) ==
  [s EXCEPT !.source = c.reply.source, !.projects = Listed[c.reply.source],
            !.drawn = Listed[c.reply.source]]

Redrawn(s, c) == IF ListActive(s, c) THEN [s EXCEPT !.drawn = s.projects] ELSE s

Discovering(s, c) == Calling(s, [c EXCEPT !.op = "discover", !.reply = Unanswered])

SummaryAnswered(s, c) ==
  CASE c.reply.code = 409 -> Redrawn(s, c)
    [] c.reply.code # 409 /\ ListActive(s, c) -> Discovering(Relisted(s, c), c)
    [] OTHER -> s

SummaryFailed(s, c) == IF ListActive(s, c) THEN Discovering(s, c) ELSE s

DiscoverAnswered(s, c) ==
  CASE c.reply.code = 409 \/ ~ListActive(s, c) -> Redrawn(s, c)
    [] /\ c.reply.code # 409 /\ ListActive(s, c)
       /\ c.root \in Listed[c.reply.source] -> ProjectSelected(Relisted(s, c), c.root)
    [] OTHER -> Relisted(s, c)

\* exitProjectChooser after its await
ReturnAnswered(s, c) ==
  IF c.reply.code # 409 /\ c.reply.current # NoRoot THEN Opened(s, c.reply)
  ELSE [s EXCEPT !.returning = FALSE]

\* The end of commitSourceConfig and of its callers, when it throws
MutationFailed(s, c) ==
  LET free == [s EXCEPT !.switching = FALSE, !.drawn = s.projects]
  IN  IF c.then = "switch" THEN ListRefreshed(free, NoRoot) ELSE free

\* ... and when it returns
MutationDone(s, c, selected) ==
  LET free == [s EXCEPT !.switching = FALSE, !.drawn = s.projects]
      left == [free EXCEPT !.root = NoRoot, !.projects = {}, !.drawn = {}]
  IN  CASE ~selected -> ListRefreshed(left, NoRoot)
        [] selected /\ c.then = "home" -> ListRefreshed(free, NoRoot)
        [] OTHER -> free

\* applySourceConfig and clearRetiredSourceContext
Sourced(s, source) ==
  [s EXCEPT !.source = source, !.failed = IF source = s.source THEN @ ELSE NoRoot]

MutateAnswered(s, c) ==
  MutationDone(Sourced(s, c.reply.source), c, c.reply.current # NoRoot)

\* reconcileUncertainSourceMutation up to its await, and after it
MutateFailed(s, c) == Calling(s, [c EXCEPT !.op = "reconcile", !.reply = Unanswered])

ReconcileAnswered(s, c) ==
  LET known == [Sourced(s, c.reply.source) EXCEPT
                  !.root = c.reply.current,
                  !.projects = IF c.reply.current = NoRoot THEN {} ELSE @]
  IN  IF c.reply.source = c.source THEN MutationDone(known, c, c.reply.current # NoRoot)
      ELSE MutationFailed(known, c)

(***************************************************************************)
(* The refresh of the current project.  It starts only when none is on,    *)
(* so its request ids never differ, and are left out.                      *)
(***************************************************************************)
NoRefresh == [on |-> FALSE, job |-> 0, retries |-> 0, timer |-> FALSE]

\* handleProjectRefreshPollError and handleProjectRefreshError
RefreshFailed(s, retryable) ==
  IF retryable /\ s.refresh.job # 0 /\ s.refresh.retries < Retries
  THEN [s EXCEPT !.refresh.retries = @ + 1, !.refresh.timer = TRUE]
  ELSE [s EXCEPT !.refresh = NoRefresh]

RefreshPolled(s) ==
  Calling([s EXCEPT !.refresh.timer = FALSE],
          [Call("refreshPoll") EXCEPT !.job = s.refresh.job])

RefreshStarted(s, c) == RefreshPolled([s EXCEPT !.refresh.job = c.reply.job.id])

\* finishProjectRefresh up to its await
RefreshFinished(s, reply) ==
  Calling([s EXCEPT !.root = reply.current, !.source = reply.source], Call("refreshSessions"))

RefreshAnswered(s, c) ==
  CASE c.reply.code = 404 -> RefreshFailed(s, FALSE)
    [] c.reply.code # 404 /\ c.reply.job.status = "running" ->
         [s EXCEPT !.refresh.timer = TRUE]
    [] c.reply.code # 404 /\ c.reply.job.status = "succeeded" ->
         IF c.reply.current # NoRoot THEN RefreshFinished(s, c.reply)
         ELSE Calling(s, Call("refreshWhere"))
    [] OTHER -> RefreshFailed(s, FALSE)

RefreshWhereAnswered(s, c) ==
  IF c.reply.code # 409 /\ c.reply.current # NoRoot THEN RefreshFinished(s, c.reply)
  ELSE RefreshFailed(s, FALSE)

(***************************************************************************)
(* init: the page is loaded, with c.root as the project last selected.     *)
(***************************************************************************)
InitAnswered(s, c) ==
  LET r == c.reply
      known == [s EXCEPT !.source = r.source]
      shown == [known EXCEPT !.mode = "analyze", !.root = r.current]
  IN  CASE r.code = 409 -> ChooserShown(known, c.root)
        [] r.code = 200 /\ r.job.status = "failed" -> FailureShown(known, r.job)
        [] r.code = 202 /\ r.current = r.job.root ->
             Calling([shown EXCEPT !.refresh = [NoRefresh EXCEPT !.on = TRUE,
                                                                 !.job = r.job.id]],
                     Call("resumeSessions"))
        [] r.code = 202 /\ r.current # r.job.root ->
             Polled([known EXCEPT !.mode = "select", !.loading = r.job.root,
                                  !.job = r.job.id], "tab")
        [] OTHER -> shown

\* A 409 here ends in the catch of init, which shows the chooser.
ResumeAnswered(s, c) ==
  IF c.reply.code = 409 THEN ChooserShown([s EXCEPT !.source = c.reply.source], c.root)
  ELSE [s EXCEPT !.refresh.timer = TRUE]

(***************************************************************************)
(* Acts of the user.                                                       *)
(***************************************************************************)
Counted == events < MaxEvents /\ events' = events + 1

Acts(s) ==
  /\ tab.mode # "start" /\ Counted
  /\ tab' = s
  /\ UNCHANGED <<server, excused>>

\* The project switch: to the chooser, and back.
ShowChooser ==
  /\ ~Busy(tab) /\ (tab.mode = "analyze" \/ tab.root = NoRoot)
  /\ Acts(ChooserShown(tab, NoRoot))

ExitChooser ==
  /\ ~Busy(tab) /\ tab.mode = "select" /\ tab.root # NoRoot
  /\ Acts(Calling([Bumped(Unobserved(tab)) EXCEPT !.returning = TRUE], Call("return")))

SelectProject(root) ==
  /\ tab.mode = "select" /\ ~Busy(tab) /\ root \in tab.drawn \cup {tab.failed}
  /\ Acts(ProjectSelected(tab, root))

\* A faulty variant: the observation before goes on beside the cancellation.
CancelClickedBeside(s) ==
  Calling([s EXCEPT !.obs.pending = TRUE, !.cancelling = TRUE],
          [Call("cancel") EXCEPT !.job = s.job])

\* The click handler of the cancel button up to its await
CancelClicked(s) ==
  Calling([Observed(s, TRUE) EXCEPT !.cancelling = TRUE], [Call("cancel") EXCEPT !.job = s.job])

Cancel ==
  /\ tab.mode = "select" /\ tab.job # 0 /\ ~tab.cancelling
  /\ Acts(CancelClicked(tab))

\* The button that a paused observation shows
Continue ==
  /\ ObservationCurrent(tab) /\ tab.obs.paused /\ ~tab.obs.pending
  /\ Acts(Polled([tab EXCEPT !.obs.failures = 0, !.obs.paused = FALSE], "tab"))

RefreshProject ==
  /\ tab.mode = "analyze" /\ tab.root # NoRoot /\ ~Busy(tab)
  /\ Acts(Calling([tab EXCEPT !.refresh.on = TRUE], [Call("refresh") EXCEPT !.root = tab.root]))

Mutating(s, source, by) ==
  Calling([s EXCEPT !.switching = TRUE, !.drawn = s.projects],
          [Call("mutate") EXCEPT !.source = source, !.then = by])

\* performPendingSourceAction
SwitchSource(source) ==
  /\ tab.mode = "select" /\ ~Busy(tab) /\ source # tab.source
  /\ Acts(Mutating(Bumped(tab), source, "switch"))

\* performHomeChange, of the active home or of another
ChangeHome(source) ==
  /\ tab.mode = "select" /\ ~Busy(tab)
  /\ Acts(Mutating(tab, source, "home"))

(***************************************************************************)
(* Timers, answers and failures.                                           *)
(***************************************************************************)
Does(s) == tab' = s /\ UNCHANGED <<server, events>>

FirePoll ==
  /\ tab.timer
  /\ Does(Polled([tab EXCEPT !.timer = FALSE], "tab")) /\ UNCHANGED excused

FireRefreshPoll == tab.refresh.timer /\ Does(RefreshPolled(tab)) /\ UNCHANGED excused

Handled(s, c) ==
  CASE c.op = "init" -> InitAnswered(s, c)
    [] c.op = "start" -> StartAnswered(s, c)
    [] c.op = "poll" -> PollAnswered(s, c)
    [] c.op = "where" -> WhereAnswered(s, c)
    [] c.op = "cancel" -> CancelAnswered(s, c)
    [] c.op = "summary" -> SummaryAnswered(s, c)
    [] c.op = "discover" -> DiscoverAnswered(s, c)
    [] c.op = "return" -> ReturnAnswered(s, c)
    [] c.op = "mutate" -> MutateAnswered(s, c)
    [] c.op = "reconcile" -> ReconcileAnswered(s, c)
    [] c.op = "refresh" -> RefreshStarted(s, c)
    [] c.op = "refreshPoll" -> RefreshAnswered(s, c)
    [] c.op = "refreshWhere" -> RefreshWhereAnswered(s, c)
    [] c.op = "refreshSessions" -> [s EXCEPT !.refresh = NoRefresh]
    [] c.op = "resumeSessions" -> ResumeAnswered(s, c)
    [] c.op = "stray" -> s

Failed(s, c) ==
  CASE c.op = "start" -> StartFailed(s, c)
    [] c.op \in {"poll", "where"} -> PollFailed(s, c, TRUE)
    [] c.op = "cancel" -> CancelFailed(s, c)
    [] c.op = "summary" -> SummaryFailed(s, c)
    [] c.op = "discover" -> Redrawn(s, c)
    [] c.op = "return" -> [s EXCEPT !.returning = FALSE]
    [] c.op = "mutate" -> MutateFailed(s, c)
    [] c.op = "reconcile" -> MutationFailed(s, c)
    [] c.op \in {"refresh", "refreshPoll", "refreshWhere", "refreshSessions"} ->
         RefreshFailed(s, TRUE)
    [] c.op \in {"resumeSessions", "stray"} -> s

Without(c) == [tab EXCEPT !.calls = @ \ {c}]

Answered(c) == c.reply # Unanswered

Hear(c) ==
  /\ Answered(c)
  /\ Does(Handled(Without(c), c))
  /\ excused' = excused \cup (IF c.op = "resumeSessions" /\ c.reply.code = 409
                             THEN {"refresh"} ELSE {})

\* The connection breaks, before the server handles the call or after.
Fail(c) ==
  /\ c.op # "init" /\ c.live /\ Counted
  /\ tab' = Failed(Without(c), c)
  /\ UNCHANGED server
  /\ excused' = excused \cup (CASE c.op = "resumeSessions" -> {"refresh"}
                               [] c.op = "reconcile" -> {"source"}
                               [] OTHER -> {})

\* The server refuses a mutation: an invalid home.
Refuse(c) ==
  /\ c.op = "mutate" /\ ~Answered(c)
  /\ Does(MutationFailed(Without(c), c)) /\ UNCHANGED excused

(***************************************************************************)
(* The server and other tabs.                                              *)
(***************************************************************************)
Serve(c) ==
  /\ ~Answered(c)
  /\ server' = Effect(server, c)
  /\ tab' = Calling(Without(c), [c EXCEPT !.reply = Reply(server', c)])
  /\ UNCHANGED <<events, excused>>

\* Another tab changes some home while the server looks for projects.
ServeConflict(c) ==
  /\ ~Answered(c) /\ c.op \in {"summary", "discover"} /\ Counted
  /\ tab' = Calling(Without(c), [c EXCEPT !.reply = Conflict])
  /\ UNCHANGED <<server, excused>>

JobSettles ==
  /\ server.job.status = "running"
  /\ \/ server' = [server EXCEPT !.job.status = "succeeded", !.index = server.job.root]
     \/ server' = [server EXCEPT !.job.status = "failed"]
  /\ UNCHANGED <<tab, events, excused>>

Foreign(s) ==
  /\ Counted
  /\ server' = s
  /\ UNCHANGED tab

OtherStarts(root) == Foreign(JobStarted(server, root)) /\ UNCHANGED excused

OtherCancels ==
  server.job.status = "running" /\ Foreign(JobCancelled(server)) /\ UNCHANGED excused

OtherSwitches(source) ==
  /\ source # server.source
  /\ Foreign(SourceMutated(server, source))
  /\ excused' = excused \cup {"source"}

(***************************************************************************)
(* The specification.                                                      *)
(***************************************************************************)
\* The page is loaded while the server is idle, indexes, or has failed to.
Init ==
  /\ server \in Started
  /\ \E saved \in Saved :
       tab = [mode |-> "start", root |-> NoRoot, source |-> NoRoot, loading |-> NoRoot,
              job |-> 0, returning |-> FALSE, switching |-> FALSE, cancelling |-> FALSE,
              projects |-> {}, drawn |-> {}, failed |-> NoRoot, obs |-> NoObservation,
              timer |-> FALSE, refresh |-> NoRefresh,
              calls |-> {[Call("init") EXCEPT !.root = saved]}]
  /\ events = 0
  /\ excused = {}

UserActs ==
  \/ ShowChooser \/ ExitChooser \/ Cancel \/ Continue \/ RefreshProject
  \/ \E root \in Root : SelectProject(root)
  \/ \E source \in Source : SwitchSource(source) \/ ChangeHome(source)

Network == \E c \in tab.calls : Hear(c) \/ Fail(c) \/ Refuse(c) \/ Serve(c) \/ ServeConflict(c)

Timers == FirePoll \/ FireRefreshPoll

OtherTabs ==
  \/ \E root \in Root : OtherStarts(root)
  \/ OtherCancels
  \/ \E source \in Source : OtherSwitches(source)

Next == UserActs \/ Network \/ Timers \/ JobSettles \/ OtherTabs

Spec == Init /\ [][Next]_vars

\* Calls are answered or fail, timers fire, and jobs settle.
FairSpec == Spec /\ WF_vars(Network \/ Timers) /\ WF_vars(JobSettles)

(***************************************************************************)
(* Properties.                                                             *)
(***************************************************************************)
Calls(ops) == {c \in tab.calls : c.live /\ c.op \in ops}

\* The chooser gives way to a project only on an answer about the job that the
\* user waits for, and to its project, or because the user returns: a cancelled
\* or abandoned observation never reopens one (projectObservationCurrent).
OpensOnlyWanted ==
  [][tab.mode = "select" /\ tab'.mode = "analyze" =>
       \/ tab.returning
       \/ /\ tab'.root = tab.loading
          /\ \E c \in tab.calls \ tab'.calls :
               c.op \in {"poll", "where"} /\ c.live /\ c.job = tab.job]_vars

\* The refresh of a project is a call or its timer, also when it is resumed.
RefreshUnderWay ==
  tab.refresh.on =>
    Cardinality(Calls({"refresh", "refreshPoll", "refreshWhere", "refreshSessions",
                       "resumeSessions"}))
      + (IF tab.refresh.timer THEN 1 ELSE 0) = 1

\* Whatever locks the tab's project controls is under way, once: the opening of
\* a project is a request to start it, one call of its observation, its timer,
\* or a pause that offers to go on; likewise refresh, return and source change.
NeverStranded ==
  /\ tab.loading # NoRoot \/ tab.job # 0 =>
       /\ Cardinality(Calls({"start"} \cup Observers))
            + (IF tab.timer THEN 1 ELSE 0)
            + (IF tab.obs # NoObservation /\ tab.obs.paused THEN 1 ELSE 0) = 1
       /\ tab.job # 0 => ObservationCurrent(tab)
  /\ tab.returning => Calls({"return"}) # {}
  /\ tab.switching => Cardinality(Calls({"mutate", "reconcile"})) = 1
  /\ "refresh" \notin excused => RefreshUnderWay

\* The tab takes its source to be the server's, as long as no other tab changes
\* it and the tab does not lose both the answer to a change and the look after
\* it: no list of projects from before a change is shown after it.
SourceAgrees ==
  tab.mode # "start" /\ "source" \notin excused =>
    tab.source = server.source \/ Calls({"mutate", "reconcile"}) # {}

\* The project controls are unlocked in the end, or a paused observation offers
\* to go on.
ControlsUnlock ==
  Busy(tab) ~> ~Busy(tab) \/ (tab.obs # NoObservation /\ tab.obs.paused) \/ "refresh" \in excused
=============================================================================
