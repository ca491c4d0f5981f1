---------------------------- MODULE BrowserTimeline ----------------------------
(***************************************************************************)
(* A browser tab that shows the timeline of one session, searches it and   *)
(* follows a server whose index another tab may replace at any time        *)
(* (src/src/browser/app.js).  Each action is one callback of the tab: a    *)
(* click, a timer, an answer or a failure of a request; the operators of   *)
(* TimelineView say what the functions it calls do to the state.           *)
(***************************************************************************)
EXTENDS TimelineView

CONSTANTS MaxRevision,   \* bound: revisions the server installs
          MaxActs,       \* bound: acts of the user
          MaxQueue       \* bound: navigations waiting in the queue

Ids == UNION {{TimelineOf(x, e.filter, n)[m] : m \in DOMAIN TimelineOf(x, e.filter, n)} :
              x \in Session, e \in Expr, n \in 1..MaxRevision}

\* Timelines are sequences.
ASSUME BrowserAssumption ==
  /\ MaxRevision \in Nat \ {0} /\ MaxActs \in Nat /\ MaxQueue \in Nat
  /\ \A x \in Session, e \in Expr, n \in 1..MaxRevision :
       TimelineOf(x, e.filter, n) \in Seq(Ids)

VARIABLES tab,        \* the state object
          serverRev,  \* the server's current index revision
          acts        \* how many acts of the user have been

vars == <<tab, serverRev, acts>>

\* The loop of ensureEventLoaded that never yields: the tab hangs.
Spinning == \E w \in Chasers : tab.chase[w].phase = "spin"

NoSuggestions == [who |-> "none", since |-> 0]

(***************************************************************************)
(* File suggestions and the recovery from a retired revision               *)
(* (app.js 3977-4024, 4847-4922, 4995-5036).                               *)
(***************************************************************************)

\* A faulty variant: the recovery is not told that its request was aborted.
SuggestionsStartedSilently(s, who) ==
  [s EXCEPT !.sugg = [who |-> who, since |-> serverRev]]

\* refreshFileSuggestions up to its await; it aborts the request before.
SuggestionsStarted(s, who) ==
  LET fresh == [s EXCEPT !.sugg = [who |-> who, since |-> serverRev]]
  IN  IF who = "user" /\ s.recovery.phase \in {"select", "suggest"}
      THEN RecoveryHears([fresh EXCEPT !.recovery.result = "stale"], "suggestions", "stale")
      ELSE fresh

\* A faulty variant: the recovery leaves the timeline it finds in place.
RecoveryStartedGently(s) ==
  Aborted([s EXCEPT !.sessionsReady = FALSE, !.sugg = NoSuggestions,
             !.recovery = [phase |-> "state", attempt |-> 0, requested |-> FALSE,
                           waits |-> {}, result |-> "none", since |-> 0]], serverRev)

\* recoverIndexRevision up to its first await
RecoveryStarted(s) ==
  Aborted([s EXCEPT !.events = <<>>, !.tctx = NoKey, !.total = 0, !.surface = NoKey,
             !.sessionsReady = FALSE, !.sugg = NoSuggestions,
             !.recovery = [phase |-> "state", attempt |-> 0, requested |-> FALSE,
                           waits |-> {}, result |-> "none", since |-> 0]], serverRev)

\* acceptRevisionBearingQueryResponse of a response of another revision
Mismatched(s) ==
  IF s.recovery.phase = "idle" THEN RecoveryStarted(s)
  ELSE [s EXCEPT !.recovery.requested = TRUE]

\* The finally of recoverIndexRevision
RecoverySettled(s) ==
  IF s.recovery.requested THEN RecoveryStarted([s EXCEPT !.recovery.phase = "idle"])
  ELSE [s EXCEPT !.recovery.phase = "idle", !.recovery.waits = {},
                 !.recovery.result = "none"]

NextAttempt(s) ==
  IF s.recovery.attempt = 2 THEN RecoverySettled(s)
  ELSE [s EXCEPT !.recovery.phase = "state", !.recovery.attempt = @ + 1,
                 !.recovery.requested = FALSE, !.recovery.waits = {},
                 !.recovery.result = "none"]

RecoverySuggests(s) ==
  SuggestionsStarted([s EXCEPT !.recovery.phase = "suggest",
                               !.recovery.waits = {"suggestions"},
                               !.recovery.result = "none"], "recovery")

\* What the recovery goes on to do in the same turn, once what it awaits is
\* there.  Every action of the tab ends with it.
Turn(s) ==
  CASE s.recovery.phase = "failed" -> RecoverySettled(s)
    [] s.recovery.phase \in {"select", "suggest"} /\ s.recovery.waits = {} ->
         IF s.recovery.result = "committed"
         THEN IF s.recovery.requested THEN NextAttempt(s) ELSE RecoverySettled(s)
         ELSE IF s.recovery.phase = "select" /\ s.recovery.result = "declined"
              THEN RecoverySuggests(s)
              ELSE NextAttempt(s)
    [] OTHER -> s

Does(s) == ~Spinning /\ tab' = Turn(s) /\ UNCHANGED <<serverRev, acts>>

(***************************************************************************)
(* Acts of the user.                                                       *)
(***************************************************************************)
Acts(s) ==
  /\ ~Spinning /\ acts < MaxActs /\ acts' = acts + 1
  /\ tab' = Turn(s) /\ UNCHANGED serverRev

\* selectSession up to its await
Selected(s, sess, who) ==
  LET there == [s EXCEPT !.scope = "session", !.sess = sess, !.loading = FALSE]
      empty == [Transition(there) EXCEPT !.events = <<>>, !.tctx = NoKey,
                                         !.surface = NoKey, !.preload = NoPreload]
  IN  SuggestionsStarted(Replaced(empty, "replace", who, PageSize, serverRev), who)

SelectSession(sess) ==
  /\ tab.sessionsReady
  /\ Acts(Selected(tab, sess, "user"))

\* The input handler: what is typed waits for three timers.
EditExpression(e) ==
  /\ e # tab.expr
  /\ LET typed == Transition([tab EXCEPT !.expr = e])
     IN  Acts([typed EXCEPT
           !.highlight = Key(typed),
           !.timers = IF e.filter # tab.expr.filter THEN {"reload"} ELSE @ \cup {"find"}])

\* applySearchFilter: a filter that is chosen takes effect at once.
ChooseFilter(e) ==
  /\ e.filter # tab.expr.filter /\ e.text = tab.expr.text
  /\ Acts(Refreshed(Transition([tab EXCEPT !.expr = e]), "replace", serverRev))

RetryCurrent == tab.retry # NoRetry /\ tab.retry.key = Key(tab)

\* The button below the timeline
LoadMore ==
  /\ tab.sess # NoSession /\ ~tab.loading
  /\ \/ /\ RetryCurrent
        /\ Acts(IF tab.retry.kind = "prefix"
                THEN Replaced(tab, "prefix", "user", tab.retry.want, serverRev)
                ELSE Refreshed(tab, tab.retry.kind, serverRev))
     \/ /\ ~RetryCurrent /\ Offset(tab) < tab.total /\ tab.tctx = Key(tab)
        /\ Acts(Started(tab, Request(tab, "append", "user", serverRev, Offset(tab)), serverRev))

\* The link is drawn while the timeline has more and a search might find it.
LoadMoreTargets ==
  /\ Offset(tab) < tab.total /\ ~tab.preload.exhausted
  /\ Searching(tab) /\ tab.sess # NoSession /\ Ready(tab)
  /\ tab.nav.phase = "idle" /\ ~tab.preload.pending
  /\ LET p == IF tab.preload.key = Key(tab) THEN tab.preload
              ELSE [NoPreload EXCEPT !.key = Key(tab)]
         begun == [tab EXCEPT !.inv = "loadMore", !.preload = p]
     IN  IF tab.loading THEN Acts([begun EXCEPT !.preload.exhausted = FALSE])
         ELSE Acts(BatchStarted([begun EXCEPT !.preload.pending = TRUE],
                                "loadMore", "none", serverRev))

\* queueSearchNavigation, and the drain it starts
Navigate ==
  /\ tab.scope = "session" /\ Searching(tab)
  /\ \/ /\ tab.nav.phase = "idle"
        /\ Acts([tab EXCEPT !.nav.phase = "wait", !.nav.key = Key(tab)])
     \/ /\ tab.nav.phase # "idle" /\ tab.nav.queue < MaxQueue
        /\ Acts([tab EXCEPT !.nav.queue = @ + 1])

\* setSearchScope('project')
LeaveForProject ==
  LET there == Transition([tab EXCEPT !.scope = "project"])
      left  == [ReplacementBegun(there) EXCEPT
                  !.req = NoReq, !.loading = FALSE, !.surface = NoKey, !.preload = NoPreload]
  IN  /\ tab.scope = "session"
      /\ Acts(SuggestionsStarted(
                IF tab.req = NoReq THEN left
                ELSE Ended(left, tab.req, "stale", FALSE, serverRev), "user"))

ReturnToSession ==
  /\ tab.scope = "project" /\ tab.sess # NoSession
  /\ Acts(Selected(tab, tab.sess, "user"))

\* drillDownProjectResult: the prefix up to the latest hit of the result
DrillDown(sess) ==
  /\ tab.scope = "project" /\ tab.recovery.phase = "idle"
  /\ LET there == Transition([tab EXCEPT !.scope = "session", !.sess = sess])
         empty == [there EXCEPT !.loading = FALSE, !.events = <<>>, !.tctx = NoKey,
                                !.preload = NoPreload]
     IN  \E want \in DOMAIN Answered(Key(there), tab.rev) :
           Acts(SuggestionsStarted(
                  Replaced(empty, "prefix", "user", want, serverRev), "user"))

\* A card is folded, unfolded or drawn again.
Rerender ==
  /\ tab.scope = "session"
  /\ Acts(MaybePreload(Rendered(tab), serverRev))

\* inspectAndRevealEvent, restoreFocus: go to an event that may not be loaded
GoTo(id) ==
  /\ tab.scope = "session" /\ tab.chase["chase"].phase = "idle" /\ id \notin Loaded(tab.events)
  /\ Acts(Chased([tab EXCEPT !.chase["chase"].id = id], "chase", serverRev))

(***************************************************************************)
(* Timers.  Both timers of an edit take 300 ms, so the highlights, set     *)
(* first, come first; the reload takes 220 ms.                             *)
(***************************************************************************)

FireHighlight ==
  /\ tab.highlight # NoKey /\ "reload" \notin tab.timers
  /\ LET fired == [tab EXCEPT !.highlight = NoKey]
     IN  Does(IF tab.highlight = Key(tab) THEN Discovered(fired, fired.events) ELSE fired)

\* The pane of folding rules is open, and redrawn.
FireReload ==
  /\ "reload" \in tab.timers
  /\ Does(Refreshed(Highlighted([tab EXCEPT !.timers = @ \ {"reload"}], serverRev),
                    "replace", serverRev))

FireFind ==
  /\ "find" \in tab.timers /\ tab.highlight = NoKey
  /\ Does(Refreshed([tab EXCEPT !.timers = @ \ {"find"}], "find", serverRev))

\* waitForTimelineIdle in ensureEventLoaded
ChaseWakes(w) ==
  /\ tab.chase[w].phase = "wait" /\ ~tab.loading
  /\ Does(ChaseLoads(tab, w, serverRev))

(***************************************************************************)
(* Navigation to the next hit (app.js 2534-2605, 2658-2740).               *)
(***************************************************************************)
NavCurrent == tab.nav.key = Key(tab) /\ tab.inv = "nav"

HasMatches == HitsAt(tab.expr)
                \cap {Answered(Key(tab), tab.rev)[n] : n \in DOMAIN Answered(Key(tab), tab.rev)}
                # {}

\* navigateSearchMatch after waitForTimelineIdle
NavWakes ==
  /\ tab.nav.phase = "wait" /\ ~tab.loading
  /\ Does(IF tab.nav.key # Key(tab) \/ ~Ready(tab) THEN NavEnded(tab, serverRev)
          ELSE LET begun == [tab EXCEPT !.inv = "nav", !.nav.phase = "look"]
               IN  IF tab.registry.owners = {} THEN Discovered(begun, begun.events)
                   ELSE begun)

\* A navigation tries its targets, before it loads a batch and after it.
NavTries == tab.nav.phase \in {"look", "after"} /\ tab.chase["navChase"].phase = "idle"

\* resolveSearchTargetNode: the event of a target is no longer in view.
NavChases ==
  /\ NavTries /\ NavCurrent
  /\ \E id \in tab.registry.owners \ Loaded(tab.events) :
       Does(Chased([tab EXCEPT !.chase["navChase"].id = id], "navChase", serverRev))

\* The details of the event of a target are there: the timeline is drawn again.
NavDraws == NavTries /\ NavCurrent /\ Does(Rendered(tab))

\* None of the targets known so far is shown: the navigation ends, or
\* materializeNextSearchTarget loads more of the timeline.
NavLooks ==
  /\ NavTries /\ tab.nav.phase = "look"
  /\ \/ Does(NavEnded(tab, serverRev))
     \/ /\ NavCurrent /\ Ready(tab) /\ HasMatches
        /\ Offset(tab) < tab.total /\ ~tab.loading
        /\ \E direction \in {"forward", "reverse"} :
             Does(BatchStarted([tab EXCEPT !.nav.phase = "load"], "nav", direction, serverRev))

NavFinishes == NavTries /\ tab.nav.phase = "after" /\ Does(NavEnded(tab, serverRev))

(***************************************************************************)
(* Answers of the timeline.                                                *)
(***************************************************************************)
Current(s, r) == r.latest /\ r.key = Key(s)

\* validateTimelineEventAdditions: ids are unique
Unique(events) == Cardinality(Loaded(events)) = Len(events)

\* The commit of an answer, and the rendering of it
Committed(s, r, events) ==
  Rendered([s EXCEPT !.events = events, !.tctx = r.key,
                     !.total = Len(Answered(r.key, r.rev))])

\* The catch of a request of pages: a replacement may be asked for again.
Failure(s, r) ==
  Settled(IF r.kind # "append" /\ Current(s, r)
          THEN [s EXCEPT !.retry = [key |-> r.key, kind |-> r.kind, want |-> r.want]]
          ELSE s,
          r, "error", FALSE, serverRev)

IsPaged == tab.req.kind \in {"replace", "append", "find", "prefix"}

AnswerPage ==
  LET r == tab.req
      from == IF r.kind = "append" THEN r.want ELSE Len(r.got)
      limit == IF r.kind \in {"replace", "append"} THEN PageSize
               ELSE IF r.want - from < Chunk THEN r.want - from ELSE Chunk
      page == Page(r.key, r.rev, from, limit)
      got == (IF r.kind = "append" THEN tab.events ELSE r.got) \o page
      stale == ~Current(tab, r) \/ (r.kind = "append" /\ r.want # Offset(tab))
      more == /\ r.kind \in {"find", "prefix"} /\ page # <<>>
              /\ Len(got) < r.want /\ Len(got) < Len(Answered(r.key, r.rev))
  IN  /\ IsPaged /\ r.ok
      /\ Does(CASE stale -> Settled(tab, r, "stale", FALSE, serverRev)
                [] ~stale /\ more ->
                     [tab EXCEPT !.req = [r EXCEPT !.got = got, !.rev = tab.rev,
                                                   !.ok = tab.rev = serverRev]]
                [] ~stale /\ ~more /\ ~Unique(got) -> Failure(tab, r)
                [] OTHER -> Settled(Committed(tab, r, got), r, "done", FALSE, serverRev))

FailPage == IsPaged /\ Does(Failure(tab, tab.req))

\* timelineSearchBatchIsCurrent: the identity is what it was.
BatchCurrent(s, r) ==
  Current(s, r) /\ s.tctx = r.key /\ s.rev = r.rev /\ s.inv = r.who

\* The batch b of r goes on with its next attempt.
BatchGoesOn(s, r, b) ==
  LET begun == Begun(b)
  IN  [s EXCEPT !.req = [r EXCEPT !.batch = begun, !.ok = r.rev = serverRev],
                !.preload.pages = IF r.who = "preload" /\ s.preload.key = r.key
                                  THEN begun.consumed ELSE @]

Publishable(s, r, b) == BatchCurrent(s, r) /\ b.base = Offset(s)

Published(s, r, b) == Committed(s, r, s.events \o b.accepted)

BatchFailure(s, r) ==
  LET b == Failed(r.batch)
      flushed == IF HasProgress(b) THEN Published(s, r, b) ELSE s
      stale == ~BatchCurrent(s, r) \/ (HasProgress(b) /\ ~Publishable(s, r, b))
  IN  CASE stale -> Settled(s, r, "stale", FALSE, serverRev)
        [] ~stale /\ ContinuesAfterError(b) ->
             BatchGoesOn(flushed, r, IF HasProgress(b) THEN Successor(b) ELSE b)
        [] OTHER -> Settled(flushed, r, IF r.who = "preload" THEN "done" ELSE "error",
                            FALSE, serverRev)

AnswerBatch ==
  LET r == tab.req
      b == r.batch
      page == Page(r.key, r.rev, LoadedOffset(b), PageSize)
      done == Accepted(b, page, Len(Answered(r.key, r.rev)))
      current == BatchCurrent(tab, r)
      valid == Unique(tab.events \o done.accepted)
      ends == valid /\ ~Continues(done, page)
      stale == ~current \/ (ends /\ HasProgress(done) /\ ~Publishable(tab, r, done))
  IN  /\ tab.req.kind = "batch" /\ r.ok
      /\ Does(CASE stale -> Settled(tab, r, "stale", FALSE, serverRev)
                [] current /\ ~valid -> BatchFailure(tab, r)
                [] current /\ valid /\ ~ends -> BatchGoesOn(tab, r, done)
                [] OTHER -> Settled(IF HasProgress(done) THEN Published(tab, r, done) ELSE tab,
                                    r, "done", Exhausts(done, page), serverRev))

FailBatch == tab.req.kind = "batch" /\ Does(BatchFailure(tab, tab.req))

(***************************************************************************)
(* Answers to the suggestions and to the recovery.  An answer is of some   *)
(* revision between the one at its request and the current one.            *)
(***************************************************************************)
SuggestionsHeard(result) ==
  LET heard == [tab EXCEPT !.sugg = NoSuggestions]
  IN  IF tab.sugg.who = "user" THEN heard
      ELSE RecoveryHears([heard EXCEPT !.recovery.result =
                            IF result = "committed" THEN "committed" ELSE "declined"],
                         "suggestions", IF result = "error" THEN "error" ELSE "done")

AnswerSuggestions ==
  /\ tab.sugg # NoSuggestions
  /\ \E revision \in tab.sugg.since..serverRev :
       IF revision = tab.rev THEN Does(SuggestionsHeard("committed"))
       ELSE Does(LET s == Mismatched(tab)
                 IN  IF s.sugg = NoSuggestions THEN s
                     ELSE LET heard == [s EXCEPT !.sugg = NoSuggestions]
                          IN  IF s.sugg.who = "user" THEN heard
                              ELSE RecoveryHears([heard EXCEPT !.recovery.result = "declined"],
                                                 "suggestions", "done"))

FailSuggestions == tab.sugg # NoSuggestions /\ Does(SuggestionsHeard("error"))

\* applyAppState, and the pane of folding rules that it draws
AnswerState ==
  /\ tab.recovery.phase = "state"
  /\ Does(Highlighted([tab EXCEPT !.rev = serverRev, !.preload = NoPreload,
                                  !.recovery.phase = "list", !.recovery.since = serverRev],
                      serverRev))

\* loadSessions with no session left
Emptied(s) ==
  RecoverySuggests([s EXCEPT
    !.sess = NoSession, !.scope = "project", !.events = <<>>, !.tctx = NoKey, !.total = 0,
    !.surface = NoKey, !.preload = NoPreload,
    !.req = IF @ = NoReq THEN NoReq ELSE [@ EXCEPT !.latest = FALSE]])

\* loadSessions once the list is there; sess is the session it settles on.
Listed(s, sess) ==
  CASE sess = NoSession -> Emptied(s)
    [] sess # NoSession /\ s.scope = "project" -> RecoverySuggests([s EXCEPT !.sess = sess])
    [] OTHER ->
         LET chosen == Selected(s, sess, "recovery")
         IN  [chosen EXCEPT !.recovery.phase = "select", !.recovery.result = "none",
                            !.recovery.waits = {"timeline", "suggestions"}]

AnswerList ==
  /\ tab.recovery.phase = "list"
  /\ \E revision \in tab.recovery.since..serverRev :
       IF revision = tab.rev
       THEN \E sess \in Session \cup {NoSession} :
              Does(Listed([tab EXCEPT !.sessionsReady = TRUE], sess))
       ELSE Does(NextAttempt(Mismatched(tab)))

FailRecovery ==
  /\ tab.recovery.phase \in {"state", "list"}
  /\ Does(RecoverySettled(tab))

(***************************************************************************)
(* The server, and the specification.                                      *)
(***************************************************************************)
\* Another tab, or a refresh, makes the server replace its index.
Install ==
  /\ serverRev < MaxRevision
  /\ serverRev' = serverRev + 1
  /\ UNCHANGED <<tab, acts>>

NoRecovery == [phase |-> "idle", attempt |-> 0, requested |-> FALSE,
               waits |-> {}, result |-> "none", since |-> 0]

Opened(sess, e) ==
  LET key == [scope |-> "session", sess |-> sess, expr |-> e]
  IN  [scope |-> "session", sess |-> sess, expr |-> e, rev |-> 1, sessionsReady |-> TRUE,
       tctx |-> NoKey, events |-> <<>>, total |-> 0, loading |-> TRUE,
       req |-> [kind |-> "replace", who |-> "user", key |-> key, rev |-> 1, ok |-> TRUE,
                latest |-> TRUE, want |-> PageSize, got |-> <<>>],
       retry |-> NoRetry, inv |-> "none", preload |-> NoPreload,
       registry |-> [key |-> key, owners |-> {}], surface |-> NoKey,
       nav |-> [phase |-> "idle", key |-> NoKey, queue |-> 0],
       timers |-> {}, highlight |-> NoKey, chase |-> [w \in Chasers |-> NoChase],
       sugg |-> NoSuggestions, recovery |-> NoRecovery]

Init ==
  /\ serverRev = 1 /\ acts = 0
  /\ \E sess \in Session, e \in {x \in Expr : x.text = NoText} : tab = Opened(sess, e)

UserActs ==
  \/ \E sess \in Session : SelectSession(sess)
  \/ \E e \in Expr : EditExpression(e) \/ ChooseFilter(e)
  \/ LoadMore
  \/ LoadMoreTargets
  \/ Navigate
  \/ LeaveForProject
  \/ ReturnToSession
  \/ \E sess \in Session : DrillDown(sess)
  \/ Rerender
  \/ \E id \in Ids : GoTo(id)

Timers ==
  \/ FireHighlight \/ FireReload \/ FireFind \/ NavWakes
  \/ \E w \in Chasers : ChaseWakes(w)

Details == NavChases \/ NavDraws \/ NavLooks \/ NavFinishes

Network ==
  \/ AnswerPage \/ FailPage \/ AnswerBatch \/ FailBatch
  \/ AnswerSuggestions \/ FailSuggestions
  \/ AnswerState \/ AnswerList \/ FailRecovery

Next == UserActs \/ Timers \/ Details \/ Network \/ Install

Spec == Init /\ [][Next]_vars

\* An answer, a timer or the details of a card are awaited.
Due ==
  /\ ~Spinning
  /\ \/ tab.req # NoReq \/ tab.sugg # NoSuggestions
     \/ tab.recovery.phase \in {"state", "list"}
     \/ tab.highlight # NoKey \/ tab.timers # {}
     \/ NavTries
     \/ ~tab.loading /\ (tab.nav.phase = "wait" \/ \E w \in Chasers : tab.chase[w].phase = "wait")

\* Requests are answered or fail, timers fire and details load: the weak
\* fairness of Timers \/ Details \/ Network, the steps that change the tab and
\* are not acts of the user, and enabled just when something is due.
Fairness == []<>~Due \/ []<><<tab' # tab /\ acts' = acts>>_vars

FairSpec == Spec /\ Fairness

(***************************************************************************)
(* Properties.                                                             *)
(***************************************************************************)

\* The events in view are the beginning of one timeline: of the session and
\* the filter the committed context names, at one revision, no event twice.
ViewIsPrefix ==
  /\ tab.events # <<>> =>
       \E n \in 1..MaxRevision :
         /\ Len(tab.events) <= Len(Answered(tab.tctx, n))
         /\ tab.events = [m \in DOMAIN tab.events |->
                            [key |-> tab.events[m].key, rev |-> n,
                             id |-> Answered(tab.tctx, n)[m]]]
  /\ \A m \in DOMAIN tab.events :
       tab.events[m].key = tab.tctx
  /\ tab.tctx # NoKey => Offset(tab) <= tab.total

\* In the scope of a session, the spinner shows exactly while a request of
\* the timeline is on its way whose answer will be heard; and the search is
\* "pending" only while the batch that will end it is, or the targets could
\* never be loaded again (updateLoadMore, beginTimelineReplacement and the
\* finally of each request).
FlagsOwned ==
  /\ tab.scope = "session" => (tab.loading <=> tab.req # NoReq /\ tab.req.latest)
  /\ tab.preload.pending =>
       /\ tab.inv \in {"preload", "loadMore"}
       /\ tab.req # NoReq /\ tab.req.who = tab.inv /\ tab.req.key = Key(tab)

\* A batch whose pages may still be shown goes on from where the view ends,
\* within its budget, and the preload it belongs to knows what it has spent;
\* and where a batch may begin, the timeline is committed that it searches
\* (loadTimelineSearchBatch, timelineSearchBatchIsCurrent).
BatchDiscipline ==
  /\ tab.req.kind = "batch" /\ BatchCurrent(tab, tab.req) =>
       LET b == tab.req.batch
       IN  /\ b.active /\ b.base = Offset(tab) /\ ~AtEnd(b)
           /\ b.kind = "preload" => b.consumed <= PreloadMaxPages
           /\ b.kind = "preload" /\ tab.preload.pending => tab.preload.pages = b.consumed
  /\ Ready(tab) => tab.tctx = Key(tab)

\* What a search has spent on preloading under one key stays spent, through
\* failures, successors and other requests, unless a recovery applies the
\* state of the application anew (state.searchTargetPreload.pages).
BudgetKept ==
  [][tab.preload.key = tab'.preload.key /\ tab.recovery.phase # "state"
       => tab.preload.pages <= tab'.preload.pages]_vars

\* Once the search says that there are no more hits, all of them are known.
ExhaustedMeansAllKnown ==
  tab.preload.exhausted /\ tab.preload.key = Key(tab) /\ tab.events # <<>> =>
    \A n \in DOMAIN Answered(Key(tab), tab.events[1].rev) :
      Answered(Key(tab), tab.events[1].rev)[n] \in HitsAt(tab.expr) =>
        Answered(Key(tab), tab.events[1].rev)[n] \in tab.registry.owners

\* While the search is the same, a jump target once found stays.
TargetsNeverShrink ==
  [][tab.registry.key = tab'.registry.key /\ Key(tab) = tab.registry.key
       => tab.registry.owners \subseteq tab'.registry.owners]_vars

\* In the timeline of a search, the jump targets are hits of that search.
TargetsMatchSearch ==
  Ready(tab) /\ tab.registry.key = Key(tab) => tab.registry.owners \subseteq HitsAt(tab.expr)

\* The spinner of the timeline ends.
SpinnerEnds == tab.loading ~> ~tab.loading \/ Spinning \/ tab.scope = "project"

\* A navigation to a hit ends, unless the project has lost its last session:
\* loadSessions then forgets the request on its way and leaves `loading` set.
NavigationEnds ==
  tab.nav.phase # "idle" ~> tab.nav.phase = "idle" \/ Spinning \/ tab.sess = NoSession

\* A recovery from a retired revision ends.
RecoveryEnds == tab.recovery.phase # "idle" ~> tab.recovery.phase = "idle" \/ Spinning

\* A search for an event that is not loaded yet waits for the timeline, or for
\* the page it appends; it does not go round without either, as nothing else
\* of the tab would run again (ensureEventLoaded).
ChaseAppends == ~Spinning
================================================================================
