------------------------------ MODULE TimelineView ------------------------------
(***************************************************************************)
(* The part of the browser's `state` object (src/src/browser/app.js) that  *)
(* the timeline of one session, its requests and its search depend on, and *)
(* the functions that read and change it.  The browser runs one callback   *)
(* to its end at a time, microtasks included, so each function is an       *)
(* operator from a state record s to the next one, and an action of        *)
(* BrowserTimeline is one callback: a click, a timer or an answer.         *)
(*                                                                         *)
(* The requests of the timeline have one owner (requestOwners.timeline):   *)
(* a new one aborts the last, whose continuation then runs at once with    *)
(* the outcome "stale".  There is thus at most one, s.req.                 *)
(***************************************************************************)
EXTENDS SearchBatch, Integers

CONSTANTS Session, NoSession,
          Expr,             \* search expressions, [text |-> ., filter |-> .]
          NoText,           \* the text of an expression without a free text
          TimelineOf(_, _, _), \* session, filter, revision: ids in order
          PageSize,         \* state.limit
          Chunk             \* the 500 of the requests that reload a prefix

ASSUME ViewAssumption ==
  NoSession \notin Session /\ PageSize \in Nat \ {0} /\ Chunk \in Nat \ {0}

Keys == [scope : {"session", "project", "none"}, sess : Session \cup {NoSession},
         expr : Expr]

NoKey == [scope |-> "none", sess |-> NoSession, expr |-> CHOOSE e \in Expr : TRUE]

\* timelineDataContextKey and searchTargetKey: the repository, locale, sort
\* order and folding profile stay as they are.
Key(s) == [scope |-> s.scope, sess |-> s.sess, expr |-> s.expr]

Searching(s) == s.expr.text # NoText

Offset(s) == Len(s.events)

Loaded(events) == {events[n].id : n \in DOMAIN events}

Answered(key, rev) == TimelineOf(key.sess, key.expr.filter, rev)

\* What the server answers to /timeline at one revision.
Page(key, rev, from, limit) ==
  LET ids == Answered(key, rev)
      left == Len(ids) - from
  IN  [n \in 1..(IF left < limit THEN left ELSE limit) |->
         [key |-> key, rev |-> rev, id |-> ids[from + n]]]

NoReq == [kind |-> "none"]
NoRetry == [key |-> NoKey, kind |-> "none", want |-> 0]
NoPreload == [key |-> NoKey, pages |-> 0, pending |-> FALSE, exhausted |-> FALSE]

(***************************************************************************)
(* Search targets (search-targets.js, app.js 1831-1927).                   *)
(***************************************************************************)

\* searchDiscoveryContextReady
Ready(s) == s.scope = "session" /\ s.sessionsReady /\ s.surface = Key(s)

\* beginSearchTargetContextTransition
Transition(s) ==
  IF s.registry.key = Key(s) THEN s
  ELSE [s EXCEPT !.registry = [key |-> Key(s), owners |-> {}],
                 !.preload = NoPreload,
                 !.nav.queue = 0]

\* A faulty variant: discovery starts again from the events in view.
RediscoveredOnly(s, events) ==
  [s EXCEPT !.registry = [key |-> Key(s), owners |-> HitsIn(events)]]

\* syncSearchTargetRegistryKey, then discover
Discovered(s, events) ==
  [s EXCEPT !.registry =
     [key |-> Key(s),
      owners |-> IF Searching(s)
                 THEN (IF s.registry.key = Key(s) THEN s.registry.owners ELSE {})
                        \cup HitsIn(events)
                 ELSE {}]]

\* renderTimeline and the surface it leaves behind; the highlights follow.
Rendered(s) ==
  Discovered([s EXCEPT !.surface = IF s.scope = "session" /\ s.tctx = Key(s)
                                   THEN Key(s) ELSE NoKey], s.events)

(***************************************************************************)
(* Requests of the timeline (app.js 6156-6630).                            *)
(***************************************************************************)
Request(s, kind, who, serverRev, want) ==
  [kind |-> kind, who |-> who, key |-> Key(s), rev |-> s.rev,
   ok |-> s.rev = serverRev, latest |-> TRUE, want |-> want, got |-> <<>>]

BatchRequest(s, who, direction, serverRev) ==
  [kind |-> "batch", who |-> who, key |-> Key(s), rev |-> s.rev,
   ok |-> s.rev = serverRev, latest |-> TRUE,
   batch |-> Begun(Created(who, direction, Offset(s), s.total,
                           IF who = "preload" THEN s.preload.pages ELSE 0,
                           s.registry.owners))]

\* A faulty variant: it is left to the invocation to say that it has ended.
ReplacementBegunLate(s) == [s EXCEPT !.retry = NoRetry, !.inv = "none"]

\* beginTimelineReplacement: a new generation, so no invocation is current.
ReplacementBegun(s) ==
  [s EXCEPT !.retry = NoRetry, !.inv = "none", !.preload.pending = FALSE]

\* loadTimelineSearchBatch up to its first await, once its guards passed
BatchStarted(s, who, direction, serverRev) ==
  LET r == BatchRequest(s, who, direction, serverRev)
  IN  [s EXCEPT !.req = r, !.loading = TRUE,
                !.preload.pages = IF who = "preload" THEN r.batch.consumed ELSE @]

WantsPreload(s) ==
  /\ Searching(s) /\ s.sess # NoSession /\ Ready(s)
  /\ Cardinality(s.registry.owners) < PreloadMin
  /\ Offset(s) < s.total
  /\ ~s.loading /\ ~s.preload.pending /\ s.nav.phase = "idle"

PreloadPages(s) == IF s.preload.key = Key(s) THEN s.preload.pages ELSE 0

\* A preload that begins on a timeline committed for another key would be
\* refused, and asked for again, in a loop: BatchDiscipline rules it out.
MaybePreload(s, serverRev) ==
  IF WantsPreload(s) /\ PreloadPages(s) < PreloadMaxPages
  THEN LET p == IF s.preload.key = Key(s) THEN s.preload
                ELSE [NoPreload EXCEPT !.key = Key(s)]
       IN  BatchStarted([s EXCEPT !.inv = "preload",
                                  !.preload = [p EXCEPT !.pending = TRUE]],
                        "preload", "none", serverRev)
  ELSE s

\* refreshSearchHighlights
Highlighted(s, serverRev) == MaybePreload(Discovered(s, s.events), serverRev)

(***************************************************************************)
(* Those who await a request.                                              *)
(***************************************************************************)

\* ensureEventLoaded asks for page after page until an event is there.  It runs
\* for the user, who goes to an event, and for a navigation to a hit.
Chasers == {"chase", "navChase"}

NoChase == [phase |-> "idle", id |-> 0]

ChaseOver(s, w) == s.chase[w].id \in Loaded(s.events) \/ Offset(s) >= s.total

PageRefused(s) == s.sess = NoSession \/ s.tctx # Key(s)

\* loadTimeline(true) of the loop: the next page is asked for; or the page is
\* refused, and the loop ends or goes round and round without ever yielding.
ChaseLoads(s, w, serverRev) ==
  CASE ~PageRefused(s) ->
         [s EXCEPT !.chase[w].phase = "append", !.loading = TRUE,
                   !.req = Request(s, "append", w, serverRev, Offset(s))]
    [] PageRefused(s) /\ ChaseOver(s, w) -> [s EXCEPT !.chase[w] = NoChase]
    [] OTHER -> [s EXCEPT !.chase[w].phase = "spin"]

\* The loop from its head to its next await
Chased(s, w, serverRev) ==
  CASE ChaseOver(s, w) -> [s EXCEPT !.chase[w] = NoChase]
    [] ~ChaseOver(s, w) /\ s.loading -> [s EXCEPT !.chase[w].phase = "wait"]
    [] OTHER -> ChaseLoads(s, w, serverRev)

\* A faulty variant: a navigation whose search has changed just returns.
NavEndedIfCurrent(s, serverRev) ==
  CASE s.nav.key # Key(s) -> s
    [] s.nav.key = Key(s) /\ s.nav.queue > 0 ->
         [s EXCEPT !.nav.queue = @ - 1, !.nav.phase = "wait"]
    [] OTHER -> MaybePreload([s EXCEPT !.nav.phase = "idle", !.nav.key = NoKey], serverRev)

\* One navigation of the queue ends (drainSearchNavigationQueue).
NavEnded(s, serverRev) ==
  IF s.nav.queue > 0
  THEN [s EXCEPT !.nav.queue = @ - 1, !.nav.phase = "wait", !.nav.key = Key(s)]
  ELSE MaybePreload([s EXCEPT !.nav.phase = "idle", !.nav.key = NoKey], serverRev)

InvocationCurrent(s, r) == s.inv = r.who /\ r.key = Key(s)

\* The .finally of a preload
PreloadEnded(s, r, serverRev) ==
  IF InvocationCurrent(s, r) /\ s.preload.key = r.key
  THEN MaybePreload([s EXCEPT !.preload.pending = FALSE], serverRev)
  ELSE s

\* A faulty variant: whatever finds no new target is the end of the search.
LoadMoreEndedHastily(s, r, outcome, exhausted) ==
  IF ~InvocationCurrent(s, r) THEN s
  ELSE [s EXCEPT !.preload.pending = FALSE,
                 !.preload.exhausted = s.registry.owners \subseteq r.batch.known]

\* The continuation of loadMoreSearchTargets; r.batch.known are the targets
\* it began with.
LoadMoreEnded(s, r, outcome, exhausted) ==
  IF ~InvocationCurrent(s, r) THEN s
  ELSE [s EXCEPT !.preload.pending = FALSE,
                 !.preload.exhausted =
                    IF outcome # "done" THEN @
                    ELSE s.registry.owners \subseteq r.batch.known /\ exhausted]

\* recoverIndexRevision awaits selectSession, and that the timeline and the
\* file suggestions; an error of either ends the recovery.
RecoveryHears(s, part, outcome) ==
  IF part \notin s.recovery.waits THEN s
  ELSE IF outcome = "error"
       THEN [s EXCEPT !.recovery.phase = "failed", !.recovery.waits = {}]
       ELSE [s EXCEPT !.recovery.waits = @ \ {part}]

\* The continuation of whoever awaits request r; outcome is "done", "stale"
\* or "error".
Ended(s, r, outcome, exhausted, serverRev) ==
  CASE r.who = "preload" -> PreloadEnded(s, r, serverRev)
    [] r.who = "loadMore" -> LoadMoreEnded(s, r, outcome, exhausted)
    [] r.who = "nav" ->
         IF outcome = "done" /\ InvocationCurrent(s, r)
         THEN [s EXCEPT !.nav.phase = "after"]
         ELSE NavEnded(s, serverRev)
    [] r.who \in Chasers /\ outcome = "error" ->
         LET given == [s EXCEPT !.chase[r.who] = NoChase]
         IN  IF r.who = "navChase" THEN NavEnded(given, serverRev) ELSE given
    [] r.who \in Chasers /\ outcome # "error" -> Chased(s, r.who, serverRev)
    [] r.who = "recovery" -> RecoveryHears(s, "timeline", outcome)
    [] OTHER -> s

\* A faulty variant: a request that has failed leaves the spinner on.
SettledQuietly(s, r, outcome, exhausted, serverRev) ==
  Ended([s EXCEPT !.req = NoReq, !.loading = IF outcome = "error" THEN @ ELSE FALSE],
        r, outcome, exhausted, serverRev)

\* The finally of a request that still owns the timeline.
Settled(s, r, outcome, exhausted, serverRev) ==
  LET free == [s EXCEPT !.req = NoReq, !.loading = IF r.latest THEN FALSE ELSE @]
  IN  Ended(IF r.latest /\ r.kind \in {"replace", "append", "find"}
            THEN MaybePreload(free, serverRev) ELSE free,
            r, outcome, exhausted, serverRev)

\* requestOwners.timeline.abort
Aborted(s, serverRev) ==
  IF s.req = NoReq THEN s ELSE Settled(s, s.req, "stale", FALSE, serverRev)

\* requestOwners.timeline.start: it aborts the request it supersedes.
Started(s, r, serverRev) ==
  LET next == [s EXCEPT !.req = r, !.loading = TRUE]
  IN  IF s.req = NoReq THEN next ELSE Ended(next, s.req, "stale", FALSE, serverRev)

\* loadTimeline(false), refreshTimelineFindState and loadTimelineThroughIndex
Replaced(s, kind, who, want, serverRev) ==
  LET begun == ReplacementBegun(s)
  IN  Started(begun, Request(begun, kind, who, serverRev, want), serverRev)

\* refreshActiveSearch in the scope of a session
Refreshed(s, kind, serverRev) ==
  IF s.scope # "session" \/ s.sess = NoSession THEN s
  ELSE Replaced(s, kind, "user",
                IF kind = "find" /\ Offset(s) > PageSize THEN Offset(s) ELSE PageSize,
                serverRev)
================================================================================
