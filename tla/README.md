# A verification of Session Analyzer

Session Analyzer is a local HTTP server with a browser UI that reads the
transcripts coding agents leave behind (Codex, Claude Code, DeepSeek Harness),
indexes the sessions of one project, and shows and searches them. These modules
specify the parts of it whose correctness depends on the order in which things
happen: the server keeps one mutable state, the browser tab keeps another, and
every `await` in either lets other requests, builds, cancellations, clicks and
timers in between.

Paths are relative to the repository; `owner` stands for
`src/materialized-session-owner.js`, `lease` for `src/index-revision-lease.js`,
`prewarm` for `src/session-prewarm.js`, `disk` for `src/project-query-disk.js`,
`app` for `src/browser/app.js`.

## The system

| Component | State it keeps | Operations | What is hard |
|---|---|---|---|
| Materialization scheduler and owner (`owner`) | scheduler: pending queue, active job, idle waiters; per revision: job table, queue, cache | `get`, `prewarm`, `pump`, `_completeJob`, abort of a waiter, `retire` | coalescing, preemption and cancellation around a job that goes on running; late results; table entries deleted in six places, two of them by the session alone |
| Session cache (`owner`) | entries, byte total, access sequence | touch, admit, evict, reject, retire | accounting, two classes of entries, oversize entries, renumbering at the largest safe integer |
| Revision leases (`lease`) | `state.index`, `indexRevision`, `revisionLease` | install, clear, capture, assert current | a revision replaced while requests hold it |
| Session prewarm (`prewarm`) | timer, candidate, number of attempts | schedule, wake, whenIdle, call, retry, cancel | decisions that are stale after every wait; wake-ups |
| Project jobs, sources, discovery (`server.js`) | active job, job counter, source kind and homes, source revision, project cache | start, cancel, change source, discover, close | cancellation racing the commit; stale scans |
| Query store (`disk`, `src/project-query-store.js`) | a temporary file per build, open or closed | open, finish, share, read, dispose | ownership between build, index and reader; two indexes with one store |
| Text search (`src/search-text-stream.js`) | window, counters | feed a part, finish | matches, white space and snippets across cuts |
| Project query (`src/session-query.js`, `disk`) | worker pool, results | search, suggest files, filter, page | workers that outlive a failure; places in a timeline counted page by page |
| Source adapters (`src/codex*.js`, `src/claude*.js`, `src/deepseek-harness*.js`, `src/source-adapters.js`) | none between calls | discover, build an index, materialize a session | large pure transformations of files |
| Browser: timeline (`app`, `src/browser/timeline-event-state.js`) | events in view and their context, request owners, spinner, timers | load, append, replace, select, edit the search, recover from a retired revision | answers that arrive after the view has changed; flags handed from one request to the next |
| Browser: search (`src/browser/timeline-search-batch.js`, `search-targets.js`) | batch, budget, registry of jump targets, queue of navigations | preload, load more, navigate | attempts that end after the search they are for; a budget nobody may renew |
| Browser: projects and sources (`app`) | chooser, observed job, refresh, source | select, cancel, return, refresh, change source, resume | lost answers; other tabs; controls that lock and must unlock |
| Browser: rendering, cards, detail panes | cards, detail cache | draw | large, mostly without decisions |
| Folding, cache observation, i18n, CLI, diagnostics | none or counters | pure functions, logs | algorithms |

In the server, a request captures the lease of the live revision and asks its
owner for a session; the owner creates or joins a job; the one scheduler, shared
by all revisions, runs one materializer at a time. A project job builds an
index, possibly reusing the store of the previous one, and installs it as a new
revision, which retires the old one under its requests, its jobs and its prewarm
loop, and schedules a loop of its own. Changing the source cancels the job and
clears the revision. Searches read the store of the revision they captured, and
are told so when it is no longer live.

Tabs and server interact by requests only. A tab starts a job and polls it; the
job of one tab takes the place of another's. A tab that is told that its revision
was retired reads `/api/state` and its lists anew. What is in view is tied to a
context, made of scope, session, filters and text, and to a revision; a search
loads pages in batches until it knows enough places to jump to.

## The modules

A step of every module is one turn of JavaScript's event loop or microtask
queue, which runs to completion; the interleavings are the orders of turns.
The modules named `MC...` give the constants values for TLC; those named
`..._proofs` hold the theorems.

### Materialization

The scheduler, the owners, the leases and the requests. `pending` and `ahead`
are `scheduler.pending`: a set and, for each job, those pushed before it, so
that an order can be reasoned about without sequences. `active` is
`scheduler.active`; `finishing` holds the jobs between `_completeJob` and
`.finally`, one microtask later; `pumpDue` is the microtask of
`enqueueSpeculative`. `job` holds the job objects, whose identities are used
again when nothing refers to them. `jobs` and `cache` are the tables of each
revision's owner.

`GetHit`, `GetJoin`, `GetBusy`, `GetNew` are the four ways through `get`;
`Abandon` is a client that goes away, with what `onAbort` and
`_cancelUnobservedJob` do; `Prewarm` and `PumpTick` are speculative work;
`CompleteForeground`, `CompleteSpeculative`, `RejectSpeculative`, `Fail` and
`Discard` are the outcomes of `_completeJob`; `Finalize` is `.finally`;
`Install` and `Clear` change the revision and contain the whole of `retire`.
`TablesRetired` is the removal of table entries by `retire`, which goes by the
session alone. Every call of `pump` is part of the action that makes it.

A request that its job has settled is not answered yet: its own continuation runs
later, and looks at the lease once more (`Respond`). Gone clients are told nothing,
whatever the result; a request whose revision was replaced between settlement and
continuation is told so (the 409), though its result was there; the others are
given what they came to (`Given`). An admission evicts any set that its class may evict: which one is decided in `SessionCache`.

`MaterializationService` says what requests may rely on: at most one live
revision, one result that answers everyone waiting for the same session, no
request taken down by another one's leaving, none turned away that could have
joined, a change of revision that answers everybody at once, and, whatever a request came
to, that its client is given it only while the revision it asked of is live.
`MaterializationRefinement` maps the scheduler to it: `known` is what the live
revision's cache holds; jobs, queue, preemption and cleanup are not visible.

### SessionCache

The cache of one owner, with real byte counts and sequence numbers.
`NextAccess` is `_nextAccessSequence` with its renumbering. The evictions of one
admission are a set of victims that is closed under the order in which
`_selectEvictionVictim` picks them, the smallest one that makes room. The
variable `since` is a history: the sessions used since each session's last use,
that is the true order of uses, which the sequence numbers are compared with.

### SessionPrewarm

Extends `Materialization` with the prewarm loop of each revision. The phases of
a loop are its awaits. `Continued` is the synchronous part of the loop between
two awaits, with all the candidates it skips. The actions of the scheduler
appear with what they do to the loops: the end of `pump` wakes those that wait
(`AfterPump`), a retirement clears the timer and rejects the wait (`Retired`).

### ProjectIndex

Project jobs, source, live index, stores, searches and discovery. A job is a
chain of promises; its `phase` is the handler that is due. `result` is the store
the built index uses: its own, none, or the previous index's, which reuse makes
possible. A scan of the projects may fail, and a failure that is an `AbortError` is
taken for a cancellation, as a real one is (`Catch`). `store` is what became of the file each build opened. A search that
reads after its store was closed is marked `tainted`; the descriptor may by then
be another file's, so what it read may be anything.

### TextSearch

`searchOne`, as a machine that is fed a text in parts of any size, against a
search of the whole text. 80 and 180 code units of context are parameters.

### ProjectQuery

`mapProjectQuerySessions`, its workers, and `scanDiskShard` under them: a step is
the turn of one worker between two awaits (the text of a row, the tick after a
page, a preview), with the visitors of the three queries: a search with a text,
one by structure only, and the suggestion of files. Any page, text or preview may
turn out unreadable when its turn comes (`PageDamaged`). `Merged` is what the query
resolves to, and the operators from `Rows` on are the same queries of an index in
memory (`projectSearchResult`, `residentFileSuggestions`), which it is compared
with.

### SearchBatch, TimelineView, BrowserTimeline

A tab that shows and searches the timeline of one session. `tab` is the part of
`state` that matters to it, as one record. `SearchBatch` has the operations of
`timeline-search-batch.js` as operators on a batch. `TimelineView` says what the
functions of `app` that several callbacks call do to the tab: `beginTimelineReplacement`,
`discoverCanonicalSearchTargets`, `maybePreloadSearchTargets`,
`loadTimelineSearchBatch`, `refreshSearchHighlights`, the owner of the timeline
request. `BrowserTimeline` has one action per callback: an act of the user, a
timer, an answer or failure of a request, the details of a card.

`key` is a context (`timelineDataContextKey`); a request remembers the key and
the revision it was made under, who asked (`user`, `preload`, `loadMore`, `nav`,
`chase`, `navChase`), the offset an append is to go on from (`want`), whether the
server can answer it (`ok`: its revision was live when it was sent; it may be
refused all the same, as any request may fail) and whether its number is still the
latest (`latest`). `registry` holds the jump targets and the key they were
found under. `preload` is `state.searchTargetPreload`. `recovery` is
`recoverIndexRevision` with its three awaits and its list of who it waits for,
without the analysis pane (`loadAnalysis`). The server is a revision number.

What is abstracted: an event is an identity, a text is the set of events it hits,
a page is as large as the instance says. Whether the details of a card yield a
match in it is a choice of the actions that `NavTries` enables.

`ensureEventLoaded` is a loop that appends page after page until the event is in view
(`Chased`, the body from the test of the loop to its next await). After a wait for
the tab's request to end it appends without that test (`ChaseWakes`). A navigation
awaits it twice, when it goes to a target and when it draws it again (`NavChases`,
`NavDraws`), with requests of its own (`navChase`); `GoTo` stands for every other
caller, of which one is under way at a time, beside the navigation's. The pane
of folding rules is taken to be open when the reload is fired, where it redraws.
Timers that are set together fire in the order of their delays (220, 300, 300 ms).
Pagination intents, reading positions and the results of a search of the whole
project are left out, as is a drill-down into a result of an older revision.

### ProjectChooser

A tab that opens, cancels, leaves and refreshes projects and changes the source,
and the server it shares with others. Every `await` of the tab is a call in
`tab.calls`; the server handles it (`Serve`), the tab hears the answer later
(`Hear`), or the connection breaks before or after it was handled (`Fail`). The
operators ending in `Answered` and `Failed` are the rest of the function after
that await; those in the past participle (`Polled`, `ChooserShown`) are a function
up to its await. `live` of a call says whether the observation or the request
number it was made under is still the tab's; both are compared by identity and
none comes back. Other tabs start and cancel jobs and change the source.

Left out: the numbers of refresh requests (a refresh starts only when none is on);
the dialogues that confirm a change of the source; the list of sessions after a
project was opened, except where a refresh waits for it. An answer with a status
of 500 or more counts as a broken connection. A call whose answer nobody will hear
need not break. The last project is remembered whatever the source. The recovery
of `BrowserTimeline` going on while the chooser is open is not modelled.

## What is checked

All properties are described where they are stated. Every run sets
`CHECK_DEADLOCK FALSE`, because every one of these systems may stop: the numbers
of revisions, jobs, source changes, acts and characters are bounded, and a server
nobody calls does nothing.

| Run | Asks | Instance | Distinct states |
|---|---|---|---|
| `materialization` | Are tables, waiters, queue and retired owners sound, is speculation out of the way, is the service implemented? | 2 sessions, 3 requests, 3 jobs, queue limit 1, 2 revisions, symmetric | 523,884 |
| `materialization_live` | Is every request that stays answered, with the fairness the service assumes? | 2 sessions, 2 requests, 2 jobs, 2 revisions | 513,912 |
| `session_prewarm` | Does the loop keep to its budget, is no wake-up lost, does each of its calls settle, does the loop of a retired revision end? | 2 sessions (bytes 2 and 1, budget 2), 1 request, 2 jobs, 2 revisions | 165,092 |
| `project_jobs` | Which job commits, who closes which store, what the client and a late search see | 2 sources, 3 jobs, 1 search, 1 source change | 3,085,585 |
| `project_sources` | Do late scans leave nothing behind, is every store released? | 2 sources, 2 jobs, 1 discovery, 2 source changes | 683,408 |
| `browser_timeline` | Is the view one timeline, are flags, batches and targets consistent, does the tab come to rest? | 2 sessions, 3 texts and a filter, 3 events in pages of 1, 3 acts, 2 revisions | 194,545 |
| `project_chooser` | Does a tab open only what is wanted, agree on the source, and unlock its controls? | 2 repositories, 2 sources, 1 retry, 3 acts or faults, six states of the server at the start | 611,096 |
| `parts` | `SessionCache`: accounting, least-recently-used eviction. `TextSearch`: is the result independent of the cuts, is memory bounded? `ProjectQuery`: is the answer that of a search in memory, does the query end? | see below | 170,462 |

`parts` checks three modules that share no state: one of them moves in a behaviour
and the others rest, so that its states are the sum of theirs.

Four runs end in a violation, of what a document says, by what the code does:

| Run | What is violated |
|---|---|
| `timeline_targets` (`TargetsMatchSearch`) | Jump targets belong to the search of the committed timeline. The timers of an edited search highlight the old view under the new search and register its hits. |
| `timeline_chase` (`ChaseAppends`) | `ensureEventLoaded` appends pages until the event is there. When the search was edited and its timeline is not committed, `loadTimeline` returns at once and the loop never yields. |
| `timeline_revision` (`ViewIsPrefix`) | Pages stay tied to a revision. When the index is replaced twice, the second attempt of a recovery changes the revision over the events of the first. |
| `project_resume` (`RefreshUnderWay`) | A refresh resumed after a reload of the page makes progress. When the list of sessions cannot be had just then, nothing polls the job and the controls stay locked. |

`browser_timeline` has one change of the revision and holds `ViewIsPrefix`, as
`timeline_revision`, with two, does not. Its liveness properties except a tab that
hangs in the loop of `timeline_chase` (`Spinning`), and `NavigationEnds` one whose
project has lost its last session: `loadSessions` then forgets the request on its
way and leaves the spinner on. `project_chooser` excuses, in the history variable
`excused`, a refresh stranded as in `project_resume`, a source that another tab
has changed and a source change of which both the answer and the look after it
were lost.

Why these bounds are enough to be interesting:

- Two revisions are what it takes for a retired owner's job to hold the slot
  while the live one queues. With three requests two can share a job while a
  third preempts, queues or is turned away. Three job identities allow one that
  was cancelled and still runs, one that waits, and the one being created. A
  queue limit of 1 (32 in the code) makes the busy answer happen.
- Five sessions of 1, 1, 2, 5 and 6 bytes in a cache of 5 bytes and 2 entries: two
  fill it by number with bytes to spare, one fills it by bytes, one is larger than
  it, and with 6 as the largest integer it renumbers all the time.
- Three jobs allow a cancelled build, its successor, and one that reuses the
  store of the one before.
- The four phrases overlap themselves, contain a space, exceed the context shown
  and fit into one part; texts of 8 characters (three of them) with parts of 3 put
  several cuts into a match. The context is 1 and 2.
- Two workers share three sessions of any of five shards: empty, of one or two
  pages, with ties, with rows that match but are not in the timeline.
- In the browser, three events in pages of one put the hits behind the first page,
  two to a batch and two to a preload, whose budget of three pages is then really
  spent; three acts allow a search, its edit while the answer is out, and a
  navigation or a change of session. Searches for an event append their pages, those
  of a navigation after a reload or a recovery took the event out of view. A new revision has one event more; the third
  puts it in front, so that offsets of the second are wrong.
- In the chooser, three acts or faults allow a selection, its cancellation and a
  lost answer, or a lost change of the source beside another tab's job. One
  repository is found under both sources, one under the first only. The six states
  at the start are every state a server can be in when a page is loaded, up to
  names. One retry (3 in the code) lets a poll fail once and pause at the second.

Each property of a run is shown to say something: for each there is a variant of
one definition, defined next to it and named a faulty variant, that changes it
as a plausible bug would and with which TLC finds the property violated.

### Fairness

`FairSpec` of `Materialization` assumes that microtasks run (`PumpTick`,
`Finalize`) and that a materializer settles (`Complete`): it reads finite files,
and there is no await in it that waits for another request. Nothing is assumed
of clients, of revisions, or of prewarming. Weak fairness suffices: once due,
these steps stay due until they happen. `SessionPrewarm` adds the loop's own
turns, that is timers and continuations. `ProjectIndex` assumes it of the steps
of a job; the observer of settled jobs that `main` passes returns at once.
`ProjectQuery` assumes that each worker proceeds, not that anything fails. The browser's modules assume that calls
are answered or fail, that timers fire and that jobs settle, and nothing of the
user or other tabs; in `BrowserTimeline` this is written out as `Due`, the weak
fairness of all steps of the tab that are not the user's.
A loop of a live revision is not claimed to end: requests may keep the scheduler
busy, and speculation is to give way.

## What is proved

The theorems hold for every value of the constants, of which nothing is assumed
but what each module's `ASSUME` states: sets of sessions, requests, jobs, roots or
sources of any size, any limits, sizes and numbers of revisions. The bounds of the
runs (numbers of revisions, jobs, acts) are constants like the others, so the
theorems hold however large they are. Three theorems about what is in view in the
browser are marked with the one hypothesis they need.

| Module | Theorem | Property |
|---|---|---|
| `Materialization_proofs` | `TypesCorrect` | `TypeOK`, checked by the proof only |
| | `TablesSound` | `JobTableSound` |
| | `WaitersSound` | `NoOrphanWaiter` |
| | `SpeculationSound` | `SpeculationYields` |
| | `RetirementSound` | `RetiredOwnerDrained` |
| | `CapacitySound` | `CapacityBounded` |
| | `QueueServed` | `NoStall` |
| | `SchedulerImplementsService` | `ImplementsService`: the refinement, step by step |
| | `PrewarmIsMaterialization` | `PrewarmSpec => Spec`: the scheduler's theorems hold beside the loops |
| | `LoopTypes` | `LoopTypeOK` |
| | `WakeupsKept` | `NoLostWakeup` |
| | `BudgetKept` | `SpeculationWithinBudget` (action property) |
| `SessionCache_proofs` | `CacheTypes` | `CacheTypeOK` |
| | `CacheWithinLimits` | `WithinLimits` |
| | `VictimsLeastRecent` | `EvictsLeastRecent` (action property) |
| | `VictimsNeeded` | `EvictsOnlyAsNeeded` (action property) |
| `ProjectIndex_proofs` | `TypesCorrect` | `TypeOK` |
| | `CommitExclusive` | `OneJobMayCommit` |
| | `StatusHonest` | `StatusPairsOwnIndex` |
| | `LiveStoreKept` | `LiveStoreOpen` |
| | `StoresAccounted` | `NoStoreLeaks` |
| | `SourcesAgree` | `SourceConsistent` |
| | `ClosedStoreUnseen` | `ClosedStoreNotPublished` |
| | `StatusFinal` | `StatusIsFinal` (action property) |
| `ProjectChooser_proofs` | `TabNeverStranded` | `NeverStranded` |
| | `TabSourceAgrees` | `SourceAgrees` |
| | `TabOpensOnlyWanted` | `OpensOnlyWanted` (action property) |
| `BrowserTimeline_proofs` | `TimelineInvHolds` | `TimelineInv`, the inductive invariant |
| | `FlagsOwnedHolds` | `FlagsOwned` |
| | `BatchDisciplineHolds` | `BatchDiscipline` |
| | `BudgetKeptHolds` | `BudgetKept` (action property) |
| | `TargetsNeverShrinkHolds` | `TargetsNeverShrink` (action property) |
| | `ViewInvHolds` | `ViewInv`, the inductive invariant of what is in view (if `Undisturbed`) |
| | `ViewIsPrefixHolds` | `ViewIsPrefix` (if `Undisturbed`) |
| | `ExhaustedMeansAllKnownHolds` | `ExhaustedMeansAllKnown` (if `Undisturbed`) |
| | `UndisturbedByOne` | `Undisturbed` holds of every behaviour with at most two revisions |
| `TextSearch_proofs` | `SearchInvariant` | `SearchInv`, the inductive invariant |
| | `SearchTypes` | `SearchTypeOK` |
| | `SearchExact` | `MatchExact` |
| | `WindowIsBounded` | `WindowBounded` |
| `ProjectQuery_proofs` | `QueryInvariant` | `QueryInv`, the inductive invariant |
| | `QueryExact` | `AnswerExact` |

`Materialization_proofs` holds the proofs about the scheduler, its refinement and
the prewarm loops. `FiniteSums_proofs` holds the lemmas about sums that three of
these modules use, and an induction over the naturals (`Induction`).

### The scheduler

None of these is inductive. The inductive invariant `IInv` consists of the types
(`Typed`, and `Surface` for the variables a pump does not touch), the numbering of
revisions (`Numbered`) and seven parts that relate the pieces of state:

- `Allocated`: a job object is in use as long as it is queued or active, and its
  status says which.
- `Serial`: the queue is totally ordered and at most one job is active.
- `Tabled`: what a table names is a job of that revision and session that will
  still settle.
- `Observing`: the converse. A job somebody waits for belongs to the live revision,
  *is* its session's entry and is not aborted; a job nobody waits for is active, and
  aborted unless it is finishing; the jobs of retired revisions are aborted. Without
  this part nothing says that a deletion under an identity test deletes the right
  entry, or that a late result cannot be cached beside a newer job.
- `Waited`: the waiters of the jobs are exactly the requests that wait.
- `Yielding`: a speculative job has no waiters but the prewarm loop, and runs only
  when nothing else is to do.
- `Drained`: a retired revision caches nothing, and the live one is not retired.

A consequence the proof makes visible: the queue never holds a job that `pump`
would have to discard. The tests for that in `pump` are a second line of defence.

For the queue, `QInv` adds three parts. `WellOrdered`: the order mentions queued
jobs only, and any jobs of the queue have a first one; so a pump that finds nothing
active either starts a job or leaves an empty queue, which is why no step that ends
in a pump can violate `NoStall`. `WithinLimit` is the bound itself: it is
inductive because `Observing` makes every queued job one of the live revision, so
that the limit of its owner, which is what `get` tests, is a limit of the
scheduler that all owners share. `NoStall` is the third.

The parts are operators of explicit arguments, so that they can be stated of a
state in the middle of an action. The proof follows the code: there is one lemma
for each thing the actions are put together from (a pump, a preemption, a waiter
joining, leaving or being settled, a job entering, completing, being retired),
each of which takes sound values to sound values; then one lemma per action; then
the induction. A pump, which seven actions end in, is reasoned about once.

### The refinement

Each step of the scheduler is a step of `MaterializationService` or leaves what
requests see as it is: the live revision, what is cached of it, and the requests.
The proof needs `IInv`, and `FutureEmpty`: nothing is cached for a revision that
is still to come, so that an `Install` maps to a service that knows nothing.
`Observing` is what makes a completion answer *everyone* who waits for the session
(`WaitersAre`): a second job with some of the waiters cannot exist. The initial
states are mapped, then every action, by the lemmas about settling and leaving
that the scheduler's own proof has.

### The prewarm loop

A loop does nothing to the scheduler but call `prewarm`, and every action of the
module is an action of `Materialization` with what it does to the loops, or leaves
its variables alone. This is `PrewarmIsMaterialization`; it makes `IInv` available.
The inductive invariant `PInv` adds three parts:

- `LoopInv`: the types of the loops, and that a loop between its awaits is at a
  candidate and has an attempt left.
- `NoLostWakeup` itself. It is inductive, but only beside `IInv`: a step after
  which the scheduler is idle must be one that ends in a pump.
- `Budgeted`: for a speculative job that may still be cached, what the cache of its
  revision holds *now* and its bytes keep to the budget. The loop tested that before
  the call; it stays true because a foreground entry can come only of a foreground
  job, which preempts the speculative one (`SpeculationSound`).

### The cache

`CacheInv` is the types, `WithinLimits`, `NumbersGivenOut` and `NumbersTellOrder`:
the numbers of any two entries differ, and in the direction in which the entries
were really used. The renumbering at the largest integer keeps the latter, and
with it the victims, which are picked by number, are the least recently used. For
the bytes, the total is the sum of the sizes of what is cached; admission adds
one, and each victim subtracts its own.

The sum is a fold of the community modules, whose induction principle takes an
operator and cannot be used here. `FiniteSums_proofs` proves what is needed by
the smallest counterexample instead: strict inclusion is well founded on finite
sets (a fact of the library), so a set of finite sets has a smallest member, and a
smallest set for which the fold has no value, or the sums of two parts do not add
up, is contradicted by removing one element.

### Jobs, sources and stores

The invariant of `ProjectIndex` rests on one idea: the job that may still commit
saw the index that is live, because whatever takes that index away cancels the job
as well. Its parts:

- `Numbered`, `Running`: the visible job is the newest; a job is running exactly
  until it is cancelled or settled, and only the newest runs, under the source that
  is selected.
- `Spilled`, `Live`, `Held`: which stores exist in which phase of a job; the store
  of the live index is open and committed; an open store is live or its job is not
  done and has not committed it. `Held` says more than `NoStoreLeaks` because the
  scope of a job that committed its store closes nothing: such a store is open
  only as long as it is live.
- `Reusing`: a running job's result is no store, its own finished one, or the live
  index's. Without it a commit could install a store closed meanwhile.
- `Counted`: revisions are counted by commits, source changes and the shutdown,
  which bounds `indexRevision`.
- `Searching`: a search of the live revision reads the live store and is not
  tainted; a search of a retired revision can never find it live again.
- `Discovering`: only a discovery under the present source may fill the cache.

### The tab and its server

`ChooserInv` consists of `ServerInv`, of `Controls` (what the tab's flags say about
the calls that are out), of `Agreeing` and of `Wanted`. `Controls` is stronger than
`NeverStranded` in every clause:

- `CallsTyped`, `Starting`: what each call may be answered; until the first answer
  a page has made only its first call.
- `Exclusive`: opening, refreshing, returning and changing the source exclude each
  other.
- `Asking`, `Observing`: opening is *one* request to start, or *one* observation
  that has one call out, or its timer, or is paused, and the observation is
  current. When none is on, no live call of one is out either; without this an
  answer could settle an observation begun later.
- `Returning`, `Switching`, `Refreshing`: likewise; and no list asked for before a
  switch is waited for during it.

`Agreeing` says that the tab, and every answer it may still hear, name the
server's source, unless the server has `Moved`: the change was made and the answer
that says so is on its way. `Wanted` ties the job a tab observes to the project
it opens, through the server's numbering of jobs: `JobFor` says of a number that it
is not from the future, and, if the server still has it, names the same project.

All parts are operators of a tab, a server and what is excused. A callback of the
tab is built from functions of these values, so there is one lemma for each:
given that the call it answers was live and is taken out, the tab it ends in
`Keeps` the invariant and `Opens` nothing but what was wanted. The lemmas before
that say what may change for a part to stand (`Same`, `Around`, `Closes`,
`Polls`, `Refreshes`).

To reason about `ProjectChooser` two things were made explicit in it: the guards
of its `CASE` expressions exclude each other, and `ChooserAssumption` says what the
server may be when a page is loaded (`ServerState`).

### The timeline of a tab

`TimelineInv` says of the tab, beside its types:

- `Placed`: in the scope of a session, targets are registered for what is searched
  now, and what is drawn is the committed timeline.
- `Loads`: in that scope the spinner is on exactly while a request is out, and that
  request's number is the latest. A request that outlives the scope has lost its
  number, so that its end leaves the spinner of a later one alone.
- `PendsOn`: a search is pending only for the batch that is out, made by the present
  invocation for the present key. This is what makes somebody end it.
- `Booked`: no key, nothing spent; no text, no targets.
- `Seeks`: a batch whose number is the latest goes on from where the view ends, and
  has spent no less than what is on record and no more than the budget.

A callback is a chain of functions, each of which leaves some of this for the next
one to restore. `Kept` is the invariant without `Seeks`, for the moment between the
end of a batch and the request after it; `Loose` is a tab whose request has ended
while those who await it have still to hear. With these there is one lemma for each
function of `TimelineView` and `BrowserTimeline`, and one for each action. What a
function does to the two action properties is carried along (`Targets`, `Budget`,
both in `Steps`), so that they need no second induction. The one action that
`BudgetKept` exempts is `AnswerState`, in which `applyAppState` forgets the preload.

`TimelineInv` does not speak of what is in view, and none of these four properties
depends on it: flags, budgets and targets are sound whatever the server answers.

`ViewIsPrefix` and `ExhaustedMeansAllKnown` do speak of it, and are not true of every
behaviour: `timeline_revision` shows an index that is replaced again during a
recovery, whose second attempt changes the tab's revision over the events of the
first. So they are proved under the hypothesis that this does not happen,

    Undisturbed == serverRev' # serverRev => tab.recovery.phase = "idle"

for any number of revisions; and `UndisturbedByOne` proves the hypothesis itself
where there are at most two, as in `browser_timeline`: a tab recovers only once it
has been answered at another revision than its own, so the one change is over. The
inductive invariant is `ViewInv`: `TimelineInv` and, of the tab and the server's
revision n,

- `Viewed`: what is in view is a beginning of the committed timeline at the tab's
  revision, and the total is that timeline's; nothing is in view without a context.
- `Recovers`: a tab that recovers and does not know n yet shows nothing and waits for
  the state of the application; when it goes on to the list, the session and the
  suggestions, its revision is n. This is the part a second change would break.
- `Exhaustive`: a search said to have no more hits has a registry of its own key and,
  if it is the search the preload was for, has every hit of the timeline in it.
- `Fits`: what the request that is out has brought so far goes on from where it began,
  in the timeline of its own key and revision, and only a request at the server's
  revision will be answered (`ok`). An append asked for what follows the view as it was then
  (`want`), whoever asked: a reader, a batch, a search for an event. So whether its answer is committed or dropped is
  for the code's checks to decide, and either is sound.

The lemmas have two layers. Functions that end requests or begin them leave the view
alone (`Quiet`), and may begin a request that goes on from it (`Calls`): this is
proved of each function once, and composed for the callbacks. Then there is one
lemma for each function that changes the view, and one (`...Sees`) for each action.

To reason about these modules some things were made explicit in them: the guards
of their `CASE` expressions exclude each other, a drill-down asks for a prefix of
the timeline it goes to, `ViewAssumption` and `BrowserAssumption` say that no
session is `NoSession`, that sizes are positive and that timelines are sequences.

### The text search

`MatchExact` is about data: for every phrase, every text and every way to cut it,
the machine reports what a search of the whole text does. `SearchInv` says how much
of the answer is known between two parts, in terms of `Whole`, the collapsed text so
far: the window is the end of it from `base` on; the matches counted are those a
search of `Whole` finds; `nextStart` is behind the last of them and, if more, at the
first position whose phrase would not have fit; the snippet is that of `Whole`
once it is complete; and `base` is as far on as what a later match or snippet may
still need allows. `WindowBounded` is a consequence of the last two.

The proof has three layers:

- Collapsing goes from left to right (`CollapseSteps`), and the collapsed text of
  two parts is that of the first, and of the second without its leading space
  where both meet in white space (`CollapseConcat`, `Joint`). This is what
  `endedInWhitespace` is for.
- The matches are found one after the other, each behind the one before: `Exec` is
  a recursive function over the positions, from the end. That it exists, its
  equation, and what holds of it at every position are proved backwards
  (`ExecExists`, `ExecUnfolds`, `Backwards`), from the smallest counterexample.
  `ExecExtends` is the heart: if more starts are added behind those known, the
  matches already found stand and the search goes on from behind the last one.
- Slices of the window are slices of the whole text (`SliceConcat`,
  `StartsOfEnd`, `SnippetOfEnd`), so a scan of the window with the next part finds
  what a search of the text would (`MatchesGoOn`).

`ScanKeeps` puts these together once, for a part and for the end of the text.
For the proof `MatchesIn` was split into `Starts`, `Following` and `Exec`.

### The project query

`AnswerExact` compares an answer put together by workers, page by page, with a
search of whole sessions in memory, for any project, any number of workers and any
files. `QueryInv` says what holds in between:

- `Holding`, of each worker: while it is at a session it has counted exactly the
  rows before its place (`Describes`): the matches and the latest of them, the rows
  in the timeline, or how often each file is named. Its place is in pages; the
  number of rows before it is `Done`.
- `Accounted`, `AllTaken`: every session below `nextIndex` has been delivered or is
  some worker's, and a worker stops only when all are taken. So when all workers
  are done nothing is missing: a session is lost only with its worker's failure,
  and then the query does not answer (`Settling`).
- `ResultsRight`: what was delivered is what a search in memory finds (`Right`).

The proof goes up from the data: the rows of the first pages are a beginning of the
rows of the session, and a row's number in its page, plus the rows of the pages
before, is its number in the session (`StartBegins`, `Place`); a visit takes what is
known of m rows to m + 1 (`VisitedDescribes`), and a page visited in one turn all its
rows (`PageDescribes`, by induction over the recursive function of `PageVisited`);
then one lemma for each step of a worker. When the query is answered, the sessions
in the results are those of the index; the latest match a worker kept is the one
`LatestMatch` chooses, as no two rows of a session have one number
(`LatestFound`); the order of the answer is strict and total, since no two matches
are of a session (`MatchesOrdered`), so the sorting has a result (`SortExists`),
which has every match once (`SeqOfSet`); and the sums over the workers' results are
those over the sessions (`TotalIsMentions`).

For the proof the sort is stated as a choice (`Sorted`), because the community
modules' one rests on `SortSeq`, of which the prover knows nothing, and the
rows of earlier pages are flattened instead of summed.

### Model-checked only

- Liveness: `PrewarmSettles`, `RetiredLoopEnds`, `StoresReleased`, `ControlsUnlock`,
  the ends of spinners, navigations, recoveries and queries, and
  `ImplementsFairService`, of which the safety part is proved. Fairness and
  `ENABLED` are out of the prover's reach.

Every invariant and every action property of a passing run is stated by a theorem.

## What is not modelled

- What a materialization computes: parsing of transcripts by the adapters. It is
  a step with an outcome.
- Metrics, observers, diagnostics, logs, JSON payloads and HTTP error bodies:
  no decision depends on them.
- A materializer that never settles. `retire` aborts it, and the adapters poll
  the signal; if one did not, no later revision could materialize anything.
- Failures of the file system when a store is removed. The code retries three
  times and leaves the rest to the exit handler.
- The work budget of `search-text-stream.js`, which decides only when it yields;
  the session list with a tool filter, which uses the pool and the scan of
  `ProjectQuery`; the format and checksums of pages.
- In the browser: project results, the analysis and navigation panes, folding
  rules, context reveal, reading positions, pagination intents, the change of the
  language, the life cycle of cards.
- Rendering, translations, the command line.

The greater part of the code is the adapters, the rendering and the translations:
pure transformations of data, which these modules abstract to their outcomes. The
share of lines that is modelled is therefore small; what is modelled is what has
a state that outlives a call.

## Plan

Done: `Materialization`, its service and refinement; `SessionCache`;
`ProjectIndex`; `SessionPrewarm`; `TextSearch`; `ProjectQuery`; `SearchBatch`,
`TimelineView` and `BrowserTimeline`; `ProjectChooser`; the proofs about all of them.

Left, in this order:

1. `SessionCache` as an implementation of the evictions `Materialization` allows.
2. The adapters' checks of a session against the index it was indexed in
   (`src/source-adapters.js`).
3. Pagination intents, reading positions and cards of the browser.
4. Pure algorithms: cache observation, terminal continuations, the raw owner budget.
