------------------------------ MODULE ProjectQuery ------------------------------
(***************************************************************************)
(* A query over all sessions of a project (src/src/session-query.js): the  *)
(* pool of workers of mapProjectQuerySessions, the scan of one shard of    *)
(* the query store page by page (scanDiskShard in project-query-disk.js)   *)
(* and the merging of what the workers found, while the client may leave,  *)
(* the revision may be retired or the store turn out to be damaged.        *)
(*                                                                         *)
(* The phase of a worker is what it awaits: "row" the search of one row's  *)
(* text, "tick" the tick after a page, "scanned" the end of the scan,      *)
(* "preview" the preview of the latest match.  A step of a worker is its   *)
(* turn from one await to the next.                                        *)
(***************************************************************************)
EXTENDS Integers, Sequences, FiniteSets, SequencesExt

CONSTANTS Concurrency,  \* PROJECT_QUERY_SCAN_CONCURRENCY
          Projects,     \* what may be indexed: sequences of shards, which are
                        \* sequences of pages, which are sequences of rows
          File,         \* the files rows name: numbers, in their order
          Limit         \* how many files are suggested

\* A row has a timestamp and files; it passes the structural filters or not,
\* and its text has the phrase or not.
Row == [time : Nat, fits : BOOLEAN, hit : BOOLEAN, files : SUBSET File]

ASSUME QueryAssumption ==
  /\ Concurrency \in Nat \ {0} /\ Limit \in Nat /\ File \subseteq Nat /\ IsFiniteSet(File)
  /\ Projects \subseteq Seq(Seq(Seq(Row)))

VARIABLES shards,    \* the eligible sessions of the index and their rows
          query,     \* a search by "text", by "structure" only, or for "files"
          nextIndex, \* the session that is taken next
          worker,    \* each worker: what it awaits and what it has found
          results,   \* results[i], once the worker that took i has delivered it
          outcome,   \* of Promise.all: "pending", "all", "error", then "answered"
          answer,    \* what the query resolves to
          aborted    \* the signal of the request, joined with its lease's

queryVars == <<shards, query, nextIndex, worker, results, outcome, answer, aborted>>

Worker == 1..Concurrency

NoMatch == [ordinal |-> 0, row |-> 0, time |-> 0]

Nothing == [f \in File |-> 0]

Fresh(phase, i) ==
  [phase |-> phase, session |-> i, page |-> 1, row |-> 1,
   ordinal |-> 0, count |-> 0, latest |-> NoMatch, files |-> Nothing]

Pages(w) == shards[w.session]

\* Rows are numbered through the pages of their shard.
RowNumber(w, n) == Len(FlattenSeq(SubSeq(Pages(w), 1, w.page - 1))) + n

(***************************************************************************)
(* What the visitors do with one row: 635-647 of a search, 832-843 of the  *)
(* suggestions.                                                            *)
(***************************************************************************)
Counted(w, row, at) ==
  [w EXCEPT !.count = @ + 1,
            !.latest = IF w.count = 0 \/ row.time >= @.time
                       THEN [ordinal |-> w.ordinal, row |-> at, time |-> row.time] ELSE @]

Mentioned(w, row) ==
  [w EXCEPT !.files = [f \in File |-> IF f \in row.files THEN @[f] + 1 ELSE @[f]]]

\* A faulty variant: the index in the timeline counts the hits.
VisitedHitsOnly(w, row, at) ==
  CASE query = "files" -> Mentioned(w, row)
    [] query # "files" /\ row.fits /\ (query = "text" => row.hit) ->
         [Counted(w, row, at) EXCEPT !.ordinal = @ + 1]
    [] OTHER -> w

\* The index in the timeline counts what passes the structural filters.
Visited(w, row, at) ==
  CASE query = "files" -> Mentioned(w, row)
    [] query # "files" /\ row.fits ->
         [(IF query = "text" => row.hit THEN Counted(w, row, at) ELSE w) EXCEPT !.ordinal = @ + 1]
    [] OTHER -> w

\* A page whose texts are not searched is visited in one turn.
PageVisited(w) ==
  LET page == Pages(w)[w.page]
      after[n \in 0..Len(page)] ==
        IF n = 0 THEN w ELSE Visited(after[n - 1], page[n], RowNumber(w, n))
  IN  after[Len(page)]

(***************************************************************************)
(* The scan of a shard (scanDiskShard).                                    *)
(***************************************************************************)
Failed(w) == [w EXCEPT !.phase = "failed"]

PageEnded(w) == [w EXCEPT !.phase = "tick", !.page = @ + 1, !.row = 1]

\* From the head of the loop over the pages to the next await.
AtPage(w) ==
  IF w.page > Len(Pages(w)) THEN [w EXCEPT !.phase = "scanned"]
  ELSE IF query = "text" /\ Pages(w)[w.page] # <<>> THEN [w EXCEPT !.phase = "row"]
  ELSE PageEnded(PageVisited(w))

\* The text of the row has been searched, and the next one is begun.
AfterRow(w) ==
  LET page == Pages(w)[w.page]
      seen == Visited(w, page[w.row], RowNumber(w, w.row))
  IN  CASE w.row = Len(page) -> PageEnded(seen)
        [] w.row < Len(page) /\ aborted -> Failed(seen)
        [] w.row < Len(page) /\ ~aborted -> [seen EXCEPT !.row = @ + 1]

\* A faulty variant: an aborted scan is left where it is.
AfterTickStuck(w) == IF aborted THEN w ELSE AtPage(w)

AfterTick(w) == IF aborted THEN Failed(w) ELSE AtPage(w)

(***************************************************************************)
(* The pool (mapProjectQuerySessions).                                     *)
(***************************************************************************)
\* The head of a worker's loop, where i is the next index, and the beginning
\* of the scan of session i.
Taken(i) ==
  CASE i > Len(shards) -> Fresh("done", 0)
    [] i <= Len(shards) /\ aborted -> Fresh("failed", 0)
    [] i <= Len(shards) /\ ~aborted -> AtPage(Fresh("scan", i))

\* Promise.all settles with the first failure, or when the last worker is done.
Settled(ws) ==
  CASE outcome # "pending" -> outcome
    [] outcome = "pending" /\ (\E w \in Worker : ws[w].phase = "failed") -> "error"
    [] outcome = "pending" /\ (\A w \in Worker : ws[w].phase = "done") -> "all"
    [] OTHER -> "pending"

Becomes(w, to) ==
  /\ worker' = [worker EXCEPT ![w] = to]
  /\ outcome' = Settled(worker')

Scans(w, to) ==
  Becomes(w, to) /\ UNCHANGED <<shards, query, nextIndex, results, answer, aborted>>

RowSearched(w) == worker[w].phase = "row" /\ Scans(w, AfterRow(worker[w]))

\* The search of a long text yields now and then, and hears of the abort.
RowAborted(w) == worker[w].phase = "row" /\ aborted /\ Scans(w, Failed(worker[w]))

Tick(w) == worker[w].phase = "tick" /\ Scans(w, AfterTick(worker[w]))

NeedsPreview(w) == query = "structure" /\ w.count > 0

\* A page, a text or the preview cannot be read: it is truncated, or the page
\* has another checksum than when it was written.  That of a page visited in
\* one turn is noticed here at the tick that ends the turn.
PageDamaged(w) ==
  /\ \/ worker[w].phase \in {"row", "tick"}
     \/ worker[w].phase = "scanned" /\ NeedsPreview(worker[w])
  /\ Scans(w, Failed(worker[w]))

\* readDiskPreview of the latest match
ReadPreview(w) ==
  /\ worker[w].phase = "scanned" /\ NeedsPreview(worker[w])
  /\ Scans(w, IF aborted THEN Failed(worker[w]) ELSE [worker[w] EXCEPT !.phase = "preview"])

Result(w) ==
  [session |-> w.session, count |-> w.count, latest |-> w.latest, files |-> w.files]

\* The visit of a session resolves, and its worker goes on to the next one.
Deliver(w) ==
  /\ \/ worker[w].phase = "scanned" /\ ~NeedsPreview(worker[w])
     \/ worker[w].phase = "preview"
  /\ results' = [i \in DOMAIN results \cup {worker[w].session} |->
                   IF i = worker[w].session THEN Result(worker[w]) ELSE results[i]]
  /\ Becomes(w, Taken(nextIndex))
  /\ nextIndex' = IF nextIndex <= Len(shards) /\ ~aborted THEN nextIndex + 1 ELSE nextIndex
  /\ UNCHANGED <<shards, query, answer, aborted>>

(***************************************************************************)
(* The answers (packedProjectSearchResult, projectFileSuggestions).        *)
(***************************************************************************)
\* The latest match first, then the one further on in its timeline.
MatchOrder(a, b) ==
  \/ a.latest.time > b.latest.time
  \/ /\ a.latest.time = b.latest.time
     /\ \/ a.latest.ordinal > b.latest.ordinal
        \/ a.latest.ordinal = b.latest.ordinal /\ a.session < b.session

FileOrder(a, b) == a.count > b.count \/ (a.count = b.count /\ a.file < b.file)

\* What Array.prototype.sort makes of the members of a set
Sorted(list, Order(_, _)) ==
  CHOOSE s \in SetToSeqs(list) : \A i, j \in DOMAIN s : i < j => Order(s[i], s[j])

FirstOf(s, n) == SubSeq(s, 1, IF Len(s) < n THEN Len(s) ELSE n)

Merged ==
  IF query = "files"
  THEN LET total(f) == MapThenSumSet(LAMBDA i : results[i].files[f], DOMAIN results)
       IN  FirstOf(Sorted({[file |-> f, count |-> total(f)] :
                             f \in {g \in File : total(g) > 0}}, FileOrder), Limit)
  ELSE Sorted({[session |-> results[i].session, count |-> results[i].count,
                latest |-> results[i].latest] :
                 i \in {j \in DOMAIN results : results[j].count > 0}}, MatchOrder)

Merge ==
  /\ outcome = "all"
  /\ outcome' = "answered" /\ answer' = Merged
  /\ UNCHANGED <<shards, query, nextIndex, worker, results, aborted>>

\* The client goes away, or the revision is retired.
Abort ==
  /\ ~aborted /\ aborted' = TRUE
  /\ UNCHANGED <<shards, query, nextIndex, worker, results, outcome, answer>>

\* The workers are called one after another, and each takes a session, before
\* anything else happens.
QueryInit ==
  /\ shards \in Projects /\ query \in {"text", "structure", "files"} /\ aborted = FALSE
  /\ worker = [w \in Worker |-> Taken(w)]
  /\ nextIndex = (IF Len(shards) < Concurrency THEN Len(shards) ELSE Concurrency) + 1
  /\ results = << >> /\ answer = << >>
  /\ outcome = IF shards = << >> THEN "all" ELSE "pending"

\* What a worker does of itself, and what may happen to it besides.
Proceeds(w) == RowSearched(w) \/ Tick(w) \/ ReadPreview(w) \/ Deliver(w)

WorkerStep(w) == Proceeds(w) \/ RowAborted(w) \/ PageDamaged(w)

QueryNext == (\E w \in Worker : WorkerStep(w)) \/ Merge \/ Abort

QuerySpec == QueryInit /\ [][QueryNext]_queryVars

\* Ticks come and texts are read: nothing a worker awaits depends on others.
\* That something cannot be read is not to be relied on.
FairQuerySpec == QuerySpec /\ WF_queryVars(Merge) /\ \A w \in Worker : WF_queryVars(Proceeds(w))

(***************************************************************************)
(* The same queries of an index that is in memory (projectSearchResult,    *)
(* latestMatchedEvent, residentFileSuggestions).                           *)
(***************************************************************************)
Rows(i) == FlattenSeq(shards[i])

\* The rows of session i that are in its timeline, and those that match.
InTimeline(i) == {n \in DOMAIN Rows(i) : Rows(i)[n].fits}

Matches(i) == {n \in InTimeline(i) : query = "text" => Rows(i)[n].hit}

LatestMatch(i) ==
  CHOOSE n \in Matches(i) : \A m \in Matches(i) :
    \/ Rows(i)[n].time > Rows(i)[m].time
    \/ Rows(i)[n].time = Rows(i)[m].time /\ n >= m

SearchResult(i) ==
  [session |-> i, count |-> Cardinality(Matches(i)),
   latest |-> [ordinal |-> Cardinality({m \in InTimeline(i) : m < LatestMatch(i)}),
               row |-> LatestMatch(i), time |-> Rows(i)[LatestMatch(i)].time]]

\* The rows of session i that name the file f, and how many do in all.
Mentioning(i, f) == {n \in DOMAIN Rows(i) : f \in Rows(i)[n].files}

Mentions(f) == MapThenSumSet(LAMBDA i : Cardinality(Mentioning(i, f)), DOMAIN shards)

(***************************************************************************)
(* Properties.                                                             *)
(***************************************************************************)
\* However the workers interleave, a query of the store answers what it would
\* answer of an index in memory: every session with a match, in the order of
\* the latest matches, with its number of matches and the place of the latest
\* one in its timeline; or the files mentioned most.
AnswerExact ==
  outcome = "answered" =>
    IF query = "files"
    THEN /\ Len(answer) = (LET n == Cardinality({f \in File : Mentions(f) > 0})
                           IN  IF n < Limit THEN n ELSE Limit)
         /\ \A k \in DOMAIN answer : answer[k].count = Mentions(answer[k].file)
         /\ \A k \in DOMAIN answer, f \in File :
              FileOrder([file |-> f, count |-> Mentions(f)], answer[k])
                => \E n \in 1..k - 1 : answer[n].file = f
    ELSE /\ Range(answer) = {SearchResult(i) : i \in {j \in DOMAIN shards : Matches(j) # {}}}
         /\ \A k \in 1..Len(answer) - 1 : MatchOrder(answer[k], answer[k + 1])

\* The query settles, and in the end none of its workers is left, not even
\* when another one's failure has settled it before.
QueryEnds ==
  <>(outcome \in {"answered", "error"} /\ \A w \in Worker : worker[w].phase \in {"done", "failed"})
================================================================================
