------------------------------ MODULE SearchBatch ------------------------------
(***************************************************************************)
(* The record that carries one series of timeline requests made to find    *)
(* search hits (src/src/browser/timeline-search-batch.js).  A batch begins *)
(* one attempt at a time, collects the pages the attempts bring, and is    *)
(* published at most once.  An event is a record that names itself (id),   *)
(* the key it was asked for under and the index revision it is of.         *)
(***************************************************************************)
EXTENDS Naturals, Sequences, FiniteSets

CONSTANTS PreloadMin,       \* SEARCH_TARGET_PRELOAD_MIN
          PreloadMaxPages,  \* SEARCH_TARGET_PRELOAD_MAX_PAGES
          HitsAt(_)         \* the events an expression hits

ASSUME BatchAssumption == PreloadMin \in Nat /\ PreloadMaxPages \in Nat

HitsIn(page) ==
  {page[n].id : n \in {m \in DOMAIN page : page[m].id \in HitsAt(page[m].key.expr)}}

Created(kind, direction, base, total, consumed, known) ==
  [kind |-> kind, direction |-> direction, base |-> base, total |-> total,
   consumed |-> consumed, known |-> known, hits |-> known, accepted |-> <<>>,
   active |-> FALSE]

LoadedOffset(b) == b.base + Len(b.accepted)

AtEnd(b) == LoadedOffset(b) >= b.total

EnoughTargets(b) == b.kind = "preload" /\ Cardinality(b.hits) >= PreloadMin

OutOfBudget(b) == b.kind = "preload" /\ b.consumed >= PreloadMaxPages

\* What beginTimelineSearchBatchAttempt declines to start.
Refused(b) == EnoughTargets(b) \/ AtEnd(b) \/ OutOfBudget(b)

Begun(b) ==
  [b EXCEPT !.active = TRUE,
            !.consumed = IF b.kind = "preload" THEN @ + 1 ELSE @]

Accepted(b, page, total) ==
  [b EXCEPT !.accepted = @ \o page, !.total = total,
            !.hits = @ \cup HitsIn(page), !.active = FALSE]

\* A faulty variant: only the end of the timeline stops a batch.
EagerContinues(b, page) == ~AtEnd(b)

\* acceptedPageDecision: does the batch go on after this page?
Continues(b, page) ==
  CASE b.kind = "preload" -> ~Refused(b)
    [] b.kind = "nav" -> /\ ~(b.direction = "forward" /\ HitsIn(page) # {})
                         /\ page # <<>> /\ ~AtEnd(b)
    [] b.kind = "loadMore" -> /\ HitsIn(page) \subseteq b.known
                              /\ page # <<>> /\ ~AtEnd(b)

\* decision.exhausted of a load-more batch
Exhausts(b, page) == b.kind = "loadMore" /\ HitsIn(page) \subseteq b.known /\ AtEnd(b)

Failed(b) == [b EXCEPT !.active = FALSE]

ContinuesAfterError(b) == b.kind = "preload" /\ ~Refused(b)

HasProgress(b) == b.accepted # <<>>

\* A faulty variant: the successor forgets the pages already spent.
ForgetfulSuccessor(b) ==
  Created("preload", b.direction, LoadedOffset(b), b.total, 0, b.hits)

\* takeTimelineSearchPreloadSuccessor: it inherits the budget and the targets
Successor(b) ==
  Created("preload", b.direction, LoadedOffset(b), b.total, b.consumed, b.hits)
================================================================================
