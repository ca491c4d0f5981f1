------------------------ MODULE BrowserTimeline_proofs ------------------------
(***************************************************************************)
(* Proofs about BrowserTimeline, for any sessions, expressions, timelines, *)
(* page sizes, budgets and numbers of revisions and acts.                  *)
(*                                                                         *)
(* What the tab's flags say is stated of a state record s, since callbacks *)
(* are put together from functions of such records, each of which leaves   *)
(* some of the flags to the next one.  The second half is about what is in *)
(* view, which is sound as long as no index replaces another during a      *)
(* recovery.                                                               *)
(***************************************************************************)
EXTENDS BrowserTimeline, TLAPS

-----------------------------------------------------------------------------
(* Types *)

Seekers == {"preload", "loadMore", "nav"}

SessionKeys == [scope : {"session"}, sess : Session, expr : Expr]

TabKeys == [scope : {"session", "project"}, sess : Session \cup {NoSession}, expr : Expr]

Contexts == SessionKeys \cup {NoKey}

Revs == 1..MaxRevision

Event == [key : SessionKeys, rev : Revs, id : Ids]

Batch == [kind : Seekers, direction : {"none", "forward", "reverse"}, base : Nat, total : Nat,
          consumed : Nat, known : SUBSET Ids, hits : SUBSET Ids, accepted : Seq(Event),
          active : BOOLEAN]

PageReq == [kind : {"replace", "append", "find", "prefix"}, who : {"user", "recovery"} \cup Chasers,
            key : SessionKeys, rev : Revs, ok : BOOLEAN, latest : BOOLEAN, want : Nat,
            got : Seq(Event)]

BatchReq == [kind : {"batch"}, who : Seekers, key : SessionKeys, rev : Revs, ok : BOOLEAN,
             latest : BOOLEAN, batch : Batch]

Requests == PageReq \cup BatchReq

Retry == [key : SessionKeys, kind : {"replace", "find", "prefix"}, want : Nat]

Preload == [key : TabKeys \cup {NoKey}, pages : Nat, pending : BOOLEAN, exhausted : BOOLEAN]

Registry == [key : TabKeys, owners : SUBSET Ids]

Navigation == [phase : {"idle", "wait", "look", "load", "after"}, key : TabKeys \cup {NoKey},
               queue : Nat]

Chase == [Chasers -> [phase : {"idle", "wait", "append", "spin"}, id : Ids \cup {0}]]

Suggestions == [who : {"none", "user", "recovery"}, since : Nat]

Recovery == [phase : {"idle", "state", "list", "select", "suggest", "failed"}, attempt : Nat,
             requested : BOOLEAN, waits : SUBSET {"timeline", "suggestions"},
             result : {"none", "stale", "committed", "declined"}, since : Nat]

TabState ==
  [scope : {"session", "project"}, sess : Session \cup {NoSession}, expr : Expr, rev : Revs,
   sessionsReady : BOOLEAN, tctx : Contexts, events : Seq(Event), total : Nat,
   loading : BOOLEAN, req : Requests \cup {NoReq}, retry : Retry \cup {NoRetry},
   inv : Seekers \cup {"none"}, preload : Preload, registry : Registry, surface : Contexts,
   nav : Navigation, timers : SUBSET {"find", "reload"}, highlight : TabKeys \cup {NoKey},
   chase : Chase, sugg : Suggestions, recovery : Recovery]

-----------------------------------------------------------------------------
(* The parts of the inductive invariant *)

\* What is drawn is the committed timeline, and only in the scope of a session,
\* where targets are registered for what is searched.
Placed(s) ==
  /\ s.scope = "session" => s.sess \in Session /\ s.registry.key = Key(s)
  /\ s.surface \in {NoKey, s.tctx}
  /\ s.scope = "project" => s.surface = NoKey

\* In the scope of a session the spinner is on while there is a request, and
\* its number is the latest; a request that outlives that scope has lost its number.
Loads(s) ==
  IF s.scope = "session"
  THEN IF s.loading THEN s.req # NoReq /\ s.req.latest ELSE s.req = NoReq
  ELSE s.req # NoReq => ~s.req.latest

\* A search that is pending is so for the batch r, which the current
\* invocation made, for what is searched now.
PendsOn(s, r) ==
  s.preload.pending =>
    /\ s.scope = "session"
    /\ s.preload.key = Key(s)
    /\ r \in BatchReq /\ r.who = s.inv /\ r.key = Key(s) /\ s.inv # "nav"

\* A budget without a key has not been used; without a text there are no targets.
Booked(s) ==
  /\ s.preload.key = NoKey => s.preload.pages = 0
  /\ s.registry.key.expr.text = NoText => s.registry.owners = {}

\* A batch whose number is the latest goes on from where the view ends; no
\* batch spends more than the budget, or less than what is on record.
Seeks(s) ==
  s.req \in BatchReq =>
    LET b == s.req.batch
    IN  /\ b.kind = s.req.who /\ b.active
        /\ s.req.latest => b.base = Offset(s) /\ ~AtEnd(b)
        /\ b.kind = "preload" =>
             /\ b.consumed <= PreloadMaxPages
             /\ s.preload.key = s.req.key => s.preload.pages <= b.consumed
             /\ s.preload.pending => s.preload.pages = b.consumed

\* All but what is said of a batch, which holds when the batch has ended.
Kept(s) ==
  s \in TabState /\ Placed(s) /\ Loads(s) /\ PendsOn(s, s.req) /\ Booked(s)

TabInv(s) == Kept(s) /\ Seeks(s)

TimelineInv == TabInv(tab) /\ serverRev \in Revs /\ acts \in Nat

-----------------------------------------------------------------------------
(* Steps within a callback, from s to u *)

\* What is shown and what is searched stays.
Calm(s, u) ==
  /\ u.scope = s.scope /\ u.sess = s.sess /\ u.expr = s.expr
  /\ u.registry = s.registry /\ u.events = s.events /\ u.tctx = s.tctx
  /\ u.surface = s.surface /\ u.sessionsReady = s.sessionsReady /\ u.rev = s.rev

\* What was spent stays spent.
Frozen(s, u) == u.preload.key = s.preload.key /\ u.preload.pages = s.preload.pages

Spends(s, u) ==
  \/ u.preload.key = s.preload.key /\ s.preload.pages <= u.preload.pages
  \/ u.preload.key # s.preload.key /\ u.preload.key = Key(u)

\* Targets stay, as long as the registry is for the same search.
Grows(s, u) ==
  \/ u.registry.key = s.registry.key /\ s.registry.owners \subseteq u.registry.owners
  \/ u.registry.key # s.registry.key /\ u.registry.key = Key(u)

\* All that the invariant is about stays.
SameCore(s, u) ==
  /\ Calm(s, u)
  /\ u.loading = s.loading /\ u.req = s.req /\ u.inv = s.inv /\ u.preload = s.preload

Goes(s, u) ==
  /\ TabInv(u) /\ Calm(s, u) /\ Spends(s, u)
  /\ ~Ready(s) => Frozen(s, u)

-----------------------------------------------------------------------------
(* Facts about records *)

LEMMA Numbers ==
  /\ MaxRevision \in Nat \ {0} /\ PageSize \in Nat \ {0} /\ Chunk \in Nat \ {0}
  /\ PreloadMin \in Nat /\ PreloadMaxPages \in Nat
  /\ NoSession \notin Session
  /\ 1 \in Revs
BY BrowserAssumption, ViewAssumption, BatchAssumption DEF Revs

LEMMA RegistryTyped ==
  ASSUME NEW s \in TabState, NEW v \in Registry
  PROVE  [s EXCEPT !.registry = v] \in TabState
BY DEF TabState

LEMMA RequestInTab ==
  ASSUME NEW s \in TabState, NEW r \in Requests
  PROVE  [s EXCEPT !.req = r] \in TabState
<1>1. r \in Requests \cup {NoReq}
  OBVIOUS
<1> QED
  BY <1>1 DEF TabState

LEMMA ScopeTyped ==
  ASSUME NEW s \in TabState
  PROVE  [s EXCEPT !.scope = "project"] \in TabState
BY DEF TabState

LEMMA SuggestionsSame ==
  ASSUME NEW s \in TabState, NEW v
  PROVE  /\ [s EXCEPT !.recovery = v] = [s EXCEPT !.recovery = v, !.sugg = s.sugg]
         /\ s.sugg \in Suggestions
BY DEF TabState

LEMMA LeavingSame ==
  ASSUME NEW s \in TabState
  PROVE  [ReplacementBegun(s) EXCEPT
            !.req = NoReq, !.loading = FALSE, !.surface = NoKey, !.preload = NoPreload]
         = [s EXCEPT !.retry = NoRetry, !.inv = "none", !.preload = NoPreload,
                     !.req = NoReq, !.loading = FALSE, !.surface = NoKey]
BY DEF ReplacementBegun, TabState

LEMMA KeyTyped ==
  ASSUME NEW s \in TabState
  PROVE  /\ Key(s) \in TabKeys /\ Key(s) # NoKey
         /\ s.scope = "session" /\ s.sess \in Session => Key(s) \in SessionKeys
         /\ Key(s) \in SessionKeys => s.scope = "session" /\ s.sess \in Session
         /\ Key(s) \in Contexts => Key(s) \in SessionKeys
         /\ Offset(s) \in Nat
<1>1. /\ s.scope \in {"session", "project"} /\ s.sess \in Session \cup {NoSession}
      /\ s.expr \in Expr
  BY DEF TabState
<1>2. Key(s) = [scope |-> s.scope, sess |-> s.sess, expr |-> s.expr]
  BY DEF Key
<1>3. NoKey.scope = "none"
  BY DEF NoKey
<1>4. Key(s) \in TabKeys
  BY <1>1, <1>2 DEF TabKeys
<1>5. Key(s).scope = s.scope /\ Key(s).sess = s.sess /\ Key(s).expr = s.expr
  BY <1>2
<1>6. Key(s) # NoKey
  BY <1>1, <1>3, <1>5
<1>7. s.scope = "session" /\ s.sess \in Session => Key(s) \in SessionKeys
  BY <1>1, <1>2 DEF SessionKeys
<1>8. Key(s) \in SessionKeys => s.scope = "session" /\ s.sess \in Session
  BY <1>5 DEF SessionKeys
<1>9. Offset(s) \in Nat
  BY DEF Offset, TabState
<1> QED
  BY <1>4, <1>6, <1>7, <1>8, <1>9 DEF Contexts

LEMMA KeySame ==
  ASSUME NEW s, NEW u, u.scope = s.scope, u.sess = s.sess, u.expr = s.expr
  PROVE  Key(u) = Key(s)
BY DEF Key

\* The kinds of requests differ.
LEMMA RequestKinds ==
  /\ NoReq \notin Requests
  /\ \A r \in PageReq : r \notin BatchReq /\ r.kind # "batch"
  /\ \A r \in BatchReq : r.kind = "batch"
  /\ \A r \in PageReq : r.who \notin Seekers
<1>1. NoReq.kind = "none"
  BY DEF NoReq
<1> QED
  BY <1>1 DEF Requests, PageReq, BatchReq, Seekers, Chasers

LEMMA CalmKey ==
  ASSUME NEW s, NEW u, Calm(s, u)
  PROVE  Key(u) = Key(s) /\ (Ready(u) <=> Ready(s)) /\ Offset(u) = Offset(s)
BY DEF Calm, Key, Ready, Offset

LEMMA CalmTrans ==
  ASSUME NEW s, NEW t, NEW u, Calm(s, t), Calm(t, u)
  PROVE  Calm(s, u)
BY DEF Calm

LEMMA SpendsTrans ==
  ASSUME NEW s \in TabState, NEW t \in TabState, NEW u \in TabState,
         Spends(s, t), Spends(t, u), Calm(t, u)
  PROVE  Spends(s, u)
<1>1. Key(u) = Key(t)
  BY CalmKey
<1>2. s.preload.pages \in Nat /\ t.preload.pages \in Nat /\ u.preload.pages \in Nat
  BY DEF TabState, Preload
<1> QED
  BY <1>1, <1>2 DEF Spends

LEMMA GoesTrans ==
  ASSUME NEW s \in TabState, NEW t \in TabState, NEW u,
         Calm(s, t), Spends(s, t), ~Ready(s) => Frozen(s, t), Goes(t, u)
  PROVE  Goes(s, u)
<1>1. TabInv(u) /\ Calm(t, u) /\ Spends(t, u) /\ (~Ready(t) => Frozen(t, u))
  BY DEF Goes
<1>2. u \in TabState
  BY <1>1 DEF TabInv, Kept
<1>3. Calm(s, u)
  BY <1>1, CalmTrans
<1>4. Spends(s, u)
  BY <1>1, <1>2, SpendsTrans
<1>5. Ready(t) <=> Ready(s)
  BY CalmKey
<1>6. ~Ready(s) => Frozen(s, u)
  BY <1>1, <1>5 DEF Frozen
<1> QED
  BY <1>1, <1>3, <1>4, <1>6 DEF Goes

\* What the invariant is not about may change.
LEMMA CoreKept ==
  ASSUME NEW s, NEW u \in TabState, TabInv(s), SameCore(s, u)
  PROVE  Goes(s, u) /\ Frozen(s, u)
<1>1. Key(u) = Key(s) /\ Offset(u) = Offset(s)
  BY CalmKey DEF SameCore
<1>2. Placed(u) /\ Loads(u) /\ Booked(u)
  BY <1>1 DEF TabInv, Kept, SameCore, Calm, Placed, Loads, Booked
<1>3. PendsOn(u, u.req)
  BY <1>1 DEF TabInv, Kept, SameCore, Calm, PendsOn
<1>4. Seeks(u)
  BY <1>1 DEF TabInv, SameCore, Seeks
<1>5. Spends(s, u) /\ Frozen(s, u)
  <2>1. s.preload.pages \in Nat
    BY DEF TabInv, Kept, TabState, Preload
  <2> QED
    BY <2>1 DEF SameCore, Spends, Frozen
<1> QED
  BY <1>2, <1>3, <1>4, <1>5 DEF Goes, TabInv, Kept, SameCore

-----------------------------------------------------------------------------
(* Batches *)

\* A batch begins.
LEMMA BegunTyped ==
  ASSUME NEW b \in Batch
  PROVE  /\ Begun(b) \in Batch /\ Begun(b).active
         /\ Begun(b).kind = b.kind /\ Begun(b).base = b.base /\ Begun(b).total = b.total
         /\ Begun(b).accepted = b.accepted
         /\ Begun(b).consumed = IF b.kind = "preload" THEN b.consumed + 1 ELSE b.consumed
<1>1. PICK n : n = IF b.kind = "preload" THEN b.consumed + 1 ELSE b.consumed
  OBVIOUS
<1>2. b.consumed \in Nat
  BY DEF Batch
<1>3. n \in Nat
  BY <1>1, <1>2
<1>4. Begun(b) = [b EXCEPT !.active = TRUE, !.consumed = n]
  BY <1>1 DEF Begun, Batch
<1>5. PICK c : c = Begun(b)
  OBVIOUS
<1>6. c \in Batch
  BY <1>3, <1>4, <1>5 DEF Batch
<1>7. /\ c.active /\ c.kind = b.kind /\ c.base = b.base /\ c.total = b.total
      /\ c.accepted = b.accepted /\ c.consumed = n
  BY <1>4, <1>5 DEF Batch
<1> QED
  BY <1>1, <1>5, <1>6, <1>7

LEMMA CreatedTyped ==
  ASSUME NEW kind \in Seekers, NEW direction \in {"none", "forward", "reverse"},
         NEW base \in Nat, NEW total \in Nat, NEW consumed \in Nat, NEW known \in SUBSET Ids,
         NEW b, b = Created(kind, direction, base, total, consumed, known)
  PROVE  /\ b \in Batch
         /\ b.kind = kind /\ b.base = base /\ b.total = total /\ b.consumed = consumed
         /\ b.accepted = <<>>
BY DEF Created, Batch

LEMMA NotAtEnd ==
  ASSUME NEW b \in Batch
  PROVE  ~AtEnd(b) <=> b.base + Len(b.accepted) < b.total
<1>1. b.base \in Nat /\ b.total \in Nat /\ Len(b.accepted) \in Nat
  BY DEF Batch
<1> QED
  BY <1>1 DEF AtEnd, LoadedOffset

LEMMA BatchRequestTyped ==
  ASSUME NEW s \in TabState, Key(s) \in SessionKeys, NEW who \in Seekers,
         NEW direction \in {"none", "forward", "reverse"}, NEW rev \in Revs,
         Offset(s) < s.total,
         NEW r, r = BatchRequest(s, who, direction, rev)
  PROVE  /\ r \in BatchReq /\ r.who = who /\ r.key = Key(s) /\ r.latest
         /\ r.batch.kind = who /\ r.batch.active /\ r.batch.base = Offset(s)
         /\ ~AtEnd(r.batch)
         /\ who = "preload" => r.batch.consumed = s.preload.pages + 1
<1>1. /\ s.rev \in Revs /\ s.total \in Nat /\ s.preload.pages \in Nat
      /\ s.registry.owners \in SUBSET Ids
  BY DEF TabState, Preload, Registry
<1>2. Offset(s) \in Nat
  BY KeyTyped
<1>3. PICK n : n = IF who = "preload" THEN s.preload.pages ELSE 0
  OBVIOUS
<1>4. n \in Nat
  BY <1>1, <1>3
<1>5. PICK b : b = Created(who, direction, Offset(s), s.total, n, s.registry.owners)
  OBVIOUS
<1>6. /\ b \in Batch /\ b.kind = who /\ b.base = Offset(s) /\ b.total = s.total
      /\ b.consumed = n /\ b.accepted = <<>>
  BY <1>1, <1>2, <1>4, <1>5, CreatedTyped
<1>7. PICK c : c = Begun(b)
  OBVIOUS
<1>8. /\ c \in Batch /\ c.active /\ c.kind = who /\ c.base = Offset(s) /\ c.total = s.total
      /\ c.accepted = <<>> /\ c.consumed = IF who = "preload" THEN n + 1 ELSE n
  BY <1>6, <1>7, BegunTyped
<1>9. ~AtEnd(c)
  <2>1. Len(<<>>) = 0
    OBVIOUS
  <2> QED
    BY <1>1, <1>2, <1>8, <2>1, NotAtEnd
<1>10. r = [kind |-> "batch", who |-> who, key |-> Key(s), rev |-> s.rev,
            ok |-> s.rev = rev, latest |-> TRUE, batch |-> c]
  BY <1>3, <1>5, <1>7 DEF BatchRequest
<1>11. r \in BatchReq
  BY <1>1, <1>8, <1>10 DEF BatchReq
<1>12. r.who = who /\ r.key = Key(s) /\ r.latest /\ r.batch = c
  BY <1>10
<1> QED
  BY <1>3, <1>8, <1>9, <1>11, <1>12

\* A tab with a request on its way, and what has been spent
Spending(s, r, p) == [s EXCEPT !.req = r, !.loading = TRUE, !.preload = p]

LEMMA SpendingTyped ==
  ASSUME NEW s \in TabState, NEW r \in Requests, NEW p \in Preload
  PROVE  Spending(s, r, p) \in TabState
<1>1. r \in Requests \cup {NoReq}
  OBVIOUS
<1> QED
  BY <1>1 DEF TabState, Spending

\* A batch starts where the view ends.
LEMMA BatchStarts ==
  ASSUME NEW s \in TabState, Placed(s), Booked(s), Key(s) \in SessionKeys,
         NEW who \in Seekers, NEW direction \in {"none", "forward", "reverse"}, NEW rev \in Revs,
         Offset(s) < s.total,
         s.preload.pending => s.preload.key = Key(s) /\ s.inv = who /\ who # "nav",
         who = "preload" => s.preload.key = Key(s) /\ s.preload.pages < PreloadMaxPages,
         NEW u, u = BatchStarted(s, who, direction, rev)
  PROVE  /\ TabInv(u) /\ Calm(s, u) /\ u.preload.key = s.preload.key
         /\ s.preload.pages <= u.preload.pages
         /\ u.loading /\ u.inv = s.inv
<1>1. PICK r : r = BatchRequest(s, who, direction, rev)
  OBVIOUS
<1>2. /\ r \in BatchReq /\ r.who = who /\ r.key = Key(s) /\ r.latest
      /\ r.batch.kind = who /\ r.batch.active /\ r.batch.base = Offset(s)
      /\ ~AtEnd(r.batch)
      /\ who = "preload" => r.batch.consumed = s.preload.pages + 1
  BY <1>1, BatchRequestTyped
<1>3. s.preload \in Preload /\ s.preload.pages \in Nat
  BY DEF TabState, Preload
<1>4. PICK n : n = IF who = "preload" THEN r.batch.consumed ELSE s.preload.pages
  OBVIOUS
<1>5. n \in Nat /\ s.preload.pages <= n /\ (who = "preload" => n = s.preload.pages + 1)
  BY <1>2, <1>3, <1>4
<1>6. PICK p : p = [s.preload EXCEPT !.pages = n]
  OBVIOUS
<1>7. /\ p \in Preload /\ p.key = s.preload.key /\ p.pages = n
      /\ p.pending = s.preload.pending
  BY <1>3, <1>5, <1>6 DEF Preload
<1>8. u = [s EXCEPT !.req = r, !.loading = TRUE, !.preload = p]
  <2>1. who = "preload" => u = [s EXCEPT !.req = r, !.loading = TRUE,
                                         !.preload.pages = r.batch.consumed]
    BY <1>1 DEF BatchStarted
  <2>2. who # "preload" => u = [s EXCEPT !.req = r, !.loading = TRUE,
                                         !.preload.pages = @]
    BY <1>1 DEF BatchStarted
  <2> QED
    BY <1>4, <1>6, <2>1, <2>2 DEF TabState
<1>9. u \in TabState
  <2>1. r \in Requests
    BY <1>2 DEF Requests
  <2>2. p \in Preload
    BY <1>7
  <2>3. u = Spending(s, r, p)
    BY <1>8 DEF Spending
  <2> QED
    BY <2>1, <2>2, <2>3, SpendingTyped
<1>10. /\ Calm(s, u) /\ u.req = r /\ u.loading /\ u.preload = p /\ u.inv = s.inv
  BY <1>8 DEF TabState, Calm
<1>11. Key(u) = Key(s) /\ Offset(u) = Offset(s)
  BY <1>10, CalmKey
<1>12. s.scope = "session"
  BY KeyTyped
<1>13. Placed(u) /\ Booked(u)
  <2>1. Placed(u)
    BY <1>10, <1>11 DEF Placed, Calm
  <2>2. p.key = NoKey => p.pages = 0
    BY <1>4, <1>7, KeyTyped DEF Booked
  <2> QED
    BY <1>10, <2>1, <2>2 DEF Booked, Calm
<1>14. Loads(u)
  <2>1. r # NoReq
    BY <1>2, RequestKinds DEF Requests
  <2> QED
    BY <1>2, <1>10, <1>12, <2>1 DEF Loads, Calm
<1>15. PendsOn(u, u.req)
  BY <1>2, <1>7, <1>10, <1>11, <1>12 DEF PendsOn, Calm
<1>16. Seeks(u)
  <2>1. who = "preload" => r.batch.consumed <= PreloadMaxPages /\ p.pages = r.batch.consumed
                           /\ p.pages <= r.batch.consumed
    BY <1>2, <1>3, <1>5, <1>7, Numbers
  <2> QED
    BY <1>2, <1>10, <1>11, <2>1 DEF Seeks
<1> QED
  BY <1>5, <1>7, <1>9, <1>10, <1>13, <1>14, <1>15, <1>16 DEF TabInv, Kept

LEMMA MaybePreloadKeeps ==
  ASSUME NEW s, TabInv(s), NEW rev \in Revs,
         NEW u, u = MaybePreload(s, rev)
  PROVE  Goes(s, u) /\ (s.loading => u = s)
<1>1. s \in TabState /\ Placed(s) /\ Booked(s)
  BY DEF TabInv, Kept
<1>2. CASE ~(WantsPreload(s) /\ PreloadPages(s) < PreloadMaxPages)
  <2>1. u = s
    BY <1>2 DEF MaybePreload
  <2>2. Goes(s, u)
    BY <1>1, <2>1, CoreKept DEF SameCore, Calm
  <2> QED
    BY <2>1, <2>2
<1>3. CASE WantsPreload(s) /\ PreloadPages(s) < PreloadMaxPages
  <2>1. s.sess # NoSession /\ Ready(s) /\ Offset(s) < s.total /\ ~s.loading
        /\ ~s.preload.pending
    BY <1>3 DEF WantsPreload
  <2>2. s.scope = "session"
    BY <2>1 DEF Ready
  <2>3. Key(s) \in SessionKeys /\ Key(s) \in TabKeys /\ Key(s) # NoKey
    BY <1>1, <2>2, KeyTyped DEF Placed
  <2>4. PICK p : p = IF s.preload.key = Key(s) THEN s.preload
                     ELSE [NoPreload EXCEPT !.key = Key(s)]
    OBVIOUS
  <2>5. s.preload \in Preload
    BY <1>1 DEF TabState
  <2>6. /\ p \in Preload /\ p.key = Key(s) /\ p.pages = PreloadPages(s)
        /\ p.pages \in Nat
    BY <2>3, <2>4, <2>5 DEF Preload, NoPreload, PreloadPages
  <2>7. PICK q : q = [p EXCEPT !.pending = TRUE]
    OBVIOUS
  <2>8. q \in Preload /\ q.key = Key(s) /\ q.pages = p.pages
    BY <2>6, <2>7 DEF Preload
  <2>9. PICK t : t = [s EXCEPT !.inv = "preload", !.preload = q]
    OBVIOUS
  <2>10. u = BatchStarted(t, "preload", "none", rev)
    BY <1>3, <2>4, <2>7, <2>9 DEF MaybePreload
  <2>11. t \in TabState
    BY <1>1, <2>8, <2>9 DEF TabState, Seekers
  <2>12. Calm(s, t) /\ t.inv = "preload" /\ t.preload = q /\ t.total = s.total
    BY <1>1, <2>9 DEF TabState, Calm
  <2>13. Key(t) = Key(s) /\ Offset(t) = Offset(s)
    BY <2>12, CalmKey
  <2>14. Placed(t) /\ Booked(t)
    BY <1>1, <2>3, <2>8, <2>12, <2>13 DEF Placed, Booked, Calm
  <2>15. t.preload.key = Key(t) /\ t.preload.pages < PreloadMaxPages
    BY <1>3, <2>6, <2>8, <2>12, <2>13
  <2>16. Key(t) \in SessionKeys /\ Offset(t) < t.total
    BY <2>1, <2>3, <2>12, <2>13
  <2>17. "preload" \in Seekers
    BY DEF Seekers
  <2>18. /\ TabInv(u) /\ Calm(t, u) /\ u.preload.key = t.preload.key
         /\ t.preload.pages <= u.preload.pages
    BY <2>10, <2>11, <2>12, <2>14, <2>15, <2>16, <2>17, BatchStarts
  <2>19. Calm(s, u) /\ Key(u) = Key(s)
    BY <2>12, <2>13, <2>18, CalmTrans, CalmKey
  <2>20. Spends(s, u)
    <3>1. s.preload.key = Key(s) => s.preload.pages = q.pages
      BY <2>6, <2>8 DEF PreloadPages
    <3> QED
      BY <2>8, <2>12, <2>18, <2>19, <3>1 DEF Spends
  <2> QED
    BY <2>1, <2>18, <2>19, <2>20 DEF Goes
<1> QED
  BY <1>2, <1>3

-----------------------------------------------------------------------------
(* Those who await a request *)

\* A step within a callback; a tab that is loading begins nothing.
Moves(s, u) == Goes(s, u) /\ (s.loading => Frozen(s, u))

LEMMA GoesChain ==
  ASSUME NEW s \in TabState, NEW t, NEW u, Goes(s, t), Goes(t, u)
  PROVE  Goes(s, u)
<1>1. t \in TabState /\ Calm(s, t) /\ Spends(s, t) /\ (~Ready(s) => Frozen(s, t))
  BY DEF Goes, TabInv, Kept
<1> QED
  BY <1>1, GoesTrans

LEMMA MaybePreloadMoves ==
  ASSUME NEW s, TabInv(s), NEW rev \in Revs, NEW u, u = MaybePreload(s, rev)
  PROVE  Moves(s, u)
<1>1. Goes(s, u) /\ (s.loading => u = s)
  BY MaybePreloadKeeps
<1> QED
  BY <1>1 DEF Moves, Frozen

LEMMA CoreMoves ==
  ASSUME NEW s, NEW u \in TabState, TabInv(s), SameCore(s, u)
  PROVE  Moves(s, u)
<1>1. Goes(s, u) /\ Frozen(s, u)
  BY CoreKept
<1> QED
  BY <1>1 DEF Moves

LEMMA CoreThenMoves ==
  ASSUME NEW s, NEW t \in TabState, NEW u, TabInv(s), SameCore(s, t), Moves(t, u)
  PROVE  Moves(s, u)
<1>1. Goes(s, t) /\ Frozen(s, t)
  BY CoreKept
<1>2. s \in TabState
  BY DEF TabInv, Kept
<1>3. Goes(t, u) /\ (t.loading => Frozen(t, u))
  BY DEF Moves
<1>4. Goes(s, u)
  BY <1>1, <1>2, <1>3, GoesChain
<1>5. s.loading => Frozen(s, u)
  BY <1>1, <1>3 DEF SameCore, Frozen
<1> QED
  BY <1>4, <1>5 DEF Moves

LEMMA NavEndedMoves ==
  ASSUME NEW s, TabInv(s), NEW rev \in Revs, NEW u, u = NavEnded(s, rev)
  PROVE  Moves(s, u)
<1>1. s \in TabState /\ s.nav \in Navigation /\ s.nav.queue \in Nat
  BY DEF TabInv, Kept, TabState, Navigation
<1>2. Key(s) \in TabKeys
  BY <1>1, KeyTyped
<1>3. CASE s.nav.queue > 0
  <2>0. PICK q : q = s.nav.queue - 1
    OBVIOUS
  <2>1. PICK n : n = [s.nav EXCEPT !.queue = q, !.phase = "wait", !.key = Key(s)]
    OBVIOUS
  <2>2. n \in Navigation
    <3>1. q \in Nat
      BY <1>1, <1>3, <2>0
    <3> QED
      BY <1>1, <1>2, <2>1, <3>1 DEF Navigation
  <2>3. u = [s EXCEPT !.nav = n]
    BY <1>1, <1>3, <2>0, <2>1 DEF NavEnded, TabState, Navigation
  <2>4. u \in TabState
    BY <1>1, <2>2, <2>3 DEF TabState
  <2>5. SameCore(s, u)
    BY <1>1, <2>3 DEF TabState, SameCore, Calm
  <2> QED
    BY <2>4, <2>5, CoreMoves
<1>4. CASE ~(s.nav.queue > 0)
  <2>1. PICK n : n = [s.nav EXCEPT !.phase = "idle", !.key = NoKey]
    OBVIOUS
  <2>2. n \in Navigation
    BY <1>1, <2>1 DEF Navigation
  <2>3. PICK t : t = [s EXCEPT !.nav = n]
    OBVIOUS
  <2>4. u = MaybePreload(t, rev)
    BY <1>1, <1>4, <2>1, <2>3 DEF NavEnded, TabState
  <2>5. t \in TabState /\ SameCore(s, t)
    BY <1>1, <2>2, <2>3 DEF TabState, SameCore, Calm
  <2>6. TabInv(t)
    BY <2>5, CoreKept DEF Goes
  <2>7. Moves(t, u)
    BY <2>4, <2>6, MaybePreloadMoves
  <2> QED
    BY <2>5, <2>7, CoreThenMoves
<1> QED
  BY <1>3, <1>4

LEMMA RequestTyped ==
  ASSUME NEW s \in TabState, Key(s) \in SessionKeys,
         NEW kind \in {"replace", "append", "find", "prefix"},
         NEW who \in {"user", "recovery"} \cup Chasers, NEW rev, NEW want \in Nat,
         NEW r, r = Request(s, kind, who, rev, want)
  PROVE  r \in PageReq /\ r.kind = kind /\ r.who = who /\ r.key = Key(s) /\ r.latest
<1>1. s.rev \in Revs /\ <<>> \in Seq(Event)
  BY DEF TabState
<1> QED
  BY <1>1 DEF Request, PageReq

\* A tab with a request on its way
Asked(s, r) == [s EXCEPT !.req = r, !.loading = TRUE]

\* The tab asks for pages, and has nothing pending.
LEMMA PageAsked ==
  ASSUME NEW s \in TabState, Placed(s), Booked(s), ~s.preload.pending, s.scope = "session",
         NEW r \in PageReq, r.latest,
         NEW u, u = Asked(s, r)
  PROVE  /\ TabInv(u) /\ Calm(s, u) /\ u.preload = s.preload /\ u.loading
         /\ u.req = r /\ u.inv = s.inv
<1>1. r \in Requests /\ r # NoReq /\ r \notin BatchReq
  BY RequestKinds DEF Requests
<1>2. u \in TabState
  BY <1>1 DEF TabState, Asked
<1>3. /\ Calm(s, u) /\ u.preload = s.preload /\ u.loading /\ u.req = r /\ u.inv = s.inv
  BY DEF TabState, Calm, Asked
<1>4. Key(u) = Key(s)
  BY <1>3, CalmKey
<1>5. Placed(u) /\ Booked(u)
  BY <1>3, <1>4 DEF Placed, Booked, Calm
<1>6. Loads(u)
  BY <1>1, <1>3 DEF Loads, Calm
<1>7. PendsOn(u, u.req)
  BY <1>3 DEF PendsOn
<1>8. Seeks(u)
  BY <1>1, <1>3 DEF Seeks
<1> QED
  BY <1>2, <1>3, <1>5, <1>6, <1>7, <1>8 DEF TabInv, Kept

\* Nothing is pending in a tab that is not loading.
LEMMA PendingLoads ==
  ASSUME NEW s, TabInv(s), s.preload.pending
  PROVE  s.scope = "session" /\ s.loading /\ s.req \in BatchReq
<1>1. s.scope = "session" /\ s.req \in BatchReq
  BY DEF TabInv, Kept, PendsOn
<1>2. s.req # NoReq
  BY <1>1, RequestKinds DEF Requests
<1> QED
  BY <1>1, <1>2 DEF TabInv, Kept, Loads

\* Whether and for what a chase runs is nothing the invariant is about.
LEMMA ChaseChanges ==
  ASSUME NEW s, TabInv(s), NEW c \in Chase, NEW t, t = [s EXCEPT !.chase = c]
  PROVE  t \in TabState /\ SameCore(s, t) /\ Moves(s, t)
<1>1. s \in TabState
  BY DEF TabInv, Kept
<1>2. t \in TabState /\ SameCore(s, t)
  BY <1>1 DEF TabState, SameCore, Calm
<1> QED
  BY <1>2, CoreMoves

LEMMA ChaseTyped ==
  ASSUME NEW s, s.chase \in Chase, NEW w \in Chasers
  PROVE  /\ \A phase \in {"idle", "wait", "append", "spin"} :
              [s.chase EXCEPT ![w].phase = phase] \in Chase
         /\ \A id \in Ids : [s.chase EXCEPT ![w].id = id] \in Chase
         /\ [s.chase EXCEPT ![w] = NoChase] \in Chase
BY DEF Chase, NoChase

\* A chase in a tab that is not loading
LEMMA ChaseLoadsMoves ==
  ASSUME NEW s, TabInv(s), ~s.loading, NEW w \in Chasers, NEW rev \in Revs,
         NEW u, u = ChaseLoads(s, w, rev)
  PROVE  Moves(s, u)
<1>1. s \in TabState /\ s.chase \in Chase /\ Placed(s) /\ Booked(s)
  BY DEF TabInv, Kept, TabState
<1>2. ASSUME NEW phase \in {"append", "spin"}, NEW t, t = [s EXCEPT !.chase[w].phase = phase]
      PROVE  t \in TabState /\ SameCore(s, t) /\ Moves(s, t)
  <2>1. PICK c : c = [s.chase EXCEPT ![w].phase = phase]
    OBVIOUS
  <2>2. c \in Chase
    BY <1>1, <2>1, ChaseTyped
  <2>3. t = [s EXCEPT !.chase = c]
    BY <1>1, <1>2, <2>1 DEF TabState
  <2> QED
    BY <2>2, <2>3, ChaseChanges
<1>3. CASE PageRefused(s) /\ ChaseOver(s, w)
  <2>1. PICK c : c = [s.chase EXCEPT ![w] = NoChase]
    OBVIOUS
  <2>2. c \in Chase
    BY <1>1, <2>1, ChaseTyped
  <2>3. u = [s EXCEPT !.chase = c]
    BY <1>1, <1>3, <2>1 DEF TabState, ChaseLoads
  <2> QED
    BY <2>2, <2>3, ChaseChanges
<1>4. CASE PageRefused(s) /\ ~ChaseOver(s, w)
  BY <1>2, <1>4 DEF ChaseLoads
<1>5. CASE ~PageRefused(s)
  <2>1. PICK r : r = Request(s, "append", w, rev, Offset(s))
    OBVIOUS
  <2>2. PICK t : t = [s EXCEPT !.chase[w].phase = "append"]
    OBVIOUS
  <2>3. t \in TabState /\ SameCore(s, t) /\ Moves(s, t)
    BY <1>2, <2>2
  <2>4. u = [t EXCEPT !.req = r, !.loading = TRUE]
    <3>1. u = [s EXCEPT !.chase[w].phase = "append", !.loading = TRUE, !.req = r]
      BY <1>5, <2>1 DEF ChaseLoads
    <3> QED
      BY <1>1, <2>2, <3>1 DEF TabState
  <2>5. s.tctx = Key(s) /\ s.tctx \in Contexts
    BY <1>1, <1>5 DEF PageRefused, TabState
  <2>6. Key(s) \in SessionKeys /\ s.scope = "session"
    BY <1>1, <2>5, KeyTyped
  <2>7. r \in PageReq /\ r.latest
    <3>1. Offset(s) \in Nat
      BY <1>1, KeyTyped
    <3>2. w \in {"user", "recovery"} \cup Chasers
      OBVIOUS
    <3> QED
      BY <1>1, <2>1, <2>6, <3>1, <3>2, RequestTyped
  <2>8. TabInv(t) /\ Calm(s, t) /\ t.preload = s.preload /\ t.loading = s.loading
    BY <2>3 DEF Moves, Goes, SameCore
  <2>9. ~t.preload.pending
    BY <2>8, PendingLoads
  <2>10. Placed(t) /\ Booked(t) /\ t.scope = "session"
    BY <2>6, <2>8 DEF TabInv, Kept, Calm
  <2>11. TabInv(u) /\ Calm(t, u) /\ u.preload = t.preload
    <3>1. t \in TabState
      BY <2>3
    <3>2. u = Asked(t, r)
      BY <2>4 DEF Asked
    <3> QED
      BY <2>7, <2>9, <2>10, <3>1, <3>2, PageAsked
  <2>12. Calm(s, u)
    BY <2>8, <2>11, CalmTrans
  <2>13. s.preload.pages \in Nat
    BY <1>1 DEF TabState, Preload
  <2> QED
    BY <2>8, <2>11, <2>12, <2>13 DEF Moves, Goes, Spends, Frozen
<1> QED
  BY <1>3, <1>4, <1>5

LEMMA ChasedMoves ==
  ASSUME NEW s, TabInv(s), NEW w \in Chasers, NEW rev \in Revs, NEW u, u = Chased(s, w, rev)
  PROVE  Moves(s, u)
<1>1. s \in TabState /\ s.chase \in Chase /\ s.loading \in BOOLEAN
  BY DEF TabInv, Kept, TabState
<1>2. CASE ChaseOver(s, w)
  <2>1. PICK c : c = [s.chase EXCEPT ![w] = NoChase]
    OBVIOUS
  <2>2. c \in Chase
    BY <1>1, <2>1, ChaseTyped
  <2>3. u = [s EXCEPT !.chase = c]
    BY <1>1, <1>2, <2>1 DEF TabState, Chased
  <2> QED
    BY <2>2, <2>3, ChaseChanges
<1>3. CASE ~ChaseOver(s, w) /\ s.loading
  <2>1. PICK c : c = [s.chase EXCEPT ![w].phase = "wait"]
    OBVIOUS
  <2>2. c \in Chase
    BY <1>1, <2>1, ChaseTyped
  <2>3. u = [s EXCEPT !.chase = c]
    BY <1>1, <1>3, <2>1 DEF TabState, Chased
  <2> QED
    BY <2>2, <2>3, ChaseChanges
<1>4. CASE ~ChaseOver(s, w) /\ ~s.loading
  <2>1. u = ChaseLoads(s, w, rev)
    BY <1>4 DEF Chased
  <2> QED
    BY <1>4, <2>1, ChaseLoadsMoves
<1> QED
  BY <1>1, <1>2, <1>3, <1>4

\* The recovery is told how a part of it has ended.
LEMMA RecoveryHearsMoves ==
  ASSUME NEW s, TabInv(s), NEW part, NEW outcome,
         NEW u, u = RecoveryHears(s, part, outcome)
  PROVE  Moves(s, u) /\ SameCore(s, u)
<1>1. s \in TabState /\ s.recovery \in Recovery
  BY DEF TabInv, Kept, TabState
<1>2. CASE part \notin s.recovery.waits
  <2>1. u = s
    BY <1>2 DEF RecoveryHears
  <2> QED
    BY <1>1, <2>1, CoreMoves DEF SameCore, Calm
<1>3. CASE part \in s.recovery.waits
  <2>1. PICK v : v = IF outcome = "error"
                     THEN [s.recovery EXCEPT !.phase = "failed", !.waits = {}]
                     ELSE [s.recovery EXCEPT !.waits = @ \ {part}]
    OBVIOUS
  <2>2. v \in Recovery
    BY <1>1, <2>1 DEF Recovery
  <2>3. u = [s EXCEPT !.recovery = v]
    BY <1>1, <1>3, <2>1 DEF RecoveryHears, TabState
  <2>4. u \in TabState
    BY <1>1, <2>2, <2>3 DEF TabState
  <2>5. SameCore(s, u)
    BY <1>1, <2>3 DEF TabState, SameCore, Calm
  <2> QED
    BY <2>4, <2>5, CoreMoves
<1> QED
  BY <1>2, <1>3

\* A tab in which the request r has ended, but is still to be heard of by those
\* who await it: a batch may leave a search pending.
Loose(s, r) ==
  /\ s \in TabState /\ Placed(s) /\ Loads(s) /\ Booked(s) /\ Seeks(s)
  /\ r \in Requests
  /\ PendsOn(s, IF r \in BatchReq THEN r ELSE s.req)

\* The search is no longer pending.
LEMMA NoLongerPending ==
  ASSUME NEW s, NEW r, Loose(s, r), NEW p \in Preload, ~p.pending,
         p.key = s.preload.key, p.pages = s.preload.pages,
         NEW u, u = [s EXCEPT !.preload = p]
  PROVE  /\ Moves(s, u) /\ TabInv(u) /\ Calm(s, u) /\ Frozen(s, u) /\ u.loading = s.loading
<1>1. s \in TabState
  BY DEF Loose
<1>2. u \in TabState
  BY <1>1 DEF TabState
<1>3. /\ Calm(s, u) /\ u.preload = p /\ u.loading = s.loading /\ u.req = s.req /\ u.inv = s.inv
  BY <1>1 DEF TabState, Calm
<1>4. Key(u) = Key(s) /\ Offset(u) = Offset(s)
  BY <1>3, CalmKey
<1>5. Placed(u) /\ Loads(u) /\ Booked(u)
  BY <1>3, <1>4 DEF Loose, Placed, Loads, Booked, Calm
<1>6. PendsOn(u, u.req)
  BY <1>3 DEF PendsOn
<1>7. Seeks(u)
  BY <1>3, <1>4 DEF Loose, Seeks
<1>8. s.preload.pages \in Nat
  BY <1>1 DEF TabState, Preload
<1> QED
  BY <1>2, <1>3, <1>5, <1>6, <1>7, <1>8 DEF TabInv, Kept, Moves, Goes, Spends, Frozen

LEMMA LooseFirm ==
  ASSUME NEW s, NEW r, Loose(s, r), r \in BatchReq => ~s.preload.pending
  PROVE  TabInv(s)
<1>1. PendsOn(s, s.req)
  BY DEF Loose, PendsOn
<1> QED
  BY <1>1 DEF Loose, TabInv, Kept

LEMMA PreloadEndedMoves ==
  ASSUME NEW s, NEW r, Loose(s, r), r.who = "preload", NEW rev \in Revs,
         NEW u, u = PreloadEnded(s, r, rev)
  PROVE  Moves(s, u)
<1>1. s \in TabState /\ s.preload \in Preload
  BY DEF Loose, TabState
<1>2. r \in BatchReq
  BY RequestKinds DEF Loose, Requests, Seekers
<1>3. CASE InvocationCurrent(s, r) /\ s.preload.key = r.key
  <2>1. PICK p : p = [s.preload EXCEPT !.pending = FALSE]
    OBVIOUS
  <2>2. p \in Preload /\ ~p.pending /\ p.key = s.preload.key /\ p.pages = s.preload.pages
    BY <1>1, <2>1 DEF Preload
  <2>3. PICK t : t = [s EXCEPT !.preload = p]
    OBVIOUS
  <2>4. u = MaybePreload(t, rev)
    BY <1>1, <1>3, <2>1, <2>3 DEF PreloadEnded, TabState
  <2>5. Moves(s, t) /\ TabInv(t) /\ Frozen(s, t) /\ t.loading = s.loading
    BY <2>2, <2>3, NoLongerPending
  <2>6. Moves(t, u)
    BY <2>4, <2>5, MaybePreloadMoves
  <2>7. Goes(s, u)
    BY <1>1, <2>5, <2>6, GoesChain DEF Moves
  <2>8. s.loading => Frozen(s, u)
    BY <2>5, <2>6 DEF Moves, Frozen
  <2> QED
    BY <2>7, <2>8 DEF Moves
<1>4. CASE ~(InvocationCurrent(s, r) /\ s.preload.key = r.key)
  <2>1. u = s
    BY <1>4 DEF PreloadEnded
  <2>2. ~s.preload.pending
    BY <1>2, <1>4 DEF Loose, PendsOn, InvocationCurrent
  <2>3. TabInv(s)
    BY <2>2, LooseFirm
  <2> QED
    BY <1>1, <2>1, <2>3, CoreMoves DEF SameCore, Calm
<1> QED
  BY <1>3, <1>4

LEMMA LoadMoreEndedMoves ==
  ASSUME NEW s, NEW r, Loose(s, r), r.who = "loadMore", NEW outcome, NEW exhausted \in BOOLEAN,
         NEW u, u = LoadMoreEnded(s, r, outcome, exhausted)
  PROVE  Moves(s, u)
<1>1. s \in TabState /\ s.preload \in Preload
  BY DEF Loose, TabState
<1>2. r \in BatchReq
  BY RequestKinds DEF Loose, Requests, Seekers
<1>3. CASE InvocationCurrent(s, r)
  <2>1. PICK e : e = IF outcome # "done" THEN s.preload.exhausted
                     ELSE s.registry.owners \subseteq r.batch.known /\ exhausted
    OBVIOUS
  <2>2. e \in BOOLEAN
    BY <1>1, <2>1 DEF Preload
  <2>3. PICK p : p = [s.preload EXCEPT !.pending = FALSE, !.exhausted = e]
    OBVIOUS
  <2>4. p \in Preload /\ ~p.pending /\ p.key = s.preload.key /\ p.pages = s.preload.pages
    BY <1>1, <2>2, <2>3 DEF Preload
  <2>5. u = [s EXCEPT !.preload = p]
    BY <1>1, <1>3, <2>1, <2>3 DEF LoadMoreEnded, TabState, Preload
  <2> QED
    BY <2>4, <2>5, NoLongerPending
<1>4. CASE ~InvocationCurrent(s, r)
  <2>1. u = s
    BY <1>4 DEF LoadMoreEnded
  <2>2. ~s.preload.pending
    BY <1>2, <1>4 DEF Loose, PendsOn, InvocationCurrent
  <2>3. TabInv(s)
    BY <2>2, LooseFirm
  <2> QED
    BY <1>1, <2>1, <2>3, CoreMoves DEF SameCore, Calm
<1> QED
  BY <1>3, <1>4

LEMMA EndedMoves ==
  ASSUME NEW s, NEW r, Loose(s, r), NEW rev \in Revs, NEW outcome, NEW exhausted \in BOOLEAN,
         NEW u, u = Ended(s, r, outcome, exhausted, rev)
  PROVE  Moves(s, u)
<1>1. s \in TabState /\ r \in Requests
  BY DEF Loose
<1>2. CASE r.who = "preload"
  <2>1. u = PreloadEnded(s, r, rev)
    BY <1>2 DEF Ended, Chasers
  <2> QED
    BY <1>2, <2>1, PreloadEndedMoves
<1>3. CASE r.who = "loadMore"
  <2>1. u = LoadMoreEnded(s, r, outcome, exhausted)
    BY <1>3 DEF Ended, Chasers
  <2> QED
    BY <1>3, <2>1, LoadMoreEndedMoves
<1>4. ASSUME r.who \notin {"preload", "loadMore"}
      PROVE  TabInv(s)
  <2>1. r \in BatchReq => ~s.preload.pending
    BY <1>4 DEF Loose, PendsOn, BatchReq, Seekers
  <2> QED
    BY <2>1, LooseFirm
<1>5. CASE r.who = "nav"
  <2>1. TabInv(s)
    BY <1>4, <1>5
  <2>2. CASE outcome = "done" /\ InvocationCurrent(s, r)
    <3>1. PICK n : n = [s.nav EXCEPT !.phase = "after"]
      OBVIOUS
    <3>2. s.nav \in Navigation
      BY <1>1 DEF TabState
    <3>3. n \in Navigation
      BY <3>1, <3>2 DEF Navigation
    <3>4. u = [s EXCEPT !.nav = n]
      BY <1>1, <1>5, <2>2, <3>1 DEF Ended, Chasers, TabState
    <3>5. u \in TabState
      BY <1>1, <3>3, <3>4 DEF TabState
    <3>6. SameCore(s, u)
      BY <1>1, <3>4 DEF TabState, SameCore, Calm
    <3> QED
      BY <2>1, <3>5, <3>6, CoreMoves
  <2>3. CASE ~(outcome = "done" /\ InvocationCurrent(s, r))
    <3>1. u = NavEnded(s, rev)
      BY <1>5, <2>3 DEF Ended, Chasers
    <3> QED
      BY <2>1, <3>1, NavEndedMoves
  <2> QED
    BY <2>2, <2>3
<1>6. CASE r.who \in Chasers
  <2>0. r.who \notin {"preload", "loadMore", "nav", "recovery"}
    BY <1>6 DEF Chasers
  <2>1. TabInv(s)
    BY <1>4, <2>0
  <2>2. CASE outcome = "error"
    <3>1. PICK c : c = [s.chase EXCEPT ![r.who] = NoChase]
      OBVIOUS
    <3>2. s.chase \in Chase
      BY <1>1 DEF TabState
    <3>3. c \in Chase
      BY <1>6, <3>1, <3>2, ChaseTyped
    <3>4. PICK g : g = [s EXCEPT !.chase = c]
      OBVIOUS
    <3>5. g = [s EXCEPT !.chase[r.who] = NoChase]
      BY <1>1, <3>1, <3>4 DEF TabState
    <3>6. u = IF r.who = "navChase" THEN NavEnded(g, rev) ELSE g
      BY <1>6, <2>0, <2>2, <3>5 DEF Ended, Chasers
    <3>7. g \in TabState /\ SameCore(s, g) /\ Moves(s, g) /\ TabInv(g)
      BY <2>1, <3>3, <3>4, ChaseChanges DEF Moves, Goes
    <3>8. CASE r.who = "navChase"
      <4>1. Moves(g, u)
        BY <3>6, <3>7, <3>8, NavEndedMoves
      <4> QED
        BY <2>1, <3>7, <4>1, CoreThenMoves
    <3> QED
      BY <3>6, <3>7, <3>8
  <2>3. CASE outcome # "error"
    <3>1. u = Chased(s, r.who, rev)
      BY <1>6, <2>0, <2>3 DEF Ended, Chasers
    <3> QED
      BY <1>6, <2>1, <3>1, ChasedMoves
  <2> QED
    BY <2>2, <2>3
<1>7. CASE r.who = "recovery"
  <2>1. TabInv(s)
    BY <1>4, <1>7
  <2>2. u = RecoveryHears(s, "timeline", outcome)
    BY <1>7 DEF Ended, Chasers
  <2> QED
    BY <2>1, <2>2, RecoveryHearsMoves
<1>8. CASE r.who \notin {"preload", "loadMore", "nav", "recovery"} \cup Chasers
  <2>1. TabInv(s)
    BY <1>4, <1>8
  <2>2. u = s
    BY <1>8 DEF Ended, Chasers
  <2> QED
    BY <1>1, <2>1, <2>2, CoreMoves DEF SameCore, Calm
<1> QED
  BY <1>2, <1>3, <1>5, <1>6, <1>7, <1>8

-----------------------------------------------------------------------------
(* Requests that end and begin *)

LEMMA FirmLoose ==
  ASSUME NEW s, TabInv(s), NEW r \in PageReq
  PROVE  Loose(s, r)
BY RequestKinds DEF Loose, TabInv, Kept, Requests

\* A request ends.
LEMMA SettledGoes ==
  ASSUME NEW s, Kept(s), NEW r \in Requests, s.req = r, NEW rev \in Revs,
         NEW outcome, NEW exhausted \in BOOLEAN,
         NEW u, u = Settled(s, r, outcome, exhausted, rev)
  PROVE  Goes(s, u)
<1>1. s \in TabState /\ s.loading \in BOOLEAN /\ r # NoReq
  BY RequestKinds DEF Kept, TabState
<1>2. PICK l : l = IF r.latest THEN FALSE ELSE s.loading
  OBVIOUS
<1>3. l \in BOOLEAN
  BY <1>1, <1>2
<1>4. PICK t : t = [s EXCEPT !.req = NoReq, !.loading = l]
  OBVIOUS
<1>5. t \in TabState
  BY <1>1, <1>3, <1>4 DEF TabState
<1>6. /\ Calm(s, t) /\ t.req = NoReq /\ t.loading = l /\ t.preload = s.preload
      /\ t.inv = s.inv
  BY <1>1, <1>4 DEF TabState, Calm
<1>7. Key(t) = Key(s)
  BY <1>6, CalmKey
<1>8. Placed(t) /\ Booked(t)
  BY <1>6, <1>7 DEF Kept, Placed, Booked, Calm
<1>9. Loads(t)
  BY <1>1, <1>2, <1>6 DEF Kept, Loads, Calm
<1>10. Seeks(t)
  BY <1>6, RequestKinds DEF Seeks, Requests
<1>11. PendsOn(t, IF r \in BatchReq THEN r ELSE t.req)
  <2>1. PendsOn(s, r)
    BY DEF Kept
  <2>2. PendsOn(t, r)
    BY <1>6, <1>7, <2>1 DEF PendsOn, Calm
  <2>3. r \notin BatchReq => ~t.preload.pending
    BY <2>2 DEF PendsOn
  <2> QED
    BY <2>2, <2>3 DEF PendsOn
<1>12. Loose(t, r)
  BY <1>5, <1>8, <1>9, <1>10, <1>11 DEF Loose
<1>13. Spends(s, t) /\ Frozen(s, t)
  <2>1. s.preload.pages \in Nat
    BY <1>1 DEF TabState, Preload
  <2> QED
    BY <1>6, <2>1 DEF Spends, Frozen
<1>14. CASE r.latest /\ r.kind \in {"replace", "append", "find"}
  <2>1. r \in PageReq /\ r \notin BatchReq
    BY <1>14, RequestKinds DEF Requests
  <2>2. TabInv(t)
    BY <1>12, <2>1, LooseFirm
  <2>3. PICK w : w = MaybePreload(t, rev)
    OBVIOUS
  <2>4. Goes(t, w)
    BY <2>2, <2>3, MaybePreloadMoves DEF Moves
  <2>5. TabInv(w)
    BY <2>4 DEF Goes
  <2>6. u = Ended(w, r, outcome, exhausted, rev)
    BY <1>2, <1>4, <1>14, <2>3 DEF Settled
  <2>7. Goes(w, u)
    BY <2>1, <2>5, <2>6, FirmLoose, EndedMoves DEF Moves
  <2>8. Goes(t, u)
    BY <1>5, <2>4, <2>7, GoesChain
  <2> QED
    BY <1>1, <1>5, <1>6, <1>13, <2>8, GoesTrans
<1>15. CASE ~(r.latest /\ r.kind \in {"replace", "append", "find"})
  <2>1. u = Ended(t, r, outcome, exhausted, rev)
    BY <1>2, <1>4, <1>15 DEF Settled
  <2>2. Goes(t, u)
    BY <1>12, <2>1, EndedMoves DEF Moves
  <2> QED
    BY <1>1, <1>5, <1>6, <1>13, <2>2, GoesTrans
<1> QED
  BY <1>14, <1>15

LEMMA AbortedGoes ==
  ASSUME NEW s, Kept(s), NEW rev \in Revs, NEW u, u = Aborted(s, rev)
  PROVE  Goes(s, u)
<1>1. s \in TabState /\ s.req \in Requests \cup {NoReq}
  BY DEF Kept, TabState
<1>2. CASE s.req = NoReq
  <2>1. u = s
    BY <1>2 DEF Aborted
  <2>2. Seeks(s)
    BY <1>2, RequestKinds DEF Seeks, Requests
  <2>3. TabInv(s)
    BY <2>2 DEF TabInv
  <2> QED
    BY <1>1, <2>1, <2>3, CoreKept DEF SameCore, Calm
<1>3. CASE s.req # NoReq
  <2>1. u = Settled(s, s.req, "stale", FALSE, rev)
    BY <1>3 DEF Aborted
  <2> QED
    BY <1>1, <1>3, <2>1, SettledGoes
<1> QED
  BY <1>2, <1>3

\* A tab in the scope of a session that is ready to ask for pages, whatever it
\* was doing before.
Prepared(s) ==
  s \in TabState /\ Placed(s) /\ Booked(s) /\ ~s.preload.pending /\ s.scope = "session"

\* A request begins, and the one before has ended.
LEMMA StartedGoes ==
  ASSUME NEW s, Prepared(s), NEW r \in PageReq, r.latest, NEW rev \in Revs,
         NEW u, u = Started(s, r, rev)
  PROVE  TabInv(u) /\ Calm(s, u) /\ Frozen(s, u)
<1>1. s \in TabState /\ s.req \in Requests \cup {NoReq}
  BY DEF Prepared, TabState
<1>2. PICK t : t = [s EXCEPT !.req = r, !.loading = TRUE]
  OBVIOUS
<1>3. TabInv(t) /\ Calm(s, t) /\ t.preload = s.preload /\ t.loading
  <2>1. t = Asked(s, r)
    BY <1>2 DEF Asked
  <2> QED
    BY <2>1, PageAsked DEF Prepared
<1>4. CASE s.req = NoReq
  <2>1. u = t
    BY <1>2, <1>4 DEF Started
  <2> QED
    BY <1>3, <2>1 DEF Frozen
<1>5. CASE s.req # NoReq
  <2>1. PICK q : q = s.req
    OBVIOUS
  <2>2. u = Ended(t, q, "stale", FALSE, rev)
    BY <1>2, <1>5, <2>1 DEF Started
  <2>3. q \in Requests
    BY <1>1, <1>5, <2>1
  <2>4. ~t.preload.pending
    BY <1>3 DEF Prepared
  <2>5. Loose(t, q)
    BY <1>3, <2>3, <2>4 DEF Loose, TabInv, Kept, PendsOn
  <2>6. Moves(t, u)
    BY <2>2, <2>5, EndedMoves
  <2>7. TabInv(u) /\ Calm(t, u) /\ Frozen(t, u)
    BY <1>3, <2>6 DEF Moves, Goes
  <2>8. Calm(s, u)
    BY <1>3, <2>7, CalmTrans
  <2> QED
    BY <1>3, <2>7, <2>8 DEF Frozen
<1> QED
  BY <1>4, <1>5

\* The timeline is to be replaced, whatever the tab was doing before.
Replaceable(s) == s \in TabState /\ Placed(s) /\ Booked(s) /\ s.scope = "session"

LEMMA ReplacedGoes ==
  ASSUME NEW s, Replaceable(s), NEW kind \in {"replace", "find", "prefix"},
         NEW who \in {"user", "recovery"}, NEW want \in Nat, NEW rev \in Revs,
         NEW u, u = Replaced(s, kind, who, want, rev)
  PROVE  TabInv(u) /\ Calm(s, u) /\ Frozen(s, u)
<1>1. s \in TabState /\ s.preload \in Preload
  BY DEF Replaceable, TabState
<1>2. PICK p : p = [s.preload EXCEPT !.pending = FALSE]
  OBVIOUS
<1>3. p \in Preload /\ ~p.pending /\ p.key = s.preload.key /\ p.pages = s.preload.pages
  BY <1>1, <1>2 DEF Preload
<1>4. PICK t : t = [s EXCEPT !.retry = NoRetry, !.inv = "none", !.preload = p]
  OBVIOUS
<1>5. t = ReplacementBegun(s)
  BY <1>1, <1>2, <1>4 DEF ReplacementBegun, TabState
<1>6. t \in TabState
  BY <1>1, <1>3, <1>4 DEF TabState
<1>7. Calm(s, t) /\ t.preload = p
  BY <1>1, <1>4 DEF TabState, Calm
<1>8. Key(t) = Key(s)
  BY <1>7, CalmKey
<1>9. Prepared(t)
  BY <1>3, <1>6, <1>7, <1>8 DEF Replaceable, Prepared, Placed, Booked, Calm
<1>10. Key(t) \in SessionKeys
  BY <1>6, <1>9, KeyTyped DEF Prepared, Placed
<1>11. PICK r : r = Request(t, kind, who, rev, want)
  OBVIOUS
<1>12. r \in PageReq /\ r.latest
  BY <1>6, <1>10, <1>11, RequestTyped
<1>13. u = Started(t, r, rev)
  BY <1>5, <1>11 DEF Replaced
<1>14. TabInv(u) /\ Calm(t, u) /\ Frozen(t, u)
  BY <1>9, <1>12, <1>13, StartedGoes
<1>15. Calm(s, u)
  BY <1>7, <1>14, CalmTrans
<1> QED
  BY <1>3, <1>7, <1>14, <1>15 DEF Frozen

LEMMA RefreshedGoes ==
  ASSUME NEW s, TabInv(s) \/ Replaceable(s), NEW kind \in {"replace", "find"}, NEW rev \in Revs,
         NEW u, u = Refreshed(s, kind, rev)
  PROVE  TabInv(u) /\ Calm(s, u) /\ Frozen(s, u)
<1>1. s \in TabState /\ Placed(s) /\ Booked(s)
  BY DEF TabInv, Kept, Replaceable
<1>2. CASE s.scope # "session" \/ s.sess = NoSession
  <2>1. u = s
    BY <1>2 DEF Refreshed
  <2>2. s.scope # "session"
    BY <1>1, <1>2, Numbers DEF Placed
  <2>3. TabInv(s)
    BY <2>2 DEF Replaceable
  <2> QED
    BY <2>1, <2>3 DEF Calm, Frozen
<1>3. CASE ~(s.scope # "session" \/ s.sess = NoSession)
  <2>1. PICK want : want = IF kind = "find" /\ Offset(s) > PageSize THEN Offset(s) ELSE PageSize
    OBVIOUS
  <2>2. want \in Nat
    BY <1>1, <2>1, KeyTyped, Numbers
  <2>3. u = Replaced(s, kind, "user", want, rev)
    BY <1>3, <2>1 DEF Refreshed
  <2>4. Replaceable(s)
    BY <1>1, <1>3 DEF Replaceable
  <2> QED
    BY <2>2, <2>3, <2>4, ReplacedGoes
<1> QED
  BY <1>2, <1>3

-----------------------------------------------------------------------------
(* What is drawn, and the targets it brings *)

\* All stays but what is shown and its targets.
Held(s, u) ==
  /\ u.scope = s.scope /\ u.sess = s.sess /\ u.expr = s.expr /\ u.rev = s.rev
  /\ u.sessionsReady = s.sessionsReady /\ u.loading = s.loading /\ u.req = s.req
  /\ u.inv = s.inv /\ u.preload = s.preload

LEMMA HitsTyped ==
  ASSUME NEW events \in Seq(Event)
  PROVE  HitsIn(events) \subseteq Ids
<1>1. \A n \in DOMAIN events : events[n] \in Event
  OBVIOUS
<1> QED
  BY <1>1 DEF HitsIn, Event

LEMMA HeldKept ==
  ASSUME NEW s, Kept(s), NEW u \in TabState, Held(s, u),
         u.surface \in {NoKey, u.tctx}, u.scope = "project" => u.surface = NoKey,
         u.scope = "session" => u.registry.key = Key(u),
         u.registry.key.expr.text = NoText => u.registry.owners = {}
  PROVE  Kept(u) /\ Key(u) = Key(s)
<1>1. Key(u) = Key(s)
  BY KeySame DEF Held
<1>2. Placed(u)
  BY DEF Kept, Held, Placed
<1>3. Loads(u)
  BY DEF Kept, Held, Loads
<1>4. PendsOn(u, u.req)
  BY <1>1 DEF Kept, Held, PendsOn
<1>5. Booked(u)
  BY DEF Kept, Held, Booked
<1> QED
  BY <1>1, <1>2, <1>3, <1>4, <1>5 DEF Kept

LEMMA DiscoveredKept ==
  ASSUME NEW s, Kept(s), NEW events \in Seq(Event),
         NEW u, u = Discovered(s, events)
  PROVE  /\ Kept(u) /\ Held(s, u) /\ Grows(s, u) /\ Key(u) = Key(s)
         /\ u.events = s.events /\ u.tctx = s.tctx /\ u.surface = s.surface
         /\ u.total = s.total /\ u.timers = s.timers /\ u.highlight = s.highlight
         /\ u.nav = s.nav /\ u.recovery = s.recovery
         /\ u.registry.key = Key(s)
         /\ Searching(s) => HitsIn(events) \subseteq u.registry.owners
<1>1. s \in TabState /\ Placed(s) /\ Booked(s) /\ s.registry \in Registry
  BY DEF Kept, TabState
<1>2. Key(s) \in TabKeys
  BY <1>1, KeyTyped
<1>3. PICK old : old = IF s.registry.key = Key(s) THEN s.registry.owners ELSE {}
  OBVIOUS
<1>4. PICK owners : owners = IF Searching(s) THEN old \cup HitsIn(events) ELSE {}
  OBVIOUS
<1>5. owners \in SUBSET Ids
  BY <1>1, <1>3, <1>4, HitsTyped DEF Registry
<1>6. PICK v : v = [key |-> Key(s), owners |-> owners]
  OBVIOUS
<1>7. v \in Registry /\ v.key = Key(s) /\ v.owners = owners
  BY <1>2, <1>5, <1>6 DEF Registry
<1>8. u = [s EXCEPT !.registry = v]
  BY <1>3, <1>4, <1>6 DEF Discovered
<1>9. u \in TabState
  BY <1>1, <1>7, <1>8, RegistryTyped, Zenon
<1>10. /\ Held(s, u) /\ u.registry = v
       /\ u.events = s.events /\ u.tctx = s.tctx /\ u.surface = s.surface
       /\ u.total = s.total /\ u.timers = s.timers /\ u.highlight = s.highlight
       /\ u.nav = s.nav /\ u.recovery = s.recovery
  BY <1>1, <1>8 DEF TabState, Held
<1>11. Key(u) = Key(s)
  BY <1>10, KeySame DEF Held
<1>12. Key(s).expr = s.expr
  BY DEF Key
<1>13. u.registry.key.expr.text = NoText => u.registry.owners = {}
  BY <1>4, <1>7, <1>10, <1>12 DEF Searching
<1>14. Kept(u)
  BY <1>1, <1>7, <1>9, <1>10, <1>11, <1>13, HeldKept DEF Placed, Held
<1>15. Grows(s, u)
  <2>1. CASE s.registry.key = Key(s)
    <3>1. ~Searching(s) => s.registry.owners = {}
      BY <1>1, <1>12, <2>1 DEF Booked, Searching
    <3>2. s.registry.owners \subseteq owners
      BY <1>3, <1>4, <2>1, <3>1
    <3> QED
      BY <1>7, <1>10, <2>1, <3>2 DEF Grows
  <2>2. CASE s.registry.key # Key(s)
    BY <1>7, <1>10, <1>11, <2>2 DEF Grows
  <2> QED
    BY <2>1, <2>2
<1>16. Searching(s) => HitsIn(events) \subseteq owners
  BY <1>4
<1> QED
  BY <1>7, <1>10, <1>11, <1>14, <1>15, <1>16

\* While the events in view stay, so does what is said of a batch.
LEMMA SeeksHeld ==
  ASSUME NEW s, NEW u, Seeks(s), Held(s, u), u.events = s.events
  PROVE  Seeks(u)
<1>1. Offset(u) = Offset(s)
  BY DEF Offset
<1> QED
  BY <1>1 DEF Seeks, Held

LEMMA HighlightedGoes ==
  ASSUME NEW s, TabInv(s), NEW rev \in Revs, NEW u, u = Highlighted(s, rev)
  PROVE  TabInv(u) /\ Grows(s, u) /\ Spends(s, u) /\ Key(u) = Key(s)
<1>1. Kept(s) /\ s \in TabState /\ s.events \in Seq(Event)
  BY DEF TabInv, Kept, TabState
<1>2. PICK t : t = Discovered(s, s.events)
  OBVIOUS
<1>3. Kept(t) /\ Held(s, t) /\ Grows(s, t) /\ Key(t) = Key(s) /\ t.events = s.events
  BY <1>1, <1>2, DiscoveredKept
<1>4. TabInv(t) /\ t \in TabState
  BY <1>3, SeeksHeld DEF TabInv, Kept
<1>5. u = MaybePreload(t, rev)
  BY <1>2 DEF Highlighted
<1>6. Goes(t, u)
  BY <1>4, <1>5, MaybePreloadKeeps
<1>7. TabInv(u) /\ Calm(t, u) /\ Spends(t, u)
  BY <1>6 DEF Goes
<1>8. Key(u) = Key(t)
  BY <1>7, CalmKey
<1>9. Grows(s, u)
  BY <1>3, <1>7, <1>8 DEF Grows, Calm
<1>10. Spends(s, u)
  BY <1>3, <1>7, <1>8 DEF Spends, Held
<1> QED
  BY <1>3, <1>7, <1>8, <1>9, <1>10

\* The timeline is drawn, and with it the targets it has.
LEMMA RenderedKept ==
  ASSUME NEW s \in TabState, Loads(s), PendsOn(s, s.req), Booked(s),
         s.scope = "session" => s.sess \in Session /\ s.registry.key = Key(s),
         NEW u, u = Rendered(s)
  PROVE  /\ Kept(u) /\ Held(s, u) /\ Grows(s, u) /\ Key(u) = Key(s)
         /\ u.events = s.events /\ u.tctx = s.tctx /\ u.total = s.total
         /\ u.registry.key = Key(s) /\ u.recovery = s.recovery
         /\ Searching(s) => HitsIn(s.events) \subseteq u.registry.owners
<1>1. PICK x : x = IF s.scope = "session" /\ s.tctx = Key(s) THEN Key(s) ELSE NoKey
  OBVIOUS
<1>2. x \in Contexts /\ x \in {NoKey, s.tctx} /\ (s.scope = "project" => x = NoKey)
  BY <1>1 DEF TabState, Contexts
<1>3. PICK t : t = [s EXCEPT !.surface = x]
  OBVIOUS
<1>4. t \in TabState
  BY <1>2, <1>3 DEF TabState
<1>5. /\ Held(s, t) /\ t.surface = x /\ t.events = s.events /\ t.tctx = s.tctx
      /\ t.total = s.total /\ t.registry = s.registry /\ t.recovery = s.recovery
  BY <1>3 DEF TabState, Held
<1>6. Key(t) = Key(s)
  BY <1>5, KeySame DEF Held
<1>7. Kept(t)
  BY <1>2, <1>4, <1>5, <1>6 DEF Kept, Held, Placed, Loads, PendsOn, Booked
<1>8. u = Discovered(t, s.events)
  BY <1>1, <1>3 DEF Rendered
<1>9. s.events \in Seq(Event)
  BY DEF TabState
<1>10. /\ Kept(u) /\ Held(t, u) /\ Grows(t, u) /\ Key(u) = Key(t)
       /\ u.events = t.events /\ u.tctx = t.tctx /\ u.total = t.total
       /\ u.registry.key = Key(t) /\ u.recovery = t.recovery
       /\ Searching(t) => HitsIn(s.events) \subseteq u.registry.owners
  BY <1>7, <1>8, <1>9, DiscoveredKept
<1>11. Held(s, u)
  BY <1>5, <1>10 DEF Held
<1>12. Grows(s, u)
  BY <1>5, <1>10 DEF Grows
<1>13. Searching(s) => Searching(t)
  BY <1>5 DEF Searching, Held
<1> QED
  BY <1>5, <1>6, <1>10, <1>11, <1>12, <1>13

-----------------------------------------------------------------------------
(* What an action does *)

\* A target once found stays, while the registry is for the same search.
Targets(s, u) ==
  u.registry.key = s.registry.key => s.registry.owners \subseteq u.registry.owners

\* What was spent under one key stays spent.
Budget(s, u) == u.preload.key = s.preload.key => s.preload.pages <= u.preload.pages

\* The search stays as it is.
Stays(s, u) == TabInv(u) /\ u.registry = s.registry /\ Frozen(s, u)

Steps(s, u) == TabInv(u) /\ Targets(s, u) /\ Budget(s, u)

LEMMA PagesTyped ==
  ASSUME NEW s \in TabState
  PROVE  s.preload \in Preload /\ s.preload.pages \in Nat /\ s.recovery \in Recovery
BY DEF TabState, Preload

LEMMA StaysTrans ==
  ASSUME NEW s, NEW t, NEW u, Stays(s, t), Stays(t, u)
  PROVE  Stays(s, u)
BY DEF Stays, Frozen

LEMMA StepsThenStays ==
  ASSUME NEW s, NEW t, NEW u, Steps(s, t), Stays(t, u)
  PROVE  Steps(s, u)
BY DEF Steps, Stays, Frozen, Targets, Budget

LEMMA GoesSteps ==
  ASSUME NEW s \in TabState, NEW u, Goes(s, u)
  PROVE  Steps(s, u)
<1>1. TabInv(u) /\ u.registry = s.registry /\ Spends(s, u)
  BY DEF Goes, Calm
<1>2. Budget(s, u)
  BY <1>1 DEF Budget, Spends
<1> QED
  BY <1>1, <1>2 DEF Steps, Targets

LEMMA StaysGoes ==
  ASSUME NEW s \in TabState, NEW t, NEW u, Stays(s, t), Goes(t, u)
  PROVE  Steps(s, u)
<1>1. t \in TabState
  BY DEF Stays, TabInv, Kept
<1>2. Steps(t, u)
  BY <1>1, GoesSteps
<1> QED
  BY <1>2 DEF Steps, Stays, Frozen, Targets, Budget

\* A budget that begins anew is for another key.
LEMMA ResetBudget ==
  ASSUME NEW s \in TabState, Booked(s), NEW u, u.preload.key = NoKey, u.preload.pages = 0
  PROVE  Budget(s, u)
BY DEF Booked, Budget

LEMMA SameStays ==
  ASSUME NEW s, NEW u \in TabState, TabInv(s), SameCore(s, u)
  PROVE  Stays(s, u)
<1>1. Goes(s, u) /\ Frozen(s, u)
  BY CoreKept
<1> QED
  BY <1>1 DEF Goes, Stays, Calm

LEMMA RecoveryChanged ==
  ASSUME NEW s, TabInv(s), NEW v \in Recovery, NEW g \in Suggestions,
         NEW u, u = [s EXCEPT !.recovery = v, !.sugg = g]
  PROVE  u \in TabState /\ SameCore(s, u) /\ Stays(s, u)
<1>1. s \in TabState
  BY DEF TabInv, Kept
<1>2. u \in TabState
  BY <1>1 DEF TabState
<1>3. SameCore(s, u)
  BY <1>1 DEF TabState, SameCore, Calm
<1> QED
  BY <1>2, <1>3, SameStays

\* A recovery starts.
LEMMA RecoveryStartedStays ==
  ASSUME NEW s, TabInv(s), serverRev \in Revs, NEW u, u = RecoveryStarted(s)
  PROVE  Stays(s, u)
<1>1. Kept(s) /\ s \in TabState
  BY DEF TabInv, Kept
<1>2. PICK v : v = [phase |-> "state", attempt |-> 0, requested |-> FALSE,
                    waits |-> {}, result |-> "none", since |-> 0]
  OBVIOUS
<1>3. v \in Recovery
  BY <1>2 DEF Recovery
<1>4. PICK t : t = [s EXCEPT !.events = <<>>, !.tctx = NoKey, !.total = 0, !.surface = NoKey,
                             !.sessionsReady = FALSE, !.sugg = NoSuggestions, !.recovery = v]
  OBVIOUS
<1>5. u = Aborted(t, serverRev)
  BY <1>2, <1>4 DEF RecoveryStarted
<1>6. t \in TabState
  <2>1. <<>> \in Seq(Event) /\ NoKey \in Contexts /\ NoSuggestions \in Suggestions
    BY DEF Contexts, NoSuggestions, Suggestions
  <2> QED
    BY <1>1, <1>3, <1>4, <2>1 DEF TabState
<1>7. /\ t.scope = s.scope /\ t.sess = s.sess /\ t.expr = s.expr /\ t.loading = s.loading
      /\ t.req = s.req /\ t.inv = s.inv /\ t.preload = s.preload /\ t.registry = s.registry
      /\ t.surface = NoKey /\ ~t.sessionsReady
  BY <1>1, <1>4 DEF TabState
<1>8. Key(t) = Key(s)
  BY <1>7, KeySame
<1>9. Kept(t)
  BY <1>1, <1>6, <1>7, <1>8 DEF Kept, Placed, Loads, PendsOn, Booked
<1>10. Goes(t, u)
  BY <1>5, <1>9, AbortedGoes
<1>11. ~Ready(t)
  BY <1>7 DEF Ready
<1>12. TabInv(u) /\ u.registry = t.registry /\ Frozen(t, u)
  BY <1>10, <1>11 DEF Goes, Calm
<1> QED
  BY <1>7, <1>12 DEF Stays, Frozen

LEMMA MismatchedStays ==
  ASSUME NEW s, TabInv(s), serverRev \in Revs, NEW u, u = Mismatched(s)
  PROVE  Stays(s, u)
<1>1. s \in TabState /\ s.recovery \in Recovery
  BY DEF TabInv, Kept, TabState
<1>2. CASE s.recovery.phase = "idle"
  BY <1>2, RecoveryStartedStays DEF Mismatched
<1>3. CASE s.recovery.phase # "idle"
  <2>1. PICK v : v = [s.recovery EXCEPT !.requested = TRUE]
    OBVIOUS
  <2>2. v \in Recovery
    BY <1>1, <2>1 DEF Recovery
  <2>3. u = [s EXCEPT !.recovery = v]
    BY <1>1, <1>3, <2>1 DEF Mismatched, TabState
  <2>4. u = [s EXCEPT !.recovery = v, !.sugg = s.sugg] /\ s.sugg \in Suggestions
    BY <1>1, <2>3, SuggestionsSame, Zenon
  <2> QED
    BY <2>2, <2>4, RecoveryChanged
<1> QED
  BY <1>2, <1>3

LEMMA RecoverySettledStays ==
  ASSUME NEW s, TabInv(s), serverRev \in Revs, NEW u, u = RecoverySettled(s)
  PROVE  Stays(s, u)
<1>1. s \in TabState /\ s.recovery \in Recovery /\ s.sugg \in Suggestions
  BY DEF TabInv, Kept, TabState
<1>2. CASE s.recovery.requested
  <2>1. PICK v : v = [s.recovery EXCEPT !.phase = "idle"]
    OBVIOUS
  <2>2. v \in Recovery
    BY <1>1, <2>1 DEF Recovery
  <2>3. PICK t : t = [s EXCEPT !.recovery = v, !.sugg = s.sugg]
    OBVIOUS
  <2>4. Stays(s, t)
    BY <1>1, <2>2, <2>3, RecoveryChanged
  <2>5. t = [s EXCEPT !.recovery.phase = "idle"]
    BY <1>1, <2>1, <2>3 DEF TabState
  <2>6. u = RecoveryStarted(t)
    BY <1>2, <2>5 DEF RecoverySettled
  <2>7. Stays(t, u)
    BY <2>4, <2>6, RecoveryStartedStays DEF Stays
  <2> QED
    BY <2>4, <2>7, StaysTrans
<1>3. CASE ~s.recovery.requested
  <2>1. PICK v : v = [s.recovery EXCEPT !.phase = "idle", !.waits = {}, !.result = "none"]
    OBVIOUS
  <2>2. v \in Recovery
    BY <1>1, <2>1 DEF Recovery
  <2>3. u = [s EXCEPT !.recovery = v, !.sugg = s.sugg]
    BY <1>1, <1>3, <2>1 DEF RecoverySettled, TabState
  <2> QED
    BY <1>1, <2>2, <2>3, RecoveryChanged
<1> QED
  BY <1>2, <1>3

LEMMA NextAttemptStays ==
  ASSUME NEW s, TabInv(s), serverRev \in Revs, NEW u, u = NextAttempt(s)
  PROVE  Stays(s, u)
<1>1. s \in TabState /\ s.recovery \in Recovery /\ s.sugg \in Suggestions
  BY DEF TabInv, Kept, TabState
<1>2. CASE s.recovery.attempt = 2
  BY <1>2, RecoverySettledStays DEF NextAttempt
<1>3. CASE s.recovery.attempt # 2
  <2>1. PICK n : n = s.recovery.attempt + 1
    OBVIOUS
  <2>2. PICK v : v = [s.recovery EXCEPT !.phase = "state", !.attempt = n, !.requested = FALSE,
                                        !.waits = {}, !.result = "none"]
    OBVIOUS
  <2>3. n \in Nat
    BY <1>1, <2>1 DEF Recovery
  <2>4. v \in Recovery
    BY <1>1, <2>2, <2>3 DEF Recovery
  <2>5. u = [s EXCEPT !.recovery = v, !.sugg = s.sugg]
    BY <1>1, <1>3, <2>1, <2>2 DEF NextAttempt, TabState, Recovery
  <2> QED
    BY <1>1, <2>4, <2>5, RecoveryChanged
<1> QED
  BY <1>2, <1>3

LEMMA SuggestionsStartedStays ==
  ASSUME NEW s, TabInv(s), serverRev \in Revs, NEW who \in {"user", "recovery"},
         NEW u, u = SuggestionsStarted(s, who)
  PROVE  Stays(s, u)
<1>1. s \in TabState /\ s.recovery \in Recovery
  BY DEF TabInv, Kept, TabState
<1>2. PICK g : g = [who |-> who, since |-> serverRev]
  OBVIOUS
<1>3. g \in Suggestions
  BY <1>2 DEF Suggestions, Revs
<1>4. CASE who = "user" /\ s.recovery.phase \in {"select", "suggest"}
  <2>1. PICK v : v = [s.recovery EXCEPT !.result = "stale"]
    OBVIOUS
  <2>2. v \in Recovery
    BY <1>1, <2>1 DEF Recovery
  <2>3. PICK t : t = [s EXCEPT !.recovery = v, !.sugg = g]
    OBVIOUS
  <2>4. Stays(s, t)
    BY <1>3, <2>2, <2>3, RecoveryChanged
  <2>5. u = RecoveryHears(t, "suggestions", "stale")
    BY <1>1, <1>2, <1>4, <2>1, <2>3 DEF SuggestionsStarted, TabState
  <2>6. TabInv(t)
    BY <2>4 DEF Stays
  <2>7. Moves(t, u) /\ SameCore(t, u)
    BY <2>5, <2>6, RecoveryHearsMoves
  <2>8. Stays(t, u)
    BY <2>6, <2>7 DEF Moves, Goes, Stays, SameCore, Calm, Frozen
  <2> QED
    BY <2>4, <2>8, StaysTrans
<1>5. CASE ~(who = "user" /\ s.recovery.phase \in {"select", "suggest"})
  <2>1. u = [s EXCEPT !.recovery = s.recovery, !.sugg = g]
    BY <1>1, <1>2, <1>5 DEF SuggestionsStarted, TabState
  <2> QED
    BY <1>1, <1>3, <2>1, RecoveryChanged
<1> QED
  BY <1>4, <1>5

LEMMA RecoverySuggestsStays ==
  ASSUME NEW s, TabInv(s), serverRev \in Revs, NEW u, u = RecoverySuggests(s)
  PROVE  Stays(s, u)
<1>1. s \in TabState /\ s.recovery \in Recovery /\ s.sugg \in Suggestions
  BY DEF TabInv, Kept, TabState
<1>2. PICK v : v = [s.recovery EXCEPT !.phase = "suggest", !.waits = {"suggestions"},
                                      !.result = "none"]
  OBVIOUS
<1>3. v \in Recovery
  BY <1>1, <1>2 DEF Recovery
<1>4. PICK t : t = [s EXCEPT !.recovery = v, !.sugg = s.sugg]
  OBVIOUS
<1>5. Stays(s, t)
  BY <1>1, <1>3, <1>4, RecoveryChanged
<1>6. u = SuggestionsStarted(t, "recovery")
  BY <1>1, <1>2, <1>4 DEF RecoverySuggests, TabState
<1>7. Stays(t, u)
  BY <1>5, <1>6, SuggestionsStartedStays DEF Stays
<1> QED
  BY <1>5, <1>7, StaysTrans

\* The recovery goes on in the same turn.
LEMMA TurnStays ==
  ASSUME NEW s, TabInv(s), serverRev \in Revs, NEW u, u = Turn(s)
  PROVE  Stays(s, u)
<1>1. \/ u = RecoverySettled(s) \/ u = NextAttempt(s) \/ u = RecoverySuggests(s) \/ u = s
  BY DEF Turn
<1>2. u = s => Stays(s, u)
  BY DEF Stays, Frozen
<1> QED
  BY <1>1, <1>2, RecoverySettledStays, NextAttemptStays, RecoverySuggestsStays

\* A step that ends its turn
LEMMA Turned ==
  ASSUME NEW s \in TabState, NEW t, Steps(s, t), serverRev \in Revs, NEW u, u = Turn(t)
  PROVE  Steps(s, u)
<1>1. Stays(t, u)
  BY TurnStays DEF Steps
<1> QED
  BY <1>1, StepsThenStays

-----------------------------------------------------------------------------
(* What the tab shows or searches changes *)

\* All stays but what is searched, and what hangs on it.
Apart(s, u) ==
  /\ u.scope = s.scope /\ u.sess = s.sess /\ u.expr = s.expr /\ u.rev = s.rev
  /\ u.sessionsReady = s.sessionsReady /\ u.loading = s.loading /\ u.req = s.req
  /\ u.inv = s.inv /\ u.events = s.events /\ u.tctx = s.tctx /\ u.surface = s.surface
  /\ u.total = s.total /\ u.recovery = s.recovery /\ u.sugg = s.sugg
  /\ u.timers = s.timers /\ u.highlight = s.highlight

\* The registry follows the search; a new search has nothing pending.
LEMMA TransitionTyped ==
  ASSUME NEW s \in TabState, Booked(s), NEW u, u = Transition(s)
  PROVE  /\ u \in TabState /\ Apart(s, u) /\ Key(u) = Key(s) /\ u.registry.key = Key(u)
         /\ Booked(u) /\ Targets(s, u) /\ Budget(s, u)
         /\ \/ s.registry.key = Key(s) /\ u = s
            \/ s.registry.key # Key(s) /\ u.preload = NoPreload
<1>1. /\ s.registry \in Registry /\ s.nav \in Navigation
      /\ s.preload.pages \in Nat
  BY DEF TabState, Preload
<1>2. CASE s.registry.key = Key(s)
  <2>1. u = s
    BY <1>2 DEF Transition
  <2> QED
    BY <1>1, <1>2, <2>1 DEF Apart, Targets, Budget
<1>3. CASE s.registry.key # Key(s)
  <2>1. PICK g : g = [key |-> Key(s), owners |-> {}]
    OBVIOUS
  <2>2. g \in Registry /\ g.key = Key(s) /\ g.owners = {}
    BY <2>1, KeyTyped DEF Registry
  <2>3. PICK n : n = [s.nav EXCEPT !.queue = 0]
    OBVIOUS
  <2>4. n \in Navigation
    BY <1>1, <2>3 DEF Navigation
  <2>5. u = [s EXCEPT !.registry = g, !.preload = NoPreload, !.nav = n]
    BY <1>3, <2>1, <2>3 DEF Transition, TabState
  <2>6. NoPreload \in Preload /\ NoPreload.key = NoKey /\ NoPreload.pages = 0
    BY DEF NoPreload, Preload
  <2>7. u \in TabState
    <3>1. PICK p : p = NoPreload
      OBVIOUS
    <3>2. p \in Preload /\ g \in Registry
      BY <2>2, <2>6, <3>1
    <3>3. PICK t : t = [s EXCEPT !.registry = g, !.preload = p]
      OBVIOUS
    <3>4. t \in TabState
      BY <3>2, <3>3 DEF TabState
    <3>5. u = [t EXCEPT !.nav = n]
      BY <2>5, <3>1, <3>3 DEF TabState
    <3> QED
      BY <2>4, <3>4, <3>5 DEF TabState
  <2>8. Apart(s, u) /\ u.registry = g /\ u.preload = NoPreload
    BY <2>5 DEF TabState, Apart
  <2>9. Key(u) = Key(s)
    BY <2>8, KeySame DEF Apart
  <2>10. Booked(u)
    BY <2>2, <2>6, <2>8 DEF Booked
  <2>11. Targets(s, u)
    BY <1>3, <2>2, <2>8 DEF Targets
  <2>12. Budget(s, u)
    BY <2>6, <2>8, ResetBudget
  <2> QED
    BY <1>3, <2>2, <2>7, <2>8, <2>9, <2>10, <2>11, <2>12
<1> QED
  BY <1>2, <1>3

\* Another expression is searched in the same place.
LEMMA Reworded ==
  ASSUME NEW s, TabInv(s), NEW e \in Expr, e # s.expr,
         NEW u, u = Transition([s EXCEPT !.expr = e])
  PROVE  Steps(s, u) /\ u.timers = s.timers /\ u.expr = e /\ u.loading = s.loading
<1>1. s \in TabState /\ Kept(s) /\ Seeks(s)
  BY DEF TabInv, Kept
<1>2. PICK t : t = [s EXCEPT !.expr = e]
  OBVIOUS
<1>3. t \in TabState
  BY <1>1, <1>2 DEF TabState
<1>4. /\ t.scope = s.scope /\ t.sess = s.sess /\ t.expr = e /\ t.loading = s.loading
      /\ t.req = s.req /\ t.inv = s.inv /\ t.preload = s.preload /\ t.registry = s.registry
      /\ t.surface = s.surface /\ t.tctx = s.tctx /\ t.events = s.events
      /\ t.timers = s.timers
  BY <1>1, <1>2 DEF TabState
<1>5. Booked(t)
  BY <1>1, <1>4 DEF Kept, Booked
<1>6. /\ u \in TabState /\ Apart(t, u) /\ Key(u) = Key(t) /\ u.registry.key = Key(u)
      /\ Booked(u) /\ Targets(t, u) /\ Budget(t, u)
      /\ \/ t.registry.key = Key(t) /\ u = t
         \/ t.registry.key # Key(t) /\ u.preload = NoPreload
  BY <1>2, <1>3, <1>5, TransitionTyped
<1>7. Key(t) # Key(s)
  BY <1>4 DEF Key
<1>8. ~u.preload.pending
  <2>1. CASE s.scope = "session"
    <3>1. t.registry.key # Key(t)
      BY <1>1, <1>4, <1>7, <2>1 DEF Kept, Placed
    <3> QED
      BY <1>6, <3>1 DEF NoPreload
  <2>2. CASE s.scope # "session"
    <3>1. ~s.preload.pending
      BY <1>1, <2>2 DEF Kept, PendsOn
    <3> QED
      BY <1>4, <1>6, <3>1 DEF NoPreload
  <2> QED
    BY <2>1, <2>2
<1>9. Placed(u) /\ Loads(u) /\ PendsOn(u, u.req)
  BY <1>1, <1>4, <1>6, <1>8 DEF Apart, Kept, Placed, Loads, PendsOn
<1>10. Seeks(u)
  <2>1. u.req = s.req /\ u.events = s.events /\ Offset(u) = Offset(s)
    BY <1>4, <1>6 DEF Apart, Offset
  <2>2. u.preload = s.preload \/ u.preload.pages = 0
    BY <1>4, <1>6 DEF NoPreload
  <2>3. s.req \in BatchReq => s.req.batch.consumed \in Nat
    BY DEF BatchReq, Batch
  <2> QED
    BY <1>1, <1>8, <2>1, <2>2, <2>3 DEF Seeks
<1>11. Targets(s, u) /\ Budget(s, u)
  BY <1>4, <1>6 DEF Targets, Budget
<1> QED
  BY <1>4, <1>6, <1>9, <1>10, <1>11 DEF Steps, TabInv, Kept, Apart

\* A tab in the scope of a session, with nothing in view.
LEMMA Cleared ==
  ASSUME NEW s \in TabState, Booked(s), s.scope = "session", s.sess \in Session,
         NEW t, t = Transition(s),
         NEW u \in TabState, u.scope = t.scope, u.sess = t.sess, u.expr = t.expr,
         u.registry = t.registry, u.surface = NoKey, u.preload = NoPreload
  PROVE  Replaceable(u) /\ Targets(s, u)
<1>1. /\ t \in TabState /\ Apart(s, t) /\ Key(t) = Key(s) /\ t.registry.key = Key(t)
      /\ Booked(t) /\ Targets(s, t)
  BY TransitionTyped
<1>2. Key(u) = Key(t)
  BY KeySame
<1>3. NoPreload.pages = 0
  BY DEF NoPreload
<1>4. Placed(u) /\ Booked(u)
  BY <1>1, <1>2, <1>3 DEF Placed, Booked, Apart
<1> QED
  BY <1>1, <1>4 DEF Replaceable, Apart, Targets

\* A session is opened.
LEMMA SelectedSteps ==
  ASSUME NEW s, TabInv(s), NEW sess \in Session, NEW who \in {"user", "recovery"},
         serverRev \in Revs, NEW u, u = Selected(s, sess, who)
  PROVE  Steps(s, u)
<1>1. s \in TabState /\ Booked(s)
  BY DEF TabInv, Kept
<1>2. PICK a : a = [s EXCEPT !.scope = "session", !.sess = sess, !.loading = FALSE]
  OBVIOUS
<1>3. a \in TabState
  BY <1>1, <1>2 DEF TabState
<1>4. /\ a.scope = "session" /\ a.sess = sess /\ a.registry = s.registry
      /\ a.preload = s.preload
  BY <1>1, <1>2 DEF TabState
<1>5. Booked(a)
  BY <1>1, <1>4 DEF Booked
<1>6. PICK t : t = Transition(a)
  OBVIOUS
<1>7. t \in TabState /\ Apart(a, t)
  BY <1>3, <1>5, <1>6, TransitionTyped
<1>8. PICK v : v = [t EXCEPT !.events = <<>>, !.tctx = NoKey, !.surface = NoKey,
                             !.preload = NoPreload]
  OBVIOUS
<1>9. v \in TabState
  <2>1. <<>> \in Seq(Event) /\ NoKey \in Contexts /\ NoPreload \in Preload
    BY DEF Contexts, NoPreload, Preload
  <2> QED
    BY <1>7, <1>8, <2>1 DEF TabState
<1>10. /\ v.scope = t.scope /\ v.sess = t.sess /\ v.expr = t.expr /\ v.registry = t.registry
       /\ v.surface = NoKey /\ v.preload = NoPreload
  BY <1>7, <1>8 DEF TabState
<1>11. Replaceable(v) /\ Targets(a, v)
  BY <1>3, <1>4, <1>5, <1>6, <1>9, <1>10, Cleared
<1>12. PICK w : w = Replaced(v, "replace", who, PageSize, serverRev)
  OBVIOUS
<1>13. TabInv(w) /\ Calm(v, w) /\ Frozen(v, w)
  BY <1>11, <1>12, ReplacedGoes, Numbers
<1>14. u = SuggestionsStarted(w, who)
  BY <1>2, <1>6, <1>8, <1>12 DEF Selected
<1>15. Stays(w, u)
  BY <1>13, <1>14, SuggestionsStartedStays
<1>16. Targets(s, w)
  BY <1>4, <1>11, <1>13 DEF Targets, Calm
<1>17. Budget(s, w)
  <2>1. w.preload.key = NoKey /\ w.preload.pages = 0
    BY <1>10, <1>13 DEF Frozen, NoPreload
  <2> QED
    BY <1>1, <2>1, ResetBudget
<1> QED
  BY <1>13, <1>15, <1>16, <1>17, StepsThenStays DEF Steps

\* What the tab shows may always be dropped.
LEMMA EmptyTyped ==
  ASSUME NEW s \in TabState
  PROVE  /\ [s EXCEPT !.loading = FALSE, !.events = <<>>, !.tctx = NoKey,
                      !.preload = NoPreload] \in TabState
         /\ [s EXCEPT !.retry = NoRetry, !.inv = "none", !.preload = NoPreload, !.req = NoReq,
                      !.loading = FALSE, !.surface = NoKey] \in TabState
<1>1. <<>> \in Seq(Event) /\ NoKey \in Contexts /\ NoPreload \in Preload
  BY DEF Contexts, NoPreload, Preload
<1>2. \A p \in Preload :
        [s EXCEPT !.loading = FALSE, !.events = <<>>, !.tctx = NoKey, !.preload = p] \in TabState
  BY <1>1, Zenon DEF TabState
<1>3. \A p \in Preload :
        [s EXCEPT !.retry = NoRetry, !.inv = "none", !.preload = p, !.req = NoReq,
                  !.loading = FALSE, !.surface = NoKey] \in TabState
  BY <1>1, Zenon DEF TabState
<1> QED
  BY <1>1, <1>2, <1>3, Zenon

\* The search is of the whole project.
LEMMA LeaveForProjectSteps ==
  ASSUME NEW s, TabInv(s), s.scope = "session", serverRev \in Revs,
         NEW there, there = Transition([s EXCEPT !.scope = "project"]),
         NEW left, left = [ReplacementBegun(there) EXCEPT
                             !.req = NoReq, !.loading = FALSE, !.surface = NoKey,
                             !.preload = NoPreload],
         NEW gone, gone = IF s.req = NoReq THEN left
                          ELSE Ended(left, s.req, "stale", FALSE, serverRev),
         NEW u, u = SuggestionsStarted(gone, "user")
  PROVE  Steps(s, u)
<1>1. s \in TabState /\ Booked(s) /\ s.req \in Requests \cup {NoReq}
  BY DEF TabInv, Kept, TabState
<1>2. PICK a : a = [s EXCEPT !.scope = "project"]
  OBVIOUS
<1>3. a \in TabState
  BY <1>1, <1>2, ScopeTyped, Zenon
<1>4. a.scope = "project" /\ a.registry = s.registry /\ a.preload = s.preload
  BY <1>1, <1>2 DEF TabState
<1>5. Booked(a)
  BY <1>1, <1>4 DEF Booked
<1>6. /\ there \in TabState /\ there.scope = "project" /\ Booked(there) /\ Targets(a, there)
  BY <1>2, <1>3, <1>4, <1>5, TransitionTyped DEF Apart
<1>7. left = [there EXCEPT !.retry = NoRetry, !.inv = "none", !.preload = NoPreload,
                           !.req = NoReq, !.loading = FALSE, !.surface = NoKey]
  BY <1>6, LeavingSame, Zenon
<1>8. left \in TabState
  <2>1. [there EXCEPT !.retry = NoRetry, !.inv = "none", !.preload = NoPreload, !.req = NoReq,
                      !.loading = FALSE, !.surface = NoKey] \in TabState
    BY <1>6, EmptyTyped, Zenon
  <2> QED
    BY <1>7, <2>1, Zenon
<1>9. /\ left.scope = "project" /\ left.req = NoReq /\ left.surface = NoKey
      /\ left.preload = NoPreload /\ left.registry = there.registry
  BY <1>6, <1>7 DEF TabState
<1>10. /\ NoPreload.key = NoKey /\ NoPreload.pages = 0 /\ ~NoPreload.pending
  BY DEF NoPreload
<1>11. Placed(left) /\ Loads(left) /\ Booked(left)
  BY <1>6, <1>9, <1>10 DEF Placed, Loads, Booked
<1>12. Seeks(left)
  BY <1>9, RequestKinds DEF Seeks, Requests
<1>13. \A r : PendsOn(left, r)
  BY <1>9, <1>10 DEF PendsOn
<1>14. Stays(left, gone)
  <2>1. CASE s.req = NoReq
    <3>1. TabInv(left)
      BY <1>8, <1>11, <1>12, <1>13 DEF TabInv, Kept
    <3> QED
      BY <2>1, <3>1 DEF Stays, Frozen
  <2>2. CASE s.req # NoReq
    <3>1. PICK r : r = s.req
      OBVIOUS
    <3>2. r \in Requests
      BY <1>1, <2>2, <3>1
    <3>3. PendsOn(left, IF r \in BatchReq THEN r ELSE left.req)
      BY <1>13
    <3>4. Loose(left, r)
      BY <1>8, <1>11, <1>12, <3>2, <3>3 DEF Loose
    <3>5. gone = Ended(left, r, "stale", FALSE, serverRev)
      BY <2>2, <3>1
    <3>6. Moves(left, gone)
      BY <3>4, <3>5, EndedMoves
    <3>7. ~Ready(left)
      BY <1>9 DEF Ready
    <3> QED
      BY <3>6, <3>7 DEF Moves, Goes, Calm, Stays
  <2> QED
    BY <2>1, <2>2
<1>15. Stays(gone, u)
  BY <1>14, SuggestionsStartedStays DEF Stays
<1>16. Stays(left, u)
  BY <1>14, <1>15, StaysTrans
<1>17. Targets(s, u)
  BY <1>4, <1>6, <1>9, <1>16 DEF Targets, Stays
<1>18. Budget(s, u)
  <2>1. u.preload.key = NoKey /\ u.preload.pages = 0
    BY <1>9, <1>10, <1>16 DEF Stays, Frozen
  <2> QED
    BY <1>1, <2>1, ResetBudget
<1> QED
  BY <1>16, <1>17, <1>18 DEF Steps, Stays

\* A result of the project is opened in its session.
LEMMA DrillDownSteps ==
  ASSUME NEW s, TabInv(s), s.scope = "project", NEW sess \in Session, NEW want \in Nat,
         serverRev \in Revs,
         NEW there, there = Transition([s EXCEPT !.scope = "session", !.sess = sess]),
         NEW empty, empty = [there EXCEPT !.loading = FALSE, !.events = <<>>, !.tctx = NoKey,
                                          !.preload = NoPreload],
         NEW u, u = SuggestionsStarted(Replaced(empty, "prefix", "user", want, serverRev),
                                       "user")
  PROVE  Steps(s, u)
<1>1. s \in TabState /\ Booked(s) /\ s.surface = NoKey
  BY DEF TabInv, Kept, Placed
<1>2. PICK a : a = [s EXCEPT !.scope = "session", !.sess = sess]
  OBVIOUS
<1>3. a \in TabState
  BY <1>1, <1>2 DEF TabState
<1>4. /\ a.scope = "session" /\ a.sess = sess /\ a.registry = s.registry
      /\ a.preload = s.preload /\ a.surface = NoKey
  BY <1>1, <1>2 DEF TabState
<1>5. Booked(a)
  BY <1>1, <1>4 DEF Booked
<1>6. there = Transition(a)
  BY <1>2
<1>7. there \in TabState /\ Apart(a, there)
  BY <1>3, <1>5, <1>6, TransitionTyped
<1>8. empty \in TabState
  BY <1>7, EmptyTyped
<1>9. /\ empty.scope = there.scope /\ empty.sess = there.sess /\ empty.expr = there.expr
      /\ empty.registry = there.registry /\ empty.surface = there.surface
      /\ empty.preload = NoPreload
  BY <1>7 DEF TabState
<1>10. there.surface = NoKey
  BY <1>4, <1>7 DEF Apart
<1>11. Replaceable(empty) /\ Targets(a, empty)
  BY <1>3, <1>4, <1>5, <1>6, <1>8, <1>9, <1>10, Cleared
<1>12. PICK w : w = Replaced(empty, "prefix", "user", want, serverRev)
  OBVIOUS
<1>13. TabInv(w) /\ Calm(empty, w) /\ Frozen(empty, w)
  BY <1>11, <1>12, ReplacedGoes
<1>14. Stays(w, u)
  BY <1>12, <1>13, SuggestionsStartedStays
<1>15. Targets(s, w)
  BY <1>4, <1>11, <1>13 DEF Targets, Calm
<1>16. Budget(s, w)
  <2>1. w.preload.key = NoKey /\ w.preload.pages = 0
    BY <1>9, <1>13 DEF Frozen, NoPreload
  <2> QED
    BY <1>1, <2>1, ResetBudget
<1> QED
  BY <1>13, <1>14, <1>15, <1>16, StepsThenStays DEF Steps

\* No session is left.
LEMMA EmptiedSteps ==
  ASSUME NEW s, TabInv(s), serverRev \in Revs, NEW u, u = Emptied(s)
  PROVE  Steps(s, u)
<1>1. s \in TabState /\ Kept(s) /\ Seeks(s) /\ s.req \in Requests \cup {NoReq}
  BY DEF TabInv, Kept, TabState
<1>2. PICK r : r = IF s.req = NoReq THEN NoReq ELSE [s.req EXCEPT !.latest = FALSE]
  OBVIOUS
<1>3. /\ r \in Requests \cup {NoReq}
      /\ r # NoReq => ~r.latest
      /\ r \in BatchReq => s.req \in BatchReq /\ r.who = s.req.who /\ r.batch = s.req.batch
  <2>1. CASE s.req = NoReq
    BY <1>2, <2>1, RequestKinds DEF Requests
  <2>2. CASE s.req # NoReq
    <3>1. r = [s.req EXCEPT !.latest = FALSE]
      BY <1>2, <2>2
    <3>2. CASE s.req \in PageReq
      <4>1. r \in PageReq /\ ~r.latest
        BY <3>1, <3>2 DEF PageReq
      <4> QED
        BY <4>1, RequestKinds DEF Requests
    <3>3. CASE s.req \in BatchReq
      <4>1. r \in BatchReq /\ ~r.latest /\ r.who = s.req.who /\ r.batch = s.req.batch
        BY <3>1, <3>3 DEF BatchReq
      <4> QED
        BY <3>3, <4>1, RequestKinds DEF Requests
    <3> QED
      BY <1>1, <2>2, <3>2, <3>3 DEF Requests
  <2> QED
    BY <2>1, <2>2
<1>4. PICK t : t = [s EXCEPT
                      !.sess = NoSession, !.scope = "project", !.events = <<>>, !.tctx = NoKey,
                      !.total = 0, !.surface = NoKey, !.preload = NoPreload, !.req = r]
  OBVIOUS
<1>5. u = RecoverySuggests(t)
  BY <1>1, <1>2, <1>4 DEF Emptied, TabState
<1>6. t \in TabState
  <2>1. <<>> \in Seq(Event) /\ NoKey \in Contexts /\ NoPreload \in Preload
    BY DEF Contexts, NoPreload, Preload
  <2> QED
    BY <1>1, <1>3, <1>4, <2>1 DEF TabState
<1>7. /\ t.scope = "project" /\ t.surface = NoKey /\ t.preload = NoPreload /\ t.req = r
      /\ t.registry = s.registry
  BY <1>1, <1>4 DEF TabState
<1>8. NoPreload.key = NoKey /\ NoPreload.pages = 0 /\ ~NoPreload.pending
  BY DEF NoPreload
<1>9. Placed(t) /\ PendsOn(t, t.req)
  BY <1>7, <1>8 DEF Placed, PendsOn
<1>10. Loads(t)
  BY <1>3, <1>7 DEF Loads
<1>11. Booked(t)
  BY <1>1, <1>7, <1>8 DEF Kept, Booked
<1>12. Seeks(t)
  <2>1. r \in BatchReq => r # NoReq /\ r.batch.consumed \in Nat
    BY RequestKinds DEF BatchReq, Batch, Requests
  <2> QED
    BY <1>1, <1>3, <1>7, <1>8, <2>1 DEF Seeks
<1>13. TabInv(t)
  BY <1>6, <1>9, <1>10, <1>11, <1>12 DEF TabInv, Kept
<1>14. Targets(s, t)
  BY <1>7 DEF Targets
<1>15. Budget(s, t)
  BY <1>1, <1>7, <1>8, ResetBudget DEF Kept
<1>16. Stays(t, u)
  BY <1>5, <1>13, RecoverySuggestsStays
<1> QED
  BY <1>13, <1>14, <1>15, <1>16, StepsThenStays DEF Steps

\* The list of the sessions is there.
LEMMA ListedSteps ==
  ASSUME NEW s, TabInv(s), NEW sess \in Session \cup {NoSession}, serverRev \in Revs,
         NEW u, u = Listed(s, sess)
  PROVE  Steps(s, u)
<1>1. s \in TabState /\ Kept(s) /\ Seeks(s)
  BY DEF TabInv, Kept
<1>2. CASE sess = NoSession
  BY <1>2, EmptiedSteps DEF Listed
<1>3. CASE sess # NoSession /\ s.scope = "project"
  <2>1. PICK t : t = [s EXCEPT !.sess = sess]
    OBVIOUS
  <2>2. u = RecoverySuggests(t)
    BY <1>3, <2>1 DEF Listed
  <2>3. t \in TabState
    BY <1>1, <2>1 DEF TabState
  <2>4. /\ t.scope = "project" /\ t.loading = s.loading /\ t.req = s.req
        /\ t.preload = s.preload /\ t.registry = s.registry /\ t.surface = s.surface
        /\ t.tctx = s.tctx /\ t.events = s.events
    BY <1>1, <1>3, <2>1 DEF TabState
  <2>5. Placed(t) /\ Loads(t) /\ Booked(t)
    BY <1>1, <1>3, <2>4 DEF Kept, Placed, Loads, Booked
  <2>6. PendsOn(t, t.req)
    BY <1>1, <1>3, <2>4 DEF Kept, PendsOn
  <2>7. Seeks(t)
    BY <1>1, <2>4 DEF Seeks, Offset
  <2>8. TabInv(t)
    BY <2>3, <2>5, <2>6, <2>7 DEF TabInv, Kept
  <2>9. Stays(t, u)
    BY <2>2, <2>8, RecoverySuggestsStays
  <2>10. Stays(s, t)
    BY <2>4, <2>8 DEF Stays, Frozen
  <2>11. Stays(s, u)
    BY <2>9, <2>10, StaysTrans
  <2>12. s.preload.pages \in Nat
    BY <1>1, PagesTyped
  <2> QED
    BY <2>11, <2>12 DEF Stays, Steps, Frozen, Targets, Budget
<1>4. CASE sess # NoSession /\ s.scope # "project"
  <2>1. PICK c : c = Selected(s, sess, "recovery")
    OBVIOUS
  <2>2. Steps(s, c)
    BY <1>4, <2>1, SelectedSteps
  <2>3. c \in TabState /\ c.recovery \in Recovery /\ c.sugg \in Suggestions
    BY <2>2 DEF Steps, TabInv, Kept, TabState
  <2>4. PICK v : v = [c.recovery EXCEPT !.phase = "select", !.result = "none",
                                        !.waits = {"timeline", "suggestions"}]
    OBVIOUS
  <2>5. v \in Recovery
    BY <2>3, <2>4 DEF Recovery
  <2>6. u = [c EXCEPT !.recovery.phase = "select", !.recovery.result = "none",
                      !.recovery.waits = {"timeline", "suggestions"}]
    BY <1>4, <2>1 DEF Listed
  <2>7. u = [c EXCEPT !.recovery = v, !.sugg = c.sugg]
    BY <2>3, <2>4, <2>6 DEF TabState
  <2>8. TabInv(c)
    BY <2>2 DEF Steps
  <2>9. Stays(c, u)
    BY <2>3, <2>5, <2>7, <2>8, RecoveryChanged
  <2> QED
    BY <2>2, <2>9, StepsThenStays
<1> QED
  BY <1>2, <1>3, <1>4

LEMMA StaysSteps ==
  ASSUME NEW s \in TabState, NEW u, Stays(s, u)
  PROVE  Steps(s, u)
<1>1. s.preload.pages \in Nat
  BY PagesTyped
<1> QED
  BY <1>1 DEF Stays, Steps, Frozen, Targets, Budget

LEMMA SameSteps ==
  ASSUME NEW s, NEW u \in TabState, TabInv(s), SameCore(s, u)
  PROVE  Steps(s, u)
<1>1. Stays(s, u)
  BY SameStays
<1>2. s \in TabState
  BY DEF TabInv, Kept
<1> QED
  BY <1>1, <1>2, StaysSteps

LEMMA TabTyped ==
  ASSUME TimelineInv
  PROVE  /\ TabInv(tab) /\ Kept(tab) /\ Seeks(tab) /\ Placed(tab) /\ Loads(tab) /\ Booked(tab)
         /\ PendsOn(tab, tab.req) /\ tab \in TabState
         /\ serverRev \in Revs /\ serverRev \in Nat
         /\ tab.recovery \in Recovery /\ tab.sugg \in Suggestions /\ tab.nav \in Navigation
         /\ tab.preload \in Preload /\ tab.registry \in Registry /\ tab.chase \in Chase
         /\ Key(tab) \in TabKeys /\ Key(tab) # NoKey /\ Offset(tab) \in Nat
         /\ tab.scope = "session" => tab.sess \in Session /\ Key(tab) \in SessionKeys
<1>1. /\ TabInv(tab) /\ Kept(tab) /\ Seeks(tab) /\ Placed(tab) /\ Loads(tab) /\ Booked(tab)
      /\ PendsOn(tab, tab.req) /\ tab \in TabState /\ serverRev \in Revs
  BY DEF TimelineInv, TabInv, Kept
<1>2. /\ tab.recovery \in Recovery /\ tab.sugg \in Suggestions /\ tab.nav \in Navigation
      /\ tab.preload \in Preload /\ tab.registry \in Registry /\ tab.chase \in Chase
  BY <1>1 DEF TabState
<1>3. tab.scope = "session" => tab.sess \in Session
  BY <1>1 DEF Placed
<1>4. serverRev \in Nat
  BY <1>1 DEF Revs
<1> QED
  BY <1>1, <1>2, <1>3, <1>4, KeyTyped

\* An action of the tab
Advances == Steps(tab, tab') /\ serverRev' = serverRev /\ acts' \in Nat

LEMMA TurnEnds ==
  ASSUME TimelineInv, NEW t, Steps(tab, t), Acts(t) \/ Does(t)
  PROVE  Advances
<1>1. tab' = Turn(t) /\ serverRev' = serverRev /\ (acts' = acts \/ acts' = acts + 1)
  BY DEF Acts, Does
<1>2. Steps(tab, tab')
  BY <1>1, TabTyped, Turned
<1>3. acts \in Nat
  BY DEF TimelineInv
<1> QED
  BY <1>1, <1>2, <1>3 DEF Advances

-----------------------------------------------------------------------------
(* Answers *)

LEMMA AnsweredTyped ==
  ASSUME NEW key \in SessionKeys, NEW rev \in Revs
  PROVE  /\ Answered(key, rev) \in Seq(Ids)
         /\ Len(Answered(key, rev)) \in Nat
<1>1. key.sess \in Session /\ key.expr \in Expr
  BY DEF SessionKeys
<1>2. Answered(key, rev) \in Seq(Ids)
  BY <1>1, BrowserAssumption DEF Answered, Revs
<1> QED
  BY <1>2

LEMMA PageTyped ==
  ASSUME NEW key \in SessionKeys, NEW rev \in Revs, NEW from \in Nat, NEW limit \in Int
  PROVE  Page(key, rev, from, limit) \in Seq(Event)
<1>1. PICK ids : ids = Answered(key, rev)
  OBVIOUS
<1>2. ids \in Seq(Ids) /\ Len(ids) \in Nat
  BY <1>1, AnsweredTyped
<1>3. PICK n : n = IF Len(ids) - from < limit THEN Len(ids) - from ELSE limit
  OBVIOUS
<1>4. n \in Int /\ n <= Len(ids) - from
  BY <1>2, <1>3
<1>5. PICK m : m = IF n < 0 THEN 0 ELSE n
  OBVIOUS
<1>6. m \in Nat /\ 1..n = 1..m
  BY <1>4, <1>5
<1>7. ASSUME NEW k \in 1..m
      PROVE  [key |-> key, rev |-> rev, id |-> ids[from + k]] \in Event
  <2>1. from + k \in 1..Len(ids)
    BY <1>2, <1>4, <1>5, <1>6
  <2>2. ids[from + k] \in Ids
    BY <1>2, <2>1
  <2> QED
    BY <2>2 DEF Event
<1>8. Page(key, rev, from, limit)
        = [k \in 1..m |-> [key |-> key, rev |-> rev, id |-> ids[from + k]]]
  BY <1>1, <1>3, <1>6 DEF Page
<1>9. Page(key, rev, from, limit) \in [1..m -> Event]
  BY <1>7, <1>8
<1> QED
  BY <1>6, <1>9

\* A batch collects a page.
LEMMA AcceptedTyped ==
  ASSUME NEW b \in Batch, NEW page \in Seq(Event), NEW total \in Nat,
         NEW d, d = Accepted(b, page, total)
  PROVE  /\ d \in Batch /\ d.kind = b.kind /\ d.base = b.base /\ d.consumed = b.consumed
         /\ d.accepted = b.accepted \o page
<1>1. PICK acc : acc = b.accepted \o page
  OBVIOUS
<1>2. b.accepted \in Seq(Event)
  BY DEF Batch
<1>3. acc \in Seq(Event)
  BY <1>1, <1>2
<1>4. PICK hits : hits = b.hits \cup HitsIn(page)
  OBVIOUS
<1>5. hits \in SUBSET Ids
  BY <1>4, HitsTyped DEF Batch
<1>6. d = [b EXCEPT !.accepted = acc, !.total = total, !.hits = hits, !.active = FALSE]
  BY <1>1, <1>4 DEF Accepted, Batch
<1>7. d \in Batch
  BY <1>3, <1>5, <1>6 DEF Batch
<1>8. d.kind = b.kind /\ d.base = b.base /\ d.consumed = b.consumed /\ d.accepted = acc
  BY <1>6 DEF Batch
<1> QED
  BY <1>1, <1>7, <1>8

LEMMA FailedTyped ==
  ASSUME NEW b \in Batch, NEW d, d = Failed(b)
  PROVE  /\ d \in Batch /\ d.kind = b.kind /\ d.base = b.base /\ d.consumed = b.consumed
         /\ d.accepted = b.accepted /\ d.total = b.total
BY DEF Failed, Batch

LEMMA SuccessorTyped ==
  ASSUME NEW b \in Batch, b.kind = "preload", NEW d, d = Successor(b)
  PROVE  /\ d \in Batch /\ d.kind = b.kind /\ d.consumed = b.consumed
         /\ d.base = b.base + Len(b.accepted) /\ d.accepted = <<>> /\ d.total = b.total
<1>1. /\ b.base \in Nat /\ b.total \in Nat /\ b.consumed \in Nat /\ Len(b.accepted) \in Nat
      /\ b.hits \in SUBSET Ids /\ b.direction \in {"none", "forward", "reverse"}
  BY DEF Batch
<1>2. PICK n : n = b.base + Len(b.accepted)
  OBVIOUS
<1>3. n \in Nat
  BY <1>1, <1>2
<1>4. d = Created("preload", b.direction, n, b.total, b.consumed, b.hits)
  BY <1>2 DEF Successor, LoadedOffset
<1>5. "preload" \in Seekers
  BY DEF Seekers
<1> QED
  BY <1>1, <1>2, <1>3, <1>4, <1>5, CreatedTyped

\* An answer is committed and drawn.
LEMMA CommittedKept ==
  ASSUME NEW s, Kept(s), NEW r \in Requests, r.key = Key(s), NEW events \in Seq(Event),
         NEW u, u = Committed(s, r, events)
  PROVE  /\ Kept(u) /\ Held(s, u) /\ Grows(s, u) /\ Key(u) = Key(s)
         /\ u.events = events /\ u.tctx = r.key
<1>1. s \in TabState
  BY DEF Kept
<1>2. r.key \in SessionKeys /\ r.rev \in Revs
  BY DEF Requests, PageReq, BatchReq
<1>3. PICK n : n = Len(Answered(r.key, r.rev))
  OBVIOUS
<1>4. n \in Nat
  BY <1>2, <1>3, AnsweredTyped
<1>5. PICK t : t = [s EXCEPT !.events = events, !.tctx = r.key, !.total = n]
  OBVIOUS
<1>6. t \in TabState
  <2>1. r.key \in Contexts
    BY <1>2 DEF Contexts
  <2> QED
    BY <1>1, <1>4, <1>5, <2>1 DEF TabState
<1>7. /\ Held(s, t) /\ t.registry = s.registry /\ t.events = events /\ t.tctx = r.key
  BY <1>1, <1>5 DEF TabState, Held
<1>8. Key(t) = Key(s)
  BY <1>7, KeySame DEF Held
<1>9. Loads(t) /\ PendsOn(t, t.req) /\ Booked(t)
  BY <1>7, <1>8 DEF Kept, Held, Loads, PendsOn, Booked
<1>10. t.scope = "session" => t.sess \in Session /\ t.registry.key = Key(t)
  BY <1>7, <1>8 DEF Kept, Placed, Held
<1>11. u = Rendered(t)
  BY <1>3, <1>5 DEF Committed
<1>12. /\ Kept(u) /\ Held(t, u) /\ Grows(t, u) /\ Key(u) = Key(t)
       /\ u.events = t.events /\ u.tctx = t.tctx
  BY <1>6, <1>9, <1>10, <1>11, RenderedKept
<1>13. Held(s, u)
  BY <1>7, <1>12 DEF Held
<1>14. Grows(s, u)
  BY <1>7, <1>12 DEF Grows
<1> QED
  BY <1>7, <1>8, <1>12, <1>13, <1>14

LEMMA HeldSteps ==
  ASSUME NEW s \in TabState, NEW t, Kept(t), Held(s, t), Grows(s, t), NEW u, Goes(t, u)
  PROVE  Steps(s, u)
<1>1. TabInv(u) /\ u.registry = t.registry /\ Spends(t, u)
  BY DEF Goes, Calm
<1>2. Targets(s, u)
  BY <1>1 DEF Grows, Targets
<1>3. Budget(s, u)
  BY <1>1 DEF Held, Spends, Budget
<1> QED
  BY <1>1, <1>2, <1>3 DEF Steps

\* A request is answered with what is committed, and ends.
LEMMA CommittedSteps ==
  ASSUME NEW s, Kept(s), NEW r \in Requests, s.req = r, r.key = Key(s),
         NEW events \in Seq(Event), serverRev \in Revs, NEW outcome, NEW exhausted \in BOOLEAN,
         NEW u, u = Settled(Committed(s, r, events), r, outcome, exhausted, serverRev)
  PROVE  Steps(s, u)
<1>1. PICK c : c = Committed(s, r, events)
  OBVIOUS
<1>2. Kept(c) /\ Held(s, c) /\ Grows(s, c)
  BY <1>1, CommittedKept
<1>3. c.req = r
  BY <1>2 DEF Held
<1>4. u = Settled(c, r, outcome, exhausted, serverRev)
  BY <1>1
<1>5. Goes(c, u)
  BY <1>2, <1>3, <1>4, SettledGoes
<1>6. s \in TabState
  BY DEF Kept
<1> QED
  BY <1>2, <1>5, <1>6, HeldSteps

LEMMA SettledSteps ==
  ASSUME NEW s, Kept(s), NEW r \in Requests, s.req = r, serverRev \in Revs, NEW outcome,
         NEW exhausted \in BOOLEAN, NEW u, u = Settled(s, r, outcome, exhausted, serverRev)
  PROVE  Steps(s, u)
<1>1. Goes(s, u)
  BY SettledGoes
<1>2. s \in TabState
  BY DEF Kept
<1> QED
  BY <1>1, <1>2, GoesSteps

\* A request of pages fails.
LEMMA FailureSteps ==
  ASSUME NEW s, TabInv(s), NEW r \in PageReq, s.req = r, serverRev \in Revs,
         NEW u, u = Failure(s, r)
  PROVE  Steps(s, u)
<1>1. Kept(s) /\ s \in TabState /\ r \in Requests
  BY DEF TabInv, Kept, Requests
<1>2. CASE r.kind # "append" /\ Current(s, r)
  <2>1. PICK y : y = [key |-> r.key, kind |-> r.kind, want |-> r.want]
    OBVIOUS
  <2>2. y \in Retry
    BY <1>2, <2>1 DEF PageReq, Retry
  <2>3. PICK t : t = [s EXCEPT !.retry = y]
    OBVIOUS
  <2>4. t \in TabState
    BY <1>1, <2>2, <2>3 DEF TabState
  <2>5. SameCore(s, t)
    BY <1>1, <2>3 DEF TabState, SameCore, Calm
  <2>6. Stays(s, t)
    BY <2>4, <2>5, SameStays
  <2>7. u = Settled(t, r, "error", FALSE, serverRev)
    BY <1>2, <2>1, <2>3 DEF Failure
  <2>8. Kept(t) /\ t.req = r
    BY <2>5, <2>6 DEF Stays, TabInv, SameCore
  <2>9. Goes(t, u)
    BY <1>1, <2>7, <2>8, SettledGoes
  <2> QED
    BY <1>1, <2>6, <2>9, StaysGoes
<1>3. CASE ~(r.kind # "append" /\ Current(s, r))
  <2>1. u = Settled(s, r, "error", FALSE, serverRev)
    BY <1>3 DEF Failure
  <2> QED
    BY <1>1, <2>1, SettledSteps
<1> QED
  BY <1>2, <1>3

\* A request of pages goes on with the next one.
LEMMA MorePagesSteps ==
  ASSUME NEW s, TabInv(s), NEW r \in PageReq, s.req = r, NEW got \in Seq(Event),
         NEW ok \in BOOLEAN,
         NEW u, u = [s EXCEPT !.req = [r EXCEPT !.got = got, !.rev = s.rev, !.ok = ok]]
  PROVE  Steps(s, u)
<1>1. Kept(s) /\ s \in TabState /\ s.rev \in Revs
  BY DEF TabInv, Kept, TabState
<1>2. PICK q : q = [r EXCEPT !.got = got, !.rev = s.rev, !.ok = ok]
  OBVIOUS
<1>3. q \in PageReq /\ q.latest = r.latest
  BY <1>1, <1>2 DEF PageReq
<1>4. q \in Requests /\ q \notin BatchReq /\ r \notin BatchReq /\ q # NoReq /\ r # NoReq
  BY <1>3, RequestKinds DEF Requests
<1>5. u = [s EXCEPT !.req = q]
  BY <1>2
<1>6. u \in TabState
  BY <1>1, <1>4, <1>5, RequestInTab, Zenon
<1>7. /\ Calm(s, u) /\ u.loading = s.loading /\ u.req = q /\ u.inv = s.inv
      /\ u.preload = s.preload
  BY <1>1, <1>5 DEF TabState, Calm
<1>8. Key(u) = Key(s)
  BY <1>7, CalmKey
<1>9. ~s.preload.pending
  BY <1>1, <1>4 DEF Kept, PendsOn
<1>10. Placed(u) /\ Booked(u) /\ PendsOn(u, u.req)
  BY <1>1, <1>7, <1>8, <1>9 DEF Kept, Placed, Booked, PendsOn, Calm
<1>11. Loads(u)
  BY <1>1, <1>3, <1>4, <1>7 DEF Kept, Loads, Calm
<1>12. Seeks(u)
  BY <1>4, <1>7 DEF Seeks
<1>13. Stays(s, u)
  BY <1>6, <1>7, <1>10, <1>11, <1>12 DEF Stays, TabInv, Kept, Calm, Frozen
<1>14. s.preload.pages \in Nat
  BY <1>1, PagesTyped
<1> QED
  BY <1>13, <1>14 DEF Stays, Steps, Frozen, Targets, Budget

\* A page of the timeline is answered (AnswerPage).
LEMMA AnswerPageSteps ==
  ASSUME TimelineInv, AnswerPage
  PROVE  Advances
<1>1. TabInv(tab) /\ Kept(tab) /\ tab \in TabState /\ serverRev \in Revs
  BY DEF TimelineInv, TabInv, Kept
<1> DEFINE r == tab.req
           from == IF r.kind = "append" THEN r.want ELSE Len(r.got)
           limit == IF r.kind \in {"replace", "append"} THEN PageSize
                    ELSE IF r.want - from < Chunk THEN r.want - from ELSE Chunk
           page == Page(r.key, r.rev, from, limit)
           got == (IF r.kind = "append" THEN tab.events ELSE r.got) \o page
           stale == ~Current(tab, r) \/ (r.kind = "append" /\ r.want # Offset(tab))
           more == /\ r.kind \in {"find", "prefix"} /\ page # <<>>
                   /\ Len(got) < r.want /\ Len(got) < Len(Answered(r.key, r.rev))
<1>2. r \in PageReq /\ r \in Requests
  <2>1. r \in Requests \cup {NoReq} /\ r.kind # "batch" /\ r # NoReq
    BY <1>1 DEF TabState, AnswerPage, IsPaged, NoReq
  <2> QED
    BY <2>1, RequestKinds DEF Requests
<1>3. got \in Seq(Event)
  <2>1. /\ r.want \in Nat /\ r.got \in Seq(Event) /\ Len(r.got) \in Nat /\ r.key \in SessionKeys
        /\ r.rev \in Revs /\ tab.events \in Seq(Event)
    BY <1>1, <1>2 DEF PageReq, TabState
  <2>2. from \in Nat
    BY <2>1
  <2>3. limit \in Int
    BY <2>1, <2>2, Numbers
  <2>4. page \in Seq(Event)
    BY <2>1, <2>2, <2>3, PageTyped
  <2> QED
    BY <2>1, <2>4
<1>4. PICK t : /\ Does(t)
               /\ t = CASE stale -> Settled(tab, r, "stale", FALSE, serverRev)
                        [] ~stale /\ more ->
                             [tab EXCEPT !.req = [r EXCEPT !.got = got, !.rev = tab.rev,
                                                           !.ok = tab.rev = serverRev]]
                        [] ~stale /\ ~more /\ ~Unique(got) -> Failure(tab, r)
                        [] OTHER -> Settled(Committed(tab, r, got), r, "done", FALSE, serverRev)
  BY DEF AnswerPage
<1> HIDE DEF r, got, stale, more
<1>5. Steps(tab, t)
  <2>0. tab.req = r
    BY DEF r
  <2>1. CASE stale
    <3>1. t = Settled(tab, r, "stale", FALSE, serverRev)
      BY <1>4, <2>1
    <3> QED
      BY <1>1, <1>2, <2>0, <3>1, SettledSteps
  <2>2. CASE ~stale /\ more
    <3>1. t = [tab EXCEPT !.req = [r EXCEPT !.got = got, !.rev = tab.rev,
                                            !.ok = tab.rev = serverRev]]
      BY <1>4, <2>2
    <3>2. (tab.rev = serverRev) \in BOOLEAN
      OBVIOUS
    <3> QED
      BY <1>1, <1>2, <1>3, <2>0, <3>1, <3>2, MorePagesSteps
  <2>3. CASE ~stale /\ ~more /\ ~Unique(got)
    <3>1. t = Failure(tab, r)
      BY <1>4, <2>3
    <3> QED
      BY <1>1, <1>2, <2>0, <3>1, FailureSteps
  <2>4. CASE ~stale /\ ~more /\ Unique(got)
    <3>1. t = Settled(Committed(tab, r, got), r, "done", FALSE, serverRev)
      BY <1>4, <2>4
    <3>2. r.key = Key(tab)
      BY <2>4 DEF stale, Current
    <3> QED
      BY <1>1, <1>2, <1>3, <2>0, <3>1, <3>2, CommittedSteps
  <2> QED
    BY <2>1, <2>2, <2>3, <2>4
<1> QED
  BY <1>4, <1>5, TurnEnds

\* The batch b may go on in s, where the request r holds it.
Resumable(s, r, b) ==
  /\ Kept(s) /\ r \in BatchReq /\ s.req = r /\ r.latest /\ r.key = Key(s)
  /\ b \in Batch /\ b.kind = r.who /\ b.base = Offset(s) /\ ~AtEnd(b)
  /\ b.kind = "preload" =>
       /\ b.consumed < PreloadMaxPages
       /\ s.preload.key = r.key => s.preload.pages <= b.consumed

LEMMA BatchGoesOnKeeps ==
  ASSUME NEW s, NEW r, NEW b, Resumable(s, r, b), serverRev \in Revs,
         NEW u, u = BatchGoesOn(s, r, b)
  PROVE  TabInv(u) /\ u.registry = s.registry /\ Spends(s, u)
<1>1. Kept(s) /\ s \in TabState /\ s.preload \in Preload /\ s.preload.pages \in Nat
  BY PagesTyped DEF Resumable, Kept
<1>2. /\ r \in BatchReq /\ s.req = r /\ r.latest /\ r.key = Key(s) /\ r.key \in SessionKeys
      /\ b \in Batch /\ b.kind = r.who /\ b.base = Offset(s) /\ ~AtEnd(b)
      /\ b.consumed \in Nat
  BY DEF Resumable, BatchReq, Batch
<1>3. PICK c : c = Begun(b)
  OBVIOUS
<1>4. /\ c \in Batch /\ c.active /\ c.kind = b.kind /\ c.base = b.base /\ c.total = b.total
      /\ c.accepted = b.accepted /\ c.consumed \in Nat
      /\ c.consumed = IF b.kind = "preload" THEN b.consumed + 1 ELSE b.consumed
  <2>1. /\ c \in Batch /\ c.active /\ c.kind = b.kind /\ c.base = b.base /\ c.total = b.total
        /\ c.accepted = b.accepted
        /\ c.consumed = IF b.kind = "preload" THEN b.consumed + 1 ELSE b.consumed
    BY <1>2, <1>3, BegunTyped
  <2> QED
    BY <2>1 DEF Batch
<1>5. ~AtEnd(c)
  BY <1>2, <1>4, NotAtEnd
<1>6. PICK q : q = [r EXCEPT !.batch = c, !.ok = r.rev = serverRev]
  OBVIOUS
<1>7. /\ q \in BatchReq /\ q.who = r.who /\ q.key = r.key /\ q.latest /\ q.batch = c
  BY <1>2, <1>4, <1>6 DEF BatchReq
<1>8. PICK n : n = IF r.who = "preload" /\ s.preload.key = r.key THEN c.consumed
                   ELSE s.preload.pages
  OBVIOUS
<1>9. n \in Nat /\ s.preload.pages <= n
  <2>1. r.who = "preload" /\ s.preload.key = r.key => s.preload.pages <= b.consumed
    BY <1>2 DEF Resumable
  <2> QED
    BY <1>1, <1>2, <1>4, <1>8, <2>1
<1>10. PICK p : p = [s.preload EXCEPT !.pages = n]
  OBVIOUS
<1>11. /\ p \in Preload /\ p.key = s.preload.key /\ p.pages = n
       /\ p.pending = s.preload.pending
  BY <1>1, <1>9, <1>10 DEF Preload
<1>12. u = [s EXCEPT !.req = q, !.preload = p]
  <2>1. u = [s EXCEPT !.req = q, !.preload.pages = n]
    BY <1>1, <1>3, <1>6, <1>8 DEF BatchGoesOn, TabState, Preload
  <2> QED
    BY <1>1, <1>10, <2>1 DEF TabState
<1>13. u \in TabState
  <2>1. q \in Requests
    BY <1>7 DEF Requests
  <2>2. PICK t : t = [s EXCEPT !.req = q]
    OBVIOUS
  <2>3. t \in TabState
    BY <1>1, <2>1, <2>2 DEF TabState
  <2>4. u = [t EXCEPT !.preload = p]
    BY <1>1, <1>12, <2>2 DEF TabState
  <2> QED
    BY <1>11, <2>3, <2>4 DEF TabState
<1>14. /\ Calm(s, u) /\ u.loading = s.loading /\ u.req = q /\ u.inv = s.inv /\ u.preload = p
  BY <1>1, <1>12 DEF TabState, Calm
<1>15. Key(u) = Key(s) /\ Offset(u) = Offset(s)
  BY <1>14, CalmKey
<1>16. Placed(u)
  BY <1>1, <1>14, <1>15 DEF Kept, Placed, Calm
<1>17. Booked(u)
  <2>1. p.key = NoKey => p.pages = 0
    <3>1. r.key # NoKey
      BY <1>1, <1>2, KeyTyped
    <3> QED
      BY <1>1, <1>8, <1>11, <3>1 DEF Kept, Booked
  <2> QED
    BY <1>1, <1>14, <2>1 DEF Kept, Booked, Calm
<1>18. Loads(u)
  <2>1. q # NoReq /\ r # NoReq
    BY <1>2, <1>7, RequestKinds DEF Requests
  <2> QED
    BY <1>1, <1>2, <1>7, <1>14, <2>1 DEF Kept, Loads, Calm
<1>19. PendsOn(u, u.req)
  BY <1>1, <1>2, <1>7, <1>11, <1>14, <1>15 DEF Kept, PendsOn, Calm
<1>20. Seeks(u)
  <2>1. s.preload.pending => s.preload.key = r.key
    BY <1>1, <1>2 DEF Kept, PendsOn
  <2>2. c.kind = "preload" =>
          /\ c.consumed <= PreloadMaxPages
          /\ p.key = q.key => p.pages = c.consumed
    BY <1>2, <1>4, <1>7, <1>8, <1>11, Numbers DEF Resumable
  <2>3. c.kind = "preload" =>
          /\ c.consumed <= PreloadMaxPages
          /\ p.key = q.key => p.pages <= c.consumed
          /\ p.pending => p.pages = c.consumed
    BY <1>4, <1>7, <1>11, <2>1, <2>2
  <2> QED
    BY <1>2, <1>4, <1>5, <1>7, <1>14, <1>15, <2>3 DEF Seeks
<1>21. u.registry = s.registry
  BY <1>14 DEF Calm
<1>22. Spends(s, u)
  BY <1>9, <1>11, <1>14 DEF Spends
<1> QED
  BY <1>13, <1>16, <1>17, <1>18, <1>19, <1>20, <1>21, <1>22 DEF TabInv, Kept

LEMMA HeldThenOn ==
  ASSUME NEW s \in TabState, NEW t, Kept(t), Held(s, t), Grows(s, t),
         NEW u, TabInv(u), u.registry = t.registry, Spends(t, u)
  PROVE  Steps(s, u)
<1>1. Targets(s, u)
  BY DEF Grows, Targets
<1>2. Budget(s, u)
  BY DEF Held, Spends, Budget
<1> QED
  BY <1>1, <1>2 DEF Steps

LEMMA OnSteps ==
  ASSUME NEW s \in TabState, NEW u, TabInv(u), u.registry = s.registry, Spends(s, u)
  PROVE  Steps(s, u)
BY DEF Steps, Targets, Budget, Spends

\* What is known of the batch of a current request.
LEMMA BatchKnown ==
  ASSUME NEW s, TabInv(s), NEW r, r = s.req, r.kind = "batch"
  PROVE  LET b == r.batch
         IN  /\ r \in BatchReq /\ r \in Requests /\ b \in Batch /\ b.kind = r.who
             /\ r.key \in SessionKeys /\ r.rev \in Revs /\ s.events \in Seq(Event)
             /\ r.latest => b.base = Offset(s) /\ ~AtEnd(b)
             /\ b.kind = "preload" /\ s.preload.key = r.key =>
                  s.preload.pages <= b.consumed
<1>1. s \in TabState /\ r \in Requests \cup {NoReq} /\ s.events \in Seq(Event)
  BY DEF TabInv, Kept, TabState
<1>2. r \in BatchReq /\ r \in Requests
  BY <1>1, RequestKinds DEF Requests, NoReq
<1>3. r.batch \in Batch /\ r.key \in SessionKeys /\ r.rev \in Revs
  BY <1>2 DEF BatchReq
<1>4. Seeks(s)
  BY DEF TabInv
<1> QED
  BY <1>1, <1>2, <1>3, <1>4 DEF Seeks

\* A batch fails: what it has brought is committed, and it ends, or it goes on
\* from there.
LEMMA BatchFailureSteps ==
  ASSUME NEW s, TabInv(s), NEW r, r = s.req, r.kind = "batch", serverRev \in Revs,
         NEW u, u = BatchFailure(s, r)
  PROVE  Steps(s, u)
<1>1. Kept(s) /\ s \in TabState
  BY DEF TabInv, Kept
<1>2. /\ r \in BatchReq /\ r \in Requests /\ r.batch \in Batch /\ r.batch.kind = r.who
      /\ s.events \in Seq(Event)
      /\ r.latest => r.batch.base = Offset(s) /\ ~AtEnd(r.batch)
      /\ r.batch.kind = "preload" /\ s.preload.key = r.key =>
                  s.preload.pages <= r.batch.consumed
  BY BatchKnown
<1>3. PICK b : b = Failed(r.batch)
  OBVIOUS
<1>4. /\ b \in Batch /\ b.kind = r.who /\ b.base = r.batch.base
      /\ b.consumed = r.batch.consumed /\ b.accepted = r.batch.accepted
      /\ b.total = r.batch.total
  BY <1>2, <1>3, FailedTyped
<1>5. /\ b.consumed \in Nat /\ b.accepted \in Seq(Event) /\ Len(b.accepted) \in Nat
      /\ b.base \in Nat /\ b.total \in Nat
  BY <1>4 DEF Batch
<1>6. PICK f : f = IF HasProgress(b) THEN Published(s, r, b) ELSE s
  OBVIOUS
<1>7. PICK stale \in BOOLEAN :
        stale = (~BatchCurrent(s, r) \/ (HasProgress(b) /\ ~Publishable(s, r, b)))
  OBVIOUS
<1>8. u = CASE stale -> Settled(s, r, "stale", FALSE, serverRev)
            [] ~stale /\ ContinuesAfterError(b) ->
                 BatchGoesOn(f, r, IF HasProgress(b) THEN Successor(b) ELSE b)
            [] OTHER -> Settled(f, r, IF r.who = "preload" THEN "done" ELSE "error",
                                FALSE, serverRev)
  BY <1>3, <1>6, <1>7 DEF BatchFailure
<1>9. ASSUME ~stale
      PROVE  /\ r.latest /\ r.key = Key(s) /\ b.base = Offset(s)
             /\ Kept(f) /\ Held(s, f) /\ Grows(s, f) /\ Key(f) = Key(s)
             /\ HasProgress(b) => f.events = s.events \o b.accepted
             /\ ~HasProgress(b) => f = s
  <2>1. r.latest /\ r.key = Key(s) /\ b.base = Offset(s)
    BY <1>2, <1>4, <1>7, <1>9 DEF BatchCurrent, Current
  <2>2. CASE HasProgress(b)
    <3>1. PICK ev : ev = s.events \o b.accepted
      OBVIOUS
    <3>2. ev \in Seq(Event)
      BY <1>2, <1>5, <3>1
    <3>3. f = Committed(s, r, ev)
      BY <1>6, <2>2, <3>1 DEF Published
    <3>4. /\ Kept(f) /\ Held(s, f) /\ Grows(s, f) /\ Key(f) = Key(s) /\ f.events = ev
      BY <1>1, <1>2, <2>1, <3>2, <3>3, CommittedKept
    <3> QED
      BY <2>1, <2>2, <3>1, <3>4
  <2>3. CASE ~HasProgress(b)
    <3>1. f = s
      BY <1>6, <2>3
    <3> QED
      BY <1>1, <2>1, <2>3, <3>1 DEF Held, Grows
  <2> QED
    BY <2>2, <2>3, <2>1
<1>10. CASE stale
  <2>1. u = Settled(s, r, "stale", FALSE, serverRev)
    BY <1>8, <1>10
  <2> QED
    BY <1>1, <1>2, <2>1, SettledSteps
<1>11. CASE ~stale /\ ContinuesAfterError(b)
  <2>1. PICK n : n = IF HasProgress(b) THEN Successor(b) ELSE b
    OBVIOUS
  <2>2. u = BatchGoesOn(f, r, n)
    BY <1>8, <1>11, <2>1
  <2>3. b.kind = "preload" /\ ~AtEnd(b) /\ b.consumed < PreloadMaxPages
    BY <1>5, <1>11, Numbers DEF ContinuesAfterError, Refused, OutOfBudget
  <2>4. b.base + Len(b.accepted) < b.total
    BY <1>4, <2>3, NotAtEnd
  <2>5. /\ n \in Batch /\ n.kind = b.kind /\ n.consumed = b.consumed /\ ~AtEnd(n)
        /\ n.base = Offset(f)
    <3>1. CASE HasProgress(b)
      <4>1. /\ n \in Batch /\ n.kind = b.kind /\ n.consumed = b.consumed
            /\ n.base = b.base + Len(b.accepted) /\ n.accepted = <<>> /\ n.total = b.total
        BY <1>4, <2>1, <2>3, <3>1, SuccessorTyped
      <4>2. Len(n.accepted) = 0
        BY <4>1
      <4>3. ~AtEnd(n)
        BY <1>5, <2>4, <4>1, <4>2, NotAtEnd
      <4>4. Offset(f) = Offset(s) + Len(b.accepted)
        <5>1. f.events = s.events \o b.accepted
          BY <1>9, <1>11, <3>1
        <5>2. Len(s.events \o b.accepted) = Len(s.events) + Len(b.accepted)
          BY <1>2, <1>5
        <5> QED
          BY <5>1, <5>2 DEF Offset
      <4> QED
        BY <1>9, <1>11, <4>1, <4>3, <4>4
    <3>2. CASE ~HasProgress(b)
      BY <1>4, <1>9, <1>11, <2>1, <2>3, <3>2 DEF Offset
    <3> QED
      BY <3>1, <3>2
  <2>6. f.req = r /\ f.preload = s.preload
    BY <1>9, <1>11 DEF Held
  <2>7. n.kind = r.who /\ (f.preload.key = r.key => f.preload.pages <= n.consumed)
    BY <1>2, <1>4, <2>3, <2>5, <2>6
  <2>8. Resumable(f, r, n)
    BY <1>2, <1>9, <1>11, <2>3, <2>5, <2>6, <2>7 DEF Resumable
  <2>9. TabInv(u) /\ u.registry = f.registry /\ Spends(f, u)
    BY <2>2, <2>8, BatchGoesOnKeeps
  <2> QED
    BY <1>1, <1>9, <1>11, <2>9, HeldThenOn
<1>12. CASE ~stale /\ ~ContinuesAfterError(b)
  <2>1. PICK outcome : outcome = IF r.who = "preload" THEN "done" ELSE "error"
    OBVIOUS
  <2>2. u = Settled(f, r, outcome, FALSE, serverRev)
    BY <1>8, <1>12, <2>1
  <2>3. f.req = r
    BY <1>9, <1>12 DEF Held
  <2>4. Goes(f, u)
    BY <1>2, <1>9, <1>12, <2>2, <2>3, SettledGoes
  <2> QED
    BY <1>1, <1>9, <1>12, <2>4, HeldSteps
<1> QED
  BY <1>10, <1>11, <1>12

\* A batch that goes on is not at the end, and within its budget.
LEMMA ContinuesWithin ==
  ASSUME NEW b \in Batch, NEW page, Continues(b, page)
  PROVE  ~AtEnd(b) /\ (b.kind = "preload" => b.consumed < PreloadMaxPages)
<1>1. b.kind \in Seekers /\ b.consumed \in Nat
  BY DEF Batch
<1>2. CASE b.kind = "preload"
  <2>1. ~Refused(b)
    BY <1>2 DEF Continues
  <2> QED
    BY <1>1, <1>2, <2>1, Numbers DEF Refused, OutOfBudget
<1>3. CASE b.kind = "nav"
  BY <1>3 DEF Continues
<1>4. CASE b.kind = "loadMore"
  BY <1>4 DEF Continues
<1> QED
  BY <1>1, <1>2, <1>3, <1>4 DEF Seekers

\* A page of a batch is answered (AnswerBatch).
LEMMA AnswerBatchSteps ==
  ASSUME TimelineInv, AnswerBatch
  PROVE  Advances
<1>1. TabInv(tab) /\ Kept(tab) /\ tab \in TabState /\ serverRev \in Revs
  BY DEF TimelineInv, TabInv, Kept
<1> DEFINE r == tab.req
           b == r.batch
           page == Page(r.key, r.rev, LoadedOffset(b), PageSize)
           done == Accepted(b, page, Len(Answered(r.key, r.rev)))
           current == BatchCurrent(tab, r)
           valid == Unique(tab.events \o done.accepted)
           ends == valid /\ ~Continues(done, page)
           stale == ~current \/ (ends /\ HasProgress(done) /\ ~Publishable(tab, r, done))
<1>2. r.kind = "batch"
  BY DEF AnswerBatch
<1>3. /\ r \in BatchReq /\ r \in Requests /\ b \in Batch /\ b.kind = r.who
      /\ r.key \in SessionKeys /\ r.rev \in Revs /\ tab.events \in Seq(Event)
      /\ r.latest => b.base = Offset(tab) /\ ~AtEnd(b)
      /\ b.kind = "preload" /\ tab.preload.key = r.key => tab.preload.pages <= b.consumed
  BY <1>1, <1>2, BatchKnown
<1>4. page \in Seq(Event)
  <2> HIDE DEF r, b
  <2>1. LoadedOffset(b) \in Nat
    BY <1>3 DEF LoadedOffset, Batch
  <2>2. PageSize \in Int
    BY Numbers
  <2> QED
    BY <1>3, <2>1, <2>2, PageTyped
<1>5. /\ done \in Batch /\ done.kind = b.kind /\ done.base = b.base
      /\ done.consumed = b.consumed
  <2> HIDE DEF r, b, page
  <2>1. Len(Answered(r.key, r.rev)) \in Nat
    BY <1>3, AnsweredTyped
  <2> QED
    BY <1>3, <1>4, <2>1, AcceptedTyped
<1>6. PICK t : /\ Does(t)
               /\ t = CASE stale -> Settled(tab, r, "stale", FALSE, serverRev)
                        [] current /\ ~valid -> BatchFailure(tab, r)
                        [] current /\ valid /\ ~ends -> BatchGoesOn(tab, r, done)
                        [] OTHER -> Settled(IF HasProgress(done) THEN Published(tab, r, done)
                                            ELSE tab,
                                            r, "done", Exhausts(done, page), serverRev)
  BY DEF AnswerBatch
<1>7. current => r.latest /\ r.key = Key(tab)
  BY DEF BatchCurrent, Current
<1>8. current /\ valid /\ ~ends => Continues(done, page)
  OBVIOUS
<1>9. valid \in BOOLEAN /\ ends \in BOOLEAN /\ stale \in BOOLEAN /\ current \in BOOLEAN
  BY DEF Unique, BatchCurrent
<1>10. /\ stale /\ (current /\ ~valid) => FALSE
       /\ stale /\ (current /\ valid /\ ~ends) => FALSE
       /\ ~stale => current
  OBVIOUS
<1>11. tab.req = r /\ Exhausts(done, page) \in BOOLEAN
  BY DEF Exhausts
<1> HIDE DEF r, b, page, done, current, valid, ends, stale
<1>12. Steps(tab, t)
  <2>1. CASE stale
    <3>1. t = Settled(tab, r, "stale", FALSE, serverRev)
      BY <1>6, <1>10, <2>1
    <3> QED
      BY <1>1, <1>3, <1>11, <3>1, SettledSteps
  <2>2. CASE ~stale /\ ~valid
    <3>1. t = BatchFailure(tab, r)
      BY <1>6, <1>10, <2>2
    <3> QED
      BY <1>1, <1>2, <1>11, <3>1, BatchFailureSteps
  <2>3. CASE ~stale /\ valid /\ ~ends
    <3>1. t = BatchGoesOn(tab, r, done)
      BY <1>6, <1>10, <2>3
    <3>2. current /\ Continues(done, page)
      BY <1>8, <1>10, <2>3
    <3>3. ~AtEnd(done) /\ (done.kind = "preload" => done.consumed < PreloadMaxPages)
      BY <1>5, <3>2, ContinuesWithin
    <3>4. Resumable(tab, r, done)
      BY <1>1, <1>3, <1>5, <1>7, <1>11, <3>2, <3>3 DEF Resumable
    <3>5. TabInv(t) /\ t.registry = tab.registry /\ Spends(tab, t)
      BY <3>1, <3>4, <1>1, BatchGoesOnKeeps
    <3> QED
      BY <1>1, <3>5, OnSteps
  <2>4. CASE ~stale /\ valid /\ ends
    <3>1. t = Settled(IF HasProgress(done) THEN Published(tab, r, done) ELSE tab,
                      r, "done", Exhausts(done, page), serverRev)
      BY <1>6, <1>10, <2>4
    <3>2. r.key = Key(tab)
      BY <1>7, <1>10, <2>4
    <3>3. CASE HasProgress(done)
      <4>1. PICK ev : ev = tab.events \o done.accepted
        OBVIOUS
      <4>2. ev \in Seq(Event)
        BY <1>3, <1>5, <4>1 DEF Batch
      <4>3. t = Settled(Committed(tab, r, ev), r, "done", Exhausts(done, page), serverRev)
        BY <3>1, <3>3, <4>1 DEF Published
      <4> QED
        BY <1>1, <1>3, <1>11, <3>2, <4>2, <4>3, CommittedSteps
    <3>4. CASE ~HasProgress(done)
      <4>1. t = Settled(tab, r, "done", Exhausts(done, page), serverRev)
        BY <3>1, <3>4
      <4> QED
        BY <1>1, <1>3, <1>11, <4>1, SettledSteps
    <3> QED
      BY <3>3, <3>4
  <2> QED
    BY <2>1, <2>2, <2>3, <2>4
<1> QED
  BY <1>6, <1>12, TurnEnds

-----------------------------------------------------------------------------
(* The actions *)

LEMMA SelectSessionSteps ==
  ASSUME TimelineInv, NEW sess \in Session, SelectSession(sess)
  PROVE  Advances
<1>1. PICK t : t = Selected(tab, sess, "user")
  OBVIOUS
<1>2. Acts(t)
  BY <1>1 DEF SelectSession
<1>3. Steps(tab, t)
  BY <1>1, TabTyped, SelectedSteps
<1> QED
  BY <1>2, <1>3, TurnEnds

LEMMA EditExpressionSteps ==
  ASSUME TimelineInv, NEW e \in Expr, EditExpression(e)
  PROVE  Advances
<1>1. PICK a : a = Transition([tab EXCEPT !.expr = e])
  OBVIOUS
<1>2. Steps(tab, a)
  BY <1>1, TabTyped, Reworded DEF EditExpression
<1>3. a \in TabState /\ TabInv(a)
  BY <1>2 DEF Steps, TabInv, Kept
<1>4. PICK timers : timers = IF e.filter # tab.expr.filter THEN {"reload"}
                             ELSE a.timers \cup {"find"}
  OBVIOUS
<1>5. timers \in SUBSET {"find", "reload"}
  BY <1>3, <1>4 DEF TabState
<1>6. PICK t : t = [a EXCEPT !.highlight = Key(a), !.timers = timers]
  OBVIOUS
<1>7. Acts(t)
  BY <1>1, <1>3, <1>4, <1>6 DEF EditExpression, TabState
<1>8. Key(a) \in TabKeys
  BY <1>3, KeyTyped
<1>9. t \in TabState
  BY <1>3, <1>5, <1>6, <1>8 DEF TabState
<1>10. SameCore(a, t)
  BY <1>3, <1>6 DEF TabState, SameCore, Calm
<1>11. Stays(a, t)
  BY <1>3, <1>9, <1>10, SameStays
<1>12. Steps(tab, t)
  BY <1>2, <1>11, StepsThenStays
<1> QED
  BY <1>7, <1>12, TurnEnds

LEMMA ChooseFilterSteps ==
  ASSUME TimelineInv, NEW e \in Expr, ChooseFilter(e)
  PROVE  Advances
<1>1. PICK a : a = Transition([tab EXCEPT !.expr = e])
  OBVIOUS
<1>2. Steps(tab, a)
  BY <1>1, TabTyped, Reworded DEF ChooseFilter
<1>3. PICK t : t = Refreshed(a, "replace", serverRev)
  OBVIOUS
<1>4. Acts(t)
  BY <1>1, <1>3 DEF ChooseFilter
<1>5. TabInv(t) /\ Calm(a, t) /\ Frozen(a, t)
  BY <1>2, <1>3, TabTyped, RefreshedGoes DEF Steps
<1>6. Stays(a, t)
  BY <1>5 DEF Stays, Calm
<1>7. Steps(tab, t)
  BY <1>2, <1>6, StepsThenStays
<1> QED
  BY <1>4, <1>7, TurnEnds

LEMMA CalmSteps ==
  ASSUME NEW s \in TabState, NEW u, TabInv(u), Calm(s, u), Frozen(s, u)
  PROVE  Steps(s, u)
<1>1. Stays(s, u)
  BY DEF Stays, Calm
<1> QED
  BY <1>1, StaysSteps

LEMMA LoadMoreSteps ==
  ASSUME TimelineInv, LoadMore
  PROVE  Advances
<1>1. PICK t : /\ Acts(t)
               /\ \/ /\ RetryCurrent
                     /\ t = IF tab.retry.kind = "prefix"
                            THEN Replaced(tab, "prefix", "user", tab.retry.want, serverRev)
                            ELSE Refreshed(tab, tab.retry.kind, serverRev)
                  \/ /\ tab.tctx = Key(tab) /\ ~tab.loading
                     /\ t = Started(tab, Request(tab, "append", "user", serverRev, Offset(tab)),
                                    serverRev)
  BY DEF LoadMore
<1>2. CASE /\ RetryCurrent
           /\ t = IF tab.retry.kind = "prefix"
                  THEN Replaced(tab, "prefix", "user", tab.retry.want, serverRev)
                  ELSE Refreshed(tab, tab.retry.kind, serverRev)
  <2>1. tab.retry \in Retry /\ tab.retry.key = Key(tab)
    BY <1>2, TabTyped DEF RetryCurrent, TabState
  <2>2. Key(tab) \in SessionKeys /\ tab.retry.want \in Nat
        /\ tab.retry.kind \in {"replace", "find", "prefix"}
    BY <2>1 DEF Retry
  <2>3. Replaceable(tab)
    BY <2>2, TabTyped, KeyTyped DEF Replaceable
  <2>4. CASE tab.retry.kind = "prefix"
    <3>1. t = Replaced(tab, "prefix", "user", tab.retry.want, serverRev)
      BY <1>2, <2>4
    <3>2. TabInv(t) /\ Calm(tab, t) /\ Frozen(tab, t)
      BY <2>2, <2>3, <3>1, TabTyped, ReplacedGoes
    <3>3. Steps(tab, t)
      BY <3>2, TabTyped, CalmSteps
    <3> QED
      BY <1>1, <3>3, TurnEnds
  <2>5. CASE tab.retry.kind # "prefix"
    <3>1. t = Refreshed(tab, tab.retry.kind, serverRev) /\ tab.retry.kind \in {"replace", "find"}
      BY <1>2, <2>2, <2>5
    <3>2. TabInv(t) /\ Calm(tab, t) /\ Frozen(tab, t)
      BY <2>3, <3>1, TabTyped, RefreshedGoes
    <3>3. Steps(tab, t)
      BY <3>2, TabTyped, CalmSteps
    <3> QED
      BY <1>1, <3>3, TurnEnds
  <2> QED
    BY <2>4, <2>5
<1>3. CASE /\ tab.tctx = Key(tab) /\ ~tab.loading
           /\ t = Started(tab, Request(tab, "append", "user", serverRev, Offset(tab)), serverRev)
  <2>1. Key(tab) \in SessionKeys
    BY <1>3, TabTyped, KeyTyped DEF TabState
  <2>2. tab.scope = "session"
    BY <2>1, TabTyped, KeyTyped
  <2>3. Prepared(tab)
    BY <1>3, <2>2, TabTyped, PendingLoads DEF Prepared
  <2>4. PICK r : r = Request(tab, "append", "user", serverRev, Offset(tab))
    OBVIOUS
  <2>5. r \in PageReq /\ r.latest
    BY <2>1, <2>4, TabTyped, RequestTyped
  <2>6. t = Started(tab, r, serverRev)
    BY <1>3, <2>4
  <2>7. TabInv(t) /\ Calm(tab, t) /\ Frozen(tab, t)
    BY <2>3, <2>5, <2>6, TabTyped, StartedGoes
  <2>8. Steps(tab, t)
    BY <2>7, TabTyped, CalmSteps
  <2> QED
    BY <1>1, <2>8, TurnEnds
<1> QED
  BY <1>1, <1>2, <1>3

LEMMA LoadMoreTargetsSteps ==
  ASSUME TimelineInv, LoadMoreTargets
  PROVE  Advances
<1>1. /\ Offset(tab) < tab.total /\ Ready(tab) /\ ~tab.preload.pending
  BY DEF LoadMoreTargets
<1>2. tab.scope = "session" /\ Key(tab) \in SessionKeys
  BY <1>1, TabTyped DEF Ready
<1>3. PICK p : p = IF tab.preload.key = Key(tab) THEN tab.preload
                   ELSE [NoPreload EXCEPT !.key = Key(tab)]
  OBVIOUS
<1>4. /\ p \in Preload /\ p.key = Key(tab) /\ ~p.pending /\ p.pages \in Nat
      /\ tab.preload.key = Key(tab) => p.pages = tab.preload.pages
      /\ tab.preload.key # Key(tab) => p.pages = 0
  BY <1>1, <1>3, TabTyped DEF Preload, NoPreload
<1>5. PICK t : /\ Acts(t)
               /\ \/ /\ tab.loading
                     /\ t = [[tab EXCEPT !.inv = "loadMore", !.preload = p]
                               EXCEPT !.preload.exhausted = FALSE]
                  \/ /\ ~tab.loading
                     /\ t = BatchStarted([[tab EXCEPT !.inv = "loadMore", !.preload = p]
                                            EXCEPT !.preload.pending = TRUE],
                                         "loadMore", "none", serverRev)
  BY <1>3 DEF LoadMoreTargets
<1>6. CASE /\ tab.loading
           /\ t = [[tab EXCEPT !.inv = "loadMore", !.preload = p]
                     EXCEPT !.preload.exhausted = FALSE]
  <2>1. PICK q : q = [p EXCEPT !.exhausted = FALSE]
    OBVIOUS
  <2>2. q \in Preload /\ q.key = p.key /\ ~q.pending /\ q.pages = p.pages
    BY <1>4, <2>1 DEF Preload
  <2>3. t = [tab EXCEPT !.inv = "loadMore", !.preload = q]
    BY <1>6, <2>1, TabTyped DEF TabState
  <2>4. t \in TabState
    BY <2>2, <2>3, TabTyped DEF TabState, Seekers
  <2>5. /\ Calm(tab, t) /\ t.loading = tab.loading /\ t.req = tab.req /\ t.preload = q
    BY <2>3, TabTyped DEF TabState, Calm
  <2>6. Key(t) = Key(tab) /\ Offset(t) = Offset(tab)
    BY <2>5, CalmKey
  <2>7. Placed(t) /\ Loads(t)
    BY <2>5, <2>6, TabTyped DEF Placed, Loads, Calm
  <2>8. PendsOn(t, t.req)
    BY <2>2, <2>5 DEF PendsOn
  <2>9. Booked(t)
    BY <1>4, <2>2, <2>5, TabTyped DEF Booked, Calm
  <2>10. Seeks(t)
    <3>1. q.pages = 0 \/ (q.pages = tab.preload.pages /\ tab.preload.key = q.key)
      BY <1>4, <2>2
    <3>2. tab.req \in BatchReq => tab.req.batch.consumed \in Nat
      BY DEF BatchReq, Batch
    <3> QED
      BY <2>2, <2>5, <2>6, <3>1, <3>2, TabTyped DEF Seeks
  <2>11. Budget(tab, t)
    BY <1>4, <2>2, <2>5 DEF Budget
  <2>12. Targets(tab, t)
    BY <2>5 DEF Calm, Targets
  <2>13. Steps(tab, t)
    BY <2>4, <2>7, <2>8, <2>9, <2>10, <2>11, <2>12 DEF Steps, TabInv, Kept
  <2> QED
    BY <1>5, <2>13, TurnEnds
<1>7. CASE /\ ~tab.loading
           /\ t = BatchStarted([[tab EXCEPT !.inv = "loadMore", !.preload = p]
                                  EXCEPT !.preload.pending = TRUE],
                               "loadMore", "none", serverRev)
  <2>1. PICK q : q = [p EXCEPT !.pending = TRUE]
    OBVIOUS
  <2>2. q \in Preload /\ q.key = p.key /\ q.pages = p.pages
    BY <1>4, <2>1 DEF Preload
  <2>3. PICK a : a = [tab EXCEPT !.inv = "loadMore", !.preload = q]
    OBVIOUS
  <2>4. a = [[tab EXCEPT !.inv = "loadMore", !.preload = p] EXCEPT !.preload.pending = TRUE]
    BY <2>1, <2>3, TabTyped DEF TabState
  <2>5. t = BatchStarted(a, "loadMore", "none", serverRev)
    BY <1>7, <2>4
  <2>6. a \in TabState
    BY <2>2, <2>3, TabTyped DEF TabState, Seekers
  <2>7. /\ Calm(tab, a) /\ a.preload = q /\ a.inv = "loadMore" /\ a.total = tab.total
    BY <2>3, TabTyped DEF TabState, Calm
  <2>8. Key(a) = Key(tab) /\ Offset(a) = Offset(tab)
    BY <2>7, CalmKey
  <2>9. Placed(a)
    BY <2>7, <2>8, TabTyped DEF Placed, Calm
  <2>10. Booked(a)
    BY <1>4, <2>2, <2>7, TabTyped DEF Booked, Calm
  <2>11. Key(a) \in SessionKeys /\ Offset(a) < a.total
    BY <1>1, <1>2, <2>7, <2>8
  <2>12. a.preload.pending => a.preload.key = Key(a) /\ a.inv = "loadMore"
    BY <1>4, <2>2, <2>7, <2>8
  <2>13. "loadMore" \in Seekers
    BY DEF Seekers
  <2>14. /\ TabInv(t) /\ Calm(a, t) /\ t.preload.key = a.preload.key
         /\ a.preload.pages <= t.preload.pages
    BY <2>5, <2>6, <2>9, <2>10, <2>11, <2>12, <2>13, TabTyped, BatchStarts
  <2>15. Targets(tab, t)
    BY <2>7, <2>14 DEF Targets, Calm
  <2>16. Budget(tab, t)
    BY <1>4, <2>2, <2>7, <2>14 DEF Budget
  <2>17. Steps(tab, t)
    BY <2>14, <2>15, <2>16 DEF Steps
  <2> QED
    BY <1>5, <2>17, TurnEnds
<1> QED
  BY <1>5, <1>6, <1>7

LEMMA NavChanged ==
  ASSUME TimelineInv, NEW n \in Navigation, NEW t, t = [tab EXCEPT !.nav = n]
  PROVE  t \in TabState /\ SameCore(tab, t) /\ Steps(tab, t)
<1>1. t \in TabState
  BY TabTyped DEF TabState
<1>2. SameCore(tab, t)
  BY TabTyped DEF TabState, SameCore, Calm
<1> QED
  BY <1>1, <1>2, TabTyped, SameSteps

LEMMA NavigateSteps ==
  ASSUME TimelineInv, Navigate
  PROVE  Advances
<1>1. PICK q : q = tab.nav.queue + 1
  OBVIOUS
<1>2. PICK n : /\ n \in {[tab.nav EXCEPT !.phase = "wait", !.key = Key(tab)],
                         [tab.nav EXCEPT !.queue = q]}
               /\ Acts([tab EXCEPT !.nav = n])
  <2>1. \/ Acts([tab EXCEPT !.nav.phase = "wait", !.nav.key = Key(tab)])
        \/ Acts([tab EXCEPT !.nav.queue = @ + 1])
    BY DEF Navigate
  <2>2. [tab EXCEPT !.nav.phase = "wait", !.nav.key = Key(tab)]
          = [tab EXCEPT !.nav = [tab.nav EXCEPT !.phase = "wait", !.key = Key(tab)]]
    BY TabTyped DEF TabState
  <2>3. [tab EXCEPT !.nav.queue = @ + 1] = [tab EXCEPT !.nav = [tab.nav EXCEPT !.queue = q]]
    BY <1>1, TabTyped DEF TabState, Navigation
  <2> QED
    BY <2>1, <2>2, <2>3
<1>3. q \in Nat
  BY <1>1, TabTyped DEF Navigation
<1>4. n \in Navigation
  BY <1>2, <1>3, TabTyped DEF Navigation
<1>5. PICK t : t = [tab EXCEPT !.nav = n]
  OBVIOUS
<1>6. Steps(tab, t)
  BY <1>4, <1>5, NavChanged
<1> QED
  BY <1>2, <1>5, <1>6, TurnEnds

LEMMA LeaveForProjectActs ==
  ASSUME TimelineInv, LeaveForProject
  PROVE  Advances
<1>1. PICK there : there = Transition([tab EXCEPT !.scope = "project"])
  OBVIOUS
<1>2. PICK left : left = [ReplacementBegun(there) EXCEPT
                            !.req = NoReq, !.loading = FALSE, !.surface = NoKey,
                            !.preload = NoPreload]
  OBVIOUS
<1>3. PICK gone : gone = IF tab.req = NoReq THEN left
                         ELSE Ended(left, tab.req, "stale", FALSE, serverRev)
  OBVIOUS
<1>4. PICK t : t = SuggestionsStarted(gone, "user")
  OBVIOUS
<1>5. Acts(t) /\ tab.scope = "session"
  BY <1>1, <1>2, <1>3, <1>4 DEF LeaveForProject
<1>6. Steps(tab, t)
  BY <1>1, <1>2, <1>3, <1>4, <1>5, TabTyped, LeaveForProjectSteps
<1> QED
  BY <1>5, <1>6, TurnEnds

LEMMA ReturnToSessionSteps ==
  ASSUME TimelineInv, ReturnToSession
  PROVE  Advances
<1>1. PICK t : t = Selected(tab, tab.sess, "user")
  OBVIOUS
<1>2. Acts(t) /\ tab.sess # NoSession
  BY <1>1 DEF ReturnToSession
<1>3. tab.sess \in Session
  BY <1>2, TabTyped DEF TabState
<1>4. Steps(tab, t)
  BY <1>1, <1>3, TabTyped, SelectedSteps
<1> QED
  BY <1>2, <1>4, TurnEnds

LEMMA DrillDownActs ==
  ASSUME TimelineInv, NEW sess \in Session, DrillDown(sess)
  PROVE  Advances
<1>1. PICK there : there = Transition([tab EXCEPT !.scope = "session", !.sess = sess])
  OBVIOUS
<1>2. PICK empty : empty = [there EXCEPT !.loading = FALSE, !.events = <<>>, !.tctx = NoKey,
                                         !.preload = NoPreload]
  OBVIOUS
<1>3. PICK want \in DOMAIN Answered(Key(there), tab.rev) :
        Acts(SuggestionsStarted(Replaced(empty, "prefix", "user", want, serverRev), "user"))
  BY <1>1, <1>2 DEF DrillDown
<1>4. want \in Nat
  <2>1. PICK a : a = [tab EXCEPT !.scope = "session", !.sess = sess]
    OBVIOUS
  <2>2. a \in TabState /\ a.scope = "session" /\ a.sess = sess
    BY <2>1, TabTyped DEF TabState
  <2>3. Booked(a)
    BY <2>1, TabTyped DEF Booked, TabState
  <2>4. there \in TabState /\ Key(there) = Key(a)
    BY <1>1, <2>1, <2>2, <2>3, TransitionTyped
  <2>5. Key(there) \in SessionKeys
    BY <2>2, <2>4, KeyTyped
  <2>6. tab.rev \in Revs
    BY TabTyped DEF TabState
  <2>7. PICK ids : ids = Answered(Key(there), tab.rev)
    OBVIOUS
  <2>8. ids \in Seq(Ids) /\ want \in DOMAIN ids
    BY <1>3, <2>5, <2>6, <2>7, AnsweredTyped
  <2> QED
    BY <2>8
<1>5. PICK t : t = SuggestionsStarted(Replaced(empty, "prefix", "user", want, serverRev), "user")
  OBVIOUS
<1>6. Acts(t) /\ tab.scope = "project"
  BY <1>3, <1>5 DEF DrillDown
<1>7. Steps(tab, t)
  BY <1>1, <1>2, <1>4, <1>5, <1>6, TabTyped, DrillDownSteps
<1> QED
  BY <1>6, <1>7, TurnEnds

LEMMA RerenderSteps ==
  ASSUME TimelineInv, Rerender
  PROVE  Advances
<1>1. PICK d : d = Rendered(tab)
  OBVIOUS
<1>2. PICK t : t = MaybePreload(d, serverRev)
  OBVIOUS
<1>3. Acts(t)
  BY <1>1, <1>2 DEF Rerender
<1>4. Kept(d) /\ Held(tab, d) /\ Grows(tab, d) /\ d.events = tab.events
  BY <1>1, TabTyped, RenderedKept DEF Placed
<1>5. TabInv(d)
  BY <1>4, TabTyped, SeeksHeld DEF TabInv
<1>6. Goes(d, t)
  BY <1>2, <1>5, TabTyped, MaybePreloadKeeps
<1>7. Steps(tab, t)
  BY <1>4, <1>6, TabTyped, HeldSteps
<1> QED
  BY <1>3, <1>7, TurnEnds

\* A chase begins.
LEMMA ChaseBegins ==
  ASSUME TimelineInv, NEW id \in Ids, NEW w \in Chasers,
         NEW t, t = Chased([tab EXCEPT !.chase[w].id = id], w, serverRev)
  PROVE  Steps(tab, t)
<1>1. PICK c : c = [tab.chase EXCEPT ![w].id = id]
  OBVIOUS
<1>2. c \in Chase
  BY <1>1, TabTyped, ChaseTyped
<1>3. PICK a : a = [tab EXCEPT !.chase = c]
  OBVIOUS
<1>4. a \in TabState /\ SameCore(tab, a)
  BY <1>2, <1>3, TabTyped, ChaseChanges
<1>5. a = [tab EXCEPT !.chase[w].id = id]
  BY <1>1, <1>3, TabTyped DEF TabState
<1>6. Stays(tab, a)
  BY <1>4, TabTyped, SameStays
<1>7. Goes(a, t)
  BY <1>5, <1>6, TabTyped, ChasedMoves DEF Stays, Moves
<1> QED
  BY <1>6, <1>7, TabTyped, StaysGoes

LEMMA GoToSteps ==
  ASSUME TimelineInv, NEW id \in Ids, GoTo(id)
  PROVE  Advances
<1>1. PICK t : t = Chased([tab EXCEPT !.chase["chase"].id = id], "chase", serverRev)
  OBVIOUS
<1>2. Acts(t)
  BY <1>1 DEF GoTo
<1>3. Steps(tab, t)
  BY <1>1, ChaseBegins DEF Chasers
<1> QED
  BY <1>2, <1>3, TurnEnds

LEMMA DiscoveredSteps ==
  ASSUME NEW s, TabInv(s), NEW u, u = Discovered(s, s.events)
  PROVE  Steps(s, u)
<1>1. Kept(s) /\ Seeks(s) /\ s \in TabState /\ s.events \in Seq(Event)
  BY DEF TabInv, Kept, TabState
<1>2. Kept(u) /\ Held(s, u) /\ Grows(s, u) /\ u.events = s.events
  BY <1>1, DiscoveredKept
<1>3. TabInv(u)
  BY <1>1, <1>2, SeeksHeld DEF TabInv
<1>4. u.preload.pages \in Nat
  BY <1>2, PagesTyped DEF Kept
<1>5. Spends(u, u)
  BY <1>4 DEF Spends
<1> QED
  BY <1>1, <1>2, <1>3, <1>5, HeldThenOn

LEMMA StaysThenSteps ==
  ASSUME NEW s, NEW t, NEW u, Stays(s, t), Steps(t, u)
  PROVE  Steps(s, u)
BY DEF Steps, Stays, Frozen, Targets, Budget

LEMMA FireHighlightSteps ==
  ASSUME TimelineInv, FireHighlight
  PROVE  Advances
<1>1. PICK a : a = [tab EXCEPT !.highlight = NoKey]
  OBVIOUS
<1>2. a \in TabState /\ SameCore(tab, a)
  BY <1>1, TabTyped DEF TabState, SameCore, Calm
<1>3. Stays(tab, a)
  BY <1>2, TabTyped, SameStays
<1>4. PICK t : t = IF tab.highlight = Key(tab) THEN Discovered(a, a.events) ELSE a
  OBVIOUS
<1>5. Does(t)
  BY <1>1, <1>4 DEF FireHighlight
<1>6. Steps(tab, t)
  <2>1. CASE t = Discovered(a, a.events)
    <3>1. Steps(a, t)
      BY <1>3, <2>1, DiscoveredSteps DEF Stays
    <3> QED
      BY <1>3, <3>1, StaysThenSteps
  <2>2. CASE t = a
    BY <1>3, <2>2, TabTyped, StaysSteps
  <2> QED
    BY <1>4, <2>1, <2>2
<1> QED
  BY <1>5, <1>6, TurnEnds

LEMMA TimersChanged ==
  ASSUME TimelineInv, NEW timer, NEW a, a = [tab EXCEPT !.timers = @ \ {timer}]
  PROVE  TabInv(a) /\ Stays(tab, a)
<1>1. PICK timers : timers = tab.timers \ {timer}
  OBVIOUS
<1>2. timers \in SUBSET {"find", "reload"}
  BY <1>1, TabTyped DEF TabState
<1>3. a = [tab EXCEPT !.timers = timers]
  BY <1>1, TabTyped DEF TabState
<1>4. a \in TabState
  BY <1>2, <1>3, TabTyped DEF TabState
<1>5. SameCore(tab, a)
  BY <1>3, TabTyped DEF TabState, SameCore, Calm
<1>6. Stays(tab, a)
  BY <1>4, <1>5, TabTyped, SameStays
<1> QED
  BY <1>6 DEF Stays

LEMMA FireReloadSteps ==
  ASSUME TimelineInv, FireReload
  PROVE  Advances
<1>1. PICK a : a = [tab EXCEPT !.timers = @ \ {"reload"}]
  OBVIOUS
<1>2. TabInv(a) /\ Stays(tab, a)
  BY <1>1, TimersChanged
<1>3. PICK h : h = Highlighted(a, serverRev)
  OBVIOUS
<1>4. TabInv(h) /\ Grows(a, h) /\ Spends(a, h)
  BY <1>2, <1>3, TabTyped, HighlightedGoes
<1>5. Steps(a, h)
  BY <1>4 DEF Steps, Grows, Targets, Spends, Budget
<1>6. PICK t : t = Refreshed(h, "replace", serverRev)
  OBVIOUS
<1>7. Does(t)
  BY <1>1, <1>3, <1>6 DEF FireReload
<1>8. TabInv(t) /\ Calm(h, t) /\ Frozen(h, t)
  BY <1>4, <1>6, TabTyped, RefreshedGoes
<1>9. Stays(h, t)
  BY <1>8 DEF Stays, Calm
<1>10. Steps(a, t)
  BY <1>5, <1>9, StepsThenStays
<1>11. Steps(tab, t)
  BY <1>2, <1>10, StaysThenSteps
<1> QED
  BY <1>7, <1>11, TurnEnds

LEMMA FireFindSteps ==
  ASSUME TimelineInv, FireFind
  PROVE  Advances
<1>1. PICK a : a = [tab EXCEPT !.timers = @ \ {"find"}]
  OBVIOUS
<1>2. TabInv(a) /\ Stays(tab, a)
  BY <1>1, TimersChanged
<1>3. PICK t : t = Refreshed(a, "find", serverRev)
  OBVIOUS
<1>4. Does(t)
  BY <1>1, <1>3 DEF FireFind
<1>5. TabInv(t) /\ Calm(a, t) /\ Frozen(a, t)
  BY <1>2, <1>3, TabTyped, RefreshedGoes
<1>6. Stays(a, t)
  BY <1>5 DEF Stays, Calm
<1>7. Stays(tab, t)
  BY <1>2, <1>6, StaysTrans
<1>8. Steps(tab, t)
  BY <1>7, TabTyped, StaysSteps
<1> QED
  BY <1>4, <1>8, TurnEnds

LEMMA ChaseWakesSteps ==
  ASSUME TimelineInv, NEW w \in Chasers, ChaseWakes(w)
  PROVE  Advances
<1>1. PICK t : t = ChaseLoads(tab, w, serverRev)
  OBVIOUS
<1>2. Does(t) /\ ~tab.loading
  BY <1>1 DEF ChaseWakes
<1>3. Goes(tab, t)
  BY <1>1, <1>2, TabTyped, ChaseLoadsMoves DEF Moves
<1>4. Steps(tab, t)
  BY <1>3, TabTyped, GoesSteps
<1> QED
  BY <1>2, <1>4, TurnEnds

\* An invocation begins in a tab that has nothing pending.
LEMMA InvocationBegins ==
  ASSUME TimelineInv, ~tab.preload.pending, NEW i \in Seekers, NEW n \in Navigation,
         NEW a, a = [tab EXCEPT !.inv = i, !.nav = n]
  PROVE  TabInv(a) /\ Stays(tab, a)
<1>1. a \in TabState
  BY TabTyped DEF TabState
<1>2. /\ Calm(tab, a) /\ a.loading = tab.loading /\ a.req = tab.req /\ a.preload = tab.preload
  BY TabTyped DEF TabState, Calm
<1>3. Key(a) = Key(tab) /\ Offset(a) = Offset(tab)
  BY <1>2, CalmKey
<1>4. Placed(a) /\ Loads(a) /\ Booked(a)
  BY <1>2, <1>3, TabTyped DEF Placed, Loads, Booked, Calm
<1>5. PendsOn(a, a.req)
  BY <1>2 DEF PendsOn
<1>6. Seeks(a)
  BY <1>2, <1>3, TabTyped DEF Seeks
<1> QED
  BY <1>1, <1>2, <1>4, <1>5, <1>6 DEF Stays, TabInv, Kept, Calm, Frozen

LEMMA NavWakesSteps ==
  ASSUME TimelineInv, NavWakes
  PROVE  Advances
<1>1. ~tab.preload.pending
  BY TabTyped, PendingLoads DEF NavWakes
<1>2. PICK n : n = [tab.nav EXCEPT !.phase = "look"]
  OBVIOUS
<1>3. n \in Navigation
  BY <1>2, TabTyped DEF Navigation
<1>4. PICK a : a = [tab EXCEPT !.inv = "nav", !.nav = n]
  OBVIOUS
<1>5. TabInv(a) /\ Stays(tab, a)
  BY <1>1, <1>3, <1>4, InvocationBegins DEF Seekers
<1>6. a = [tab EXCEPT !.inv = "nav", !.nav.phase = "look"]
  BY <1>2, <1>4, TabTyped DEF TabState
<1>7. PICK t : /\ Does(t)
               /\ t = NavEnded(tab, serverRev) \/ t = Discovered(a, a.events) \/ t = a
  BY <1>6 DEF NavWakes
<1>8. CASE t = NavEnded(tab, serverRev)
  <2>1. Goes(tab, t)
    BY <1>8, TabTyped, NavEndedMoves DEF Moves
  <2>2. Steps(tab, t)
    BY <2>1, TabTyped, GoesSteps
  <2> QED
    BY <1>7, <2>2, TurnEnds
<1>9. CASE t = Discovered(a, a.events)
  <2>1. Steps(a, t)
    BY <1>5, <1>9, DiscoveredSteps
  <2>2. Steps(tab, t)
    BY <1>5, <2>1, StaysThenSteps
  <2> QED
    BY <1>7, <2>2, TurnEnds
<1>10. CASE t = a
  <2>1. Steps(tab, t)
    BY <1>5, <1>10, TabTyped, StaysSteps
  <2> QED
    BY <1>7, <2>1, TurnEnds
<1> QED
  BY <1>7, <1>8, <1>9, <1>10

LEMMA NavEndsSteps ==
  ASSUME TimelineInv, Does(NavEnded(tab, serverRev))
  PROVE  Advances
<1>1. PICK t : t = NavEnded(tab, serverRev)
  OBVIOUS
<1>2. Goes(tab, t)
  BY <1>1, TabTyped, NavEndedMoves DEF Moves
<1>3. Steps(tab, t)
  BY <1>2, TabTyped, GoesSteps
<1> QED
  BY <1>1, <1>3, TurnEnds

LEMMA NavChasesSteps ==
  ASSUME TimelineInv, NavChases
  PROVE  Advances
<1>1. PICK id \in tab.registry.owners :
        Does(Chased([tab EXCEPT !.chase["navChase"].id = id], "navChase", serverRev))
  BY DEF NavChases
<1>2. id \in Ids
  BY <1>1, TabTyped DEF Registry
<1>3. PICK t : t = Chased([tab EXCEPT !.chase["navChase"].id = id], "navChase", serverRev)
  OBVIOUS
<1>4. Steps(tab, t)
  BY <1>2, <1>3, ChaseBegins DEF Chasers
<1> QED
  BY <1>1, <1>3, <1>4, TurnEnds

LEMMA NavDrawsSteps ==
  ASSUME TimelineInv, NavDraws
  PROVE  Advances
<1>1. PICK d : d = Rendered(tab)
  OBVIOUS
<1>2. Does(d)
  BY <1>1 DEF NavDraws
<1>3. Kept(d) /\ Held(tab, d) /\ Grows(tab, d) /\ d.events = tab.events
  BY <1>1, TabTyped, RenderedKept DEF Placed
<1>4. TabInv(d) /\ d \in TabState
  BY <1>3, TabTyped, SeeksHeld DEF TabInv, Kept
<1>5. Goes(d, d)
  BY <1>4, CoreKept DEF SameCore, Calm
<1>6. Steps(tab, d)
  BY <1>3, <1>5, TabTyped, HeldSteps
<1> QED
  BY <1>2, <1>6, TurnEnds

LEMMA NavLooksSteps ==
  ASSUME TimelineInv, NavLooks
  PROVE  Advances
<1>1. CASE Does(NavEnded(tab, serverRev))
  BY <1>1, NavEndsSteps
<1>2. CASE ~Does(NavEnded(tab, serverRev))
  <2>1. Ready(tab) /\ Offset(tab) < tab.total /\ ~tab.loading
    BY <1>2 DEF NavLooks
  <2>2. PICK direction \in {"forward", "reverse"} :
          Does(BatchStarted([tab EXCEPT !.nav.phase = "load"], "nav", direction, serverRev))
    BY <1>2 DEF NavLooks
  <2>3. PICK n : n = [tab.nav EXCEPT !.phase = "load"]
    OBVIOUS
  <2>4. n \in Navigation
    BY <2>3, TabTyped DEF Navigation
  <2>5. PICK a : a = [tab EXCEPT !.nav = n]
    OBVIOUS
  <2>6. a \in TabState /\ SameCore(tab, a)
    BY <2>4, <2>5, NavChanged
  <2>7. a = [tab EXCEPT !.nav.phase = "load"] /\ a.total = tab.total
    BY <2>3, <2>5, TabTyped DEF TabState
  <2>8. PICK t : t = BatchStarted(a, "nav", direction, serverRev)
    OBVIOUS
  <2>9. Does(t)
    BY <2>2, <2>7, <2>8
  <2>10. Stays(tab, a)
    BY <2>6, TabTyped, SameStays
  <2>11. Placed(a) /\ Booked(a)
    BY <2>10 DEF Stays, TabInv, Kept
  <2>12. Key(a) = Key(tab) /\ Offset(a) = Offset(tab)
    BY <2>6, CalmKey DEF SameCore
  <2>13. Key(a) \in SessionKeys /\ Offset(a) < a.total
    BY <2>1, <2>7, <2>12, TabTyped DEF Ready
  <2>14. ~a.preload.pending
    BY <2>1, <2>6, TabTyped, PendingLoads DEF SameCore
  <2>15. "nav" \in Seekers /\ direction \in {"none", "forward", "reverse"}
    BY DEF Seekers
  <2>16. /\ TabInv(t) /\ Calm(a, t) /\ t.preload.key = a.preload.key
         /\ a.preload.pages <= t.preload.pages
    BY <2>6, <2>8, <2>11, <2>13, <2>14, <2>15, TabTyped, BatchStarts
  <2>17. Steps(a, t)
    BY <2>16 DEF Steps, Targets, Budget, Calm
  <2>18. Steps(tab, t)
    BY <2>10, <2>17, StaysThenSteps
  <2> QED
    BY <2>9, <2>18, TurnEnds
<1> QED
  BY <1>1, <1>2

LEMMA NavFinishesSteps ==
  ASSUME TimelineInv, NavFinishes
  PROVE  Advances
BY NavEndsSteps DEF NavFinishes

LEMMA FailPageSteps ==
  ASSUME TimelineInv, FailPage
  PROVE  Advances
<1>1. PICK r : r = tab.req
  OBVIOUS
<1>2. r \in PageReq
  <2>1. r \in Requests \cup {NoReq} /\ r.kind \in {"replace", "append", "find", "prefix"}
    BY <1>1, TabTyped DEF FailPage, IsPaged, TabState
  <2>2. r # NoReq /\ r.kind # "batch"
    BY <2>1 DEF NoReq
  <2> QED
    BY <2>1, <2>2, RequestKinds DEF Requests
<1>3. PICK t : t = Failure(tab, r)
  OBVIOUS
<1>4. Does(t)
  BY <1>1, <1>3 DEF FailPage
<1>5. Steps(tab, t)
  BY <1>1, <1>2, <1>3, TabTyped, FailureSteps
<1> QED
  BY <1>4, <1>5, TurnEnds

LEMMA FailBatchSteps ==
  ASSUME TimelineInv, FailBatch
  PROVE  Advances
<1>1. PICK r : r = tab.req
  OBVIOUS
<1>2. PICK t : t = BatchFailure(tab, r)
  OBVIOUS
<1>3. Does(t) /\ r.kind = "batch"
  BY <1>1, <1>2 DEF FailBatch
<1>4. Steps(tab, t)
  BY <1>1, <1>2, <1>3, TabTyped, BatchFailureSteps
<1> QED
  BY <1>3, <1>4, TurnEnds

\* The suggestions are there, and the recovery is told.
LEMMA Heard ==
  ASSUME NEW s, TabInv(s), NEW result \in {"none", "stale", "committed", "declined"},
         NEW outcome,
         NEW h, h = [s EXCEPT !.sugg = NoSuggestions],
         NEW u, \/ u = h
                \/ u = RecoveryHears([h EXCEPT !.recovery.result = result],
                                     "suggestions", outcome)
  PROVE  Stays(s, u)
<1>1. s \in TabState /\ s.recovery \in Recovery /\ NoSuggestions \in Suggestions
  BY DEF TabInv, Kept, TabState, NoSuggestions, Suggestions
<1>2. CASE u = h
  <2>1. u = [s EXCEPT !.recovery = s.recovery, !.sugg = NoSuggestions]
    BY <1>1, <1>2 DEF TabState
  <2> QED
    BY <1>1, <2>1, RecoveryChanged
<1>3. CASE u = RecoveryHears([h EXCEPT !.recovery.result = result], "suggestions", outcome)
  <2>1. PICK v : v = [s.recovery EXCEPT !.result = result]
    OBVIOUS
  <2>2. v \in Recovery
    BY <1>1, <2>1 DEF Recovery
  <2>3. PICK t : t = [s EXCEPT !.recovery = v, !.sugg = NoSuggestions]
    OBVIOUS
  <2>4. Stays(s, t)
    BY <1>1, <2>2, <2>3, RecoveryChanged
  <2>5. t = [h EXCEPT !.recovery.result = result]
    BY <1>1, <2>1, <2>3 DEF TabState
  <2>6. u = RecoveryHears(t, "suggestions", outcome)
    BY <1>3, <2>5
  <2>7. Moves(t, u) /\ SameCore(t, u)
    BY <2>4, <2>6, RecoveryHearsMoves DEF Stays
  <2>8. Stays(t, u)
    BY <2>7 DEF Moves, Goes, Stays, SameCore, Calm, Frozen
  <2> QED
    BY <2>4, <2>8, StaysTrans
<1> QED
  BY <1>2, <1>3

LEMMA SuggestionsHeardSteps ==
  ASSUME TimelineInv, NEW result, Does(SuggestionsHeard(result))
  PROVE  Advances
<1>1. PICK h : h = [tab EXCEPT !.sugg = NoSuggestions]
  OBVIOUS
<1>2. PICK t : t = SuggestionsHeard(result)
  OBVIOUS
<1>3. PICK said : said = IF result = "committed" THEN "committed" ELSE "declined"
  OBVIOUS
<1>4. said \in {"none", "stale", "committed", "declined"}
  BY <1>3
<1>5. \/ t = h
      \/ t = RecoveryHears([h EXCEPT !.recovery.result = said], "suggestions",
                           IF result = "error" THEN "error" ELSE "done")
  BY <1>1, <1>2, <1>3 DEF SuggestionsHeard
<1>6. Stays(tab, t)
  BY <1>1, <1>4, <1>5, TabTyped, Heard
<1>7. Steps(tab, t)
  BY <1>6, TabTyped, StaysSteps
<1> QED
  BY <1>2, <1>7, TurnEnds

LEMMA AnswerSuggestionsSteps ==
  ASSUME TimelineInv, AnswerSuggestions
  PROVE  Advances
<1>1. CASE Does(SuggestionsHeard("committed"))
  BY <1>1, SuggestionsHeardSteps
<1>2. CASE ~Does(SuggestionsHeard("committed"))
  <2>1. PICK s : s = Mismatched(tab)
    OBVIOUS
  <2>2. PICK h : h = [s EXCEPT !.sugg = NoSuggestions]
    OBVIOUS
  <2>3. PICK t : /\ Does(t)
                 /\ \/ t = s
                    \/ t = h
                    \/ t = RecoveryHears([h EXCEPT !.recovery.result = "declined"],
                                         "suggestions", "done")
    BY <1>2, <2>1, <2>2 DEF AnswerSuggestions
  <2>4. Stays(tab, s)
    BY <2>1, TabTyped, MismatchedStays
  <2>5. Stays(s, t)
    <3>1. TabInv(s)
      BY <2>4 DEF Stays
    <3>2. CASE t = s
      BY <3>1, <3>2 DEF Stays, Frozen
    <3>3. CASE t # s
      <4>1. \/ t = h
            \/ t = RecoveryHears([h EXCEPT !.recovery.result = "declined"],
                                 "suggestions", "done")
        BY <2>3, <3>3
      <4> QED
        BY <2>2, <3>1, <4>1, Heard
    <3> QED
      BY <3>2, <3>3
  <2>6. Stays(tab, t)
    BY <2>4, <2>5, StaysTrans
  <2>7. Steps(tab, t)
    BY <2>6, TabTyped, StaysSteps
  <2> QED
    BY <2>3, <2>7, TurnEnds
<1> QED
  BY <1>1, <1>2

LEMMA FailSuggestionsSteps ==
  ASSUME TimelineInv, FailSuggestions
  PROVE  Advances
BY SuggestionsHeardSteps DEF FailSuggestions

LEMMA AnswerListSteps ==
  ASSUME TimelineInv, AnswerList
  PROVE  Advances
<1>1. PICK a : a = [tab EXCEPT !.sessionsReady = TRUE]
  OBVIOUS
<1>2. PICK m : m = Mismatched(tab)
  OBVIOUS
<1>3. \/ \E sess \in Session \cup {NoSession} : Does(Listed(a, sess))
      \/ Does(NextAttempt(m))
  BY <1>1, <1>2 DEF AnswerList
<1>4. CASE \E sess \in Session \cup {NoSession} : Does(Listed(a, sess))
  <2>1. PICK sess \in Session \cup {NoSession} : Does(Listed(a, sess))
    BY <1>4
  <2>2. a \in TabState
    BY <1>1, TabTyped DEF TabState
  <2>3. /\ a.scope = tab.scope /\ a.sess = tab.sess /\ a.expr = tab.expr
        /\ a.loading = tab.loading /\ a.req = tab.req /\ a.inv = tab.inv
        /\ a.preload = tab.preload /\ a.registry = tab.registry /\ a.events = tab.events
        /\ a.tctx = tab.tctx /\ a.surface = tab.surface
    BY <1>1, TabTyped DEF TabState
  <2>4. Key(a) = Key(tab) /\ Offset(a) = Offset(tab)
    BY <2>3 DEF Key, Offset
  <2>5. Placed(a) /\ Loads(a) /\ Booked(a)
    BY <2>3, <2>4, TabTyped DEF Placed, Loads, Booked
  <2>6. PendsOn(a, a.req) /\ Seeks(a)
    BY <2>3, <2>4, TabTyped DEF PendsOn, Seeks
  <2>7. Stays(tab, a)
    BY <2>2, <2>3, <2>5, <2>6 DEF Stays, TabInv, Kept, Frozen
  <2>8. PICK t : t = Listed(a, sess)
    OBVIOUS
  <2>9. Steps(a, t)
    BY <2>7, <2>8, TabTyped, ListedSteps DEF Stays
  <2>10. Steps(tab, t)
    BY <2>7, <2>9, StaysThenSteps
  <2> QED
    BY <2>1, <2>8, <2>10, TurnEnds
<1>5. CASE Does(NextAttempt(m))
  <2>1. PICK t : t = NextAttempt(m)
    OBVIOUS
  <2>2. Stays(tab, m)
    BY <1>2, TabTyped, MismatchedStays
  <2>3. Stays(m, t)
    BY <2>1, <2>2, TabTyped, NextAttemptStays DEF Stays
  <2>4. Stays(tab, t)
    BY <2>2, <2>3, StaysTrans
  <2>5. Steps(tab, t)
    BY <2>4, TabTyped, StaysSteps
  <2> QED
    BY <1>5, <2>1, <2>5, TurnEnds
<1> QED
  BY <1>3, <1>4, <1>5

LEMMA FailRecoverySteps ==
  ASSUME TimelineInv, FailRecovery
  PROVE  Advances
<1>1. PICK t : t = RecoverySettled(tab)
  OBVIOUS
<1>2. Stays(tab, t)
  BY <1>1, TabTyped, RecoverySettledStays
<1>3. Steps(tab, t)
  BY <1>2, TabTyped, StaysSteps
<1> QED
  BY <1>1, <1>3, TurnEnds DEF FailRecovery

\* The state of the application is applied anew, and the budgets with it.
LEMMA AnswerStateSteps ==
  ASSUME TimelineInv, AnswerState
  PROVE  TabInv(tab') /\ Targets(tab, tab')
<1>1. PICK v : v = [tab.recovery EXCEPT !.phase = "list", !.since = serverRev]
  OBVIOUS
<1>2. v \in Recovery
  BY <1>1, TabTyped DEF Recovery
<1>3. PICK p : p = NoPreload
  OBVIOUS
<1>4. p \in Preload /\ p.key = NoKey /\ p.pages = 0 /\ ~p.pending
  BY <1>3 DEF NoPreload, Preload
<1>5. PICK a : a = [tab EXCEPT !.rev = serverRev, !.preload = p, !.recovery = v]
  OBVIOUS
<1>6. a \in TabState
  BY <1>2, <1>4, <1>5, TabTyped DEF TabState
<1>7. /\ a.scope = tab.scope /\ a.sess = tab.sess /\ a.expr = tab.expr
      /\ a.loading = tab.loading /\ a.req = tab.req /\ a.inv = tab.inv
      /\ a.preload = p /\ a.registry = tab.registry /\ a.events = tab.events
      /\ a.tctx = tab.tctx /\ a.surface = tab.surface
  BY <1>5, TabTyped DEF TabState
<1>8. Key(a) = Key(tab) /\ Offset(a) = Offset(tab)
  BY <1>7 DEF Key, Offset
<1>9. Placed(a) /\ Loads(a)
  BY <1>7, <1>8, TabTyped DEF Placed, Loads
<1>10. Booked(a) /\ PendsOn(a, a.req)
  BY <1>4, <1>7, TabTyped DEF Booked, PendsOn
<1>11. Seeks(a)
  <2>1. tab.req \in BatchReq => tab.req.batch.consumed \in Nat
    BY DEF BatchReq, Batch
  <2> QED
    BY <1>4, <1>7, <1>8, <2>1, TabTyped DEF Seeks
<1>12. TabInv(a)
  BY <1>6, <1>9, <1>10, <1>11 DEF TabInv, Kept
<1>13. PICK h : h = Highlighted(a, serverRev)
  OBVIOUS
<1>14. TabInv(h) /\ Grows(a, h)
  BY <1>12, <1>13, TabTyped, HighlightedGoes
<1>15. a = [tab EXCEPT !.rev = serverRev, !.preload = NoPreload,
                       !.recovery.phase = "list", !.recovery.since = serverRev]
  BY <1>1, <1>3, <1>5, TabTyped DEF TabState
<1>16. tab' = Turn(h)
  BY <1>13, <1>15 DEF AnswerState, Does
<1>17. Stays(h, tab')
  BY <1>14, <1>16, TabTyped, TurnStays
<1>18. Targets(tab, tab')
  BY <1>7, <1>14, <1>17 DEF Grows, Stays, Targets
<1> QED
  BY <1>17, <1>18 DEF Stays

-----------------------------------------------------------------------------
(* The invariant *)

\* The tab opens on a session.
LEMMA OpenedHolds ==
  ASSUME NEW sess \in Session, NEW e \in Expr, e.text = NoText, NEW s, s = Opened(sess, e)
  PROVE  TabInv(s)
<1>1. PICK key : key = [scope |-> "session", sess |-> sess, expr |-> e]
  OBVIOUS
<1>2. key \in SessionKeys /\ key \in TabKeys /\ key.expr = e
  BY <1>1 DEF SessionKeys, TabKeys
<1>3. PICK r : r = [kind |-> "replace", who |-> "user", key |-> key, rev |-> 1, ok |-> TRUE,
                    latest |-> TRUE, want |-> PageSize, got |-> <<>>]
  OBVIOUS
<1>4. r \in PageReq /\ r.latest
  BY <1>2, <1>3, Numbers DEF PageReq
<1>5. r \in Requests /\ r \notin BatchReq /\ r # NoReq
  BY <1>4, RequestKinds DEF Requests
<1>6. PICK g : g = [key |-> key, owners |-> {}]
  OBVIOUS
<1>7. g \in Registry /\ g.key = key /\ g.owners = {}
  BY <1>2, <1>6 DEF Registry
<1>8. PICK n : n = [phase |-> "idle", key |-> NoKey, queue |-> 0]
  OBVIOUS
<1>9. n \in Navigation
  BY <1>8 DEF Navigation
<1>10. PICK c : c = [w \in Chasers |-> NoChase]
  OBVIOUS
<1>11. c \in Chase
  BY <1>10 DEF Chase, NoChase
<1>12. PICK p : p = NoPreload
  OBVIOUS
<1>13. p \in Preload /\ p.pages = 0 /\ ~p.pending
  BY <1>12 DEF NoPreload, Preload
<1>14. NoSuggestions \in Suggestions /\ NoRecovery \in Recovery
  BY DEF NoSuggestions, Suggestions, NoRecovery, Recovery
<1>15. s = [scope |-> "session", sess |-> sess, expr |-> e, rev |-> 1, sessionsReady |-> TRUE,
            tctx |-> NoKey, events |-> <<>>, total |-> 0, loading |-> TRUE, req |-> r,
            retry |-> NoRetry, inv |-> "none", preload |-> p, registry |-> g,
            surface |-> NoKey, nav |-> n, timers |-> {}, highlight |-> NoKey, chase |-> c,
            sugg |-> NoSuggestions, recovery |-> NoRecovery]
  BY <1>1, <1>3, <1>6, <1>8, <1>10, <1>12 DEF Opened
<1>16. s \in TabState
  <2>1. <<>> \in Seq(Event) /\ NoKey \in Contexts /\ 1 \in Revs
    BY Numbers DEF Contexts
  <2> QED
    BY <1>5, <1>7, <1>9, <1>11, <1>13, <1>14, <1>15, <2>1 DEF TabState
<1>17. /\ s.scope = "session" /\ s.sess = sess /\ s.expr = e /\ s.loading /\ s.req = r
       /\ s.preload = p /\ s.registry = g /\ s.surface = NoKey
  BY <1>15
<1>18. Key(s) = key
  BY <1>1, <1>17 DEF Key
<1>19. Placed(s) /\ Loads(s) /\ PendsOn(s, s.req) /\ Booked(s)
  BY <1>4, <1>5, <1>7, <1>13, <1>17, <1>18 DEF Placed, Loads, PendsOn, Booked
<1>20. Seeks(s)
  BY <1>5, <1>17 DEF Seeks
<1> QED
  BY <1>16, <1>19, <1>20 DEF TabInv, Kept

LEMMA InitHolds ==
  ASSUME Init
  PROVE  TimelineInv
<1>1. PICK sess \in Session, e \in {x \in Expr : x.text = NoText} : tab = Opened(sess, e)
  BY DEF Init
<1>2. TabInv(tab)
  BY <1>1, OpenedHolds
<1> QED
  BY <1>2, Numbers DEF Init, TimelineInv

LEMMA UserActsSteps ==
  ASSUME TimelineInv, UserActs
  PROVE  Advances
<1>1. CASE \E sess \in Session : SelectSession(sess)
  BY <1>1, SelectSessionSteps
<1>2. CASE \E e \in Expr : EditExpression(e) \/ ChooseFilter(e)
  BY <1>2, EditExpressionSteps, ChooseFilterSteps
<1>3. CASE \E sess \in Session : DrillDown(sess)
  BY <1>3, DrillDownActs
<1>4. CASE \E id \in Ids : GoTo(id)
  BY <1>4, GoToSteps
<1> QED
  BY <1>1, <1>2, <1>3, <1>4, LoadMoreSteps, LoadMoreTargetsSteps, NavigateSteps,
     LeaveForProjectActs, ReturnToSessionSteps, RerenderSteps DEF UserActs

LEMMA TimersSteps ==
  ASSUME TimelineInv, Timers \/ Details
  PROVE  Advances
BY FireHighlightSteps, FireReloadSteps, FireFindSteps, ChaseWakesSteps, NavWakesSteps,
   NavChasesSteps, NavDrawsSteps, NavLooksSteps, NavFinishesSteps DEF Timers, Details

LEMMA NetworkSteps ==
  ASSUME TimelineInv, Network, ~AnswerState
  PROVE  Advances
BY AnswerPageSteps, FailPageSteps, AnswerBatchSteps, FailBatchSteps, AnswerSuggestionsSteps,
   FailSuggestionsSteps, AnswerListSteps, FailRecoverySteps DEF Network

\* What every step keeps.
Progress ==
  /\ TimelineInv'
  /\ Targets(tab, tab')
  /\ tab.recovery.phase = "state" \/ Budget(tab, tab')

LEMMA NextHolds ==
  ASSUME TimelineInv, [Next]_vars
  PROVE  Progress
<1>1. serverRev \in Revs /\ acts \in Nat /\ TabInv(tab) /\ tab.preload.pages \in Nat
  BY TabTyped DEF TimelineInv, Preload
<1>2. ASSUME Advances
      PROVE  Progress
  BY <1>1, <1>2 DEF Advances, Progress, Steps, TimelineInv
<1>3. CASE Install
  <2>1. serverRev' \in Revs
    BY <1>1, <1>3, Numbers DEF Install, Revs
  <2> QED
    BY <1>1, <1>3, <2>1 DEF Install, Progress, TimelineInv, Targets, Budget
<1>4. CASE AnswerState
  <2>1. TabInv(tab') /\ Targets(tab, tab')
    BY <1>4, AnswerStateSteps
  <2>2. tab.recovery.phase = "state" /\ serverRev' = serverRev /\ acts' = acts
    BY <1>4 DEF AnswerState, Does
  <2> QED
    BY <1>1, <2>1, <2>2 DEF Progress, TimelineInv
<1>5. CASE UNCHANGED vars
  BY <1>1, <1>5 DEF vars, Progress, TimelineInv, Targets, Budget
<1>6. CASE Next /\ ~Install /\ ~AnswerState
  BY <1>2, <1>6, UserActsSteps, TimersSteps, NetworkSteps DEF Next
<1> QED
  BY <1>3, <1>4, <1>5, <1>6

-----------------------------------------------------------------------------
(* What is in view.  s is a tab, n the revision of the server. *)

\* The events e follow the first `from` of the timeline of key k at revision n.
Follows(e, from, k, n) ==
  /\ Len(e) > 0 => from + Len(e) <= Len(Answered(k, n))
  /\ \A m \in DOMAIN e : e[m].key = k /\ e[m].rev = n /\ e[m].id = Answered(k, n)[from + m]

\* What is in view is the beginning of the committed timeline, at the tab's revision.
Viewed(s) ==
  IF s.tctx = NoKey THEN s.events = <<>>
  ELSE Follows(s.events, 0, s.tctx, s.rev) /\ s.total = Len(Answered(s.tctx, s.rev))

\* Of two revisions, the tab recovers to the last.
Settles(n) == MaxRevision <= 2 => n = MaxRevision

\* While a tab that recovers does not know the new revision, nothing is in view.
Recovers(s, n) ==
  /\ s.rev \in 1..n
  /\ s.sugg = NoSuggestions \/ s.sugg.since \in 1..n
  /\ s.recovery.phase # "idle" =>
       Settles(n) /\ (s.rev # n => s.recovery.phase = "state" /\ s.tctx = NoKey)
  /\ s.recovery.waits # {} => s.recovery.phase \in {"select", "suggest"}
  /\ s.recovery.phase = "list" => s.recovery.since \in 1..n

Hits(k, n) == {Answered(k, n)[m] : m \in DOMAIN Answered(k, n)} \cap HitsAt(k.expr)

\* Every hit of the search is a target.
Found(s) ==
  /\ s.scope = "session" /\ s.registry.key = Key(s) /\ Searching(s)
  /\ Hits(Key(s), s.rev) \subseteq s.registry.owners

\* No hit is missing when the search says that there are no more.
Exhaustive(s) ==
  s.preload.exhausted =>
    /\ s.scope = "session" /\ s.registry.key = Key(s)
    /\ s.preload.key = Key(s) => Found(s)

Sound(s, n) == Viewed(s) /\ Recovers(s, n) /\ Exhaustive(s)

\* What the request r of s will bring goes on from what is in view, and a tab
\* that does not know the new revision asks for nothing that is answered.
Fits(s, r, n) ==
  r # NoReq =>
    IF r.kind = "batch"
    THEN LET b == r.batch
         IN  /\ Follows(b.accepted, b.base, r.key, r.rev)
             /\ b.total = Len(Answered(r.key, r.rev))
             /\ r.who = "loadMore" => r.key.expr.text # NoText
    ELSE /\ r.ok => /\ r.rev = s.rev /\ Follows(r.got, 0, r.key, r.rev)
                    /\ s.recovery.phase # "idle" => s.rev = n
         /\ r.kind \in {"replace", "append"} => r.got = <<>>
         /\ r.kind = "append" /\ r.latest => s.tctx = r.key

View(s, n) == Sound(s, n) /\ Fits(s, s.req, n)

\* The tab has its fields, and what is drawn is committed.
Formed(s) ==
  /\ DOMAIN s = {"scope", "sess", "expr", "rev", "sessionsReady", "tctx", "events", "total",
                 "loading", "req", "retry", "inv", "preload", "registry", "surface", "nav",
                 "timers", "highlight", "chase", "sugg", "recovery"}
  /\ DOMAIN s.preload = {"key", "pages", "pending", "exhausted"}
  /\ DOMAIN s.nav = {"phase", "key", "queue"}
  /\ DOMAIN s.recovery = {"phase", "attempt", "requested", "waits", "result", "since"}
  /\ s.scope \in {"session", "project"}
  /\ s.surface \in {NoKey, s.tctx}

-----------------------------------------------------------------------------
(* Functions of a callback that leave the view alone *)

\* A request that s may begin
Asks(s, r, n) ==
  /\ r.key = Key(s) /\ r.rev = s.rev
  /\ IF r.kind = "batch"
     THEN /\ s.tctx = Key(s)
          /\ r.batch.accepted = <<>> /\ r.batch.base = Offset(s) /\ r.batch.total = s.total
          /\ r.who = "loadMore" => Searching(s)
     ELSE /\ r.ok = (s.rev = n) /\ r.got = <<>>
          /\ r.kind = "append" => s.tctx = Key(s)

\* The recovery goes no further, unless it fails.
Waits(v, w) ==
  \/ w.phase = v.phase /\ w.since = v.since /\ w.waits \subseteq v.waits
  \/ v.waits # {} /\ w.phase = "failed" /\ w.waits = {}

\* What is in view stays, and what is known of the search.
Quiet(s, u, n) ==
  /\ Formed(u)
  /\ u.scope = s.scope /\ u.sess = s.sess /\ u.expr = s.expr /\ u.rev = s.rev
  /\ u.tctx = s.tctx /\ u.events = s.events /\ u.total = s.total
  /\ \/ u.registry = s.registry
     \/ /\ u.registry.key = Key(s)
        /\ Searching(s) /\ s.registry.key = Key(s) =>
             s.registry.owners \subseteq u.registry.owners
  /\ u.preload.exhausted => s.preload.exhausted /\ u.preload.key = s.preload.key
  /\ u.sugg \in {s.sugg, NoSuggestions} \/ u.sugg.since = n
  /\ Waits(s.recovery, u.recovery)

\* ... and the tab may have begun a request.
Calls(s, u, q, n) == Quiet(s, u, n) /\ (u.req = q \/ Asks(s, u.req, n))

LEMMA QuietSelf ==
  ASSUME NEW s, Formed(s), NEW n
  PROVE  Quiet(s, s, n)
BY DEF Quiet, Waits

LEMMA QuietTrans ==
  ASSUME NEW s, NEW t, NEW u, NEW n, Quiet(s, t, n), Quiet(t, u, n)
  PROVE  Quiet(s, u, n)
BY DEF Quiet, Waits, Key, Searching

LEMMA CallsTrans ==
  ASSUME NEW s, NEW t, NEW u, NEW q, NEW n, Calls(s, t, q, n), Calls(t, u, t.req, n)
  PROVE  Calls(s, u, q, n)
<1>1. Quiet(s, u, n)
  BY QuietTrans DEF Calls
<1>2. ASSUME Asks(t, u.req, n) PROVE Asks(s, u.req, n)
  BY <1>2 DEF Asks, Calls, Quiet, Key, Searching, Offset
<1> QED
  BY <1>1, <1>2 DEF Calls

LEMMA BatchStartedCalls ==
  ASSUME NEW s, Formed(s), s.tctx = Key(s), NEW who, NEW direction, NEW n,
         who = "loadMore" => Searching(s),
         NEW u, u = BatchStarted(s, who, direction, n)
  PROVE  Calls(s, u, s.req, n)
<1>1. PICK r : r = BatchRequest(s, who, direction, n)
  OBVIOUS
<1>2. Asks(s, r, n)
  BY <1>1 DEF Asks, BatchRequest, Begun, Created
<1>3. u = [s EXCEPT !.req = r, !.loading = TRUE,
                !.preload.pages = IF who = "preload" THEN r.batch.consumed ELSE @]
  BY <1>1 DEF BatchStarted
<1>4. Quiet(s, u, n) /\ u.req = r
  BY <1>3 DEF Quiet, Formed, Waits
<1> QED
  BY <1>2, <1>4 DEF Calls

LEMMA MaybePreloadCalls ==
  ASSUME NEW s, Formed(s), NEW n, NEW u, u = MaybePreload(s, n)
  PROVE  Calls(s, u, s.req, n)
<1>1. CASE ~(WantsPreload(s) /\ PreloadPages(s) < PreloadMaxPages)
  BY <1>1, QuietSelf DEF MaybePreload, Calls
<1>2. CASE WantsPreload(s) /\ PreloadPages(s) < PreloadMaxPages
  <2>1. PICK p : p = IF s.preload.key = Key(s) THEN s.preload
                     ELSE [NoPreload EXCEPT !.key = Key(s)]
    OBVIOUS
  <2>2. PICK t : t = [s EXCEPT !.inv = "preload", !.preload = [p EXCEPT !.pending = TRUE]]
    OBVIOUS
  <2>3. u = BatchStarted(t, "preload", "none", n)
    BY <1>2, <2>1, <2>2 DEF MaybePreload
  <2>4. s.surface = Key(s) /\ Key(s) # NoKey
    BY <1>2 DEF WantsPreload, Ready, Key, NoKey
  <2>5. Quiet(s, t, n) /\ t.req = s.req
    BY <2>1, <2>2 DEF Quiet, Formed, Waits, NoPreload
  <2>6. Formed(t) /\ t.tctx = Key(t)
    BY <2>4, <2>5 DEF Quiet, Formed, Key
  <2>7. Calls(t, u, t.req, n)
    BY <2>3, <2>6, BatchStartedCalls
  <2>8. Calls(s, t, s.req, n)
    BY <2>5 DEF Calls
  <2> QED
    BY <2>7, <2>8, CallsTrans
<1> QED
  BY <1>1, <1>2

LEMMA QuietCalls ==
  ASSUME NEW s, NEW u, NEW n, NEW q, Quiet(s, u, n), u.req = q
  PROVE  Calls(s, u, q, n)
BY DEF Calls

LEMMA NavEndedCalls ==
  ASSUME NEW s, Formed(s), NEW n, NEW u, u = NavEnded(s, n)
  PROVE  Calls(s, u, s.req, n)
<1>1. CASE s.nav.queue > 0
  BY <1>1 DEF NavEnded, Calls, Quiet, Formed, Waits
<1>2. CASE ~(s.nav.queue > 0)
  <2>1. PICK t : t = [s EXCEPT !.nav.phase = "idle", !.nav.key = NoKey]
    OBVIOUS
  <2>2. u = MaybePreload(t, n)
    BY <1>2, <2>1 DEF NavEnded
  <2>3. Quiet(s, t, n) /\ t.req = s.req
    BY <2>1 DEF Quiet, Formed, Waits
  <2>4. Calls(t, u, t.req, n)
    BY <2>2, <2>3, MaybePreloadCalls DEF Quiet
  <2> QED
    BY <2>3, <2>4, QuietCalls, CallsTrans
<1> QED
  BY <1>1, <1>2

LEMMA ChaseQuiet ==
  ASSUME NEW s, Formed(s), NEW n, NEW c, NEW u, u = [s EXCEPT !.chase = c]
  PROVE  Quiet(s, u, n) /\ u.req = s.req
BY DEF Quiet, Formed, Waits

LEMMA ChaseLoadsCalls ==
  ASSUME NEW s, Formed(s), NEW w, NEW n, NEW u, u = ChaseLoads(s, w, n)
  PROVE  Calls(s, u, s.req, n)
<1>1. CASE ~PageRefused(s)
  <2>1. PICK r : r = Request(s, "append", w, n, Offset(s))
    OBVIOUS
  <2>2. u = [s EXCEPT !.chase[w].phase = "append", !.loading = TRUE, !.req = r]
    BY <1>1, <2>1 DEF ChaseLoads
  <2>3. Asks(s, r, n)
    BY <1>1, <2>1 DEF Asks, Request, PageRefused
  <2> QED
    BY <2>2, <2>3 DEF Calls, Quiet, Formed, Waits
<1>2. CASE PageRefused(s)
  <2>1. PICK c : u = [s EXCEPT !.chase = c]
    BY <1>2 DEF ChaseLoads
  <2> QED
    BY <2>1, ChaseQuiet DEF Calls
<1> QED
  BY <1>1, <1>2

LEMMA ChasedCalls ==
  ASSUME NEW s, Formed(s), NEW w, NEW n, NEW u, u = Chased(s, w, n)
  PROVE  Calls(s, u, s.req, n)
<1>1. CASE u = ChaseLoads(s, w, n)
  BY <1>1, ChaseLoadsCalls
<1>2. CASE u # ChaseLoads(s, w, n)
  <2>1. PICK c : u = [s EXCEPT !.chase = c]
    BY <1>2 DEF Chased
  <2> QED
    BY <2>1, ChaseQuiet DEF Calls
<1> QED
  BY <1>1, <1>2

LEMMA PreloadEndedCalls ==
  ASSUME NEW s, Formed(s), NEW r, NEW n, NEW u, u = PreloadEnded(s, r, n)
  PROVE  Calls(s, u, s.req, n)
<1>1. CASE InvocationCurrent(s, r) /\ s.preload.key = r.key
  <2>1. PICK t : t = [s EXCEPT !.preload.pending = FALSE]
    OBVIOUS
  <2>2. u = MaybePreload(t, n)
    BY <1>1, <2>1 DEF PreloadEnded
  <2>3. Quiet(s, t, n) /\ t.req = s.req
    BY <2>1 DEF Quiet, Formed, Waits
  <2>4. Calls(t, u, t.req, n)
    BY <2>2, <2>3, MaybePreloadCalls DEF Quiet
  <2> QED
    BY <2>3, <2>4, QuietCalls, CallsTrans
<1>2. CASE ~(InvocationCurrent(s, r) /\ s.preload.key = r.key)
  BY <1>2, QuietSelf DEF PreloadEnded, Calls
<1> QED
  BY <1>1, <1>2

LEMMA LoadMoreEndedCalls ==
  ASSUME NEW s, Formed(s), NEW r, NEW outcome, NEW n, NEW u,
         u = LoadMoreEnded(s, r, outcome, FALSE)
  PROVE  Calls(s, u, s.req, n)
<1>1. CASE InvocationCurrent(s, r)
  BY <1>1 DEF LoadMoreEnded, Calls, Quiet, Formed, Waits
<1>2. CASE ~InvocationCurrent(s, r)
  BY <1>2, QuietSelf DEF LoadMoreEnded, Calls
<1> QED
  BY <1>1, <1>2

LEMMA RecoveryHearsCalls ==
  ASSUME NEW s, Formed(s), NEW part, NEW outcome, NEW n, NEW u,
         u = RecoveryHears(s, part, outcome)
  PROVE  Calls(s, u, s.req, n)
<1>1. CASE part \notin s.recovery.waits
  BY <1>1, QuietSelf DEF RecoveryHears, Calls
<1>2. CASE part \in s.recovery.waits /\ outcome = "error"
  BY <1>2 DEF RecoveryHears, Calls, Quiet, Formed, Waits
<1>3. CASE part \in s.recovery.waits /\ outcome # "error"
  BY <1>3 DEF RecoveryHears, Calls, Quiet, Formed, Waits
<1> QED
  BY <1>1, <1>2, <1>3

LEMMA EndedCalls ==
  ASSUME NEW s, Formed(s), NEW r, NEW outcome, NEW n, NEW u,
         u = Ended(s, r, outcome, FALSE, n)
  PROVE  Calls(s, u, s.req, n)
<1>1. CASE r.who = "preload"
  BY <1>1, PreloadEndedCalls DEF Ended, Chasers
<1>2. CASE r.who = "loadMore"
  BY <1>2, LoadMoreEndedCalls DEF Ended, Chasers
<1>3. CASE r.who = "nav"
  <2>1. CASE outcome = "done" /\ InvocationCurrent(s, r)
    BY <1>3, <2>1 DEF Ended, Chasers, Calls, Quiet, Formed, Waits
  <2>2. CASE ~(outcome = "done" /\ InvocationCurrent(s, r))
    BY <1>3, <2>2, NavEndedCalls DEF Ended, Chasers
  <2> QED
    BY <2>1, <2>2
<1>4. CASE r.who \in Chasers
  <2>0. r.who \notin {"preload", "loadMore", "nav"}
    BY <1>4 DEF Chasers
  <2>1. CASE outcome = "error"
    <3>1. PICK given : given = [s EXCEPT !.chase[r.who] = NoChase]
      OBVIOUS
    <3>2. u = IF r.who = "navChase" THEN NavEnded(given, n) ELSE given
      BY <1>4, <2>0, <2>1, <3>1 DEF Ended, Chasers
    <3>3. PICK c : given = [s EXCEPT !.chase = c]
      BY <3>1
    <3>4. Quiet(s, given, n) /\ given.req = s.req
      BY <3>3, ChaseQuiet
    <3>5. Calls(given, u, given.req, n)
      BY <3>2, <3>4, NavEndedCalls, QuietSelf DEF Quiet, Calls
    <3> QED
      BY <3>4, <3>5, QuietCalls, CallsTrans
  <2>2. CASE outcome # "error"
    BY <1>4, <2>0, <2>2, ChasedCalls DEF Ended, Chasers
  <2> QED
    BY <2>1, <2>2
<1>5. CASE r.who = "recovery"
  BY <1>5, RecoveryHearsCalls DEF Ended, Chasers
<1>6. CASE r.who \notin {"preload", "loadMore", "nav", "recovery"} \cup Chasers
  BY <1>6, QuietSelf DEF Ended, Chasers, Calls
<1> QED
  BY <1>1, <1>2, <1>3, <1>4, <1>5, <1>6

\* Whoever awaited the request goes on, and may ask for more.
LEMMA SettledCalls ==
  ASSUME NEW s, Formed(s), NEW r, NEW outcome, NEW n, NEW u,
         u = Settled(s, r, outcome, FALSE, n)
  PROVE  Calls(s, u, NoReq, n)
<1>1. PICK free : free = [s EXCEPT !.req = NoReq, !.loading = IF r.latest THEN FALSE ELSE @]
  OBVIOUS
<1>2. PICK t : t = IF r.latest /\ r.kind \in {"replace", "append", "find"}
                   THEN MaybePreload(free, n) ELSE free
  OBVIOUS
<1>3. u = Ended(t, r, outcome, FALSE, n)
  BY <1>1, <1>2 DEF Settled
<1>4. Calls(s, free, NoReq, n) /\ Formed(free) /\ free.req = NoReq
  BY <1>1 DEF Calls, Quiet, Formed, Waits
<1>5. Calls(free, t, free.req, n)
  BY <1>2, <1>4, MaybePreloadCalls, QuietSelf DEF Calls
<1>6. Calls(s, t, NoReq, n) /\ Formed(t)
  BY <1>4, <1>5, CallsTrans DEF Calls, Quiet
<1>7. Calls(t, u, t.req, n)
  BY <1>3, <1>6, EndedCalls
<1> QED
  BY <1>6, <1>7, CallsTrans

LEMMA StartedCalls ==
  ASSUME NEW s, Formed(s), NEW r, NEW n, Asks(s, r, n), NEW u, u = Started(s, r, n)
  PROVE  Calls(s, u, NoReq, n)
<1>1. PICK t : t = [s EXCEPT !.req = r, !.loading = TRUE]
  OBVIOUS
<1>2. Calls(s, t, NoReq, n) /\ Formed(t)
  BY <1>1 DEF Calls, Quiet, Formed, Waits
<1>3. CASE s.req = NoReq
  BY <1>1, <1>2, <1>3 DEF Started
<1>4. CASE s.req # NoReq
  <2>1. u = Ended(t, s.req, "stale", FALSE, n)
    BY <1>1, <1>4 DEF Started
  <2>2. Calls(t, u, t.req, n)
    BY <1>2, <2>1, EndedCalls
  <2> QED
    BY <1>2, <2>2, CallsTrans
<1> QED
  BY <1>3, <1>4

LEMMA ReplacedCalls ==
  ASSUME NEW s, Formed(s), NEW kind \in {"replace", "find", "prefix"}, NEW who, NEW want, NEW n,
         NEW u, u = Replaced(s, kind, who, want, n)
  PROVE  Calls(s, u, NoReq, n)
<1>1. PICK t : t = ReplacementBegun(s)
  OBVIOUS
<1>2. Quiet(s, t, n) /\ Formed(t)
  BY <1>1 DEF ReplacementBegun, Quiet, Formed, Waits
<1>3. PICK r : r = Request(t, kind, who, n, want)
  OBVIOUS
<1>4. Asks(t, r, n)
  BY <1>3 DEF Asks, Request
<1>5. u = Started(t, r, n)
  BY <1>1, <1>3 DEF Replaced
<1>6. Calls(t, u, NoReq, n)
  BY <1>2, <1>4, <1>5, StartedCalls
<1>7. Quiet(s, u, n)
  BY <1>2, <1>6, QuietTrans DEF Calls
<1>8. Asks(t, u.req, n) => Asks(s, u.req, n)
  BY <1>2 DEF Asks, Quiet, Key, Searching, Offset
<1> QED
  BY <1>6, <1>7, <1>8 DEF Calls

LEMMA RefreshedCalls ==
  ASSUME NEW s, Formed(s), NEW kind \in {"replace", "find"}, NEW n,
         NEW u, u = Refreshed(s, kind, n)
  PROVE  Calls(s, u, s.req, n) \/ Calls(s, u, NoReq, n)
<1>1. CASE s.scope # "session" \/ s.sess = NoSession
  BY <1>1, QuietSelf DEF Refreshed, Calls
<1>2. CASE ~(s.scope # "session" \/ s.sess = NoSession)
  BY <1>2, ReplacedCalls DEF Refreshed
<1> QED
  BY <1>1, <1>2

LEMMA DiscoveredQuiet ==
  ASSUME NEW s, Formed(s), NEW events, NEW n, NEW u, u = Discovered(s, events)
  PROVE  /\ Quiet(s, u, n) /\ u.req = s.req /\ u.registry.key = Key(s)
         /\ Searching(s) => HitsIn(events) \subseteq u.registry.owners
BY DEF Discovered, Quiet, Formed, Waits, Searching, Key

LEMMA HighlightedCalls ==
  ASSUME NEW s, Formed(s), NEW n, NEW u, u = Highlighted(s, n)
  PROVE  Calls(s, u, s.req, n)
<1>1. PICK t : t = Discovered(s, s.events)
  OBVIOUS
<1>2. Quiet(s, t, n) /\ t.req = s.req
  BY <1>1, DiscoveredQuiet
<1>3. u = MaybePreload(t, n) /\ Formed(t)
  BY <1>1, <1>2 DEF Highlighted, Quiet
<1>4. Calls(t, u, t.req, n)
  BY <1>2, <1>3, MaybePreloadCalls
<1> QED
  BY <1>2, <1>4, QuietCalls, CallsTrans

LEMMA RenderedQuiet ==
  ASSUME NEW s, Formed([s EXCEPT !.surface = NoKey]), NEW n, NEW u, u = Rendered(s)
  PROVE  /\ Quiet([s EXCEPT !.surface = NoKey], u, n) /\ u.req = s.req
         /\ Searching(s) => HitsIn(s.events) \subseteq u.registry.owners
         /\ u.registry.key = Key(s)
<1>1. PICK t : t = [s EXCEPT !.surface = IF s.scope = "session" /\ s.tctx = Key(s)
                                         THEN Key(s) ELSE NoKey]
  OBVIOUS
<1>2. PICK v : v = [s EXCEPT !.surface = NoKey]
  OBVIOUS
<1>3. Quiet(v, t, n) /\ Formed(t) /\ t.req = s.req /\ Key(t) = Key(s) /\ t.events = s.events
      /\ t.expr = s.expr
  BY <1>1, <1>2 DEF Quiet, Formed, Waits, Key
<1>4. u = Discovered(t, s.events)
  BY <1>1 DEF Rendered
<1>5. /\ Quiet(t, u, n) /\ u.req = t.req /\ u.registry.key = Key(t)
      /\ Searching(t) => HitsIn(s.events) \subseteq u.registry.owners
  BY <1>3, <1>4, DiscoveredQuiet
<1> QED
  BY <1>2, <1>3, <1>5, QuietTrans DEF Searching

LEMMA TransitionQuiet ==
  ASSUME NEW s, Formed(s), NEW n, NEW u, u = Transition(s)
  PROVE  Quiet(s, u, n) /\ u.req = s.req
<1>1. CASE s.registry.key = Key(s)
  BY <1>1, QuietSelf DEF Transition
<1>2. CASE s.registry.key # Key(s)
  BY <1>2 DEF Transition, Quiet, Formed, Waits, NoPreload
<1> QED
  BY <1>1, <1>2

LEMMA SuggestionsStartedCalls ==
  ASSUME NEW s, Formed(s), NEW who, NEW u, u = SuggestionsStarted(s, who)
  PROVE  Calls(s, u, s.req, serverRev)
<1>1. PICK t : t = [s EXCEPT !.sugg = [who |-> who, since |-> serverRev]]
  OBVIOUS
<1>2. Quiet(s, t, serverRev) /\ Formed(t) /\ t.req = s.req
  BY <1>1 DEF Quiet, Formed, Waits
<1>3. CASE who = "user" /\ s.recovery.phase \in {"select", "suggest"}
  <2>1. PICK v : v = [t EXCEPT !.recovery.result = "stale"]
    OBVIOUS
  <2>2. Quiet(t, v, serverRev) /\ Formed(v) /\ v.req = t.req
    BY <1>2, <2>1 DEF Quiet, Formed, Waits
  <2>3. u = RecoveryHears(v, "suggestions", "stale")
    BY <1>1, <1>3, <2>1 DEF SuggestionsStarted
  <2>4. Calls(v, u, v.req, serverRev)
    BY <2>2, <2>3, RecoveryHearsCalls
  <2>5. Quiet(s, v, serverRev) /\ v.req = s.req
    BY <1>2, <2>2, QuietTrans
  <2> QED
    BY <2>4, <2>5, QuietCalls, CallsTrans
<1>4. CASE ~(who = "user" /\ s.recovery.phase \in {"select", "suggest"})
  <2>1. u = t
    BY <1>1, <1>4 DEF SuggestionsStarted
  <2> QED
    BY <1>2, <2>1, QuietCalls
<1> QED
  BY <1>3, <1>4

-----------------------------------------------------------------------------
(* What is quiet keeps the view sound *)

LEMMA RecoversKept ==
  ASSUME NEW s, NEW u, NEW n \in Nat, Recovers(s, n), Quiet(s, u, n)
  PROVE  Recovers(u, n)
<1>1. n \in 1..n
  BY DEF Recovers
<1> QED
  BY <1>1 DEF Recovers, Quiet, Waits

LEMMA ExhaustiveKept ==
  ASSUME NEW s, NEW u, NEW n, Exhaustive(s), Quiet(s, u, n)
  PROVE  Exhaustive(u)
<1>1. Key(u) = Key(s) /\ Searching(u) = Searching(s)
  BY DEF Quiet, Key, Searching
<1>2. ASSUME u.preload.exhausted PROVE u.scope = "session" /\ u.registry.key = Key(u)
  BY <1>1, <1>2 DEF Exhaustive, Quiet
<1>3. ASSUME Found(s), s.registry.key = Key(s) PROVE Found(u)
  BY <1>1, <1>3 DEF Found, Quiet
<1> QED
  BY <1>1, <1>2, <1>3 DEF Exhaustive, Quiet

LEMMA SoundKept ==
  ASSUME NEW s, NEW u, NEW n \in Nat, Sound(s, n), Quiet(s, u, n)
  PROVE  Sound(u, n)
<1>1. Recovers(u, n) /\ Exhaustive(u)
  BY RecoversKept, ExhaustiveKept DEF Sound
<1>2. Viewed(u)
  BY DEF Sound, Viewed, Quiet
<1> QED
  BY <1>1, <1>2 DEF Sound

LEMMA FitsKept ==
  ASSUME NEW s, NEW u, NEW n, Recovers(s, n), Quiet(s, u, n), NEW r, Fits(s, r, n)
  PROVE  Fits(u, r, n)
<1>1. u.recovery.phase # "idle" => s.recovery.phase # "idle"
  BY DEF Recovers, Quiet, Waits
<1> QED
  BY <1>1 DEF Fits, Quiet

LEMMA AsksFits ==
  ASSUME NEW s, Formed(s), NEW n, Sound(s, n), NEW r, Asks(s, r, n)
  PROVE  Fits(s, r, n)
<1>1. Key(s) # NoKey
  BY DEF Formed, Key, NoKey
<1>2. Follows(<<>>, 0, r.key, r.rev) /\ \A b : Follows(<<>>, b, r.key, r.rev)
  BY DEF Follows
<1>3. CASE r.kind = "batch"
  <2>1. s.total = Len(Answered(Key(s), s.rev))
    BY <1>1, <1>3 DEF Asks, Sound, Viewed
  <2> QED
    BY <1>2, <1>3, <2>1 DEF Asks, Fits, Key, Searching
<1>4. CASE r.kind # "batch"
  BY <1>2, <1>4 DEF Asks, Fits, Sound, Recovers
<1> QED
  BY <1>3, <1>4

LEMMA NoReqFits ==
  ASSUME NEW s, NEW n
  PROVE  Fits(s, NoReq, n)
BY DEF Fits

\* A callback that only calls keeps what is in view.
LEMMA CallsView ==
  ASSUME NEW s, Formed(s), NEW n \in Nat, Sound(s, n), NEW q, Fits(s, q, n),
         NEW u, Calls(s, u, q, n)
  PROVE  View(u, n) /\ Formed(u)
<1>1. Sound(u, n) /\ Formed(u) /\ Quiet(s, u, n)
  BY SoundKept DEF Calls, Quiet
<1>2. Fits(s, u.req, n)
  BY AsksFits DEF Calls
<1>3. Fits(u, u.req, n)
  BY <1>1, <1>2, FitsKept DEF Sound
<1> QED
  BY <1>1, <1>3 DEF View

LEMMA QuietView ==
  ASSUME NEW s, NEW n \in Nat, View(s, n), NEW u, Quiet(s, u, n), u.req = s.req
  PROVE  View(u, n) /\ Formed(u)
<1>1. Sound(u, n) /\ Formed(u)
  BY SoundKept DEF View, Quiet
<1>2. Fits(u, u.req, n)
  BY FitsKept DEF View, Sound
<1> QED
  BY <1>1, <1>2 DEF View

\* The last page of a search has come.
LEMMA SettledView ==
  ASSUME NEW s, Formed(s), NEW n \in Nat, Sound(s, n), NEW r, NEW outcome, NEW exhausted,
         exhausted => /\ r.who = "loadMore" /\ r.kind = "batch"
                      /\ InvocationCurrent(s, r) => Found(s),
         exhausted \in BOOLEAN,
         NEW u, u = Settled(s, r, outcome, exhausted, n)
  PROVE  View(u, n) /\ Formed(u)
<1>1. CASE ~exhausted
  <2>1. u = Settled(s, r, outcome, FALSE, n)
    BY <1>1
  <2> QED
    BY <2>1, SettledCalls, NoReqFits, CallsView
<1>2. CASE exhausted
  <2>1. PICK t : t = [s EXCEPT !.req = NoReq, !.loading = IF r.latest THEN FALSE ELSE @]
    OBVIOUS
  <2>2. u = LoadMoreEnded(t, r, outcome, exhausted)
    BY <1>2, <2>1 DEF Settled, Ended, Chasers
  <2>3. Quiet(s, t, n) /\ t.req = NoReq /\ Formed(t)
    BY <2>1 DEF Quiet, Formed, Waits
  <2>4. Sound(t, n)
    BY <2>3, SoundKept
  <2>5. CASE ~InvocationCurrent(t, r)
    BY <2>2, <2>3, <2>4, <2>5, NoReqFits DEF LoadMoreEnded, View
  <2>6. CASE InvocationCurrent(t, r)
    <3>1. Found(t)
      <4>1. InvocationCurrent(s, r)
        BY <2>1, <2>6 DEF InvocationCurrent, Key, Formed
      <4>2. Found(s)
        BY <1>2, <4>1
      <4>3. /\ t.scope = s.scope /\ t.registry = s.registry /\ t.rev = s.rev
            /\ t.sess = s.sess /\ t.expr = s.expr
        BY <2>1 DEF Formed
      <4> QED
        BY <4>2, <4>3 DEF Found, Key, Searching
    <3>2. PICK e : u = [t EXCEPT !.preload.pending = FALSE, !.preload.exhausted = e]
      BY <2>2, <2>6 DEF LoadMoreEnded
    <3>3. /\ Formed(u) /\ u.req = NoReq /\ u.scope = t.scope /\ u.registry = t.registry
          /\ Key(u) = Key(t) /\ Searching(u) = Searching(t) /\ u.rev = t.rev
      BY <2>3, <3>2 DEF Formed, Key, Searching
    <3>4. Found(u)
      BY <3>1, <3>3 DEF Found
    <3>5. Exhaustive(u)
      BY <3>4 DEF Exhaustive, Found
    <3>6. Viewed(u) /\ Recovers(u, n)
      BY <2>3, <2>4, <3>2 DEF Sound, Viewed, Recovers, Formed
    <3> QED
      BY <3>3, <3>5, <3>6, NoReqFits DEF View, Sound
  <2> QED
    BY <2>5, <2>6
<1> QED
  BY <1>1, <1>2

-----------------------------------------------------------------------------
(* The recovery from a retired revision *)

\* All but the recovery stays.
Recovering(s, u) ==
  /\ Formed(u)
  /\ u.scope = s.scope /\ u.sess = s.sess /\ u.expr = s.expr /\ u.rev = s.rev
  /\ u.tctx = s.tctx /\ u.events = s.events /\ u.total = s.total /\ u.registry = s.registry
  /\ u.preload = s.preload /\ u.req = s.req
  /\ u.sugg \in {s.sugg, NoSuggestions}

LEMMA RecoveringView ==
  ASSUME NEW s, NEW n, View(s, n), NEW u, Recovering(s, u),
         u.recovery.phase # "idle" =>
           /\ s.recovery.phase # "idle"
           /\ s.rev # n => u.recovery.phase = "state",
         u.recovery.waits # {} => u.recovery.phase \in {"select", "suggest"},
         u.recovery.phase = "list" => u.recovery.since \in 1..n
  PROVE  View(u, n)
<1>1. Viewed(u)
  BY DEF View, Sound, Viewed, Recovering
<1>2. Recovers(u, n)
  BY DEF View, Sound, Recovers, Recovering
<1>3. Exhaustive(u)
  BY DEF View, Sound, Exhaustive, Recovering, Found, Key, Searching
<1>4. Fits(u, u.req, n)
  BY DEF View, Fits, Recovering
<1> QED
  BY <1>1, <1>2, <1>3, <1>4 DEF View, Sound

\* A recovery that starts shows nothing, and hears of no answer any more.
LEMMA RecoveryStartedView ==
  ASSUME NEW s, Formed(s), s.rev \in 1..serverRev, Exhaustive(s),
         Settles(serverRev), serverRev \in Nat,
         NEW u, u = RecoveryStarted(s)
  PROVE  View(u, serverRev) /\ Formed(u)
<1>1. PICK t : t = [s EXCEPT !.events = <<>>, !.tctx = NoKey, !.total = 0, !.surface = NoKey,
             !.sessionsReady = FALSE, !.sugg = NoSuggestions,
             !.recovery = [phase |-> "state", attempt |-> 0, requested |-> FALSE,
                           waits |-> {}, result |-> "none", since |-> 0]]
  OBVIOUS
<1>2. u = Aborted(t, serverRev)
  BY <1>1 DEF RecoveryStarted
<1>3. Formed(t)
  BY <1>1 DEF Formed
<1>4. Sound(t, serverRev)
  <2>1. Viewed(t)
    BY <1>1 DEF Viewed, Formed
  <2>2. Recovers(t, serverRev)
    BY <1>1 DEF Recovers, Formed
  <2>3. Exhaustive(t)
    BY <1>1 DEF Exhaustive, Found, Key, Searching, Formed
  <2> QED
    BY <2>1, <2>2, <2>3 DEF Sound
<1>5. CASE t.req = NoReq
  <2>1. u = t
    BY <1>2, <1>5 DEF Aborted
  <2> QED
    BY <1>3, <1>4, <1>5, <2>1, NoReqFits DEF View
<1>6. CASE t.req # NoReq
  <2>1. u = Settled(t, t.req, "stale", FALSE, serverRev)
    BY <1>2, <1>6 DEF Aborted
  <2> QED
    BY <1>3, <1>4, <2>1, SettledView
<1> QED
  BY <1>5, <1>6

LEMMA MismatchedView ==
  ASSUME NEW s, Formed(s), View(s, serverRev), Settles(serverRev), serverRev \in Nat,
         NEW u, u = Mismatched(s)
  PROVE  View(u, serverRev) /\ Formed(u)
<1>1. CASE s.recovery.phase = "idle"
  BY <1>1, RecoveryStartedView DEF Mismatched, View, Sound, Recovers
<1>2. CASE s.recovery.phase # "idle"
  <2>1. Recovering(s, u) /\ u.recovery.phase = s.recovery.phase
        /\ u.recovery.waits = s.recovery.waits /\ u.recovery.since = s.recovery.since
    BY <1>2 DEF Mismatched, Recovering, Formed
  <2> QED
    BY <2>1, RecoveringView DEF View, Sound, Recovers, Recovering
<1> QED
  BY <1>1, <1>2

LEMMA RecoverySettledView ==
  ASSUME NEW s, Formed(s), View(s, serverRev), s.recovery.phase # "idle", serverRev \in Nat,
         NEW u, u = RecoverySettled(s)
  PROVE  View(u, serverRev) /\ Formed(u)
<1>0. Settles(serverRev)
  BY DEF View, Sound, Recovers
<1>1. CASE s.recovery.requested
  <2>1. PICK t : t = [s EXCEPT !.recovery.phase = "idle"]
    OBVIOUS
  <2>2. Recovering(s, t)
    BY <2>1 DEF Recovering, Formed
  <2>3. Formed(t) /\ t.rev \in 1..serverRev /\ Exhaustive(t)
    BY <2>2 DEF View, Sound, Recovers, Exhaustive, Recovering, Found, Key, Searching
  <2>4. u = RecoveryStarted(t)
    BY <1>1, <2>1 DEF RecoverySettled
  <2> QED
    BY <1>0, <2>3, <2>4, RecoveryStartedView
<1>2. CASE ~s.recovery.requested
  <2>1. Recovering(s, u) /\ u.recovery.phase = "idle" /\ u.recovery.waits = {}
    BY <1>2 DEF RecoverySettled, Recovering, Formed
  <2> QED
    BY <2>1, RecoveringView DEF Recovering
<1> QED
  BY <1>1, <1>2

LEMMA NextAttemptView ==
  ASSUME NEW s, Formed(s), View(s, serverRev), s.recovery.phase # "idle", serverRev \in Nat,
         NEW u, u = NextAttempt(s)
  PROVE  View(u, serverRev) /\ Formed(u)
<1>1. CASE s.recovery.attempt = 2
  BY <1>1, RecoverySettledView DEF NextAttempt
<1>2. CASE s.recovery.attempt # 2
  <2>1. Recovering(s, u) /\ u.recovery.phase = "state" /\ u.recovery.waits = {}
    BY <1>2 DEF NextAttempt, Recovering, Formed
  <2> QED
    BY <2>1, RecoveringView DEF Recovering
<1> QED
  BY <1>1, <1>2

LEMMA SuggestionsStartedView ==
  ASSUME NEW s, Formed(s), View(s, serverRev), serverRev \in Nat, NEW who,
         NEW u, u = SuggestionsStarted(s, who)
  PROVE  View(u, serverRev) /\ Formed(u)
<1>1. Calls(s, u, s.req, serverRev)
  BY SuggestionsStartedCalls
<1> QED
  BY <1>1, CallsView DEF View

LEMMA RecoverySuggestsView ==
  ASSUME NEW s, Formed(s), View(s, serverRev), s.recovery.phase # "idle", s.rev = serverRev,
         serverRev \in Nat, NEW u, u = RecoverySuggests(s)
  PROVE  View(u, serverRev) /\ Formed(u)
<1>1. PICK t : t = [s EXCEPT !.recovery.phase = "suggest", !.recovery.waits = {"suggestions"},
                             !.recovery.result = "none"]
  OBVIOUS
<1>2. Recovering(s, t) /\ t.recovery.phase = "suggest"
  BY <1>1 DEF Recovering, Formed
<1>3. View(t, serverRev) /\ Formed(t)
  BY <1>2, RecoveringView DEF Recovering
<1>4. u = SuggestionsStarted(t, "recovery")
  BY <1>1 DEF RecoverySuggests
<1> QED
  BY <1>3, <1>4, SuggestionsStartedView

\* What a recovery goes on to do keeps the view.
LEMMA TurnView ==
  ASSUME NEW s, Formed(s), View(s, serverRev), serverRev \in Nat, NEW u, u = Turn(s)
  PROVE  View(u, serverRev)
<1>1. CASE s.recovery.phase = "failed"
  BY <1>1, RecoverySettledView DEF Turn
<1>2. CASE s.recovery.phase \in {"select", "suggest"} /\ s.recovery.waits = {}
  <2>1. s.recovery.phase # "idle" /\ s.rev = serverRev
    BY <1>2 DEF View, Sound, Recovers
  <2>2. u = RecoverySettled(s) \/ u = NextAttempt(s) \/ u = RecoverySuggests(s)
    BY <1>2 DEF Turn
  <2> QED
    BY <2>1, <2>2, RecoverySettledView, NextAttemptView, RecoverySuggestsView
<1>3. CASE /\ s.recovery.phase # "failed"
           /\ ~(s.recovery.phase \in {"select", "suggest"} /\ s.recovery.waits = {})
  BY <1>3 DEF Turn
<1> QED
  BY <1>1, <1>2, <1>3

-----------------------------------------------------------------------------
(* Another session, or another search *)

\* A timeline that is to be replaced shows nothing.
LEMMA BlankView ==
  ASSUME NEW s, Formed(s), s.tctx = NoKey, s.events = <<>>, s.preload = NoPreload,
         NEW n \in Nat, Recovers(s, n),
         NEW kind \in {"replace", "find", "prefix"}, NEW who, NEW want,
         NEW u, u = Replaced(s, kind, who, want, n)
  PROVE  View(u, n) /\ Formed(u)
<1>1. Sound(s, n)
  BY DEF Sound, Viewed, Exhaustive, NoPreload
<1>2. Calls(s, u, NoReq, n)
  BY ReplacedCalls
<1> QED
  BY <1>1, <1>2, NoReqFits, CallsView

\* The timeline of a session, from its beginning
LEMMA SelectedView ==
  ASSUME NEW s, Formed(s), Recovers(s, serverRev), serverRev \in Nat, NEW sess, NEW who,
         NEW u, u = Selected(s, sess, who)
  PROVE  View(u, serverRev) /\ Formed(u) /\ u.rev = s.rev
<1>1. PICK a : a = [s EXCEPT !.scope = "session", !.sess = sess, !.loading = FALSE]
  OBVIOUS
<1>2. Formed(a) /\ a.rev = s.rev /\ Recovers(a, serverRev)
  BY <1>1 DEF Formed, Recovers
<1>3. PICK t : t = Transition(a)
  OBVIOUS
<1>4. Quiet(a, t, serverRev)
  BY <1>2, <1>3, TransitionQuiet
<1>5. Formed(t) /\ t.rev = s.rev /\ Recovers(t, serverRev)
  BY <1>2, <1>4, RecoversKept DEF Quiet
<1>6. PICK v : v = [t EXCEPT !.events = <<>>, !.tctx = NoKey, !.surface = NoKey,
                             !.preload = NoPreload]
  OBVIOUS
<1>7. /\ Formed(v) /\ v.rev = s.rev /\ Recovers(v, serverRev)
      /\ v.events = <<>> /\ v.tctx = NoKey /\ v.preload = NoPreload
  BY <1>5, <1>6 DEF Formed, Recovers, NoPreload
<1>8. PICK w : w = Replaced(v, "replace", who, PageSize, serverRev)
  OBVIOUS
<1>9. View(w, serverRev) /\ Formed(w)
  BY <1>7, <1>8, BlankView
<1>10. w.rev = v.rev
  BY <1>7, <1>8, ReplacedCalls DEF Calls, Quiet
<1>11. u = SuggestionsStarted(w, who)
  BY <1>1, <1>3, <1>6, <1>8 DEF Selected
<1>12. u.rev = w.rev
  BY <1>9, <1>11, SuggestionsStartedCalls DEF Calls, Quiet
<1> QED
  BY <1>7, <1>9, <1>10, <1>11, <1>12, SuggestionsStartedView

\* A tab has its fields.
LEMMA TabFormed ==
  ASSUME NEW s, TabInv(s)
  PROVE  Formed(s)
<1>1. s \in TabState /\ s.surface \in {NoKey, s.tctx}
  BY DEF TabInv, Kept, Placed
<1>2. s.preload \in Preload /\ s.nav \in Navigation /\ s.recovery \in Recovery
  BY <1>1 DEF TabState
<1>3. DOMAIN s = {"scope", "sess", "expr", "rev", "sessionsReady", "tctx", "events", "total",
                  "loading", "req", "retry", "inv", "preload", "registry", "surface", "nav",
                  "timers", "highlight", "chase", "sugg", "recovery"}
      /\ s.scope \in {"session", "project"}
  BY <1>1 DEF TabState
<1>4. /\ DOMAIN s.preload = {"key", "pages", "pending", "exhausted"}
      /\ DOMAIN s.nav = {"phase", "key", "queue"}
      /\ DOMAIN s.recovery = {"phase", "attempt", "requested", "waits", "result", "since"}
  BY <1>2 DEF Preload, Navigation, Recovery
<1> QED
  BY <1>1, <1>3, <1>4 DEF Formed

LEMMA EmptiedView ==
  ASSUME NEW s, Formed(s), s.req \in Requests \cup {NoReq}, View(s, serverRev),
         serverRev \in Nat, s.recovery.phase # "idle", s.rev = serverRev,
         NEW u, u = Emptied(s)
  PROVE  View(u, serverRev) /\ Formed(u)
<1>1. Formed(s) /\ s.req \in Requests \cup {NoReq}
  OBVIOUS
<1>2. PICK r : r = IF s.req = NoReq THEN NoReq ELSE [s.req EXCEPT !.latest = FALSE]
  OBVIOUS
<1>3. PICK t : t = [s EXCEPT
                      !.sess = NoSession, !.scope = "project", !.events = <<>>, !.tctx = NoKey,
                      !.total = 0, !.surface = NoKey, !.preload = NoPreload, !.req = r]
  OBVIOUS
<1>4. u = RecoverySuggests(t)
  BY <1>1, <1>2, <1>3 DEF Emptied, Formed
<1>5. /\ Formed(t) /\ t.rev = s.rev /\ t.recovery = s.recovery /\ t.req = r
      /\ t.events = <<>> /\ t.tctx = NoKey /\ ~t.preload.exhausted
  BY <1>1, <1>3 DEF Formed, NoPreload
<1>6. Sound(t, serverRev)
  <2>1. t.sugg = s.sugg
    BY <1>1, <1>3 DEF Formed
  <2> QED
    BY <1>5, <2>1 DEF View, Sound, Viewed, Exhaustive, Recovers
<1>7. Fits(t, r, serverRev)
  <2>1. CASE s.req = NoReq
    BY <1>2, <2>1, NoReqFits
  <2>2. CASE s.req \in PageReq
    <3>1. r = [s.req EXCEPT !.latest = FALSE]
      BY <1>2, <2>2, RequestKinds DEF Requests
    <3>2. /\ r.kind = s.req.kind /\ ~r.latest /\ r.ok = s.req.ok /\ r.rev = s.req.rev
          /\ r.got = s.req.got /\ r.key = s.req.key /\ r.kind # "batch" /\ s.req # NoReq
      BY <2>2, <3>1, RequestKinds DEF PageReq, NoReq
    <3> QED
      BY <1>5, <3>2 DEF View, Fits
  <2>3. CASE s.req \in BatchReq
    <3>1. r = [s.req EXCEPT !.latest = FALSE]
      BY <1>2, <2>3, RequestKinds DEF Requests
    <3>2. /\ r.kind = "batch" /\ s.req.kind = "batch" /\ r.rev = s.req.rev
          /\ r.batch = s.req.batch /\ r.key = s.req.key /\ r.who = s.req.who /\ s.req # NoReq
      BY <2>3, <3>1 DEF BatchReq, NoReq
    <3> QED
      BY <3>2 DEF View, Fits
  <2> QED
    BY <1>1, <2>1, <2>2, <2>3 DEF Requests
<1> QED
  BY <1>4, <1>5, <1>6, <1>7, RecoverySuggestsView DEF View

LEMMA ListedView ==
  ASSUME NEW s, Formed(s), s.req \in Requests \cup {NoReq}, View(s, serverRev),
         serverRev \in Nat, s.recovery.phase # "idle", s.rev = serverRev,
         NEW sess \in Session \cup {NoSession}, NEW u, u = Listed(s, sess)
  PROVE  View(u, serverRev) /\ Formed(u)
<1>1. Formed(s)
  OBVIOUS
<1>2. CASE sess = NoSession
  BY <1>2, EmptiedView DEF Listed
<1>3. CASE sess # NoSession /\ s.scope = "project"
  <2>1. PICK t : t = [s EXCEPT !.sess = sess]
    OBVIOUS
  <2>2. u = RecoverySuggests(t)
    BY <1>3, <2>1 DEF Listed
  <2>3. ~s.preload.exhausted
    BY <1>3 DEF View, Sound, Exhaustive
  <2>4. Formed(t) /\ View(t, serverRev) /\ t.rev = s.rev /\ t.recovery = s.recovery
    <3>1. /\ Formed(t) /\ t.rev = s.rev /\ t.recovery = s.recovery /\ t.tctx = s.tctx
          /\ t.events = s.events /\ t.total = s.total /\ t.sugg = s.sugg /\ t.req = s.req
          /\ t.preload = s.preload
      BY <1>1, <2>1 DEF Formed
    <3> QED
      BY <2>3, <3>1 DEF View, Sound, Viewed, Recovers, Exhaustive, Fits
  <2> QED
    BY <2>2, <2>4, RecoverySuggestsView
<1>4. CASE sess # NoSession /\ s.scope # "project"
  <2>1. PICK c : c = Selected(s, sess, "recovery")
    OBVIOUS
  <2>2. View(c, serverRev) /\ Formed(c) /\ c.rev = serverRev
    BY <1>1, <2>1, SelectedView DEF View, Sound
  <2>3. u = [c EXCEPT !.recovery.phase = "select", !.recovery.result = "none",
                      !.recovery.waits = {"timeline", "suggestions"}]
    BY <1>4, <2>1 DEF Listed
  <2>4. PICK v : v = [c.recovery EXCEPT !.phase = "select", !.result = "none",
                                        !.waits = {"timeline", "suggestions"}]
    OBVIOUS
  <2>5. u = [c EXCEPT !.recovery = v]
    BY <2>2, <2>3, <2>4 DEF Formed
  <2>6. DOMAIN v = DOMAIN c.recovery /\ v.phase = "select"
    BY <2>2, <2>4 DEF Formed
  <2>7. /\ Formed(u) /\ u.rev = c.rev /\ u.tctx = c.tctx /\ u.scope = c.scope /\ u.sess = c.sess
        /\ u.expr = c.expr /\ u.registry = c.registry
        /\ u.events = c.events /\ u.total = c.total /\ u.sugg = c.sugg /\ u.req = c.req
        /\ u.preload = c.preload /\ u.recovery.phase = "select"
    BY <2>2, <2>5, <2>6 DEF Formed
  <2>8. Settles(serverRev)
    BY DEF View, Sound, Recovers
  <2>9. Viewed(u) /\ Recovers(u, serverRev)
    BY <2>2, <2>7, <2>8 DEF View, Sound, Viewed, Recovers
  <2>10. Exhaustive(u) /\ Fits(u, u.req, serverRev)
    BY <2>2, <2>7 DEF View, Sound, Exhaustive, Fits, Found, Key, Searching
  <2> QED
    BY <2>7, <2>9, <2>10 DEF View, Sound
<1> QED
  BY <1>2, <1>3, <1>4

\* Another expression is searched: the registry follows.
LEMMA RewordedView ==
  ASSUME NEW s, Formed(s), NEW n \in Nat, View(s, n), NEW e, e # s.expr,
         NEW u, u = Transition([s EXCEPT !.expr = e])
  PROVE  View(u, n) /\ Formed(u)
<1>1. PICK t : t = [s EXCEPT !.expr = e]
  OBVIOUS
<1>2. /\ Formed(t) /\ t.rev = s.rev /\ t.recovery = s.recovery /\ t.tctx = s.tctx
      /\ t.events = s.events /\ t.total = s.total /\ t.sugg = s.sugg /\ t.req = s.req
      /\ t.preload = s.preload /\ t.registry = s.registry /\ t.expr = e
  BY <1>1 DEF Formed
<1>3. Key(t) # Key(s)
  BY <1>2 DEF Key
<1>4. Quiet(t, u, n) /\ u.req = t.req
  BY <1>1, <1>2, TransitionQuiet
<1>5. Exhaustive(u)
  <2>1. t.registry.key = Key(t) => ~t.preload.exhausted
    BY <1>2, <1>3 DEF View, Sound, Exhaustive
  <2>2. ~u.preload.exhausted
    BY <1>1, <1>2, <2>1 DEF Transition, Formed, NoPreload
  <2> QED
    BY <2>2 DEF Exhaustive
<1>6. Viewed(t) /\ Recovers(t, n) /\ Fits(t, t.req, n)
  BY <1>2 DEF View, Sound, Viewed, Recovers, Fits
<1>7. Viewed(u) /\ Recovers(u, n) /\ Fits(u, u.req, n) /\ Formed(u)
  BY <1>4, <1>6, RecoversKept, FitsKept DEF Viewed, Quiet
<1> QED
  BY <1>5, <1>7 DEF View, Sound

\* The search moves to the project, or to one of its sessions.
LEMMA MovedRecovers ==
  ASSUME NEW s, Formed(s), NEW n \in Nat, Recovers(s, n), NEW t, Formed(t), t.rev = s.rev,
         t.recovery = s.recovery, t.tctx = s.tctx, t.sugg = s.sugg,
         NEW u, u = Transition(t)
  PROVE  Recovers(u, n) /\ Formed(u) /\ Quiet(t, u, n)
<1>1. Quiet(t, u, n)
  BY TransitionQuiet
<1>2. Recovers(t, n)
  BY DEF Recovers
<1> QED
  BY <1>1, <1>2, RecoversKept DEF Quiet

-----------------------------------------------------------------------------
(* Pages that follow each other *)

\* A page goes on from where it was asked for.
LEMMA PageFollows ==
  ASSUME NEW key \in SessionKeys, NEW rev \in Revs, NEW from \in Nat, NEW limit \in Int
  PROVE  Follows(Page(key, rev, from, limit), from, key, rev)
<1>1. PICK ids : ids = Answered(key, rev)
  OBVIOUS
<1>2. ids \in Seq(Ids) /\ Len(ids) \in Nat
  BY <1>1, AnsweredTyped
<1>3. PICK n : n = IF Len(ids) - from < limit THEN Len(ids) - from ELSE limit
  OBVIOUS
<1>4. PICK page : page = Page(key, rev, from, limit)
  OBVIOUS
<1>5. page = [m \in 1..n |-> [key |-> key, rev |-> rev, id |-> ids[from + m]]]
  BY <1>1, <1>3, <1>4 DEF Page
<1>6. page \in Seq(Event)
  BY <1>4, PageTyped
<1>7. n \in Int /\ n <= Len(ids) - from
  BY <1>2, <1>3
<1>8. Len(page) > 0 => from + Len(page) <= Len(ids)
  <2>1. DOMAIN page = 1..n
    BY <1>5
  <2>2. Len(page) > 0 => Len(page) \in DOMAIN page
    BY <1>6
  <2>3. Len(page) > 0 => Len(page) \in 1..n
    BY <2>1, <2>2
  <2> QED
    BY <1>2, <1>6, <1>7, <2>3
<1>9. \A m \in DOMAIN page : page[m].key = key /\ page[m].rev = rev /\ page[m].id = ids[from + m]
  BY <1>5
<1> QED
  BY <1>1, <1>4, <1>8, <1>9 DEF Follows

LEMMA FollowsJoin ==
  ASSUME NEW key \in SessionKeys, NEW rev \in Revs, NEW from \in Nat,
         NEW e \in Seq(Event), NEW f \in Seq(Event),
         Follows(e, from, key, rev), Follows(f, from + Len(e), key, rev)
  PROVE  Follows(e \o f, from, key, rev)
<1>1. PICK ids : ids = Answered(key, rev)
  OBVIOUS
<1>2. Len(ids) \in Nat
  BY <1>1, AnsweredTyped
<1>3. PICK g : g = e \o f
  OBVIOUS
<1>4. /\ g \in Seq(Event) /\ Len(g) = Len(e) + Len(f) /\ Len(e) \in Nat /\ Len(f) \in Nat
      /\ DOMAIN g = 1..Len(g)
  BY <1>3
<1>5. Len(g) > 0 => from + Len(g) <= Len(ids)
  <2>1. Len(e) > 0 => from + Len(e) <= Len(ids)
    BY <1>1 DEF Follows
  <2>2. Len(f) > 0 => from + Len(e) + Len(f) <= Len(ids)
    BY <1>1 DEF Follows
  <2> QED
    BY <1>2, <1>4, <2>1, <2>2
<1>6. ASSUME NEW m \in DOMAIN g
      PROVE  g[m].key = key /\ g[m].rev = rev /\ g[m].id = ids[from + m]
  <2>1. CASE m <= Len(e)
    <3>1. m \in DOMAIN e /\ g[m] = e[m]
      BY <1>3, <1>4, <1>6, <2>1
    <3> QED
      BY <1>1, <3>1 DEF Follows
  <2>2. CASE m > Len(e)
    <3>1. PICK k : k = m - Len(e)
      OBVIOUS
    <3>2. k \in DOMAIN f /\ g[m] = f[k] /\ from + Len(e) + k = from + m
      BY <1>3, <1>4, <1>6, <2>2, <3>1
    <3> QED
      BY <1>1, <3>2 DEF Follows
  <2> QED
    BY <1>4, <1>6, <2>1, <2>2
<1> QED
  BY <1>1, <1>3, <1>5, <1>6 DEF Follows

\* All of the timeline is in view, so all of its hits are targets.
LEMMA AllFound ==
  ASSUME NEW s, s.scope = "session", Searching(s), s.registry.key = Key(s),
         HitsIn(s.events) \subseteq s.registry.owners, Key(s) \in SessionKeys, s.rev \in Revs,
         s.events \in Seq(Event), Follows(s.events, 0, Key(s), s.rev),
         Len(Answered(Key(s), s.rev)) <= Len(s.events)
  PROVE  Found(s)
<1>1. PICK ids : ids = Answered(Key(s), s.rev)
  OBVIOUS
<1>2. ids \in Seq(Ids) /\ Len(ids) \in Nat /\ DOMAIN ids = 1..Len(ids)
  BY <1>1, AnsweredTyped
<1>3. DOMAIN s.events = 1..Len(s.events) /\ Len(s.events) \in Nat
  OBVIOUS
<1>4. ASSUME NEW m \in DOMAIN ids, ids[m] \in HitsAt(Key(s).expr)
      PROVE  ids[m] \in s.registry.owners
  <2>1. m \in DOMAIN s.events
    BY <1>1, <1>2, <1>3, <1>4
  <2>2. s.events[m].id = ids[m] /\ s.events[m].key = Key(s)
    BY <1>1, <1>2, <1>4, <2>1 DEF Follows
  <2>3. ids[m] \in HitsIn(s.events)
    BY <1>4, <2>1, <2>2 DEF HitsIn
  <2> QED
    BY <2>3
<1> QED
  BY <1>1, <1>4 DEF Found, Hits

-----------------------------------------------------------------------------
(* Answers *)

\* What is committed follows what was there.
LEMMA CommittedSound ==
  ASSUME NEW s, Formed(s), NEW n \in Nat, Sound(s, n), NEW r, r.key = Key(s), r.rev = s.rev,
         s.recovery.phase # "idle" => s.rev = n,
         NEW events, Follows(events, 0, r.key, r.rev),
         NEW u, u = Committed(s, r, events)
  PROVE  /\ Sound(u, n) /\ Formed(u) /\ u.req = s.req
         /\ u.scope = s.scope /\ u.sess = s.sess /\ u.expr = s.expr /\ u.rev = s.rev
         /\ u.events = events
         /\ u.registry.key = Key(s)
         /\ Searching(s) => HitsIn(events) \subseteq u.registry.owners
<1>1. PICK t : t = [s EXCEPT !.events = events, !.tctx = r.key,
                             !.total = Len(Answered(r.key, r.rev))]
  OBVIOUS
<1>2. PICK v : v = [t EXCEPT !.surface = NoKey]
  OBVIOUS
<1>3. /\ Formed(v) /\ v.scope = s.scope /\ v.sess = s.sess /\ v.expr = s.expr /\ v.rev = s.rev
      /\ v.events = events /\ v.tctx = r.key /\ v.total = Len(Answered(r.key, r.rev))
      /\ v.recovery = s.recovery /\ v.sugg = s.sugg /\ v.preload = s.preload
      /\ v.registry = s.registry
      /\ t.scope = s.scope /\ t.sess = s.sess /\ t.expr = s.expr /\ t.req = s.req
      /\ t.events = events
  BY <1>1, <1>2 DEF Formed
<1>4. r.key # NoKey
  BY DEF Formed, Key, NoKey
<1>5. Viewed(v) /\ Recovers(v, n)
  BY <1>3, <1>4 DEF Sound, Viewed, Recovers
<1>6. Exhaustive(v)
  BY <1>3 DEF Sound, Exhaustive, Found, Key, Searching
<1>7. u = Rendered(t)
  BY <1>1 DEF Committed
<1>8. /\ Quiet(v, u, n) /\ u.req = t.req /\ u.registry.key = Key(t)
      /\ Searching(t) => HitsIn(t.events) \subseteq u.registry.owners
  BY <1>2, <1>3, <1>7, RenderedQuiet
<1>9. Sound(u, n)
  BY <1>5, <1>6, <1>8, SoundKept DEF Sound
<1> QED
  BY <1>3, <1>8, <1>9 DEF Quiet, Key, Searching

LEMMA FailureView ==
  ASSUME NEW s, Formed(s), Sound(s, serverRev), serverRev \in Nat, NEW r, NEW u, u = Failure(s, r)
  PROVE  View(u, serverRev) /\ Formed(u)
<1>1. PICK t : t = IF r.kind # "append" /\ Current(s, r)
                   THEN [s EXCEPT !.retry = [key |-> r.key, kind |-> r.kind, want |-> r.want]]
                   ELSE s
  OBVIOUS
<1>2. Quiet(s, t, serverRev)
  BY <1>1 DEF Quiet, Formed, Waits
<1>3. Formed(t) /\ Sound(t, serverRev)
  BY <1>2, SoundKept DEF Quiet
<1>4. u = Settled(t, r, "error", FALSE, serverRev)
  BY <1>1 DEF Failure
<1> QED
  BY <1>3, <1>4, SettledView

\* The invariant of the actions, and what is known of the tab where it holds.
ViewInv == TimelineInv /\ View(tab, serverRev)

LEMMA ViewKnown ==
  ASSUME ViewInv
  PROVE  /\ Formed(tab) /\ Sound(tab, serverRev) /\ Viewed(tab) /\ Recovers(tab, serverRev)
         /\ Exhaustive(tab) /\ Fits(tab, tab.req, serverRev) /\ View(tab, serverRev)
         /\ serverRev \in Nat /\ serverRev \in Revs /\ TabInv(tab) /\ tab \in TabState
         /\ tab.rev \in Revs /\ tab.events \in Seq(Event) /\ TimelineInv
<1>1. TabInv(tab) /\ tab \in TabState /\ serverRev \in Revs
  BY DEF ViewInv, TimelineInv, TabInv, Kept
<1>2. Formed(tab)
  BY <1>1, TabFormed
<1>3. tab.rev \in Revs /\ tab.events \in Seq(Event) /\ serverRev \in Nat
  BY <1>1 DEF TabState, Revs
<1> QED
  BY <1>1, <1>2, <1>3 DEF ViewInv, View, Sound

\* The step of a callback, with the turn that ends it
Sees == View(tab', serverRev')

LEMMA TurnSees ==
  ASSUME ViewInv, NEW t, Formed(t), View(t, serverRev), Acts(t) \/ Does(t)
  PROVE  Sees
<1>1. tab' = Turn(t) /\ serverRev' = serverRev
  BY DEF Acts, Does
<1> QED
  BY <1>1, ViewKnown, TurnView DEF Sees

\* A page is joined to what was in view when it was asked for, or dropped.
LEMMA AnswerPageSees ==
  ASSUME ViewInv, AnswerPage
  PROVE  Sees
<1>0. /\ Formed(tab) /\ Sound(tab, serverRev) /\ Viewed(tab) /\ Recovers(tab, serverRev)
      /\ Fits(tab, tab.req, serverRev)
      /\ serverRev \in Nat /\ tab \in TabState /\ tab.events \in Seq(Event)
  BY ViewKnown
<1> DEFINE r == tab.req
           from == IF r.kind = "append" THEN r.want ELSE Len(r.got)
           limit == IF r.kind \in {"replace", "append"} THEN PageSize
                    ELSE IF r.want - from < Chunk THEN r.want - from ELSE Chunk
           page == Page(r.key, r.rev, from, limit)
           got == (IF r.kind = "append" THEN tab.events ELSE r.got) \o page
           stale == ~Current(tab, r) \/ (r.kind = "append" /\ r.want # Offset(tab))
           more == /\ r.kind \in {"find", "prefix"} /\ page # <<>>
                   /\ Len(got) < r.want /\ Len(got) < Len(Answered(r.key, r.rev))
<1>1. r.ok /\ r \in PageReq /\ r # NoReq /\ r.kind # "batch"
  <2>1. r \in Requests \cup {NoReq} /\ r.kind # "batch" /\ r # NoReq /\ r.ok
    BY <1>0 DEF TabState, AnswerPage, IsPaged, NoReq
  <2> QED
    BY <2>1, RequestKinds DEF Requests
<1>2. /\ r.rev = tab.rev /\ Follows(r.got, 0, r.key, r.rev)
      /\ tab.recovery.phase # "idle" => tab.rev = serverRev
      /\ r.kind = "append" /\ r.latest => tab.tctx = r.key
  BY <1>0, <1>1 DEF Fits
<1>3. /\ r.want \in Nat /\ r.got \in Seq(Event) /\ Len(r.got) \in Nat /\ r.key \in SessionKeys
      /\ r.rev \in Revs
  BY <1>1 DEF PageReq
<1>4. from \in Nat
  BY <1>3
<1>5. limit \in Int
  BY <1>3, <1>4, Numbers
<1>6. page \in Seq(Event) /\ Follows(page, from, r.key, r.rev)
  <2> HIDE DEF r, from, limit
  <2> QED
    BY <1>3, <1>4, <1>5, PageTyped, PageFollows
<1>7. ASSUME ~stale
      PROVE  Follows(got, 0, r.key, r.rev)
  <2>1. CASE r.kind = "append"
    <3>1. r.latest /\ from = Len(tab.events)
      BY <1>7, <2>1 DEF Current, Offset
    <3>2. tab.tctx = r.key /\ r.key # NoKey
      BY <1>2, <1>3, <2>1, <3>1 DEF SessionKeys, NoKey
    <3>3. Follows(tab.events, 0, r.key, r.rev)
      BY <1>0, <1>2, <3>2 DEF Viewed
    <3>4. Follows(page, 0 + Len(tab.events), r.key, r.rev)
      <4> HIDE DEF r, page
      <4> QED
        BY <1>0, <1>6, <3>1
    <3>5. got = tab.events \o page
      BY <2>1
    <3> HIDE DEF r, got, page
    <3> QED
      BY <1>0, <1>3, <1>6, <3>3, <3>4, <3>5, FollowsJoin
  <2>2. CASE r.kind # "append"
    <3>1. from = Len(r.got)
      BY <2>2
    <3>2. got = r.got \o page
      BY <2>2
    <3>3. Follows(page, 0 + Len(r.got), r.key, r.rev)
      <4> HIDE DEF r, page
      <4> QED
        BY <1>3, <1>6, <3>1
    <3> HIDE DEF r, got, page
    <3> QED
      BY <1>2, <1>3, <1>6, <3>2, <3>3, FollowsJoin
  <2> QED
    BY <2>1, <2>2
<1>8. PICK t : /\ Does(t)
               /\ t = CASE stale -> Settled(tab, r, "stale", FALSE, serverRev)
                        [] ~stale /\ more ->
                             [tab EXCEPT !.req = [r EXCEPT !.got = got, !.rev = tab.rev,
                                                           !.ok = tab.rev = serverRev]]
                        [] ~stale /\ ~more /\ ~Unique(got) -> Failure(tab, r)
                        [] OTHER -> Settled(Committed(tab, r, got), r, "done", FALSE, serverRev)
  BY DEF AnswerPage
<1>9. more => r.kind \in {"find", "prefix"}
  OBVIOUS
<1>10. ~stale => r.key = Key(tab)
  BY DEF Current
<1> HIDE DEF r, got, stale, more
<1>11. View(t, serverRev) /\ Formed(t)
  <2>1. CASE stale
    <3>1. t = Settled(tab, r, "stale", FALSE, serverRev)
      BY <1>8, <2>1
    <3> QED
      BY <1>0, <3>1, SettledView
  <2>2. CASE ~stale /\ more
    <3>1. PICK q : q = [r EXCEPT !.got = got, !.rev = tab.rev, !.ok = (tab.rev = serverRev)]
      OBVIOUS
    <3>2. t = [tab EXCEPT !.req = q]
      BY <1>8, <2>2, <3>1
    <3>3. /\ q.kind = r.kind /\ q.key = r.key /\ q.rev = tab.rev /\ q.got = got
          /\ q.ok = (tab.rev = serverRev)
      BY <1>1, <3>1 DEF PageReq
    <3>4. Quiet(tab, t, serverRev) /\ t.req = q
      BY <1>0, <3>2 DEF Quiet, Formed, Waits
    <3>5. Follows(q.got, 0, q.key, q.rev)
      BY <1>2, <1>7, <2>2, <3>3
    <3>6. Fits(tab, q, serverRev)
      BY <1>9, <2>2, <3>3, <3>5 DEF Fits
    <3> QED
      BY <1>0, <3>4, <3>6, CallsView DEF Calls
  <2>3. CASE ~stale /\ ~more /\ ~Unique(got)
    <3>1. t = Failure(tab, r)
      BY <1>8, <2>3
    <3> QED
      BY <1>0, <3>1, FailureView
  <2>4. CASE ~stale /\ ~more /\ Unique(got)
    <3>1. PICK c : c = Committed(tab, r, got)
      OBVIOUS
    <3>2. t = Settled(c, r, "done", FALSE, serverRev)
      BY <1>8, <2>4, <3>1
    <3>3. Sound(c, serverRev) /\ Formed(c)
      BY <1>0, <1>2, <1>7, <1>10, <2>4, <3>1, CommittedSound
    <3> QED
      BY <1>0, <3>2, <3>3, SettledView
  <2> QED
    BY <2>1, <2>2, <2>3, <2>4
<1> QED
  BY <1>8, <1>11, TurnSees

\* The batch b of r goes on from pages that follow each other.
Carries(r, b) ==
  /\ Follows(b.accepted, b.base, r.key, r.rev)
  /\ b.total = Len(Answered(r.key, r.rev))

LEMMA BatchGoesOnView ==
  ASSUME NEW s, Formed(s), Sound(s, serverRev), serverRev \in Nat, NEW r \in BatchReq,
         NEW b \in Batch, Carries(r, b), r.who = "loadMore" => r.key.expr.text # NoText,
         NEW u, u = BatchGoesOn(s, r, b)
  PROVE  View(u, serverRev) /\ Formed(u)
<1>1. PICK c : c = Begun(b)
  OBVIOUS
<1>2. c.base = b.base /\ c.total = b.total /\ c.accepted = b.accepted
  BY <1>1, BegunTyped
<1>3. PICK q : q = [r EXCEPT !.batch = c, !.ok = r.rev = serverRev]
  OBVIOUS
<1>4. q.kind = "batch" /\ q.who = r.who /\ q.key = r.key /\ q.rev = r.rev /\ q.batch = c
  BY <1>3 DEF BatchReq
<1>5. PICK pages : u = [s EXCEPT !.req = q, !.preload.pages = pages]
  BY <1>1, <1>3 DEF BatchGoesOn
<1>6. Quiet(s, u, serverRev) /\ u.req = q
  BY <1>5 DEF Quiet, Formed, Waits
<1>7. Fits(s, q, serverRev)
  BY <1>2, <1>4 DEF Fits, Carries
<1> QED
  BY <1>6, <1>7, CallsView DEF Calls

\* What a batch has brought is committed.
Publication(s, r, b, u) ==
  /\ Sound(u, serverRev) /\ Formed(u)
  /\ u.scope = s.scope /\ u.sess = s.sess /\ u.expr = s.expr /\ u.rev = s.rev
  /\ u.events = s.events \o b.accepted /\ Follows(u.events, 0, r.key, r.rev)
  /\ u.registry.key = Key(s)
  /\ Searching(s) => HitsIn(u.events) \subseteq u.registry.owners

LEMMA PublishedSound ==
  ASSUME NEW s, TabInv(s), Formed(s), Sound(s, serverRev), serverRev \in Nat,
         NEW r \in BatchReq, NEW b \in Batch, Carries(r, b),
         BatchCurrent(s, r), b.base = Offset(s),
         NEW u, u = Published(s, r, b)
  PROVE  Publication(s, r, b, u)
<1>1. /\ r.latest /\ r.key = Key(s) /\ s.tctx = r.key /\ s.rev = r.rev
      /\ r.key \in SessionKeys /\ r.rev \in Revs /\ s.events \in Seq(Event)
      /\ b.accepted \in Seq(Event)
  BY DEF BatchCurrent, Current, BatchReq, Batch, TabInv, Kept, TabState
<1>2. r.key # NoKey
  BY <1>1 DEF SessionKeys, NoKey
<1>3. Follows(s.events, 0, r.key, r.rev)
  BY <1>1, <1>2 DEF Sound, Viewed
<1>4. PICK ev : ev = s.events \o b.accepted
  OBVIOUS
<1>5. Follows(b.accepted, 0 + Len(s.events), r.key, r.rev)
  <2>1. 0 + Len(s.events) = b.base
    BY <1>1 DEF Offset
  <2> QED
    BY <2>1 DEF Carries
<1>6. Follows(ev, 0, r.key, r.rev)
  BY <1>1, <1>3, <1>4, <1>5, FollowsJoin
<1>7. s.recovery.phase # "idle" => s.rev = serverRev
  BY <1>1, <1>2 DEF Sound, Recovers
<1>8. u = Committed(s, r, ev)
  BY <1>4 DEF Published
<1>9. /\ Sound(u, serverRev) /\ Formed(u)
      /\ u.scope = s.scope /\ u.sess = s.sess /\ u.expr = s.expr /\ u.rev = s.rev
      /\ u.events = ev /\ u.registry.key = Key(s)
      /\ Searching(s) => HitsIn(ev) \subseteq u.registry.owners
  BY <1>1, <1>6, <1>7, <1>8, CommittedSound
<1> QED
  BY <1>4, <1>6, <1>9 DEF Publication

\* A batch that fails commits what it has brought, if it still may.
LEMMA BatchFailureView ==
  ASSUME NEW s, TabInv(s), View(s, serverRev), serverRev \in Nat,
         NEW r, r = s.req, r.kind = "batch", NEW u, u = BatchFailure(s, r)
  PROVE  View(u, serverRev) /\ Formed(u)
<1>1. Formed(s) /\ Sound(s, serverRev) /\ Fits(s, r, serverRev)
  BY TabFormed DEF View
<1>2. r \in BatchReq /\ r.batch \in Batch /\ r.batch.kind = r.who
  BY BatchKnown
<1>3. PICK b : b = Failed(r.batch)
  OBVIOUS
<1>4. /\ b \in Batch /\ b.kind = r.who /\ b.base = r.batch.base
      /\ b.accepted = r.batch.accepted /\ b.total = r.batch.total
  BY <1>2, <1>3, FailedTyped
<1>5. Carries(r, b) /\ (r.who = "loadMore" => r.key.expr.text # NoText)
  <2>1. r # NoReq
    BY DEF NoReq
  <2> QED
    BY <1>1, <1>4, <2>1 DEF Fits, Carries
<1>6. PICK f : f = IF HasProgress(b) THEN Published(s, r, b) ELSE s
  OBVIOUS
<1>7. PICK stale \in BOOLEAN :
        stale = (~BatchCurrent(s, r) \/ (HasProgress(b) /\ ~Publishable(s, r, b)))
  OBVIOUS
<1>8. u = CASE stale -> Settled(s, r, "stale", FALSE, serverRev)
            [] ~stale /\ ContinuesAfterError(b) ->
                 BatchGoesOn(f, r, IF HasProgress(b) THEN Successor(b) ELSE b)
            [] OTHER -> Settled(f, r, IF r.who = "preload" THEN "done" ELSE "error",
                                FALSE, serverRev)
  BY <1>3, <1>6, <1>7 DEF BatchFailure
<1>9. ASSUME ~stale
      PROVE  Sound(f, serverRev) /\ Formed(f)
  <2>1. CASE HasProgress(b)
    <3>1. BatchCurrent(s, r) /\ b.base = Offset(s)
      BY <1>7, <1>9, <2>1 DEF Publishable
    <3>2. f = Published(s, r, b)
      BY <1>6, <2>1
    <3> QED
      BY <1>1, <1>2, <1>4, <1>5, <3>1, <3>2, PublishedSound DEF Publication
  <2>2. CASE ~HasProgress(b)
    BY <1>1, <1>6, <2>2
  <2> QED
    BY <2>1, <2>2
<1>10. CASE stale
  <2>1. u = Settled(s, r, "stale", FALSE, serverRev)
    BY <1>8, <1>10
  <2> QED
    BY <1>1, <2>1, SettledView
<1>11. CASE ~stale /\ ContinuesAfterError(b)
  <2>1. PICK c : c = IF HasProgress(b) THEN Successor(b) ELSE b
    OBVIOUS
  <2>2. u = BatchGoesOn(f, r, c)
    BY <1>8, <1>11, <2>1
  <2>3. b.kind = "preload"
    BY <1>11 DEF ContinuesAfterError
  <2>4. c \in Batch /\ Carries(r, c)
    <3>1. CASE HasProgress(b)
      <4>1. c \in Batch /\ c.accepted = <<>> /\ c.total = b.total
        BY <1>4, <2>1, <2>3, <3>1, SuccessorTyped
      <4> QED
        BY <1>5, <4>1 DEF Carries, Follows
    <3>2. CASE ~HasProgress(b)
      BY <1>4, <1>5, <2>1, <3>2
    <3> QED
      BY <3>1, <3>2
  <2> QED
    BY <1>2, <1>5, <1>9, <1>11, <2>2, <2>4, BatchGoesOnView
<1>12. CASE ~stale /\ ~ContinuesAfterError(b)
  <2>1. PICK outcome : u = Settled(f, r, outcome, FALSE, serverRev)
    BY <1>8, <1>12
  <2> QED
    BY <1>9, <1>12, <2>1, SettledView
<1> QED
  BY <1>10, <1>11, <1>12

\* The pages of a batch are committed when it ends, and only where it began.
LEMMA AnswerBatchSees ==
  ASSUME ViewInv, AnswerBatch
  PROVE  Sees
<1>0. /\ Formed(tab) /\ Sound(tab, serverRev) /\ Fits(tab, tab.req, serverRev)
      /\ View(tab, serverRev) /\ TabInv(tab)
      /\ serverRev \in Nat /\ tab \in TabState /\ tab.events \in Seq(Event)
  BY ViewKnown
<1> DEFINE r == tab.req
           b == r.batch
           page == Page(r.key, r.rev, LoadedOffset(b), PageSize)
           done == Accepted(b, page, Len(Answered(r.key, r.rev)))
           current == BatchCurrent(tab, r)
           valid == Unique(tab.events \o done.accepted)
           ends == valid /\ ~Continues(done, page)
           stale == ~current \/ (ends /\ HasProgress(done) /\ ~Publishable(tab, r, done))
<1>1. r.kind = "batch" /\ r # NoReq
  BY DEF AnswerBatch, NoReq
<1>2. /\ r \in BatchReq /\ b \in Batch /\ b.kind = r.who
      /\ r.key \in SessionKeys /\ r.rev \in Revs
      /\ r.latest => b.base = Offset(tab) /\ ~AtEnd(b)
  BY <1>0, <1>1, BatchKnown
<1>3. Carries(r, b) /\ (r.who = "loadMore" => r.key.expr.text # NoText)
  BY <1>0, <1>1 DEF Fits, Carries
<1>4. /\ b.base \in Nat /\ b.accepted \in Seq(Event) /\ Len(b.accepted) \in Nat
      /\ LoadedOffset(b) = b.base + Len(b.accepted) /\ LoadedOffset(b) \in Nat
  BY <1>2 DEF LoadedOffset, Batch
<1>5. page \in Seq(Event) /\ Follows(page, LoadedOffset(b), r.key, r.rev)
  <2>1. PageSize \in Int
    BY Numbers
  <2> HIDE DEF r, b
  <2> QED
    BY <1>2, <1>4, <2>1, PageTyped, PageFollows
<1>6. /\ done \in Batch /\ done.kind = b.kind /\ done.base = b.base
      /\ done.accepted = b.accepted \o page /\ done.total = Len(Answered(r.key, r.rev))
  <2>0. Len(Answered(r.key, r.rev)) \in Nat
    <3> HIDE DEF r
    <3> QED
      BY <1>2, AnsweredTyped
  <2> HIDE DEF r, b, page
  <2>1. /\ done \in Batch /\ done.kind = b.kind /\ done.base = b.base
        /\ done.accepted = b.accepted \o page
    BY <1>2, <1>5, <2>0, AcceptedTyped
  <2>2. done.total = Len(Answered(r.key, r.rev))
    BY <1>2 DEF Accepted, Batch
  <2> QED
    BY <2>1, <2>2
<1>7. Carries(r, done)
  <2> HIDE DEF r, b, page, done
  <2>1. Follows(b.accepted, b.base, r.key, r.rev)
    BY <1>3 DEF Carries
  <2>2. Follows(page, b.base + Len(b.accepted), r.key, r.rev)
    BY <1>4, <1>5
  <2>3. Follows(done.accepted, done.base, r.key, r.rev)
    BY <1>2, <1>4, <1>5, <1>6, <2>1, <2>2, FollowsJoin
  <2> QED
    BY <1>6, <2>3 DEF Carries
<1>8. PICK t : /\ Does(t)
               /\ t = CASE stale -> Settled(tab, r, "stale", FALSE, serverRev)
                        [] current /\ ~valid -> BatchFailure(tab, r)
                        [] current /\ valid /\ ~ends -> BatchGoesOn(tab, r, done)
                        [] OTHER -> Settled(IF HasProgress(done) THEN Published(tab, r, done)
                                            ELSE tab,
                                            r, "done", Exhausts(done, page), serverRev)
  BY DEF AnswerBatch
<1>9. valid \in BOOLEAN /\ ends \in BOOLEAN /\ stale \in BOOLEAN /\ current \in BOOLEAN
  BY DEF Unique, BatchCurrent
<1>10. /\ stale /\ (current /\ ~valid) => FALSE
       /\ stale /\ (current /\ valid /\ ~ends) => FALSE
       /\ ~stale => current
       /\ ~stale /\ ends /\ HasProgress(done) => Publishable(tab, r, done)
       /\ current = BatchCurrent(tab, r)
  OBVIOUS
<1>11. tab.req = r
  OBVIOUS
<1> HIDE DEF r, b, page, done, current, valid, ends, stale
<1>12. View(t, serverRev) /\ Formed(t)
  <2>1. CASE stale
    <3>1. t = Settled(tab, r, "stale", FALSE, serverRev)
      BY <1>8, <1>10, <2>1
    <3> QED
      BY <1>0, <3>1, SettledView
  <2>2. CASE ~stale /\ ~valid
    <3>1. t = BatchFailure(tab, r)
      BY <1>8, <1>10, <2>2
    <3> QED
      BY <1>0, <1>1, <1>11, <3>1, BatchFailureView
  <2>3. CASE ~stale /\ valid /\ ~ends
    <3>1. t = BatchGoesOn(tab, r, done)
      BY <1>8, <1>10, <2>3
    <3> QED
      BY <1>0, <1>2, <1>3, <1>6, <1>7, <3>1, BatchGoesOnView
  <2>4. CASE ~stale /\ valid /\ ends
    <3>1. PICK c : c = IF HasProgress(done) THEN Published(tab, r, done) ELSE tab
      OBVIOUS
    <3>2. t = Settled(c, r, "done", Exhausts(done, page), serverRev)
      BY <1>8, <1>10, <2>4, <3>1
    <3>3. BatchCurrent(tab, r) /\ r.latest /\ r.key = Key(tab) /\ tab.rev = r.rev
      BY <1>10, <2>4 DEF BatchCurrent, Current
    <3>4. HasProgress(done) => done.base = Offset(tab)
      BY <1>10, <2>4 DEF Publishable
    <3>5. ASSUME HasProgress(done)
          PROVE  /\ Sound(c, serverRev) /\ Formed(c)
                 /\ c.scope = tab.scope /\ c.sess = tab.sess /\ c.expr = tab.expr
                 /\ c.rev = tab.rev
                 /\ c.events = tab.events \o done.accepted /\ Follows(c.events, 0, r.key, r.rev)
                 /\ c.registry.key = Key(tab)
                 /\ Searching(tab) => HitsIn(c.events) \subseteq c.registry.owners
      <4>1. c = Published(tab, r, done) /\ done.base = Offset(tab) /\ done \in Batch
        BY <1>6, <3>1, <3>4, <3>5
      <4>2. Publication(tab, r, done, c)
        BY <1>0, <1>2, <1>7, <3>3, <4>1, PublishedSound
      <4> QED
        BY <4>2 DEF Publication
    <3>6. Sound(c, serverRev) /\ Formed(c)
      BY <1>0, <3>1, <3>5
    <3>7. ASSUME Exhausts(done, page)
          PROVE  r.who = "loadMore" /\ Found(c)
      <4>1. r.who = "loadMore" /\ AtEnd(done)
        BY <1>2, <1>6, <3>7 DEF Exhausts
      <4>2. HasProgress(done)
        <5>1. SUFFICES ASSUME done.accepted = <<>>
                       PROVE  FALSE
          BY DEF HasProgress
        <5>2. Len(b.accepted) = 0
          <6>1. Len(done.accepted) = Len(b.accepted) + Len(page) /\ Len(page) \in Nat
            BY <1>4, <1>5, <1>6
          <6>2. Len(done.accepted) = 0
            BY <5>1
          <6> QED
            BY <1>4, <6>1, <6>2
        <5>3. b.total = done.total /\ Len(done.accepted) = 0
          BY <1>3, <1>6, <5>1 DEF Carries
        <5>4. AtEnd(b)
          BY <1>6, <4>1, <5>2, <5>3 DEF AtEnd, LoadedOffset
        <5> QED
          BY <1>2, <3>3, <5>4
      <4>3. /\ c.scope = tab.scope /\ Key(c) = r.key /\ c.rev = r.rev
            /\ c.events = tab.events \o done.accepted /\ Follows(c.events, 0, r.key, r.rev)
            /\ c.registry.key = r.key
            /\ Searching(tab) => HitsIn(c.events) \subseteq c.registry.owners
        BY <3>3, <3>5, <4>2 DEF Key
      <4>4. Searching(tab) /\ Searching(c) /\ c.scope = "session"
        BY <1>2, <1>3, <3>3, <3>5, <4>1, <4>2 DEF Key, Searching, SessionKeys
      <4>5. c.events \in Seq(Event) /\ Len(Answered(r.key, r.rev)) <= Len(c.events)
        <5>1. done.accepted \in Seq(Event) /\ Len(done.accepted) \in Nat
          <6>1. done \in Batch
            BY <1>6
          <6> QED
            BY <6>1 DEF Batch
        <5>2. Len(c.events) = Len(tab.events) + Len(done.accepted) /\ c.events \in Seq(Event)
          BY <1>0, <4>3, <5>1
        <5>3. done.base + Len(done.accepted) >= Len(Answered(r.key, r.rev))
          BY <1>6, <4>1 DEF AtEnd, LoadedOffset
        <5> QED
          BY <3>4, <4>2, <5>2, <5>3 DEF Offset
      <4> QED
        BY <1>2, <4>1, <4>3, <4>4, <4>5, AllFound
    <3>8. Exhausts(done, page) \in BOOLEAN
      BY DEF Exhausts
    <3> QED
      BY <1>0, <1>1, <3>2, <3>6, <3>7, <3>8, SettledView
  <2> QED
    BY <2>1, <2>2, <2>3, <2>4
<1> QED
  BY <1>8, <1>12, TurnSees

-----------------------------------------------------------------------------
(* Every callback keeps the view *)

LEMMA ReplacedView ==
  ASSUME NEW s, Formed(s), NEW n \in Nat, Sound(s, n),
         NEW kind \in {"replace", "find", "prefix"}, NEW who, NEW want,
         NEW u, u = Replaced(s, kind, who, want, n)
  PROVE  View(u, n) /\ Formed(u)
<1>1. Calls(s, u, NoReq, n)
  BY ReplacedCalls
<1> QED
  BY <1>1, NoReqFits, CallsView

LEMMA RefreshedView ==
  ASSUME NEW s, Formed(s), NEW n \in Nat, View(s, n),
         NEW kind \in {"replace", "find"}, NEW u, u = Refreshed(s, kind, n)
  PROVE  View(u, n) /\ Formed(u)
<1>1. Calls(s, u, s.req, n) \/ Calls(s, u, NoReq, n)
  BY RefreshedCalls
<1> QED
  BY <1>1, NoReqFits, CallsView DEF View

LEMMA SelectSessionSees ==
  ASSUME ViewInv, NEW sess \in Session, SelectSession(sess)
  PROVE  Sees
<1>1. PICK t : t = Selected(tab, sess, "user")
  OBVIOUS
<1>2. View(t, serverRev) /\ Formed(t)
  BY <1>1, ViewKnown, SelectedView
<1>3. Acts(t)
  BY <1>1 DEF SelectSession
<1> QED
  BY <1>2, <1>3, TurnSees

LEMMA EditExpressionSees ==
  ASSUME ViewInv, NEW e \in Expr, EditExpression(e)
  PROVE  Sees
<1>1. PICK typed : typed = Transition([tab EXCEPT !.expr = e])
  OBVIOUS
<1>2. View(typed, serverRev) /\ Formed(typed)
  BY <1>1, ViewKnown, RewordedView DEF EditExpression
<1>3. PICK t : /\ Acts(t)
               /\ t = [typed EXCEPT
                         !.highlight = Key(typed),
                         !.timers = IF e.filter # tab.expr.filter THEN {"reload"}
                                    ELSE @ \cup {"find"}]
  BY <1>1 DEF EditExpression
<1>4. Quiet(typed, t, serverRev) /\ t.req = typed.req
  BY <1>2, <1>3 DEF Quiet, Formed, Waits
<1>5. View(t, serverRev) /\ Formed(t)
  BY <1>2, <1>4, ViewKnown, QuietView
<1> QED
  BY <1>3, <1>5, TurnSees

LEMMA ChooseFilterSees ==
  ASSUME ViewInv, NEW e \in Expr, ChooseFilter(e)
  PROVE  Sees
<1>1. PICK chosen : chosen = Transition([tab EXCEPT !.expr = e])
  OBVIOUS
<1>2. View(chosen, serverRev) /\ Formed(chosen)
  BY <1>1, ViewKnown, RewordedView DEF ChooseFilter
<1>3. PICK t : Acts(t) /\ t = Refreshed(chosen, "replace", serverRev)
  BY <1>1 DEF ChooseFilter
<1>4. View(t, serverRev) /\ Formed(t)
  BY <1>2, <1>3, ViewKnown, RefreshedView
<1> QED
  BY <1>3, <1>4, TurnSees

LEMMA LoadMoreSees ==
  ASSUME ViewInv, LoadMore
  PROVE  Sees
<1>1. CASE RetryCurrent /\ Acts(IF tab.retry.kind = "prefix"
                                THEN Replaced(tab, "prefix", "user", tab.retry.want, serverRev)
                                ELSE Refreshed(tab, tab.retry.kind, serverRev))
  <2>1. tab.retry.kind \in {"replace", "find", "prefix"}
    BY <1>1, ViewKnown DEF RetryCurrent, TabState, Retry
  <2>2. CASE tab.retry.kind = "prefix"
    <3>1. PICK t : Acts(t) /\ t = Replaced(tab, "prefix", "user", tab.retry.want, serverRev)
      BY <1>1, <2>2
    <3>2. View(t, serverRev) /\ Formed(t)
      BY <3>1, ViewKnown, ReplacedView
    <3> QED
      BY <3>1, <3>2, TurnSees
  <2>3. CASE tab.retry.kind # "prefix"
    <3>1. PICK t : Acts(t) /\ t = Refreshed(tab, tab.retry.kind, serverRev)
      BY <1>1, <2>3
    <3>2. View(t, serverRev) /\ Formed(t)
      BY <2>1, <2>3, <3>1, ViewKnown, RefreshedView
    <3> QED
      BY <3>1, <3>2, TurnSees
  <2> QED
    BY <2>2, <2>3
<1>2. CASE /\ tab.tctx = Key(tab)
           /\ Acts(Started(tab, Request(tab, "append", "user", serverRev, Offset(tab)),
                           serverRev))
  <2>1. PICK r : r = Request(tab, "append", "user", serverRev, Offset(tab))
    OBVIOUS
  <2>2. PICK t : Acts(t) /\ t = Started(tab, r, serverRev)
    BY <1>2, <2>1
  <2>3. Asks(tab, r, serverRev)
    BY <1>2, <2>1 DEF Asks, Request
  <2>4. Calls(tab, t, NoReq, serverRev)
    BY <2>2, <2>3, ViewKnown, StartedCalls
  <2>5. View(t, serverRev) /\ Formed(t)
    BY <2>4, ViewKnown, NoReqFits, CallsView
  <2> QED
    BY <2>2, <2>5, TurnSees
<1> QED
  BY <1>1, <1>2 DEF LoadMore

\* What is drawn is what is committed.
LEMMA ReadyCommitted ==
  ASSUME NEW s, Formed(s), Ready(s)
  PROVE  s.tctx = Key(s)
<1>1. Key(s) # NoKey
  BY DEF Formed, Key, NoKey
<1> QED
  BY <1>1 DEF Formed, Ready

LEMMA LoadMoreTargetsSees ==
  ASSUME ViewInv, LoadMoreTargets
  PROVE  Sees
<1>1. /\ Formed(tab) /\ Sound(tab, serverRev) /\ Fits(tab, tab.req, serverRev)
      /\ View(tab, serverRev) /\ serverRev \in Nat
  BY ViewKnown
<1>2. tab.tctx = Key(tab) /\ Searching(tab)
  BY <1>1, ReadyCommitted DEF LoadMoreTargets
<1>3. PICK p : p = IF tab.preload.key = Key(tab) THEN tab.preload
                   ELSE [NoPreload EXCEPT !.key = Key(tab)]
  OBVIOUS
<1>4. PICK begun : begun = [tab EXCEPT !.inv = "loadMore", !.preload = p]
  OBVIOUS
<1>5. Quiet(tab, begun, serverRev) /\ begun.req = tab.req
  BY <1>1, <1>3, <1>4 DEF Quiet, Formed, Waits, NoPreload
<1>6. View(begun, serverRev) /\ Formed(begun)
  BY <1>1, <1>5, QuietView
<1>7. CASE tab.loading
  <2>1. PICK t : Acts(t) /\ t = [begun EXCEPT !.preload.exhausted = FALSE]
    BY <1>3, <1>4, <1>7 DEF LoadMoreTargets
  <2>2. Quiet(begun, t, serverRev) /\ t.req = begun.req
    BY <1>6, <2>1 DEF Quiet, Formed, Waits
  <2>3. View(t, serverRev) /\ Formed(t)
    BY <1>1, <1>6, <2>2, QuietView
  <2> QED
    BY <2>1, <2>3, TurnSees
<1>8. CASE ~tab.loading
  <2>1. PICK v : v = [begun EXCEPT !.preload.pending = TRUE]
    OBVIOUS
  <2>2. PICK t : Acts(t) /\ t = BatchStarted(v, "loadMore", "none", serverRev)
    BY <1>3, <1>4, <1>8, <2>1 DEF LoadMoreTargets
  <2>3. Quiet(begun, v, serverRev) /\ v.req = begun.req
    BY <1>6, <2>1 DEF Quiet, Formed, Waits
  <2>4. Quiet(tab, v, serverRev)
    BY <1>5, <2>3, QuietTrans
  <2>5. Formed(v) /\ v.tctx = Key(v) /\ Searching(v)
    BY <1>2, <2>4 DEF Quiet, Key, Searching
  <2>6. Calls(v, t, v.req, serverRev)
    BY <2>2, <2>5, BatchStartedCalls
  <2>7. View(v, serverRev)
    BY <1>1, <1>6, <2>3, QuietView
  <2>8. View(t, serverRev) /\ Formed(t)
    BY <1>1, <2>5, <2>6, <2>7, CallsView DEF View
  <2> QED
    BY <2>2, <2>8, TurnSees
<1> QED
  BY <1>7, <1>8

LEMMA NavigateSees ==
  ASSUME ViewInv, Navigate
  PROVE  Sees
<1>1. PICK t : /\ Acts(t)
               /\ \/ t = [tab EXCEPT !.nav.phase = "wait", !.nav.key = Key(tab)]
                  \/ t = [tab EXCEPT !.nav.queue = @ + 1]
  BY DEF Navigate
<1>2. Formed(tab)
  BY ViewKnown
<1>3. PICK v : DOMAIN v = DOMAIN tab.nav /\ t = [tab EXCEPT !.nav = v]
  <2>1. CASE t = [tab EXCEPT !.nav.phase = "wait", !.nav.key = Key(tab)]
    <3>1. t = [tab EXCEPT !.nav = [tab.nav EXCEPT !.phase = "wait", !.key = Key(tab)]]
      BY <1>2, <2>1 DEF Formed
    <3> QED
      BY <3>1
  <2>2. CASE t = [tab EXCEPT !.nav.queue = @ + 1]
    BY <2>2
  <2> QED
    BY <1>1, <2>1, <2>2
<1>4. Quiet(tab, t, serverRev) /\ t.req = tab.req
  BY <1>2, <1>3 DEF Quiet, Formed, Waits
<1>5. View(t, serverRev) /\ Formed(t)
  BY <1>4, ViewKnown, QuietView
<1> QED
  BY <1>1, <1>5, TurnSees

LEMMA LeaveForProjectSees ==
  ASSUME ViewInv, LeaveForProject
  PROVE  Sees
<1>0. /\ Formed(tab) /\ Viewed(tab) /\ Recovers(tab, serverRev) /\ serverRev \in Nat
  BY ViewKnown
<1>1. PICK a : a = [tab EXCEPT !.scope = "project"]
  OBVIOUS
<1>2. PICK there : there = Transition(a)
  OBVIOUS
<1>3. /\ Formed(a) /\ a.rev = tab.rev /\ a.recovery = tab.recovery /\ a.tctx = tab.tctx
      /\ a.sugg = tab.sugg /\ a.events = tab.events /\ a.total = tab.total
  BY <1>0, <1>1 DEF Formed
<1>4. Recovers(there, serverRev) /\ Formed(there) /\ Quiet(a, there, serverRev)
  BY <1>0, <1>2, <1>3, MovedRecovers
<1>5. Viewed(there)
  BY <1>0, <1>3, <1>4 DEF Viewed, Quiet
<1>6. PICK left : left = [ReplacementBegun(there) EXCEPT
                            !.req = NoReq, !.loading = FALSE, !.surface = NoKey,
                            !.preload = NoPreload]
  OBVIOUS
<1>7. PICK b : b = ReplacementBegun(there)
  OBVIOUS
<1>8. /\ Formed(b) /\ b.rev = there.rev /\ b.recovery = there.recovery /\ b.tctx = there.tctx
      /\ b.sugg = there.sugg /\ b.events = there.events /\ b.total = there.total
  BY <1>4, <1>7 DEF ReplacementBegun, Formed
<1>9. /\ Formed(left) /\ left.rev = b.rev /\ left.recovery = b.recovery /\ left.tctx = b.tctx
      /\ left.sugg = b.sugg /\ left.events = b.events /\ left.total = b.total
      /\ left.req = NoReq /\ ~left.preload.exhausted
  BY <1>6, <1>7, <1>8 DEF Formed, NoPreload
<1>10. Sound(left, serverRev)
  BY <1>4, <1>5, <1>8, <1>9 DEF Sound, Viewed, Recovers, Exhaustive
<1>11. PICK t : t = IF tab.req = NoReq THEN left
                    ELSE Ended(left, tab.req, "stale", FALSE, serverRev)
  OBVIOUS
<1>12. Calls(left, t, NoReq, serverRev)
  <2>1. CASE tab.req = NoReq
    BY <1>9, <1>11, <2>1, QuietSelf DEF Calls
  <2>2. CASE tab.req # NoReq
    BY <1>9, <1>11, <2>2, EndedCalls
  <2> QED
    BY <2>1, <2>2
<1>13. View(t, serverRev) /\ Formed(t)
  BY <1>0, <1>9, <1>10, <1>12, NoReqFits, CallsView
<1>14. PICK u : Acts(u) /\ u = SuggestionsStarted(t, "user")
  BY <1>1, <1>2, <1>6, <1>11 DEF LeaveForProject
<1>15. View(u, serverRev) /\ Formed(u)
  BY <1>0, <1>13, <1>14, SuggestionsStartedView
<1> QED
  BY <1>14, <1>15, TurnSees

LEMMA ReturnToSessionSees ==
  ASSUME ViewInv, ReturnToSession
  PROVE  Sees
<1>1. PICK t : Acts(t) /\ t = Selected(tab, tab.sess, "user")
  BY DEF ReturnToSession
<1>2. View(t, serverRev) /\ Formed(t)
  BY <1>1, ViewKnown, SelectedView
<1> QED
  BY <1>1, <1>2, TurnSees

LEMMA DrillDownSees ==
  ASSUME ViewInv, NEW sess \in Session, DrillDown(sess)
  PROVE  Sees
<1>0. Formed(tab) /\ Recovers(tab, serverRev) /\ serverRev \in Nat /\ tab.surface = NoKey
  BY ViewKnown DEF DrillDown, TabInv, Kept, Placed
<1>1. PICK a : a = [tab EXCEPT !.scope = "session", !.sess = sess]
  OBVIOUS
<1>2. PICK there : there = Transition(a)
  OBVIOUS
<1>3. /\ Formed(a) /\ a.rev = tab.rev /\ a.recovery = tab.recovery /\ a.tctx = tab.tctx
      /\ a.sugg = tab.sugg /\ a.surface = NoKey
  BY <1>0, <1>1 DEF Formed
<1>4. Recovers(there, serverRev) /\ Formed(there) /\ there.surface = NoKey
  <2>1. there.surface = a.surface
    BY <1>2, <1>3 DEF Transition, Formed
  <2> QED
    BY <1>0, <1>2, <1>3, <2>1, MovedRecovers
<1>5. PICK empty : empty = [there EXCEPT !.loading = FALSE, !.events = <<>>, !.tctx = NoKey,
                                         !.preload = NoPreload]
  OBVIOUS
<1>6. /\ Formed(empty) /\ empty.tctx = NoKey /\ empty.events = <<>>
      /\ empty.preload = NoPreload /\ empty.rev = there.rev
      /\ empty.recovery = there.recovery /\ empty.sugg = there.sugg
  BY <1>4, <1>5 DEF Formed, NoPreload
<1>7. Recovers(empty, serverRev)
  BY <1>4, <1>6 DEF Recovers
<1>8. PICK want : Acts(SuggestionsStarted(
                         Replaced(empty, "prefix", "user", want, serverRev), "user"))
  BY <1>1, <1>2, <1>5 DEF DrillDown
<1>9. PICK t : t = Replaced(empty, "prefix", "user", want, serverRev)
  OBVIOUS
<1>10. View(t, serverRev) /\ Formed(t)
  BY <1>0, <1>6, <1>7, <1>9, BlankView
<1>11. PICK u : Acts(u) /\ u = SuggestionsStarted(t, "user")
  BY <1>8, <1>9
<1>12. View(u, serverRev) /\ Formed(u)
  BY <1>0, <1>10, <1>11, SuggestionsStartedView
<1> QED
  BY <1>11, <1>12, TurnSees

LEMMA RenderedSeen ==
  ASSUME ViewInv, NEW drawn, drawn = Rendered(tab)
  PROVE  View(drawn, serverRev) /\ Formed(drawn)
<1>0. Formed(tab) /\ View(tab, serverRev) /\ serverRev \in Nat
  BY ViewKnown
<1>1. PICK v : v = [tab EXCEPT !.surface = NoKey]
  OBVIOUS
<1>2. Quiet(tab, v, serverRev) /\ v.req = tab.req
  BY <1>0, <1>1 DEF Quiet, Formed, Waits
<1>3. View(v, serverRev) /\ Formed(v)
  BY <1>0, <1>2, QuietView
<1>4. Quiet(v, drawn, serverRev) /\ drawn.req = tab.req
  BY <1>1, <1>3, RenderedQuiet
<1> QED
  BY <1>0, <1>2, <1>3, <1>4, QuietView

LEMMA RerenderSees ==
  ASSUME ViewInv, Rerender
  PROVE  Sees
<1>1. PICK drawn : drawn = Rendered(tab)
  OBVIOUS
<1>2. View(drawn, serverRev) /\ Formed(drawn)
  BY <1>1, RenderedSeen
<1>3. PICK t : Acts(t) /\ t = MaybePreload(drawn, serverRev)
  BY <1>1 DEF Rerender
<1>4. Calls(drawn, t, drawn.req, serverRev)
  BY <1>2, <1>3, MaybePreloadCalls
<1>5. View(t, serverRev) /\ Formed(t)
  BY <1>2, <1>4, ViewKnown, CallsView DEF View
<1> QED
  BY <1>3, <1>5, TurnSees

\* What is quiet, and then calls
LEMMA QuietCallsView ==
  ASSUME NEW s, NEW n \in Nat, View(s, n), NEW t, Quiet(s, t, n), t.req = s.req,
         NEW u, Calls(t, u, t.req, n)
  PROVE  View(u, n) /\ Formed(u)
<1>1. View(t, n) /\ Formed(t)
  BY QuietView
<1> QED
  BY <1>1, CallsView DEF View

\* A chase begins.
LEMMA ChaseSeen ==
  ASSUME ViewInv, NEW id, NEW w, NEW t,
         t = Chased([tab EXCEPT !.chase[w].id = id], w, serverRev)
  PROVE  View(t, serverRev) /\ Formed(t)
<1>1. PICK v : v = [tab EXCEPT !.chase[w].id = id]
  OBVIOUS
<1>2. PICK c : c = [tab.chase EXCEPT ![w].id = id] /\ v = [tab EXCEPT !.chase = c]
  BY <1>1, ViewKnown DEF Formed
<1>3. Quiet(tab, v, serverRev) /\ v.req = tab.req /\ Formed(v)
  <2>1. Formed(tab)
    BY ViewKnown
  <2>2. Quiet(tab, v, serverRev) /\ v.req = tab.req
    BY <1>2, <2>1, ChaseQuiet
  <2> QED
    BY <2>2 DEF Quiet
<1>4. Calls(v, t, v.req, serverRev)
  BY <1>1, <1>3, ChasedCalls
<1> QED
  BY <1>3, <1>4, ViewKnown, QuietCallsView

LEMMA GoToSees ==
  ASSUME ViewInv, NEW id \in Ids, GoTo(id)
  PROVE  Sees
<1>1. PICK t : /\ Acts(t)
               /\ t = Chased([tab EXCEPT !.chase["chase"].id = id], "chase", serverRev)
  BY DEF GoTo
<1>2. View(t, serverRev) /\ Formed(t)
  BY <1>1, ChaseSeen
<1> QED
  BY <1>1, <1>2, TurnSees

LEMMA FireHighlightSees ==
  ASSUME ViewInv, FireHighlight
  PROVE  Sees
<1>1. PICK fired : fired = [tab EXCEPT !.highlight = NoKey]
  OBVIOUS
<1>2. Quiet(tab, fired, serverRev) /\ fired.req = tab.req /\ Formed(fired)
  BY <1>1, ViewKnown DEF Quiet, Formed, Waits
<1>3. PICK t : /\ Does(t)
               /\ t = IF tab.highlight = Key(tab) THEN Discovered(fired, fired.events)
                      ELSE fired
  BY <1>1 DEF FireHighlight
<1>4. Calls(fired, t, fired.req, serverRev)
  BY <1>2, <1>3, DiscoveredQuiet, QuietSelf DEF Calls
<1>5. View(t, serverRev) /\ Formed(t)
  BY <1>2, <1>4, ViewKnown, QuietCallsView
<1> QED
  BY <1>3, <1>5, TurnSees

LEMMA FireReloadSees ==
  ASSUME ViewInv, FireReload
  PROVE  Sees
<1>1. PICK fired : fired = [tab EXCEPT !.timers = @ \ {"reload"}]
  OBVIOUS
<1>2. Quiet(tab, fired, serverRev) /\ fired.req = tab.req /\ Formed(fired)
  BY <1>1, ViewKnown DEF Quiet, Formed, Waits
<1>3. PICK v : v = Highlighted(fired, serverRev)
  OBVIOUS
<1>4. Calls(fired, v, fired.req, serverRev)
  BY <1>2, <1>3, HighlightedCalls
<1>5. View(v, serverRev) /\ Formed(v)
  BY <1>2, <1>4, ViewKnown, QuietCallsView
<1>6. PICK t : Does(t) /\ t = Refreshed(v, "replace", serverRev)
  BY <1>1, <1>3 DEF FireReload
<1>7. View(t, serverRev) /\ Formed(t)
  BY <1>5, <1>6, ViewKnown, RefreshedView
<1> QED
  BY <1>6, <1>7, TurnSees

LEMMA FireFindSees ==
  ASSUME ViewInv, FireFind
  PROVE  Sees
<1>1. PICK fired : fired = [tab EXCEPT !.timers = @ \ {"find"}]
  OBVIOUS
<1>2. Quiet(tab, fired, serverRev) /\ fired.req = tab.req /\ Formed(fired)
  BY <1>1, ViewKnown DEF Quiet, Formed, Waits
<1>3. View(fired, serverRev)
  BY <1>2, ViewKnown, QuietView
<1>4. PICK t : Does(t) /\ t = Refreshed(fired, "find", serverRev)
  BY <1>1 DEF FireFind
<1>5. View(t, serverRev) /\ Formed(t)
  BY <1>2, <1>3, <1>4, ViewKnown, RefreshedView
<1> QED
  BY <1>4, <1>5, TurnSees

\* A callback that only calls
LEMMA CallsSees ==
  ASSUME ViewInv, NEW t, Calls(tab, t, tab.req, serverRev), Does(t)
  PROVE  Sees
<1>1. View(t, serverRev) /\ Formed(t)
  BY ViewKnown, CallsView
<1> QED
  BY <1>1, TurnSees

LEMMA ChaseWakesSees ==
  ASSUME ViewInv, NEW w, ChaseWakes(w)
  PROVE  Sees
<1>1. PICK t : Does(t) /\ t = ChaseLoads(tab, w, serverRev)
  BY DEF ChaseWakes
<1> QED
  BY <1>1, ViewKnown, ChaseLoadsCalls, CallsSees

LEMMA NavWakesSees ==
  ASSUME ViewInv, NavWakes
  PROVE  Sees
<1>1. PICK begun : begun = [tab EXCEPT !.inv = "nav", !.nav.phase = "look"]
  OBVIOUS
<1>2. Quiet(tab, begun, serverRev) /\ begun.req = tab.req /\ Formed(begun)
  BY <1>1, ViewKnown DEF Quiet, Formed, Waits
<1>3. PICK t : /\ Does(t)
               /\ \/ t = NavEnded(tab, serverRev)
                  \/ t = begun
                  \/ t = Discovered(begun, begun.events)
  BY <1>1 DEF NavWakes
<1>4. CASE t = NavEnded(tab, serverRev)
  BY <1>3, <1>4, ViewKnown, NavEndedCalls, CallsSees
<1>5. CASE t = begun \/ t = Discovered(begun, begun.events)
  <2>1. Calls(begun, t, begun.req, serverRev)
    BY <1>2, <1>5, DiscoveredQuiet, QuietSelf DEF Calls
  <2>2. View(t, serverRev) /\ Formed(t)
    BY <1>2, <2>1, ViewKnown, QuietCallsView
  <2> QED
    BY <1>3, <2>2, TurnSees
<1> QED
  BY <1>3, <1>4, <1>5

LEMMA NavChasesSees ==
  ASSUME ViewInv, NavChases
  PROVE  Sees
<1>1. PICK id, t : /\ Does(t)
                   /\ t = Chased([tab EXCEPT !.chase["navChase"].id = id], "navChase", serverRev)
  BY DEF NavChases
<1>2. View(t, serverRev) /\ Formed(t)
  BY <1>1, ChaseSeen
<1> QED
  BY <1>1, <1>2, TurnSees

LEMMA NavDrawsSees ==
  ASSUME ViewInv, NavDraws
  PROVE  Sees
<1>1. PICK t : Does(t) /\ t = Rendered(tab)
  BY DEF NavDraws
<1>2. View(t, serverRev) /\ Formed(t)
  BY <1>1, RenderedSeen
<1> QED
  BY <1>1, <1>2, TurnSees

LEMMA NavLooksSees ==
  ASSUME ViewInv, NavLooks
  PROVE  Sees
<1>1. CASE Does(NavEnded(tab, serverRev))
  <2>1. PICK t : Does(t) /\ t = NavEnded(tab, serverRev)
    BY <1>1
  <2> QED
    BY <2>1, ViewKnown, NavEndedCalls, CallsSees
<1>2. CASE /\ Ready(tab)
           /\ \E direction \in {"forward", "reverse"} :
                Does(BatchStarted([tab EXCEPT !.nav.phase = "load"], "nav", direction, serverRev))
  <2>1. PICK v : v = [tab EXCEPT !.nav.phase = "load"]
    OBVIOUS
  <2>2. PICK direction, t : Does(t) /\ t = BatchStarted(v, "nav", direction, serverRev)
    BY <1>2, <2>1
  <2>3. Quiet(tab, v, serverRev) /\ v.req = tab.req /\ Formed(v)
    BY <2>1, ViewKnown DEF Quiet, Formed, Waits
  <2>4. v.tctx = Key(v)
    <3>1. tab.tctx = Key(tab)
      BY <1>2, ViewKnown, ReadyCommitted
    <3> QED
      BY <2>3, <3>1 DEF Quiet, Key
  <2>5. Calls(v, t, v.req, serverRev)
    BY <2>2, <2>3, <2>4, BatchStartedCalls
  <2>6. View(t, serverRev) /\ Formed(t)
    BY <2>3, <2>5, ViewKnown, QuietCallsView
  <2> QED
    BY <2>2, <2>6, TurnSees
<1> QED
  BY <1>1, <1>2 DEF NavLooks

LEMMA NavFinishesSees ==
  ASSUME ViewInv, NavFinishes
  PROVE  Sees
<1>1. PICK t : Does(t) /\ t = NavEnded(tab, serverRev)
  BY DEF NavFinishes
<1> QED
  BY <1>1, ViewKnown, NavEndedCalls, CallsSees

LEMMA FailPageSees ==
  ASSUME ViewInv, FailPage
  PROVE  Sees
<1>1. PICK t : Does(t) /\ t = Failure(tab, tab.req)
  BY DEF FailPage
<1>2. View(t, serverRev) /\ Formed(t)
  BY <1>1, ViewKnown, FailureView
<1> QED
  BY <1>1, <1>2, TurnSees

LEMMA FailBatchSees ==
  ASSUME ViewInv, FailBatch
  PROVE  Sees
<1>1. PICK t : Does(t) /\ t = BatchFailure(tab, tab.req)
  BY DEF FailBatch
<1>2. View(t, serverRev) /\ Formed(t)
  BY <1>1, ViewKnown, BatchFailureView DEF FailBatch
<1> QED
  BY <1>1, <1>2, TurnSees

LEMMA SuggestionsHeardView ==
  ASSUME ViewInv, NEW result, NEW t, t = SuggestionsHeard(result)
  PROVE  View(t, serverRev) /\ Formed(t)
<1>1. PICK heard : heard = [tab EXCEPT !.sugg = NoSuggestions]
  OBVIOUS
<1>2. Quiet(tab, heard, serverRev) /\ heard.req = tab.req /\ Formed(heard)
  BY <1>1, ViewKnown DEF Quiet, Formed, Waits
<1>3. CASE tab.sugg.who = "user"
  <2>1. t = heard
    BY <1>1, <1>3 DEF SuggestionsHeard
  <2> QED
    BY <1>2, <2>1, ViewKnown, QuietView
<1>4. CASE tab.sugg.who # "user"
  <2>1. PICK v, outcome : /\ v = [heard EXCEPT !.recovery.result =
                                    IF result = "committed" THEN "committed" ELSE "declined"]
                          /\ t = RecoveryHears(v, "suggestions", outcome)
    BY <1>1, <1>4 DEF SuggestionsHeard
  <2>2. Quiet(heard, v, serverRev) /\ v.req = heard.req /\ Formed(v)
    BY <1>2, <2>1 DEF Quiet, Formed, Waits
  <2>3. Calls(v, t, v.req, serverRev)
    BY <2>1, <2>2, RecoveryHearsCalls
  <2>4. Quiet(tab, v, serverRev)
    BY <1>2, <2>2, QuietTrans
  <2> QED
    BY <1>2, <2>2, <2>3, <2>4, ViewKnown, QuietCallsView
<1> QED
  BY <1>3, <1>4

\* An answer of another revision than the tab's is of the last one.
LEMMA MismatchIsLast ==
  ASSUME ViewInv, NEW since \in 1..serverRev,
         NEW revision \in since..serverRev, revision # tab.rev
  PROVE  Settles(serverRev)
<1>1. tab.rev \in 1..serverRev /\ serverRev \in 1..MaxRevision
  BY ViewKnown DEF Recovers, Revs
<1>2. revision \in 1..serverRev
  BY ViewKnown
<1> QED
  BY <1>1, <1>2, Numbers DEF Settles

LEMMA AnswerSuggestionsSees ==
  ASSUME ViewInv, AnswerSuggestions
  PROVE  Sees
<1>0. Formed(tab) /\ View(tab, serverRev) /\ serverRev \in Nat
  BY ViewKnown
<1>1. CASE Does(SuggestionsHeard("committed"))
  <2>1. PICK t : Does(t) /\ t = SuggestionsHeard("committed")
    BY <1>1
  <2> QED
    BY <2>1, SuggestionsHeardView, TurnSees
<1>2. CASE ~Does(SuggestionsHeard("committed"))
  <2>1. PICK revision \in tab.sugg.since..serverRev : revision # tab.rev
    BY <1>2 DEF AnswerSuggestions
  <2>2. PICK s : s = Mismatched(tab)
    OBVIOUS
  <2>3. PICK heard : heard = [s EXCEPT !.sugg = NoSuggestions]
    OBVIOUS
  <2>4. PICK t : /\ Does(t)
                 /\ \/ t = s
                    \/ t = heard
                    \/ t = RecoveryHears([heard EXCEPT !.recovery.result = "declined"],
                                         "suggestions", "done")
    BY <1>2, <2>2, <2>3 DEF AnswerSuggestions
  <2>5. tab.sugg.since \in 1..serverRev
    BY ViewKnown DEF Recovers, AnswerSuggestions
  <2>6. Settles(serverRev)
    BY <2>1, <2>5, MismatchIsLast
  <2>7. View(s, serverRev) /\ Formed(s)
    BY <1>0, <2>2, <2>6, MismatchedView
  <2>8. Quiet(s, heard, serverRev) /\ heard.req = s.req /\ Formed(heard)
    BY <2>3, <2>7 DEF Quiet, Formed, Waits
  <2>9. View(t, serverRev) /\ Formed(t)
    <3>1. CASE t = s
      BY <2>7, <3>1
    <3>2. CASE t = heard
      BY <1>0, <2>7, <2>8, <3>2, QuietView
    <3>3. CASE t = RecoveryHears([heard EXCEPT !.recovery.result = "declined"],
                                 "suggestions", "done")
      <4>1. PICK v : v = [heard EXCEPT !.recovery.result = "declined"]
        OBVIOUS
      <4>2. Quiet(heard, v, serverRev) /\ v.req = heard.req /\ Formed(v)
        BY <2>8, <4>1 DEF Quiet, Formed, Waits
      <4>3. Calls(v, t, v.req, serverRev)
        BY <3>3, <4>1, <4>2, RecoveryHearsCalls
      <4>4. Quiet(s, v, serverRev)
        BY <2>8, <4>2, QuietTrans
      <4> QED
        BY <1>0, <2>7, <2>8, <4>2, <4>3, <4>4, QuietCallsView
    <3> QED
      BY <2>4, <3>1, <3>2, <3>3
  <2> QED
    BY <2>4, <2>9, TurnSees
<1> QED
  BY <1>1, <1>2

LEMMA FailSuggestionsSees ==
  ASSUME ViewInv, FailSuggestions
  PROVE  Sees
<1>1. PICK t : Does(t) /\ t = SuggestionsHeard("error")
  BY DEF FailSuggestions
<1> QED
  BY <1>1, SuggestionsHeardView, TurnSees

\* The new revision is known: what was asked for at the old one brings nothing.
LEMMA AnswerStateSees ==
  ASSUME ViewInv, AnswerState
  PROVE  Sees
<1>0. /\ Formed(tab) /\ Viewed(tab) /\ Recovers(tab, serverRev)
      /\ Fits(tab, tab.req, serverRev) /\ serverRev \in Nat /\ serverRev \in Revs
      /\ tab.recovery.phase = "state"
  BY ViewKnown DEF AnswerState
<1>1. PICK fresh : fresh = [tab EXCEPT !.rev = serverRev, !.preload = NoPreload,
                                       !.recovery.phase = "list",
                                       !.recovery.since = serverRev]
  OBVIOUS
<1>2. /\ Formed(fresh) /\ fresh.rev = serverRev /\ fresh.preload = NoPreload
      /\ fresh.tctx = tab.tctx /\ fresh.events = tab.events /\ fresh.total = tab.total
      /\ fresh.sugg = tab.sugg /\ fresh.req = tab.req /\ fresh.recovery.phase = "list"
      /\ fresh.recovery.since = serverRev /\ fresh.recovery.waits = tab.recovery.waits
  BY <1>0, <1>1 DEF Formed, NoPreload
<1>3. serverRev \in 1..serverRev /\ Settles(serverRev)
  BY <1>0 DEF Recovers, Revs
<1>4. tab.rev # serverRev => tab.tctx = NoKey
  BY <1>0 DEF Recovers
<1>5. Viewed(fresh)
  BY <1>0, <1>2, <1>4 DEF Viewed
<1>6. Recovers(fresh, serverRev)
  <2>1. fresh.recovery.waits = {}
    BY <1>0, <1>2 DEF Recovers
  <2> QED
    BY <1>0, <1>2, <1>3, <2>1 DEF Recovers
<1>7. Exhaustive(fresh)
  BY <1>2 DEF Exhaustive, NoPreload
<1>8. Fits(fresh, fresh.req, serverRev)
  BY <1>0, <1>2 DEF Fits
<1>9. PICK t : Does(t) /\ t = Highlighted(fresh, serverRev)
  BY <1>1 DEF AnswerState
<1>10. Calls(fresh, t, fresh.req, serverRev)
  BY <1>2, <1>9, HighlightedCalls
<1>11. View(t, serverRev) /\ Formed(t)
  BY <1>0, <1>2, <1>5, <1>6, <1>7, <1>8, <1>10, CallsView DEF Sound
<1> QED
  BY <1>9, <1>11, TurnSees

LEMMA AnswerListSees ==
  ASSUME ViewInv, AnswerList
  PROVE  Sees
<1>0. /\ Formed(tab) /\ View(tab, serverRev) /\ Recovers(tab, serverRev) /\ serverRev \in Nat
      /\ tab.recovery.phase = "list" /\ tab \in TabState
  BY ViewKnown DEF AnswerList
<1>1. tab.rev = serverRev /\ tab.recovery.since \in 1..serverRev
  BY <1>0 DEF Recovers
<1>2. ASSUME NEW sess \in Session \cup {NoSession},
             Does(Listed([tab EXCEPT !.sessionsReady = TRUE], sess))
      PROVE  Sees
  <2>1. PICK s : s = [tab EXCEPT !.sessionsReady = TRUE]
    OBVIOUS
  <2>2. Quiet(tab, s, serverRev) /\ s.req = tab.req /\ Formed(s) /\ s.rev = tab.rev
        /\ s.recovery = tab.recovery
    BY <1>0, <2>1 DEF Quiet, Formed, Waits
  <2>3. View(s, serverRev)
    BY <1>0, <2>2, QuietView
  <2>4. s.req \in Requests \cup {NoReq}
    BY <1>0, <2>2 DEF TabState
  <2>5. PICK t : Does(t) /\ t = Listed(s, sess)
    BY <1>2, <2>1
  <2>6. View(t, serverRev) /\ Formed(t)
    BY <1>0, <1>1, <2>2, <2>3, <2>4, <2>5, ListedView
  <2> QED
    BY <2>5, <2>6, TurnSees
<1>3. ASSUME NEW revision \in tab.recovery.since..serverRev, revision # tab.rev,
             Does(NextAttempt(Mismatched(tab)))
      PROVE  Sees
  <2>1. Settles(serverRev)
    BY <1>1, <1>3, MismatchIsLast
  <2>2. PICK s : s = Mismatched(tab)
    OBVIOUS
  <2>3. View(s, serverRev) /\ Formed(s)
    BY <1>0, <2>1, <2>2, MismatchedView
  <2>4. s.recovery.phase # "idle"
    BY <1>0, <2>2 DEF Mismatched, Formed
  <2>5. PICK t : Does(t) /\ t = NextAttempt(s)
    BY <1>3, <2>2
  <2>6. View(t, serverRev) /\ Formed(t)
    BY <1>0, <2>3, <2>4, <2>5, NextAttemptView
  <2> QED
    BY <2>5, <2>6, TurnSees
<1> QED
  BY <1>2, <1>3 DEF AnswerList

LEMMA FailRecoverySees ==
  ASSUME ViewInv, FailRecovery
  PROVE  Sees
<1>1. PICK t : Does(t) /\ t = RecoverySettled(tab)
  BY DEF FailRecovery
<1>2. tab.recovery.phase # "idle"
  BY DEF FailRecovery
<1>3. View(t, serverRev) /\ Formed(t)
  BY <1>1, <1>2, ViewKnown, RecoverySettledView
<1> QED
  BY <1>1, <1>3, TurnSees

\* The index is not replaced while the tab recovers from a change of it.
Undisturbed == serverRev' # serverRev => tab.recovery.phase = "idle"

LEMMA InstallSees ==
  ASSUME ViewInv, Install, MaxRevision <= 2 \/ Undisturbed
  PROVE  Sees
<1>0. /\ Viewed(tab) /\ Recovers(tab, serverRev) /\ Exhaustive(tab)
      /\ Fits(tab, tab.req, serverRev) /\ serverRev \in Nat
  BY ViewKnown
<1>1. PICK n : n = serverRev + 1
  OBVIOUS
<1>2. tab' = tab /\ serverRev' = n /\ serverRev < MaxRevision
  BY <1>1 DEF Install
<1>3. tab.recovery.phase = "idle"
  <2>1. CASE MaxRevision <= 2
    BY <1>0, <1>2, <2>1, Numbers DEF Recovers, Settles
  <2>2. CASE Undisturbed
    BY <1>0, <1>1, <1>2, <2>2 DEF Undisturbed
  <2> QED
    BY <2>1, <2>2
<1>4. \A m : m \in 1..serverRev => m \in 1..n
  BY <1>0, <1>1
<1>5. Recovers(tab, n)
  BY <1>0, <1>3, <1>4 DEF Recovers
<1>6. Fits(tab, tab.req, n)
  BY <1>0, <1>3 DEF Fits
<1>7. View(tab, n)
  BY <1>0, <1>5, <1>6 DEF View, Sound
<1> QED
  BY <1>2, <1>7 DEF Sees

LEMMA NextSees ==
  ASSUME ViewInv, [Next]_vars, MaxRevision <= 2 \/ [Undisturbed]_vars
  PROVE  Sees
<1>1. CASE UNCHANGED vars
  BY <1>1, ViewKnown DEF vars, Sees
<1>2. CASE UserActs
  BY <1>2, SelectSessionSees, EditExpressionSees, ChooseFilterSees, LoadMoreSees,
     LoadMoreTargetsSees, NavigateSees, LeaveForProjectSees, ReturnToSessionSees,
     DrillDownSees, RerenderSees, GoToSees DEF UserActs
<1>3. CASE Timers \/ Details
  BY <1>3, FireHighlightSees, FireReloadSees, FireFindSees, ChaseWakesSees, NavWakesSees,
     NavChasesSees, NavDrawsSees, NavLooksSees, NavFinishesSees DEF Timers, Details
<1>4. CASE Network
  BY <1>4, AnswerPageSees, FailPageSees, AnswerBatchSees, FailBatchSees,
     AnswerSuggestionsSees, FailSuggestionsSees, AnswerStateSees, AnswerListSees,
     FailRecoverySees DEF Network
<1>5. CASE Install /\ ~UNCHANGED vars
  BY <1>5, InstallSees
<1> QED
  BY <1>1, <1>2, <1>3, <1>4, <1>5 DEF Next

\* The step of the inductive invariant
LEMMA ViewInvKept ==
  ASSUME ViewInv, [Next]_vars, MaxRevision <= 2 \/ [Undisturbed]_vars
  PROVE  ViewInv'
<1>1. Sees
  BY NextSees
<1>2. TimelineInv'
  BY NextHolds DEF ViewInv, Progress
<1> QED
  BY <1>1, <1>2 DEF ViewInv, Sees

LEMMA InitSees ==
  ASSUME Init
  PROVE  View(tab, serverRev)
<1>1. PICK sess \in Session, e \in Expr : tab = Opened(sess, e)
  BY DEF Init
<1>2. /\ tab.tctx = NoKey /\ tab.events = <<>> /\ tab.rev = 1 /\ tab.sugg = NoSuggestions
      /\ tab.recovery = NoRecovery /\ tab.preload = NoPreload /\ serverRev = 1
  BY <1>1 DEF Opened, Init
<1>3. /\ tab.req.kind = "replace" /\ tab.req.ok /\ tab.req.rev = 1 /\ tab.req.got = <<>>
  BY <1>1 DEF Opened
<1>4. Viewed(tab) /\ Recovers(tab, serverRev) /\ Exhaustive(tab)
  BY <1>2 DEF Viewed, Recovers, Exhaustive, NoRecovery, NoPreload
<1>5. Follows(<<>>, 0, tab.req.key, tab.req.rev)
  BY DEF Follows
<1>6. Fits(tab, tab.req, serverRev)
  BY <1>2, <1>3, <1>5 DEF Fits, NoRecovery
<1> QED
  BY <1>4, <1>6 DEF View, Sound

LEMMA InViewIsPrefix ==
  ASSUME ViewInv
  PROVE  ViewIsPrefix
<1>0. /\ Viewed(tab) /\ tab.rev \in Revs /\ tab.events \in Seq(Event) /\ tab.total \in Nat
      /\ tab.rev \in 1..MaxRevision
  BY ViewKnown DEF TabState, Revs
<1>1. CASE tab.tctx = NoKey
  <2>1. tab.events = <<>>
    BY <1>0, <1>1 DEF Viewed
  <2> QED
    BY <1>1, <2>1 DEF ViewIsPrefix
<1>2. CASE tab.tctx # NoKey
  <2>1. Follows(tab.events, 0, tab.tctx, tab.rev) /\ tab.total = Len(Answered(tab.tctx, tab.rev))
    BY <1>0, <1>2 DEF Viewed
  <2>2. Len(tab.events) \in Nat /\ (tab.events # <<>> => Len(tab.events) > 0)
    BY <1>0
  <2>3. Offset(tab) <= tab.total
    BY <1>0, <2>1, <2>2 DEF Follows, Offset
  <2>4. \A m \in DOMAIN tab.events :
          /\ tab.events[m].key = tab.tctx /\ tab.events[m].rev = tab.rev
          /\ tab.events[m].id = Answered(tab.tctx, tab.rev)[m]
    <3> SUFFICES ASSUME NEW m \in DOMAIN tab.events
                 PROVE  /\ tab.events[m].key = tab.tctx /\ tab.events[m].rev = tab.rev
                        /\ tab.events[m].id = Answered(tab.tctx, tab.rev)[m]
      OBVIOUS
    <3>1. m \in Nat /\ 0 + m = m
      BY <1>0
    <3> QED
      BY <2>1, <3>1 DEF Follows
  <2>5. \A m \in DOMAIN tab.events :
          tab.events[m] = [key |-> tab.events[m].key, rev |-> tab.rev,
                           id |-> Answered(tab.tctx, tab.rev)[m]]
    <3> SUFFICES ASSUME NEW m \in DOMAIN tab.events
                 PROVE  tab.events[m] = [key |-> tab.events[m].key, rev |-> tab.rev,
                                         id |-> Answered(tab.tctx, tab.rev)[m]]
      OBVIOUS
    <3>1. tab.events[m] \in Event
      BY <1>0
    <3> QED
      BY <2>4, <3>1 DEF Event
  <2>6. tab.events = [m \in DOMAIN tab.events |->
                        [key |-> tab.events[m].key, rev |-> tab.rev,
                         id |-> Answered(tab.tctx, tab.rev)[m]]]
    <3>1. PICK e : e = tab.events
      OBVIOUS
    <3>2. e = [m \in DOMAIN e |-> e[m]]
      <4>1. e \in [1..Len(e) -> Event]
        BY <1>0, <3>1
      <4> QED
        BY <4>1
    <3>3. \A m \in DOMAIN e : e[m] = [key |-> e[m].key, rev |-> tab.rev,
                                     id |-> Answered(tab.tctx, tab.rev)[m]]
      BY <2>5, <3>1
    <3> QED
      BY <3>1, <3>2, <3>3
  <2>7. tab.events # <<>> => Len(tab.events) <= Len(Answered(tab.tctx, tab.rev))
    BY <2>1, <2>3 DEF Offset
  <2> QED
    BY <1>0, <2>3, <2>4, <2>6, <2>7 DEF ViewIsPrefix
<1> QED
  BY <1>1, <1>2

LEMMA InViewAllKnown ==
  ASSUME ViewInv
  PROVE  ExhaustedMeansAllKnown
<1> SUFFICES ASSUME tab.preload.exhausted, tab.preload.key = Key(tab), tab.events # <<>>,
                    NEW n \in DOMAIN Answered(Key(tab), tab.events[1].rev),
                    Answered(Key(tab), tab.events[1].rev)[n] \in HitsAt(tab.expr)
             PROVE  Answered(Key(tab), tab.events[1].rev)[n] \in tab.registry.owners
  BY DEF ExhaustedMeansAllKnown
<1>1. Viewed(tab) /\ Found(tab) /\ tab.events \in Seq(Event)
  BY ViewKnown DEF Exhaustive
<1>2. tab.tctx # NoKey /\ 1 \in DOMAIN tab.events
  BY <1>1 DEF Viewed
<1>3. tab.events[1].rev = tab.rev
  BY <1>1, <1>2 DEF Viewed, Follows
<1>4. Answered(Key(tab), tab.rev)[n] \in Hits(Key(tab), tab.rev)
  BY <1>3 DEF Hits, Key
<1> QED
  BY <1>1, <1>3, <1>4 DEF Found

LEMMA ViewInvBegins ==
  ASSUME Init
  PROVE  ViewInv
BY InitHolds, InitSees DEF ViewInv

-----------------------------------------------------------------------------
(* The theorems *)

\* TimelineInv is an inductive invariant of the tab.
THEOREM TimelineInvHolds == Spec => []TimelineInv
<1>1. Init => TimelineInv
  BY InitHolds
<1>2. TimelineInv /\ [Next]_vars => TimelineInv'
  BY NextHolds DEF Progress
<1> QED
  BY <1>1, <1>2, PTL DEF Spec

\* The spinner shows exactly while a request of the timeline is on its way whose
\* answer will be heard, and a search is pending only while the batch is that
\* will end it, whatever requests supersede each other and in whatever order
\* they are aborted, answered or fail (beginTimelineReplacement, updateLoadMore
\* and the finally of each request).
THEOREM FlagsOwnedHolds == Spec => []FlagsOwned
<1>1. TimelineInv => FlagsOwned
  <2> SUFFICES ASSUME TimelineInv
               PROVE  FlagsOwned
    OBVIOUS
  <2>1. tab.scope = "session" => (tab.loading <=> tab.req # NoReq /\ tab.req.latest)
    BY TabTyped DEF Loads
  <2>2. ASSUME tab.preload.pending
        PROVE  /\ tab.inv \in {"preload", "loadMore"}
               /\ tab.req # NoReq /\ tab.req.who = tab.inv /\ tab.req.key = Key(tab)
    <3>1. tab.req \in BatchReq /\ tab.req.who = tab.inv /\ tab.req.key = Key(tab)
          /\ tab.inv # "nav"
      BY <2>2, TabTyped DEF PendsOn
    <3>2. tab.req.who \in Seekers /\ tab.req # NoReq
      BY <3>1, RequestKinds DEF BatchReq, Requests
    <3> QED
      BY <3>1, <3>2 DEF Seekers
  <2> QED
    BY <2>1, <2>2 DEF FlagsOwned
<1> QED
  BY <1>1, TimelineInvHolds, PTL

\* A batch whose pages may still be shown goes on from where the view ends and
\* within its budget, which is the one on record for its search, and where a
\* batch may begin, the timeline it searches is committed
\* (loadTimelineSearchBatch, timelineSearchBatchIsCurrent).
THEOREM BatchDisciplineHolds == Spec => []BatchDiscipline
<1>1. TimelineInv => BatchDiscipline
  <2> SUFFICES ASSUME TimelineInv
               PROVE  BatchDiscipline
    OBVIOUS
  <2>1. ASSUME tab.req.kind = "batch", BatchCurrent(tab, tab.req)
        PROVE  LET b == tab.req.batch
               IN  /\ b.active /\ b.base = Offset(tab) /\ ~AtEnd(b)
                   /\ b.kind = "preload" => b.consumed <= PreloadMaxPages
                   /\ b.kind = "preload" /\ tab.preload.pending =>
                        tab.preload.pages = b.consumed
    <3>1. tab.req \in BatchReq
      BY <2>1, TabTyped, BatchKnown
    <3>2. tab.req.latest
      BY <2>1 DEF BatchCurrent, Current
    <3> QED
      BY <3>1, <3>2, TabTyped DEF Seeks
  <2>2. Ready(tab) => tab.tctx = Key(tab)
    BY TabTyped DEF Ready, Placed
  <2> QED
    BY <2>1, <2>2 DEF BatchDiscipline
<1> QED
  BY <1>1, TimelineInvHolds, PTL

\* What a search has spent on preloading under one key stays spent, until a
\* recovery applies the state of the application anew
\* (state.searchTargetPreload.pages).
THEOREM BudgetKeptHolds == Spec => BudgetKept
<1>1. TimelineInv /\ [Next]_vars =>
        [tab.preload.key = tab'.preload.key /\ tab.recovery.phase # "state"
           => tab.preload.pages <= tab'.preload.pages]_vars
  BY NextHolds DEF Progress, Budget
<1> QED
  BY <1>1, TimelineInvHolds, PTL DEF Spec, BudgetKept

\* While the search is the same, a jump target once found stays, whatever is
\* drawn again, replaced or discovered anew (search-targets.js).
THEOREM TargetsNeverShrinkHolds == Spec => TargetsNeverShrink
<1>1. TimelineInv /\ [Next]_vars =>
        [tab.registry.key = tab'.registry.key /\ Key(tab) = tab.registry.key
           => tab.registry.owners \subseteq tab'.registry.owners]_vars
  BY NextHolds DEF Progress, Targets
<1> QED
  BY <1>1, TimelineInvHolds, PTL DEF Spec, TargetsNeverShrink

\* ViewInv is an inductive invariant of a tab whose recoveries are not disturbed.
THEOREM ViewInvHolds == Spec /\ [][Undisturbed]_vars => []ViewInv
<1>1. Init => ViewInv
  BY ViewInvBegins
<1>2. ViewInv /\ [Next]_vars /\ [Undisturbed]_vars => ViewInv'
  BY ViewInvKept
<1> QED
  BY <1>1, <1>2, PTL DEF Spec

\* The events in view are the beginning of one timeline, of the session and the
\* filter of the committed context and at one revision, and no more than its
\* total, whatever answers come late and whatever is replaced, aborted, retried
\* or preloaded meanwhile, as long as the index is not replaced during a
\* recovery (the checks of loadTimeline, loadTimelineSearchBatch and
\* recoverIndexRevision before each commit).
THEOREM ViewIsPrefixHolds == Spec /\ [][Undisturbed]_vars => []ViewIsPrefix
<1>1. ViewInv => ViewIsPrefix
  BY InViewIsPrefix
<1> QED
  BY <1>1, ViewInvHolds, PTL

\* Once a search says that there are no more hits, all hits of the timeline are
\* among its targets, likewise (loadMoreSearchTargets, search-targets.js).
THEOREM ExhaustedMeansAllKnownHolds ==
  Spec /\ [][Undisturbed]_vars => []ExhaustedMeansAllKnown
<1>1. ViewInv => ExhaustedMeansAllKnown
  BY InViewAllKnown
<1> QED
  BY <1>1, ViewInvHolds, PTL

\* With one change of the index there is no recovery left to disturb: a tab
\* recovers only once it was answered at another revision than its own
\* (acceptRevisionBearingQueryResponse).
THEOREM UndisturbedByOne ==
  ASSUME MaxRevision <= 2
  PROVE  Spec => [][Undisturbed]_vars
<1>1. Init => ViewInv
  BY ViewInvBegins
<1>2. ViewInv /\ [Next]_vars => ViewInv'
  BY ViewInvKept
<1>3. ASSUME ViewInv, [Next]_vars
      PROVE  [Undisturbed]_vars
  <2> SUFFICES ASSUME serverRev' # serverRev
               PROVE  tab.recovery.phase = "idle"
    BY DEF Undisturbed
  <2>0. TimelineInv /\ Recovers(tab, serverRev) /\ serverRev \in Nat
    BY <1>3, ViewKnown
  <2>1. Install
    <3>1. AnswerState => serverRev' = serverRev
      BY DEF AnswerState, Does
    <3>2. Advances => serverRev' = serverRev
      BY DEF Advances
    <3> QED
      BY <1>3, <2>0, <3>1, <3>2, UserActsSteps, TimersSteps, NetworkSteps DEF Next, vars
  <2>2. serverRev < MaxRevision
    BY <2>1 DEF Install
  <2> QED
    BY <2>0, <2>2, Numbers DEF Recovers, Settles
<1>4. ViewInv /\ [Next]_vars => [Undisturbed]_vars
  BY <1>3
<1> QED
  BY <1>1, <1>2, <1>4, PTL DEF Spec
================================================================================
