---------------------------- MODULE SessionCache ----------------------------
(***************************************************************************)
(* The cache of materialized sessions of one index revision, with the byte *)
(* accounting, the access sequence and the two classes of entries of       *)
(* src/src/materialized-session-owner.js.  The owner admits a session only *)
(* when no job of it is left and it is not cached (JobTableSound of module *)
(* Materialization), so an admission never overwrites an entry.            *)
(*                                                                         *)
(* The variable since is a history variable: the true order in which the   *)
(* sessions were last used, which the code only knows through the sequence *)
(* numbers it stores and, at the end of the safe integers, renumbers.      *)
(***************************************************************************)
EXTENDS Integers, FiniteSets, FiniteSetsExt

CONSTANTS
    Session,
    Bytes,             \* estimateMaterializedSessionBytes of each session
    MaxBytes,          \* maxEstimatedMaterializedBytes
    MaxCached,         \* maxCachedSessions
    MaxSafeInteger     \* Number.MAX_SAFE_INTEGER

ASSUME CacheAssumption ==
    /\ IsFiniteSet(Session)
    /\ MaxSafeInteger \in Nat /\ Cardinality(Session) < MaxSafeInteger
    /\ MaxBytes \in 1..MaxSafeInteger /\ MaxCached \in 1..MaxSafeInteger
    /\ Bytes \in [Session -> 1..MaxSafeInteger]

VARIABLES
    entry,            \* owner.cache
    total,            \* owner.estimatedMaterializedBytes
    accessSequence,   \* owner.accessSequence
    retired,          \* owner.retired
    since             \* history: the sessions used since the last use of each

cacheVars == <<entry, total, accessSequence, retired, since>>

Entry == [origin: {"speculative", "foreground"}, last: 1..MaxSafeInteger]
Absent == [origin |-> "none"]

CacheTypeOK ==
    /\ entry \in [Session -> Entry \cup {Absent}]
    /\ total \in 0..MaxSafeInteger
    /\ accessSequence \in 0..MaxSafeInteger
    /\ retired \in BOOLEAN
    /\ since \in [Session -> SUBSET Session]

-----------------------------------------------------------------------------

InCache(e) == {s \in Session : e[s] # Absent}
Cached == InCache(entry)
Speculative == {s \in Session : entry[s].origin = "speculative"}

SumOf(S) == MapThenSumSet(LAMBDA s : Bytes[s], S)

saturatingAdd(a, b) == IF a + b > MaxSafeInteger THEN MaxSafeInteger ELSE a + b

\* Faulty variant: one entry too many.
FitsOneMore(s, count, bytes) == count <= MaxCached /\ Bytes[s] <= MaxBytes - bytes

\* _cacheFits
Fits(s, count, bytes) == count + 1 <= MaxCached /\ Bytes[s] <= MaxBytes - bytes

\* The entries with the sequence number e[s].last replaced by its rank: what
\* _nextAccessSequence does when the numbers are used up.
Renumbered(e) ==
    [s \in Session |->
        IF e[s] = Absent THEN Absent
        ELSE [e[s] EXCEPT !.last =
                Cardinality({x \in InCache(e) : e[x].last <= e[s].last})]]

\* Faulty variant: the numbers stay at the last safe integer.
NextAccessStuck(e) ==
    [entries |-> e,
     sequence |-> IF accessSequence < MaxSafeInteger
                  THEN accessSequence + 1 ELSE MaxSafeInteger]

\* _nextAccessSequence: the entries and the number it leaves behind.
NextAccess(e) ==
    IF accessSequence < MaxSafeInteger
    THEN [entries |-> e, sequence |-> accessSequence + 1]
    ELSE [entries |-> Renumbered(e), sequence |-> Cardinality(InCache(e)) + 1]

\* s is used now.
Using(s) == [x \in Session |-> IF x = s THEN {} ELSE since[x] \cup {s}]

\* The order in which _selectEvictionVictim picks entries: speculative ones
\* first, and within a class the one with the smallest number.
EvictedBefore(s, t) ==
    \/ entry[s].origin = "speculative" /\ entry[t].origin = "foreground"
    \/ entry[s].origin = entry[t].origin /\ entry[s].last < entry[t].last

\* The sets of entries of S that some number of evictions removes ...
VictimSets(S) == {V \in SUBSET S : \A v \in V, t \in S \ V : EvictedBefore(v, t)}

\* ... and those of them that make room for s.
RoomFor(s, S) ==
    {V \in VictimSets(S) :
        Fits(s, Cardinality(Cached) - Cardinality(V), total - SumOf(V))}

Fewest(family) == CHOOSE V \in family : \A W \in family : Cardinality(V) <= Cardinality(W)

-----------------------------------------------------------------------------
(* Operations *)

\* _recordCacheAdmission, after the evictions of V.
Record(s, origin, V) ==
    LET kept == [x \in Session |-> IF x \in V THEN Absent ELSE entry[x]]
        next == NextAccess(kept)
    IN  /\ entry' = [next.entries EXCEPT ![s] =
              [origin |-> origin, last |-> next.sequence]]
        /\ accessSequence' = next.sequence
        /\ total' = saturatingAdd(total - SumOf(V), Bytes[s])
        /\ since' = Using(s)
        /\ UNCHANGED retired

\* get() finds the session: _touchCacheEntry.
Touch(s) ==
    /\ ~retired /\ s \in Cached
    /\ LET next == NextAccess(entry) IN
       /\ entry' = [next.entries EXCEPT ![s] =
             [origin |-> "foreground", last |-> next.sequence]]
       /\ accessSequence' = next.sequence
    /\ since' = Using(s)
    /\ UNCHANGED <<total, retired>>

Oversize(s) == Bytes[s] > MaxBytes

\* _admitCacheEntry for a foreground result.
AdmitForeground(s) ==
    /\ ~retired /\ s \notin Cached /\ ~Oversize(s)
    /\ Record(s, "foreground", Fewest(RoomFor(s, Cached)))

AdmitOversize(s) ==
    /\ ~retired /\ s \notin Cached /\ Oversize(s)
    /\ Record(s, "foreground", Cached)

\* Faulty variant: a speculative result is admitted like any other.
AdmitSpeculativeAnyway(s) ==
    /\ ~retired /\ s \notin Cached /\ ~Oversize(s)
    /\ Record(s, "speculative", Fewest(RoomFor(s, Cached)))

\* _admitCacheEntry for a speculative result; RejectSpeculative is the case
\* that leaves the cache alone.
AdmitSpeculative(s) ==
    /\ ~retired /\ s \notin Cached /\ ~Oversize(s)
    /\ RoomFor(s, Speculative) # {}
    /\ Record(s, "speculative", Fewest(RoomFor(s, Speculative)))

RejectSpeculative(s) ==
    /\ ~retired /\ s \notin Cached
    /\ Oversize(s) \/ RoomFor(s, Speculative) = {}
    /\ UNCHANGED cacheVars

\* retire()
Retire ==
    /\ ~retired
    /\ retired' = TRUE
    /\ entry' = [s \in Session |-> Absent]
    /\ total' = 0
    /\ accessSequence' = 0
    /\ UNCHANGED since

CacheInit ==
    /\ entry = [s \in Session |-> Absent]
    /\ total = 0
    /\ accessSequence = 0
    /\ retired = FALSE
    /\ since = [s \in Session |-> {}]

CacheNext ==
    \/ \E s \in Session :
          \/ Touch(s)
          \/ AdmitForeground(s) \/ AdmitOversize(s)
          \/ AdmitSpeculative(s) \/ RejectSpeculative(s)
    \/ Retire

CacheSpec == CacheInit /\ [][CacheNext]_cacheVars

-----------------------------------------------------------------------------
(* Properties *)

\* The running total, which is only ever added to and subtracted from, is the
\* size of what is cached, and the cache keeps to both limits, but for one
\* foreground session that is larger than the cache and then has it for itself.
WithinLimits ==
    /\ total = SumOf(Cached)
    /\ Cardinality(Cached) <= MaxCached
    /\ total <= MaxBytes \/ \E s \in Session : Cached = {s} /\ s \notin Speculative

MoreRecent(s, t) == s \in since[t]

Evicted == {s \in Cached : entry'[s] = Absent}
Admitted == {s \in Session \ Cached : entry'[s] # Absent}

SparesNoneBefore(v, t) ==
    \/ v \in Speculative /\ entry'[t].origin = "foreground"
    \/ /\ v \in Speculative <=> entry'[t].origin = "speculative"
       /\ t \in Admitted \/ MoreRecent(t, v)

\* An eviction never spares a less deserving entry, nor makes room for one: what
\* stays or comes is of a better class than what goes, or of the same class and
\* really used later, although the numbers that stand for the order of use are
\* given out anew now and then.  Speculation never costs a foreground entry.
EvictsLeastRecent ==
    [][~retired' =>
          \A v \in Evicted, t \in InCache(entry') : SparesNoneBefore(v, t)]_cacheVars

FittedNotWith(s, last) ==
    LET kept == (Cached \ Evicted) \cup {last} IN
    \/ Cardinality(kept) >= MaxCached
    \/ SumOf(kept) + Bytes[s] > MaxBytes

\* Nothing is evicted in vain: with the last of the victims kept, which the
\* numbers must tell from the others, the session that was admitted would not
\* have fitted.
EvictsOnlyAsNeeded ==
    [][~retired' /\ Evicted # {} =>
          \E s \in Admitted, last \in Evicted :
             /\ \A v \in Evicted \ {last} : EvictedBefore(v, last)
             /\ FittedNotWith(s, last)]_cacheVars

=============================================================================
