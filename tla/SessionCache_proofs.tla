-------------------------- MODULE SessionCache_proofs --------------------------
(***************************************************************************)
(* Proofs about SessionCache, for every set of sessions, every size of     *)
(* them and every limit: the running total is the size of what is cached,  *)
(* within both limits, and the evictions are the least deserving ones and  *)
(* no more than are needed, across the renumbering of the entries.         *)
(***************************************************************************)
EXTENDS SessionCache, FiniteSums_proofs

\* The numbers of the entries are below the next one to be given out.
NumbersGivenOut == \A s \in Cached : entry[s].last <= accessSequence

\* The numbers tell any two entries apart, in the order of their last uses.
NumbersTellOrder ==
    \A s, t \in Cached : s # t =>
        /\ entry[s].last # entry[t].last
        /\ entry[t].last < entry[s].last => MoreRecent(s, t)

\* The inductive invariant.
CacheInv == CacheTypeOK /\ WithinLimits /\ NumbersGivenOut /\ NumbersTellOrder

Entries == [Session -> Entry \cup {Absent}]

-----------------------------------------------------------------------------
(* The sum of the sizes *)

\* The model's sum is the one of FiniteSums_proofs.
LEMMA SumOfIs == ASSUME NEW S PROVE SumOf(S) = SumOver(Bytes, S)
BY DEF SumOf, SumOver

\* The assumptions on the constants, as the provers use them.
LEMMA Sizes ==
    /\ IsFiniteSet(Session) /\ Cardinality(Session) \in Nat
    /\ MaxSafeInteger \in Nat /\ Cardinality(Session) < MaxSafeInteger
    /\ MaxBytes \in Nat /\ 1 <= MaxBytes /\ MaxBytes <= MaxSafeInteger
    /\ MaxCached \in Nat /\ 1 <= MaxCached
    /\ Bytes \in [Session -> Nat]
    /\ \A s \in Session : 1 <= Bytes[s] /\ Bytes[s] <= MaxSafeInteger
BY CacheAssumption, FS_CardinalityType DEF CacheAssumption

\* Any set of sessions is finite, and has a size.
LEMMA SetOfSessions ==
    ASSUME NEW S \in SUBSET Session
    PROVE  IsFiniteSet(S) /\ Cardinality(S) \in Nat /\ SumOf(S) \in Nat
<1>1. IsFiniteSet(S)
  BY Sizes, FS_Subset
<1> QED
  BY <1>1, Sizes, FS_CardinalityType, SumNat, SumOfIs

\* Without the part V of S, its count and its size are less by those of V.
LEMMA Without ==
    ASSUME NEW S \in SUBSET Session, NEW V \in SUBSET S
    PROVE  /\ Cardinality(S) = Cardinality(S \ V) + Cardinality(V)
           /\ SumOf(S) = SumOf(S \ V) + SumOf(V)
<1>1. IsFiniteSet(S) /\ IsFiniteSet(V) /\ IsFiniteSet(S \ V)
  BY SetOfSessions
<1>2. S \cap V = V
  OBVIOUS
<1>3. Cardinality(S \ V) = Cardinality(S) - Cardinality(V)
  BY <1>1, <1>2, FS_Difference
<1>4. SumOf(S) = SumOf(V) + SumOf(S \ V)
  BY <1>1, Sizes, SumSplits, SumOfIs
<1>5. PICK a \in Nat, b \in Nat, c \in Nat, d \in Nat, m \in Nat :
          /\ a = Cardinality(S) /\ b = Cardinality(V) /\ m = Cardinality(S \ V)
          /\ c = SumOf(V) /\ d = SumOf(S \ V)
  BY SetOfSessions
<1> QED
  BY <1>3, <1>4, <1>5

\* With one more session s, they are more by 1 and by the size of s.
LEMMA With ==
    ASSUME NEW S \in SUBSET Session, NEW s \in Session, s \notin S
    PROVE  /\ Cardinality(S \cup {s}) = Cardinality(S) + 1
           /\ SumOf(S \cup {s}) = SumOf(S) + Bytes[s]
<1>1. S \cup {s} \in SUBSET Session /\ s \in S \cup {s} /\ (S \cup {s}) \ {s} = S
  OBVIOUS
<1>2. IsFiniteSet(S) /\ IsFiniteSet(S \cup {s})
  BY <1>1, SetOfSessions
<1>3. SumOf(S \cup {s}) = Bytes[s] + SumOf(S)
  BY <1>1, <1>2, Sizes, SumAdds, SumOfIs
<1>4. PICK a \in Nat, b \in Nat : a = SumOf(S) /\ b = Bytes[s]
  BY SetOfSessions, Sizes
<1> QED
  BY <1>2, <1>3, <1>4, FS_AddElement

\* A set without elements counts for nothing.
LEMMA Nothing == Cardinality({}) = 0 /\ SumOf({}) = 0
BY FS_EmptySet, SumEmpty, SumOfIs

-----------------------------------------------------------------------------
(* The numbers of the entries *)

\* What NextAccess does to entries e whose numbers have been given out: it
\* leaves their classes and their order, and its number is above theirs.
LEMMA NextAccessOrders ==
    ASSUME NEW e \in Entries, accessSequence \in 0..MaxSafeInteger,
           \A s \in InCache(e) : e[s].last <= accessSequence
    PROVE  LET n == NextAccess(e) IN
           /\ n.entries \in Entries
           /\ n.sequence \in 1..MaxSafeInteger
           /\ InCache(n.entries) = InCache(e)
           /\ \A s \in InCache(e) :
                 /\ n.entries[s].origin = e[s].origin
                 /\ n.entries[s].last < n.sequence
                 /\ \A t \in InCache(e) :
                       n.entries[s].last < n.entries[t].last <=> e[s].last < e[t].last
<1>1. InCache(e) \in SUBSET Session
  BY DEF InCache
<1>2. \A s \in InCache(e) : /\ e[s] \in Entry
                            /\ e[s].last \in Nat /\ 1 <= e[s].last
                            /\ e[s].last <= MaxSafeInteger
  BY Sizes DEF InCache, Entries, Entry
<1>3. CASE accessSequence < MaxSafeInteger
  <2>1. NextAccess(e) = [entries |-> e, sequence |-> accessSequence + 1]
    BY <1>3 DEF NextAccess
  <2>2. PICK k \in Nat : k = accessSequence /\ k + 1 \in 1..MaxSafeInteger
    BY <1>3, Sizes
  <2> QED
    BY <1>2, <2>1, <2>2
<1>4. CASE ~(accessSequence < MaxSafeInteger)
  <2> DEFINE upto(s) == {x \in InCache(e) : e[x].last <= e[s].last}
             rank(s) == Cardinality(upto(s))
             count == Cardinality(InCache(e))
  <2>1. count \in Nat /\ count <= Cardinality(Session)
    BY <1>1, Sizes, FS_Subset, SetOfSessions
  <2>2. \A s \in InCache(e) : /\ upto(s) \in SUBSET InCache(e)
                              /\ s \in upto(s)
    BY <1>2
  <2>3. ASSUME NEW s \in InCache(e)
        PROVE  rank(s) \in Nat /\ 1 <= rank(s) /\ rank(s) <= count
    <3>1. upto(s) \in SUBSET Session /\ upto(s) # {}
      BY <1>1, <2>2
    <3>2. rank(s) \in Nat /\ rank(s) # 0
      <4> HIDE DEF upto
      <4> QED
        BY <3>1, SetOfSessions, FS_EmptySet
    <3>3. rank(s) <= count
      <4> HIDE DEF upto
      <4> QED
        BY <1>1, <2>2, SetOfSessions, FS_Subset
    <3> QED
      BY <3>2, <3>3
  <2>4. ASSUME NEW s \in InCache(e), NEW t \in InCache(e), e[s].last < e[t].last
        PROVE  rank(s) < rank(t)
    <3>1. upto(s) \in SUBSET upto(t) /\ t \in upto(t) /\ t \notin upto(s)
      BY <1>2, <2>2, <2>4
    <3>2. IsFiniteSet(upto(t))
      BY <1>1, <2>2, SetOfSessions
    <3>3. rank(s) <= rank(t) /\ rank(s) # rank(t)
      <4> HIDE DEF upto
      <4> QED
        BY <3>1, <3>2, FS_Subset
    <3> QED
      BY <2>3, <3>3
  <2>5. ASSUME NEW s \in InCache(e), NEW t \in InCache(e), ~(e[s].last < e[t].last)
        PROVE  ~(rank(s) < rank(t))
    <3>1. CASE e[s].last = e[t].last
      <4>1. rank(s) = rank(t)
        BY <3>1
      <4> HIDE DEF rank
      <4> QED
        BY <2>3, <4>1
    <3>2. CASE e[t].last < e[s].last
      <4>1. rank(t) < rank(s)
        BY <3>2, <2>4
      <4> HIDE DEF rank
      <4> QED
        BY <2>3, <4>1
    <3> QED
      BY <1>2, <2>5, <3>1, <3>2
  <2>6. NextAccess(e) = [entries |-> Renumbered(e), sequence |-> count + 1]
    BY <1>4 DEF NextAccess
  <2>7. \A s \in Session :
            Renumbered(e)[s] = IF e[s] = Absent THEN Absent
                               ELSE [e[s] EXCEPT !.last = rank(s)]
    BY DEF Renumbered
  <2>8. \A s \in InCache(e) : /\ e[s] # Absent
                              /\ Renumbered(e)[s].origin = e[s].origin
                              /\ Renumbered(e)[s].last = rank(s)
                              /\ Renumbered(e)[s] = [origin |-> e[s].origin, last |-> rank(s)]
    <3> HIDE DEF rank
    <3> QED
      BY <1>1, <1>2, <2>7 DEF InCache, Entry
  <2>9. \A s \in InCache(e) : Renumbered(e)[s] \in Entry /\ Renumbered(e)[s] # Absent
    <3>1. \A s \in InCache(e) : rank(s) \in 1..MaxSafeInteger
      <4> HIDE DEF rank
      <4> QED
        BY <2>1, <2>3, Sizes
    <3>2. \A s \in InCache(e) : e[s].origin \in {"speculative", "foreground"}
      BY <1>2 DEF Entry
    <3> HIDE DEF rank
    <3>3. ASSUME NEW s \in InCache(e)
          PROVE  Renumbered(e)[s] \in Entry
      <4>1. [origin |-> e[s].origin, last |-> rank(s)] \in Entry
        BY <3>1, <3>2 DEF Entry
      <4> QED
        BY <2>8, <4>1
    <3>4. Absent.origin = "none"
      BY DEF Absent
    <3>5. \A s \in InCache(e) : Renumbered(e)[s].origin # "none"
      BY <2>8, <3>2
    <3> QED
      BY <3>3, <3>4, <3>5
  <2>10. \A s \in Session \ InCache(e) : Renumbered(e)[s] = Absent
    BY <2>7 DEF InCache
  <2>11. Renumbered(e) \in Entries
    <3>1. \A s \in Session : Renumbered(e)[s] \in Entry \cup {Absent}
      BY <2>9, <2>10
    <3>2. Renumbered(e) = [s \in Session |-> Renumbered(e)[s]]
      BY DEF Renumbered
    <3> QED
      BY <3>1, <3>2 DEF Entries
  <2>12. InCache(Renumbered(e)) = InCache(e)
    BY <1>1, <2>9, <2>10 DEF InCache
  <2>13. count + 1 \in 1..MaxSafeInteger
    <3> HIDE DEF count
    <3> QED
      BY <2>1, Sizes
  <2>14. \A s \in InCache(e) : rank(s) < count + 1
    <3> HIDE DEF count, rank
    <3> QED
      BY <2>1, <2>3
  <2> HIDE DEF rank, count
  <2>15. \A s, t \in InCache(e) : rank(s) < rank(t) <=> e[s].last < e[t].last
    BY <2>4, <2>5
  <2>16. \A s, t \in InCache(e) :
            Renumbered(e)[s].last < Renumbered(e)[t].last <=> e[s].last < e[t].last
    BY <2>8, <2>15
  <2>17. \A s \in InCache(e) : Renumbered(e)[s].last < count + 1
    BY <2>8, <2>14
  <2>18. NextAccess(e).entries = Renumbered(e) /\ NextAccess(e).sequence = count + 1
    BY <2>6
  <2>19. \A s \in InCache(e) : Renumbered(e)[s].origin = e[s].origin
    BY <2>8
  <2> HIDE DEF NextAccess
  <2> QED
    BY <2>11, <2>12, <2>13, <2>16, <2>17, <2>18, <2>19
<1> QED
  BY <1>3, <1>4

\* The entries e are in use, s last: get() finds it, or it is admitted.
Uses(e, s, origin) ==
    LET next == NextAccess(e) IN
    /\ entry' = [next.entries EXCEPT ![s] = [origin |-> origin, last |-> next.sequence]]
    /\ accessSequence' = next.sequence
    /\ since' = Using(s)

\* What such a step leaves: the session s and the entries but for those of V.
Left(V, s) == (Cached \ V) \cup {s}

\* A use of s keeps the numbers in order, and the classes of the other entries.
LEMMA UseKeepsOrder ==
    ASSUME CacheTypeOK, NumbersGivenOut, NumbersTellOrder,
           NEW s \in Session, NEW origin \in {"speculative", "foreground"},
           NEW V \in SUBSET Session, NEW e,
           e = [x \in Session |-> IF x \in V THEN Absent ELSE entry[x]],
           Uses(e, s, origin)
    PROVE  /\ entry' \in Entries
           /\ accessSequence' \in 0..MaxSafeInteger
           /\ since' \in [Session -> SUBSET Session]
           /\ NumbersGivenOut' /\ NumbersTellOrder'
           /\ Cached' = Left(V, s)
           /\ entry'[s].origin = origin
           /\ \A x \in Left(V, s) \ {s} : entry'[x].origin = entry[x].origin
<1> DEFINE n == NextAccess(e)
<1>1. /\ \A x \in Session : e[x] = IF x \in V THEN Absent ELSE entry[x]
      /\ e \in Entries
  BY DEF CacheTypeOK, Entries
<1>2. InCache(e) = Cached \ V /\ Cached \in SUBSET Session
  BY <1>1 DEF InCache, Cached
<1>3. \A x \in InCache(e) : e[x] = entry[x] /\ e[x].last <= accessSequence
  BY <1>1, <1>2 DEF NumbersGivenOut
<1>4. /\ n.entries \in Entries
      /\ n.sequence \in 1..MaxSafeInteger
      /\ InCache(n.entries) = InCache(e)
      /\ \A x \in InCache(e) :
            /\ n.entries[x].origin = e[x].origin
            /\ n.entries[x].last < n.sequence
            /\ \A y \in InCache(e) :
                  n.entries[x].last < n.entries[y].last <=> e[x].last < e[y].last
  BY <1>1, <1>3, NextAccessOrders DEF CacheTypeOK
<1>5. /\ entry' = [n.entries EXCEPT ![s] = [origin |-> origin, last |-> n.sequence]]
      /\ accessSequence' = n.sequence
      /\ since' = Using(s)
  BY DEF Uses
<1> HIDE DEF n
<1> DEFINE new == [origin |-> origin, last |-> n.sequence]
<1>6. new \in Entry /\ new # Absent /\ new.origin = origin /\ new.last = n.sequence
  <2>1. new.origin = origin /\ new.last = n.sequence
    OBVIOUS
  <2>2. Absent.origin = "none"
    BY DEF Absent
  <2>3. new \in Entry
    BY <1>4 DEF Entry
  <2> QED
    BY <2>1, <2>2, <2>3
<1>7. /\ entry'[s] = new
      /\ \A x \in Session \ {s} : entry'[x] = n.entries[x]
      /\ entry' \in Entries
  <2> HIDE DEF new
  <2>1. entry' = [n.entries EXCEPT ![s] = new]
    BY <1>5 DEF new
  <2> QED
    BY <1>4, <1>6, <2>1 DEF Entries
<1> HIDE DEF new
<1>8. Cached' = Left(V, s)
  BY <1>2, <1>4, <1>6, <1>7 DEF Cached, InCache, Left
<1>9. \A x \in Left(V, s) \ {s} : /\ x \in InCache(e) /\ x \in Cached /\ x \in Session
                                /\ entry'[x] = n.entries[x]
                                /\ e[x] = entry[x]
  BY <1>2, <1>3, <1>7 DEF Left
<1>10. since' \in [Session -> SUBSET Session]
       /\ \A x \in Session : since'[x] = IF x = s THEN {} ELSE since[x] \cup {s}
  BY <1>5 DEF Using, CacheTypeOK
<1>11. accessSequence' \in 0..MaxSafeInteger
  BY <1>4, <1>5
<1>12. /\ \A x \in Left(V, s) : entry'[x].last \in Int
       /\ \A x \in Left(V, s) \ {s} : entry'[x].last < n.sequence
       /\ n.sequence \in Int
  <2>1. \A x \in Left(V, s) : entry'[x] \in Entry
    BY <1>2, <1>7, <1>8 DEF Cached, InCache, Entries
  <2>2. \A x \in Left(V, s) : entry'[x].last \in Int
    BY <2>1, Sizes DEF Entry
  <2> QED
    BY <1>4, <1>9, <2>2
<1>13. NumbersGivenOut'
  <2>1. \A x \in Left(V, s) : entry'[x].last <= accessSequence'
    BY <1>5, <1>6, <1>7, <1>12
  <2> QED
    BY <1>8, <2>1 DEF NumbersGivenOut
<1>14. NumbersTellOrder'
  <2>1. ASSUME NEW x \in Left(V, s), NEW y \in Left(V, s), x # y
        PROVE  /\ entry'[x].last # entry'[y].last
               /\ entry'[y].last < entry'[x].last => x \in since'[y]
    <3>1. CASE x = s
      BY <1>6, <1>7, <1>9, <1>10, <1>12, <2>1, <3>1
    <3>2. CASE y = s
      BY <1>6, <1>7, <1>9, <1>12, <2>1, <3>2
    <3>3. CASE x # s /\ y # s
      <4>1. /\ entry[x].last # entry[y].last
            /\ entry[y].last < entry[x].last => x \in since[y]
        BY <1>9, <2>1, <3>3 DEF NumbersTellOrder, MoreRecent
      <4>2. /\ entry'[x].last < entry'[y].last <=> entry[x].last < entry[y].last
            /\ entry'[y].last < entry'[x].last <=> entry[y].last < entry[x].last
        BY <1>4, <1>9, <3>3
      <4>3. entry[x].last \in Int /\ entry[y].last \in Int
        <5>1. entry[x] \in Entry /\ entry[y] \in Entry
          BY <1>9, <2>1, <3>3 DEF Cached, InCache, CacheTypeOK
        <5> QED
          BY <5>1, Sizes DEF Entry
      <4> QED
        BY <1>9, <1>10, <1>12, <3>3, <4>1, <4>2, <4>3
    <3> QED
      BY <3>1, <3>2, <3>3
  <2> QED
    BY <1>8, <2>1 DEF NumbersTellOrder, MoreRecent
<1>15. \A x \in Left(V, s) \ {s} : entry'[x].origin = entry[x].origin
  BY <1>4, <1>9
<1> QED
  BY <1>6, <1>7, <1>8, <1>10, <1>11, <1>13, <1>14, <1>15

-----------------------------------------------------------------------------
(* The victims *)

\* What CacheTypeOK says of an entry that is cached.
LEMMA CachedEntries ==
    ASSUME CacheTypeOK
    PROVE  /\ Cached \in SUBSET Session
           /\ \A x \in Cached : /\ entry[x] \in Entry
                                /\ entry[x].origin \in {"speculative", "foreground"}
                                /\ entry[x].last \in 1..MaxSafeInteger
           /\ Speculative = {x \in Cached : entry[x].origin = "speculative"}
<1>1. \A x \in Cached : x \in Session /\ entry[x] \in Entry
  BY DEF CacheTypeOK, Cached, InCache
<1>2. \A x \in Cached : /\ entry[x].origin \in {"speculative", "foreground"}
                        /\ entry[x].last \in 1..MaxSafeInteger
  BY <1>1 DEF Entry
<1>3. \A x \in Session \ Cached : entry[x].origin = "none"
  BY DEF Cached, InCache, Absent
<1> QED
  BY <1>1, <1>2, <1>3 DEF Speculative

\* Some entry of a class has the largest number.
LEMMA LargestNumber ==
    ASSUME CacheTypeOK, NEW U \in SUBSET Cached, U # {}
    PROVE  \E u \in U : \A x \in U : entry[x].last <= entry[u].last
<1> DEFINE T == {MaxSafeInteger - entry[u].last : u \in U}
<1>1. \A u \in U : entry[u].last \in 1..MaxSafeInteger
  BY CachedEntries
<1>2. \A u \in U : entry[u].last \in Nat /\ MaxSafeInteger - entry[u].last \in Nat
  BY <1>1, Sizes
<1>3. T \in SUBSET Nat /\ T # {}
  BY <1>2
<1>4. \E m \in T : \A k \in T : m <= k
  <2> HIDE DEF T
  <2> QED
    BY <1>3, SmallestNumber
<1>5. PICK u \in U : \A x \in U : MaxSafeInteger - entry[u].last <= MaxSafeInteger - entry[x].last
  BY <1>4
<1>6. \A x \in U : entry[x].last <= entry[u].last
  BY <1>2, <1>5, Sizes
<1> QED
  BY <1>6

\* Of some entries one is evicted last.
LEMMA LastVictim ==
    ASSUME CacheTypeOK, NumbersTellOrder, NEW V \in SUBSET Cached, V # {}
    PROVE  \E last \in V : \A v \in V \ {last} : EvictedBefore(v, last)
<1> DEFINE F == {v \in V : entry[v].origin = "foreground"}
           U == IF F # {} THEN F ELSE V
<1>1. U \in SUBSET Cached /\ U \subseteq V /\ U # {}
  OBVIOUS
<1>2. PICK u \in U : \A x \in U : entry[x].last <= entry[u].last
  <2> HIDE DEF U
  <2> QED
    BY <1>1, LargestNumber
<1>3. \A v \in V : /\ entry[v].origin \in {"speculative", "foreground"}
                   /\ entry[v].last \in 1..MaxSafeInteger
  BY CachedEntries
<1>4. \A v \in V : entry[v].last \in Nat
  BY <1>3, Sizes
<1>5. ASSUME NEW v \in V \ {u}, v \in U
      PROVE  EvictedBefore(v, u)
  <2>1. entry[v].origin = entry[u].origin
    BY <1>3, <1>5
  <2>2. entry[v].last < entry[u].last
    BY <1>1, <1>2, <1>4, <1>5 DEF NumbersTellOrder
  <2> QED
    BY <2>1, <2>2 DEF EvictedBefore
<1>6. ASSUME NEW v \in V \ {u}, v \notin U
      PROVE  EvictedBefore(v, u)
  BY <1>3, <1>6 DEF EvictedBefore
<1> QED
  BY <1>1, <1>5, <1>6

\* A family of sets of sessions has a member with the fewest of them.
LEMMA FewestIs ==
    ASSUME NEW family \in SUBSET (SUBSET Session), family # {}
    PROVE  /\ Fewest(family) \in family
           /\ \A W \in family : Cardinality(Fewest(family)) <= Cardinality(W)
<1> DEFINE T == {Cardinality(V) : V \in family}
<1>1. T \in SUBSET Nat /\ T # {}
  BY SetOfSessions
<1>2. \E m \in T : \A k \in T : m <= k
  <2> HIDE DEF T
  <2> QED
    BY <1>1, SmallestNumber
<1>3. \E V \in family : \A W \in family : Cardinality(V) <= Cardinality(W)
  BY <1>2
<1> QED
  BY <1>3 DEF Fewest

-----------------------------------------------------------------------------
(* Admissions *)

\* The count and the size of what is left when s comes for the entries of V.
LEMMA LeftCounts ==
    ASSUME CacheTypeOK, NEW s \in Session \ Cached, NEW V \in SUBSET Cached
    PROVE  /\ Left(V, s) \in SUBSET Session
           /\ Cardinality(Left(V, s)) = Cardinality(Cached) - Cardinality(V) + 1
           /\ SumOf(Left(V, s)) = SumOf(Cached) - SumOf(V) + Bytes[s]
<1>1. Cached \in SUBSET Session /\ V \in SUBSET Session /\ Cached \ V \in SUBSET Session
  BY CachedEntries
<1>2. /\ Cardinality(Cached) = Cardinality(Cached \ V) + Cardinality(V)
      /\ SumOf(Cached) = SumOf(Cached \ V) + SumOf(V)
  BY <1>1, Without
<1>3. /\ Cardinality(Left(V, s)) = Cardinality(Cached \ V) + 1
      /\ SumOf(Left(V, s)) = SumOf(Cached \ V) + Bytes[s]
  BY <1>1, With DEF Left
<1>4. PICK a \in Nat, b \in Nat, c \in Nat, d \in Nat, m \in Nat :
          /\ a = Cardinality(Cached \ V) /\ b = Cardinality(V)
          /\ c = SumOf(Cached \ V) /\ d = SumOf(V) /\ m = Bytes[s]
  BY <1>1, SetOfSessions, Sizes
<1> QED
  BY <1>1, <1>2, <1>3, <1>4 DEF Left

\* What a recorded admission does, when the sum of the sizes is a safe integer.
LEMMA Admits ==
    ASSUME CacheInv, NEW s \in Session \ Cached,
           NEW origin \in {"speculative", "foreground"},
           NEW V \in SUBSET Cached, Record(s, origin, V),
           SumOf(Left(V, s)) <= MaxSafeInteger
    PROVE  /\ CacheTypeOK' /\ NumbersGivenOut' /\ NumbersTellOrder'
           /\ Cached' = Left(V, s) /\ total' = SumOf(Left(V, s))
           /\ Evicted = V /\ Admitted = {s}
           /\ entry'[s].origin = origin
           /\ \A x \in Left(V, s) \ {s} : entry'[x].origin = entry[x].origin
<1> DEFINE e == [x \in Session |-> IF x \in V THEN Absent ELSE entry[x]]
<1>1. CacheTypeOK /\ NumbersGivenOut /\ NumbersTellOrder /\ total = SumOf(Cached)
  BY DEF CacheInv, WithinLimits
<1>2. s \in Session /\ V \in SUBSET Session /\ Cached \in SUBSET Session
  BY <1>1, CachedEntries
<1>3. Uses(e, s, origin) /\ total' = saturatingAdd(total - SumOf(V), Bytes[s])
      /\ retired' = retired
  BY DEF Record, Uses
<1>4. /\ entry' \in Entries
      /\ accessSequence' \in 0..MaxSafeInteger
      /\ since' \in [Session -> SUBSET Session]
      /\ NumbersGivenOut' /\ NumbersTellOrder'
      /\ Cached' = Left(V, s)
      /\ entry'[s].origin = origin
      /\ \A x \in Left(V, s) \ {s} : entry'[x].origin = entry[x].origin
  <2>1. e = [x \in Session |-> IF x \in V THEN Absent ELSE entry[x]]
    OBVIOUS
  <2> HIDE DEF e
  <2> QED
    BY <1>1, <1>2, <1>3, <2>1, UseKeepsOrder
<1>5. total' = SumOf(Left(V, s)) /\ total' \in 0..MaxSafeInteger
  <2>1. SumOf(Left(V, s)) = SumOf(Cached) - SumOf(V) + Bytes[s]
    BY <1>1, LeftCounts
  <2>2. PICK a \in Nat, b \in Nat, c \in Nat, k \in Nat, m \in Nat :
            /\ a = SumOf(Left(V, s)) /\ b = SumOf(Cached) /\ c = SumOf(V)
            /\ m = Bytes[s] /\ k = MaxSafeInteger
    <3>1. Left(V, s) \in SUBSET Session
      BY <1>2 DEF Left
    <3> QED
      BY <1>2, <3>1, SetOfSessions, Sizes
  <2> QED
    BY <1>1, <1>3, <2>1, <2>2 DEF saturatingAdd
<1>6. Evicted = V /\ Admitted = {s}
  <2>1. \A x \in Session : entry'[x] # Absent <=> x \in Left(V, s)
    BY <1>2, <1>4 DEF Cached, InCache, Left
  <2>2. s \notin Cached /\ V \subseteq Cached
    OBVIOUS
  <2>3. \A x \in Session : entry'[x] # Absent <=> x = s \/ (x \in Cached /\ x \notin V)
    BY <2>1 DEF Left
  <2>4. Evicted \subseteq V /\ V \subseteq Evicted
    BY <1>2, <2>2, <2>3 DEF Evicted
  <2>5. Admitted \subseteq {s} /\ s \in Admitted
    BY <1>2, <2>2, <2>3 DEF Admitted
  <2> QED
    BY <2>4, <2>5
<1>7. CacheTypeOK'
  BY <1>1, <1>3, <1>4, <1>5 DEF CacheTypeOK, Entries
<1> QED
  BY <1>4, <1>5, <1>6, <1>7

\* The two properties of evictions, of one step.
SparesNoLesser == \A v \in Evicted, t \in InCache(entry') : SparesNoneBefore(v, t)

NoneInVain ==
    Evicted # {} =>
       \E s \in Admitted, last \in Evicted :
          /\ \A v \in Evicted \ {last} : EvictedBefore(v, last)
          /\ FittedNotWith(s, last)

\* An admission for which the entries of S may go, and the fewest that make
\* room do, keeps the invariant and both properties of evictions.
LEMMA AdmitsWithRoom ==
    ASSUME CacheInv, NEW s \in Session \ Cached, NEW S, NEW origin,
           \/ S = Cached /\ origin = "foreground"
           \/ S = Speculative /\ origin = "speculative",
           RoomFor(s, S) # {}, Record(s, origin, Fewest(RoomFor(s, S)))
    PROVE  CacheInv' /\ SparesNoLesser /\ NoneInVain
<1> DEFINE V == Fewest(RoomFor(s, S))
<1>1. /\ CacheTypeOK /\ NumbersTellOrder /\ total = SumOf(Cached)
      /\ Cached \in SUBSET Session /\ S \in SUBSET Cached
      /\ origin \in {"speculative", "foreground"}
  BY CachedEntries DEF CacheInv, WithinLimits
<1>2. RoomFor(s, S) \in SUBSET (SUBSET Session)
  BY <1>1 DEF RoomFor, VictimSets
<1>3. /\ V \in RoomFor(s, S)
      /\ \A W \in RoomFor(s, S) : Cardinality(V) <= Cardinality(W)
  BY <1>2, FewestIs
<1> HIDE DEF V
<1>4. /\ V \in SUBSET S
      /\ \A v \in V, t \in S \ V : EvictedBefore(v, t)
      /\ Cardinality(Cached) - Cardinality(V) + 1 <= MaxCached
      /\ Bytes[s] <= MaxBytes - (total - SumOf(V))
  BY <1>3 DEF RoomFor, VictimSets, Fits
<1>5. PICK a \in Nat, b \in Nat, c \in Nat, d \in Nat, m \in Nat :
          /\ a = Cardinality(Cached) /\ b = Cardinality(V)
          /\ c = SumOf(Cached) /\ d = SumOf(V) /\ m = Bytes[s]
  BY <1>1, <1>4, SetOfSessions, Sizes
<1>6. /\ Cardinality(Left(V, s)) <= MaxCached
      /\ SumOf(Left(V, s)) <= MaxBytes
      /\ SumOf(Left(V, s)) <= MaxSafeInteger
  <2>1. /\ Cardinality(Left(V, s)) = Cardinality(Cached) - Cardinality(V) + 1
        /\ SumOf(Left(V, s)) = SumOf(Cached) - SumOf(V) + Bytes[s]
    BY <1>1, <1>4, LeftCounts
  <2> QED
    BY <1>1, <1>4, <1>5, <2>1, Sizes
<1>7. /\ CacheTypeOK' /\ NumbersGivenOut' /\ NumbersTellOrder'
      /\ Cached' = Left(V, s) /\ total' = SumOf(Left(V, s))
      /\ Evicted = V /\ Admitted = {s}
      /\ entry'[s].origin = origin
      /\ \A x \in Left(V, s) \ {s} : entry'[x].origin = entry[x].origin
  BY <1>1, <1>4, <1>6, Admits DEF V
<1>8. CacheInv'
  <2>1. SumOf(Cached)' = SumOf(Left(V, s))
    BY <1>7
  <2>2. WithinLimits'
    BY <1>6, <1>7, <2>1 DEF WithinLimits
  <2> QED
    BY <1>7, <2>2 DEF CacheInv
<1>9. SparesNoLesser
  <2>1. InCache(entry') = Left(V, s)
    BY <1>7 DEF Cached
  <2>2. /\ \A v \in Cached : v \in Session
                             /\ entry[v].origin \in {"speculative", "foreground"}
                             /\ entry[v].last \in 1..MaxSafeInteger
        /\ \A v \in Cached : v \in Speculative <=> entry[v].origin = "speculative"
    BY <1>1, CachedEntries
  <2>3. ASSUME NEW v \in V
        PROVE  SparesNoneBefore(v, s)
    <3>1. v \in Speculative => origin \in {"foreground", "speculative"}
      BY <1>1
    <3>2. v \notin Speculative => origin = "foreground"
      BY <1>1, <1>4
    <3> QED
      BY <1>1, <1>7, <3>1, <3>2 DEF SparesNoneBefore
  <2>4. ASSUME NEW v \in V, NEW t \in Cached \ V
        PROVE  SparesNoneBefore(v, t)
    <3>1. v \in Cached /\ v # t /\ entry'[t].origin = entry[t].origin
      BY <1>1, <1>4, <1>7 DEF Left
    <3>2. CASE t \notin S
      BY <1>1, <1>4, <2>2, <3>1, <3>2 DEF SparesNoneBefore
    <3>3. CASE t \in S
      <4>1. EvictedBefore(v, t)
        BY <1>4, <3>3
      <4>2. CASE entry[v].origin = "speculative" /\ entry[t].origin = "foreground"
        BY <2>2, <3>1, <4>2 DEF SparesNoneBefore
      <4>3. CASE entry[v].origin = entry[t].origin /\ entry[v].last < entry[t].last
        <5>1. MoreRecent(t, v)
          BY <1>1, <3>1, <4>3 DEF NumbersTellOrder
        <5> QED
          BY <2>2, <3>1, <4>3, <5>1 DEF SparesNoneBefore
      <4> QED
        BY <4>1, <4>2, <4>3 DEF EvictedBefore
    <3> QED
      BY <3>2, <3>3
  <2> QED
    BY <1>7, <2>1, <2>3, <2>4 DEF SparesNoLesser, Left
<1>10. NoneInVain
  <2>1. SUFFICES ASSUME V # {} PROVE NoneInVain
    BY <1>7 DEF NoneInVain
  <2>2. PICK last \in V : \A v \in V \ {last} : EvictedBefore(v, last)
    BY <1>1, <1>4, <2>1, LastVictim
  <2> DEFINE W == V \ {last}
             kept == (Cached \ V) \cup {last}
  <2>3. W \in VictimSets(S)
    BY <1>4, <2>2 DEF VictimSets
  <2>4. Cardinality(W) + 1 = Cardinality(V) /\ SumOf(W) + SumOf({last}) = SumOf(V)
        /\ Cardinality(W) \in Nat /\ SumOf(W) \in Nat
    <3>1. V \in SUBSET Session /\ {last} \in SUBSET V /\ W \in SUBSET Session
      BY <1>1, <1>4
    <3>2. Cardinality({last}) = 1
      BY FS_Singleton
    <3> QED
      BY <3>1, <3>2, SetOfSessions, Without
  <2>5. ~Fits(s, Cardinality(Cached) - Cardinality(W), total - SumOf(W))
    <3>1. ~(Cardinality(V) <= Cardinality(W))
      <4> HIDE DEF W
      <4> QED
        BY <1>5, <2>4
    <3>2. W \notin RoomFor(s, S)
      BY <1>3, <3>1
    <3> HIDE DEF W
    <3> QED
      BY <2>3, <3>2 DEF RoomFor
  <2>6. /\ Cardinality(kept) = Cardinality(Cached) - Cardinality(W)
        /\ SumOf(kept) = SumOf(Cached) - SumOf(W)
    <3>1. kept = Cached \ W /\ W \in SUBSET Cached /\ kept \in SUBSET Session
      BY <1>1, <1>4
    <3>2. /\ Cardinality(Cached) = Cardinality(kept) + Cardinality(W)
          /\ SumOf(Cached) = SumOf(kept) + SumOf(W)
      <4> HIDE DEF kept, W
      <4> QED
        BY <1>1, <3>1, Without
    <3>3. Cardinality(kept) \in Nat /\ SumOf(kept) \in Nat
      <4> HIDE DEF kept
      <4> QED
        BY <3>1, SetOfSessions
    <3> HIDE DEF kept, W
    <3> QED
      BY <1>5, <2>4, <3>2, <3>3
  <2>7. Cardinality(kept) >= MaxCached \/ SumOf(kept) + Bytes[s] > MaxBytes
    <3>1. Cardinality(kept) \in Int /\ SumOf(kept) \in Int
      <4> HIDE DEF kept, W
      <4> QED
        BY <1>5, <2>4, <2>6
    <3>2. \/ ~(Cardinality(kept) + 1 <= MaxCached)
          \/ ~(Bytes[s] <= MaxBytes - SumOf(kept))
      <4> HIDE DEF kept, W
      <4> QED
        BY <1>1, <2>5, <2>6 DEF Fits
    <3> HIDE DEF kept, W
    <3> QED
      BY <1>5, <3>1, <3>2, Sizes
  <2>8. FittedNotWith(s, last)
    <3>1. kept = (Cached \ Evicted) \cup {last}
      BY <1>7
    <3> HIDE DEF kept
    <3> QED
      BY <2>7, <3>1 DEF FittedNotWith
  <2> QED
    BY <1>7, <2>2, <2>8 DEF NoneInVain
<1> QED
  BY <1>8, <1>9, <1>10

-----------------------------------------------------------------------------
(* The invariant *)

\* The empty cache.
LEMMA CacheInitInv == ASSUME CacheInit PROVE CacheInv
<1>1. Cached = {}
  BY DEF CacheInit, Cached, InCache
<1>2. CacheTypeOK
  <2>1. entry \in [Session -> Entry \cup {Absent}]
    BY DEF CacheInit
  <2>2. since \in [Session -> SUBSET Session]
    BY DEF CacheInit
  <2>3. 0 \in 0..MaxSafeInteger
    BY Sizes
  <2> QED
    BY <2>1, <2>2, <2>3 DEF CacheInit, CacheTypeOK
<1>3. WithinLimits
  BY <1>1, Nothing, Sizes DEF CacheInit, WithinLimits
<1> QED
  BY <1>1, <1>2, <1>3 DEF CacheInv, NumbersGivenOut, NumbersTellOrder

\* A hit evicts nothing.
LEMMA TouchStep ==
    ASSUME CacheInv, NEW s \in Session, Touch(s)
    PROVE  CacheInv' /\ SparesNoLesser /\ NoneInVain
<1> DEFINE e == [x \in Session |-> IF x \in {} THEN Absent ELSE entry[x]]
<1>1. /\ CacheTypeOK /\ NumbersGivenOut /\ NumbersTellOrder /\ WithinLimits
      /\ s \in Cached /\ total' = total /\ retired' = retired
  BY DEF CacheInv, Touch
<1>2. e = entry
  BY <1>1 DEF CacheTypeOK
<1>3. Uses(e, s, "foreground")
  BY <1>2 DEF Touch, Uses
<1>4. /\ entry' \in Entries
      /\ accessSequence' \in 0..MaxSafeInteger
      /\ since' \in [Session -> SUBSET Session]
      /\ NumbersGivenOut' /\ NumbersTellOrder'
      /\ Cached' = Left({}, s)
      /\ entry'[s].origin = "foreground"
      /\ \A x \in Left({}, s) \ {s} : entry'[x].origin = entry[x].origin
  <2>1. e = [x \in Session |-> IF x \in {} THEN Absent ELSE entry[x]]
    OBVIOUS
  <2> HIDE DEF e
  <2> QED
    BY <1>1, <1>3, <2>1, UseKeepsOrder
<1>5. Cached' = Cached /\ InCache(entry') = Cached
  BY <1>1, <1>4 DEF Left, Cached
<1>6. CacheTypeOK'
  BY <1>1, <1>4 DEF CacheTypeOK, Entries
<1>7. WithinLimits'
  <2>1. SumOf(Cached)' = SumOf(Cached)
    BY <1>5
  <2>2. ASSUME Cached = {s}
        PROVE  s \notin Speculative'
    BY <1>4 DEF Speculative
  <2>3. \A x : Cached = {x} => x = s
    BY <1>1
  <2> QED
    BY <1>1, <1>5, <2>1, <2>2, <2>3 DEF WithinLimits
<1>8. Evicted = {}
  BY <1>1, <1>5, CachedEntries DEF Evicted, InCache
<1> QED
  BY <1>4, <1>6, <1>7, <1>8 DEF CacheInv, SparesNoLesser, NoneInVain

\* When everything may go, there is room for whatever is not larger than all.
LEMMA ForegroundStep ==
    ASSUME CacheInv, NEW s \in Session, AdmitForeground(s)
    PROVE  CacheInv' /\ SparesNoLesser /\ NoneInVain
<1>1. /\ CacheTypeOK /\ total = SumOf(Cached) /\ s \in Session \ Cached
      /\ Bytes[s] <= MaxBytes
      /\ Record(s, "foreground", Fewest(RoomFor(s, Cached)))
  BY Sizes DEF CacheInv, WithinLimits, AdmitForeground, Oversize
<1>2. Cached \in RoomFor(s, Cached)
  <2>1. Cardinality(Cached) \in Nat /\ SumOf(Cached) \in Nat
    BY <1>1, CachedEntries, SetOfSessions
  <2>2. /\ (Cardinality(Cached) - Cardinality(Cached)) + 1 <= MaxCached
        /\ Bytes[s] <= MaxBytes - (total - SumOf(Cached))
    <3>1. PICK a \in Nat, b \in Nat : a = Cardinality(Cached) /\ b = SumOf(Cached)
      BY <2>1
    <3> QED
      BY <1>1, <3>1, Sizes
  <2> QED
    BY <2>2 DEF RoomFor, VictimSets, Fits
<1> QED
  BY <1>1, <1>2, AdmitsWithRoom

\* A speculative result may only replace speculative ones.
LEMMA SpeculativeStep ==
    ASSUME CacheInv, NEW s \in Session, AdmitSpeculative(s)
    PROVE  CacheInv' /\ SparesNoLesser /\ NoneInVain
BY AdmitsWithRoom DEF AdmitSpeculative

\* A session larger than the cache has it for itself.
LEMMA OversizeStep ==
    ASSUME CacheInv, NEW s \in Session, AdmitOversize(s)
    PROVE  CacheInv' /\ SparesNoLesser /\ NoneInVain
<1>1. /\ CacheTypeOK /\ NumbersTellOrder /\ s \in Session \ Cached
      /\ MaxBytes < Bytes[s]
      /\ Record(s, "foreground", Cached)
  BY Sizes DEF CacheInv, AdmitOversize, Oversize
<1>2. Left(Cached, s) = {s} /\ {s} \in SUBSET Session
  BY <1>1 DEF Left
<1>3. Cardinality({s}) = 1 /\ SumOf({s}) = Bytes[s] /\ Bytes[s] \in Nat
  <2>1. SumOf({} \cup {s}) = SumOf({}) + Bytes[s]
    BY With
  <2>2. PICK b \in Nat : b = Bytes[s]
    BY Sizes
  <2>3. {} \cup {s} = {s}
    OBVIOUS
  <2>4. SumOf({s}) = 0 + Bytes[s]
    BY <2>1, <2>3, Nothing
  <2>5. SumOf({s}) = Bytes[s] /\ Bytes[s] \in Nat
    BY <2>2, <2>4
  <2> QED
    BY <2>5, FS_Singleton
<1>4. /\ CacheTypeOK' /\ NumbersGivenOut' /\ NumbersTellOrder'
      /\ Cached' = {s} /\ total' = SumOf({s})
      /\ Evicted = Cached /\ Admitted = {s}
      /\ entry'[s].origin = "foreground"
  <2>1. SumOf(Left(Cached, s)) <= MaxSafeInteger
    BY <1>2, <1>3, Sizes
  <2> QED
    BY <1>1, <1>2, <2>1, Admits
<1>5. CacheInv'
  <2>1. SumOf(Cached)' = SumOf({s})
    BY <1>4
  <2>2. s \notin Speculative'
    BY <1>4 DEF Speculative
  <2>3. Cardinality(Cached)' <= MaxCached
    BY <1>3, <1>4, Sizes
  <2>4. WithinLimits'
    BY <1>4, <2>1, <2>2, <2>3 DEF WithinLimits
  <2> QED
    BY <1>4, <2>4 DEF CacheInv
<1>6. SparesNoLesser
  BY <1>4 DEF SparesNoLesser, SparesNoneBefore, Cached
<1>7. NoneInVain
  <2>1. SUFFICES ASSUME Cached # {} PROVE NoneInVain
    BY <1>4 DEF NoneInVain
  <2>2. PICK last \in Cached : \A v \in Cached \ {last} : EvictedBefore(v, last)
    BY <1>1, <2>1, LastVictim
  <2>3. SumOf({last}) \in Nat /\ (Cached \ Cached) \cup {last} = {last}
    BY <1>1, CachedEntries, SetOfSessions
  <2>4. SumOf({last}) + Bytes[s] > MaxBytes
    <3>1. PICK a \in Nat, b \in Nat : a = SumOf({last}) /\ b = Bytes[s]
      BY <1>3, <2>3
    <3> QED
      BY <1>1, <3>1, Sizes
  <2>5. FittedNotWith(s, last)
    BY <1>4, <2>3, <2>4 DEF FittedNotWith
  <2> QED
    BY <1>4, <2>2, <2>5 DEF NoneInVain
<1> QED
  BY <1>5, <1>6, <1>7

\* A retired owner has nothing cached.
LEMMA RetireStep == ASSUME CacheInv, Retire PROVE CacheInv' /\ retired'
<1>1. Cached' = {}
  BY DEF Retire, Cached, InCache
<1>2. CacheTypeOK'
  BY Sizes DEF CacheInv, CacheTypeOK, Retire
<1>3. WithinLimits'
  <2>1. SumOf(Cached)' = SumOf({})
    BY <1>1
  <2> QED
    BY <1>1, <2>1, Nothing, Sizes DEF Retire, WithinLimits
<1> QED
  BY <1>1, <1>2, <1>3 DEF CacheInv, NumbersGivenOut, NumbersTellOrder, Retire

\* Every step but a retirement keeps to both properties of evictions.
LEMMA CacheStep ==
    ASSUME CacheInv, [CacheNext]_cacheVars
    PROVE  CacheInv' /\ (retired' \/ (SparesNoLesser /\ NoneInVain))
<1>1. CASE UNCHANGED cacheVars
  <2>1. Cached' = Cached /\ Speculative' = Speculative
    BY <1>1 DEF cacheVars, Cached, InCache, Speculative
  <2>2. SumOf(Cached)' = SumOf(Cached)
    BY <2>1
  <2>3. CacheInv'
    BY <1>1, <2>1, <2>2 DEF CacheInv, cacheVars, CacheTypeOK, WithinLimits,
       NumbersGivenOut, NumbersTellOrder, MoreRecent
  <2>4. Evicted = {}
    BY <1>1 DEF Evicted, cacheVars, Cached, InCache
  <2> QED
    BY <2>3, <2>4 DEF SparesNoLesser, NoneInVain
<1>2. ASSUME NEW s \in Session,
             Touch(s) \/ AdmitForeground(s) \/ AdmitOversize(s) \/ AdmitSpeculative(s)
      PROVE  CacheInv' /\ SparesNoLesser /\ NoneInVain
  BY <1>2, TouchStep, ForegroundStep, OversizeStep, SpeculativeStep
<1>3. ASSUME NEW s \in Session, RejectSpeculative(s)
      PROVE  UNCHANGED cacheVars
  BY <1>3 DEF RejectSpeculative
<1> QED
  BY <1>1, <1>2, <1>3, RetireStep DEF CacheNext

\* The inductive invariant holds of every reachable state.
THEOREM CacheInvHolds == CacheSpec => []CacheInv
<1> QED
  BY CacheInitInv, CacheStep, PTL DEF CacheSpec

\* The variables keep their types: no total and no sequence number leaves the
\* safe integers.
THEOREM CacheTypes == CacheSpec => []CacheTypeOK
<1>1. CacheInv => CacheTypeOK
  BY DEF CacheInv
<1> QED
  BY <1>1, CacheInvHolds, PTL

\* The running total of _recordCacheAdmission and _removeCacheEntry is the size of
\* what is cached, and both limits hold but for one oversize foreground session.
THEOREM CacheWithinLimits == CacheSpec => []WithinLimits
<1>1. CacheInv => WithinLimits
  BY DEF CacheInv
<1> QED
  BY <1>1, CacheInvHolds, PTL

\* _selectEvictionVictim never spares a less deserving entry, also across the
\* renumbering of _nextAccessSequence.
THEOREM VictimsLeastRecent == CacheSpec => EvictsLeastRecent
<1>1. CacheInv /\ [CacheNext]_cacheVars
        => [~retired' =>
              \A v \in Evicted, t \in InCache(entry') : SparesNoneBefore(v, t)]_cacheVars
  BY CacheStep DEF SparesNoLesser
<1> QED
  BY <1>1, CacheInvHolds, PTL DEF CacheSpec, EvictsLeastRecent

\* _admitCacheEntry evicts no more entries than the new one needs.
THEOREM VictimsNeeded == CacheSpec => EvictsOnlyAsNeeded
<1>1. CacheInv /\ [CacheNext]_cacheVars
        => [~retired' /\ Evicted # {} =>
              \E s \in Admitted, last \in Evicted :
                 /\ \A v \in Evicted \ {last} : EvictedBefore(v, last)
                 /\ FittedNotWith(s, last)]_cacheVars
  BY CacheStep DEF NoneInVain
<1> QED
  BY <1>1, CacheInvHolds, PTL DEF CacheSpec, EvictsOnlyAsNeeded

=============================================================================
