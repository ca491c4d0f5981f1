--------------------------- MODULE ProjectQuery_proofs --------------------------
(***************************************************************************)
(* Proofs about ProjectQuery, for any projects, files, limits and numbers  *)
(* of workers.  What a worker knows after each row is what a search of the *)
(* rows so far, in memory, would find; when a query is answered, every     *)
(* session has been through a worker once; and what is merged is sorted    *)
(* and summed over the same sessions.                                      *)
(***************************************************************************)
EXTENDS ProjectQuery, FiniteSums_proofs, SequenceTheorems

-----------------------------------------------------------------------------
(* Sorting *)

\* R orders the members of S strictly and totally.
Orders(R, S) ==
  /\ \A a \in S : <<a, a>> \notin R
  /\ \A a, b \in S : a # b => <<a, b>> \in R \/ <<b, a>> \in R
  /\ \A a, b, c \in S : <<a, b>> \in R /\ <<b, c>> \in R => <<a, c>> \in R

Ascends(s, R) == \A i, j \in DOMAIN s : i < j => <<s[i], s[j]>> \in R

\* A finite set that is ordered has a last member.
LEMMA LastExists ==
  ASSUME NEW S, IsFiniteSet(S), S # {}, NEW R, Orders(R, S)
  PROVE  \E m \in S : \A a \in S \ {m} : <<a, m>> \in R
<1> DEFINE IsLast(m, T) == m \in T /\ \A a \in T \ {m} : <<a, m>> \in R
           Bad == {T \in SUBSET S : T # {} /\ ~\E m \in T : IsLast(m, T)}
<1>1. SUFFICES ASSUME Bad # {} PROVE FALSE
  OBVIOUS
<1>2. Bad \subseteq FiniteSubsetsOf(S)
  BY FS_Subset DEF FiniteSubsetsOf
<1>3. PICK T \in Bad : \A U \in Bad : U \subseteq T => U = T
  <2> HIDE DEF Bad
  <2> QED
    BY <1>1, <1>2, SmallestSet
<1>4. PICK x \in T : TRUE
  OBVIOUS
<1>5. T \in SUBSET S /\ ~\E m \in T : IsLast(m, T)
  OBVIOUS
<1>6. T \ {x} # {}
  BY <1>4, <1>5
<1>7. PICK m \in T \ {x} : IsLast(m, T \ {x})
  <2>1. T \ {x} \notin Bad
    BY <1>3, <1>4
  <2> QED
    BY <1>5, <1>6, <2>1
<1>8. CASE <<x, m>> \in R
  BY <1>5, <1>7, <1>8
<1>9. CASE <<m, x>> \in R
  <2>1. \A a \in T \ {x} : <<a, x>> \in R
    BY <1>4, <1>5, <1>7, <1>9 DEF Orders
  <2> QED
    BY <1>4, <1>5, <2>1
<1> QED
  BY <1>4, <1>5, <1>7, <1>8, <1>9 DEF Orders

\* It can be sorted.
LEMMA SortExists ==
  ASSUME NEW S, IsFiniteSet(S), NEW R, Orders(R, S)
  PROVE  \E s \in SetToSeqs(S) : Ascends(s, R)
<1> DEFINE Bad == {T \in SUBSET S : ~\E s \in SetToSeqs(T) : Ascends(s, R)}
<1>1. SUFFICES ASSUME Bad # {} PROVE FALSE
  OBVIOUS
<1>2. Bad \subseteq FiniteSubsetsOf(S)
  BY FS_Subset DEF FiniteSubsetsOf
<1>3. PICK T \in Bad : \A U \in Bad : U \subseteq T => U = T
  <2> HIDE DEF Bad
  <2> QED
    BY <1>1, <1>2, SmallestSet
<1>4. IsFiniteSet(T) /\ T \subseteq S
  BY <1>2, <1>3 DEF FiniteSubsetsOf
<1>5. T # {}
  <2>1. SUFFICES ASSUME T = {} PROVE FALSE
    OBVIOUS
  <2> DEFINE s == [i \in 1..0 |-> i]
  <2>2. Cardinality(T) = 0 /\ 1..0 = {}
    BY <2>1, FS_EmptySet
  <2>3. s \in [1..0 -> T] /\ DOMAIN s = {}
    BY <2>2
  <2> HIDE DEF s
  <2>4. s \in SetToSeqs(T) /\ Ascends(s, R)
    BY <2>2, <2>3 DEF SetToSeqs, Ascends
  <2> QED
    BY <2>4
<1>6. PICK m \in T : \A a \in T \ {m} : <<a, m>> \in R
  <2>1. Orders(R, T)
    BY <1>4 DEF Orders
  <2> QED
    BY <1>4, <1>5, <2>1, LastExists
<1>7. PICK n \in Nat : n = Cardinality(T) /\ n - 1 = Cardinality(T \ {m}) /\ n - 1 \in Nat
  <2>1. IsFiniteSet(T \ {m}) /\ Cardinality(T \ {m}) = Cardinality(T) - 1
    BY <1>4, <1>6, FS_RemoveElement
  <2>2. Cardinality(T) \in Nat /\ Cardinality(T \ {m}) \in Nat
    BY <1>4, <2>1, FS_CardinalityType
  <2> HIDE DEF Bad
  <2> QED
    BY <2>1, <2>2
<1>8. PICK t \in SetToSeqs(T \ {m}) : Ascends(t, R)
  <2>1. T \ {m} \notin Bad /\ T \ {m} \in SUBSET S
    BY <1>3, <1>4, <1>6
  <2> QED
    BY <2>1
<1>9. /\ t \in [1..(n - 1) -> T \ {m}]
      /\ \A i, j \in 1..(n - 1) : i # j => t[i] # t[j]
      /\ \A i, j \in 1..(n - 1) : i < j => <<t[i], t[j]>> \in R
  BY <1>7, <1>8 DEF SetToSeqs, Ascends
<1> DEFINE s == [i \in 1..n |-> IF i = n THEN m ELSE t[i]]
<1>10. \A i \in 1..n : i # n => i \in 1..(n - 1) /\ s[i] = t[i] /\ s[i] \in T \ {m}
  BY <1>7, <1>9
<1>11. n \in 1..n /\ s[n] = m
  BY <1>7
<1>12. s \in [1..n -> T] /\ DOMAIN s = 1..n
  BY <1>6, <1>9, <1>10
<1> HIDE DEF s
<1>13. \A i, j \in 1..n : i # j => s[i] # s[j]
  BY <1>9, <1>10, <1>11
<1>14. \A i, j \in 1..n : i < j => <<s[i], s[j]>> \in R
  <2>1. SUFFICES ASSUME NEW i \in 1..n, NEW j \in 1..n, i < j PROVE <<s[i], s[j]>> \in R
    OBVIOUS
  <2>2. i # n /\ i \in 1..(n - 1)
    BY <1>7, <2>1
  <2>3. CASE j = n
    BY <1>6, <1>10, <1>11, <2>2, <2>3
  <2>4. CASE j # n
    <3>1. j \in 1..(n - 1) /\ s[j] = t[j] /\ s[i] = t[i]
      BY <1>10, <2>2, <2>4
    <3> QED
      BY <1>9, <2>1, <2>2, <3>1
  <2> QED
    BY <2>3, <2>4
<1>15. s \in SetToSeqs(T)
  BY <1>7, <1>12, <1>13 DEF SetToSeqs
<1>16. Ascends(s, R)
  BY <1>12, <1>14 DEF Ascends
<1> QED
  BY <1>3, <1>15, <1>16

\* A sequence that has each member of a finite set once has them all.
LEMMA SeqOfSet ==
  ASSUME NEW S, IsFiniteSet(S), NEW s \in SetToSeqs(S)
  PROVE  /\ DOMAIN s = 1..Cardinality(S) /\ Len(s) = Cardinality(S) /\ s \in Seq(S)
         /\ \A i \in 1..Cardinality(S) : s[i] \in S
         /\ \A x \in S : \E i \in 1..Cardinality(S) : s[i] = x
<1>1. PICK n \in Nat : n = Cardinality(S)
  BY FS_CardinalityType
<1>2. s \in [1..n -> S] /\ \A i, j \in 1..n : i # j => s[i] # s[j]
  BY <1>1 DEF SetToSeqs
<1>3. ASSUME NEW x \in S, \A i \in 1..n : s[i] # x
      PROVE  FALSE
  <2>1. s \in [1..n -> S \ {x}]
    BY <1>2, <1>3
  <2>2. IsFiniteSet(S \ {x}) /\ Cardinality(S \ {x}) = n - 1
    BY <1>1, FS_RemoveElement
  <2>3. IsFiniteSet(1..n) /\ Cardinality(1..n) = n
    BY FS_Interval
  <2>4. \E i, j \in 1..n : i # j /\ s[i] = s[j]
    BY <2>1, <2>2, <2>3, FS_PigeonHole
  <2> QED
    BY <1>2, <2>4
<1>4. DOMAIN s = 1..n /\ Len(s) = n /\ s \in Seq(S)
  BY <1>2
<1> QED
  BY <1>1, <1>2, <1>3, <1>4

\* What the matches, and what the files, are sorted into.
LEMMA SortedMatches ==
  ASSUME NEW S, IsFiniteSet(S),
         Orders({p \in S \X S : MatchOrder(p[1], p[2])}, S)
  PROVE  /\ Sorted(S, MatchOrder) \in SetToSeqs(S)
         /\ \A i, j \in DOMAIN Sorted(S, MatchOrder) :
              i < j => MatchOrder(Sorted(S, MatchOrder)[i], Sorted(S, MatchOrder)[j])
<1> DEFINE R == {p \in S \X S : MatchOrder(p[1], p[2])}
<1>1. PICK s \in SetToSeqs(S) : Ascends(s, R)
  <2> HIDE DEF R
  <2> QED
    BY SortExists DEF R
<1>2. \A i, j \in DOMAIN s : i < j => MatchOrder(s[i], s[j])
  <2>1. SUFFICES ASSUME NEW i \in DOMAIN s, NEW j \in DOMAIN s, i < j
                 PROVE  MatchOrder(s[i], s[j])
    OBVIOUS
  <2>2. <<s[i], s[j]>> \in R
    BY <1>1, <2>1 DEF Ascends
  <2> QED
    BY <2>2
<1> HIDE DEF R
<1> QED
  BY <1>2 DEF Sorted

\* The same of the files.
LEMMA SortedFiles ==
  ASSUME NEW S, IsFiniteSet(S),
         Orders({p \in S \X S : FileOrder(p[1], p[2])}, S)
  PROVE  /\ Sorted(S, FileOrder) \in SetToSeqs(S)
         /\ \A i, j \in DOMAIN Sorted(S, FileOrder) :
              i < j => FileOrder(Sorted(S, FileOrder)[i], Sorted(S, FileOrder)[j])
<1> DEFINE R == {p \in S \X S : FileOrder(p[1], p[2])}
<1>1. PICK s \in SetToSeqs(S) : Ascends(s, R)
  <2> HIDE DEF R
  <2> QED
    BY SortExists DEF R
<1>2. \A i, j \in DOMAIN s : i < j => FileOrder(s[i], s[j])
  <2>1. SUFFICES ASSUME NEW i \in DOMAIN s, NEW j \in DOMAIN s, i < j
                 PROVE  FileOrder(s[i], s[j])
    OBVIOUS
  <2>2. <<s[i], s[j]>> \in R
    BY <1>1, <2>1 DEF Ascends
  <2> QED
    BY <2>2
<1> HIDE DEF R
<1> QED
  BY <1>2 DEF Sorted

-----------------------------------------------------------------------------
(* The rows of a session: its pages, one after the other *)

\* g[i] is what the first i pages of s, of n, are put together.
Joins(s, n, g) == g = [i \in 1..n |-> IF i = 1 THEN s[i] ELSE g[i - 1] \o s[i]]

\* The recursive function in FlattenSeq exists,
LEMMA JoinsExist ==
  ASSUME NEW s, NEW n \in Nat
  PROVE  \E g : Joins(s, n, g)
<1> DEFINE A == {k \in Nat : \E g : Joins(s, k, g)}
<1>1. 0 \in A
  <2> DEFINE g == [i \in 1..0 |-> <<>>]
  <2>1. g = [i \in 1..0 |-> IF i = 1 THEN s[i] ELSE g[i - 1] \o s[i]]
    OBVIOUS
  <2> HIDE DEF g
  <2> QED
    BY <2>1 DEF Joins
<1>2. ASSUME NEW k \in A PROVE k + 1 \in A
  <2>1. PICK g : Joins(s, k, g)
    OBVIOUS
  <2>2. k \in Nat
    OBVIOUS
  <2> DEFINE V(f, i) == IF i = 1 THEN s[i] ELSE f[i - 1] \o s[i]
             h == [i \in 1..(k + 1) |-> V(g, i)]
  <2>3. \A i \in 1..k : g[i] = V(g, i)
    BY <2>1 DEF Joins
  <2>4. ASSUME NEW i \in 1..(k + 1) PROVE V(g, i) = V(h, i)
    <3>1. CASE i = 1
      BY <3>1
    <3>2. CASE i # 1
      <4>1. i - 1 \in 1..k /\ i - 1 \in 1..(k + 1)
        BY <2>2, <3>2
      <4>2. h[i - 1] = V(g, i - 1) /\ g[i - 1] = V(g, i - 1)
        BY <2>3, <4>1
      <4>3. h[i - 1] = g[i - 1]
        BY <4>2
      <4> HIDE DEF h
      <4> QED
        BY <3>2, <4>3
    <3> QED
      BY <3>1, <3>2
  <2>5. h = [i \in 1..(k + 1) |-> V(h, i)]
    <3>1. h = [i \in 1..(k + 1) |-> V(g, i)]
      OBVIOUS
    <3> HIDE DEF h, V
    <3> QED
      BY <2>4, <3>1
  <2> HIDE DEF h
  <2>6. Joins(s, k + 1, h)
    BY <2>5 DEF Joins
  <2> QED
    BY <2>2, <2>6
<1>3. A = Nat
  <2> HIDE DEF A
  <2>1. A \in SUBSET Nat
    BY DEF A
  <2> QED
    BY <1>1, <1>2, <2>1, Induction
<1>4. n \in A
  <2> HIDE DEF A
  <2> QED
    BY <1>3
<1> QED
  BY <1>4

\* Sequences with the same beginning are joined alike so far.
Alike(s, t, k) == \A i \in 1..k : s[i] = t[i]

LEMMA JoinsAgree ==
  ASSUME NEW s, NEW t, NEW n \in Nat, NEW m \in Nat, NEW k \in Nat, k <= n, k <= m,
         Alike(s, t, k), NEW g, NEW h, Joins(s, n, g), Joins(t, m, h)
  PROVE  Alike(g, h, k)
<1> DEFINE A == {j \in Nat : j \in 1..k => g[j] = h[j]}
<1>1. 0 \in A
  OBVIOUS
<1>2. ASSUME NEW j \in A PROVE j + 1 \in A
  <2>1. SUFFICES ASSUME j + 1 \in 1..k PROVE g[j + 1] = h[j + 1]
    OBVIOUS
  <2>2. j \in Nat /\ (j + 1) - 1 = j /\ j + 1 \in 1..n /\ j + 1 \in 1..m
    BY <2>1
  <2>3. /\ g[j + 1] = IF j + 1 = 1 THEN s[j + 1] ELSE g[(j + 1) - 1] \o s[j + 1]
        /\ h[j + 1] = IF j + 1 = 1 THEN t[j + 1] ELSE h[(j + 1) - 1] \o t[j + 1]
    BY <2>2 DEF Joins
  <2>4. j + 1 # 1 => g[j] = h[j]
    BY <2>1, <2>2
  <2>5. s[j + 1] = t[j + 1]
    BY <2>1 DEF Alike
  <2> QED
    BY <2>2, <2>3, <2>4, <2>5, Zenon
<1>3. A = Nat
  <2> HIDE DEF A
  <2>1. A \in SUBSET Nat
    BY DEF A
  <2> QED
    BY <1>1, <1>2, <2>1, Induction
<1> QED
  BY <1>3 DEF Alike

\* The function at an index
LEMMA JoinsAt ==
  ASSUME NEW s, NEW n \in Nat, NEW g, Joins(s, n, g), NEW i \in 1..n
  PROVE  g[i] = IF i = 1 THEN s[i] ELSE g[i - 1] \o s[i]
BY DEF Joins

\* What is flattened is its value at the end.
LEMMA FlattenChosen ==
  ASSUME NEW s, NEW n \in Nat \ {0}, n = Len(s)
  PROVE  \E g : Joins(s, n, g) /\ FlattenSeq(s) = g[n]
<1> DEFINE g == CHOOSE h : Joins(s, Len(s), h)
<1>1. Joins(s, Len(s), g)
  BY JoinsExist
<1>2. FlattenSeq(s) = g[Len(s)]
  BY DEF FlattenSeq, Joins
<1> HIDE DEF g
<1> QED
  BY <1>1, <1>2

\* The rows of the first p pages of s.
Start(s, p) == FlattenSeq(SubSeq(s, 1, p))

\* The first p members of a sequence
LEMMA StartIsShort ==
  ASSUME NEW C, NEW s \in Seq(C), NEW p \in 0..Len(s)
  PROVE  /\ SubSeq(s, 1, p) \in Seq(C) /\ Len(SubSeq(s, 1, p)) = p /\ p \in Nat
         /\ \A i \in 1..p : SubSeq(s, 1, p)[i] = s[i]
<1>1. PICK l \in Nat : l = Len(s) /\ p \in Nat /\ p <= l
  BY LenProperties
<1>2. \A i \in 1..p : s[i] \in C
  BY <1>1, ElementOfSeq
<1>3. /\ SubSeq(s, 1, p) \in Seq(C) /\ Len(SubSeq(s, 1, p)) = IF 1 <= p THEN p - 1 + 1 ELSE 0
      /\ \A i \in 1..(p - 1 + 1) : SubSeq(s, 1, p)[i] = s[1 + i - 1]
  BY <1>1, <1>2, SubSeqProperties
<1> QED
  BY <1>1, <1>3

\* The p-th page follows the rows before it.
Follows(s, p) == Start(s, p) = Start(s, p - 1) \o s[p]

\* The rows of p pages are those of p - 1 and the p-th page's.
LEMMA StartGrows ==
  ASSUME NEW C, NEW s \in Seq(Seq(C)), NEW p \in 1..Len(s)
  PROVE  IF p = 1 THEN Start(s, p) = s[p] ELSE Follows(s, p)
<1>1. PICK l \in Nat : l = Len(s) /\ p \in Nat /\ 1 <= p /\ p <= l
  BY LenProperties
<1> DEFINE t == SubSeq(s, 1, p)
           u == SubSeq(s, 1, p - 1)
<1>2. Len(t) = p /\ \A i \in 1..p : t[i] = s[i]
  BY <1>1, StartIsShort
<1>3. Len(u) = p - 1 /\ \A i \in 1..(p - 1) : u[i] = s[i]
  <2>1. p - 1 \in 0..Len(s)
    BY <1>1
  <2> QED
    BY <2>1, StartIsShort
<1> HIDE DEF t, u
<1>4. PICK g : Joins(t, p, g) /\ FlattenSeq(t) = g[p]
  <2>1. p \in Nat \ {0}
    BY <1>1
  <2> QED
    BY <1>2, <2>1, FlattenChosen
<1>5. g[p] = IF p = 1 THEN t[p] ELSE g[p - 1] \o t[p]
  <2>1. p \in Nat /\ p \in 1..p
    BY <1>1
  <2> QED
    BY <1>4, <2>1, JoinsAt
<1>6. CASE p = 1
  BY <1>1, <1>2, <1>4, <1>5, <1>6 DEF Start, t
<1>7. CASE p # 1
  <2>1. PICK h : Joins(u, p - 1, h) /\ FlattenSeq(u) = h[p - 1]
    <3>1. p - 1 \in Nat \ {0}
      BY <1>1, <1>7
    <3> QED
      BY <1>3, <3>1, FlattenChosen, Zenon
  <2>2. \A i \in 1..(p - 1) : t[i] = u[i]
    BY <1>1, <1>2, <1>3
  <2>3. p \in Nat /\ p - 1 \in Nat /\ p - 1 <= p /\ p - 1 <= p - 1 /\ p - 1 \in 1..(p - 1)
    BY <1>1, <1>7
  <2>4. \A i \in 1..(p - 1) : g[i] = h[i]
    <3>1. PICK k \in Nat : k = p - 1 /\ k <= p /\ k <= k
      BY <2>3
    <3>2. Joins(u, k, h) /\ Alike(t, u, k)
      BY <2>1, <2>2, <3>1 DEF Alike
    <3>3. Joins(t, p, g) /\ p \in Nat
      BY <1>4, <2>3
    <3>4. Alike(g, h, k)
      BY <3>1, <3>2, <3>3, JoinsAgree
    <3> QED
      BY <3>1, <3>4 DEF Alike
  <2>5. g[p - 1] = FlattenSeq(u)
    BY <2>1, <2>3, <2>4
  <2>6. t[p] = s[p]
    BY <1>1, <1>2
  <2> QED
    BY <1>4, <1>5, <1>7, <2>5, <2>6 DEF Start, Follows, t, u
<1> QED
  BY <1>6, <1>7

\* No pages have no rows, and all pages all rows.
LEMMA StartEnds ==
  ASSUME NEW C, NEW s \in Seq(Seq(C))
  PROVE  Start(s, 0) = <<>> /\ Start(s, Len(s)) = FlattenSeq(s)
<1>1. SubSeq(s, 1, 0) = <<>> /\ SubSeq(s, 1, Len(s)) = s
  BY SubSeqEmpty, SubSeqFull
<1>2. FlattenSeq(<<>>) = <<>>
  BY DEF FlattenSeq
<1> QED
  BY <1>1, <1>2 DEF Start

\* StartGrows, in one form for every page
LEMMA StartStep ==
  ASSUME NEW C, NEW s \in Seq(Seq(C)), NEW p \in 1..Len(s), Start(s, p - 1) \in Seq(C)
  PROVE  /\ s[p] \in Seq(C) /\ Follows(s, p)
         /\ Start(s, p) \in Seq(C)
<1>1. s[p] \in Seq(C)
  BY ElementOfSeq
<1>2. Start(s, p) = Start(s, p - 1) \o s[p]
  <2>1. CASE p = 1
    <3>1. Start(s, p) = s[p] /\ Start(s, p - 1) = <<>>
      <4>1. p - 1 = 0 /\ Start(s, 0) = <<>> /\ Start(s, p) = s[p]
        BY <2>1, StartGrows, StartEnds
      <4> QED
        BY <4>1
    <3>2. PICK t \in Seq(C) : t = s[p]
      BY <1>1
    <3>3. <<>> \o t = t
      BY ConcatEmptySeq, Zenon
    <3> QED
      BY <2>1, <3>1, <3>2, <3>3
  <2>2. CASE p # 1
    BY <2>2, StartGrows DEF Follows
  <2> QED
    BY <2>1, <2>2
<1> QED
  BY <1>1, <1>2, ConcatProperties DEF Follows

\* The rows of some pages are a sequence of rows.
LEMMA StartType ==
  ASSUME NEW C, NEW s \in Seq(Seq(C)), NEW p \in 0..Len(s)
  PROVE  Start(s, p) \in Seq(C)
<1> DEFINE A == {k \in Nat : k \in 0..Len(s) => Start(s, k) \in Seq(C)}
<1>0. PICK l \in Nat : l = Len(s)
  BY LenProperties
<1>1. 0 \in A
  <2>1. Start(s, 0) = <<>> /\ <<>> \in Seq(C)
    BY StartEnds, EmptySeq
  <2> QED
    BY <2>1
<1>2. ASSUME NEW k \in A PROVE k + 1 \in A
  <2>1. SUFFICES ASSUME k + 1 \in 0..Len(s) PROVE Start(s, k + 1) \in Seq(C)
    OBVIOUS
  <2>2. k \in Nat /\ k \in 0..Len(s) /\ k + 1 \in 1..Len(s) /\ (k + 1) - 1 = k
    BY <1>0, <2>1
  <2>3. Start(s, k) \in Seq(C)
    BY <2>2
  <2> QED
    BY <2>2, <2>3, StartStep
<1>3. A = Nat
  <2> HIDE DEF A
  <2>1. A \in SUBSET Nat
    BY DEF A
  <2> QED
    BY <1>1, <1>2, <2>1, Induction
<1>4. p \in A
  <2> HIDE DEF A
  <2> QED
    BY <1>0, <1>3
<1> QED
  BY <1>4

\* b goes on where a ends.
Begins(a, b) == Len(a) <= Len(b) /\ \A n \in 1..Len(a) : b[n] = a[n]

\* What begins a sequence begins it when it gets longer.
LEMMA BeginsConcat ==
  ASSUME NEW C, NEW a \in Seq(C), NEW b \in Seq(C), NEW c \in Seq(C), Begins(a, b)
  PROVE  Begins(a, b \o c)
<1>1. PICK k \in Nat, l \in Nat, m \in Nat : k = Len(a) /\ l = Len(b) /\ m = Len(c)
  BY LenProperties
<1>2. Len(b \o c) = l + m /\ \A i \in 1..(l + m) : (b \o c)[i] = IF i <= l THEN b[i] ELSE c[i - l]
  BY <1>1, ConcatProperties
<1>3. k <= l /\ \A n \in 1..k : b[n] = a[n]
  BY <1>1 DEF Begins
<1>4. \A n \in 1..k : n \in 1..(l + m) /\ n <= l
  BY <1>1, <1>3
<1>5. \A n \in 1..k : (b \o c)[n] = a[n]
  BY <1>2, <1>3, <1>4
<1> QED
  BY <1>1, <1>2, <1>3, <1>5 DEF Begins

\* The rows of some pages begin the rows of all.
LEMMA StartBegins ==
  ASSUME NEW C, NEW s \in Seq(Seq(C)), NEW p \in 0..Len(s)
  PROVE  Begins(Start(s, p), FlattenSeq(s))
<1> DEFINE A == {k \in Nat : p + k \in 0..Len(s) => Begins(Start(s, p), Start(s, p + k))}
<1>0. PICK l \in Nat : l = Len(s) /\ p \in Nat /\ p <= l
  BY LenProperties
<1>1. 0 \in A
  <2>1. p + 0 = p /\ Start(s, p) \in Seq(C)
    BY <1>0, StartType
  <2>2. Begins(Start(s, p), Start(s, p))
    BY <2>1, LenProperties DEF Begins
  <2> QED
    BY <2>1, <2>2
<1>2. ASSUME NEW k \in A PROVE k + 1 \in A
  <2>1. SUFFICES ASSUME p + (k + 1) \in 0..Len(s)
                 PROVE  Begins(Start(s, p), Start(s, p + (k + 1)))
    OBVIOUS
  <2>2. PICK q \in Nat : q = p + (k + 1) /\ q - 1 = p + k /\ q \in 1..Len(s) /\ q - 1 \in 0..Len(s)
    BY <1>0, <2>1
  <2>3. Begins(Start(s, p), Start(s, q - 1))
    BY <2>2
  <2>4. Start(s, p) \in Seq(C) /\ Start(s, q - 1) \in Seq(C)
    BY <2>2, StartType
  <2>5. Start(s, q) = Start(s, q - 1) \o s[q] /\ s[q] \in Seq(C)
    <3>1. s[q] \in Seq(C) /\ Follows(s, q)
      BY <2>2, <2>4, StartStep
    <3> QED
      BY <3>1 DEF Follows
  <2>6. Begins(Start(s, p), Start(s, q))
    BY <2>3, <2>4, <2>5, BeginsConcat
  <2> QED
    BY <2>2, <2>6
<1>3. A = Nat
  <2> HIDE DEF A
  <2>1. A \in SUBSET Nat
    BY DEF A
  <2> QED
    BY <1>1, <1>2, <2>1, Induction
<1>4. l - p \in A /\ p + (l - p) = l /\ l \in 0..Len(s)
  <2> HIDE DEF A
  <2> QED
    BY <1>0, <1>3
<1>5. Begins(Start(s, p), Start(s, l))
  BY <1>4
<1> QED
  BY <1>0, <1>5, StartEnds

\* Where the n-th row of the p-th page is.
LEMMA Place ==
  ASSUME NEW C, NEW s \in Seq(Seq(C)), NEW p \in 1..Len(s)
  PROVE  /\ Len(Start(s, p - 1)) \in Nat /\ Len(s[p]) \in Nat
         /\ Len(Start(s, p)) = Len(Start(s, p - 1)) + Len(s[p])
         /\ \A n \in 1..Len(s[p]) :
              /\ Len(Start(s, p - 1)) + n \in 1..Len(FlattenSeq(s))
              /\ FlattenSeq(s)[Len(Start(s, p - 1)) + n] = s[p][n]
<1>1. p - 1 \in 0..Len(s) /\ p \in 0..Len(s)
  BY LenProperties
<1>2. Start(s, p - 1) \in Seq(C) /\ FlattenSeq(s) \in Seq(C) /\ Start(s, p) \in Seq(C)
  <2>1. Len(s) \in 0..Len(s)
    BY <1>1
  <2> QED
    BY <1>1, <2>1, StartType, StartEnds
<1>3. s[p] \in Seq(C) /\ Start(s, p) = Start(s, p - 1) \o s[p]
  <2>1. s[p] \in Seq(C) /\ Follows(s, p)
    BY <1>2, StartStep
  <2> QED
    BY <2>1 DEF Follows
<1>4. Begins(Start(s, p), FlattenSeq(s))
  BY <1>1, StartBegins
<1>5. PICK k \in Nat, l \in Nat, m \in Nat :
         k = Len(Start(s, p - 1)) /\ l = Len(s[p]) /\ m = Len(FlattenSeq(s))
  <2>1. Len(Start(s, p - 1)) \in Nat /\ Len(s[p]) \in Nat /\ Len(FlattenSeq(s)) \in Nat
    BY <1>2, <1>3, LenProperties, Zenon
  <2> QED
    BY <2>1
<1>6. /\ Len(Start(s, p)) = k + l
      /\ \A i \in 1..(k + l) : Start(s, p)[i] = IF i <= k THEN Start(s, p - 1)[i] ELSE s[p][i - k]
  <2>1. /\ Len(Start(s, p - 1) \o s[p]) = Len(Start(s, p - 1)) + Len(s[p])
        /\ \A i \in 1..(Len(Start(s, p - 1)) + Len(s[p])) :
             (Start(s, p - 1) \o s[p])[i] =
               IF i <= Len(Start(s, p - 1)) THEN Start(s, p - 1)[i]
               ELSE s[p][i - Len(Start(s, p - 1))]
    BY <1>2, <1>3, ConcatProperties, Zenon
  <2> QED
    BY <1>3, <1>5, <2>1, Zenon
<1>7. k + l <= m /\ \A i \in 1..(k + l) : FlattenSeq(s)[i] = Start(s, p)[i]
  BY <1>4, <1>5, <1>6 DEF Begins
<1>8. ASSUME NEW n \in 1..l
      PROVE  k + n \in 1..m /\ FlattenSeq(s)[k + n] = s[p][n]
  <2>1. k + n \in 1..(k + l) /\ ~(k + n <= k) /\ (k + n) - k = n /\ k + n \in 1..m
    <3>1. k + l <= m
      BY <1>7
    <3> QED
      BY <3>1
  <2>2. FlattenSeq(s)[k + n] = Start(s, p)[k + n]
    BY <1>7, <2>1
  <2>3. Start(s, p)[k + n] = s[p][(k + n) - k]
    BY <1>6, <2>1
  <2> QED
    BY <2>1, <2>2, <2>3
<1> QED
  BY <1>5, <1>6, <1>8

-----------------------------------------------------------------------------
(* What a worker knows of the rows it has visited *)

WorkerPhase == {"scan", "row", "tick", "scanned", "preview", "done", "failed"}

Match == [ordinal : Nat, row : Nat, time : Nat]

WorkerRecord ==
  [phase : WorkerPhase, session : Nat, page : Nat \ {0}, row : Nat \ {0},
   ordinal : Nat, count : Nat, latest : Match, files : [File -> Nat]]

Upto(S, m) == {n \in S : n <= m}
Below(S, m) == {n \in S : n < m}

\* l is the latest of the matches of session i, up to row m.
LatestIs(l, i, m) ==
  /\ l.row \in Upto(Matches(i), m) /\ l.time = Rows(i)[l.row].time
  /\ l.ordinal = Cardinality(Below(InTimeline(i), l.row))
  /\ \A n \in Upto(Matches(i), m) :
       \/ l.time > Rows(i)[n].time
       \/ l.time = Rows(i)[n].time /\ l.row >= n

\* The worker v has counted, of session i, the rows up to m.
CountsFiles(v, i, m) == \A f \in File : v.files[f] = Cardinality(Upto(Mentioning(i, f), m))

CountsMatches(v, i, m) ==
  /\ v.ordinal = Cardinality(Upto(InTimeline(i), m))
  /\ v.count = Cardinality(Upto(Matches(i), m))
  /\ v.count # 0 => LatestIs(v.latest, i, m)

Describes(v, i, m) ==
  IF query = "files" THEN CountsFiles(v, i, m) ELSE CountsMatches(v, i, m)

\* The sets of row numbers
LEMMA UptoEnds ==
  ASSUME NEW l \in Nat, NEW S \in SUBSET (1..l)
  PROVE  Upto(S, 0) = {} /\ Upto(S, l) = S
<1>1. \A n \in S : ~(n <= 0) /\ n <= l
  OBVIOUS
<1> QED
  BY <1>1, Zenon DEF Upto

\* One row more
LEMMA UptoNext ==
  ASSUME NEW l \in Nat, NEW S \in SUBSET (1..l), NEW m \in Nat
  PROVE  /\ IsFiniteSet(Upto(S, m)) /\ Cardinality(Upto(S, m)) \in Nat
         /\ Below(S, m + 1) = Upto(S, m)
         /\ m + 1 \in S => /\ Upto(S, m + 1) = Upto(S, m) \cup {m + 1}
                           /\ Cardinality(Upto(S, m + 1)) = Cardinality(Upto(S, m)) + 1
         /\ m + 1 \notin S => Upto(S, m + 1) = Upto(S, m)
<1>1. \A n \in S : /\ n <= m + 1 <=> n <= m \/ n = m + 1
                   /\ n < m + 1 <=> n <= m
  OBVIOUS
<1>2. IsFiniteSet(Upto(S, m)) /\ Cardinality(Upto(S, m)) \in Nat
  <2>1. Upto(S, m) \in SUBSET (1..l)
    BY DEF Upto
  <2>2. IsFiniteSet(1..l)
    BY FS_Interval
  <2> QED
    BY <2>1, <2>2, FS_Subset, FS_CardinalityType
<1>3. Below(S, m + 1) = Upto(S, m)
  BY <1>1, Zenon DEF Upto, Below
<1>4. ASSUME m + 1 \in S
      PROVE  /\ Upto(S, m + 1) = Upto(S, m) \cup {m + 1}
             /\ Cardinality(Upto(S, m + 1)) = Cardinality(Upto(S, m)) + 1
  <2>1. Upto(S, m + 1) = Upto(S, m) \cup {m + 1}
    BY <1>1, <1>4, Zenon DEF Upto
  <2>2. m + 1 \notin Upto(S, m)
    BY DEF Upto
  <2> QED
    BY <1>2, <2>1, <2>2, FS_AddElement
<1>5. ASSUME m + 1 \notin S
      PROVE  Upto(S, m + 1) = Upto(S, m)
  BY <1>1, <1>5, Zenon DEF Upto
<1> QED
  BY <1>2, <1>3, <1>4, <1>5, Zenon

\* The rows that fit, match or mention a file are rows of the session.
LEMMA RowSets ==
  ASSUME NEW i, NEW l \in Nat, Rows(i) \in Seq(Row), l = Len(Rows(i))
  PROVE  /\ InTimeline(i) \in SUBSET (1..l) /\ Matches(i) \in SUBSET (1..l)
         /\ \A f : Mentioning(i, f) \in SUBSET (1..l)
         /\ \A n \in 1..l : Rows(i)[n] \in Row
         /\ \A n \in 1..l : /\ n \in InTimeline(i) <=> Rows(i)[n].fits
                            /\ n \in Matches(i) <=> /\ Rows(i)[n].fits
                                                    /\ query = "text" => Rows(i)[n].hit
                            /\ \A f : n \in Mentioning(i, f) <=> f \in Rows(i)[n].files
<1>1. DOMAIN Rows(i) = 1..l /\ \A n \in 1..l : Rows(i)[n] \in Row
  BY ElementOfSeq, LenProperties
<1> QED
  BY <1>1 DEF InTimeline, Matches, Mentioning

\* A row is visited for the files it names.
LEMMA MentionedStep ==
  ASSUME NEW i, NEW l \in Nat, Rows(i) \in Seq(Row), l = Len(Rows(i)),
         NEW m \in Nat, m + 1 \in 1..l, NEW v \in WorkerRecord, CountsFiles(v, i, m)
  PROVE  LET u == Mentioned(v, Rows(i)[m + 1])
         IN  u \in WorkerRecord /\ CountsFiles(u, i, m + 1)
<1> DEFINE F == [f \in File |-> IF f \in Rows(i)[m + 1].files THEN v.files[f] + 1 ELSE v.files[f]]
           u == [v EXCEPT !.files = F]
<1>1. Mentioned(v, Rows(i)[m + 1]) = u
  BY DEF Mentioned
<1>2. F \in [File -> Nat]
  BY DEF WorkerRecord
<1>3. ASSUME NEW f \in File
      PROVE  F[f] = Cardinality(Upto(Mentioning(i, f), m + 1))
  <2>1. /\ Mentioning(i, f) \in SUBSET (1..l)
        /\ m + 1 \in Mentioning(i, f) <=> f \in Rows(i)[m + 1].files
    BY RowSets
  <2>2. /\ v.files[f] = Cardinality(Upto(Mentioning(i, f), m))
    BY DEF CountsFiles
  <2>3. /\ m + 1 \in Mentioning(i, f) =>
             Cardinality(Upto(Mentioning(i, f), m + 1)) = Cardinality(Upto(Mentioning(i, f), m)) + 1
        /\ m + 1 \notin Mentioning(i, f) =>
             Upto(Mentioning(i, f), m + 1) = Upto(Mentioning(i, f), m)
    BY <2>1, UptoNext
  <2>4. F[f] = IF f \in Rows(i)[m + 1].files THEN v.files[f] + 1 ELSE v.files[f]
    OBVIOUS
  <2> HIDE DEF F
  <2> QED
    BY <2>1, <2>2, <2>3, <2>4
<1> HIDE DEF F
<1>4. u \in WorkerRecord /\ u.files = F
  BY <1>2 DEF WorkerRecord
<1> HIDE DEF u
<1>5. CountsFiles(u, i, m + 1)
  BY <1>3, <1>4 DEF CountsFiles
<1> QED
  BY <1>1, <1>4, <1>5

\* A row that does not match leaves the latest match.
LEMMA LatestStays ==
  ASSUME NEW i, NEW m \in Nat, NEW k \in Nat, NEW x, LatestIs(x, i, m),
         Upto(Matches(i), k) = Upto(Matches(i), m)
  PROVE  LatestIs(x, i, k)
BY DEF LatestIs

\* A match at least as late as the latest one takes its place.
LEMMA LatestTaken ==
  ASSUME NEW i, NEW l \in Nat, Rows(i) \in Seq(Row), l = Len(Rows(i)),
         NEW m \in Nat, m + 1 \in 1..l, m + 1 \in Matches(i),
         NEW v \in WorkerRecord, CountsMatches(v, i, m),
         v.count = 0 \/ Rows(i)[m + 1].time >= v.latest.time
  PROVE  LatestIs([ordinal |-> v.ordinal, row |-> m + 1, time |-> Rows(i)[m + 1].time], i, m + 1)
<1> DEFINE x == [ordinal |-> v.ordinal, row |-> m + 1, time |-> Rows(i)[m + 1].time]
           M == Matches(i)
<1>1. /\ InTimeline(i) \in SUBSET (1..l) /\ M \in SUBSET (1..l)
      /\ \A n \in 1..l : Rows(i)[n] \in Row
  BY RowSets
<1>2. Upto(M, m + 1) = Upto(M, m) \cup {m + 1} /\ IsFiniteSet(Upto(M, m))
  BY <1>1, UptoNext
<1>3. Below(InTimeline(i), m + 1) = Upto(InTimeline(i), m)
  BY <1>1, UptoNext
<1>4. x.row = m + 1 /\ x.time = Rows(i)[x.row].time /\ x.ordinal = v.ordinal
  OBVIOUS
<1>5. x.ordinal = Cardinality(Below(InTimeline(i), x.row))
  BY <1>3, <1>4 DEF CountsMatches
<1> HIDE DEF x, M
<1>6. \A n \in 1..l : Rows(i)[n].time \in Nat
  BY <1>1 DEF Row
<1>7. ASSUME NEW n \in Upto(M, m + 1)
      PROVE  \/ x.time > Rows(i)[n].time
             \/ x.time = Rows(i)[n].time /\ x.row >= n
  <2>1. CASE n = m + 1
    BY <1>4, <1>6, <2>1
  <2>2. CASE n # m + 1
    <3>1. n \in Upto(M, m) /\ n \in 1..l /\ n <= m
      BY <1>1, <1>2, <2>2 DEF Upto
    <3>2. v.count # 0
      <4>1. v.count = Cardinality(Upto(M, m)) /\ Upto(M, m) # {}
        BY <3>1 DEF CountsMatches, M
      <4> QED
        BY <1>2, <4>1, FS_EmptySet
    <3>3. /\ LatestIs(v.latest, i, m) /\ v.latest.time \in Nat
          /\ Rows(i)[m + 1].time >= v.latest.time
      BY <3>2 DEF CountsMatches, WorkerRecord, Match
    <3>4. v.latest.time >= Rows(i)[n].time
      <4>1. v.latest.time > Rows(i)[n].time \/ v.latest.time = Rows(i)[n].time
        BY <3>1, <3>3 DEF LatestIs, M
      <4> QED
        BY <1>6, <3>1, <3>3, <4>1
    <3>5. x.time \in Nat /\ x.time >= v.latest.time /\ Rows(i)[n].time \in Nat
      BY <1>4, <1>6, <3>1, <3>3
    <3>6. x.row >= n
      BY <1>4, <3>1
    <3> QED
      BY <3>3, <3>4, <3>5, <3>6
  <2> QED
    BY <2>1, <2>2
<1>8. x.row \in Upto(M, m + 1)
  BY <1>2, <1>4
<1> QED
  BY <1>4, <1>5, <1>7, <1>8 DEF LatestIs, x, M

\* An earlier one does not.
LEMMA LatestKept ==
  ASSUME NEW i, NEW l \in Nat, Rows(i) \in Seq(Row), l = Len(Rows(i)),
         NEW m \in Nat, m + 1 \in 1..l, m + 1 \in Matches(i),
         NEW x \in Match, LatestIs(x, i, m), x.time > Rows(i)[m + 1].time
  PROVE  LatestIs(x, i, m + 1)
<1>1. Upto(Matches(i), m + 1) = Upto(Matches(i), m) \cup {m + 1}
  <2>1. Matches(i) \in SUBSET (1..l)
    BY RowSets
  <2> QED
    BY <2>1, UptoNext
<1> QED
  BY <1>1 DEF LatestIs

\* The record of a worker that has counted a match
LEMMA CountedType ==
  ASSUME NEW v \in WorkerRecord, NEW t \in Nat, NEW at \in Nat,
         NEW row, row.time = t
  PROVE  Counted(v, row, at) \in WorkerRecord
<1> DEFINE x == [ordinal |-> v.ordinal, row |-> at, time |-> t]
           y == IF v.count = 0 \/ t >= v.latest.time THEN x ELSE v.latest
<1>1. x \in Match
  BY DEF WorkerRecord, Match
<1>2. y \in Match /\ v.count + 1 \in Nat
  BY <1>1 DEF WorkerRecord
<1>3. Counted(v, row, at) = [v EXCEPT !.count = v.count + 1, !.latest = y]
  BY DEF Counted, WorkerRecord
<1> HIDE DEF x, y
<1>4. [v EXCEPT !.count = v.count + 1, !.latest = y] \in WorkerRecord
  BY <1>2 DEF WorkerRecord
<1> QED
  BY <1>3, <1>4

\* A row in the timeline moves the place in it.
LEMMA OrdinalStep ==
  ASSUME NEW w \in WorkerRecord
  PROVE  LET u == [w EXCEPT !.ordinal = @ + 1]
         IN  /\ u \in WorkerRecord /\ u.ordinal = w.ordinal + 1
             /\ u.count = w.count /\ u.latest = w.latest
<1>1. w.ordinal + 1 \in Nat
  BY DEF WorkerRecord
<1> QED
  BY <1>1 DEF WorkerRecord

\* A row is visited in a search.
LEMMA CountedStep ==
  ASSUME NEW i, NEW l \in Nat, Rows(i) \in Seq(Row), l = Len(Rows(i)),
         NEW m \in Nat, m + 1 \in 1..l, NEW v \in WorkerRecord, CountsMatches(v, i, m),
         query # "files"
  PROVE  LET u == Visited(v, Rows(i)[m + 1], m + 1)
         IN  u \in WorkerRecord /\ CountsMatches(u, i, m + 1)
<1> DEFINE row == Rows(i)[m + 1]
           hit == query = "text" => row.hit
           c == Counted(v, row, m + 1)
           w == IF hit THEN c ELSE v
           u == [w EXCEPT !.ordinal = @ + 1]
           M == Matches(i)
           I == InTimeline(i)
           x == [ordinal |-> v.ordinal, row |-> m + 1, time |-> row.time]
<1>1. /\ I \in SUBSET (1..l) /\ M \in SUBSET (1..l) /\ row \in Row
      /\ m + 1 \in I <=> row.fits
      /\ m + 1 \in M <=> row.fits /\ hit
  BY RowSets
<1>2. /\ m + 1 \in I => Cardinality(Upto(I, m + 1)) = Cardinality(Upto(I, m)) + 1
      /\ m + 1 \notin I => Upto(I, m + 1) = Upto(I, m)
      /\ m + 1 \in M => Cardinality(Upto(M, m + 1)) = Cardinality(Upto(M, m)) + 1
      /\ m + 1 \notin M => Upto(M, m + 1) = Upto(M, m)
  BY <1>1, UptoNext
<1>3. /\ v.ordinal = Cardinality(Upto(I, m)) /\ v.count = Cardinality(Upto(M, m))
      /\ v.count # 0 => LatestIs(v.latest, i, m)
      /\ v.ordinal \in Nat /\ v.count \in Nat /\ v.latest \in Match
  BY DEF CountsMatches, WorkerRecord
<1>4. row.time \in Nat /\ row.fits \in BOOLEAN
  BY <1>1 DEF Row
<1>5. c \in WorkerRecord
  <2> HIDE DEF row
  <2> QED
    BY <1>4, CountedType
<1>6. /\ c.ordinal = v.ordinal /\ c.count = v.count + 1
      /\ c.latest = IF v.count = 0 \/ row.time >= v.latest.time THEN x ELSE v.latest
  <2> HIDE DEF row
  <2> QED
    BY DEF Counted, WorkerRecord
<1>7. m + 1 \in M => LatestIs(c.latest, i, m + 1)
  <2>1. SUFFICES ASSUME m + 1 \in M PROVE LatestIs(c.latest, i, m + 1)
    OBVIOUS
  <2>2. CASE v.count = 0 \/ row.time >= v.latest.time
    <3>1. LatestIs(x, i, m + 1)
      BY <2>1, <2>2, LatestTaken
    <3> HIDE DEF c, x, row
    <3> QED
      BY <1>6, <2>2, <3>1
  <2>3. CASE ~(v.count = 0 \/ row.time >= v.latest.time)
    <3>1. v.latest.time > row.time
      BY <1>3, <1>4, <2>3 DEF Match
    <3>2. LatestIs(v.latest, i, m + 1)
      BY <1>3, <2>1, <2>3, <3>1, LatestKept
    <3> HIDE DEF c, x, row
    <3> QED
      BY <1>6, <2>3, <3>2
  <2> QED
    BY <2>2, <2>3
<1> HIDE DEF c
<1>8. w \in WorkerRecord /\ w.ordinal = v.ordinal
  BY <1>5, <1>6
<1>9. w.count = (IF hit THEN v.count + 1 ELSE v.count)
      /\ w.latest = (IF hit THEN c.latest ELSE v.latest)
  BY <1>6
<1> HIDE DEF w
<1>10. /\ u \in WorkerRecord /\ u.ordinal = w.ordinal + 1
       /\ u.count = w.count /\ u.latest = w.latest
  BY <1>8, OrdinalStep
<1> HIDE DEF u
<1>11. CASE row.fits
  <2>1. Visited(v, row, m + 1) = u
    BY <1>11 DEF Visited, u, w, c
  <2>2. u.ordinal = Cardinality(Upto(I, m + 1))
    <3>1. m + 1 \in I
      BY <1>1, <1>11
    <3> HIDE DEF I, row, hit
    <3> QED
      BY <1>2, <1>3, <1>8, <1>10, <3>1
  <2>3. /\ u.count = Cardinality(Upto(M, m + 1))
        /\ u.count # 0 => LatestIs(u.latest, i, m + 1)
    <3>1. CASE hit
      <4>1. m + 1 \in M
        BY <1>1, <1>11, <3>1
      <4> HIDE DEF M, row, hit
      <4> QED
        BY <1>2, <1>3, <1>7, <1>9, <1>10, <3>1, <4>1
    <3>2. CASE ~hit
      <4>1. m + 1 \notin M
        BY <1>1, <3>2
      <4>2. Upto(M, m + 1) = Upto(M, m) /\ u.count = v.count /\ u.latest = v.latest
        BY <1>2, <1>9, <1>10, <3>2, <4>1
      <4>3. LatestIs(v.latest, i, m) => LatestIs(v.latest, i, m + 1)
        BY <4>2, LatestStays
      <4> HIDE DEF M, row, hit
      <4> QED
        BY <1>3, <4>2, <4>3
    <3> QED
      BY <3>1, <3>2
  <2> HIDE DEF row
  <2> QED
    BY <1>10, <2>1, <2>2, <2>3 DEF CountsMatches, M, I, row
<1>12. CASE ~row.fits
  <2>1. Visited(v, row, m + 1) = v
    BY <1>12 DEF Visited
  <2>2. Upto(M, m + 1) = Upto(M, m) /\ Upto(I, m + 1) = Upto(I, m)
    BY <1>1, <1>2, <1>12
  <2>3. LatestIs(v.latest, i, m) => LatestIs(v.latest, i, m + 1)
    BY <2>2, LatestStays
  <2>4. CountsMatches(v, i, m + 1)
    <3> HIDE DEF row
    <3> QED
      BY <1>3, <2>2, <2>3 DEF CountsMatches, M, I
  <2> HIDE DEF row
  <2> QED
    BY <2>1, <2>4 DEF row
<1> QED
  BY <1>11, <1>12

\* A row is visited.
LEMMA VisitedDescribes ==
  ASSUME NEW i, NEW l \in Nat, Rows(i) \in Seq(Row), l = Len(Rows(i)),
         NEW m \in Nat, m + 1 \in 1..l, NEW v \in WorkerRecord, Describes(v, i, m)
  PROVE  LET u == Visited(v, Rows(i)[m + 1], m + 1)
         IN  u \in WorkerRecord /\ Describes(u, i, m + 1)
<1>1. CASE query = "files"
  <2>1. Visited(v, Rows(i)[m + 1], m + 1) = Mentioned(v, Rows(i)[m + 1])
    BY <1>1 DEF Visited
  <2>2. CountsFiles(v, i, m)
    BY <1>1 DEF Describes
  <2> QED
    BY <1>1, <2>1, <2>2, MentionedStep DEF Describes
<1>2. CASE query # "files"
  <2>1. CountsMatches(v, i, m)
    BY <1>2 DEF Describes
  <2> QED
    BY <1>2, <2>1, CountedStep DEF Describes
<1> QED
  BY <1>1, <1>2

\* Where a worker is.
SamePlace(u, v) ==
  /\ u.phase = v.phase /\ u.session = v.session /\ u.page = v.page /\ u.row = v.row

\* A visit moves a worker nowhere.
LEMMA VisitedStays ==
  ASSUME NEW v \in WorkerRecord, NEW row, NEW at
  PROVE  SamePlace(Visited(v, row, at), v)
<1>1. SamePlace(Mentioned(v, row), v) /\ SamePlace(v, v)
  BY DEF SamePlace, Mentioned, WorkerRecord
<1>2. SamePlace([Counted(v, row, at) EXCEPT !.ordinal = @ + 1], v)
  BY DEF SamePlace, Counted, WorkerRecord
<1>3. SamePlace([v EXCEPT !.ordinal = @ + 1], v)
  BY DEF SamePlace, WorkerRecord
<1> QED
  BY <1>1, <1>2, <1>3 DEF Visited

\* What a worker knows does not depend on where it is.
LEMMA DescribesSame ==
  ASSUME NEW u, NEW v, NEW i, NEW m, Describes(v, i, m),
         u.ordinal = v.ordinal, u.count = v.count, u.latest = v.latest, u.files = v.files
  PROVE  Describes(u, i, m)
BY DEF Describes, CountsFiles, CountsMatches

-----------------------------------------------------------------------------
(* The scan of a shard *)

Shape == shards \in Seq(Seq(Seq(Row)))

\* The number of rows of the pages before the worker's.
Done(v) == Len(Start(Pages(v), v.page - 1))

\* The pages and rows of a session
LEMMA SessionRows ==
  ASSUME Shape, NEW i \in 1..Len(shards)
  PROVE  /\ shards[i] \in Seq(Seq(Row)) /\ Len(shards[i]) \in Nat
         /\ Rows(i) \in Seq(Row) /\ Len(Rows(i)) \in Nat
         /\ Rows(i) = Start(shards[i], Len(shards[i]))
<1>1. shards[i] \in Seq(Seq(Row))
  BY ElementOfSeq DEF Shape
<1>2. Len(shards[i]) \in Nat
  BY <1>1, LenProperties
<1>3. Rows(i) = Start(shards[i], Len(shards[i]))
  BY <1>1, StartEnds DEF Rows
<1>4. Rows(i) \in Seq(Row)
  <2>1. Len(shards[i]) \in 0..Len(shards[i])
    BY <1>2
  <2> QED
    BY <1>1, <1>3, <2>1, StartType
<1>5. Len(Rows(i)) \in Nat
  BY <1>4, LenProperties
<1> QED
  BY <1>1, <1>2, <1>3, <1>4, <1>5

\* The row a worker is at, and its number.
LEMMA RowAt ==
  ASSUME Shape, NEW v \in WorkerRecord, v.session \in 1..Len(shards),
         v.page \in 1..Len(Pages(v))
  PROVE  /\ Done(v) \in Nat /\ Len(Pages(v)[v.page]) \in Nat
         /\ Len(Start(Pages(v), v.page)) = Done(v) + Len(Pages(v)[v.page])
         /\ \A n \in 1..Len(Pages(v)[v.page]) :
              /\ RowNumber(v, n) = Done(v) + n
              /\ RowNumber(v, n) \in 1..Len(Rows(v.session))
              /\ Rows(v.session)[RowNumber(v, n)] = Pages(v)[v.page][n]
<1> DEFINE s == Pages(v)
           p == v.page
<1>1. s \in Seq(Seq(Row)) /\ p \in 1..Len(s)
  BY SessionRows DEF Pages
<1>2. Rows(v.session) = FlattenSeq(s)
  BY DEF Rows, Pages
<1>3. \A n : RowNumber(v, n) = Len(Start(s, p - 1)) + n
  BY DEF RowNumber, Start
<1>4. Done(v) = Len(Start(s, p - 1))
  BY DEF Done
<1> HIDE DEF s, p
<1>5. /\ Len(Start(s, p - 1)) \in Nat /\ Len(s[p]) \in Nat
      /\ Len(Start(s, p)) = Len(Start(s, p - 1)) + Len(s[p])
      /\ \A n \in 1..Len(s[p]) :
           /\ Len(Start(s, p - 1)) + n \in 1..Len(FlattenSeq(s))
           /\ FlattenSeq(s)[Len(Start(s, p - 1)) + n] = s[p][n]
  BY <1>1, Place, Zenon
<1> QED
  BY <1>2, <1>3, <1>4, <1>5 DEF s, p

\* u has visited the n-th row of the page v is at.
LEMMA RowVisited ==
  ASSUME Shape, NEW v \in WorkerRecord, v.session \in 1..Len(shards),
         v.page \in 1..Len(Pages(v)), NEW n \in 1..Len(Pages(v)[v.page]),
         NEW u \in WorkerRecord, Describes(u, v.session, Done(v) + n - 1)
  PROVE  LET x == Visited(u, Pages(v)[v.page][n], RowNumber(v, n))
         IN  x \in WorkerRecord /\ Describes(x, v.session, Done(v) + n) /\ SamePlace(x, u)
<1>1. PICK i : i = v.session
  OBVIOUS
<1>2. PICK l \in Nat : l = Len(Rows(i)) /\ Rows(i) \in Seq(Row)
  BY <1>1, SessionRows
<1>3. /\ Done(v) \in Nat /\ Len(Pages(v)[v.page]) \in Nat
      /\ RowNumber(v, n) = Done(v) + n /\ RowNumber(v, n) \in 1..l
      /\ Rows(i)[RowNumber(v, n)] = Pages(v)[v.page][n]
  BY <1>1, <1>2, RowAt
<1>4. PICK m \in Nat : m = Done(v) + n - 1 /\ m + 1 = Done(v) + n
  BY <1>3
<1>5. m + 1 \in 1..l /\ Describes(u, i, m)
  BY <1>1, <1>3, <1>4
<1>6. LET x == Visited(u, Rows(i)[m + 1], m + 1)
      IN  x \in WorkerRecord /\ Describes(x, i, m + 1)
  BY <1>2, <1>5, VisitedDescribes
<1>7. SamePlace(Visited(u, Rows(i)[m + 1], m + 1), u)
  BY VisitedStays
<1> QED
  BY <1>1, <1>3, <1>4, <1>6, <1>7

\* The rows of a page are visited one after the other.
Visits(v, l, g) ==
  g = [n \in 0..l |-> IF n = 0 THEN v
                      ELSE Visited(g[n - 1], Pages(v)[v.page][n], RowNumber(v, n))]

\* The recursive function of PageVisited exists,
LEMMA VisitsExist ==
  ASSUME NEW v, NEW l \in Nat
  PROVE  \E g : Visits(v, l, g)
<1> DEFINE A == {k \in Nat : \E g : Visits(v, k, g)}
<1>1. 0 \in A
  <2> DEFINE V(f, n) == IF n = 0 THEN v
                        ELSE Visited(f[n - 1], Pages(v)[v.page][n], RowNumber(v, n))
             g == [n \in 0..0 |-> v]
  <2>1. \A n \in 0..0 : V(g, n) = v
    OBVIOUS
  <2>2. g = [n \in 0..0 |-> V(g, n)]
    <3>1. g = [n \in 0..0 |-> v]
      OBVIOUS
    <3> HIDE DEF g, V
    <3> QED
      BY <2>1, <3>1
  <2> HIDE DEF g
  <2> QED
    BY <2>2 DEF Visits
<1>2. ASSUME NEW k \in A PROVE k + 1 \in A
  <2>1. PICK g : Visits(v, k, g)
    OBVIOUS
  <2>2. k \in Nat
    OBVIOUS
  <2> DEFINE V(f, n) == IF n = 0 THEN v
                        ELSE Visited(f[n - 1], Pages(v)[v.page][n], RowNumber(v, n))
             h == [n \in 0..(k + 1) |-> V(g, n)]
  <2>3. \A n \in 0..k : g[n] = V(g, n)
    BY <2>1 DEF Visits
  <2>4. ASSUME NEW n \in 0..(k + 1) PROVE V(g, n) = V(h, n)
    <3>1. CASE n = 0
      BY <3>1
    <3>2. CASE n # 0
      <4>1. n - 1 \in 0..k /\ n - 1 \in 0..(k + 1)
        BY <2>2, <3>2
      <4>2. h[n - 1] = V(g, n - 1) /\ g[n - 1] = V(g, n - 1)
        BY <2>3, <4>1
      <4>3. h[n - 1] = g[n - 1]
        BY <4>2
      <4> HIDE DEF h
      <4> QED
        BY <3>2, <4>3
    <3> QED
      BY <3>1, <3>2
  <2>5. h = [n \in 0..(k + 1) |-> V(h, n)]
    <3>1. h = [n \in 0..(k + 1) |-> V(g, n)]
      OBVIOUS
    <3> HIDE DEF h, V
    <3> QED
      BY <2>4, <3>1
  <2> HIDE DEF h
  <2>6. Visits(v, k + 1, h)
    BY <2>5 DEF Visits
  <2> QED
    BY <2>2, <2>6
<1>3. A = Nat
  <2> HIDE DEF A
  <2>1. A \in SUBSET Nat
    BY DEF A
  <2> QED
    BY <1>1, <1>2, <2>1, Induction
<1>4. l \in A
  <2> HIDE DEF A
  <2> QED
    BY <1>3
<1> QED
  BY <1>4

\* is what it is at each row,
LEMMA VisitsAt ==
  ASSUME NEW v, NEW l \in Nat, NEW g, Visits(v, l, g), NEW n \in 0..l
  PROVE  g[n] = IF n = 0 THEN v
                ELSE Visited(g[n - 1], Pages(v)[v.page][n], RowNumber(v, n))
BY DEF Visits

\* and PageVisited is its value at the last row.
LEMMA PageVisitedChosen ==
  ASSUME NEW v, NEW l \in Nat, l = Len(Pages(v)[v.page])
  PROVE  \E g : Visits(v, l, g) /\ PageVisited(v) = g[l]
<1> DEFINE g == CHOOSE h : Visits(v, Len(Pages(v)[v.page]), h)
<1>1. Visits(v, l, g)
  BY VisitsExist
<1>2. PageVisited(v) = g[Len(Pages(v)[v.page])]
  BY DEF PageVisited, Visits
<1> HIDE DEF g
<1> QED
  BY <1>1, <1>2

\* A page is visited in one turn.
LEMMA PageDescribes ==
  ASSUME Shape, NEW v \in WorkerRecord, v.session \in 1..Len(shards),
         v.page \in 1..Len(Pages(v)), Describes(v, v.session, Done(v))
  PROVE  LET u == PageVisited(v)
         IN  /\ u \in WorkerRecord /\ SamePlace(u, v)
             /\ Describes(u, v.session, Done(v) + Len(Pages(v)[v.page]))
<1>1. PICK l \in Nat, d \in Nat : l = Len(Pages(v)[v.page]) /\ d = Done(v)
  BY RowAt
<1>2. PICK g : Visits(v, l, g) /\ PageVisited(v) = g[l]
  BY <1>1, PageVisitedChosen
<1> DEFINE Good(n) == g[n] \in WorkerRecord /\ SamePlace(g[n], v) /\ Describes(g[n], v.session, d + n)
           A == {n \in Nat : n \in 0..l => Good(n)}
<1>3. 0 \in A
  <2>1. g[0] = v
    <3>1. 0 \in 0..l
      OBVIOUS
    <3> QED
      BY <1>2, <3>1, VisitsAt
  <2>2. d + 0 = d
    OBVIOUS
  <2>3. SamePlace(v, v)
    BY DEF SamePlace
  <2> QED
    BY <1>1, <2>1, <2>2, <2>3
<1>4. ASSUME NEW n \in A PROVE n + 1 \in A
  <2>1. SUFFICES ASSUME n + 1 \in 0..l PROVE Good(n + 1)
    OBVIOUS
  <2>2. n \in Nat /\ n \in 0..l /\ n + 1 \in 1..l /\ n + 1 # 0 /\ (n + 1) - 1 = n
        /\ d + (n + 1) - 1 = d + n
    BY <2>1
  <2>3. g[n] \in WorkerRecord /\ SamePlace(g[n], v) /\ Describes(g[n], v.session, d + n)
    BY <2>2
  <2>4. g[n + 1] = Visited(g[n], Pages(v)[v.page][n + 1], RowNumber(v, n + 1))
    <3>1. g[n + 1] = IF n + 1 = 0 THEN v
                     ELSE Visited(g[(n + 1) - 1], Pages(v)[v.page][n + 1], RowNumber(v, n + 1))
      BY <1>2, <2>1, VisitsAt
    <3> QED
      BY <2>2, <3>1
  <2>5. PICK k \in Nat, u \in WorkerRecord : k = n + 1 /\ u = g[n]
    BY <2>2, <2>3
  <2>6. k \in 1..Len(Pages(v)[v.page]) /\ Describes(u, v.session, Done(v) + k - 1)
    BY <1>1, <2>2, <2>3, <2>5
  <2>7. LET x == Visited(u, Pages(v)[v.page][k], RowNumber(v, k))
        IN  x \in WorkerRecord /\ Describes(x, v.session, Done(v) + k) /\ SamePlace(x, u)
    BY <2>6, RowVisited
  <2>8. g[k] \in WorkerRecord /\ Describes(g[k], v.session, d + k) /\ SamePlace(g[k], g[n])
    BY <1>1, <2>4, <2>5, <2>7
  <2>9. SamePlace(g[k], v)
    BY <2>3, <2>8 DEF SamePlace
  <2> QED
    BY <2>5, <2>8, <2>9
<1>5. A = Nat
  <2> HIDE DEF A
  <2>1. A \in SUBSET Nat
    BY DEF A
  <2> QED
    BY <1>3, <1>4, <2>1, Induction
<1>6. Good(l)
  <2>1. l \in 0..l
    OBVIOUS
  <2> HIDE DEF Good
  <2> QED
    BY <1>5, <2>1
<1> QED
  BY <1>1, <1>2, <1>6

\* What is known of a worker that is at a session.
AtRow(v) ==
  /\ query = "text"
  /\ v.page \in 1..Len(Pages(v)) /\ v.row \in 1..Len(Pages(v)[v.page])
  /\ Describes(v, v.session, Done(v) + v.row - 1)

AtPageHead(v) ==
  /\ v.page \in 1..Len(Pages(v)) + 1 /\ v.row = 1
  /\ Describes(v, v.session, Done(v))

AtEnd(v) == Describes(v, v.session, Len(Rows(v.session)))

Scanning == {"row", "tick", "scanned", "preview"}

Holding(v) ==
  /\ v \in WorkerRecord
  /\ v.phase \in Scanning => v.session \in 1..Len(shards)
  /\ v.phase = "row" => AtRow(v)
  /\ v.phase = "tick" => AtPageHead(v)
  /\ v.phase \in {"scanned", "preview"} => AtEnd(v)
  /\ v.phase = "done" => v.session = 0

\* A worker that awaits something else knows what it knew.
LEMMA PhaseSet ==
  ASSUME NEW v \in WorkerRecord, NEW phase \in WorkerPhase
  PROVE  LET u == [v EXCEPT !.phase = phase]
         IN  /\ u \in WorkerRecord /\ u.phase = phase
             /\ u.session = v.session /\ u.page = v.page /\ u.row = v.row
             /\ \A i, m : Describes(v, i, m) => Describes(u, i, m)
<1> DEFINE u == [v EXCEPT !.phase = phase]
<1>1. /\ u \in WorkerRecord /\ u.phase = phase
      /\ u.session = v.session /\ u.page = v.page /\ u.row = v.row
      /\ u.ordinal = v.ordinal /\ u.count = v.count /\ u.latest = v.latest /\ u.files = v.files
  BY DEF WorkerRecord
<1> HIDE DEF u
<1>2. \A i, m : Describes(v, i, m) => Describes(u, i, m)
  BY <1>1, DescribesSame
<1> QED
  BY <1>1, <1>2 DEF u

\* A worker that goes to the next page does so too.
LEMMA PageEndedFacts ==
  ASSUME NEW v \in WorkerRecord
  PROVE  LET u == PageEnded(v)
         IN  /\ u \in WorkerRecord /\ u.phase = "tick"
             /\ u.session = v.session /\ u.page = v.page + 1 /\ u.row = 1
             /\ \A i, m : Describes(v, i, m) => Describes(u, i, m)
<1> DEFINE u == PageEnded(v)
<1>1. /\ u \in WorkerRecord /\ u.phase = "tick"
      /\ u.session = v.session /\ u.page = v.page + 1 /\ u.row = 1
      /\ u.ordinal = v.ordinal /\ u.count = v.count /\ u.latest = v.latest /\ u.files = v.files
  <2>1. v.page + 1 \in Nat \ {0} /\ 1 \in Nat \ {0} /\ "tick" \in WorkerPhase
    BY DEF WorkerRecord, WorkerPhase
  <2> QED
    BY <2>1 DEF PageEnded, WorkerRecord
<1> HIDE DEF u
<1>2. \A i, m : Describes(v, i, m) => Describes(u, i, m)
  BY <1>1, DescribesSame
<1> QED
  BY <1>1, <1>2 DEF u

\* A page has been visited.
LEMMA PageEndedHolds ==
  ASSUME Shape, NEW v \in WorkerRecord, v.session \in 1..Len(shards),
         v.page \in 1..Len(Pages(v)),
         Describes(v, v.session, Done(v) + Len(Pages(v)[v.page]))
  PROVE  Holding(PageEnded(v)) /\ PageEnded(v).session = v.session
<1> DEFINE u == PageEnded(v)
<1>1. /\ u \in WorkerRecord /\ u.phase = "tick"
      /\ u.session = v.session /\ u.page = v.page + 1 /\ u.row = 1
      /\ \A i, m : Describes(v, i, m) => Describes(u, i, m)
  BY PageEndedFacts
<1> HIDE DEF u
<1>2. Pages(u) = Pages(v)
  BY <1>1 DEF Pages
<1>3. Done(u) = Done(v) + Len(Pages(v)[v.page])
  <2>1. v.page \in Nat /\ (v.page + 1) - 1 = v.page
    BY DEF WorkerRecord
  <2>2. Done(u) = Len(Start(Pages(v), v.page))
    BY <1>1, <1>2, <2>1 DEF Done
  <2> QED
    BY <2>2, RowAt
<1>4. u.page \in 1..Len(Pages(u)) + 1
  <2>1. Len(Pages(v)) \in Nat
    BY SessionRows DEF Pages
  <2> QED
    BY <1>1, <1>2, <2>1
<1>5. Describes(u, u.session, Done(u))
  BY <1>1, <1>3
<1>6. AtPageHead(u)
  BY <1>1, <1>4, <1>5 DEF AtPageHead
<1> QED
  BY <1>1, <1>6 DEF Holding, u

\* From the head of the loop over the pages to the next await.
LEMMA AtPageHolds ==
  ASSUME Shape, NEW v \in WorkerRecord, v.session \in 1..Len(shards), AtPageHead(v)
  PROVE  Holding(AtPage(v)) /\ AtPage(v).session = v.session
<1>1. /\ v.page \in 1..Len(Pages(v)) + 1 /\ v.row = 1 /\ Describes(v, v.session, Done(v))
      /\ v.page \in Nat /\ Pages(v) = shards[v.session]
      /\ Pages(v) \in Seq(Seq(Row)) /\ Len(Pages(v)) \in Nat
      /\ Rows(v.session) = Start(Pages(v), Len(Pages(v)))
  BY SessionRows DEF AtPageHead, Pages, WorkerRecord
<1>2. CASE v.page > Len(Pages(v))
  <2> DEFINE u == [v EXCEPT !.phase = "scanned"]
  <2>1. AtPage(v) = u
    BY <1>2 DEF AtPage
  <2>2. /\ u \in WorkerRecord /\ u.phase = "scanned" /\ u.session = v.session
        /\ \A i, m : Describes(v, i, m) => Describes(u, i, m)
    <3>1. "scanned" \in WorkerPhase
      BY DEF WorkerPhase
    <3> QED
      BY <3>1, PhaseSet
  <2> HIDE DEF u
  <2>3. Done(v) = Len(Rows(v.session))
    <3>1. v.page - 1 = Len(Pages(v))
      BY <1>1, <1>2
    <3> QED
      BY <1>1, <3>1 DEF Done
  <2>4. AtEnd(u)
    BY <1>1, <2>2, <2>3 DEF AtEnd
  <2>5. Holding(u)
    BY <2>2, <2>4 DEF Holding
  <2> QED
    BY <2>1, <2>2, <2>5
<1>3. ASSUME ~(v.page > Len(Pages(v)))
      PROVE  v.page \in 1..Len(Pages(v)) /\ Pages(v)[v.page] \in Seq(Row)
  <2>1. v.page \in 1..Len(Pages(v))
    BY <1>1, <1>3
  <2> QED
    BY <1>1, <2>1, ElementOfSeq
<1>4. CASE ~(v.page > Len(Pages(v))) /\ query = "text" /\ Pages(v)[v.page] # <<>>
  <2> DEFINE u == [v EXCEPT !.phase = "row"]
  <2>1. AtPage(v) = u
    BY <1>4 DEF AtPage
  <2>2. /\ u \in WorkerRecord /\ u.phase = "row"
        /\ u.session = v.session /\ u.page = v.page /\ u.row = v.row
        /\ \A i, m : Describes(v, i, m) => Describes(u, i, m)
    <3>1. "row" \in WorkerPhase
      BY DEF WorkerPhase
    <3> QED
      BY <3>1, PhaseSet
  <2> HIDE DEF u
  <2>3. Pages(u) = Pages(v)
    BY <2>2 DEF Pages
  <2>4. Done(u) = Done(v) /\ Done(v) \in Nat
    BY <1>3, <1>4, <2>2, <2>3, RowAt DEF Done
  <2>5. Len(Pages(v)[v.page]) \in Nat \ {0}
    BY <1>3, <1>4, EmptySeq
  <2>6. v.row \in 1..Len(Pages(v)[v.page]) /\ Done(v) + v.row - 1 = Done(v)
    BY <1>1, <2>4, <2>5
  <2>7. AtRow(u)
    BY <1>1, <1>3, <1>4, <2>2, <2>3, <2>4, <2>6 DEF AtRow
  <2>8. Holding(u)
    BY <2>2, <2>7 DEF Holding
  <2> QED
    BY <2>1, <2>2, <2>8
<1>5. CASE ~(v.page > Len(Pages(v))) /\ ~(query = "text" /\ Pages(v)[v.page] # <<>>)
  <2> DEFINE u == PageVisited(v)
  <2>1. AtPage(v) = PageEnded(u)
    BY <1>5 DEF AtPage
  <2>2. /\ u \in WorkerRecord /\ SamePlace(u, v)
        /\ Describes(u, v.session, Done(v) + Len(Pages(v)[v.page]))
    BY <1>1, <1>3, <1>5, PageDescribes
  <2> HIDE DEF u
  <2>3. u.session = v.session /\ u.page = v.page /\ Pages(u) = Pages(v) /\ Done(u) = Done(v)
    BY <2>2 DEF SamePlace, Pages, Done
  <2>4. /\ u.session \in 1..Len(shards) /\ u.page \in 1..Len(Pages(u))
        /\ Describes(u, u.session, Done(u) + Len(Pages(u)[u.page]))
    BY <1>3, <1>5, <2>2, <2>3
  <2>5. Holding(PageEnded(u)) /\ PageEnded(u).session = u.session
    BY <2>2, <2>4, PageEndedHolds
  <2> QED
    BY <2>1, <2>3, <2>5
<1> QED
  BY <1>2, <1>4, <1>5

\* Nothing is claimed of a worker that has failed.
LEMMA FailedHolds ==
  ASSUME NEW v \in WorkerRecord
  PROVE  Holding(Failed(v)) /\ Failed(v).session = v.session
<1>1. Failed(v) \in WorkerRecord /\ Failed(v).phase = "failed" /\ Failed(v).session = v.session
  BY DEF Failed, WorkerRecord, WorkerPhase
<1> QED
  BY <1>1 DEF Holding, Scanning

\* The text of a row has been searched.
LEMMA AfterRowHolds ==
  ASSUME Shape, NEW v, Holding(v), v.phase = "row"
  PROVE  Holding(AfterRow(v)) /\ AfterRow(v).session = v.session
<1>1. /\ v \in WorkerRecord /\ v.session \in 1..Len(shards) /\ query = "text"
      /\ v.page \in 1..Len(Pages(v)) /\ v.row \in 1..Len(Pages(v)[v.page])
      /\ Describes(v, v.session, Done(v) + v.row - 1)
  BY DEF Holding, AtRow, Scanning
<1> DEFINE u == Visited(v, Pages(v)[v.page][v.row], RowNumber(v, v.row))
           l == Len(Pages(v)[v.page])
<1>2. /\ u \in WorkerRecord /\ Describes(u, v.session, Done(v) + v.row) /\ SamePlace(u, v)
  BY <1>1, RowVisited
<1>3. l \in Nat /\ v.row \in Nat /\ v.row <= l /\ Done(v) \in Nat
  BY <1>1, RowAt
<1>4. CASE v.row = l
  <2>1. AfterRow(v) = PageEnded(u)
    BY <1>4 DEF AfterRow
  <2> HIDE DEF u
  <2>2. u.session = v.session /\ u.page = v.page /\ Pages(u) = Pages(v) /\ Done(u) = Done(v)
    BY <1>2 DEF SamePlace, Pages, Done
  <2>3. /\ u.session \in 1..Len(shards) /\ u.page \in 1..Len(Pages(u))
        /\ Describes(u, u.session, Done(u) + Len(Pages(u)[u.page]))
    BY <1>1, <1>2, <1>4, <2>2
  <2>4. Holding(PageEnded(u)) /\ PageEnded(u).session = u.session
    BY <1>2, <2>3, PageEndedHolds
  <2> QED
    BY <2>1, <2>2, <2>4
<1>5. CASE v.row < l /\ aborted
  <2>1. AfterRow(v) = Failed(u)
    BY <1>3, <1>5 DEF AfterRow
  <2> HIDE DEF u
  <2> QED
    BY <1>2, <2>1, FailedHolds DEF SamePlace
<1>6. CASE v.row < l /\ ~aborted
  <2> DEFINE x == [u EXCEPT !.row = u.row + 1]
  <2>1. AfterRow(v) = x
    BY <1>3, <1>6 DEF AfterRow
  <2> HIDE DEF u
  <2>2. u.phase = "row" /\ u.session = v.session /\ u.page = v.page /\ u.row = v.row
    BY <1>2 DEF SamePlace
  <2>3. /\ x \in WorkerRecord /\ x.phase = "row" /\ x.session = v.session
        /\ x.page = v.page /\ x.row = v.row + 1
        /\ x.ordinal = u.ordinal /\ x.count = u.count /\ x.latest = u.latest /\ x.files = u.files
    <3>1. PICK r \in Nat \ {0} : r = v.row + 1 /\ x = [u EXCEPT !.row = r]
      <4>1. PICK r \in Nat \ {0} : r = v.row + 1
        BY <1>3
      <4>2. u.row + 1 = r
        BY <2>2, <4>1
      <4>3. x = [u EXCEPT !.row = r]
        BY <4>2
      <4> HIDE DEF x
      <4> QED
        BY <4>1, <4>3
    <3>2. u \in WorkerRecord
      BY <1>2
    <3> HIDE DEF x
    <3>3. x \in WorkerRecord /\ x.row = r
      BY <3>1, <3>2 DEF WorkerRecord
    <3>4. /\ x.phase = u.phase /\ x.session = u.session /\ x.page = u.page
          /\ x.ordinal = u.ordinal /\ x.count = u.count /\ x.latest = u.latest /\ x.files = u.files
      BY <3>1, <3>2 DEF WorkerRecord
    <3> QED
      BY <2>2, <3>1, <3>3, <3>4
  <2> HIDE DEF x
  <2>4. Pages(x) = Pages(v) /\ Done(x) = Done(v)
    BY <2>3 DEF Pages, Done
  <2>5. Describes(x, x.session, Done(v) + v.row)
    BY <1>2, <2>3, DescribesSame
  <2>6. x.row \in 1..l /\ Done(x) + x.row - 1 = Done(v) + v.row
    BY <1>1, <1>3, <1>6, <2>3, <2>4
  <2>7. AtRow(x)
    BY <1>1, <2>3, <2>4, <2>5, <2>6 DEF AtRow
  <2>8. Holding(x)
    BY <1>1, <2>3, <2>7 DEF Holding
  <2> QED
    BY <2>1, <2>3, <2>8
<1>7. v.row = l \/ v.row < l
  BY <1>3
<1> QED
  BY <1>4, <1>5, <1>6, <1>7

\* A worker goes on after a tick.
LEMMA AfterTickHolds ==
  ASSUME Shape, NEW v, Holding(v), v.phase = "tick"
  PROVE  Holding(AfterTick(v)) /\ AfterTick(v).session = v.session
<1>1. v \in WorkerRecord /\ v.session \in 1..Len(shards) /\ AtPageHead(v)
  BY DEF Holding, Scanning
<1> QED
  BY <1>1, FailedHolds, AtPageHolds DEF AfterTick

\* Nothing has been counted yet.
LEMMA FreshDescribes ==
  ASSUME NEW i, Rows(i) \in Seq(Row), NEW phase
  PROVE  Describes(Fresh(phase, i), i, 0)
<1> DEFINE v == Fresh(phase, i)
<1>1. v.ordinal = 0 /\ v.count = 0 /\ v.files = [f \in File |-> 0]
  BY DEF Fresh, Nothing
<1> HIDE DEF v
<1>2. PICK l \in Nat : l = Len(Rows(i))
  BY LenProperties
<1>3. /\ InTimeline(i) \in SUBSET (1..l) /\ Matches(i) \in SUBSET (1..l)
      /\ \A f : Mentioning(i, f) \in SUBSET (1..l)
  BY <1>2, RowSets
<1>4. /\ Upto(InTimeline(i), 0) = {} /\ Upto(Matches(i), 0) = {}
      /\ \A f : Upto(Mentioning(i, f), 0) = {}
  BY <1>3, UptoEnds
<1>5. Cardinality({}) = 0
  BY FS_EmptySet
<1>6. CountsFiles(v, i, 0)
  BY <1>1, <1>4, <1>5 DEF CountsFiles
<1>7. CountsMatches(v, i, 0)
  BY <1>1, <1>4, <1>5 DEF CountsMatches
<1> QED
  BY <1>6, <1>7 DEF Describes, v

\* A worker at its first page
LEMMA FreshType ==
  ASSUME NEW i \in Nat, NEW phase \in WorkerPhase
  PROVE  /\ Fresh(phase, i) \in WorkerRecord /\ Fresh(phase, i).phase = phase
         /\ Fresh(phase, i).session = i /\ Fresh(phase, i).page = 1 /\ Fresh(phase, i).row = 1
<1>1. NoMatch \in Match /\ Nothing \in [File -> Nat]
  BY DEF NoMatch, Match, Nothing
<1> QED
  BY <1>1 DEF Fresh, WorkerRecord

\* A worker takes the i-th session, or there is none.
LEMMA TakenHolds ==
  ASSUME Shape, NEW i \in Nat \ {0}
  PROVE  /\ Holding(Taken(i))
         /\ i > Len(shards) => Taken(i).phase = "done"
         /\ ~(i > Len(shards)) /\ aborted => Taken(i).phase = "failed" /\ Taken(i).session = 0
         /\ ~(i > Len(shards)) /\ ~aborted => Taken(i).session = i
<1>0. PICK l \in Nat : l = Len(shards)
  BY LenProperties DEF Shape
<1>1. CASE i > l
  <2>1. Taken(i) = Fresh("done", 0)
    BY <1>0, <1>1 DEF Taken
  <2>2. "done" \in WorkerPhase /\ "done" \notin Scanning
    BY DEF WorkerPhase, Scanning
  <2>3. Fresh("done", 0) \in WorkerRecord /\ Fresh("done", 0).phase = "done"
        /\ Fresh("done", 0).session = 0
    BY <2>2, FreshType
  <2>4. Holding(Taken(i))
    BY <2>1, <2>2, <2>3 DEF Holding
  <2> QED
    BY <1>0, <1>1, <2>1, <2>3, <2>4
<1>2. CASE i <= l /\ aborted
  <2>1. Taken(i) = Fresh("failed", 0)
    BY <1>0, <1>2 DEF Taken
  <2>2. "failed" \in WorkerPhase /\ "failed" \notin Scanning
    BY DEF WorkerPhase, Scanning
  <2>3. Fresh("failed", 0) \in WorkerRecord /\ Fresh("failed", 0).phase = "failed"
        /\ Fresh("failed", 0).session = 0
    BY <2>2, FreshType
  <2>4. Holding(Taken(i))
    BY <2>1, <2>2, <2>3 DEF Holding
  <2> QED
    BY <1>0, <1>2, <2>1, <2>3, <2>4
<1>3. CASE i <= l /\ ~aborted
  <2> DEFINE v == Fresh("scan", i)
  <2>1. Taken(i) = AtPage(v)
    BY <1>0, <1>3 DEF Taken
  <2>2. v \in WorkerRecord /\ v.session = i /\ v.page = 1 /\ v.row = 1
    BY FreshType DEF WorkerPhase
  <2>3. i \in 1..Len(shards)
    BY <1>0, <1>3
  <2>4. /\ Rows(i) \in Seq(Row) /\ shards[i] \in Seq(Seq(Row)) /\ Len(shards[i]) \in Nat
    BY <2>3, SessionRows
  <2>5. Describes(v, i, 0)
    BY <2>4, FreshDescribes
  <2> HIDE DEF v
  <2>6. Pages(v) = shards[i]
    BY <2>2 DEF Pages
  <2>7. Done(v) = 0
    <3>1. v.page - 1 = 0
      BY <2>2
    <3>2. Start(shards[i], 0) = <<>>
      BY <2>4, StartEnds
    <3> QED
      BY <2>6, <3>1, <3>2, EmptySeq DEF Done
  <2>8. AtPageHead(v)
    BY <2>2, <2>4, <2>5, <2>6, <2>7 DEF AtPageHead
  <2>9. Holding(AtPage(v)) /\ AtPage(v).session = v.session
    BY <2>2, <2>3, <2>8, AtPageHolds
  <2> QED
    BY <1>0, <1>3, <2>1, <2>2, <2>9
<1> QED
  BY <1>0, <1>1, <1>2, <1>3

-----------------------------------------------------------------------------
(* The pool *)

ResultRecord == [session : Nat, count : Nat, latest : Match, files : [File -> Nat]]

\* r is what a search of session i in memory would find.
Right(r, i) ==
  /\ r \in ResultRecord /\ r.session = i
  /\ query = "files" => \A f \in File : r.files[f] = Cardinality(Mentioning(i, f))
  /\ query # "files" =>
       /\ r.count = Cardinality(Matches(i))
       /\ r.count # 0 => LatestIs(r.latest, i, Len(Rows(i)))

Typed ==
  /\ shards \in Projects /\ query \in {"text", "structure", "files"}
  /\ nextIndex \in 1..Len(shards) + 1
  /\ worker \in [Worker -> WorkerRecord]

\* No session that was taken is lost.
Accounted ==
  \A i \in 1..nextIndex - 1 :
    i \in DOMAIN results \/ \E w \in Worker : worker[w].session = i

ResultsRight == \A i \in DOMAIN results : i \in 1..Len(shards) /\ Right(results[i], i)

\* A worker stops when every session is taken.
AllTaken == \A w \in Worker : worker[w].phase = "done" => nextIndex = Len(shards) + 1

Settling ==
  outcome \in {"all", "answered"} => \A w \in Worker : worker[w].phase = "done"

Answered == outcome = "answered" => answer = Merged

QueryInv ==
  /\ Typed /\ \A w \in Worker : Holding(worker[w])
  /\ Accounted /\ ResultsRight /\ AllTaken /\ Settling /\ Answered

\* A project is a sequence of sequences of sequences of rows.
LEMMA ProjectsShape ==
  ASSUME shards \in Projects
  PROVE  Shape
BY QueryAssumption DEF Shape

\* The workers' knowledge is about the project and the query, which stay.
LEMMA HoldingStays ==
  ASSUME NEW v, Holding(v), shards' = shards, query' = query
  PROVE  Holding(v)'
BY DEF Holding, AtRow, AtPageHead, AtEnd, Describes, CountsFiles, CountsMatches, LatestIs,
       Done, Start, Pages, Rows, Matches, InTimeline, Mentioning

\* So is what they have delivered.
LEMMA RightStays ==
  ASSUME NEW r, NEW i, Right(r, i), shards' = shards, query' = query
  PROVE  Right(r, i)'
BY DEF Right, LatestIs, Rows, Matches, InTimeline, Mentioning

\* What is merged depends on the query and the results only.
LEMMA MergedStays ==
  ASSUME query' = query, results' = results
  PROVE  Merged' = Merged
BY DEF Merged, Sorted, SetToSeqs, FirstOf, MapThenSumSet, MapThenFoldSet

\* When a worker goes on, and the others wait.
LEMMA WorkersHold ==
  ASSUME QueryInv, NEW w \in Worker, NEW to, Holding(to), worker' = [worker EXCEPT ![w] = to],
         shards' = shards, query' = query
  PROVE  /\ worker' \in [Worker -> WorkerRecord]
         /\ worker'[w] = to /\ \A x \in Worker \ {w} : worker'[x] = worker[x]
         /\ \A x \in Worker : Holding(worker[x])'
<1>1. worker \in [Worker -> WorkerRecord] /\ to \in WorkerRecord
  BY DEF QueryInv, Typed, Holding
<1>2. worker' \in [Worker -> WorkerRecord]
  BY <1>1
<1>3. worker'[w] = to /\ \A x \in Worker \ {w} : worker'[x] = worker[x]
  BY <1>1
<1>4. ASSUME NEW x \in Worker
      PROVE  Holding(worker[x])'
  <2>1. PICK u : u = worker'[x]
    OBVIOUS
  <2>2. Holding(u)
    BY <1>3, <2>1 DEF QueryInv
  <2>3. Holding(u)'
    BY <2>2, HoldingStays
  <2> QED
    BY <2>1, <2>3
<1> QED
  BY <1>2, <1>3, <1>4

\* Promise.all resolves when the last worker is done.
LEMMA SettledFacts ==
  ASSUME NEW ws
  PROVE  /\ Settled(ws) = "all" => outcome = "all" \/ \A w \in Worker : ws[w].phase = "done"
         /\ Settled(ws) = "answered" => outcome = "answered"
<1>1. CASE outcome # "pending"
  <2>1. Settled(ws) = outcome
    BY <1>1 DEF Settled
  <2> QED
    BY <2>1
<1>2. CASE outcome = "pending" /\ \E w \in Worker : ws[w].phase = "failed"
  <2>1. \E w \in Worker : ws[w].phase = "failed" /\ ws[w].phase # "done"
    BY <1>2
  <2>2. Settled(ws) = "error"
    BY <1>2, <2>1 DEF Settled
  <2> QED
    BY <2>2
<1>3. CASE outcome = "pending" /\ ~(\E w \in Worker : ws[w].phase = "failed")
           /\ \A w \in Worker : ws[w].phase = "done"
  <2>1. Settled(ws) = "all"
    BY <1>3 DEF Settled
  <2> QED
    BY <1>3, <2>1
<1>4. CASE outcome = "pending" /\ ~(\E w \in Worker : ws[w].phase = "failed")
           /\ ~\A w \in Worker : ws[w].phase = "done"
  <2>1. Settled(ws) = "pending"
    BY <1>4 DEF Settled
  <2> QED
    BY <2>1
<1> QED
  BY <1>1, <1>2, <1>3, <1>4

\* A worker that is at a session keeps the query from ending.
LEMMA StillRunning ==
  ASSUME QueryInv, NEW w \in Worker, worker[w].phase \in Scanning
  PROVE  outcome \notin {"all", "answered"}
BY DEF QueryInv, Settling, Scanning

\* A step within the scan of a session
LEMMA ScansKeeps ==
  ASSUME QueryInv, NEW w \in Worker, worker[w].phase \in Scanning,
         NEW to, Holding(to), to.session = worker[w].session, Scans(w, to)
  PROVE  QueryInv'
<1>1. /\ worker' = [worker EXCEPT ![w] = to] /\ outcome' = Settled(worker')
      /\ shards' = shards /\ query' = query /\ nextIndex' = nextIndex /\ results' = results
      /\ answer' = answer /\ aborted' = aborted
  BY DEF Scans, Becomes
<1>2. /\ worker' \in [Worker -> WorkerRecord]
      /\ worker'[w] = to /\ \A x \in Worker \ {w} : worker'[x] = worker[x]
      /\ \A x \in Worker : Holding(worker[x])'
  BY <1>1, WorkersHold
<1>3. worker[w].session # 0 /\ to.phase # "done"
  <2>1. worker[w].session \in 1..Len(shards) /\ Shape
    BY ProjectsShape DEF QueryInv, Holding, Typed
  <2>2. worker[w].session # 0
    BY <2>1
  <2> QED
    BY <2>2 DEF Holding
<1>4. Typed'
  BY <1>1, <1>2 DEF QueryInv, Typed
<1>5. Accounted'
  <2>1. ASSUME NEW i \in 1..nextIndex' - 1
        PROVE  i \in DOMAIN results' \/ \E x \in Worker : worker'[x].session = i
    <3>1. i \in DOMAIN results \/ \E x \in Worker : worker[x].session = i
      BY <1>1 DEF QueryInv, Accounted
    <3>2. \A x \in Worker : worker'[x].session = worker[x].session
      BY <1>2
    <3> QED
      BY <1>1, <3>1, <3>2
  <2> QED
    BY <2>1 DEF Accounted
<1>6. ResultsRight'
  <2>1. ASSUME NEW i \in DOMAIN results'
        PROVE  i \in 1..Len(shards') /\ Right(results[i], i)'
    <3>1. PICK r : r = results[i] /\ r = results'[i]
      BY <1>1
    <3>2. i \in 1..Len(shards) /\ Right(r, i)
      BY <1>1, <3>1 DEF QueryInv, ResultsRight
    <3>3. Right(r, i)'
      BY <1>1, <3>2, RightStays
    <3> QED
      BY <1>1, <3>1, <3>2, <3>3
  <2> QED
    BY <2>1 DEF ResultsRight
<1>7. AllTaken'
  <2>1. ASSUME NEW x \in Worker, worker'[x].phase = "done"
        PROVE  nextIndex' = Len(shards') + 1
    <3>1. x # w /\ worker[x].phase = "done"
      BY <1>2, <1>3, <2>1
    <3> QED
      BY <1>1, <3>1 DEF QueryInv, AllTaken
  <2> QED
    BY <2>1 DEF AllTaken
<1>8. outcome' \notin {"all", "answered"}
  <2>1. outcome \notin {"all", "answered"}
    BY StillRunning
  <2>2. ~\A x \in Worker : worker'[x].phase = "done"
    BY <1>2, <1>3
  <2>3. PICK ws : ws = worker'
    OBVIOUS
  <2>4. /\ Settled(ws) = "all" => outcome = "all" \/ \A x \in Worker : ws[x].phase = "done"
        /\ Settled(ws) = "answered" => outcome = "answered"
    BY SettledFacts
  <2>5. outcome' = Settled(ws)
    BY <1>1, <2>3
  <2> QED
    BY <2>1, <2>2, <2>3, <2>4, <2>5
<1>9. Settling' /\ Answered'
  BY <1>8 DEF Settling, Answered
<1> QED
  BY <1>2, <1>4, <1>5, <1>6, <1>7, <1>9 DEF QueryInv

\* A worker that has seen all rows has what a search in memory finds.
LEMMA EndIsRight ==
  ASSUME Shape, NEW v \in WorkerRecord, v.session \in 1..Len(shards), AtEnd(v)
  PROVE  Right(Result(v), v.session)
<1>1. PICK i : i = v.session
  OBVIOUS
<1>2. PICK l \in Nat : l = Len(Rows(i)) /\ Rows(i) \in Seq(Row)
  BY <1>1, SessionRows
<1>3. /\ InTimeline(i) \in SUBSET (1..l) /\ Matches(i) \in SUBSET (1..l)
      /\ \A f : Mentioning(i, f) \in SUBSET (1..l)
  BY <1>2, RowSets
<1>4. /\ Upto(Matches(i), l) = Matches(i)
      /\ \A f : Upto(Mentioning(i, f), l) = Mentioning(i, f)
  BY <1>3, UptoEnds
<1>5. Describes(v, i, l)
  BY <1>1, <1>2 DEF AtEnd
<1> DEFINE r == Result(v)
<1>6. /\ r \in ResultRecord /\ r.session = i /\ r.count = v.count
      /\ r.latest = v.latest /\ r.files = v.files
  BY <1>1 DEF Result, ResultRecord, WorkerRecord
<1> HIDE DEF r
<1>7. query = "files" => \A f \in File : r.files[f] = Cardinality(Mentioning(i, f))
  BY <1>4, <1>5, <1>6 DEF Describes, CountsFiles
<1>8. query # "files" => /\ r.count = Cardinality(Matches(i))
                         /\ r.count # 0 => LatestIs(r.latest, i, l)
  BY <1>4, <1>5, <1>6 DEF Describes, CountsMatches
<1> QED
  BY <1>1, <1>2, <1>6, <1>7, <1>8 DEF Right, r

\* The next index, after a worker has looked at the i-th session.
LEMMA TakingCounts ==
  ASSUME Shape, NEW i \in 1..Len(shards) + 1, NEW n,
         n = IF i <= Len(shards) /\ ~aborted THEN i + 1 ELSE i
  PROVE  /\ n \in 1..Len(shards) + 1 /\ Holding(Taken(i))
         /\ \A j \in 1..n - 1 : j \in 1..i - 1 \/ Taken(i).session = j
         /\ Taken(i).phase = "done" => n = Len(shards) + 1
         /\ i = Len(shards) + 1 => n = i
<1>1. PICK l \in Nat : l = Len(shards)
  BY LenProperties DEF Shape
<1>2. /\ Holding(Taken(i))
      /\ i > l => Taken(i).phase = "done"
      /\ ~(i > l) /\ aborted => Taken(i).phase = "failed" /\ Taken(i).session = 0
      /\ ~(i > l) /\ ~aborted => Taken(i).session = i
  BY <1>1, TakenHolds
<1>3. CASE i > l
  BY <1>1, <1>2, <1>3
<1>4. CASE ~(i > l) /\ aborted
  BY <1>1, <1>2, <1>4
<1>5. CASE ~(i > l) /\ ~aborted
  <2>1. n = i + 1 /\ Taken(i).session = i /\ i \in 1..l
    BY <1>1, <1>2, <1>5
  <2>2. Taken(i).phase # "done"
    BY <1>2, <2>1 DEF Holding
  <2> QED
    BY <1>1, <1>2, <2>1, <2>2
<1> QED
  BY <1>3, <1>4, <1>5

\* A result is delivered, and its worker takes the next session.
LEMMA DeliverKeeps ==
  ASSUME QueryInv, NEW w \in Worker, Deliver(w)
  PROVE  QueryInv'
<1> DEFINE v == worker[w]
           i == v.session
           to == Taken(nextIndex)
<1>1. Shape /\ nextIndex \in 1..Len(shards) + 1
  BY ProjectsShape DEF QueryInv, Typed
<1>2. /\ v.phase \in {"scanned", "preview"} /\ worker' = [worker EXCEPT ![w] = to]
      /\ outcome' = Settled(worker')
      /\ shards' = shards /\ query' = query /\ answer' = answer /\ aborted' = aborted
      /\ results' = [j \in DOMAIN results \cup {i} |-> IF j = i THEN Result(v) ELSE results[j]]
  BY DEF Deliver, Becomes
<1>3. nextIndex' = IF nextIndex <= Len(shards) /\ ~aborted THEN nextIndex + 1 ELSE nextIndex
  BY DEF Deliver
<1>4. v \in WorkerRecord /\ v.phase \in Scanning /\ i \in 1..Len(shards) /\ AtEnd(v)
  BY <1>2 DEF QueryInv, Holding, Scanning
<1>5. Right(Result(v), i)
  BY <1>1, <1>4, EndIsRight
<1>6. /\ nextIndex' \in 1..Len(shards) + 1 /\ Holding(to)
      /\ \A j \in 1..nextIndex' - 1 : j \in 1..nextIndex - 1 \/ to.session = j
      /\ to.phase = "done" => nextIndex' = Len(shards) + 1
      /\ nextIndex = Len(shards) + 1 => nextIndex' = nextIndex
  BY <1>1, <1>3, TakingCounts
<1> HIDE DEF to
<1>7. /\ worker' \in [Worker -> WorkerRecord]
      /\ worker'[w] = to /\ \A x \in Worker \ {w} : worker'[x] = worker[x]
      /\ \A x \in Worker : Holding(worker[x])'
  BY <1>2, <1>6, WorkersHold
<1>8. Typed'
  BY <1>2, <1>6, <1>7 DEF QueryInv, Typed
<1>9. Accounted'
  <2>1. ASSUME NEW j \in 1..nextIndex' - 1
        PROVE  j \in DOMAIN results' \/ \E x \in Worker : worker'[x].session = j
    <3>1. CASE to.session = j
      BY <1>7, <3>1
    <3>2. CASE j \in 1..nextIndex - 1 /\ j \in DOMAIN results
      BY <1>2, <3>2
    <3>3. CASE j \in 1..nextIndex - 1 /\ \E x \in Worker : worker[x].session = j
      <4>1. PICK x \in Worker : worker[x].session = j
        BY <3>3
      <4>2. CASE x = w
        BY <1>2, <4>1, <4>2
      <4>3. CASE x # w
        BY <1>7, <4>1, <4>3
      <4> QED
        BY <4>2, <4>3
    <3> QED
      BY <1>6, <3>1, <3>2, <3>3 DEF QueryInv, Accounted
  <2> QED
    BY <2>1 DEF Accounted
<1>10. ResultsRight'
  <2>1. ASSUME NEW j \in DOMAIN results'
        PROVE  j \in 1..Len(shards') /\ Right(results[j], j)'
    <3>1. PICK r : r = results'[j]
      OBVIOUS
    <3>2. j \in 1..Len(shards) /\ Right(r, j)
      <4>1. CASE j = i
        BY <1>2, <1>4, <1>5, <3>1, <4>1
      <4>2. CASE j # i
        <5>1. j \in DOMAIN results /\ r = results[j]
          BY <1>2, <3>1, <4>2
        <5> QED
          BY <5>1 DEF QueryInv, ResultsRight
      <4> QED
        BY <4>1, <4>2
    <3>3. Right(r, j)'
      BY <1>2, <3>2, RightStays
    <3> QED
      BY <1>2, <3>1, <3>2, <3>3
  <2> QED
    BY <2>1 DEF ResultsRight
<1>11. AllTaken'
  <2>1. ASSUME NEW x \in Worker, worker'[x].phase = "done"
        PROVE  nextIndex' = Len(shards') + 1
    <3>1. CASE x = w
      BY <1>2, <1>6, <1>7, <2>1, <3>1
    <3>2. CASE x # w
      <4>1. nextIndex = Len(shards) + 1
        BY <1>7, <2>1, <3>2 DEF QueryInv, AllTaken
      <4> QED
        BY <1>2, <1>6, <4>1
    <3> QED
      BY <3>1, <3>2
  <2> QED
    BY <2>1 DEF AllTaken
<1>12. /\ outcome' = "all" => \A x \in Worker : worker'[x].phase = "done"
       /\ outcome' # "answered"
  <2>1. outcome \notin {"all", "answered"}
    BY <1>4, StillRunning
  <2>2. PICK ws : ws = worker'
    OBVIOUS
  <2>3. /\ Settled(ws) = "all" => outcome = "all" \/ \A x \in Worker : ws[x].phase = "done"
        /\ Settled(ws) = "answered" => outcome = "answered"
    BY SettledFacts
  <2>4. outcome' = Settled(ws)
    BY <1>2, <2>2
  <2> QED
    BY <2>1, <2>2, <2>3, <2>4
<1>13. Settling' /\ Answered'
  BY <1>12 DEF Settling, Answered
<1> QED
  BY <1>7, <1>8, <1>9, <1>10, <1>11, <1>13 DEF QueryInv

\* What neither the workers nor the results are touched by.
LEMMA RestKeeps ==
  ASSUME QueryInv, shards' = shards, query' = query, nextIndex' = nextIndex,
         worker' = worker, results' = results,
         \/ outcome' = outcome /\ answer' = answer
         \/ outcome = "all" /\ outcome' = "answered" /\ answer' = Merged
  PROVE  QueryInv'
<1>1. Typed'
  BY DEF QueryInv, Typed
<1>2. ASSUME NEW w \in Worker
      PROVE  Holding(worker[w])'
  <2>1. PICK v : v = worker[w] /\ v = worker'[w]
    OBVIOUS
  <2>2. Holding(v)'
    BY <2>1, HoldingStays DEF QueryInv
  <2> QED
    BY <2>1, <2>2
<1>3. Accounted'
  BY DEF QueryInv, Accounted
<1>4. ResultsRight'
  <2>1. ASSUME NEW i \in DOMAIN results'
        PROVE  i \in 1..Len(shards') /\ Right(results[i], i)'
    <3>1. PICK r : r = results[i] /\ r = results'[i]
      OBVIOUS
    <3>2. i \in 1..Len(shards) /\ Right(r, i)
      BY <3>1 DEF QueryInv, ResultsRight
    <3>3. Right(r, i)'
      BY <3>2, RightStays
    <3> QED
      BY <3>1, <3>2, <3>3
  <2> QED
    BY <2>1 DEF ResultsRight
<1>5. AllTaken' /\ Settling'
  BY DEF QueryInv, AllTaken, Settling
<1>6. Answered'
  BY MergedStays DEF QueryInv, Answered
<1> QED
  BY <1>1, <1>2, <1>3, <1>4, <1>5, <1>6 DEF QueryInv

\* One lemma for each step of a worker
LEMMA RowKeeps ==
  ASSUME QueryInv, NEW w \in Worker, RowSearched(w) \/ RowAborted(w)
  PROVE  QueryInv'
<1>1. worker[w].phase = "row" /\ worker[w].phase \in Scanning /\ Holding(worker[w]) /\ Shape
      /\ worker[w] \in WorkerRecord
  BY ProjectsShape DEF QueryInv, Typed, Holding, RowSearched, RowAborted, Scanning
<1>2. CASE RowSearched(w)
  <2>1. Holding(AfterRow(worker[w])) /\ AfterRow(worker[w]).session = worker[w].session
    BY <1>1, AfterRowHolds
  <2>2. Scans(w, AfterRow(worker[w]))
    BY <1>2 DEF RowSearched
  <2> QED
    BY <1>1, <2>1, <2>2, ScansKeeps
<1>3. CASE RowAborted(w)
  <2>1. Holding(Failed(worker[w])) /\ Failed(worker[w]).session = worker[w].session
    BY <1>1, FailedHolds
  <2>2. Scans(w, Failed(worker[w]))
    BY <1>3 DEF RowAborted
  <2> QED
    BY <1>1, <2>1, <2>2, ScansKeeps
<1> QED
  BY <1>2, <1>3

\* A tick, or something that cannot be read
LEMMA TickKeeps ==
  ASSUME QueryInv, NEW w \in Worker, Tick(w) \/ PageDamaged(w)
  PROVE  QueryInv'
<1>1. worker[w].phase \in Scanning /\ Holding(worker[w]) /\ Shape /\ worker[w] \in WorkerRecord
  BY ProjectsShape DEF QueryInv, Typed, Holding, Tick, PageDamaged, Scanning
<1>2. CASE Tick(w)
  <2>0. worker[w].phase = "tick"
    BY <1>2 DEF Tick
  <2>1. Holding(AfterTick(worker[w])) /\ AfterTick(worker[w]).session = worker[w].session
    BY <1>1, <2>0, AfterTickHolds
  <2>2. Scans(w, AfterTick(worker[w]))
    BY <1>2 DEF Tick
  <2> QED
    BY <1>1, <2>1, <2>2, ScansKeeps
<1>3. CASE PageDamaged(w)
  <2>1. Holding(Failed(worker[w])) /\ Failed(worker[w]).session = worker[w].session
    BY <1>1, FailedHolds
  <2>2. Scans(w, Failed(worker[w]))
    BY <1>3 DEF PageDamaged
  <2> QED
    BY <1>1, <2>1, <2>2, ScansKeeps
<1> QED
  BY <1>2, <1>3

\* The preview is read.
LEMMA PreviewKeeps ==
  ASSUME QueryInv, NEW w \in Worker, ReadPreview(w)
  PROVE  QueryInv'
<1> DEFINE v == worker[w]
           u == [v EXCEPT !.phase = "preview"]
<1>1. v.phase = "scanned" /\ v.phase \in Scanning /\ v \in WorkerRecord
      /\ v.session \in 1..Len(shards) /\ AtEnd(v)
  BY DEF QueryInv, Holding, ReadPreview, Scanning
<1>2. Holding(Failed(v)) /\ Failed(v).session = v.session
  BY <1>1, FailedHolds
<1>3. /\ u \in WorkerRecord /\ u.phase = "preview" /\ u.session = v.session
      /\ \A i, m : Describes(v, i, m) => Describes(u, i, m)
  <2>1. "preview" \in WorkerPhase
    BY DEF WorkerPhase
  <2> QED
    BY <1>1, <2>1, PhaseSet
<1>4. Scans(w, Failed(v)) \/ Scans(w, u)
  BY DEF ReadPreview
<1> HIDE DEF u
<1>5. AtEnd(u)
  BY <1>1, <1>3 DEF AtEnd
<1>6. Holding(u)
  BY <1>1, <1>3, <1>5 DEF Holding
<1> QED
  BY <1>1, <1>2, <1>3, <1>4, <1>6, ScansKeeps

\* Every step keeps the invariant.
LEMMA NextKeeps ==
  ASSUME QueryInv, [QueryNext]_queryVars
  PROVE  QueryInv'
<1>1. ASSUME NEW w \in Worker, WorkerStep(w)
      PROVE  QueryInv'
  BY <1>1, RowKeeps, TickKeeps, PreviewKeeps, DeliverKeeps DEF WorkerStep, Proceeds
<1>2. CASE Merge
  BY <1>2, RestKeeps DEF Merge
<1>3. CASE Abort
  BY <1>3, RestKeeps DEF Abort
<1>4. CASE UNCHANGED queryVars
  BY <1>4, RestKeeps DEF queryVars
<1> QED
  BY <1>1, <1>2, <1>3, <1>4 DEF QueryNext

\* It holds when the workers have taken their first sessions.
LEMMA InitHolds ==
  ASSUME QueryInit
  PROVE  QueryInv
<1>1. /\ shards \in Projects /\ query \in {"text", "structure", "files"} /\ aborted = FALSE
      /\ worker = [w \in Worker |-> Taken(w)]
      /\ results = << >> /\ outcome = IF shards = << >> THEN "all" ELSE "pending"
  BY DEF QueryInit
<1>2. Shape
  BY <1>1, ProjectsShape
<1>3. PICK l \in Nat : l = Len(shards)
  BY <1>2, LenProperties DEF Shape
<1>4. PICK c \in Nat \ {0} : c = Concurrency
  BY QueryAssumption
<1>5. /\ nextIndex = (IF l < c THEN l ELSE c) + 1
      /\ Worker = 1..c
  BY <1>3, <1>4 DEF QueryInit, Worker
<1>6. \A w \in Worker : w \in Nat \ {0} /\ worker[w] = Taken(w)
  BY <1>1, <1>5
<1>7. \A w \in Worker : /\ Holding(worker[w])
                        /\ w > l => worker[w].phase = "done"
                        /\ ~(w > l) => worker[w].session = w
  BY <1>1, <1>2, <1>3, <1>6, TakenHolds
<1>8. Typed
  <2>1. worker \in [Worker -> WorkerRecord]
    BY <1>1, <1>6, <1>7 DEF Holding
  <2> QED
    BY <1>1, <1>3, <1>4, <1>5, <2>1 DEF Typed
<1>9. Accounted
  <2>1. ASSUME NEW i \in 1..nextIndex - 1
        PROVE  i \in Worker /\ ~(i > l)
    BY <1>3, <1>4, <1>5
  <2> QED
    BY <1>7, <2>1 DEF Accounted
<1>10. ResultsRight
  <2>1. DOMAIN results = {}
    BY <1>1
  <2> QED
    BY <2>1 DEF ResultsRight
<1>11. AllTaken
  <2>1. ASSUME NEW w \in Worker, worker[w].phase = "done"
        PROVE  nextIndex = Len(shards) + 1
    <3>1. w > l
      <4>1. ASSUME ~(w > l) PROVE FALSE
        <5>1. worker[w].session = w /\ worker[w].session = 0 /\ w \in Nat \ {0}
          BY <1>6, <1>7, <2>1, <4>1 DEF Holding
        <5> QED
          BY <5>1
      <4> QED
        BY <4>1
    <3> QED
      BY <1>3, <1>4, <1>5, <3>1
  <2> QED
    BY <2>1 DEF AllTaken
<1>12. Settling
  <2>1. ASSUME outcome \in {"all", "answered"}, NEW w \in Worker
        PROVE  worker[w].phase = "done"
    <3>1. shards = <<>>
      BY <1>1, <2>1
    <3>2. l = 0
      BY <1>3, <3>1
    <3> QED
      BY <1>6, <1>7, <3>2
  <2> QED
    BY <2>1 DEF Settling
<1>13. Answered
  BY <1>1 DEF Answered
<1> QED
  BY <1>7, <1>8, <1>9, <1>10, <1>11, <1>12, <1>13 DEF QueryInv

\* However the workers interleave, and whatever fails: what each of them knows is
\* what a search in memory of the rows it has visited would find, no session that
\* was taken is lost, and every result is right.
THEOREM QueryInvariant == QuerySpec => []QueryInv
<1>1. QueryInit => QueryInv
  BY InitHolds
<1>2. QueryInv /\ [QueryNext]_queryVars => QueryInv'
  BY NextKeeps
<1> QED
  BY <1>1, <1>2, PTL DEF QuerySpec

\* When the query is answered, every session has been.
LEMMA Delivered ==
  ASSUME QueryInv, outcome = "answered"
  PROVE  /\ Shape /\ Len(shards) \in Nat /\ IsFiniteSet(1..Len(shards))
         /\ DOMAIN results = 1..Len(shards) /\ DOMAIN shards = 1..Len(shards)
         /\ \A i \in 1..Len(shards) : Right(results[i], i)
         /\ answer = Merged
<1>1. Shape
  BY ProjectsShape DEF QueryInv, Typed
<1>2. PICK l \in Nat : l = Len(shards) /\ DOMAIN shards = 1..l
  BY <1>1, LenProperties DEF Shape
<1>3. IsFiniteSet(1..l)
  BY <1>2, FS_Interval
<1>4. \A w \in Worker : worker[w].phase = "done" /\ worker[w].session = 0
  BY DEF QueryInv, Settling, Holding
<1>5. nextIndex = l + 1
  <2>1. 1 \in Worker
    BY QueryAssumption DEF Worker
  <2> QED
    BY <1>2, <1>4, <2>1 DEF QueryInv, AllTaken
<1>6. \A i \in 1..l : i \in DOMAIN results
  <2>1. ASSUME NEW i \in 1..l PROVE i \in DOMAIN results
    <3>1. i \in 1..nextIndex - 1 /\ i # 0
      BY <1>2, <1>5
    <3> QED
      BY <1>4, <3>1 DEF QueryInv, Accounted
  <2> QED
    BY <2>1
<1>7. \A i \in DOMAIN results : i \in 1..l /\ Right(results[i], i)
  BY <1>2 DEF QueryInv, ResultsRight
<1>8. answer = Merged
  BY DEF QueryInv, Answered
<1> QED
  BY <1>1, <1>2, <1>3, <1>6, <1>7, <1>8

-----------------------------------------------------------------------------
(* A search *)

\* The latest match is the one a worker has kept.
LEMMA LatestFound ==
  ASSUME NEW i, NEW l \in Nat, Rows(i) \in Seq(Row), l = Len(Rows(i)), NEW r, LatestIs(r, i, l)
  PROVE  r.row = LatestMatch(i)
<1>1. Matches(i) \in SUBSET (1..l) /\ \A n \in 1..l : Rows(i)[n].time \in Nat
  BY RowSets DEF Row
<1>2. Upto(Matches(i), l) = Matches(i)
  BY <1>1, UptoEnds
<1> DEFINE Best(n) ==
             \A m \in Matches(i) : \/ Rows(i)[n].time > Rows(i)[m].time
                                   \/ Rows(i)[n].time = Rows(i)[m].time /\ n >= m
<1>3. r.row \in Matches(i) /\ Best(r.row)
  BY <1>2 DEF LatestIs
<1>4. ASSUME NEW n \in Matches(i), NEW m \in Matches(i), Best(n), Best(m)
      PROVE  n = m
  <2>1. \/ Rows(i)[n].time > Rows(i)[m].time
        \/ Rows(i)[n].time = Rows(i)[m].time /\ n >= m
    BY <1>4
  <2>2. \/ Rows(i)[m].time > Rows(i)[n].time
        \/ Rows(i)[m].time = Rows(i)[n].time /\ m >= n
    BY <1>4
  <2>3. n \in Nat /\ m \in Nat /\ Rows(i)[n].time \in Nat /\ Rows(i)[m].time \in Nat
    BY <1>1
  <2> QED
    BY <2>1, <2>2, <2>3
<1>5. LatestMatch(i) = CHOOSE n \in Matches(i) : Best(n)
  BY DEF LatestMatch
<1> HIDE DEF Best
<1> QED
  BY <1>3, <1>4, <1>5

\* The session as the answer has it.
Summary(r) == [session |-> r.session, count |-> r.count, latest |-> r.latest]

\* What was delivered is what the search in memory finds.
LEMMA SummaryRight ==
  ASSUME Shape, query # "files", NEW i \in 1..Len(shards), NEW r, Right(r, i)
  PROVE  /\ r.count > 0 <=> Matches(i) # {}
         /\ r.count > 0 => Summary(r) = SearchResult(i)
<1>1. PICK l \in Nat : l = Len(Rows(i)) /\ Rows(i) \in Seq(Row)
  BY SessionRows
<1>2. Matches(i) \in SUBSET (1..l)
  BY <1>1, RowSets
<1>3. IsFiniteSet(Matches(i))
  <2>1. IsFiniteSet(1..l)
    BY <1>1, FS_Interval
  <2> QED
    BY <1>2, <2>1, FS_Subset
<1>4. /\ r \in ResultRecord /\ r.session = i /\ r.count = Cardinality(Matches(i))
      /\ r.count # 0 => LatestIs(r.latest, i, l)
  BY <1>1 DEF Right
<1>5. r.count \in Nat /\ r.latest \in Match
  BY <1>4 DEF ResultRecord
<1>6. r.count = 0 <=> Matches(i) = {}
  BY <1>3, <1>4, FS_EmptySet
<1>7. ASSUME r.count > 0
      PROVE  Summary(r) = SearchResult(i)
  <2>1. LatestIs(r.latest, i, l)
    BY <1>4, <1>5, <1>7
  <2>2. r.latest.row = LatestMatch(i)
    BY <1>1, <2>1, LatestFound
  <2>3. /\ r.latest.time = Rows(i)[LatestMatch(i)].time
        /\ r.latest.ordinal = Cardinality({m \in InTimeline(i) : m < LatestMatch(i)})
    BY <2>1, <2>2 DEF LatestIs, Below
  <2>4. r.latest = [ordinal |-> r.latest.ordinal, row |-> r.latest.row, time |-> r.latest.time]
    BY <1>5 DEF Match
  <2> QED
    BY <1>4, <2>2, <2>3, <2>4 DEF Summary, SearchResult
<1> QED
  BY <1>5, <1>6, <1>7

Counts == [session : Nat, count : Nat, latest : Match]

\* The order of the matches is one, as no two are of a session.
LEMMA MatchesOrdered ==
  ASSUME NEW S \in SUBSET Counts, \A a, b \in S : a.session = b.session => a = b
  PROVE  Orders({p \in S \X S : MatchOrder(p[1], p[2])}, S)
<1> DEFINE R == {p \in S \X S : MatchOrder(p[1], p[2])}
<1>1. \A a, b \in S : <<a, b>> \in R <=> MatchOrder(a, b)
  OBVIOUS
<1>2. \A a \in S : a.session \in Nat /\ a.latest.time \in Nat /\ a.latest.ordinal \in Nat
  BY DEF Counts, Match
<1> HIDE DEF R
<1>3. ASSUME NEW a \in S
      PROVE  <<a, a>> \notin R
  BY <1>1, <1>2 DEF MatchOrder
<1>4. ASSUME NEW a \in S, NEW b \in S, a # b
      PROVE  <<a, b>> \in R \/ <<b, a>> \in R
  <2>1. a.session # b.session
    BY <1>4
  <2> QED
    BY <1>1, <1>2, <2>1 DEF MatchOrder
<1>5. ASSUME NEW a \in S, NEW b \in S, NEW c \in S, <<a, b>> \in R, <<b, c>> \in R
      PROVE  <<a, c>> \in R
  <2>1. MatchOrder(a, b) /\ MatchOrder(b, c)
    BY <1>1, <1>5
  <2>2. MatchOrder(a, c)
    BY <1>2, <2>1 DEF MatchOrder
  <2> QED
    BY <1>1, <2>2
<1> QED
  BY <1>3, <1>4, <1>5 DEF Orders, R

\* The image of a finite set is finite.
LEMMA ImageFinite ==
  ASSUME NEW S, IsFiniteSet(S), NEW f, DOMAIN f = S
  PROVE  IsFiniteSet({f[x] : x \in S})
<1> DEFINE T == {f[x] : x \in S}
           g == [x \in S |-> f[x]]
<1>1. g \in Surjection(S, T)
  BY DEF Surjection
<1> HIDE DEF T, g
<1> QED
  BY <1>1, FS_Surjection DEF T

\* The answer of a search
LEMMA SearchAnswer ==
  ASSUME QueryInv, outcome = "answered", query # "files"
  PROVE  /\ Range(answer) = {SearchResult(i) : i \in {j \in DOMAIN shards : Matches(j) # {}}}
         /\ \A k \in 1..Len(answer) - 1 : MatchOrder(answer[k], answer[k + 1])
<1> DEFINE l == Len(shards)
           D == {j \in DOMAIN results : results[j].count > 0}
           f == [i \in D |-> Summary(results[i])]
           S == {f[i] : i \in D}
<1>1. /\ Shape /\ IsFiniteSet(1..l) /\ DOMAIN results = 1..l /\ DOMAIN shards = 1..l
      /\ \A i \in 1..l : Right(results[i], i)
      /\ answer = Merged
  BY Delivered
<1>2. \A i \in 1..l : /\ results[i].count > 0 <=> Matches(i) # {}
                      /\ results[i].count > 0 => Summary(results[i]) = SearchResult(i)
  BY <1>1, SummaryRight
<1>3. D = {j \in DOMAIN shards : Matches(j) # {}} /\ D \in SUBSET (1..l)
  BY <1>1, <1>2
<1>4. S = {Summary(results[i]) : i \in D}
  OBVIOUS
<1>5. S = {SearchResult(i) : i \in D}
  <2>1. \A i \in D : Summary(results[i]) = SearchResult(i)
    BY <1>1, <1>2
  <2> HIDE DEF D, S
  <2> QED
    BY <1>4, <2>1
<1>6. answer = Sorted(S, MatchOrder)
  BY <1>1, <1>4 DEF Merged, Summary
<1>7. IsFiniteSet(S)
  <2>1. IsFiniteSet(D)
    BY <1>1, <1>3, FS_Subset
  <2>2. DOMAIN f = D
    OBVIOUS
  <2> HIDE DEF D, f
  <2> QED
    BY <2>1, <2>2, ImageFinite
<1>8. /\ S \in SUBSET Counts
      /\ \A a, b \in S : a.session = b.session => a = b
  <2>1. ASSUME NEW i \in D
        PROVE  Summary(results[i]) \in Counts /\ Summary(results[i]).session = i
    <3>1. Right(results[i], i)
      BY <1>1
    <3> QED
      BY <3>1 DEF Right, ResultRecord, Summary, Counts
  <2> HIDE DEF D, S
  <2> QED
    BY <1>4, <2>1
<1> HIDE DEF S, D, f
<1>9. /\ answer \in SetToSeqs(S)
      /\ \A i, j \in DOMAIN answer : i < j => MatchOrder(answer[i], answer[j])
  BY <1>6, <1>7, <1>8, MatchesOrdered, SortedMatches
<1>10. PICK n \in Nat : n = Cardinality(S)
  BY <1>7, FS_CardinalityType
<1>11. /\ DOMAIN answer = 1..n /\ Len(answer) = n
       /\ \A i \in 1..n : answer[i] \in S
       /\ \A x \in S : \E i \in 1..n : answer[i] = x
  BY <1>7, <1>9, <1>10, SeqOfSet
<1>12. Range(answer) = S
  BY <1>11 DEF Range
<1>13. ASSUME NEW k \in 1..Len(answer) - 1
       PROVE  MatchOrder(answer[k], answer[k + 1])
  <2>1. k \in DOMAIN answer /\ k + 1 \in DOMAIN answer /\ k < k + 1
    BY <1>10, <1>11
  <2> QED
    BY <1>9, <2>1
<1> QED
  BY <1>3, <1>5, <1>12, <1>13

-----------------------------------------------------------------------------
(* The suggestions *)

\* The sum that projectFileSuggestions makes for a file, and the function
\* behind it.
Total(f) == MapThenSumSet(LAMBDA i : results[i].files[f], DOMAIN results)

TotalSolves(f, S, g) ==
  g = [T \in SUBSET S |-> IF T = {} THEN 0
                          ELSE results[Pick(T)].files[f] + g[T \ {Pick(T)}]]

MentionsSolves(f, S, g) ==
  g = [T \in SUBSET S |-> IF T = {} THEN 0
                          ELSE Cardinality(Mentioning(Pick(T), f)) + g[T \ {Pick(T)}]]

\* The sums, without operators for parameters
LEMMA TotalChosen ==
  ASSUME NEW f, NEW S, S = DOMAIN results
  PROVE  Total(f) = (CHOOSE g : TotalSolves(f, S, g))[S]
BY DEF Total, TotalSolves, MapThenSumSet, MapThenFoldSet, Pick

\* The same of the sum in memory
LEMMA MentionsChosen ==
  ASSUME NEW f, NEW S, S = DOMAIN shards
  PROVE  Mentions(f) = (CHOOSE g : MentionsSolves(f, S, g))[S]
BY DEF Mentions, MentionsSolves, MapThenSumSet, MapThenFoldSet, Pick

\* How often the sessions name the file f.
InSession(f, S) == [i \in S |-> Cardinality(Mentioning(i, f))]

\* It is a sum over the sessions.
LEMMA MentionsIsSum ==
  ASSUME NEW f, IsFiniteSet(DOMAIN shards)
  PROVE  Mentions(f) = SumOver(InSession(f, DOMAIN shards), DOMAIN shards)
<1> DEFINE S == DOMAIN shards
           F == InSession(f, S)
<1>1. \A T \in SUBSET S : T # {} => F[Pick(T)] = Cardinality(Mentioning(Pick(T), f))
  BY PickIn DEF InSession
<1>2. Mentions(f) = (CHOOSE g : MentionsSolves(f, S, g))[S]
  BY MentionsChosen
<1> HIDE DEF S, F
<1>3. ASSUME NEW g
      PROVE  MentionsSolves(f, S, g) <=> Solves(F, S, g)
  BY <1>1 DEF MentionsSolves, Solves
<1>4. Solves(F, S, Fold(F, S))
  BY SolutionExists DEF S
<1> DEFINE h == CHOOSE g : MentionsSolves(f, S, g)
<1>5. MentionsSolves(f, S, h)
  BY <1>3, <1>4
<1>6. Solves(F, S, h)
  BY <1>3, <1>5
<1> HIDE DEF h
<1>7. h[S] = Fold(F, S)[S]
  BY <1>4, <1>6, SolutionsAgree DEF S
<1> QED
  BY <1>2, <1>7, SumFold DEF S, F, h

\* The sums agree if what is added does.
LEMMA TotalIsMentions ==
  ASSUME NEW f, IsFiniteSet(DOMAIN shards), DOMAIN results = DOMAIN shards,
         \A i \in DOMAIN shards : results[i].files[f] = Cardinality(Mentioning(i, f))
  PROVE  Total(f) = Mentions(f)
<1> DEFINE S == DOMAIN shards
<1>1. \A T \in SUBSET S : T # {} => results[Pick(T)].files[f] = Cardinality(Mentioning(Pick(T), f))
  BY PickIn
<1>2. /\ Mentions(f) = (CHOOSE g : MentionsSolves(f, S, g))[S]
      /\ Total(f) = (CHOOSE g : TotalSolves(f, S, g))[S]
  BY MentionsChosen, TotalChosen
<1> HIDE DEF S
<1>3. ASSUME NEW g
      PROVE  MentionsSolves(f, S, g) <=> TotalSolves(f, S, g)
  BY <1>1 DEF MentionsSolves, TotalSolves
<1>4. (CHOOSE g : MentionsSolves(f, S, g)) = (CHOOSE g : TotalSolves(f, S, g))
  BY <1>3
<1> QED
  BY <1>2, <1>4

\* It is a natural number.
LEMMA MentionsNat ==
  ASSUME Shape, NEW f
  PROVE  Mentions(f) \in Nat
<1>1. PICK l \in Nat : l = Len(shards) /\ DOMAIN shards = 1..l
  BY LenProperties DEF Shape
<1>2. IsFiniteSet(1..l)
  BY <1>1, FS_Interval
<1>3. ASSUME NEW i \in 1..l
      PROVE  Cardinality(Mentioning(i, f)) \in Nat
  <2>1. PICK n \in Nat : n = Len(Rows(i)) /\ Rows(i) \in Seq(Row)
    BY <1>1, SessionRows
  <2>2. Mentioning(i, f) \in SUBSET (1..n)
    BY <2>1, RowSets
  <2>3. IsFiniteSet(1..n)
    BY <2>1, FS_Interval
  <2> QED
    BY <2>2, <2>3, FS_Subset, FS_CardinalityType
<1>4. InSession(f, 1..l) \in [1..l -> Nat]
  BY <1>3 DEF InSession
<1>5. SumOver(InSession(f, 1..l), 1..l) \in Nat
  BY <1>2, <1>4, SumNat
<1> QED
  BY <1>1, <1>2, <1>5, MentionsIsSum

\* What is merged, in terms of the totals
LEMMA MergedFiles ==
  ASSUME query = "files"
  PROVE  Merged = FirstOf(Sorted({[file |-> f, count |-> Total(f)] :
                                    f \in {g \in File : Total(g) > 0}}, FileOrder), Limit)
BY DEF Merged, Total

Suggestion(f) == [file |-> f, count |-> Mentions(f)]

\* The order of the files is one.
LEMMA FilesOrdered ==
  ASSUME NEW S, \A a \in S : a.file \in Nat /\ a.count \in Nat,
         \A a, b \in S : a.file = b.file => a = b
  PROVE  Orders({p \in S \X S : FileOrder(p[1], p[2])}, S)
<1> DEFINE R == {p \in S \X S : FileOrder(p[1], p[2])}
<1>1. \A a, b \in S : <<a, b>> \in R <=> FileOrder(a, b)
  OBVIOUS
<1> HIDE DEF R
<1>2. ASSUME NEW a \in S
      PROVE  <<a, a>> \notin R
  BY <1>1 DEF FileOrder
<1>3. ASSUME NEW a \in S, NEW b \in S, a # b
      PROVE  <<a, b>> \in R \/ <<b, a>> \in R
  <2>1. a.file # b.file
    BY <1>3
  <2> QED
    BY <1>1, <2>1 DEF FileOrder
<1>4. ASSUME NEW a \in S, NEW b \in S, NEW c \in S, <<a, b>> \in R, <<b, c>> \in R
      PROVE  <<a, c>> \in R
  <2>1. FileOrder(a, b) /\ FileOrder(b, c)
    BY <1>1, <1>4
  <2>2. FileOrder(a, c)
    BY <2>1 DEF FileOrder
  <2> QED
    BY <1>1, <2>2
<1> QED
  BY <1>2, <1>3, <1>4 DEF Orders, R

\* The answer of a query for files
LEMMA FilesAnswer ==
  ASSUME QueryInv, outcome = "answered", query = "files"
  PROVE  /\ Len(answer) = (LET n == Cardinality({f \in File : Mentions(f) > 0})
                           IN  IF n < Limit THEN n ELSE Limit)
         /\ \A k \in DOMAIN answer : answer[k].count = Mentions(answer[k].file)
         /\ \A k \in DOMAIN answer, f \in File :
              FileOrder([file |-> f, count |-> Mentions(f)], answer[k])
                => \E n \in 1..k - 1 : answer[n].file = f
<1> DEFINE D == {f \in File : Mentions(f) > 0}
           g == [f \in D |-> Suggestion(f)]
           S == {g[f] : f \in D}
           s == Sorted(S, FileOrder)
<1>1. /\ Shape /\ IsFiniteSet(DOMAIN shards) /\ DOMAIN results = DOMAIN shards
      /\ \A i \in DOMAIN shards : Right(results[i], i)
      /\ answer = Merged
  BY Delivered
<1>2. \A f \in File : Mentions(f) \in Nat /\ Total(f) = Mentions(f) /\ f \in Nat
  <2>1. ASSUME NEW f \in File
        PROVE  Total(f) = Mentions(f)
    <3>1. \A i \in DOMAIN shards : results[i].files[f] = Cardinality(Mentioning(i, f))
      BY <1>1 DEF Right
    <3> QED
      BY <1>1, <3>1, TotalIsMentions
  <2>2. \A f \in File : f \in Nat
    BY QueryAssumption
  <2> QED
    BY <1>1, <2>1, <2>2, MentionsNat
<1>3. D = {f \in File : Total(f) > 0}
  BY <1>2
<1>4. /\ S = {Suggestion(f) : f \in D}
      /\ S = {[file |-> f, count |-> Total(f)] : f \in D}
  BY <1>2 DEF Suggestion
<1>5. answer = FirstOf(s, Limit)
  BY <1>1, <1>3, <1>4, MergedFiles
<1>6. IsFiniteSet(D)
  BY QueryAssumption, FS_Subset
<1>7. /\ IsFiniteSet(S) /\ Cardinality(S) = Cardinality(D)
  <2>1. \A f, h \in D : g[f] = g[h] => f = h
    BY DEF Suggestion
  <2>2. g \in [D -> S] /\ S = {g[f] : f \in D}
    OBVIOUS
  <2> HIDE DEF D, S, g
  <2>3. \A x \in S : \E f \in D : g[f] = x
    BY <2>2
  <2>4. g \in Surjection(D, S)
    BY <2>2, <2>3 DEF Surjection
  <2>5. g \in Injection(D, S)
    BY <2>1, <2>2 DEF Injection, IsInjective
  <2> QED
    BY <1>6, <2>4, <2>5, FS_Surjection
<1> HIDE DEF S, g, s
<1>8. /\ \A a \in S : a.file \in Nat /\ a.count \in Nat /\ a.count > 0 /\ a.count = Mentions(a.file)
      /\ \A a, b \in S : a.file = b.file => a = b
      /\ \A f \in File : Mentions(f) > 0 => Suggestion(f) \in S
      /\ \A a \in S : a = Suggestion(a.file)
  BY <1>2, <1>4 DEF Suggestion
<1> HIDE DEF D
<1>9. /\ s \in SetToSeqs(S)
      /\ \A i, j \in DOMAIN s : i < j => FileOrder(s[i], s[j])
  BY <1>7, <1>8, FilesOrdered, SortedFiles DEF s
<1>10. PICK m \in Nat, l \in Nat : m = Cardinality(S) /\ l = Limit
  BY <1>7, FS_CardinalityType, QueryAssumption
<1>11. /\ DOMAIN s = 1..m /\ Len(s) = m /\ s \in Seq(S)
       /\ \A i \in 1..m : s[i] \in S
       /\ \A x \in S : \E i \in 1..m : s[i] = x
  BY <1>7, <1>9, <1>10, SeqOfSet
<1>12. PICK c \in Nat : c = (IF m < l THEN m ELSE l) /\ c <= m
  BY <1>10
<1>13. answer = SubSeq(s, 1, c)
  BY <1>5, <1>10, <1>11, <1>12 DEF FirstOf
<1>14. /\ answer \in Seq(S) /\ Len(answer) = c
       /\ \A i \in 1..c : answer[i] = s[i]
  <2>1. c \in 0..Len(s)
    BY <1>10, <1>11, <1>12
  <2> QED
    BY <1>11, <1>13, <2>1, StartIsShort
<1>15. DOMAIN answer = 1..c
  BY <1>14, LenProperties
<1>16. \A k \in DOMAIN answer : k \in 1..m /\ k \in 1..c /\ answer[k] = s[k] /\ s[k] \in S
  BY <1>10, <1>11, <1>12, <1>14, <1>15
<1>17. ASSUME NEW k \in DOMAIN answer, NEW f \in File, FileOrder(Suggestion(f), answer[k])
       PROVE  \E n \in 1..k - 1 : answer[n].file = f
  <2>1. k \in 1..m /\ k \in 1..c /\ answer[k] = s[k] /\ s[k] \in S
    BY <1>16
  <2>2. PICK b \in S : b = s[k]
    BY <2>1
  <2>3. b.count \in Nat /\ b.count > 0 /\ b.file \in Nat /\ Mentions(f) \in Nat /\ f \in Nat
    BY <1>2, <1>8
  <2>4. Suggestion(f).count = Mentions(f) /\ Suggestion(f).file = f
    BY DEF Suggestion
  <2>5. FileOrder(Suggestion(f), b)
    BY <1>17, <2>1, <2>2
  <2>6. Mentions(f) > 0
    BY <2>3, <2>4, <2>5 DEF FileOrder
  <2>7. PICK n \in 1..m : s[n] = Suggestion(f)
    BY <1>8, <1>11, <2>6
  <2>8. ~FileOrder(b, Suggestion(f)) /\ b # Suggestion(f)
    BY <2>3, <2>4, <2>5 DEF FileOrder
  <2>9. ~(k < n) /\ k # n
    BY <1>9, <1>11, <2>1, <2>2, <2>7, <2>8
  <2>10. n \in 1..k - 1 /\ n \in 1..c
    BY <1>10, <1>12, <2>1, <2>9
  <2> QED
    BY <1>14, <2>4, <2>7, <2>10
<1>18. Len(answer) = (LET n == Cardinality(D) IN IF n < Limit THEN n ELSE Limit)
  BY <1>7, <1>10, <1>12, <1>14
<1>19. \A k \in DOMAIN answer : answer[k].count = Mentions(answer[k].file)
  BY <1>8, <1>16
<1> QED
  BY <1>17, <1>18, <1>19 DEF D, Suggestion

\* A query of the store, however its workers interleave, answers what it would
\* answer of an index in memory.
THEOREM QueryExact == QuerySpec => []AnswerExact
<1>1. QueryInv => AnswerExact
  BY SearchAnswer, FilesAnswer DEF AnswerExact
<1> QED
  BY <1>1, QueryInvariant, PTL

================================================================================
