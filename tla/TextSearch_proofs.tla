--------------------------- MODULE TextSearch_proofs ---------------------------
(***************************************************************************)
(* Proofs about TextSearch, for any phrases, texts, parts and amounts of   *)
(* context: what the streaming search reports is what a search of the      *)
(* whole text reports, and its window is bounded.                          *)
(***************************************************************************)
EXTENDS TextSearch, FiniteSums_proofs, SequenceTheorems

-----------------------------------------------------------------------------
(* The least of a set of positions *)

LEMMA MinIsLeast ==
    ASSUME NEW T \in SUBSET Nat, T # {}
    PROVE  Min(T) \in T /\ \A n \in T : Min(T) <= n
<1>1. \E m \in T : \A n \in T : m <= n
  BY SmallestNumber
<1> QED
  BY <1>1 DEF Min

\* The least of a set whose members are those of another one, and greater ones.
LEMMA MinOf ==
    ASSUME NEW T \in SUBSET Nat, NEW m \in T, \A n \in T : m <= n
    PROVE  Min(T) = m
<1>1. Min(T) \in T /\ \A n \in T : Min(T) <= n
  BY MinIsLeast
<1>2. m \in Nat /\ Min(T) \in Nat /\ m <= Min(T) /\ Min(T) <= m
  BY <1>1
<1> QED
  BY <1>2

-----------------------------------------------------------------------------
(* Matches that are found one after the other *)

\* One step of Exec, where g says what is found later.
Step(S, size, g, k) ==
    IF Following(S, k) = {} THEN <<>>
    ELSE <<Min(Following(S, k))>> \o g[Min(Following(S, k)) + size]

\* A set of positions of some text
Bounded(S) == S \subseteq Nat /\ \E N \in Nat : \A m \in S : m <= N

From(n) == {k \in Nat : k >= n}

Finds(S, size, D, g) == g = [k \in D |-> Step(S, size, g, k)]

LEMMA ExecChosen ==
    ASSUME NEW S, NEW size
    PROVE  Exec(S, size) = CHOOSE g : Finds(S, size, Nat, g)
BY DEF Exec, Finds, Step

LEMMA FollowingFacts ==
    ASSUME NEW S, Bounded(S), NEW k \in Nat, Following(S, k) # {}
    PROVE  /\ Min(Following(S, k)) \in S /\ Min(Following(S, k)) \in Nat
           /\ Min(Following(S, k)) >= k
           /\ \A n \in S : n >= k => Min(Following(S, k)) <= n
<1>1. Following(S, k) \in SUBSET Nat
  BY DEF Following, Bounded
<1>2. /\ Min(Following(S, k)) \in Following(S, k)
      /\ \A n \in Following(S, k) : Min(Following(S, k)) <= n
  BY <1>1, MinIsLeast
<1>3. \A n : n \in Following(S, k) <=> n \in S /\ n >= k
  BY DEF Following
<1>4. S \in SUBSET Nat
  BY DEF Bounded
<1> QED
  BY <1>2, <1>3, <1>4

\* The recursive function of Exec exists.
LEMMA ExecExists ==
    ASSUME NEW S, Bounded(S), NEW size \in Nat \ {0}
    PROVE  Finds(S, size, Nat, Exec(S, size))
<1>0. PICK N \in Nat : S \in SUBSET (0..N)
  BY DEF Bounded
<1> DEFINE T == {d \in Nat : \E g : Finds(S, size, From(N + 1 - d), g)}
<1>1. 0 \in T
  <2> DEFINE g == [k \in From(N + 1) |-> <<>>]
  <2>1. ASSUME NEW k \in From(N + 1), NEW m \in S
        PROVE  m \notin Following(S, k)
    <3>1. m \in 0..N /\ k \in Nat /\ k >= N + 1
      BY <1>0 DEF From
    <3> QED
      BY <3>1 DEF Following
  <2>2. Finds(S, size, From(N + 1), g)
    BY <2>1 DEF Finds, Step, Following
  <2>3. N + 1 - 0 = N + 1
    OBVIOUS
  <2> HIDE DEF g
  <2> QED
    BY <2>2, <2>3
<1>2. ASSUME NEW d \in T PROVE d + 1 \in T
  <2>1. PICK g : Finds(S, size, From(N + 1 - d), g)
    OBVIOUS
  <2> DEFINE h == [k \in From(N - d) |-> Step(S, size, g, k)]
  <2>2. ASSUME NEW k \in From(N - d)
        PROVE  Step(S, size, h, k) = Step(S, size, g, k)
    <3>1. CASE Following(S, k) = {}
      BY <3>1 DEF Step
    <3>2. CASE Following(S, k) # {}
      <4> DEFINE m == Min(Following(S, k))
      <4>1. m \in Nat /\ m >= k
        <5>1. k \in Nat
          BY DEF From
        <5> QED
          BY <3>2, <5>1, FollowingFacts
      <4>2. m + size \in From(N + 1 - d) /\ m + size \in From(N - d)
        BY <2>2, <4>1 DEF From
      <4>3. h[m + size] = Step(S, size, g, m + size)
        BY <4>2
      <4>4. g[m + size] = Step(S, size, g, m + size)
        BY <2>1, <4>2 DEF Finds
      <4> QED
        BY <4>3, <4>4 DEF Step
    <3> QED
      BY <3>1, <3>2
  <2>3. Finds(S, size, From(N - d), h)
    BY <2>2 DEF Finds
  <2>4. N + 1 - (d + 1) = N - d
    OBVIOUS
  <2> HIDE DEF h
  <2> QED
    BY <2>3, <2>4
<1>3. T = Nat
  <2> HIDE DEF T
  <2>1. T \in SUBSET Nat
    BY DEF T
  <2> QED
    BY <1>1, <1>2, <2>1, Induction
<1>4. PICK g : Finds(S, size, From(N + 1 - (N + 1)), g)
  <2>1. N + 1 \in T
    <3> HIDE DEF T
    <3> QED
      BY <1>3
  <2> QED
    BY <2>1
<1>5. From(N + 1 - (N + 1)) = Nat
  BY DEF From
<1>6. \E f : Finds(S, size, Nat, f)
  BY <1>4, <1>5
<1> QED
  BY <1>6, ExecChosen

\* What is found from k on.
LEMMA ExecUnfolds ==
    ASSUME NEW S, Bounded(S), NEW size \in Nat \ {0}, NEW k \in Nat
    PROVE  Exec(S, size)[k] = Step(S, size, Exec(S, size), k)
BY ExecExists DEF Finds


\* T has the positions after all starts, and those from where the first match
\* leads into it.
Inductive(S, size, T) ==
    /\ T \in SUBSET Nat
    /\ \A k \in Nat : Following(S, k) = {} => k \in T
    /\ \A k \in Nat : Following(S, k) # {} /\ Min(Following(S, k)) + size \in T => k \in T

\* Induction from the last of the starts back.
LEMMA Backwards ==
    ASSUME NEW S, Bounded(S), NEW size \in Nat \ {0},
           NEW T, Inductive(S, size, T)
    PROVE  T = Nat
<1>0. PICK N \in Nat : S \in SUBSET (0..N)
  BY DEF Bounded
<1> USE DEF Inductive
<1> DEFINE U == {d \in Nat : \A k \in Nat : k + d >= N + 1 => k \in T}
<1>1. 0 \in U
  <2>1. ASSUME NEW k \in Nat, k + 0 >= N + 1, NEW m \in S PROVE m \notin Following(S, k)
    <3>1. m \in 0..N
      BY <1>0
    <3> QED
      BY <2>1, <3>1 DEF Following
  <2>2. \A k \in Nat : k + 0 >= N + 1 => Following(S, k) = {}
    BY <2>1 DEF Following
  <2> QED
    BY <2>2
<1>2. ASSUME NEW d \in U PROVE d + 1 \in U
  <2>1. ASSUME NEW k \in Nat, k + (d + 1) >= N + 1, Following(S, k) # {} PROVE k \in T
    <3> DEFINE m == Min(Following(S, k))
    <3>1. m \in Nat /\ m >= k
      BY <2>1, FollowingFacts
    <3>2. (m + size) + d >= N + 1 /\ m + size \in Nat
      BY <2>1, <3>1
    <3>3. m + size \in T
      BY <3>2
    <3> QED
      BY <2>1, <3>3
  <2>2. \A k \in Nat : k + (d + 1) >= N + 1 => k \in T
    BY <2>1
  <2> QED
    BY <2>2
<1>3. U = Nat
  <2> HIDE DEF U
  <2>1. U \in SUBSET Nat
    BY DEF U
  <2> QED
    BY <1>1, <1>2, <2>1, Induction
<1>4. ASSUME NEW k \in Nat PROVE k \in T
  <2>1. N + 1 \in U
    <3> HIDE DEF U
    <3> QED
      BY <1>3
  <2> QED
    BY <2>1
<1> QED
  BY <1>4

\* What is found is a sequence of starts from k on; it is empty only when there
\* is none, and begins with the first.
LEMMA ExecRange ==
    ASSUME NEW S, Bounded(S), NEW size \in Nat \ {0}, NEW k \in Nat
    PROVE  /\ Exec(S, size)[k] \in Seq(S) /\ Exec(S, size)[k] \in Seq(Nat)
           /\ \A j \in 1..Len(Exec(S, size)[k]) :
                Exec(S, size)[k][j] \in S /\ Exec(S, size)[k][j] >= k
           /\ Exec(S, size)[k] = <<>> <=> Following(S, k) = {}
           /\ Exec(S, size)[k] # <<>> => Head(Exec(S, size)[k]) = Min(Following(S, k))
<1> DEFINE E == Exec(S, size)
           T == {l \in Nat : E[l] \in Seq(S) /\ \A j \in 1..Len(E[l]) : E[l][j] >= l}
<1>1. ASSUME NEW l \in Nat, Following(S, l) = {} PROVE l \in T /\ E[l] = <<>>
  <2>1. E[l] = <<>>
    BY <1>1, ExecUnfolds DEF Step
  <2>2. <<>> \in Seq(S) /\ \A j \in 1..Len(<<>>) : FALSE
    OBVIOUS
  <2> HIDE DEF E
  <2> QED
    BY <2>1, <2>2
<1>2. ASSUME NEW l \in Nat, Following(S, l) # {}, Min(Following(S, l)) + size \in T
      PROVE  l \in T /\ E[l] # <<>> /\ Head(E[l]) = Min(Following(S, l))
  <2> DEFINE m == Min(Following(S, l))
  <2>0. Following(S, l) # {}
    BY <1>2
  <2>1. m \in S /\ m \in Nat /\ m >= l
    BY <2>0, FollowingFacts
  <2>2. E[l] = <<m>> \o E[m + size]
    BY <2>0, ExecUnfolds DEF Step
  <2>3. E[m + size] \in Seq(S) /\ \A j \in 1..Len(E[m + size]) : E[m + size][j] >= m + size
    BY <1>2
  <2>4. PICK rest \in Seq(S) : rest = E[m + size]
    BY <2>3
  <2>5. <<m>> \o rest \in Seq(S) /\ Len(<<m>> \o rest) = 1 + Len(rest)
        /\ \A j \in 1..1 + Len(rest) :
             (<<m>> \o rest)[j] = IF j = 1 THEN m ELSE rest[j - 1]
    <3>1. <<m>> \in Seq(S) /\ Len(<<m>>) = 1 /\ <<m>>[1] = m
      BY <2>1
    <3> HIDE DEF m
    <3> QED
      BY <3>1, ConcatProperties
  <2>6. ASSUME NEW j \in 1..Len(E[l]) PROVE E[l][j] >= l
    <3>1. CASE j = 1
      BY <2>1, <2>2, <2>4, <2>5, <3>1
    <3>2. CASE j # 1
      <4>1. j - 1 \in 1..Len(rest)
        BY <2>2, <2>4, <2>5, <3>2
      <4>2. rest[j - 1] >= m + size /\ rest[j - 1] \in Nat
        BY <2>3, <2>4, <4>1, ElementOfSeq DEF Bounded
      <4> QED
        BY <2>1, <2>2, <2>4, <2>5, <3>2, <4>1, <4>2
    <3> QED
      BY <3>1, <3>2
  <2>7. E[l] # <<>> /\ Head(E[l]) = m
    BY <2>2, <2>4, <2>5
  <2> QED
    BY <2>2, <2>4, <2>5, <2>6, <2>7
<1>3. T = Nat
  <2>1. T \in SUBSET Nat
    OBVIOUS
  <2>2. \A l \in Nat : Following(S, l) = {} => l \in T
    BY <1>1
  <2>3. \A l \in Nat : Following(S, l) # {} /\ Min(Following(S, l)) + size \in T => l \in T
    BY <1>2
  <2> HIDE DEF T, E
  <2>4. Inductive(S, size, T)
    BY <2>1, <2>2, <2>3 DEF Inductive
  <2> QED
    BY <2>4, Backwards
<1>4. E[k] \in Seq(S) /\ \A j \in 1..Len(E[k]) : E[k][j] >= k
  <2>1. k \in T
    BY <1>3
  <2> QED
    BY <2>1
<1>5. E[k] = <<>> <=> Following(S, k) = {}
  <2>1. CASE Following(S, k) = {}
    BY <1>1, <2>1
  <2>2. CASE Following(S, k) # {}
    <3>1. Min(Following(S, k)) \in Nat
      BY <2>2, FollowingFacts
    <3>2. Min(Following(S, k)) + size \in Nat
      BY <3>1
    <3> QED
      BY <1>2, <1>3, <2>2, <3>2
  <2> QED
    BY <2>1, <2>2
<1>6. E[k] # <<>> => Head(E[k]) = Min(Following(S, k))
  <2>1. Following(S, k) # {} => Min(Following(S, k)) \in Nat
    BY FollowingFacts
  <2> QED
    BY <1>2, <1>3, <1>5, <2>1
<1>7. E[k] \in Seq(Nat) /\ \A j \in 1..Len(E[k]) : E[k][j] \in S
  <2>1. S \subseteq Nat
    BY DEF Bounded
  <2>2. PICK e \in Seq(S) : e = E[k]
    BY <1>4
  <2>3. e \in Seq(Nat) /\ \A j \in 1..Len(e) : e[j] \in S
    BY <2>1, SeqMonotonic, ElementOfSeq
  <2> QED
    BY <2>2, <2>3
<1> QED
  BY <1>4, <1>5, <1>6, <1>7

LEMMA ExecLast ==
    ASSUME NEW S, Bounded(S), NEW size \in Nat \ {0}, NEW k \in Nat,
           Exec(S, size)[k] # <<>>
    PROVE  Last(Exec(S, size)[k]) >= k
<1>1. /\ Exec(S, size)[k] \in Seq(Nat)
      /\ \A j \in 1..Len(Exec(S, size)[k]) :
           Exec(S, size)[k][j] \in S /\ Exec(S, size)[k][j] >= k
  BY ExecRange
<1>2. Len(Exec(S, size)[k]) \in Nat \ {0}
  BY <1>1, EmptySeq
<1>3. Len(Exec(S, size)[k]) \in 1..Len(Exec(S, size)[k])
  BY <1>2
<1> QED
  BY <1>1, <1>3 DEF Last

\* What is found depends on the starts from k on only.
LEMMA ExecSame ==
    ASSUME NEW S, Bounded(S), NEW R, Bounded(R),
           NEW size \in Nat \ {0}, NEW k \in Nat, NEW l \in Nat,
           Following(S, k) = Following(R, l)
    PROVE  Exec(S, size)[k] = Exec(R, size)[l]
<1> DEFINE T == {i \in Nat : \A j \in Nat : Following(S, i) = Following(R, j)
                              => Exec(S, size)[i] = Exec(R, size)[j]}
<1>1. ASSUME NEW i \in Nat, Following(S, i) = {} PROVE i \in T
  <2>1. ASSUME NEW j \in Nat, Following(S, i) = Following(R, j)
        PROVE  Exec(S, size)[i] = Exec(R, size)[j]
    <3>1. Following(S, i) = {} /\ Following(R, j) = {}
      BY <1>1, <2>1
    <3>2. /\ Exec(S, size)[i] = Step(S, size, Exec(S, size), i)
          /\ Exec(R, size)[j] = Step(R, size, Exec(R, size), j)
      BY ExecUnfolds
    <3> QED
      BY <3>1, <3>2 DEF Step
  <2> QED
    BY <2>1
<1>2. ASSUME NEW i \in Nat, Following(S, i) # {}, Min(Following(S, i)) + size \in T
      PROVE  i \in T
  <2>1. ASSUME NEW j \in Nat, Following(S, i) = Following(R, j)
        PROVE  Exec(S, size)[i] = Exec(R, size)[j]
    <3> DEFINE m == Min(Following(S, i))
    <3>0. Following(S, i) # {} /\ Following(R, j) # {} /\ m = Min(Following(R, j))
      BY <1>2, <2>1
    <3>1. m \in Nat /\ m >= i
      BY <3>0, FollowingFacts
    <3>2. m >= j
      BY <3>0, FollowingFacts
    <3>3. ASSUME NEW n \in Nat, n >= m + size
          PROVE  n \in S <=> n \in R
      <4>1. n >= i /\ n >= j
        BY <3>1, <3>2, <3>3
      <4>2. n \in Following(S, i) <=> n \in Following(R, j)
        BY <2>1
      <4> QED
        BY <4>1, <4>2 DEF Following
    <3>4. Following(S, m + size) = Following(R, m + size)
      <4>1. S \in SUBSET Nat /\ R \in SUBSET Nat
        BY DEF Bounded
      <4> HIDE DEF m
      <4> QED
        BY <3>3, <4>1 DEF Following
    <3>5. m + size \in Nat
      BY <3>1
    <3>6. Exec(S, size)[m + size] = Exec(R, size)[m + size]
      BY <1>2, <3>4, <3>5
    <3>7. /\ Exec(S, size)[i] = Step(S, size, Exec(S, size), i)
          /\ Exec(R, size)[j] = Step(R, size, Exec(R, size), j)
      BY ExecUnfolds
    <3> QED
      BY <3>0, <3>6, <3>7 DEF Step
  <2> QED
    BY <2>1
<1>3. T = Nat
  <2>1. T \in SUBSET Nat
    OBVIOUS
  <2>2. \A i \in Nat : Following(S, i) = {} => i \in T
    BY <1>1
  <2>3. \A i \in Nat : Following(S, i) # {} /\ Min(Following(S, i)) + size \in T => i \in T
    BY <1>2
  <2> HIDE DEF T
  <2>4. Inductive(S, size, T)
    BY <2>1, <2>2, <2>3 DEF Inductive
  <2> QED
    BY <2>4, Backwards
<1>4. k \in T
  BY <1>3
<1> QED
  BY <1>4

\* Where a search that has found all from k on goes on.
Behind(S, size, k) ==
    IF Exec(S, size)[k] = <<>> THEN k ELSE Last(Exec(S, size)[k]) + size


LEMMA BehindAll ==
    ASSUME NEW S, Bounded(S), NEW size \in Nat \ {0}, NEW k \in Nat
    PROVE  /\ Behind(S, size, k) \in Nat /\ Behind(S, size, k) >= k
           /\ \A m \in S : m < Behind(S, size, k)
           /\ Following(S, k) # {} =>
                Behind(S, size, k) = Behind(S, size, Min(Following(S, k)) + size)
<1> DEFINE E == Exec(S, size)
           B(l) == Behind(S, size, l)
           T == {l \in Nat : B(l) \in Nat /\ B(l) >= l /\ \A m \in S : m < B(l)}
<1>0. \A m \in S : m \in Nat
  BY DEF Bounded
<1>1. ASSUME NEW l \in Nat, Following(S, l) = {} PROVE l \in T
  <2>1. E[l] = <<>>
    BY <1>1, ExecRange
  <2>2. B(l) = l
    BY <2>1 DEF Behind
  <2>3. \A m \in S : m < l
    BY <1>0, <1>1 DEF Following
  <2> QED
    BY <2>2, <2>3
<1>2. ASSUME NEW l \in Nat, Following(S, l) # {}
      PROVE  /\ B(l) = B(Min(Following(S, l)) + size)
             /\ Min(Following(S, l)) \in Nat /\ Min(Following(S, l)) >= l
  <2> DEFINE m == Min(Following(S, l))
  <2>1. m \in S /\ m \in Nat /\ m >= l /\ m + size \in Nat
    BY <1>2, FollowingFacts
  <2>2. E[l] = <<m>> \o E[m + size]
    BY <1>2, ExecUnfolds DEF Step
  <2>3. PICK rest \in Seq(Nat) : rest = E[m + size]
    BY <2>1, ExecRange
  <2>4. /\ <<m>> \o rest # <<>>
        /\ Last(<<m>> \o rest) = IF rest = <<>> THEN m ELSE Last(rest)
    <3>1. <<m>> \in Seq(Nat) /\ Len(<<m>>) = 1 /\ <<m>>[1] = m
      BY <2>1
    <3>2. /\ Len(<<m>> \o rest) = 1 + Len(rest)
          /\ \A j \in 1..1 + Len(rest) :
               (<<m>> \o rest)[j] = IF j <= 1 THEN <<m>>[j] ELSE rest[j - 1]
          /\ <<m>> \o rest \in Seq(Nat)
      BY <3>1, ConcatProperties
    <3>3. Len(rest) \in Nat /\ (rest = <<>> <=> Len(rest) = 0)
      BY EmptySeq, LenProperties
    <3> HIDE DEF m
    <3>4. (<<m>> \o rest)[1 + Len(rest)] = IF rest = <<>> THEN m ELSE rest[Len(rest)]
      BY <3>1, <3>2, <3>3
    <3> QED
      BY <3>2, <3>3, <3>4, EmptySeq DEF Last
  <2>5. B(l) = Last(E[l]) + size
    BY <2>2, <2>3, <2>4 DEF Behind
  <2>6. B(m + size) = IF rest = <<>> THEN m + size ELSE Last(rest) + size
    BY <2>3 DEF Behind
  <2>7. B(l) = B(m + size)
    BY <2>2, <2>3, <2>4, <2>5, <2>6
  <2> QED
    BY <2>1, <2>7
<1>3. ASSUME NEW l \in Nat, Following(S, l) # {}, Min(Following(S, l)) + size \in T PROVE l \in T
  <2>1. PICK m \in Nat : m = Min(Following(S, l)) /\ m >= l /\ B(l) = B(m + size)
    BY <1>2, <1>3
  <2>2. B(m + size) \in Nat /\ B(m + size) >= m + size /\ \A n \in S : n < B(m + size)
    BY <1>3, <2>1
  <2> HIDE DEF B
  <2> QED
    BY <2>1, <2>2
<1>4. T = Nat
  <2>1. T \in SUBSET Nat
    OBVIOUS
  <2>2. \A l \in Nat : Following(S, l) = {} => l \in T
    BY <1>1
  <2>3. \A l \in Nat : Following(S, l) # {} /\ Min(Following(S, l)) + size \in T => l \in T
    BY <1>3
  <2> HIDE DEF T
  <2>4. Inductive(S, size, T)
    BY <2>1, <2>2, <2>3 DEF Inductive
  <2> QED
    BY <2>4, Backwards
<1>5. k \in T
  BY <1>4
<1> HIDE DEF B
<1>6. B(k) \in Nat /\ B(k) >= k /\ \A m \in S : m < B(k)
  BY <1>5
<1> QED
  BY <1>2, <1>6 DEF B

Below(R, cut) == {m \in R : m < cut}

\* What is found in R from k on is what is found in S, and then what is found
\* behind it and the cut.
FoundFirst(R, S, size, k, cut) ==
    Exec(R, size)[k] = Exec(S, size)[k] \o Exec(R, size)[Larger(Behind(S, size, k), cut)]

\* When more starts are found behind those there were, what is found before is
\* found first, and the search goes on behind it.
LEMMA ExecExtends ==
    ASSUME NEW R, Bounded(R), NEW size \in Nat \ {0}, NEW k \in Nat,
           NEW cut \in Nat, NEW S, S = Below(R, cut)
    PROVE  FoundFirst(R, S, size, k, cut)
<1> DEFINE E == Exec(S, size)
           F == Exec(R, size)
           G(l) == Larger(Behind(S, size, l), cut)
           T == {l \in Nat : F[l] = E[l] \o F[G(l)]}
<1>0. /\ Bounded(S)
      /\ \A m : m \in S <=> m \in R /\ m < cut
      /\ \A m \in R : m \in Nat
  BY DEF Bounded, Below
<1>1. ASSUME NEW l \in Nat, Following(S, l) = {} PROVE l \in T
  <2>1. E[l] = <<>>
    BY <1>0, <1>1, ExecRange
  <2>2. G(l) = Larger(l, cut) /\ G(l) \in Nat
    BY <2>1 DEF Behind, Larger
  <2>3. ASSUME NEW m \in R PROVE m >= l <=> m >= Larger(l, cut)
    <3>1. m >= l => ~(m < cut)
      BY <1>0, <1>1 DEF Following
    <3> QED
      BY <1>0, <3>1 DEF Larger
  <2>4. Following(R, l) = Following(R, Larger(l, cut))
    BY <2>3 DEF Following
  <2>5. F[l] = F[G(l)]
    BY <2>2, <2>4, ExecSame
  <2>6. F[G(l)] \in Seq(Nat)
    BY <2>2, ExecRange
  <2>7. E[l] \o F[G(l)] = F[G(l)]
    BY <2>1, <2>6, ConcatEmptySeq
  <2> HIDE DEF E, F, G
  <2> QED
    BY <2>5, <2>7
<1>2. ASSUME NEW l \in Nat, Following(S, l) # {}, Min(Following(S, l)) + size \in T
      PROVE  l \in T
  <2>0. Following(S, l) # {}
    BY <1>2
  <2>1. PICK m \in Nat : m = Min(Following(S, l)) /\ m \in S /\ m >= l
                         /\ \A n \in S : n >= l => m <= n
    BY <1>0, <2>0, FollowingFacts
  <2>2. m \in Following(R, l) /\ \A n \in Following(R, l) : m <= n
    <3>1. m \in R /\ m < cut
      BY <1>0, <2>1
    <3>2. ASSUME NEW n \in R, n >= l PROVE m <= n
      <4>1. CASE n < cut
        BY <1>0, <2>1, <3>2, <4>1
      <4>2. CASE ~(n < cut)
        BY <1>0, <3>1, <4>2
      <4> QED
        BY <4>1, <4>2
    <3> QED
      BY <2>1, <3>1, <3>2 DEF Following
  <2>3. Following(R, l) \in SUBSET Nat
    BY <1>0 DEF Following
  <2>4. Following(R, l) # {} /\ Min(Following(R, l)) = m
    BY <2>2, <2>3, MinOf
  <2>5. E[l] = <<m>> \o E[m + size]
    BY <1>0, <2>0, <2>1, ExecUnfolds DEF Step
  <2>6. F[l] = <<m>> \o F[m + size]
    BY <2>4, ExecUnfolds DEF Step
  <2>7. F[m + size] = E[m + size] \o F[G(m + size)]
    BY <1>2, <2>1
  <2>8. Behind(S, size, l) = Behind(S, size, m + size)
    BY <1>0, <2>0, <2>1, BehindAll
  <2>9. G(l) = G(m + size) /\ G(l) \in Nat
    <3>1. Behind(S, size, l) \in Nat
      BY <1>0, BehindAll
    <3> QED
      BY <2>8, <3>1 DEF Larger
  <2>10. <<m>> \in Seq(Nat) /\ E[m + size] \in Seq(Nat) /\ F[G(l)] \in Seq(Nat)
    <3>1. m + size \in Nat /\ <<m>> \in Seq(Nat)
      OBVIOUS
    <3>2. E[m + size] \in Seq(Nat)
      BY <1>0, <3>1, ExecRange
    <3>3. F[G(l)] \in Seq(Nat)
      <4> HIDE DEF G
      <4> QED
        BY <2>9, ExecRange
    <3> QED
      BY <3>1, <3>2, <3>3
  <2> HIDE DEF E, F, G
  <2>11. (<<m>> \o E[m + size]) \o F[G(l)] = <<m>> \o (E[m + size] \o F[G(l)])
    <3>1. PICK a \in Seq(Nat), b \in Seq(Nat), c \in Seq(Nat) :
             a = <<m>> /\ b = E[m + size] /\ c = F[G(l)]
      BY <2>10
    <3>2. (a \o b) \o c = a \o (b \o c)
      BY ConcatAssociative, SMTT(40)
    <3> QED
      BY <3>1, <3>2
  <2> QED
    BY <2>5, <2>6, <2>7, <2>9, <2>11
<1>3. T = Nat
  <2>1. T \in SUBSET Nat
    OBVIOUS
  <2>2. \A l \in Nat : Following(S, l) = {} => l \in T
    BY <1>1
  <2>3. \A l \in Nat : Following(S, l) # {} /\ Min(Following(S, l)) + size \in T => l \in T
    BY <1>2
  <2> HIDE DEF T
  <2>4. Inductive(S, size, T)
    BY <2>1, <2>2, <2>3 DEF Inductive
  <2> QED
    BY <1>0, <2>4, Backwards
<1>4. k \in T
  BY <1>3
<1> QED
  BY <1>4 DEF FoundFirst

-----------------------------------------------------------------------------
(* Texts whose white space is collapsed *)

\* One more code unit of a text
Squeeze(t, c) == IF c = Space /\ t # <<>> /\ Last(t) = Space THEN t ELSE Append(t, c)

\* g is the function the fold of Collapse defines by recursion.
Folds(s, D, g) ==
    g = [T \in SUBSET D |-> IF T = {} THEN <<>> ELSE Squeeze(g[T \ {Max(T)}], s[Max(T)])]

LEMMA CollapseChosen ==
    ASSUME NEW s
    PROVE  Collapse(s) = (CHOOSE g : Folds(s, DOMAIN s, g))[DOMAIN s]
BY DEF Collapse, FoldLeft, MapThenFoldSet, Folds, Squeeze

LEMMA MaxOfInterval ==
    ASSUME NEW n \in Nat, NEW T \in SUBSET (1..n), T # {}
    PROVE  Max(T) \in T /\ \A i \in T : i <= Max(T)
<1> DEFINE U == {n - i : i \in T}
<1>1. U \in SUBSET Nat /\ U # {}
  <2>1. ASSUME NEW i \in T PROVE n - i \in Nat
    <3>1. i \in 1..n
      OBVIOUS
    <3> QED
      BY <3>1
  <2>2. PICK i : i \in T
    OBVIOUS
  <2>3. n - i \in U
    BY <2>2
  <2> QED
    BY <2>1, <2>3
<1>2. PICK d \in U : \A e \in U : d <= e
  <2> HIDE DEF U
  <2> QED
    BY <1>1, SmallestNumber
<1>3. PICK m \in T : d = n - m
  BY <1>2
<1>4. ASSUME NEW i \in T PROVE i <= m
  <2>1. n - i \in U
    OBVIOUS
  <2>2. d <= n - i
    BY <1>2, <2>1
  <2> QED
    BY <1>3, <2>2
<1>5. m \in T /\ \A i \in T : m >= i
  BY <1>4
<1>6. \E x \in T : \A y \in T : x >= y
  BY <1>5
<1>7. Max(T) \in T /\ \A y \in T : Max(T) >= y
  BY <1>6 DEF Max
<1> QED
  BY <1>7

LEMMA FoldsExist ==
    ASSUME NEW s, NEW n \in Nat
    PROVE  \E g : Folds(s, 1..n, g)
<1> DEFINE A == {i \in Nat : \E g : Folds(s, 1..i, g)}
<1>1. 0 \in A
  <2> DEFINE g == [T \in SUBSET (1..0) |-> <<>>]
  <2>1. \A T \in SUBSET (1..0) : T = {}
    OBVIOUS
  <2>2. Folds(s, 1..0, g)
    BY <2>1 DEF Folds
  <2> HIDE DEF g
  <2> QED
    BY <2>2
<1>2. ASSUME NEW i \in A PROVE i + 1 \in A
  <2>1. PICK g : Folds(s, 1..i, g)
    OBVIOUS
  <2> DEFINE D == 1..(i + 1)
             W(T, f) == IF T = {} THEN <<>> ELSE Squeeze(f[T \ {Max(T)}], s[Max(T)])
             h == [T \in SUBSET D |-> W(T, g)]
  <2>2. ASSUME NEW T \in SUBSET D, T # {}
        PROVE  T \ {Max(T)} \in SUBSET (1..i) /\ T \ {Max(T)} \in SUBSET D
    <3>1. Max(T) \in T /\ \A j \in T : j <= Max(T)
      <4>1. i + 1 \in Nat /\ T \in SUBSET (1..(i + 1)) /\ T # {}
        BY <2>2
      <4> HIDE DEF A, D
      <4> QED
        BY <4>1, MaxOfInterval
    <3>2. ASSUME NEW j \in T, j # Max(T) PROVE j \in 1..i
      <4>1. i \in Nat /\ j \in 1..(i + 1) /\ Max(T) \in 1..(i + 1) /\ j <= Max(T)
        BY <3>1
      <4>2. \A x, y \in 1..(i + 1) : x <= y /\ x # y => x \in 1..i
        BY <4>1
      <4> HIDE DEF D
      <4> QED
        BY <3>2, <4>1, <4>2, Zenon
    <3> QED
      BY <3>2
  <2>3. ASSUME NEW T \in SUBSET (1..i) PROVE g[T] = W(T, g)
    BY <2>1 DEF Folds
  <2>4. ASSUME NEW T \in SUBSET D PROVE W(T, g) = W(T, h)
    <3>1. CASE T = {}
      BY <3>1
    <3>2. CASE T # {}
      <4> DEFINE V == T \ {Max(T)}
      <4>1. V \in SUBSET (1..i) /\ V \in SUBSET D
        BY <2>2, <3>2
      <4> HIDE DEF V
      <4>2. h[V] = W(V, g) /\ g[V] = W(V, g)
        BY <2>3, <4>1
      <4>3. h[V] = g[V]
        BY <4>2
      <4> HIDE DEF h
      <4> QED
        BY <3>2, <4>3 DEF V
    <3> QED
      BY <3>1, <3>2
  <2>5. Folds(s, D, h)
    <3>1. h = [T \in SUBSET D |-> W(T, h)]
      <4>1. h = [T \in SUBSET D |-> W(T, g)]
        OBVIOUS
      <4> HIDE DEF h, W
      <4> QED
        BY <2>4, <4>1
    <3> HIDE DEF h
    <3> QED
      BY <3>1 DEF Folds
  <2> HIDE DEF h
  <2> QED
    BY <2>5
<1>3. A = Nat
  <2> HIDE DEF A
  <2>1. A \in SUBSET Nat
    BY DEF A
  <2> QED
    BY <1>1, <1>2, <2>1, Induction
<1>4. n \in A
  <2> HIDE DEF A
  <2> QED
    BY <1>3
<1> QED
  BY <1>4

\* f says what is collapsed of each beginning of s.
Collapses(s, f) ==
    /\ DOMAIN f = 0..Len(s) /\ f[0] = <<>>
    /\ \A n \in 1..Len(s) : f[n] = Squeeze(f[n - 1], s[n])

\* Collapse goes through a text from left to right.
LEMMA CollapseSteps ==
    ASSUME NEW s \in Text
    PROVE  \E f : Collapses(s, f) /\ Collapse(s) = f[Len(s)]
<1> DEFINE g == CHOOSE h : Folds(s, DOMAIN s, h)
           f == [n \in 0..Len(s) |-> g[1..n]]
<1>1. DOMAIN s = 1..Len(s) /\ Len(s) \in Nat
  BY DEF Text
<1>2. Folds(s, 1..Len(s), g)
  BY <1>1, FoldsExist
<1> HIDE DEF g
<1>3. f[0] = <<>>
  <2>1. 1..0 = {} /\ {} \in SUBSET (1..Len(s))
    OBVIOUS
  <2>2. g[{}] = <<>>
    BY <1>2, <2>1 DEF Folds
  <2> QED
    BY <1>1, <2>1, <2>2
<1>4. ASSUME NEW n \in 1..Len(s) PROVE f[n] = Squeeze(f[n - 1], s[n])
  <2>1. 1..n \in SUBSET (1..Len(s)) /\ 1..n # {} /\ n \in 1..n /\ n \in Nat
    <3>1. Len(s) \in Nat
      BY <1>1
    <3>2. n \in Nat /\ 1 <= n /\ n <= Len(s)
      BY <3>1
    <3>3. \A i \in 1..n : i \in 1..Len(s)
      BY <3>1, <3>2
    <3>4. n \in 1..n
      BY <3>2
    <3>5. 1..n \in SUBSET (1..Len(s))
      BY <3>3, Zenon
    <3> QED
      BY <3>2, <3>4, <3>5
  <2>2. Max(1..n) = n
    <3>1. Max(1..n) \in 1..n /\ \A i \in 1..n : i <= Max(1..n)
      BY <2>1, MaxOfInterval
    <3> QED
      BY <2>1, <3>1
  <2>3. (1..n) \ {n} = 1..(n - 1)
    BY <2>1
  <2>4. g[1..n] = Squeeze(g[(1..n) \ {Max(1..n)}], s[Max(1..n)])
    BY <1>2, <2>1 DEF Folds
  <2>5. f[n] = g[1..n] /\ f[n - 1] = g[1..(n - 1)]
    BY <1>1, <2>1
  <2> HIDE DEF f
  <2> QED
    BY <2>2, <2>3, <2>4, <2>5
<1>5. Collapse(s) = f[Len(s)]
  BY <1>1, CollapseChosen DEF g
<1> QED
  BY <1>3, <1>4, <1>5 DEF Collapses

-----------------------------------------------------------------------------
(* First and last elements *)

LEMMA LastOfAppend ==
    ASSUME NEW C, NEW s \in Seq(C), NEW e \in C
    PROVE  Last(Append(s, e)) = e
BY AppendProperties DEF Last

LEMMA LastOfConcat ==
    ASSUME NEW C, NEW s \in Seq(C), NEW t \in Seq(C), t # <<>>
    PROVE  Last(s \o t) = Last(t)
<1>1. Len(s) \in Nat /\ Len(t) \in Nat \ {0}
  BY EmptySeq, LenProperties
<1>2. Len(s \o t) = Len(s) + Len(t) /\ (s \o t)[Len(s) + Len(t)] = t[Len(t)]
  BY <1>1, ConcatProperties
<1> QED
  BY <1>2 DEF Last

LEMMA HeadOfConcat ==
    ASSUME NEW C, NEW s \in Seq(C), NEW t \in Seq(C), s # <<>>
    PROVE  Head(s \o t) = Head(s)
<1>1. Len(s) \in Nat \ {0} /\ Len(t) \in Nat
  BY EmptySeq, LenProperties
<1>2. Len(s \o t) = Len(s) + Len(t) /\ (s \o t)[1] = s[1] /\ s \o t \in Seq(C)
  BY <1>1, ConcatProperties
<1> QED
  BY <1>1, <1>2

LEMMA AppendToConcat ==
    ASSUME NEW C, NEW s \in Seq(C), NEW t \in Seq(C), NEW e \in C
    PROVE  s \o Append(t, e) = Append(s \o t, e)
<1>1. <<e>> \in Seq(C) /\ s \o t \in Seq(C)
  BY ConcatProperties
<1>2. Append(t, e) = t \o <<e>>
  BY AppendIsConcat
<1>3. Append(s \o t, e) = (s \o t) \o <<e>>
  BY <1>1, AppendIsConcat
<1>4. (s \o t) \o <<e>> = s \o (t \o <<e>>)
  BY <1>1, ConcatAssociative
<1> QED
  BY <1>2, <1>3, <1>4

LEMMA LastOfTail ==
    ASSUME NEW C, NEW s \in Seq(C), s # <<>>, Tail(s) # <<>>
    PROVE  Last(Tail(s)) = Last(s)
<1>1. Tail(s) \in Seq(C) /\ Len(Tail(s)) = Len(s) - 1
      /\ \A i \in 1..Len(Tail(s)) : Tail(s)[i] = s[i + 1]
  BY HeadTailProperties
<1>2. Len(Tail(s)) \in Nat \ {0} /\ Len(s) \in Nat
  BY <1>1, EmptySeq, LenProperties
<1>3. Tail(s)[Len(Tail(s))] = s[Len(s)]
  BY <1>1, <1>2
<1> QED
  BY <1>3 DEF Last

\* A sequence whose rest is empty has one element.
LEMMA Single ==
    ASSUME NEW C, NEW s \in Seq(C), s # <<>>, Tail(s) = <<>>
    PROVE  Last(s) = Head(s)
<1>1. Len(Tail(s)) = Len(s) - 1
  BY HeadTailProperties
<1>2. Len(s) \in Nat /\ Len(Tail(s)) = 0
  BY EmptySeq, LenProperties
<1>3. Len(s) = 1
  BY <1>1, <1>2
<1> QED
  BY <1>3 DEF Last

-----------------------------------------------------------------------------
(* The white space of two texts, one after the other *)

\* The text v, collapsed, as it is put behind the collapsed text t.
Joint(t, v) ==
    IF t # <<>> /\ Last(t) = Space /\ Head(v) = Space THEN Tail(v) ELSE v

LEMMA JointFacts ==
    ASSUME NEW t \in Text, NEW v \in Text, v # <<>>
    PROVE  /\ Joint(t, v) \in Text /\ t \o Joint(t, v) \in Text
           /\ t \o Joint(t, v) # <<>>
           /\ Last(t \o Joint(t, v)) = Last(v)
<1> USE DEF Text
<1>1. Tail(v) \in Text
  BY HeadTailProperties
<1>2. Joint(t, v) \in Text
  BY <1>1 DEF Joint
<1>3. t \o Joint(t, v) \in Text
  BY <1>2, ConcatProperties
<1>4. CASE Joint(t, v) = <<>>
  <2>1. t # <<>> /\ Last(t) = Space /\ Head(v) = Space /\ Tail(v) = <<>>
    BY <1>4 DEF Joint
  <2>2. Last(v) = Space
    BY <2>1, Single
  <2>3. t \o Joint(t, v) = t
    BY <1>4, ConcatEmptySeq
  <2> QED
    BY <1>2, <1>3, <2>1, <2>2, <2>3
<1>5. CASE Joint(t, v) # <<>>
  <2>1. Last(Joint(t, v)) = Last(v)
    BY <1>5, LastOfTail DEF Joint
  <2>2. Last(t \o Joint(t, v)) = Last(Joint(t, v))
    BY <1>2, <1>5, LastOfConcat
  <2>3. t \o Joint(t, v) # <<>>
    BY <1>2, <1>5, ConcatEqualIffEmpty
  <2> QED
    BY <1>2, <1>3, <2>1, <2>2, <2>3
<1> QED
  BY <1>4, <1>5

LEMMA SqueezeJoint ==
    ASSUME NEW t \in Text, NEW v \in Text, v # <<>>, NEW c \in Letter \cup {Space}
    PROVE  Squeeze(t \o Joint(t, v), c) = t \o Joint(t, Squeeze(v, c))
<1>1. /\ Joint(t, v) \in Text /\ t \o Joint(t, v) \in Text
      /\ t \o Joint(t, v) # <<>> /\ Last(t \o Joint(t, v)) = Last(v)
  BY JointFacts
<1>2. CASE c = Space /\ Last(v) = Space
  BY <1>1, <1>2 DEF Squeeze
<1>3. CASE ~(c = Space /\ Last(v) = Space)
  <2>1. Squeeze(t \o Joint(t, v), c) = Append(t \o Joint(t, v), c)
    BY <1>1, <1>3 DEF Squeeze
  <2>2. Squeeze(v, c) = Append(v, c)
    BY <1>3 DEF Squeeze
  <2>3. Head(Append(v, c)) = Head(v) /\ Tail(Append(v, c)) = Append(Tail(v), c)
    BY HeadTailAppend DEF Text
  <2>4. Joint(t, Append(v, c)) = Append(Joint(t, v), c)
    BY <2>3 DEF Joint
  <2>5. t \o Append(Joint(t, v), c) = Append(t \o Joint(t, v), c)
    BY <1>1, AppendToConcat DEF Text
  <2> QED
    BY <2>1, <2>2, <2>4, <2>5
<1> QED
  BY <1>2, <1>3

\* The first code unit behind a collapsed text
LEMMA SqueezeFirst ==
    ASSUME NEW t \in Text, NEW c \in Letter \cup {Space}
    PROVE  /\ Squeeze(<<>>, c) = <<c>> /\ <<c>> \in Text
           /\ Squeeze(t, c) = t \o Joint(t, <<c>>)
<1>1. <<c>> \in Text /\ Head(<<c>>) = c /\ Tail(<<c>>) = <<>>
  BY DEF Text
<1>2. Squeeze(<<>>, c) = <<c>>
  BY DEF Squeeze
<1>3. t \o <<>> = t /\ Append(t, c) = t \o <<c>>
  BY ConcatEmptySeq, AppendIsConcat DEF Text
<1> QED
  BY <1>1, <1>2, <1>3 DEF Squeeze, Joint

\* A text that is not empty, collapsed, is one that ends and begins as it does.
LEMMA CollapsesFacts ==
    ASSUME NEW s \in Text, NEW f, Collapses(s, f), NEW n \in 0..Len(s)
    PROVE  /\ f[n] \in Text
           /\ n > 0 => f[n] # <<>> /\ Last(f[n]) = s[n]
           /\ n = 0 => f[n] = <<>>
<1> DEFINE T == {m \in Nat : m <= Len(s) =>
                    /\ f[m] \in Text
                    /\ m > 0 => f[m] # <<>> /\ Last(f[m]) = s[m]}
<1>0. Len(s) \in Nat /\ f[0] = <<>>
  BY LenProperties DEF Text, Collapses
<1>1. 0 \in T
  <2>1. <<>> \in Text
    BY EmptySeq DEF Text
  <2> QED
    BY <1>0, <2>1
<1>2. ASSUME NEW m \in T PROVE m + 1 \in T
  <2>1. SUFFICES ASSUME m + 1 <= Len(s)
                 PROVE  f[m + 1] \in Text /\ f[m + 1] # <<>> /\ Last(f[m + 1]) = s[m + 1]
    OBVIOUS
  <2>2. m + 1 \in 1..Len(s) /\ m <= Len(s) /\ m \in Nat
    BY <1>0, <2>1
  <2>3. f[m] \in Text /\ (m > 0 => f[m] # <<>> /\ Last(f[m]) = s[m])
    BY <2>2
  <2>4. s[m + 1] \in Letter \cup {Space}
    BY <2>2, ElementOfSeq DEF Text
  <2>5. f[m + 1] = Squeeze(f[m], s[m + 1])
    <3>1. f[m + 1] = Squeeze(f[(m + 1) - 1], s[m + 1])
      BY <2>2 DEF Collapses
    <3>2. (m + 1) - 1 = m
      BY <2>2
    <3> QED
      BY <3>1, <3>2
  <2>6. /\ Append(f[m], s[m + 1]) \in Text /\ Append(f[m], s[m + 1]) # <<>>
        /\ Last(Append(f[m], s[m + 1])) = s[m + 1]
    BY <2>3, <2>4, AppendProperties, LastOfAppend DEF Text
  <2> QED
    BY <2>3, <2>5, <2>6 DEF Squeeze
<1>3. T = Nat
  <2> HIDE DEF T
  <2>1. T \in SUBSET Nat
    BY DEF T
  <2> QED
    BY <1>1, <1>2, <2>1, Induction
<1>4. n \in T /\ n \in Nat /\ n <= Len(s)
  <2>1. n \in Nat /\ n <= Len(s)
    BY <1>0
  <2> HIDE DEF T
  <2> QED
    BY <1>3, <2>1
<1> QED
  BY <1>0, <1>4

LEMMA CollapseFacts ==
    ASSUME NEW s \in Text
    PROVE  /\ Collapse(s) \in Text
           /\ s = <<>> => Collapse(s) = <<>>
           /\ s # <<>> => Collapse(s) # <<>> /\ Last(Collapse(s)) = Last(s)
<1>1. PICK f : Collapses(s, f) /\ Collapse(s) = f[Len(s)]
  BY CollapseSteps
<1>2. Len(s) \in Nat /\ (s = <<>> <=> Len(s) = 0)
  BY EmptySeq, LenProperties DEF Text
<1>3. Len(s) \in 0..Len(s)
  BY <1>2
<1> QED
  BY <1>1, <1>2, <1>3, CollapsesFacts DEF Last

\* White space is collapsed over the cut between two texts when what is behind
\* the cut loses the space it begins with.
LEMMA CollapseConcat ==
    ASSUME NEW s \in Text, NEW t \in Text, t # <<>>
    PROVE  Collapse(s \o t) = Collapse(s) \o Joint(Collapse(s), Collapse(t))
<1> DEFINE u == s \o t
           a == Len(s)
           b == Len(t)
<1>1. a \in Nat /\ b \in Nat \ {0}
  BY EmptySeq, LenProperties DEF Text
<1>2. u \in Text /\ Len(u) = a + b
      /\ \A i \in 1..a + b : u[i] = IF i <= a THEN s[i] ELSE t[i - a]
  BY ConcatProperties DEF Text
<1>3. PICK f : Collapses(s, f) /\ Collapse(s) = f[a]
  BY CollapseSteps
<1>4. PICK g : Collapses(t, g) /\ Collapse(t) = g[b]
  BY CollapseSteps
<1>5. PICK h : Collapses(u, h) /\ Collapse(u) = h[a + b]
  BY <1>2, CollapseSteps
<1> HIDE DEF u, a, b
<1>6. h[a] = f[a]
  <2> DEFINE T == {n \in Nat : n <= a => h[n] = f[n]}
  <2>1. 0 \in T
    BY <1>3, <1>5 DEF Collapses
  <2>2. ASSUME NEW n \in T PROVE n + 1 \in T
    <3>1. SUFFICES ASSUME n + 1 <= a PROVE h[n + 1] = f[n + 1]
      OBVIOUS
    <3>2. n \in Nat /\ h[n] = f[n] /\ n + 1 \in 1..a /\ n + 1 \in 1..(a + b) /\ (n + 1) - 1 = n
      BY <1>1, <3>1
    <3>3. h[n + 1] = Squeeze(h[(n + 1) - 1], u[n + 1])
      BY <1>2, <1>5, <3>2 DEF Collapses
    <3>4. f[n + 1] = Squeeze(f[(n + 1) - 1], s[n + 1])
      BY <1>3, <3>2 DEF Collapses, a
    <3>5. u[n + 1] = s[n + 1]
      BY <1>2, <3>1, <3>2
    <3> QED
      BY <3>2, <3>3, <3>4, <3>5
  <2>3. T = Nat
    <3> HIDE DEF T
    <3>1. T \in SUBSET Nat
      BY DEF T
    <3> QED
      BY <2>1, <2>2, <3>1, Induction
  <2>4. a \in T
    BY <1>1, <2>3
  <2> QED
    BY <1>1, <2>4
<1>7. f[a] \in Text
  BY <1>3, CollapseFacts
<1>8. ASSUME NEW n \in 1..b
      PROVE  /\ g[n] \in Text /\ g[n] # <<>> /\ t[n] \in Letter \cup {Space}
             /\ h[a + n] = Squeeze(h[a + (n - 1)], t[n])
             /\ g[n] = Squeeze(g[n - 1], t[n])
  <2>1. n \in 0..Len(t) /\ n > 0 /\ n \in 1..Len(t) /\ a + n \in 1..(a + b)
        /\ (a + n) - 1 = a + (n - 1) /\ (a + n) - a = n /\ ~(a + n <= a)
    BY <1>1 DEF b
  <2>2. g[n] \in Text /\ g[n] # <<>>
    BY <1>4, <2>1, CollapsesFacts
  <2>3. t[n] \in Letter \cup {Space}
    BY <2>1, ElementOfSeq DEF Text
  <2>4. u[a + n] = t[n]
    BY <1>2, <2>1
  <2>5. h[a + n] = Squeeze(h[(a + n) - 1], u[a + n])
    BY <1>2, <1>5, <2>1 DEF Collapses
  <2>6. g[n] = Squeeze(g[n - 1], t[n])
    BY <1>4, <2>1 DEF Collapses
  <2> QED
    BY <2>1, <2>2, <2>3, <2>4, <2>5, <2>6
<1>9. h[a + b] = f[a] \o Joint(f[a], g[b])
  <2> DEFINE Joined(n) == h[a + n] = f[a] \o Joint(f[a], g[n])
             T == {n \in Nat : n + 1 <= b => Joined(n + 1)}
  <2>1. 0 \in T
    <3>1. 1 \in 1..b /\ 0 + 1 = 1 /\ 1 - 1 = 0 /\ a + 0 = a
      BY <1>1
    <3>2. t[1] \in Letter \cup {Space} /\ h[a + 1] = Squeeze(h[a + (1 - 1)], t[1])
          /\ g[1] = Squeeze(g[1 - 1], t[1])
      BY <1>8, <3>1
    <3>3. g[1] = <<t[1]>> /\ h[a + 1] = f[a] \o Joint(f[a], <<t[1]>>)
      <4>1. g[0] = <<>> /\ h[a + 0] = f[a]
        BY <1>4, <1>6, <3>1 DEF Collapses
      <4>2. g[1] = Squeeze(<<>>, t[1]) /\ h[a + 1] = Squeeze(f[a], t[1])
        BY <3>1, <3>2, <4>1
      <4> QED
        BY <1>7, <3>2, <4>2, SqueezeFirst
    <3>4. Joined(1)
      BY <3>3
    <3> HIDE DEF Joined
    <3> QED
      BY <3>1, <3>4
  <2>2. ASSUME NEW n \in T PROVE n + 1 \in T
    <3>1. SUFFICES ASSUME (n + 1) + 1 <= b PROVE Joined((n + 1) + 1)
      <4> HIDE DEF Joined
      <4> QED
        OBVIOUS
    <3>2. n \in Nat /\ n + 1 \in 1..b /\ (n + 1) + 1 \in 1..b /\ ((n + 1) + 1) - 1 = n + 1
      BY <1>1, <3>1
    <3>3. Joined(n + 1)
      <4> HIDE DEF Joined
      <4> QED
        BY <1>1, <3>1, <3>2
    <3>4. g[n + 1] \in Text /\ g[n + 1] # <<>>
      BY <1>8, <3>2
    <3>5. PICK m \in 1..b : m = (n + 1) + 1 /\ m - 1 = n + 1
      BY <3>2
    <3>6. t[m] \in Letter \cup {Space} /\ h[a + m] = Squeeze(h[a + (n + 1)], t[m])
          /\ g[m] = Squeeze(g[n + 1], t[m])
      BY <1>8, <3>5
    <3>7. Squeeze(f[a] \o Joint(f[a], g[n + 1]), t[m])
            = f[a] \o Joint(f[a], Squeeze(g[n + 1], t[m]))
      BY <1>7, <3>4, <3>6, SqueezeJoint
    <3>8. Joined(m)
      BY <3>3, <3>6, <3>7
    <3> HIDE DEF Joined
    <3> QED
      BY <3>5, <3>8
  <2>3. T = Nat
    <3> HIDE DEF T
    <3>1. T \in SUBSET Nat
      BY DEF T
    <3> QED
      BY <2>1, <2>2, <3>1, Induction
  <2>4. b - 1 \in T /\ (b - 1) + 1 = b
    <3> HIDE DEF T
    <3> QED
      BY <1>1, <2>3
  <2>5. Joined(b)
    <3> HIDE DEF Joined
    <3> QED
      BY <1>1, <2>4
  <2> QED
    BY <2>5
<1> QED
  BY <1>3, <1>4, <1>5, <1>9 DEF u

-----------------------------------------------------------------------------
(* Slices of a text *)

LEMMA SliceFacts ==
    ASSUME NEW C, NEW s \in Seq(C), NEW i \in Nat, NEW j \in Nat, i <= j, j <= Len(s)
    PROVE  /\ Slice(s, i, j) \in Seq(C) /\ Len(Slice(s, i, j)) = j - i
           /\ \A n \in 1..(j - i) : Slice(s, i, j)[n] = s[i + n]
<1>1. Len(s) \in Nat /\ Smaller(j, Len(s)) = j
  BY LenProperties DEF Smaller
<1>2. ASSUME NEW n \in (i + 1)..j PROVE s[n] \in C
  <2>1. n \in 1..Len(s)
    BY <1>1
  <2> QED
    BY <2>1, ElementOfSeq
<1>3. i + 1 \in Int /\ j \in Int
  OBVIOUS
<1>4. /\ SubSeq(s, i + 1, j) \in Seq(C)
      /\ Len(SubSeq(s, i + 1, j)) = IF i + 1 <= j THEN j - (i + 1) + 1 ELSE 0
      /\ \A n \in 1..(j - (i + 1) + 1) : SubSeq(s, i + 1, j)[n] = s[(i + 1) + n - 1]
  BY <1>2, <1>3, SubSeqProperties
<1>5. Slice(s, i, j) = SubSeq(s, i + 1, j)
  BY <1>1 DEF Slice
<1>6. /\ j - (i + 1) + 1 = j - i
      /\ (IF i + 1 <= j THEN j - i ELSE 0) = j - i
      /\ \A n \in 1..(j - i) : (i + 1) + n - 1 = i + n
  OBVIOUS
<1> QED
  BY <1>4, <1>5, <1>6

\* A slice of the first text
LEMMA SliceBefore ==
    ASSUME NEW C, NEW s \in Seq(C), NEW t \in Seq(C),
           NEW i \in Nat, NEW j \in Nat, i <= j, j <= Len(s)
    PROVE  Slice(s \o t, i, j) = Slice(s, i, j)
<1>1. Len(s) \in Nat /\ Len(t) \in Nat
  BY LenProperties
<1>2. /\ s \o t \in Seq(C) /\ Len(s \o t) = Len(s) + Len(t)
      /\ \A n \in 1..Len(s) + Len(t) : (s \o t)[n] = IF n <= Len(s) THEN s[n] ELSE t[n - Len(s)]
  BY ConcatProperties
<1>3. PICK u \in Seq(C) : u = s \o t
  BY <1>2
<1>4. j <= Len(u) /\ \A n \in 1..(j - i) : u[i + n] = s[i + n]
  BY <1>1, <1>2, <1>3
<1>5. /\ Slice(u, i, j) \in Seq(C) /\ Len(Slice(u, i, j)) = j - i
      /\ \A n \in 1..(j - i) : Slice(u, i, j)[n] = u[i + n]
  BY <1>4, SliceFacts, Zenon
<1>6. /\ Slice(s, i, j) \in Seq(C) /\ Len(Slice(s, i, j)) = j - i
      /\ \A n \in 1..(j - i) : Slice(s, i, j)[n] = s[i + n]
  BY SliceFacts
<1>7. \A n \in 1..Len(Slice(u, i, j)) : Slice(u, i, j)[n] = Slice(s, i, j)[n]
  BY <1>4, <1>5, <1>6
<1>8. Slice(u, i, j) = Slice(s, i, j)
  BY <1>5, <1>6, <1>7, SeqEqual
<1> QED
  BY <1>3, <1>8

\* The end of the first text and the second text are the end of both.
LEMMA SliceConcat ==
    ASSUME NEW C, NEW s \in Seq(C), NEW t \in Seq(C), NEW i \in Nat, i <= Len(s)
    PROVE  Slice(s, i, Len(s)) \o t = Slice(s \o t, i, Len(s \o t))
<1>1. Len(s) \in Nat /\ Len(t) \in Nat
  BY LenProperties
<1>2. /\ s \o t \in Seq(C) /\ Len(s \o t) = Len(s) + Len(t)
      /\ \A n \in 1..Len(s) + Len(t) : (s \o t)[n] = IF n <= Len(s) THEN s[n] ELSE t[n - Len(s)]
  BY ConcatProperties
<1>3. PICK u \in Seq(C) : u = s \o t
  BY <1>2
<1>4. PICK a \in Nat, b \in Nat : a = Len(s) /\ b = Len(t)
  BY <1>1
<1>5. /\ Slice(u, i, a + b) \in Seq(C) /\ Len(Slice(u, i, a + b)) = (a + b) - i
      /\ \A n \in 1..((a + b) - i) : Slice(u, i, a + b)[n] = u[i + n]
  <2>1. a + b \in Nat /\ i <= a + b /\ a + b <= Len(u)
    BY <1>2, <1>3, <1>4
  <2> QED
    BY <2>1, SliceFacts
<1>6. PICK v \in Seq(C) : /\ v = Slice(s, i, a) /\ Len(v) = a - i
                         /\ \A n \in 1..(a - i) : v[n] = s[i + n]
  <2>1. i <= a /\ a <= Len(s)
    BY <1>4
  <2>2. /\ Slice(s, i, a) \in Seq(C) /\ Len(Slice(s, i, a)) = a - i
        /\ \A n \in 1..(a - i) : Slice(s, i, a)[n] = s[i + n]
    BY <2>1, SliceFacts
  <2> QED
    BY <2>2
<1>7. /\ v \o t \in Seq(C) /\ Len(v \o t) = Len(v) + Len(t)
      /\ \A n \in 1..Len(v) + Len(t) : (v \o t)[n] = IF n <= Len(v) THEN v[n] ELSE t[n - Len(v)]
  BY ConcatProperties
<1>8. PICK w \in Seq(C) : w = v \o t
  BY <1>7
<1>9. Len(w) = (a + b) - i
  BY <1>4, <1>6, <1>7, <1>8
<1>10. ASSUME NEW n \in 1..Len(w) PROVE w[n] = Slice(u, i, a + b)[n]
  <2>0. n \in 1..((a + b) - i) /\ n \in Nat /\ n \in 1..Len(v) + Len(t) /\ n > 0
    BY <1>4, <1>6, <1>9
  <2>1. w[n] = IF n <= a - i THEN v[n] ELSE t[n - (a - i)]
    BY <1>6, <1>7, <1>8, <2>0
  <2>2. i + n \in 1..Len(s) + Len(t)
    BY <1>4, <2>0
  <2>3. u[i + n] = IF i + n <= a THEN s[i + n] ELSE t[(i + n) - a]
    BY <1>2, <1>3, <1>4, <2>2
  <2>4. i + n <= a <=> n <= a - i
    BY <1>4, <2>0
  <2>5. (i + n) - a = n - (a - i)
    BY <1>4, <2>0
  <2>6. n <= a - i => v[n] = s[i + n]
    BY <1>4, <1>6, <2>0
  <2> QED
    BY <1>5, <2>0, <2>1, <2>3, <2>4, <2>5, <2>6
<1>11. w = Slice(u, i, a + b)
  <2>1. Len(w) = Len(Slice(u, i, a + b))
    BY <1>5, <1>9
  <2> QED
    BY <1>5, <1>10, <2>1, SeqEqual
<1> QED
  BY <1>2, <1>3, <1>4, <1>6, <1>8, <1>11

\* A slice of the end of a text is a slice of the text.
LEMMA SliceOfEnd ==
    ASSUME NEW C, NEW s \in Seq(C), NEW k \in Nat, NEW i \in Nat, NEW j \in Nat,
           k <= i, i <= j, j <= Len(s)
    PROVE  Slice(Slice(s, k, Len(s)), i - k, j - k) = Slice(s, i, j)
<1>1. PICK l \in Nat : l = Len(s)
  BY LenProperties
<1>2. k <= l
  BY <1>1
<1>3. PICK u \in Seq(C) : /\ u = Slice(s, k, l) /\ Len(u) = l - k
                         /\ \A n \in 1..(l - k) : u[n] = s[k + n]
  <2>1. l <= Len(s)
    BY <1>1
  <2>2. /\ Slice(s, k, l) \in Seq(C) /\ Len(Slice(s, k, l)) = l - k
        /\ \A n \in 1..(l - k) : Slice(s, k, l)[n] = s[k + n]
    BY <1>2, <2>1, SliceFacts
  <2> QED
    BY <2>2
<1>4. i - k \in Nat /\ j - k \in Nat /\ i - k <= j - k /\ j - k <= Len(u)
      /\ (j - k) - (i - k) = j - i
  BY <1>1, <1>3
<1>5. /\ Slice(u, i - k, j - k) \in Seq(C) /\ Len(Slice(u, i - k, j - k)) = (j - k) - (i - k)
      /\ \A n \in 1..((j - k) - (i - k)) : Slice(u, i - k, j - k)[n] = u[(i - k) + n]
  BY <1>4, SliceFacts, Zenon
<1>6. /\ Slice(s, i, j) \in Seq(C) /\ Len(Slice(s, i, j)) = j - i
      /\ \A n \in 1..(j - i) : Slice(s, i, j)[n] = s[i + n]
  BY SliceFacts, Zenon
<1>7. ASSUME NEW n \in 1..(j - i) PROVE u[(i - k) + n] = s[i + n]
  <2>1. (i - k) + n \in 1..(l - k) /\ k + ((i - k) + n) = i + n
    BY <1>1
  <2> QED
    BY <1>3, <2>1
<1>8. \A n \in 1..Len(Slice(u, i - k, j - k)) : Slice(u, i - k, j - k)[n] = Slice(s, i, j)[n]
  BY <1>4, <1>5, <1>6, <1>7
<1>9. Len(Slice(u, i - k, j - k)) = Len(Slice(s, i, j))
  BY <1>4, <1>5, <1>6
<1>10. Slice(u, i - k, j - k) = Slice(s, i, j)
  BY <1>5, <1>6, <1>8, <1>9, SeqEqual
<1> QED
  BY <1>1, <1>3, <1>10

-----------------------------------------------------------------------------
(* Where the phrase starts *)

LEMMA StartsFacts ==
    ASSUME NEW s \in Text, phrase \in Text, NEW offset \in Nat
    PROVE  /\ Bounded(Starts(s, offset))
           /\ \A m : m \in Starts(s, offset) <=>
                /\ m \in Nat /\ offset <= m /\ m + Len(phrase) <= offset + Len(s)
                /\ Slice(s, m - offset, m - offset + Len(phrase)) = phrase
<1>1. PICK a \in Nat, b \in Nat : a = Len(s) /\ b = Len(phrase)
  BY LenProperties DEF Text
<1>2. \A m : m \in Starts(s, offset) <=>
             /\ m \in offset..(offset + a - b)
             /\ Slice(s, m - offset, m - offset + b) = phrase
  BY <1>1 DEF Starts
<1>3. \A m : m \in offset..(offset + a - b) <=>
             m \in Nat /\ offset <= m /\ m + b <= offset + a
  OBVIOUS
<1>4. Bounded(Starts(s, offset))
  <2>1. \A m \in Starts(s, offset) : m \in Nat /\ m <= offset + a
    BY <1>2, <1>3
  <2>2. offset + a \in Nat
    OBVIOUS
  <2> QED
    BY <2>1, <2>2 DEF Bounded
<1> QED
  BY <1>1, <1>2, <1>3, <1>4

\* Of what is behind the cut between two texts, the phrase starts as many units
\* before the cut as it has, less one, and later.
LEMMA StartsBefore ==
    ASSUME NEW s \in Text, NEW t \in Text, phrase \in Text
    PROVE  Starts(s, 0) = Below(Starts(s \o t, 0), Larger(0, Overlap(Len(s))))
<1>1. PICK a \in Nat, b \in Nat, c \in Nat : a = Len(s) /\ b = Len(phrase) /\ c = Len(t)
  BY LenProperties DEF Text
<1>2. s \o t \in Text /\ Len(s \o t) = a + c
  BY <1>1, ConcatProperties DEF Text
<1>3. \A m : m \in Starts(s, 0) <=> /\ m \in Nat /\ 0 <= m /\ m + b <= 0 + a
                                  /\ Slice(s, m - 0, m - 0 + b) = phrase
  BY <1>1, StartsFacts
<1>4. \A m : m \in Starts(s \o t, 0) <=> /\ m \in Nat /\ 0 <= m /\ m + b <= 0 + (a + c)
                                       /\ Slice(s \o t, m - 0, m - 0 + b) = phrase
  BY <1>1, <1>2, StartsFacts
<1>5. ASSUME NEW m \in Nat
      PROVE  m + b <= a <=> m < Larger(0, Overlap(Len(s)))
  BY <1>1 DEF Larger, Overlap
<1>6. ASSUME NEW m \in Nat, m + b <= a
      PROVE  Slice(s \o t, m, m + b) = Slice(s, m, m + b)
  <2>1. m + b \in Nat /\ m <= m + b /\ m + b <= Len(s)
    BY <1>1, <1>6
  <2> QED
    BY <2>1, SliceBefore DEF Text
<1>7. \A m \in Nat : m - 0 = m /\ m - 0 + b = m + b /\ (m + b <= 0 + a <=> m + b <= a)
                     /\ (m + b <= a => m + b <= 0 + (a + c)) /\ 0 <= m
  OBVIOUS
<1>8. ASSUME NEW m \in Nat
      PROVE  m \in Starts(s, 0) <=> m \in Starts(s \o t, 0) /\ m < Larger(0, Overlap(Len(s)))
  <2>1. m \in Starts(s, 0) <=> m + b <= a /\ Slice(s, m, m + b) = phrase
    BY <1>3, <1>7
  <2>2. m \in Starts(s \o t, 0) <=> m + b <= 0 + (a + c) /\ Slice(s \o t, m, m + b) = phrase
    BY <1>4, <1>7
  <2> QED
    BY <1>5, <1>6, <1>7, <2>1, <2>2
<1>9. \A m : (m \in Starts(s, 0) => m \in Nat) /\ (m \in Starts(s \o t, 0) => m \in Nat)
  BY <1>3, <1>4
<1> QED
  BY <1>8, <1>9 DEF Below

\* In the end of a text the phrase starts where it does in the text.
LEMMA StartsOfEnd ==
    ASSUME NEW s \in Text, phrase \in Text, NEW k \in Nat, k <= Len(s)
    PROVE  \A m : m \in Starts(Slice(s, k, Len(s)), k) <=> m \in Starts(s, 0) /\ m >= k
<1>1. PICK a \in Nat, b \in Nat : a = Len(s) /\ b = Len(phrase)
  BY LenProperties DEF Text
<1>2. PICK u \in Text : u = Slice(s, k, a) /\ Len(u) = a - k
  <2>1. k <= a /\ a <= Len(s)
    BY <1>1
  <2>2. Slice(s, k, a) \in Text /\ Len(Slice(s, k, a)) = a - k
    BY <2>1, SliceFacts DEF Text
  <2> QED
    BY <2>2
<1>3. \A m : m \in Starts(u, k) <=> /\ m \in Nat /\ k <= m /\ m + b <= k + Len(u)
                                  /\ Slice(u, m - k, m - k + b) = phrase
  BY <1>1, StartsFacts
<1>4. \A m : m \in Starts(s, 0) <=> /\ m \in Nat /\ 0 <= m /\ m + b <= 0 + a
                                  /\ Slice(s, m - 0, m - 0 + b) = phrase
  BY <1>1, StartsFacts
<1>5. ASSUME NEW m \in Nat, k <= m, m + b <= a
      PROVE  Slice(u, m - k, m - k + b) = Slice(s, m, m + b)
  <2>1. m + b \in Nat /\ m <= m + b /\ m + b <= Len(s) /\ (m + b) - k = m - k + b
    BY <1>1, <1>5
  <2>2. Slice(Slice(s, k, Len(s)), m - k, (m + b) - k) = Slice(s, m, m + b)
    BY <1>5, <2>1, SliceOfEnd DEF Text
  <2> QED
    BY <1>1, <1>2, <2>1, <2>2
<1>6. k + Len(u) = a
  BY <1>1, <1>2
<1>7. \A m \in Nat : m - 0 = m /\ m - 0 + b = m + b /\ (m + b <= 0 + a <=> m + b <= a) /\ 0 <= m
                     /\ (k <= m <=> m >= k)
  OBVIOUS
<1>8. ASSUME NEW m \in Nat
      PROVE  m \in Starts(u, k) <=> m \in Starts(s, 0) /\ m >= k
  <2>1. m \in Starts(u, k) <=> k <= m /\ m + b <= a /\ Slice(u, m - k, m - k + b) = phrase
    BY <1>3, <1>6
  <2>2. m \in Starts(s, 0) <=> m + b <= a /\ Slice(s, m, m + b) = phrase
    BY <1>4, <1>7
  <2> QED
    BY <1>5, <1>7, <2>1, <2>2
<1>9. \A m : (m \in Starts(u, k) => m \in Nat) /\ (m \in Starts(s, 0) => m \in Nat)
  BY <1>3, <1>4
<1> QED
  BY <1>1, <1>2, <1>8, <1>9

-----------------------------------------------------------------------------
(* The snippet *)

LEMMA TrimText ==
    ASSUME NEW s \in Text
    PROVE  Trim(s) \in Text
<1> DEFINE front == IF s # <<>> /\ Head(s) = Space THEN Tail(s) ELSE s
<1>1. front \in Text
  BY HeadTailProperties DEF Text
<1>2. ASSUME front # <<>> PROVE Front(front) \in Text
  <2>1. PICK v \in Text : v = front /\ v # <<>>
    BY <1>1, <1>2
  <2>2. Len(v) \in Nat /\ \A i \in 1..(Len(v) - 1) : i \in 1..Len(v)
    BY LenProperties DEF Text
  <2>3. \A i \in 1..(Len(v) - 1) : v[i] \in Letter \cup {Space}
    BY <2>2, ElementOfSeq DEF Text
  <2>4. SubSeq(v, 1, Len(v) - 1) \in Text
    BY <2>2, <2>3, SubSeqProperties DEF Text
  <2> QED
    BY <2>1, <2>4 DEF Front
<1> HIDE DEF front
<1>3. Trim(s) = IF front # <<>> /\ Last(front) = Space THEN Front(front) ELSE front
  BY DEF Trim, front
<1> QED
  BY <1>1, <1>2, <1>3

LEMMA SnippetFacts ==
    ASSUME NEW s \in Text, NEW at \in Nat, at <= Len(s)
    PROVE  /\ SnippetOf(s, 0, at, Len(s)) \in Snippet
           /\ SnippetOf(s, 0, at, Len(s)) # NoSnippet
<1>0. PICK a \in Nat : a = Len(s)
  BY LenProperties DEF Text
<1> DEFINE start == Larger(0, at - Before)
           stop == Smaller(a, at + After)
<1>1. start \in Nat /\ stop \in Nat /\ start <= stop /\ stop <= Len(s)
  BY <1>0, TextAssumption DEF Larger, Smaller
<1>2. Slice(s, start, stop) \in Text
  BY <1>1, SliceFacts DEF Text
<1>3. Trim(Slice(s, start, stop)) \in Text
  BY <1>2, TrimText
<1>4. start - 0 = start /\ stop - 0 = stop /\ (start > 0) \in BOOLEAN /\ (stop < a) \in BOOLEAN
  BY <1>1
<1>5. SnippetOf(s, 0, at, a) = [complete |-> TRUE, cutBefore |-> start > 0,
                                text |-> Trim(Slice(s, start - 0, stop - 0)), cutAfter |-> stop < a]
  BY DEF SnippetOf
<1> HIDE DEF start, stop
<1>6. SnippetOf(s, 0, at, a) \in Snippet
  <2>1. ASSUME NEW x \in BOOLEAN, NEW y \in BOOLEAN, NEW u \in Text
        PROVE  [complete |-> TRUE, cutBefore |-> x, text |-> u, cutAfter |-> y] \in Snippet
    BY DEF Snippet
  <2>2. Trim(Slice(s, start - 0, stop - 0)) \in Text
    BY <1>3, <1>4
  <2> QED
    BY <1>4, <1>5, <2>1, <2>2, Zenon
<1>7. SnippetOf(s, 0, at, a).complete = TRUE /\ NoSnippet.complete = FALSE
  BY <1>5 DEF NoSnippet
<1> QED
  BY <1>0, <1>6, <1>7

\* The window shows what the text does.
LEMMA SnippetOfEnd ==
    ASSUME NEW s \in Text, NEW at \in Nat, at <= Len(s),
           NEW k \in Nat, k <= Larger(0, at - Before)
    PROVE  SnippetOf(Slice(s, k, Len(s)), k, at, Len(s)) = SnippetOf(s, 0, at, Len(s))
<1>0. PICK a \in Nat : a = Len(s)
  BY LenProperties DEF Text
<1> DEFINE start == Larger(0, at - Before)
           stop == Smaller(a, at + After)
<1>1. start \in Nat /\ stop \in Nat /\ k <= start /\ start <= stop /\ stop <= Len(s)
  BY <1>0, TextAssumption DEF Larger, Smaller
<1>2. Slice(Slice(s, k, Len(s)), start - k, stop - k) = Slice(s, start, stop)
  BY <1>1, SliceOfEnd DEF Text
<1>3. start - 0 = start /\ stop - 0 = stop
  BY <1>1
<1> QED
  BY <1>0, <1>2, <1>3 DEF SnippetOf

\* What a complete snippet shows does not change when there is more text.
LEMMA SnippetStays ==
    ASSUME NEW s \in Text, NEW t \in Text, NEW at \in Nat, Len(s) > at + After
    PROVE  SnippetOf(s \o t, 0, at, Len(s \o t)) = SnippetOf(s, 0, at, Len(s))
<1>0. PICK a \in Nat, b \in Nat : a = Len(s) /\ b = Len(t)
  BY LenProperties DEF Text
<1>1. Len(s \o t) = a + b
  BY <1>0, ConcatProperties DEF Text
<1> DEFINE start == Larger(0, at - Before)
           stop == at + After
<1>2. /\ start \in Nat /\ stop \in Nat /\ start <= stop /\ stop <= Len(s)
      /\ stop < a /\ stop < a + b
      /\ Smaller(a, at + After) = stop /\ Smaller(a + b, at + After) = stop
  BY <1>0, TextAssumption DEF Larger, Smaller
<1>3. Slice(s \o t, start, stop) = Slice(s, start, stop)
  BY <1>2, SliceBefore DEF Text
<1>4. start - 0 = start /\ stop - 0 = stop
  BY <1>2
<1>5. SnippetOf(s \o t, 0, at, a + b)
        = [complete |-> TRUE, cutBefore |-> start > 0,
           text |-> Trim(Slice(s \o t, start - 0, Smaller(a + b, at + After) - 0)),
           cutAfter |-> Smaller(a + b, at + After) < a + b]
  BY DEF SnippetOf
<1>6. SnippetOf(s, 0, at, a)
        = [complete |-> TRUE, cutBefore |-> start > 0,
           text |-> Trim(Slice(s, start - 0, Smaller(a, at + After) - 0)),
           cutAfter |-> Smaller(a, at + After) < a]
  BY DEF SnippetOf
<1>7. (Smaller(a + b, at + After) < a + b) = (Smaller(a, at + After) < a)
  BY <1>2
<1> HIDE DEF start, stop
<1> QED
  BY <1>0, <1>1, <1>2, <1>3, <1>4, <1>5, <1>6, <1>7

-----------------------------------------------------------------------------
(* The matches of a text and of what comes behind it *)

PhraseOK == phrase \in Text /\ phrase # <<>>

LEMMA PhraseLength ==
    ASSUME PhraseOK
    PROVE  Len(phrase) \in Nat \ {0}
BY EmptySeq DEF PhraseOK, Text

\* A match is within the text, and the search goes on within it.
LEMMA MatchesWithin ==
    ASSUME PhraseOK, NEW s \in Text
    PROVE  /\ MatchesIn(s, 0, 0) \in Seq(Nat)
           /\ MatchesIn(s, 0, 0) # <<>> =>
                Head(MatchesIn(s, 0, 0)) \in Nat
                /\ Head(MatchesIn(s, 0, 0)) + Len(phrase) <= Len(s)
           /\ Behind(Starts(s, 0), Len(phrase), 0) \in Nat
           /\ Behind(Starts(s, 0), Len(phrase), 0) <= Len(s)
<1> DEFINE S == Starts(s, 0)
           E == Exec(S, Len(phrase))[0]
<1>1. PICK a \in Nat, b \in Nat : a = Len(s) /\ b = Len(phrase) /\ b # 0
  BY PhraseLength, LenProperties DEF Text
<1>2. Bounded(S) /\ \A m \in S : m \in Nat /\ m + b <= a
  <2>1. Bounded(S) /\ \A m \in S : m \in Nat /\ m + b <= 0 + a
    BY <1>1, StartsFacts DEF PhraseOK
  <2>2. 0 + a = a
    OBVIOUS
  <2> QED
    BY <2>1, <2>2
<1> HIDE DEF S
<1>3. E \in Seq(S) /\ E \in Seq(Nat)
  BY <1>1, <1>2, ExecRange
<1>4. Behind(S, Len(phrase), 0) \in Nat
  BY <1>1, <1>2, BehindAll
<1>5. Behind(S, Len(phrase), 0) = IF E = <<>> THEN 0 ELSE Last(E) + b
  BY <1>1 DEF Behind
<1>6. ASSUME E # <<>> PROVE Head(E) \in S /\ Last(E) \in S
  <2>1. PICK e \in Seq(S) : e = E /\ e # <<>>
    BY <1>3, <1>6
  <2>2. Len(e) \in Nat \ {0}
    BY <2>1, EmptySeq
  <2>3. 1 \in 1..Len(e) /\ Len(e) \in 1..Len(e)
    BY <2>2
  <2>4. e[1] \in S /\ e[Len(e)] \in S
    BY <2>3, ElementOfSeq
  <2>5. Head(e) = e[1]
    BY <2>1
  <2> QED
    BY <2>1, <2>4, <2>5 DEF Last
<1>7. MatchesIn(s, 0, 0) = E
  BY DEF MatchesIn, S
<1> HIDE DEF E
<1> QED
  BY <1>1, <1>2, <1>3, <1>4, <1>5, <1>6, <1>7 DEF S

\* The search of the window w, which starts at k, from n on finds the matches of
\* the text u that a search of the text s has not found.
GoesOn(u, s, w, k, n) ==
    /\ MatchesIn(u, 0, 0) = MatchesIn(s, 0, 0) \o MatchesIn(w, k, n)
    /\ MatchesIn(w, k, n) \in Seq(Nat)
    /\ MatchesIn(w, k, n) # <<>> =>
         Head(MatchesIn(w, k, n)) >= n /\ Last(MatchesIn(w, k, n)) >= n

\* The search of a window that begins before the next match can start finds the
\* matches of the whole text that have not been found.
LEMMA MatchesGoOn ==
    ASSUME PhraseOK, NEW s \in Text, NEW t \in Text, NEW k \in Nat, k <= Len(s),
           NEW n \in Nat, k <= n,
           n = Larger(Behind(Starts(s, 0), Len(phrase), 0), Overlap(Len(s)))
    PROVE  GoesOn(s \o t, s, Slice(s, k, Len(s)) \o t, k, n)
<1> DEFINE u == s \o t
           size == Len(phrase)
           R == Starts(u, 0)
           S == Starts(s, 0)
           D == Starts(Slice(u, k, Len(u)), k)
           cut == Larger(0, Overlap(Len(s)))
<1>1. PICK a \in Nat, b \in Nat \ {0}, c \in Nat : a = Len(s) /\ b = size /\ c = Len(t)
  BY PhraseLength, LenProperties DEF Text
<1>2. u \in Text /\ Len(u) = a + c
  BY <1>1, ConcatProperties DEF Text
<1>3. Slice(s, k, Len(s)) \o t = Slice(u, k, Len(u))
  BY SliceConcat DEF Text
<1>4. S = Below(R, cut)
  BY StartsBefore DEF PhraseOK
<1>5. k <= Len(u)
  BY <1>1, <1>2
<1> HIDE DEF u
<1>6. \A m : m \in D <=> m \in R /\ m >= k
  BY <1>2, <1>5, StartsOfEnd DEF PhraseOK
<1>7. Bounded(R) /\ Bounded(S) /\ Bounded(D)
  <2>1. Bounded(R) /\ Bounded(S)
    BY <1>2, StartsFacts DEF PhraseOK
  <2> HIDE DEF D, R, S
  <2>2. Bounded(D)
    BY <1>6, <2>1 DEF Bounded
  <2> QED
    BY <2>1, <2>2
<1>8. cut \in Nat
  BY <1>1 DEF Larger, Overlap
<1>9. Behind(S, size, 0) \in Nat
  <2> HIDE DEF S, size
  <2> QED
    BY <1>1, <1>7, BehindAll
<1>10. n = Larger(Behind(S, size, 0), cut)
  <2> DEFINE B == Behind(S, size, 0)
  <2>1. n = Larger(B, Overlap(Len(s)))
    OBVIOUS
  <2> HIDE DEF B
  <2>2. B \in Nat /\ Overlap(Len(s)) \in Int
    BY <1>1, <1>9 DEF Overlap, B
  <2>3. Larger(B, Overlap(Len(s))) = Larger(B, Larger(0, Overlap(Len(s))))
    BY <2>2 DEF Larger
  <2> QED
    BY <2>1, <2>3 DEF B
<1> HIDE DEF size, R, S, D, cut
<1>11. Exec(R, size)[0] = Exec(S, size)[0] \o Exec(R, size)[n]
  <2>1. size \in Nat \ {0} /\ 0 \in Nat
    BY <1>1
  <2> QED
    <3>1. FoundFirst(R, S, size, 0, cut)
      BY <1>4, <1>7, <1>8, <2>1, ExecExtends
    <3> QED
      BY <1>10, <3>1 DEF FoundFirst
<1>12. Following(D, n) = Following(R, n)
  <2>1. R \in SUBSET Nat
    BY <1>7 DEF Bounded
  <2>2. \A m \in R : m >= n => m >= k
    BY <2>1
  <2> QED
    BY <1>6, <2>2 DEF Following
<1>13. Exec(D, size)[n] = Exec(R, size)[n]
  BY <1>1, <1>7, <1>12, ExecSame
<1>14. /\ Exec(D, size)[n] \in Seq(Nat)
       /\ Exec(D, size)[n] # <<>> =>
            Head(Exec(D, size)[n]) >= n /\ Last(Exec(D, size)[n]) >= n
  <2>0. size \in Nat \ {0}
    BY <1>1
  <2>1. /\ Exec(D, size)[n] \in Seq(Nat)
        /\ (Exec(D, size)[n] = <<>>) <=> (Following(D, n) = {})
        /\ Exec(D, size)[n] # <<>> => Head(Exec(D, size)[n]) = Min(Following(D, n))
    <3>1. Exec(D, size)[n] \in Seq(Nat)
      BY <1>7, <2>0, ExecRange
    <3>2. (Exec(D, size)[n] = <<>>) <=> (Following(D, n) = {})
      BY <1>7, <2>0, ExecRange
    <3>3. Exec(D, size)[n] # <<>> => Head(Exec(D, size)[n]) = Min(Following(D, n))
      BY <1>7, <2>0, ExecRange
    <3> QED
      BY <3>1, <3>2, <3>3
  <2>4. Exec(D, size)[n] # <<>> => Last(Exec(D, size)[n]) >= n
    BY <1>7, <2>0, ExecLast
  <2>2. Following(D, n) # {} => Min(Following(D, n)) >= n
    BY <1>7, FollowingFacts
  <2> QED
    BY <2>1, <2>2, <2>4
<1> QED
  BY <1>3, <1>11, <1>13, <1>14 DEF GoesOn, MatchesIn, u, size, R, S, D

-----------------------------------------------------------------------------
(* The inductive invariant *)

Found == MatchesIn(Whole, 0, 0)

\* Whatever has been seen, the state is that of a search of all of it.
SearchInv ==
    /\ SearchTypeOK
    /\ endedInWhitespace = (seen # <<>> /\ Last(seen) = Space)
    /\ base <= Len(Whole) /\ buffer = Slice(Whole, base, Len(Whole))
    /\ count = Len(Found)
    /\ first = IF Found = <<>> THEN -1 ELSE Head(Found)
    /\ nextStart = Larger(Behind(Starts(Whole, 0), Len(phrase), 0), Overlap(Len(Whole)))
    /\ base = RetainFrom(nextStart, first, snippet # NoSnippet)
    /\ snippet = IF first >= 0 /\ (finished \/ Len(Whole) > first + After)
                 THEN SnippetOf(Whole, 0, first, Len(Whole)) ELSE NoSnippet

\* A scan of the window and some more of the collapsed text
LEMMA ScanKeeps ==
    ASSUME SearchInv, ~finished, NEW x \in Text, NEW final \in BOOLEAN,
           Scan(buffer \o x, final), phrase' = phrase, seen' \in Text,
           Whole' = Whole \o x, finished' = final,
           endedInWhitespace' = (seen' # <<>> /\ Last(seen') = Space)
    PROVE  SearchInv'
<1> DEFINE W == Whole
           V == W \o x
           b == buffer \o x
           p == Len(phrase)
           found == MatchesIn(b, base, nextStart)
           at == IF first < 0 /\ found # <<>> THEN Head(found) ELSE first
           behind == IF found = <<>> THEN nextStart ELSE Last(found) + p
           start == Larger(behind, Overlap(base + Len(b)))
           shown == IF Shown(at, base + Len(b), final)
                    THEN SnippetOf(b, base, at, base + Len(b)) ELSE snippet
           retain == RetainFrom(start, at, shown # NoSnippet)
           N == MatchesIn(V, 0, 0)
<1>0. Before \in Nat /\ After \in Nat
  BY TextAssumption
<1>1. /\ count' = count + Len(found) /\ first' = at /\ nextStart' = start
      /\ snippet' = shown /\ buffer' = Slice(b, retain - base, Len(b)) /\ base' = retain
  BY DEF Scan
<1>2. /\ phrase \in Phrases /\ seen \in Text /\ base \in Nat /\ nextStart \in Nat
      /\ count \in Nat /\ first \in Nat \cup {-1}
      /\ base <= Len(W) /\ buffer = Slice(W, base, Len(W))
      /\ count = Len(Found)
      /\ first = IF Found = <<>> THEN -1 ELSE Head(Found)
      /\ nextStart = Larger(Behind(Starts(W, 0), p, 0), Overlap(Len(W)))
      /\ base = IF first >= 0 /\ snippet = NoSnippet
                THEN Smaller(Larger(0, nextStart - Before), Larger(0, first - Before))
                ELSE Larger(0, nextStart - Before)
      /\ snippet = IF first >= 0 /\ Len(W) > first + After
                   THEN SnippetOf(W, 0, first, Len(W)) ELSE NoSnippet
  BY DEF SearchInv, SearchTypeOK, RetainFrom
<1>3. PhraseOK
  BY <1>2, TextAssumption DEF PhraseOK, Text
<1>4. W \in Text
  BY <1>2, CollapseFacts DEF Whole
<1>5. V \in Text /\ Len(V) = Len(W) + Len(x)
  BY <1>4, ConcatProperties DEF Text
<1>6. PICK w \in Nat, v \in Nat, s \in Nat \ {0} :
         w = Len(W) /\ v = Len(V) /\ s = p /\ w <= v
  <2>1. Len(W) \in Nat /\ Len(x) \in Nat /\ p \in Nat \ {0}
    BY <1>3, <1>4, PhraseLength, LenProperties DEF Text
  <2>2. Len(V) \in Nat /\ Len(W) <= Len(V)
    BY <1>5, <2>1
  <2> QED
    BY <2>1, <2>2
<1>7. b = Slice(V, base, Len(V)) /\ Len(b) = v - base /\ base + Len(b) = v /\ base <= v
  <2> HIDE DEF W
  <2>1. b = Slice(V, base, Len(V))
    <3>1. Slice(W, base, Len(W)) \o x = Slice(W \o x, base, Len(W \o x))
      <4>1. base \in Nat /\ base <= Len(W)
        BY <1>2
      <4> QED
        BY <1>4, <4>1, SliceConcat DEF Text
    <3> QED
      BY <1>2, <3>1
  <2> HIDE DEF V
  <2>2. base \in Nat /\ base <= Len(V) /\ base <= v /\ v <= Len(V)
    BY <1>2, <1>6
  <2>3. Len(Slice(V, base, v)) = v - base
    BY <1>5, <2>2, SliceFacts DEF Text
  <2> HIDE DEF b
  <2>4. v = Len(V) /\ base \in Nat
    BY <1>2, <1>6
  <2>5. b = Slice(V, base, v)
    BY <2>1, <2>4
  <2>6. Len(b) = v - base
    BY <2>3, <2>5
  <2> QED
    BY <2>1, <2>2, <2>4, <2>6
<1>8. base <= nextStart /\ base <= Larger(0, nextStart - Before)
  <2>1. base <= Larger(0, nextStart - Before)
    BY <1>0, <1>2 DEF Larger, Smaller
  <2> QED
    BY <1>0, <1>2, <2>1 DEF Larger
<1>9. /\ N = Found \o found /\ found \in Seq(Nat)
      /\ found # <<>> => Head(found) >= nextStart /\ Last(found) >= nextStart
  <2> HIDE DEF W, p
  <2>1. b = Slice(W, base, Len(W)) \o x
    BY <1>2
  <2>2. GoesOn(W \o x, W, Slice(W, base, Len(W)) \o x, base, nextStart)
    BY <1>2, <1>3, <1>4, <1>8, MatchesGoOn DEF p
  <2>3. GoesOn(V, W, b, base, nextStart)
    BY <2>1, <2>2
  <2>4. Found = MatchesIn(W, 0, 0)
    BY DEF Found, W
  <2> HIDE DEF V, b
  <2> QED
    BY <2>3, <2>4 DEF GoesOn
<1>10. Found \in Seq(Nat) /\ (Found # <<>> => Head(Found) \in Nat)
  BY <1>3, <1>4, MatchesWithin DEF Found
<1>11. /\ N \in Seq(Nat)
       /\ N # <<>> => Head(N) \in Nat /\ Head(N) + s <= v
       /\ Behind(Starts(V, 0), p, 0) \in Nat
       /\ Behind(Starts(V, 0), p, 0) <= v
       /\ Behind(Starts(V, 0), p, 0) = IF N = <<>> THEN 0 ELSE Last(N) + p
       /\ Behind(Starts(W, 0), p, 0) = IF Found = <<>> THEN 0 ELSE Last(Found) + p
  <2>1. /\ Behind(Starts(V, 0), p, 0) = IF N = <<>> THEN 0 ELSE Last(N) + p
        /\ Behind(Starts(W, 0), p, 0) = IF Found = <<>> THEN 0 ELSE Last(Found) + p
    BY DEF Behind, MatchesIn, Found
  <2>2. /\ N \in Seq(Nat)
        /\ N # <<>> => Head(N) \in Nat /\ Head(N) + p <= Len(V)
        /\ Behind(Starts(V, 0), p, 0) \in Nat
        /\ Behind(Starts(V, 0), p, 0) <= Len(V)
    BY <1>3, <1>5, MatchesWithin
  <2> HIDE DEF V, N, p
  <2> QED
    BY <1>6, <2>1, <2>2
<1> HIDE DEF W, V, b, p, found, N
<1>12. at = IF N = <<>> THEN -1 ELSE Head(N)
  <2>1. CASE Found = <<>>
    <3>1. N = found /\ first = -1
      BY <1>2, <1>9, <2>1, ConcatEmptySeq
    <3> QED
      BY <3>1
  <2>2. CASE Found # <<>>
    <3>1. N # <<>> /\ Head(N) = Head(Found)
      BY <1>9, <1>10, <2>2, HeadOfConcat, ConcatEqualIffEmpty
    <3>2. first = Head(Found) /\ ~(first < 0)
      BY <1>2, <1>10, <2>2
    <3> QED
      BY <3>1, <3>2
  <2> QED
    BY <2>1, <2>2
<1>13. count + Len(found) = Len(N)
  BY <1>2, <1>9, <1>10, ConcatProperties
<1>14. /\ start = Larger(Behind(Starts(V, 0), p, 0), Overlap(v))
       /\ start \in Nat /\ start >= nextStart /\ start <= v
  <2>1. Overlap(v) = v - s + 1 /\ Overlap(Len(W)) = w - s + 1
    BY <1>6 DEF Overlap, p
  <2>2. CASE found = <<>>
    <3>1. N = Found
      BY <1>9, <1>10, <2>2, ConcatEmptySeq
    <3>2. Behind(Starts(V, 0), p, 0) = Behind(Starts(W, 0), p, 0)
      BY <1>11, <3>1
    <3>3. start = Larger(nextStart, Overlap(v))
      BY <1>7, <2>2
    <3>4. PICK B \in Nat : B = Behind(Starts(V, 0), p, 0) /\ B <= v
      BY <1>11
    <3>5. nextStart = Larger(B, w - s + 1) /\ start = Larger(nextStart, v - s + 1)
      BY <1>2, <2>1, <3>2, <3>3, <3>4
    <3> HIDE DEF start
    <3> QED
      BY <1>2, <1>6, <2>1, <3>4, <3>5 DEF Larger
  <2>3. CASE found # <<>>
    <3>1. N # <<>> /\ Last(N) = Last(found)
      BY <1>9, <1>10, <2>3, LastOfConcat, ConcatEqualIffEmpty
    <3>2. behind = Behind(Starts(V, 0), p, 0)
      BY <1>11, <2>3, <3>1
    <3>3. start = Larger(Behind(Starts(V, 0), p, 0), Overlap(v))
      BY <1>7, <3>2
    <3>4. PICK B \in Nat : B = Behind(Starts(V, 0), p, 0) /\ B <= v /\ B = Last(found) + s
      BY <1>6, <1>11, <3>1
    <3>5. B >= nextStart
      <4>1. Last(found) >= nextStart /\ Len(found) \in Nat \ {0}
        BY <1>9, <2>3, EmptySeq
      <4>2. Last(found) \in Nat
        BY <1>9, <4>1, ElementOfSeq DEF Last
      <4> QED
        BY <1>2, <1>6, <3>4, <4>1, <4>2
    <3>6. start = Larger(B, v - s + 1)
      BY <2>1, <3>3, <3>4
    <3> HIDE DEF start
    <3> QED
      BY <1>2, <1>6, <3>3, <3>4, <3>5, <3>6 DEF Larger
  <2> QED
    BY <2>2, <2>3
<1>15. at \in Nat \cup {-1} /\ (at >= 0 => at <= v)
  BY <1>6, <1>11, <1>12
<1> HIDE DEF start
<1>16. ASSUME at >= 0, snippet = NoSnippet PROVE base <= Larger(0, at - Before)
  <2>1. CASE first >= 0
    <3>1. /\ at = first /\ first \in Nat
          /\ base = Smaller(Larger(0, nextStart - Before), Larger(0, first - Before))
      BY <1>2, <1>16, <2>1
    <3> HIDE DEF at
    <3> QED
      BY <1>0, <1>2, <3>1 DEF Larger, Smaller
  <2>2. CASE ~(first >= 0)
    <3>1. at = Head(found) /\ found # <<>> /\ at >= nextStart
      BY <1>2, <1>9, <1>16, <2>2
    <3> HIDE DEF at
    <3>2. nextStart \in Nat /\ base \in Nat /\ at \in Nat
      BY <1>2, <1>15, <1>16
    <3> QED
      BY <1>0, <1>8, <3>1, <3>2 DEF Larger
  <2> QED
    BY <2>1, <2>2
<1>17. shown = IF at >= 0 /\ (final \/ v > at + After)
               THEN SnippetOf(V, 0, at, v) ELSE NoSnippet
  <2>1. CASE snippet = NoSnippet
    <3>1. shown = IF at >= 0 /\ (final \/ v > at + After)
                  THEN SnippetOf(b, base, at, v) ELSE NoSnippet
      BY <1>7, <2>1 DEF Shown
    <3>2. ASSUME at >= 0 PROVE SnippetOf(b, base, at, v) = SnippetOf(V, 0, at, v)
      <4>1. at \in Nat /\ at <= Len(V) /\ base <= Larger(0, at - Before)
        BY <1>6, <1>15, <1>16, <2>1, <3>2
      <4> HIDE DEF at
      <4>2. SnippetOf(Slice(V, base, Len(V)), base, at, Len(V)) = SnippetOf(V, 0, at, Len(V))
        BY <1>2, <1>5, <4>1, SnippetOfEnd
      <4> QED
        BY <1>6, <1>7, <4>2
    <3> HIDE DEF shown, at
    <3> QED
      BY <3>1, <3>2
  <2>2. CASE snippet # NoSnippet
    <3>1. first >= 0 /\ w > first + After /\ snippet = SnippetOf(W, 0, first, w)
      BY <1>2, <1>6, <2>2
    <3>2. first \in Nat /\ at = first
      BY <1>2, <3>1
    <3>3. SnippetOf(V, 0, first, v) = SnippetOf(W, 0, first, w)
      <4>1. Len(W) > first + After
        BY <1>6, <3>1
      <4> QED
        BY <1>4, <1>6, <3>2, <4>1, SnippetStays DEF V
    <3>4. v > first + After
      BY <1>6, <3>1, <3>2, TextAssumption
    <3>5. shown = snippet
      BY <2>2 DEF Shown
    <3> HIDE DEF shown, at
    <3>6. at >= 0 /\ (final \/ v > at + After)
      BY <3>1, <3>2, <3>4
    <3>7. shown = SnippetOf(V, 0, at, v)
      BY <3>1, <3>2, <3>3, <3>5, Zenon
    <3> QED
      BY <3>6, <3>7, Zenon
  <2> QED
    BY <2>1, <2>2
<1>18. shown # NoSnippet <=> at >= 0 /\ (final \/ v > at + After)
  <2>1. ASSUME at >= 0 PROVE SnippetOf(V, 0, at, v) # NoSnippet
    <3>1. at \in Nat /\ at <= Len(V)
      BY <1>6, <1>15, <2>1
    <3> HIDE DEF at
    <3> QED
      BY <1>5, <1>6, <3>1, SnippetFacts
  <2> HIDE DEF shown, at
  <2> QED
    BY <1>17, <2>1
<1>19. retain \in Nat /\ base <= retain /\ retain <= v
  <2>0. Larger(0, start - Before) \in Nat /\ Larger(0, start - Before) <= v
        /\ base <= Larger(0, start - Before)
    <3>1. start \in Nat /\ start >= nextStart /\ start <= v
      BY <1>14
    <3>2. Before \in Nat /\ nextStart \in Nat /\ base \in Nat /\ v \in Nat
      BY <1>0, <1>2, <1>6
    <3>3. base <= (IF 0 > nextStart - Before THEN 0 ELSE nextStart - Before)
      BY <1>8 DEF Larger
    <3> HIDE DEF start
    <3> QED
      BY <3>1, <3>2, <3>3 DEF Larger
  <2>1. CASE at >= 0 /\ shown = NoSnippet
    <3>1. snippet = NoSnippet
      <4>1. shown = snippet \/ shown = SnippetOf(b, base, at, base + Len(b))
        OBVIOUS
      <4> QED
        BY <2>1, <1>2, <1>18 DEF Shown
    <3>2. base <= Larger(0, at - Before)
      BY <1>16, <2>1, <3>1
    <3>3. retain = Smaller(Larger(0, start - Before), Larger(0, at - Before))
      BY <2>1 DEF RetainFrom
    <3> HIDE DEF retain, at
    <3> QED
      BY <1>2, <1>15, <2>0, <2>1, <3>2, <3>3, TextAssumption DEF Larger, Smaller
  <2>2. CASE ~(at >= 0 /\ shown = NoSnippet)
    <3>1. retain = Larger(0, start - Before)
      BY <2>2 DEF RetainFrom
    <3> HIDE DEF retain, at
    <3> QED
      BY <2>0, <3>1
  <2> QED
    BY <2>1, <2>2
<1> HIDE DEF retain
<1>20. Slice(b, retain - base, Len(b)) = Slice(V, retain, Len(V))
       /\ Slice(V, retain, Len(V)) \in Text
  <2>1. retain <= Len(V) /\ v <= Len(V) /\ Len(V) \in Nat /\ Len(b) = v - base
    BY <1>6, <1>7, <1>19
  <2>2. Slice(Slice(V, base, Len(V)), retain - base, v - base) = Slice(V, retain, v)
    <3>1. base \in Nat /\ retain \in Nat /\ base <= retain /\ retain <= v
      BY <1>2, <1>19
    <3>2. V \in Seq(Letter \cup {Space}) /\ v <= Len(V)
      BY <1>5, <2>1 DEF Text
    <3> QED
      BY <3>1, <3>2, SliceOfEnd
  <2>3. Slice(V, retain, v) \in Text
    BY <1>5, <1>19, <2>1, SliceFacts DEF Text
  <2> QED
    BY <1>6, <1>7, <2>1, <2>2, <2>3
<1>21. shown \in Snippet \cup {NoSnippet}
  <2>1. ASSUME at >= 0 PROVE SnippetOf(V, 0, at, v) \in Snippet
    <3>1. at \in Nat /\ at <= Len(V)
      BY <1>6, <1>15, <2>1
    <3> HIDE DEF at
    <3> QED
      BY <1>5, <1>6, <3>1, SnippetFacts
  <2> HIDE DEF shown, at
  <2> QED
    BY <1>17, <2>1
<1> HIDE DEF shown, at, behind
<1>22. Whole' = V /\ Starts(Whole, 0)' = Starts(V, 0) /\ Len(phrase)' = p /\ Len(Whole)' = v
  <2>1. Whole' = V
    BY DEF V, W
  <2>2. Starts(Whole, 0)' = Starts(V, 0)
    BY <2>1 DEF Starts
  <2> QED
    BY <1>6, <2>1, <2>2 DEF p
<1>23. Found' = N
  <2>1. Found' = Exec(Starts(Whole, 0)', Len(phrase)')[0]
    BY DEF Found, MatchesIn
  <2>2. N = Exec(Starts(V, 0), p)[0]
    BY DEF N, MatchesIn, p
  <2> QED
    BY <1>22, <2>1, <2>2
<1>24. SearchTypeOK'
  <2>1. count' \in Nat
    BY <1>1, <1>11, <1>13, LenProperties
  <2> QED
    BY <1>1, <1>2, <1>14, <1>15, <1>19, <1>20, <1>21, <2>1 DEF SearchTypeOK
<1>25. /\ base' <= Len(Whole') /\ buffer' = Slice(Whole', base', Len(Whole'))
       /\ count' = Len(Found') /\ first' = IF Found' = <<>> THEN -1 ELSE Head(Found')
  BY <1>1, <1>6, <1>12, <1>13, <1>19, <1>20, <1>22, <1>23
<1>26. nextStart' = Larger(Behind(Starts(Whole, 0)', Len(phrase'), 0), Overlap(Len(Whole))')
  <2>1. Overlap(Len(Whole))' = Overlap(v)
    BY <1>22 DEF Overlap
  <2> QED
    BY <1>1, <1>14, <1>22, <2>1
<1>27. /\ base' = RetainFrom(nextStart', first', snippet' # NoSnippet)
       /\ snippet' = IF first' >= 0 /\ (finished' \/ Len(Whole') > first' + After)
                     THEN SnippetOf(Whole', 0, first', Len(Whole')) ELSE NoSnippet
  BY <1>1, <1>6, <1>17, <1>22 DEF retain
<1> QED
  BY <1>24, <1>25, <1>26, <1>27 DEF SearchInv

LEMMA SearchInitInv == SearchInit => SearchInv
<1> SUFFICES ASSUME SearchInit PROVE SearchInv
  OBVIOUS
<1>0. Before \in Nat /\ After \in Nat
  BY TextAssumption
<1>1. /\ phrase \in Phrases /\ buffer = <<>> /\ base = 0 /\ nextStart = 0 /\ count = 0
      /\ first = -1 /\ endedInWhitespace = FALSE /\ snippet = NoSnippet /\ seen = <<>>
      /\ finished = FALSE
  BY DEF SearchInit
<1>2. PhraseOK
  BY <1>1, TextAssumption DEF PhraseOK, Text
<1>3. <<>> \in Text /\ Len(<<>>) = 0
  BY EmptySeq DEF Text
<1>4. Whole = <<>>
  BY <1>1, <1>3, CollapseFacts DEF Whole
<1>5. PICK s \in Nat \ {0} : s = Len(phrase)
  BY <1>2, PhraseLength
<1>6. Bounded(Starts(<<>>, 0)) /\ Following(Starts(<<>>, 0), 0) = {}
  <2>1. /\ Bounded(Starts(<<>>, 0))
        /\ \A m : m \in Starts(<<>>, 0) => m \in Nat /\ m + s <= 0 + Len(<<>>)
    BY <1>2, <1>3, <1>5, StartsFacts DEF PhraseOK
  <2>2. \A m : m \notin Starts(<<>>, 0)
    BY <1>3, <2>1
  <2> QED
    BY <2>1, <2>2 DEF Following
<1>7. Found = <<>>
  <2>1. Exec(Starts(<<>>, 0), Len(phrase))[0] = <<>>
    BY <1>5, <1>6, ExecRange
  <2> QED
    BY <1>4, <2>1 DEF Found, MatchesIn
<1>8. Behind(Starts(Whole, 0), Len(phrase), 0) = 0
  BY <1>4, <1>7 DEF Behind, Found, MatchesIn
<1>9. nextStart = Larger(Behind(Starts(Whole, 0), Len(phrase), 0), Overlap(Len(Whole)))
  <2>1. Overlap(Len(Whole)) = 0 - s + 1
    BY <1>3, <1>4, <1>5 DEF Overlap
  <2> QED
    BY <1>1, <1>8, <2>1 DEF Larger
<1>10. base = RetainFrom(nextStart, first, snippet # NoSnippet)
  BY <1>0, <1>1 DEF RetainFrom, Larger
<1>11. base <= Len(Whole) /\ buffer = Slice(Whole, base, Len(Whole))
  <2>1. Slice(<<>>, 0, 0) = SubSeq(<<>>, 1, 0)
    BY <1>3 DEF Slice, Smaller
  <2>2. Slice(<<>>, 0, 0) = <<>>
    BY <2>1, SubSeqEmpty
  <2> QED
    BY <1>1, <1>3, <1>4, <2>2
<1>12. SearchTypeOK
  BY <1>1, <1>3 DEF SearchTypeOK
<1>13. /\ endedInWhitespace = (seen # <<>> /\ Last(seen) = Space)
       /\ snippet = IF first >= 0 /\ (finished \/ Len(Whole) > first + After)
                    THEN SnippetOf(Whole, 0, first, Len(Whole)) ELSE NoSnippet
  <2>1. ~(first >= 0)
    BY <1>1
  <2>2. endedInWhitespace = (seen # <<>> /\ Last(seen) = Space)
    BY <1>1
  <2> QED
    BY <1>1, <2>1, <2>2
<1>14. count = Len(Found) /\ first = IF Found = <<>> THEN -1 ELSE Head(Found)
  BY <1>1, <1>3, <1>7
<1> QED
  BY <1>9, <1>10, <1>11, <1>12, <1>13, <1>14 DEF SearchInv

\* A part makes the collapsed text longer by what is scanned.
LEMMA PartInv ==
    ASSUME SearchInv, NEW source \in Text, source # <<>>, Part(source)
    PROVE  SearchInv'
<1>1. /\ ~finished /\ seen' = seen \o source /\ endedInWhitespace' = (Last(source) = Space)
      /\ Scan(buffer \o Normalized(source), FALSE)
      /\ phrase' = phrase /\ finished' = FALSE
  BY DEF Part, SearchInv, SearchTypeOK
<1>2. seen \in Text /\ endedInWhitespace = (seen # <<>> /\ Last(seen) = Space)
  BY DEF SearchInv, SearchTypeOK
<1>3. Normalized(source) = Joint(Whole, Collapse(source))
  <2>1. endedInWhitespace <=> Whole # <<>> /\ Last(Whole) = Space
    BY <1>2, CollapseFacts DEF Whole
  <2> QED
    BY <2>1 DEF Normalized, Joint
<1>4. Joint(Whole, Collapse(source)) \in Text
  <2>1. Collapse(source) \in Text /\ Collapse(source) # <<>> /\ Collapse(seen) \in Text
    BY <1>2, CollapseFacts
  <2> QED
    BY <2>1, JointFacts DEF Whole
<1>5. Whole' = Whole \o Joint(Whole, Collapse(source))
  <2>1. Whole' = Collapse(seen \o source)
    BY <1>1 DEF Whole
  <2>2. Collapse(seen \o source) = Collapse(seen) \o Joint(Collapse(seen), Collapse(source))
    BY <1>2, CollapseConcat
  <2> QED
    BY <2>1, <2>2 DEF Whole
<1>6. seen' \in Text /\ endedInWhitespace' = (seen' # <<>> /\ Last(seen') = Space)
  <2>1. seen \o source \in Text /\ seen \o source # <<>>
    BY <1>2, ConcatProperties, ConcatEqualIffEmpty DEF Text
  <2>2. Last(seen \o source) = Last(source)
    BY <1>2, LastOfConcat DEF Text
  <2> QED
    BY <1>1, <2>1, <2>2
<1> QED
  BY <1>1, <1>3, <1>4, <1>5, <1>6, ScanKeeps

LEMMA FinishInv ==
    ASSUME SearchInv, Finish
    PROVE  SearchInv'
<1>1. /\ ~finished /\ finished' = TRUE /\ Scan(buffer, TRUE) /\ phrase' = phrase
      /\ endedInWhitespace' = endedInWhitespace /\ seen' = seen
  BY DEF Finish
<1>2. /\ seen \in Text /\ buffer \in Text
      /\ endedInWhitespace = (seen # <<>> /\ Last(seen) = Space)
  BY DEF SearchInv, SearchTypeOK
<1>3. Whole \in Text
  BY <1>2, CollapseFacts DEF Whole
<1>4. <<>> \in Text /\ Whole \o <<>> = Whole /\ buffer \o <<>> = buffer
  BY <1>2, <1>3, ConcatEmptySeq, EmptySeq DEF Text
<1>5. Whole' = Whole
  BY <1>1 DEF Whole
<1>6. Scan(buffer \o <<>>, TRUE) /\ Whole' = Whole \o <<>>
  BY <1>1, <1>4, <1>5
<1> QED
  BY <1>1, <1>2, <1>4, <1>6, ScanKeeps

LEMMA SearchNextInv == SearchInv /\ [SearchNext]_searchVars => SearchInv'
<1> SUFFICES ASSUME SearchInv, [SearchNext]_searchVars PROVE SearchInv'
  OBVIOUS
<1>1. ASSUME NEW source \in Parts, Part(source) PROVE SearchInv'
  <2>1. PICK n \in 1..Smaller(MaxPart, MaxText - Len(seen)) : source \in [1..n -> Letter \cup {Space}]
    BY DEF Parts
  <2>2. n \in Nat \ {0}
    <3>1. seen \in Text
      BY DEF SearchInv, SearchTypeOK
    <3>2. Len(seen) \in Nat
      BY <3>1, LenProperties DEF Text
    <3>3. Smaller(MaxPart, MaxText - Len(seen)) \in Int
      BY <3>2, TextAssumption DEF Smaller
    <3> QED
      BY <3>3
  <2>3. source \in Text /\ Len(source) = n
    BY <2>1, <2>2 DEF Text
  <2>4. source # <<>>
    BY <2>2, <2>3, EmptySeq DEF Text
  <2> QED
    BY <1>1, <2>3, <2>4, PartInv
<1>2. CASE Finish
  BY <1>2, FinishInv
<1>3. CASE UNCHANGED searchVars
  <2>1. SearchTypeOK'
    BY <1>3 DEF searchVars, SearchInv, SearchTypeOK
  <2>2. Whole' = Whole /\ Found' = Found /\ Starts(Whole, 0)' = Starts(Whole, 0)
    BY <1>3 DEF searchVars, Whole, Found, MatchesIn, Starts
  <2>3. Overlap(Len(Whole))' = Overlap(Len(Whole))
    BY <1>3, <2>2 DEF searchVars, Overlap
  <2> QED
    BY <1>3, <2>1, <2>2, <2>3 DEF searchVars, SearchInv
<1> QED
  BY <1>1, <1>2, <1>3 DEF SearchNext

-----------------------------------------------------------------------------
(* What the invariant shows *)

\* The search of any text, cut anywhere, keeps the state of a search of all the
\* text it has seen: its matches, the first of them, where the next one can
\* start, the window and the snippet (createTextStreamSearcher,
\* search-text-stream.js:23-124).
THEOREM SearchInvariant == SearchSpec => []SearchInv
<1> QED
  BY SearchInitInv, SearchNextInv, PTL DEF SearchSpec

\* Every value the searcher keeps has its type.
THEOREM SearchTypes == SearchSpec => []SearchTypeOK
<1>1. SearchInv => SearchTypeOK
  BY DEF SearchInv
<1> QED
  BY <1>1, SearchInvariant, PTL

\* When the text is finished, the matches counted and the snippet are those of
\* a search of the whole text in memory, however it was cut, for every phrase,
\* text, part size and amount of context (search-text-stream.js:57-124).
THEOREM SearchExact == SearchSpec => []MatchExact
<1>1. SearchInv => MatchExact
  <2> SUFFICES ASSUME SearchInv, finished PROVE MatchExact
    BY DEF MatchExact
  <2>1. /\ count = Len(Found) /\ seen \in Text /\ phrase \in Phrases
        /\ first = IF Found = <<>> THEN -1 ELSE Head(Found)
        /\ snippet = IF first >= 0 THEN SnippetOf(Whole, 0, first, Len(Whole)) ELSE NoSnippet
    BY DEF SearchInv, SearchTypeOK
  <2>2. Found # <<>> => Head(Found) \in Nat
    <3>1. PhraseOK
      BY <2>1, TextAssumption DEF PhraseOK, Text
    <3>2. Whole \in Text
      BY <2>1, CollapseFacts DEF Whole
    <3> QED
      BY <3>1, <3>2, MatchesWithin DEF Found
  <2>3. snippet = IF Found = <<>> THEN NoSnippet
                  ELSE SnippetOf(Whole, 0, Head(Found), Len(Whole))
    BY <2>1, <2>2
  <2> QED
    BY <2>1, <2>3 DEF MatchExact, Found
<1> QED
  BY <1>1, SearchInvariant, PTL

\* Between two parts the window is no longer than what a snippet shows or the
\* overlap of two windows, for texts of any length (the slices of
\* search-text-stream.js:100-112).
THEOREM WindowIsBounded == SearchSpec => []WindowBounded
<1>1. SearchInv => WindowBounded
  <2> SUFFICES ASSUME SearchInv PROVE WindowBounded
    OBVIOUS
  <2>0. Before \in Nat /\ After \in Nat
    BY TextAssumption
  <2>1. /\ phrase \in Phrases /\ seen \in Text /\ base \in Nat
        /\ nextStart \in Nat /\ first \in Nat \cup {-1}
        /\ base <= Len(Whole) /\ buffer = Slice(Whole, base, Len(Whole))
        /\ nextStart = Larger(Behind(Starts(Whole, 0), Len(phrase), 0), Overlap(Len(Whole)))
        /\ base = IF first >= 0 /\ snippet = NoSnippet
                  THEN Smaller(Larger(0, nextStart - Before), Larger(0, first - Before))
                  ELSE Larger(0, nextStart - Before)
    BY DEF SearchInv, SearchTypeOK, RetainFrom
  <2>2. snippet = IF first >= 0 /\ (finished \/ Len(Whole) > first + After)
                  THEN SnippetOf(Whole, 0, first, Len(Whole)) ELSE NoSnippet
    BY DEF SearchInv
  <2>3. PhraseOK
    BY <2>1, TextAssumption DEF PhraseOK, Text
  <2>4. Whole \in Text
    BY <2>1, CollapseFacts DEF Whole
  <2>5. PICK w \in Nat, s \in Nat \ {0} : w = Len(Whole) /\ s = Len(phrase)
    BY <2>3, <2>4, PhraseLength, LenProperties DEF Text
  <2>6. Len(buffer) = w - base
    <3>1. base \in Nat /\ base <= w /\ w <= Len(Whole) /\ buffer = Slice(Whole, base, w)
      BY <2>1, <2>5
    <3> QED
      BY <2>4, <3>1, SliceFacts DEF Text
  <2>7. nextStart >= w - s + 1
    <3>1. PICK B \in Nat : B = Behind(Starts(Whole, 0), Len(phrase), 0)
      BY <2>3, <2>4, MatchesWithin
    <3>2. nextStart = Larger(B, w - s + 1)
      BY <2>1, <2>5, <3>1 DEF Overlap
    <3> QED
      BY <2>5, <3>2 DEF Larger
  <2>8. SUFFICES w - base <= Before + (s - 1) \/ w - base <= Before + After
    <3>1. base \in Nat
      BY <2>1
    <3>2. Larger(s - 1, After) \in Int /\ s - 1 <= Larger(s - 1, After) /\ After <= Larger(s - 1, After)
      BY <2>0, <2>5 DEF Larger
    <3>3. w - base <= Before + Larger(s - 1, After)
      BY <2>0, <2>5, <2>8, <3>1, <3>2
    <3> QED
      BY <2>5, <2>6, <3>3 DEF WindowBounded
  <2>9. CASE first >= 0 /\ snippet = NoSnippet
    <3>1. first \in Nat /\ first <= w
      <4>1. SearchInv /\ first = IF Found = <<>> THEN -1 ELSE Head(Found)
        BY DEF SearchInv
      <4>2. Found # <<>> => Head(Found) \in Nat /\ Head(Found) + s <= w
        BY <2>3, <2>4, <2>5, MatchesWithin DEF Found
      <4> QED
        BY <2>5, <2>9, <4>1, <4>2
    <3>2. w <= first + After
      <4>1. SnippetOf(Whole, 0, first, Len(Whole)) # NoSnippet
        BY <2>4, <2>5, <3>1, SnippetFacts
      <4> QED
        BY <2>0, <2>2, <2>5, <2>9, <3>1, <4>1
    <3>3. base = Smaller(Larger(0, nextStart - Before), Larger(0, first - Before))
      BY <2>1, <2>9
    <3>4. nextStart \in Nat
      BY <2>1
    <3> QED
      BY <2>0, <2>7, <3>1, <3>2, <3>3, <3>4 DEF Larger, Smaller
  <2>10. CASE ~(first >= 0 /\ snippet = NoSnippet)
    <3>1. base = Larger(0, nextStart - Before) /\ nextStart \in Nat
      BY <2>1, <2>10
    <3> QED
      BY <2>0, <2>7, <3>1 DEF Larger
  <2> QED
    BY <2>9, <2>10
<1> QED
  BY <1>1, SearchInvariant, PTL

=============================================================================
