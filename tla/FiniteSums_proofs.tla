--------------------------- MODULE FiniteSums_proofs ---------------------------
(***************************************************************************)
(* What the sum of a function over a finite set is, where the models state *)
(* it as the fold MapThenSumSet of the community modules: the sum over the *)
(* union of two disjoint sets is the sum of their sums.                    *)
(*                                                                         *)
(* The induction principles of the library take an operator as parameter.  *)
(* Here an induction is on the set of the counterexamples instead: it has  *)
(* a smallest member, as strict inclusion is well founded on finite sets.  *)
(***************************************************************************)
EXTENDS Integers, FiniteSetsExt, FiniteSetTheorems, WellFoundedInduction, TLAPS

\* The sum of F[x] for the members x of S.
SumOver(F, S) == MapThenSumSet(LAMBDA x : F[x], S)

-----------------------------------------------------------------------------
(* Smallest members *)

\* A family of finite sets has a member that includes no other.
LEMMA SmallestSet ==
    ASSUME NEW S, NEW T, T \subseteq FiniteSubsetsOf(S), T # {}
    PROVE  \E A \in T : \A B \in T : B \subseteq A => B = A
<1>1. PICK A \in T : \A B \in T : <<B, A>> \notin StrictSubsetOrdering(S)
  BY FS_StrictSubsetOrderingWellFounded, WFMin
<1>2. ASSUME NEW B \in T, B \subseteq A, B # A
      PROVE  FALSE
  BY <1>1, <1>2 DEF StrictSubsetOrdering, FiniteSubsetsOf
<1> QED
  BY <1>2

\* A set of naturals has a least member.
LEMMA SmallestNumber ==
    ASSUME NEW T \in SUBSET Nat, T # {}
    PROVE  \E m \in T : \A n \in T : m <= n
<1> DEFINE U == {0..m : m \in T}
<1>1. U \subseteq FiniteSubsetsOf(Nat) /\ U # {}
  <2>1. \A m \in T : 0..m \in SUBSET Nat /\ IsFiniteSet(0..m)
    BY FS_Interval
  <2> QED
    BY <2>1 DEF FiniteSubsetsOf
<1>2. PICK m \in T : \A B \in U : B \subseteq 0..m => B = 0..m
  <2> HIDE DEF U
  <2>1. PICK A \in U : \A B \in U : B \subseteq A => B = A
    BY <1>1, SmallestSet
  <2> QED
    BY <2>1 DEF U
<1>3. ASSUME NEW n \in T, ~(m <= n)
      PROVE  FALSE
  <2>1. 0..n \subseteq 0..m /\ m \in 0..m /\ m \notin 0..n
    BY <1>3
  <2> QED
    BY <1>2, <2>1
<1> QED
  BY <1>3

\* Induction on the naturals.
LEMMA Induction ==
    ASSUME NEW T \in SUBSET Nat, 0 \in T, \A n \in T : n + 1 \in T
    PROVE  T = Nat
<1>1. SUFFICES ASSUME Nat \ T # {} PROVE FALSE
  OBVIOUS
<1>2. PICK m \in Nat \ T : \A n \in Nat \ T : m <= n
  BY <1>1, SmallestNumber
<1>3. m # 0 /\ m - 1 \in Nat
  BY <1>2
<1>4. m - 1 \in T /\ (m - 1) + 1 = m
  BY <1>2, <1>3
<1> QED
  BY <1>2, <1>4

-----------------------------------------------------------------------------
(* The recursive function behind a fold *)

Pick(S) == CHOOSE x \in S : TRUE

\* g is the function the fold defines by recursion, on the subsets of S.
Solves(F, S, g) ==
    g = [T \in SUBSET S |-> IF T = {} THEN 0 ELSE F[Pick(T)] + g[T \ {Pick(T)}]]

Fold(F, S) == CHOOSE g : Solves(F, S, g)

\* The sum is the value of such a fold.
LEMMA SumFold == ASSUME NEW F, NEW S PROVE SumOver(F, S) = Fold(F, S)[S]
BY DEF SumOver, MapThenSumSet, MapThenFoldSet, Solves, Pick, Fold

\* A fold over a set goes on with a member of it.
LEMMA PickIn == ASSUME NEW S, S # {} PROVE Pick(S) \in S
BY DEF Pick

\* Two folds agree on the finite sets they share.
LEMMA SolutionsAgree ==
    ASSUME NEW F, NEW S, NEW R, NEW g, NEW h, Solves(F, S, g), Solves(F, R, h),
           NEW T, T \subseteq S, T \subseteq R, IsFiniteSet(T)
    PROVE  g[T] = h[T]
<1> DEFINE Bad == {U \in SUBSET T : g[U] # h[U]}
<1>1. SUFFICES ASSUME Bad # {} PROVE FALSE
  OBVIOUS
<1>2. Bad \subseteq FiniteSubsetsOf(T)
  BY FS_Subset DEF FiniteSubsetsOf
<1>3. PICK U \in Bad : \A V \in Bad : V \subseteq U => V = U
  <2> HIDE DEF Bad
  <2> QED
    BY <1>1, <1>2, SmallestSet
<1>4. U # {} => Pick(U) \in U /\ U \ {Pick(U)} \notin Bad /\ U \ {Pick(U)} \in SUBSET T
  BY <1>3, PickIn
<1>5. /\ g[U] = IF U = {} THEN 0 ELSE F[Pick(U)] + g[U \ {Pick(U)}]
      /\ h[U] = IF U = {} THEN 0 ELSE F[Pick(U)] + h[U \ {Pick(U)}]
  BY DEF Solves
<1> QED
  BY <1>4, <1>5

\* The recursive function a fold stands for exists, on the subsets of a finite set.
LEMMA SolutionExists ==
    ASSUME NEW F, NEW S, IsFiniteSet(S)
    PROVE  Solves(F, S, Fold(F, S))
<1> DEFINE Bad == {T \in SUBSET S : ~\E g : Solves(F, T, g)}
<1>1. SUFFICES ASSUME Bad # {} PROVE FALSE
  <2>1. \E g : Solves(F, S, g)
    BY <1>1
  <2> QED
    BY <2>1 DEF Fold
<1>2. Bad \subseteq FiniteSubsetsOf(S)
  BY FS_Subset DEF FiniteSubsetsOf
<1>3. PICK T \in Bad : \A U \in Bad : U \subseteq T => U = T
  <2> HIDE DEF Bad
  <2> QED
    BY <1>1, <1>2, SmallestSet
<1>4. ASSUME NEW U \in SUBSET T, U # T
      PROVE  Solves(F, U, Fold(F, U))
  <2>1. \E g : Solves(F, U, g)
    BY <1>3, <1>4
  <2> QED
    BY <2>1 DEF Fold
<1> DEFINE h == [U \in SUBSET T |->
                   IF U = {} THEN 0
                   ELSE F[Pick(U)] + Fold(F, U \ {Pick(U)})[U \ {Pick(U)}]]
<1>5. ASSUME NEW U \in SUBSET T, U # T
      PROVE  h[U] = Fold(F, U)[U]
  <2>1. Fold(F, U)[U] = IF U = {} THEN 0 ELSE F[Pick(U)] + Fold(F, U)[U \ {Pick(U)}]
    BY <1>4, <1>5 DEF Solves
  <2>2. CASE U = {}
    BY <2>1, <2>2
  <2>3. CASE U # {}
    <3> DEFINE V == U \ {Pick(U)}
    <3>1. V \in SUBSET T /\ V # T /\ V \subseteq U /\ IsFiniteSet(V)
      BY <1>5, <2>3, PickIn, FS_Subset
    <3>2. Solves(F, V, Fold(F, V)) /\ Solves(F, U, Fold(F, U))
      BY <1>4, <1>5, <3>1
    <3>3. Fold(F, V)[V] = Fold(F, U)[V]
      BY <3>1, <3>2, SolutionsAgree
    <3> QED
      BY <2>1, <2>3, <3>3
  <2> QED
    BY <2>2, <2>3
<1>6. ASSUME NEW U \in SUBSET T, U # {}
      PROVE  U \ {Pick(U)} \in SUBSET T /\ U \ {Pick(U)} # T
  BY <1>6, PickIn
<1>7. Solves(F, T, h)
  <2>1. \A U \in SUBSET T :
            h[U] = IF U = {} THEN 0 ELSE F[Pick(U)] + h[U \ {Pick(U)}]
    BY <1>5, <1>6
  <2>2. h = [U \in SUBSET T |-> h[U]]
    OBVIOUS
  <2> HIDE DEF h
  <2> QED
    BY <2>1, <2>2 DEF Solves
<1> QED
  BY <1>3, <1>7

-----------------------------------------------------------------------------
(* Sums *)

\* The sum over a set, by way of the member the fold picks.
LEMMA SumUnfolds ==
    ASSUME NEW F, NEW S, IsFiniteSet(S)
    PROVE  SumOver(F, S) = IF S = {} THEN 0 ELSE F[Pick(S)] + SumOver(F, S \ {Pick(S)})
<1> DEFINE R == S \ {Pick(S)}
<1>1. IsFiniteSet(R) /\ R \subseteq S
  BY FS_Subset
<1>2. Solves(F, S, Fold(F, S)) /\ Solves(F, R, Fold(F, R))
  BY <1>1, SolutionExists
<1>3. Fold(F, S)[R] = Fold(F, R)[R]
  BY <1>1, <1>2, SolutionsAgree
<1>4. Fold(F, S)[S] = IF S = {} THEN 0 ELSE F[Pick(S)] + Fold(F, S)[R]
  BY <1>2 DEF Solves
<1> QED
  BY <1>3, <1>4, SumFold

\* The sum over no elements.
LEMMA SumEmpty == ASSUME NEW F PROVE SumOver(F, {}) = 0
BY SumUnfolds, FS_EmptySet

\* A sum of naturals is one.
LEMMA SumNat ==
    ASSUME NEW D, NEW F \in [D -> Nat], NEW S \in SUBSET D, IsFiniteSet(S)
    PROVE  SumOver(F, S) \in Nat
<1> DEFINE Bad == {T \in SUBSET S : SumOver(F, T) \notin Nat}
<1>1. SUFFICES ASSUME Bad # {} PROVE FALSE
  OBVIOUS
<1>2. Bad \subseteq FiniteSubsetsOf(S)
  BY FS_Subset DEF FiniteSubsetsOf
<1>3. PICK T \in Bad : \A U \in Bad : U \subseteq T => U = T
  <2> HIDE DEF Bad
  <2> QED
    BY <1>1, <1>2, SmallestSet
<1>4. SumOver(F, T) = IF T = {} THEN 0 ELSE F[Pick(T)] + SumOver(F, T \ {Pick(T)})
  BY <1>2, SumUnfolds DEF FiniteSubsetsOf
<1>5. T # {} => Pick(T) \in T /\ SumOver(F, T \ {Pick(T)}) \in Nat
  BY <1>3, PickIn
<1>6. T # {} => F[Pick(T)] \in Nat
  BY <1>5
<1> QED
  BY <1>4, <1>5, <1>6

\* The sum over a set, by way of any member of it.
LEMMA SumAdds ==
    ASSUME NEW D, NEW F \in [D -> Nat], NEW S \in SUBSET D, IsFiniteSet(S), NEW x \in S
    PROVE  SumOver(F, S) = F[x] + SumOver(F, S \ {x})
<1> DEFINE Bad == {T \in SUBSET S : \E y \in T : SumOver(F, T) # F[y] + SumOver(F, T \ {y})}
<1>1. SUFFICES ASSUME Bad # {} PROVE FALSE
  OBVIOUS
<1>2. Bad \subseteq FiniteSubsetsOf(S)
  BY FS_Subset DEF FiniteSubsetsOf
<1>3. PICK T \in Bad : \A U \in Bad : U \subseteq T => U = T
  <2> HIDE DEF Bad
  <2> QED
    BY <1>1, <1>2, SmallestSet
<1>4. PICK y \in T : SumOver(F, T) # F[y] + SumOver(F, T \ {y})
  OBVIOUS
<1> DEFINE p == Pick(T)
<1>5. p \in T /\ \A U \in SUBSET T : IsFiniteSet(U) /\ SumOver(F, U) \in Nat
  BY <1>2, PickIn, FS_Subset, SumNat
<1>6. SumOver(F, T) = F[p] + SumOver(F, T \ {p})
  BY <1>5, SumUnfolds
<1>7. p # y
  BY <1>4, <1>6
<1>8. ASSUME NEW U \in SUBSET T, U # T, NEW z \in U
      PROVE  SumOver(F, U) = F[z] + SumOver(F, U \ {z})
  BY <1>3, <1>8
<1>9. SumOver(F, T \ {p}) = F[y] + SumOver(F, (T \ {p}) \ {y})
  <2> HIDE DEF p
  <2> QED
    BY <1>5, <1>7, <1>8
<1>10. SumOver(F, T \ {y}) = F[p] + SumOver(F, (T \ {p}) \ {y})
  <2> HIDE DEF p
  <2>1. (T \ {y}) \ {p} = (T \ {p}) \ {y}
    OBVIOUS
  <2>2. SumOver(F, T \ {y}) = F[p] + SumOver(F, (T \ {y}) \ {p})
    BY <1>5, <1>7, <1>8
  <2> QED
    BY <2>1, <2>2
<1>11. PICK a \in Nat, b \in Nat, c \in Nat :
          a = F[p] /\ b = F[y] /\ c = SumOver(F, (T \ {p}) \ {y})
  BY <1>5
<1> HIDE DEF p, Bad
<1> QED
  BY <1>4, <1>6, <1>9, <1>10, <1>11

\* The sum over a set, by way of any part of it.
LEMMA SumSplits ==
    ASSUME NEW D, NEW F \in [D -> Nat], NEW S \in SUBSET D, IsFiniteSet(S),
           NEW V \in SUBSET S
    PROVE  SumOver(F, S) = SumOver(F, V) + SumOver(F, S \ V)
<1> DEFINE Bad == {T \in SUBSET V : SumOver(F, S) # SumOver(F, T) + SumOver(F, S \ T)}
<1>1. SUFFICES ASSUME Bad # {} PROVE FALSE
  OBVIOUS
<1>2. Bad \subseteq FiniteSubsetsOf(V)
  BY FS_Subset DEF FiniteSubsetsOf
<1>3. PICK T \in Bad : \A U \in Bad : U \subseteq T => U = T
  <2> HIDE DEF Bad
  <2> QED
    BY <1>1, <1>2, SmallestSet
<1>4. \A U \in SUBSET S : IsFiniteSet(U) /\ U \in SUBSET D /\ SumOver(F, U) \in Nat
  BY FS_Subset, SumNat
<1>5. T # {}
  <2>1. S \ {} = S /\ SumOver(F, S) \in Nat
    BY <1>4
  <2>2. SumOver(F, {}) = 0
    BY SumEmpty
  <2>3. PICK n \in Nat : n = SumOver(F, S)
    BY <2>1
  <2>4. SumOver(F, S) = SumOver(F, {}) + SumOver(F, S \ {})
    BY <2>1, <2>2, <2>3
  <2> QED
    BY <1>3, <2>4
<1>6. PICK y \in T : TRUE
  BY <1>5
<1>7. SumOver(F, S) = SumOver(F, T \ {y}) + SumOver(F, S \ (T \ {y}))
  BY <1>3
<1>8. SumOver(F, T) = F[y] + SumOver(F, T \ {y})
  BY <1>4, SumAdds
<1>9. SumOver(F, S \ (T \ {y})) = F[y] + SumOver(F, S \ T)
  <2>1. y \in S \ (T \ {y}) /\ (S \ (T \ {y})) \ {y} = S \ T
    OBVIOUS
  <2>2. S \ (T \ {y}) \in SUBSET S
    OBVIOUS
  <2> QED
    BY <1>4, <2>1, <2>2, SumAdds
<1>10. PICK a \in Nat, b \in Nat, c \in Nat :
          a = F[y] /\ b = SumOver(F, T \ {y}) /\ c = SumOver(F, S \ T)
  BY <1>4
<1>11. SumOver(F, S) # SumOver(F, T) + SumOver(F, S \ T)
  BY <1>3
<1> HIDE DEF Bad
<1> QED
  BY <1>7, <1>8, <1>9, <1>10, <1>11

=============================================================================
