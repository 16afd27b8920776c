----------------------------- MODULE DataLemmas -----------------------------
(***************************************************************************)
(* Lemmas about data: induction over numbers and finite sets, folds, sums, *)
(* sorting.  The induction theorems of the library are stated for an       *)
(* operator; these are stated for a set, so that they can be cited.        *)
(***************************************************************************)
EXTENDS FifoLots, FiniteSetTheorems, SequenceTheorems, WellFoundedInduction, TLAPS

-----------------------------------------------------------------------------
(* Induction.                                                              *)

\* A set of numbers has a least one.
LEMMA LeastNumber ==
  ASSUME NEW T \in SUBSET Nat, T # {}
  PROVE  \E n \in T : \A m \in T : n <= m
<1> DEFINE R == {p \in Nat \X Nat : p[1] < p[2]}
<1>1. IsWellFoundedOn(R, Nat)
  BY NatLessThanWellFounded DEF OpToRel
<1> HIDE DEF R
<1>2. PICK n \in T : \A m \in T : ~ (<<m, n>> \in R)
  BY <1>1, WFMin
<1>3. \A m \in T : ~ (m < n)
  BY <1>2 DEF R
<1> QED
  BY <1>3

\* Induction over the numbers of a set.
LEMMA NatSetInduction ==
  ASSUME NEW T, 0 \in T, \A n \in Nat : n \in T => n + 1 \in T
  PROVE  Nat \subseteq T
<1> SUFFICES ASSUME Nat \ T # {} PROVE FALSE
  OBVIOUS
<1>1. PICK m \in Nat \ T : \A k \in Nat \ T : m <= k
  BY LeastNumber
<1>2. m # 0 /\ m - 1 \in Nat
  OBVIOUS
<1>3. m - 1 \in T
  BY <1>1, <1>2
<1> QED
  BY <1>2, <1>3

\* Induction over the subsets of a finite set, one element less at a time.
LEMMA SubsetInduction ==
  ASSUME NEW D, IsFiniteSet(D), NEW F,
         \A s \in SUBSET D : (\A x \in s : s \ {x} \in F) => s \in F
  PROVE  SUBSET D \subseteq F
<1> DEFINE T == {n \in Nat : \A s \in SUBSET D : Cardinality(s) = n => s \in F}
<1>1. \A s \in SUBSET D : IsFiniteSet(s) /\ Cardinality(s) \in Nat
  BY FS_Subset, FS_CardinalityType
<1>2. 0 \in T
  BY <1>1, FS_EmptySet
<1>3. ASSUME NEW n \in Nat, n \in T PROVE n + 1 \in T
  <2> SUFFICES ASSUME NEW s \in SUBSET D, Cardinality(s) = n + 1, NEW x \in s
               PROVE  s \ {x} \in F
    OBVIOUS
  <2>1. Cardinality(s \ {x}) = n
    BY <1>1, FS_RemoveElement
  <2> QED
    BY <1>3, <2>1
<1>4. Nat \subseteq T
  <2> HIDE DEF T
  <2> QED
    BY <1>2, <1>3, NatSetInduction
<1> QED
  BY <1>1, <1>4

-----------------------------------------------------------------------------
(* Folds: a function defined by taking one element after the other.        *)

\* c chooses the element to take next, step takes it into a value of V.
CanFold(D, V, base, c, step) ==
  /\ IsFiniteSet(D) /\ base \in V
  /\ \A s \in SUBSET D : s # {} => c[s] \in s
  /\ \A x \in D, v \in V : step[<<x, v>>] \in V

\* g is the folded value of every subset of D.
IsFold(g, D, V, base, c, step) ==
  /\ g \in [SUBSET D -> V]
  /\ \A s \in SUBSET D : g[s] = IF s = {} THEN base ELSE step[<<c[s], g[s \ {c[s]}]>>]

\* There is one, if a step stays in V.
LEMMA FoldExists ==
  ASSUME NEW D, NEW V, NEW base, NEW c, NEW step, CanFold(D, V, base, c, step)
  PROVE  \E g : IsFold(g, D, V, base, c, step)
<1> DEFINE Small(n) == {s \in SUBSET D : Cardinality(s) <= n}
           Folds(g, n) == \A s \in Small(n) :
              g[s] = IF s = {} THEN base ELSE step[<<c[s], g[s \ {c[s]}]>>]
           T == {n \in Nat : \E g \in [Small(n) -> V] : Folds(g, n)}
<1>0. /\ IsFiniteSet(D) /\ base \in V
      /\ \A s \in SUBSET D : s # {} => c[s] \in s
      /\ \A x \in D, v \in V : step[<<x, v>>] \in V
  BY DEF CanFold
<1>1. \A s \in SUBSET D : IsFiniteSet(s) /\ Cardinality(s) \in Nat
  BY <1>0, FS_Subset, FS_CardinalityType
<1>1a. \A s \in SUBSET D : Cardinality(s) = 0 <=> s = {}
  BY <1>1, FS_EmptySet
<1>1b. \A s \in SUBSET D : s # {} => Cardinality(s \ {c[s]}) = Cardinality(s) - 1
  BY <1>0, <1>1, FS_RemoveElement
<1>2. 0 \in T
  <2> DEFINE g == [s \in Small(0) |-> base]
  <2>1. \A s \in Small(0) : s = {}
    BY <1>1, <1>1a
  <2>2. g \in [Small(0) -> V] /\ Folds(g, 0)
    BY <1>0, <2>1
  <2> QED
    BY <2>2
<1>3. ASSUME NEW n \in Nat, n \in T PROVE n + 1 \in T
  <2>1. PICK g \in [Small(n) -> V] : Folds(g, n)
    BY <1>3
  <2> DEFINE h == [s \in Small(n + 1) |->
                     IF s = {} THEN base ELSE step[<<c[s], g[s \ {c[s]}]>>]]
  <2>2. \A s \in Small(n + 1) : s # {} => c[s] \in D /\ s \ {c[s]} \in Small(n)
    BY <1>0, <1>1, <1>1b
  <2>3. h \in [Small(n + 1) -> V]
    <3> SUFFICES ASSUME NEW s \in Small(n + 1), s # {} PROVE step[<<c[s], g[s \ {c[s]}]>>] \in V
      BY <1>0
    <3>1. g[s \ {c[s]}] \in V
      BY <2>1, <2>2
    <3> QED
      BY <1>0, <2>2, <3>1
  <2>4. \A s \in Small(n) : s \in Small(n + 1) /\ h[s] = g[s]
    BY <1>1, <2>1
  <2>5. Folds(h, n + 1)
    BY <2>2, <2>4
  <2> HIDE DEF h
  <2>6. \E g1 \in [Small(n + 1) -> V] : Folds(g1, n + 1)
    BY <2>3, <2>5
  <2> HIDE DEF Small, Folds
  <2> QED
    BY <2>6
<1>4. Cardinality(D) \in T
  <2> HIDE DEF T
  <2> QED
    BY <1>0, <1>1, <1>2, <1>3, NatSetInduction
<1>5. Small(Cardinality(D)) = SUBSET D
  BY <1>0, <1>1, FS_Subset
<1>6. PICK g \in [Small(Cardinality(D)) -> V] : Folds(g, Cardinality(D))
  BY <1>4
<1>7. g \in [SUBSET D -> V]
  BY <1>5
<1>8. \A s \in SUBSET D : g[s] = IF s = {} THEN base ELSE step[<<c[s], g[s \ {c[s]}]>>]
  BY <1>5, <1>6
<1> QED
  BY <1>7, <1>8 DEF IsFold

-----------------------------------------------------------------------------
(* Sums.                                                                   *)

Pick(s) == CHOOSE x \in s : TRUE

\* What SumOf evaluates.
Iter(f, S) ==
  CHOOSE g : g = [s \in SUBSET S |-> IF s = {} THEN 0 ELSE f[Pick(s)] + g[s \ {Pick(s)}]]

LEMMA SumIter == ASSUME NEW f, NEW S PROVE SumOf(f, S) = Iter(f, S)[S]
  BY DEF SumOf, SumFunctionOnSet, FoldFunctionOnSet, MapThenFoldSet, Iter, Pick

LEMMA SumFunctionIsSumOf == ASSUME NEW f PROVE SumFunction(f) = SumOf(f, DOMAIN f)
  BY DEF SumFunction, SumOf

\* The evaluation is defined.
LEMMA IterDef ==
  ASSUME NEW S, IsFiniteSet(S), NEW f, \A x \in S : f[x] \in Int
  PROVE  /\ Iter(f, S) \in [SUBSET S -> Int]
         /\ \A s \in SUBSET S :
              Iter(f, S)[s] = IF s = {} THEN 0 ELSE f[Pick(s)] + Iter(f, S)[s \ {Pick(s)}]
<1> DEFINE c == [s \in SUBSET S |-> Pick(s)]
           step == [p \in S \X Int |-> f[p[1]] + p[2]]
<1>1. \A s \in SUBSET S : s # {} => c[s] \in s /\ c[s] = Pick(s)
  BY DEF Pick
<1>2. \A x \in S, v \in Int : step[<<x, v>>] = f[x] + v /\ step[<<x, v>>] \in Int
  OBVIOUS
<1>3. CanFold(S, Int, 0, c, step)
  <2> HIDE DEF c, step
  <2> QED
    BY <1>1, <1>2 DEF CanFold
<1> HIDE DEF c, step
<1>4. PICK g : IsFold(g, S, Int, 0, c, step)
  BY <1>3, FoldExists
<1>4a. /\ g \in [SUBSET S -> Int]
       /\ \A s \in SUBSET S : g[s] = IF s = {} THEN 0 ELSE step[<<c[s], g[s \ {c[s]}]>>]
  BY <1>4 DEF IsFold
<1>5. \A s \in SUBSET S : g[s] = IF s = {} THEN 0 ELSE f[Pick(s)] + g[s \ {Pick(s)}]
  BY <1>1, <1>2, <1>4a
<1>6. g = [s \in SUBSET S |-> IF s = {} THEN 0 ELSE f[Pick(s)] + g[s \ {Pick(s)}]]
  BY <1>4a, <1>5
<1>7. Iter(f, S) = [s \in SUBSET S |->
                      IF s = {} THEN 0 ELSE f[Pick(s)] + Iter(f, S)[s \ {Pick(s)}]]
  BY <1>6 DEF Iter
<1> DEFINE h == Iter(f, S)
           F == {s \in SUBSET S : h[s] \in Int}
<1>8. \A s \in SUBSET S : h[s] = IF s = {} THEN 0 ELSE f[Pick(s)] + h[s \ {Pick(s)}]
  BY <1>7
<1> HIDE DEF h
<1>9. SUBSET S \subseteq F
  <2>1. ASSUME NEW s \in SUBSET S, \A x \in s : s \ {x} \in F PROVE s \in F
    <3>1. CASE s = {}
      <4>1. h[s] = 0
        BY <1>8, <3>1
      <4> QED
        BY <4>1
    <3>2. CASE s # {}
      <4>1. Pick(s) \in s
        BY <3>2 DEF Pick
      <4>2. h[s \ {Pick(s)}] \in Int /\ f[Pick(s)] \in Int
        BY <2>1, <4>1
      <4>3. h[s] = f[Pick(s)] + h[s \ {Pick(s)}]
        BY <1>8, <3>2
      <4>4. h[s] \in Int
        BY <4>2, <4>3
      <4> QED
        BY <4>4
    <3> QED
      BY <3>1, <3>2
  <2> HIDE DEF F
  <2>2. \A s \in SUBSET S : (\A x \in s : s \ {x} \in F) => s \in F
    BY <2>1
  <2> QED
    BY <2>2, SubsetInduction
<1>10. h \in [SUBSET S -> Int]
  <2>1. \A s \in SUBSET S : h[s] \in Int
    BY <1>9
  <2>2. h = [s \in SUBSET S |-> h[s]]
    BY <1>7 DEF h
  <2> QED
    BY <2>1, <2>2
<1> QED
  BY <1>8, <1>10 DEF h

\* A sum is that of one of its terms, the one picked, and of the others.
LEMMA SumPick ==
  ASSUME NEW S, IsFiniteSet(S), NEW f, \A x \in S : f[x] \in Int
  PROVE  /\ SumOf(f, S) \in Int
         /\ S = {} => SumOf(f, S) = 0
         /\ S # {} => SumOf(f, S) = f[Pick(S)] + SumOf(f, S \ {Pick(S)})
<1>1. SumOf(f, S) \in Int /\ (S = {} => SumOf(f, S) = 0)
  <2>1. SumOf(f, S) = Iter(f, S)[S]
    BY SumIter
  <2>2. /\ Iter(f, S) \in [SUBSET S -> Int]
        /\ \A s \in SUBSET S :
             Iter(f, S)[s] = IF s = {} THEN 0 ELSE f[Pick(s)] + Iter(f, S)[s \ {Pick(s)}]
    BY IterDef
  <2>3. S \in SUBSET S
    OBVIOUS
  <2>4. Iter(f, S)[S] \in Int
    BY <2>2, <2>3
  <2>5. S = {} => Iter(f, S)[S] = 0
    BY <2>2, <2>3
  <2> QED
    BY <2>1, <2>4, <2>5
<1>2. ASSUME S # {} PROVE SumOf(f, S) = f[Pick(S)] + SumOf(f, S \ {Pick(S)})
  <2> DEFINE R == S \ {Pick(S)}
             F == {s \in SUBSET R : Iter(f, S)[s] = Iter(f, R)[s]}
  <2>1. IsFiniteSet(R) /\ R \subseteq S /\ \A x \in R : f[x] \in Int
    BY FS_Subset
  <2>2. \A s \in SUBSET S :
          Iter(f, S)[s] = IF s = {} THEN 0 ELSE f[Pick(s)] + Iter(f, S)[s \ {Pick(s)}]
    BY IterDef
  <2>3. \A s \in SUBSET R :
          Iter(f, R)[s] = IF s = {} THEN 0 ELSE f[Pick(s)] + Iter(f, R)[s \ {Pick(s)}]
    <3> HIDE DEF R
    <3> QED
      BY <2>1, IterDef
  <2>4. SUBSET R \subseteq F
    <3>1. ASSUME NEW s \in SUBSET R, \A x \in s : s \ {x} \in F PROVE s \in F
      <4>1. CASE s = {}
        BY <2>1, <2>2, <2>3, <4>1
      <4>2. CASE s # {}
        <5>1. Pick(s) \in s
          BY <4>2 DEF Pick
        <5>2. Iter(f, S)[s \ {Pick(s)}] = Iter(f, R)[s \ {Pick(s)}]
          BY <3>1, <5>1
        <5> HIDE DEF R
        <5>3. s \in SUBSET S
          BY <2>1
        <5>4. Iter(f, S)[s] = Iter(f, R)[s]
          BY <2>2, <2>3, <4>2, <5>2, <5>3
        <5> QED
          BY <5>4
      <4> QED
        BY <4>1, <4>2
    <3> HIDE DEF F, R
    <3> QED
      BY <2>1, <3>1, SubsetInduction
  <2>5. Iter(f, S)[R] = Iter(f, R)[R]
    BY <2>4
  <2> QED
    BY <1>2, <2>2, <2>5, SumIter
<1> QED
  BY <1>1, <1>2

\* The same of any of its terms.
LEMMA SumRemove ==
  ASSUME NEW S, IsFiniteSet(S), NEW f, \A x \in S : f[x] \in Int, NEW a \in S
  PROVE  SumOf(f, S) = f[a] + SumOf(f, S \ {a})
<1> DEFINE F == {s \in SUBSET S : \A x \in s : SumOf(f, s) = f[x] + SumOf(f, s \ {x})}
<1>1. \A s \in SUBSET S : IsFiniteSet(s) /\ \A x \in s : f[x] \in Int
  BY FS_Subset
<1>2. \A s \in SUBSET S : SumOf(f, s) \in Int
  BY <1>1, SumPick
<1>3. ASSUME NEW s \in SUBSET S, \A y \in s : s \ {y} \in F PROVE s \in F
  <2> SUFFICES ASSUME NEW x \in s PROVE SumOf(f, s) = f[x] + SumOf(f, s \ {x})
    OBVIOUS
  <2> DEFINE c == Pick(s)
  <2>1. c \in s
    BY DEF Pick
  <2>2. SumOf(f, s) = f[c] + SumOf(f, s \ {c})
    BY <1>1, SumPick
  <2> HIDE DEF c
  <2>3. CASE x # c
    <3>1. SumOf(f, s \ {c}) = f[x] + SumOf(f, (s \ {c}) \ {x})
      BY <1>3, <2>1, <2>3
    <3>2. SumOf(f, s \ {x}) = f[c] + SumOf(f, (s \ {x}) \ {c})
      BY <1>3, <2>1, <2>3
    <3>3. (s \ {c}) \ {x} = (s \ {x}) \ {c}
      OBVIOUS
    <3> DEFINE A == f[x]
               B == f[c]
               C == SumOf(f, (s \ {c}) \ {x})
    <3>4. A \in Int /\ B \in Int /\ C \in Int
      BY <1>1, <1>2, <2>1
    <3>5. SumOf(f, s) = B + (A + C) /\ A + SumOf(f, s \ {x}) = A + (B + C)
      BY <2>2, <3>1, <3>2, <3>3
    <3> HIDE DEF A, B, C
    <3>6. B + (A + C) = A + (B + C)
      BY <3>4
    <3>7. SumOf(f, s) = A + SumOf(f, s \ {x})
      BY <3>5, <3>6
    <3> QED
      BY <3>7 DEF A
  <2>4. CASE x = c
    BY <2>2, <2>4
  <2> QED
    BY <2>3, <2>4
<1>4. SUBSET S \subseteq F
  <2> HIDE DEF F
  <2> QED
    BY <1>3, SubsetInduction
<1> QED
  BY <1>4

\* A sum is a number, and not negative if no term is.
LEMMA SumType ==
  ASSUME NEW S, IsFiniteSet(S), NEW f, \A x \in S : f[x] \in Int
  PROVE  /\ SumOf(f, S) \in Int
         /\ (\A x \in S : f[x] >= 0) => SumOf(f, S) \in Nat
<1> DEFINE F == {s \in SUBSET S : SumOf(f, s) \in Nat}
<1>1. \A s \in SUBSET S : IsFiniteSet(s) /\ \A x \in s : f[x] \in Int
  BY FS_Subset
<1>2. ASSUME \A x \in S : f[x] >= 0 PROVE SUBSET S \subseteq F
  <2>1. ASSUME NEW s \in SUBSET S, \A x \in s : s \ {x} \in F PROVE s \in F
    <3>1. CASE s = {}
      <4>1. SumOf(f, s) = 0
        BY <1>1, <3>1, SumPick
      <4> QED
        BY <4>1
    <3>2. CASE s # {}
      <4>1. PICK x \in s : TRUE
        BY <3>2
      <4>2. SumOf(f, s) = f[x] + SumOf(f, s \ {x})
        BY <1>1, SumRemove
      <4>3. f[x] \in Nat /\ SumOf(f, s \ {x}) \in Nat
        BY <1>2, <2>1
      <4>4. SumOf(f, s) \in Nat
        BY <4>2, <4>3
      <4> QED
        BY <4>4
    <3> QED
      BY <3>1, <3>2
  <2> HIDE DEF F
  <2>2. \A s \in SUBSET S : (\A x \in s : s \ {x} \in F) => s \in F
    BY <2>1
  <2> QED
    BY <2>2, SubsetInduction
<1> QED
  BY <1>2, SumPick

\* Terms of 0 may be left out: f and g are the same on T, and g has nothing
\* but 0 on the rest of S.
LEMMA SumExtend ==
  ASSUME NEW S, IsFiniteSet(S), NEW T \in SUBSET S, NEW f, NEW g,
         \A x \in T : f[x] = g[x] /\ g[x] \in Int,
         \A x \in S \ T : g[x] = 0
  PROVE  SumOf(f, T) = SumOf(g, S)
<1> DEFINE F == {s \in SUBSET S : SumOf(f, s \cap T) = SumOf(g, s)}
<1>1. \A s \in SUBSET S : /\ IsFiniteSet(s) /\ \A x \in s : g[x] \in Int
                          /\ IsFiniteSet(s \cap T) /\ \A x \in s \cap T : f[x] \in Int
  BY FS_Subset
<1>2. ASSUME NEW s \in SUBSET S, \A x \in s : s \ {x} \in F PROVE s \in F
  <2>1. CASE s = {}
    <3>1. SumOf(g, s) = 0
      BY <1>1, <2>1, SumPick
    <3>2. s \cap T = {} /\ SumOf(f, s \cap T) = 0
      BY <1>1, <2>1, SumPick
    <3> QED
      BY <3>1, <3>2
  <2>2. CASE s # {}
    <3>1. PICK x \in s : TRUE
      BY <2>2
    <3>2. SumOf(g, s) = g[x] + SumOf(g, s \ {x})
      BY <1>1, SumRemove
    <3>2a. SumOf(g, s \ {x}) \in Int /\ g[x] \in Int
      BY <1>1, SumPick
    <3>3. SumOf(f, (s \ {x}) \cap T) = SumOf(g, s \ {x})
      BY <1>2
    <3>4. CASE x \in T
      <4>1. SumOf(f, s \cap T) = f[x] + SumOf(f, (s \cap T) \ {x})
        BY <1>1, <3>4, SumRemove
      <4>2. (s \cap T) \ {x} = (s \ {x}) \cap T
        OBVIOUS
      <4>3. SumOf(f, s \cap T) = SumOf(g, s)
        BY <3>2, <3>2a, <3>3, <3>4, <4>1, <4>2
      <4> QED
        BY <4>3
    <3>5. CASE x \notin T
      <4>1. s \cap T = (s \ {x}) \cap T /\ g[x] = 0
        BY <3>5
      <4>2. SumOf(f, s \cap T) = SumOf(g, s \ {x})
        BY <3>3, <4>1
      <4>3. SumOf(g, s) = SumOf(g, s \ {x})
        BY <3>2, <3>2a, <4>1
      <4> QED
        BY <4>2, <4>3
    <3> QED
      BY <3>4, <3>5
  <2> QED
    BY <2>1, <2>2
<1>3. SUBSET S \subseteq F
  <2> HIDE DEF F
  <2>1. \A s \in SUBSET S : (\A x \in s : s \ {x} \in F) => s \in F
    BY <1>2
  <2> QED
    BY <2>1, SubsetInduction
<1>4. S \cap T = T
  OBVIOUS
<1> QED
  BY <1>3, <1>4

\* Only the terms count.
LEMMA SumSame ==
  ASSUME NEW S, IsFiniteSet(S), NEW f, NEW g, \A x \in S : f[x] = g[x] /\ g[x] \in Int
  PROVE  SumOf(f, S) = SumOf(g, S)
BY SumExtend, S \subseteq S

\* Fewer terms, none of them negative, make no more.
LEMMA SumSubset ==
  ASSUME NEW S, IsFiniteSet(S), NEW T \in SUBSET S, NEW f, \A x \in S : f[x] \in Nat
  PROVE  SumOf(f, T) <= SumOf(f, S)
<1> DEFINE F == {s \in SUBSET S : SumOf(f, s \cap T) <= SumOf(f, s)}
<1>1. \A s \in SUBSET S : IsFiniteSet(s) /\ \A x \in s : f[x] \in Int
  BY FS_Subset
<1>2. \A s \in SUBSET S : s \cap T \in SUBSET S /\ SumOf(f, s) \in Int
  BY <1>1, SumPick
<1>3. ASSUME NEW s \in SUBSET S, \A x \in s : s \ {x} \in F PROVE s \in F
  <2>1. CASE s = {}
    <3>1. s \cap T = s
      BY <2>1
    <3> QED
      BY <1>2, <3>1
  <2>2. CASE s # {}
    <3>1. PICK x \in s : TRUE
      BY <2>2
    <3>2. SumOf(f, s) = f[x] + SumOf(f, s \ {x})
      BY <1>1, SumRemove
    <3>3. SumOf(f, (s \ {x}) \cap T) <= SumOf(f, s \ {x})
      BY <1>3
    <3>4. f[x] \in Nat /\ SumOf(f, s \ {x}) \in Int /\ SumOf(f, (s \ {x}) \cap T) \in Int
      BY <1>2
    <3>5. CASE x \in T
      <4>1. SumOf(f, s \cap T) = f[x] + SumOf(f, (s \cap T) \ {x})
        BY <1>1, <1>2, <3>5, SumRemove
      <4>2. (s \cap T) \ {x} = (s \ {x}) \cap T
        OBVIOUS
      <4>3. SumOf(f, s \cap T) <= SumOf(f, s)
        BY <3>2, <3>3, <3>4, <4>1, <4>2
      <4> QED
        BY <4>3
    <3>6. CASE x \notin T
      <4>1. s \cap T = (s \ {x}) \cap T
        BY <3>6
      <4>2. SumOf(f, s \cap T) <= SumOf(f, s)
        BY <3>2, <3>3, <3>4, <4>1
      <4> QED
        BY <4>2
    <3> QED
      BY <3>5, <3>6
  <2> QED
    BY <2>1, <2>2
<1>4. SUBSET S \subseteq F
  <2> HIDE DEF F
  <2> QED
    BY <1>3, SubsetInduction
<1>5. S \cap T = T
  OBVIOUS
<1> QED
  BY <1>4, <1>5

\* No terms but 0.
LEMMA SumZero ==
  ASSUME NEW S, IsFiniteSet(S), NEW f, \A x \in S : f[x] = 0
  PROVE  SumOf(f, S) = 0
<1>1. {} \in SUBSET S /\ IsFiniteSet({})
  BY FS_EmptySet
<1>2. SumOf(f, {}) = SumOf(f, S)
  BY <1>1, SumExtend
<1>3. SumOf(f, {}) = 0
  BY <1>1, SumPick
<1> QED
  BY <1>2, <1>3

\* A change of one term is one of the sum.
LEMMA SumChange ==
  ASSUME NEW S, IsFiniteSet(S), NEW f, NEW g, NEW a \in S,
         \A x \in S : f[x] \in Int /\ g[x] \in Int,
         \A x \in S \ {a} : f[x] = g[x]
  PROVE  SumOf(g, S) = SumOf(f, S) + (g[a] - f[a])
<1>1. SumOf(f, S) = f[a] + SumOf(f, S \ {a}) /\ SumOf(g, S) = g[a] + SumOf(g, S \ {a})
  BY SumRemove
<1>2. IsFiniteSet(S \ {a})
  BY FS_Subset
<1>3. SumOf(f, S \ {a}) = SumOf(g, S \ {a}) /\ SumOf(g, S \ {a}) \in Int
  BY <1>2, SumSame, SumPick
<1>4. f[a] \in Int /\ g[a] \in Int
  OBVIOUS
<1> HIDE DEF SumOf
<1> QED
  BY <1>1, <1>3, <1>4

\* f is k times g on S.
IsMultiple(f, g, k, S) == \A x \in S : f[x] = k * g[x] /\ g[x] \in Int

\* A common factor.
LEMMA SumScale ==
  ASSUME NEW S, IsFiniteSet(S), NEW f, NEW g, NEW k \in Int, IsMultiple(f, g, k, S)
  PROVE  SumOf(f, S) = k * SumOf(g, S)
<1> USE DEF IsMultiple
<1> DEFINE F == {s \in SUBSET S : SumOf(f, s) = k * SumOf(g, s)}
<1>1. \A s \in SUBSET S : /\ IsFiniteSet(s)
                          /\ \A x \in s : g[x] \in Int
                          /\ \A x \in s : f[x] \in Int
  BY FS_Subset
<1>2. ASSUME NEW s \in SUBSET S, \A x \in s : s \ {x} \in F PROVE s \in F
  <2>1. CASE s = {}
    <3>1. SumOf(g, s) = 0 /\ SumOf(f, s) = 0
      BY <1>1, <2>1, SumPick
    <3> QED
      BY <3>1
  <2>2. CASE s # {}
    <3>1. PICK x \in s : TRUE
      BY <2>2
    <3>2. SumOf(g, s) = g[x] + SumOf(g, s \ {x}) /\ SumOf(f, s) = f[x] + SumOf(f, s \ {x})
      BY <1>1, SumRemove
    <3> DEFINE A == SumOf(g, s \ {x})
               B == g[x]
    <3>3. A \in Int /\ B \in Int /\ f[x] = k * B /\ SumOf(f, s \ {x}) = k * A
      BY <1>1, <1>2, SumPick
    <3>4. SumOf(g, s) = B + A /\ SumOf(f, s) = k * B + k * A
      BY <3>2, <3>3
    <3> HIDE DEF A, B
    <3>5. k * B + k * A = k * (B + A)
      BY <3>3
    <3>6. SumOf(f, s) = k * SumOf(g, s)
      BY <3>4, <3>5
    <3> QED
      BY <3>6
  <2> QED
    BY <2>1, <2>2
<1>3. SUBSET S \subseteq F
  <2> HIDE DEF F
  <2>1. \A s \in SUBSET S : (\A x \in s : s \ {x} \in F) => s \in F
    BY <1>2
  <2> QED
    BY <2>1, SubsetInduction
<1> QED
  BY <1>3

\* The sum over one number more.
LEMMA SumNext ==
  ASSUME NEW m \in Int, NEW n \in Int, m <= n + 1, NEW f, \A i \in m .. n + 1 : f[i] \in Int
  PROVE  SumOf(f, m .. n + 1) = SumOf(f, m .. n) + f[n + 1]
<1>1. IsFiniteSet(m .. n + 1) /\ IsFiniteSet(m .. n) /\ n + 1 \in m .. n + 1
  BY FS_Interval
<1>2. (m .. n + 1) \ {n + 1} = m .. n
  OBVIOUS
<1>3. SumOf(f, m .. n + 1) = f[n + 1] + SumOf(f, (m .. n + 1) \ {n + 1})
  BY <1>1, SumRemove
<1>4. \A i \in m .. n : f[i] \in Int
  OBVIOUS
<1> DEFINE A == SumOf(f, m .. n)
           B == f[n + 1]
<1>5. A \in Int /\ B \in Int
  BY <1>1, <1>4, SumPick
<1>6. SumOf(f, m .. n + 1) = B + A
  BY <1>2, <1>3
<1> HIDE DEF A, B
<1>7. B + A = A + B
  BY <1>5
<1> QED
  BY <1>6, <1>7 DEF A, B

\* The sum over a sequence that has become one longer.
LEMMA SumAppend ==
  ASSUME NEW m \in Int, NEW n \in Int, m <= n + 1, NEW f, NEW g,
         \A i \in m .. n + 1 : g[i] \in Int, \A i \in m .. n : f[i] = g[i]
  PROVE  SumOf(g, m .. n + 1) = SumOf(f, m .. n) + g[n + 1]
<1>1. SumOf(g, m .. n + 1) = SumOf(g, m .. n) + g[n + 1]
  BY SumNext
<1>2. \A i \in m .. n : f[i] = g[i] /\ g[i] \in Int
  OBVIOUS
<1>3. SumOf(f, m .. n) = SumOf(g, m .. n)
  BY <1>2, FS_Interval, SumSame
<1> QED
  BY <1>1, <1>3

-----------------------------------------------------------------------------
(* FifoLots.                                                               *)

\* One row more.
ReplayStep(was, r) ==
  IF r.action = "in" THEN Append(was, r.amount) ELSE Append(Withdraw(was, r.amount), 0)

\* What Replay evaluates.
ReplayIter(rows) ==
  CHOOSE g : g = [s \in SUBSET DOMAIN rows |->
                    IF s = {} THEN <<>> ELSE ReplayStep(g[s \ {Max(s)}], rows[Max(s)])]

LEMMA ReplayIsIter == ASSUME NEW rows PROVE Replay(rows) = ReplayIter(rows)[DOMAIN rows]
  BY DEF Replay, FoldLeft, MapThenFoldSet, ReplayIter, ReplayStep

\* A finite set of numbers has a greatest one.
LEMMA MaxIsGreatest ==
  ASSUME NEW n \in Nat, NEW s \in SUBSET (1 .. n), s # {}
  PROVE  Max(s) \in s /\ \A m \in s : m <= Max(s)
<1> DEFINE T == {n - m : m \in s}
<1>1. T \in SUBSET Nat /\ T # {}
  <2>1. \A m \in s : n - m \in Nat
    OBVIOUS
  <2> QED
    BY <2>1
<1>2. PICK k \in T : \A m \in T : k <= m
  BY <1>1, LeastNumber
<1>3. PICK x \in s : k = n - x
  BY <1>2
<1>4. \A m \in s : x >= m
  <2> SUFFICES ASSUME NEW m \in s PROVE x >= m
    OBVIOUS
  <2>1. k <= n - m
    BY <1>2
  <2> QED
    BY <1>3, <2>1
<1>5. \A y \in s : (\A m \in s : y >= m) => y \in s /\ \A m \in s : m <= y
  OBVIOUS
<1> QED
  BY <1>4, <1>5 DEF Max

\* What is left after a withdrawal: no more of any lot, and nothing negative.
LEMMA WithdrawType ==
  ASSUME NEW was \in Seq(Nat), NEW w \in Nat
  PROVE  /\ Withdraw(was, w) \in Seq(Nat) /\ Len(Withdraw(was, w)) = Len(was)
         /\ \A i \in 1 .. Len(was) :
              /\ Withdraw(was, w)[i] = AtLeastZero(was[i] - AtLeastZero(w - SumOf(was, 1 .. i - 1)))
              /\ Withdraw(was, w)[i] <= was[i]
<1>1. Len(was) \in Nat /\ DOMAIN was = 1 .. Len(was) /\ \A i \in 1 .. Len(was) : was[i] \in Nat
  OBVIOUS
<1>2. \A i \in 1 .. Len(was) : SumOf(was, 1 .. i - 1) \in Int
  <2> SUFFICES ASSUME NEW i \in 1 .. Len(was) PROVE SumOf(was, 1 .. i - 1) \in Int
    OBVIOUS
  <2>1. IsFiniteSet(1 .. i - 1)
    BY FS_Interval
  <2>2. \A j \in 1 .. i - 1 : was[j] \in Int
    BY <1>1
  <2> QED
    BY <2>1, <2>2, SumPick
<1> DEFINE e(i) == AtLeastZero(was[i] - AtLeastZero(w - SumOf(was, 1 .. i - 1)))
<1>3. \A i \in 1 .. Len(was) : e(i) \in Nat /\ e(i) <= was[i]
  BY <1>1, <1>2 DEF AtLeastZero
<1> HIDE DEF e
<1>4. Withdraw(was, w) = [i \in 1 .. Len(was) |-> e(i)]
  BY <1>1 DEF Withdraw, e
<1> QED
  BY <1>1, <1>3, <1>4 DEF e

LEMMA ReplayStepType ==
  ASSUME NEW was \in Seq(Nat), NEW r, r.amount \in Nat
  PROVE  ReplayStep(was, r) \in Seq(Nat) /\ Len(ReplayStep(was, r)) = Len(was) + 1
<1>1. Withdraw(was, r.amount) \in Seq(Nat) /\ Len(Withdraw(was, r.amount)) = Len(was)
  BY WithdrawType
<1> QED
  BY <1>1 DEF ReplayStep

\* The replay of the first n rows, by way of the replay of those before.
LEMMA ReplayIterDef ==
  ASSUME NEW R, \A r \in R : r.amount \in Nat, NEW rows \in Seq(R)
  PROVE  /\ ReplayIter(rows)[1 .. 0] = <<>>
         /\ \A n \in 1 .. Len(rows) :
              ReplayIter(rows)[1 .. n] = ReplayStep(ReplayIter(rows)[1 .. n - 1], rows[n])
<1> DEFINE D == 1 .. Len(rows)
           c == [s \in SUBSET D |-> Max(s)]
           step == [p \in D \X Seq(Nat) |-> ReplayStep(p[2], rows[p[1]])]
<1>1. Len(rows) \in Nat /\ DOMAIN rows = D /\ IsFiniteSet(D) /\ \A i \in D : rows[i] \in R
  BY FS_Interval
<1>2. \A s \in SUBSET D : s # {} => c[s] \in s /\ c[s] = Max(s)
  BY <1>1, MaxIsGreatest
<1>3. \A i \in D, v \in Seq(Nat) : /\ step[<<i, v>>] = ReplayStep(v, rows[i])
                                   /\ step[<<i, v>>] \in Seq(Nat)
  BY <1>1, ReplayStepType
<1>4. CanFold(D, Seq(Nat), <<>>, c, step)
  <2> HIDE DEF c, step, D
  <2> QED
    BY <1>1, <1>2, <1>3 DEF CanFold
<1> HIDE DEF c, step, D
<1>5. PICK g : IsFold(g, D, Seq(Nat), <<>>, c, step)
  BY <1>4, FoldExists
<1>6. /\ g \in [SUBSET D -> Seq(Nat)]
      /\ \A s \in SUBSET D : g[s] = IF s = {} THEN <<>> ELSE step[<<c[s], g[s \ {c[s]}]>>]
  BY <1>5 DEF IsFold
<1>7. \A s \in SUBSET D : s # {} => step[<<c[s], g[s \ {c[s]}]>>] = ReplayStep(g[s \ {Max(s)}], rows[Max(s)])
  <2> SUFFICES ASSUME NEW s \in SUBSET D, s # {}
               PROVE  step[<<c[s], g[s \ {c[s]}]>>] = ReplayStep(g[s \ {Max(s)}], rows[Max(s)])
    OBVIOUS
  <2>1. c[s] \in D /\ c[s] = Max(s) /\ g[s \ {c[s]}] \in Seq(Nat)
    BY <1>2, <1>6
  <2> QED
    BY <1>3, <2>1
<1>8. \A s \in SUBSET D : g[s] = IF s = {} THEN <<>> ELSE ReplayStep(g[s \ {Max(s)}], rows[Max(s)])
  BY <1>6, <1>7
<1>9. g = [s \in SUBSET D |-> IF s = {} THEN <<>> ELSE ReplayStep(g[s \ {Max(s)}], rows[Max(s)])]
  BY <1>6, <1>8
<1> DEFINE h == ReplayIter(rows)
<1>10. h = [s \in SUBSET D |-> IF s = {} THEN <<>> ELSE ReplayStep(h[s \ {Max(s)}], rows[Max(s)])]
  BY <1>1, <1>9 DEF ReplayIter
<1> HIDE DEF h
<1>11. \A s \in SUBSET D : h[s] = IF s = {} THEN <<>> ELSE ReplayStep(h[s \ {Max(s)}], rows[Max(s)])
  BY <1>10
<1>12. h[1 .. 0] = <<>>
  <2>1. 1 .. 0 = {} /\ {} \in SUBSET D
    OBVIOUS
  <2> QED
    BY <1>11, <2>1
<1>13. ASSUME NEW n \in D PROVE h[1 .. n] = ReplayStep(h[1 .. n - 1], rows[n])
  <2>0. n \in Nat /\ n \in 1 .. n /\ 1 .. n \subseteq D
    BY <1>1 DEF D
  <2>1. n \in Nat /\ 1 .. n \in SUBSET (1 .. n) /\ 1 .. n # {} /\ n \in 1 .. n /\ 1 .. n \in SUBSET D
    BY <2>0
  <2>2. Max(1 .. n) \in 1 .. n /\ n <= Max(1 .. n)
    BY <2>1, MaxIsGreatest
  <2>3. Max(1 .. n) = n
    BY <2>1, <2>2
  <2>4. (1 .. n) \ {n} = 1 .. n - 1
    BY <2>1
  <2>5. h[1 .. n] = ReplayStep(h[(1 .. n) \ {Max(1 .. n)}], rows[Max(1 .. n)])
    BY <1>11, <2>1
  <2> QED
    BY <2>3, <2>4, <2>5
<1> QED
  BY <1>12, <1>13 DEF h, D

LEMMA ReplayOfPrefix ==
  ASSUME NEW R, \A r \in R : r.amount \in Nat, NEW rows \in Seq(R), NEW r \in R
  PROVE  \A k \in 0 .. Len(rows) :
           ReplayIter(Append(rows, r))[1 .. k] = ReplayIter(rows)[1 .. k]
<1> DEFINE more == Append(rows, r)
           T == {k \in Nat : k <= Len(rows) => ReplayIter(more)[1 .. k] = ReplayIter(rows)[1 .. k]}
<1>1. /\ Len(rows) \in Nat /\ more \in Seq(R) /\ Len(more) = Len(rows) + 1
      /\ \A i \in 1 .. Len(rows) : more[i] = rows[i]
  OBVIOUS
<1> HIDE DEF more
<1>2. 0 \in T
  BY <1>1, ReplayIterDef
<1>3. ASSUME NEW k \in Nat, k \in T PROVE k + 1 \in T
  <2> SUFFICES ASSUME k + 1 <= Len(rows)
               PROVE  ReplayIter(more)[1 .. k + 1] = ReplayIter(rows)[1 .. k + 1]
    OBVIOUS
  <2>1. k + 1 \in 1 .. Len(rows) /\ k + 1 \in 1 .. Len(more) /\ (k + 1) - 1 = k /\ k <= Len(rows)
    BY <1>1
  <2>2. ReplayIter(more)[1 .. k + 1] = ReplayStep(ReplayIter(more)[1 .. (k + 1) - 1], more[k + 1])
    BY <1>1, <2>1, ReplayIterDef
  <2>3. ReplayIter(rows)[1 .. k + 1] = ReplayStep(ReplayIter(rows)[1 .. (k + 1) - 1], rows[k + 1])
    BY <2>1, ReplayIterDef
  <2>4. ReplayIter(more)[1 .. k] = ReplayIter(rows)[1 .. k]
    BY <1>3, <2>1
  <2> QED
    BY <1>1, <2>1, <2>2, <2>3, <2>4
<1>4. Nat \subseteq T
  <2> HIDE DEF T
  <2> QED
    BY <1>2, <1>3, NatSetInduction
<1> QED
  BY <1>4 DEF more

\* Replay takes one row after the other.
LEMMA ReplayAppend ==
  ASSUME NEW R, \A r \in R : r.amount \in Nat, NEW rows \in Seq(R), NEW r \in R
  PROVE  Replay(Append(rows, r)) = ReplayStep(Replay(rows), r)
<1> DEFINE more == Append(rows, r)
           n == Len(rows)
<1>1. /\ n \in Nat /\ more \in Seq(R) /\ Len(more) = n + 1 /\ more[n + 1] = r
      /\ DOMAIN rows = 1 .. n /\ DOMAIN more = 1 .. n + 1
  OBVIOUS
<1>2. ReplayIter(more)[1 .. n] = ReplayIter(rows)[1 .. n]
  BY <1>1, ReplayOfPrefix
<1> HIDE DEF more, n
<1>3. n + 1 \in 1 .. Len(more) /\ (n + 1) - 1 = n
  BY <1>1
<1>4. ReplayIter(more)[1 .. n + 1] = ReplayStep(ReplayIter(more)[1 .. (n + 1) - 1], more[n + 1])
  BY <1>1, <1>3, ReplayIterDef
<1> QED
  BY <1>1, <1>2, <1>3, <1>4, ReplayIsIter DEF more

LEMMA ReplayEmpty == Replay(<<>>) = <<>>
<1> DEFINE R == {[amount |-> 0]}
<1>1. <<>> \in Seq(R) /\ (\A r \in R : r.amount \in Nat) /\ DOMAIN <<>> = 1 .. 0
  OBVIOUS
<1> HIDE DEF R
<1>2. ReplayIter(<<>>)[1 .. 0] = <<>>
  BY <1>1, ReplayIterDef
<1> QED
  BY <1>1, <1>2, ReplayIsIter

LEMMA SeqOfElements ==
  ASSUME NEW S, NEW s \in Seq(S), NEW T, \A i \in 1 .. Len(s) : s[i] \in T
  PROVE  s \in Seq(T)
<1>1. s = [i \in 1 .. Len(s) |-> s[i]] /\ Len(s) \in Nat
  OBVIOUS
<1>2. s \in [1 .. Len(s) -> T]
  BY <1>1
<1> QED
  BY <1>1, <1>2

\* A sequence is its last element after the others.
LEMMA FrontLast ==
  ASSUME NEW S, NEW s \in Seq(S), s # <<>>
  PROVE  /\ Len(s) \in 1 .. Len(s) /\ s[Len(s)] \in S
         /\ SubSeq(s, 1, Len(s) - 1) \in Seq(S)
         /\ Len(SubSeq(s, 1, Len(s) - 1)) = Len(s) - 1
         /\ \A i \in 1 .. Len(s) - 1 : SubSeq(s, 1, Len(s) - 1)[i] = s[i]
         /\ s = Append(SubSeq(s, 1, Len(s) - 1), s[Len(s)])
<1> DEFINE n == Len(s) - 1
           f == SubSeq(s, 1, n)
<1>1. Len(s) \in 1 .. Len(s) /\ n \in Nat /\ n + 1 = Len(s) /\ s[Len(s)] \in S
  OBVIOUS
<1>2. \A i \in 1 .. n : s[i] \in S
  BY <1>1
<1> HIDE DEF n
<1>3. 1 \in Int /\ n \in Int
  BY <1>1
<1>4. /\ f \in Seq(S) /\ Len(f) = (IF 1 <= n THEN n - 1 + 1 ELSE 0)
      /\ \A i \in 1 .. n - 1 + 1 : f[i] = s[1 + i - 1]
  BY <1>2, <1>3, SubSeqProperties
<1>5. Len(f) = n /\ \A i \in 1 .. n : f[i] = s[i]
  BY <1>1, <1>4
<1> HIDE DEF f
<1>6. s = Append(f, s[Len(s)])
  BY <1>1, <1>4, <1>5
<1> QED
  BY <1>1, <1>4, <1>5, <1>6 DEF f, n

\* Induction over the sequences of a set.
LEMMA SeqInduction ==
  ASSUME NEW S, NEW F, <<>> \in F,
         \A s \in Seq(S), e \in S : s \in F => Append(s, e) \in F
  PROVE  Seq(S) \subseteq F
<1> DEFINE T == {n \in Nat : \A s \in Seq(S) : Len(s) = n => s \in F}
<1>1. 0 \in T
  <2>1. \A s \in Seq(S) : Len(s) = 0 => s = <<>>
    OBVIOUS
  <2> QED
    BY <2>1
<1>2. ASSUME NEW n \in Nat, n \in T PROVE n + 1 \in T
  <2> SUFFICES ASSUME NEW s \in Seq(S), Len(s) = n + 1 PROVE s \in F
    OBVIOUS
  <2> DEFINE f == SubSeq(s, 1, n)
  <2>1. f \in Seq(S) /\ Len(f) = n /\ s[n + 1] \in S
    OBVIOUS
  <2>2. s = Append(f, s[n + 1])
    OBVIOUS
  <2>3. f \in F
    BY <1>2, <2>1
  <2> HIDE DEF f
  <2> QED
    BY <2>1, <2>2, <2>3
<1>3. Nat \subseteq T
  <2> HIDE DEF T
  <2> QED
    BY <1>1, <1>2, NatSetInduction
<1> QED
  BY <1>3

\* What is left of each row: no more than its amount, nothing of a withdrawal.
LEMMA ReplayType ==
  ASSUME NEW R, \A r \in R : r.amount \in Nat, NEW rows \in Seq(R)
  PROVE  /\ Replay(rows) \in Seq(Nat) /\ Len(Replay(rows)) = Len(rows)
         /\ \A i \in 1 .. Len(rows) : /\ Replay(rows)[i] <= rows[i].amount
                                      /\ rows[i].action # "in" => Replay(rows)[i] = 0
<1> DEFINE P(s) == /\ Replay(s) \in Seq(Nat) /\ Len(Replay(s)) = Len(s)
                   /\ \A i \in 1 .. Len(s) : /\ Replay(s)[i] <= s[i].amount
                                             /\ s[i].action # "in" => Replay(s)[i] = 0
           F == {s \in Seq(R) : P(s)}
<1>1. <<>> \in F
  <2>1. <<>> \in Seq(R) /\ <<>> \in Seq(Nat) /\ Len(<<>>) = 0
    OBVIOUS
  <2>2. Replay(<<>>) = <<>>
    BY ReplayEmpty
  <2>3. Replay(<<>>) \in Seq(Nat) /\ Len(Replay(<<>>)) = Len(<<>>)
    BY <2>1, <2>2, Zenon
  <2>4. 1 .. Len(<<>>) = {}
    BY <2>1
  <2>5. P(<<>>)
    BY <2>3, <2>4, Zenon
  <2> QED
    BY <2>1, <2>5
<1>2. ASSUME NEW s \in Seq(R), NEW r \in R, s \in F PROVE Append(s, r) \in F
  <2> DEFINE was == Replay(s)
             more == Append(s, r)
             now == Replay(more)
             n == Len(s)
  <2>1. /\ was \in Seq(Nat) /\ Len(was) = n
        /\ \A i \in 1 .. n : was[i] <= s[i].amount /\ (s[i].action # "in" => was[i] = 0)
    BY <1>2
  <2>2. /\ more \in Seq(R) /\ Len(more) = n + 1 /\ more[n + 1] = r /\ n \in Nat
        /\ \A i \in 1 .. n : more[i] = s[i]
    OBVIOUS
  <2>3. now = ReplayStep(was, r)
    BY ReplayAppend
  <2>4. r.amount \in Nat /\ \A i \in 1 .. n : s[i].amount \in Nat
    OBVIOUS
  <2> HIDE DEF was, more, now, n
  <2>5. now \in Seq(Nat) /\ Len(now) = n + 1
    BY <2>1, <2>3, <2>4, ReplayStepType
  <2>6. \A i \in 1 .. n : now[i] <= was[i] /\ now[i] \in Nat /\ was[i] \in Nat
    <3>1. CASE r.action = "in"
      BY <2>1, <2>2, <2>3, <2>4, <3>1 DEF ReplayStep
    <3>2. CASE r.action # "in"
      <4>1. /\ Withdraw(was, r.amount) \in Seq(Nat) /\ Len(Withdraw(was, r.amount)) = n
            /\ \A i \in 1 .. n : Withdraw(was, r.amount)[i] <= was[i]
        BY <2>1, <2>4, WithdrawType
      <4>2. now = Append(Withdraw(was, r.amount), 0)
        BY <2>3, <3>2 DEF ReplayStep
      <4> HIDE DEF Withdraw
      <4> QED
        BY <2>1, <2>2, <4>1, <4>2
    <3> QED
      BY <3>1, <3>2
  <2>7. now[n + 1] <= r.amount /\ (r.action # "in" => now[n + 1] = 0)
    <3>1. CASE r.action = "in"
      BY <2>1, <2>2, <2>3, <2>4, <3>1 DEF ReplayStep
    <3>2. CASE r.action # "in"
      <4>1. Withdraw(was, r.amount) \in Seq(Nat) /\ Len(Withdraw(was, r.amount)) = n
        BY <2>1, <2>4, WithdrawType
      <4>2. now = Append(Withdraw(was, r.amount), 0)
        BY <2>3, <3>2 DEF ReplayStep
      <4>3. now[n + 1] = 0
        BY <2>2, <4>1, <4>2
      <4> QED
        BY <2>4, <4>3
    <3> QED
      BY <3>1, <3>2
  <2>8. ASSUME NEW i \in 1 .. n + 1
        PROVE  now[i] <= more[i].amount /\ (more[i].action # "in" => now[i] = 0)
    <3>1. CASE i \in 1 .. n
      <4>1. now[i] <= was[i] /\ now[i] \in Nat /\ was[i] \in Nat /\ s[i].amount \in Nat
        BY <2>4, <2>6, <3>1
      <4>2. was[i] <= s[i].amount /\ (s[i].action # "in" => was[i] = 0) /\ more[i] = s[i]
        BY <2>1, <2>2, <3>1
      <4> QED
        BY <4>1, <4>2
    <3>2. CASE i = n + 1
      BY <2>2, <2>7, <3>2
    <3> QED
      BY <2>2, <3>1, <3>2
  <2>9. P(more)
    BY <2>2, <2>5, <2>8 DEF now
  <2> QED
    BY <2>2, <2>9 DEF more
<1>3. Seq(R) \subseteq F
  <2> HIDE DEF F
  <2> QED
    BY <1>1, <1>2, SeqInduction
<1> QED
  BY <1>3

\* Later rows leave no more of the older ones.
LEMMA ReplayShrinks ==
  ASSUME NEW R, \A r \in R : r.amount \in Nat, NEW rows \in Seq(R), NEW r \in R,
         NEW i \in 1 .. Len(rows)
  PROVE  Replay(Append(rows, r))[i] <= Replay(rows)[i]
<1> DEFINE was == Replay(rows)
<1>1. was \in Seq(Nat) /\ Len(was) = Len(rows) /\ Len(rows) \in Nat
  BY ReplayType
<1>2. Replay(Append(rows, r)) = ReplayStep(was, r)
  BY ReplayAppend
<1>3. r.amount \in Nat
  OBVIOUS
<1> HIDE DEF was
<1>4. ReplayStep(was, r)[i] <= was[i]
  <2>1. CASE r.action = "in"
    BY <1>1, <1>3, <2>1 DEF ReplayStep
  <2>2. CASE r.action # "in"
    <3>1. /\ Withdraw(was, r.amount) \in Seq(Nat) /\ Len(Withdraw(was, r.amount)) = Len(rows)
          /\ Withdraw(was, r.amount)[i] <= was[i]
      BY <1>1, <1>3, WithdrawType
    <3>2. ReplayStep(was, r) = Append(Withdraw(was, r.amount), 0)
      BY <2>2 DEF ReplayStep
    <3> HIDE DEF Withdraw
    <3> QED
      BY <1>1, <3>1, <3>2
  <2> QED
    BY <2>1, <2>2
<1> QED
  BY <1>2, <1>4 DEF was

-----------------------------------------------------------------------------
(* Sorting: a sequence that has each element of a set once, in order.      *)

LEMMA EnumerationType ==
  ASSUME NEW S, IsFiniteSet(S), NEW s \in SetToSeqs(S)
  PROVE  /\ s \in Seq(S) /\ Len(s) = Cardinality(S) /\ DOMAIN s = 1 .. Len(s)
         /\ \A i, j \in 1 .. Len(s) : s[i] = s[j] => i = j
         /\ \A x \in S : \E i \in 1 .. Len(s) : s[i] = x
<1> DEFINE n == Cardinality(S)
<1>1. n \in Nat
  BY FS_CardinalityType
<1>2. s \in [1 .. n -> S] /\ \A i, j \in 1 .. n : i # j => s[i] # s[j]
  BY DEF SetToSeqs
<1>3. s \in Injection(1 .. n, S)
  BY <1>2 DEF Injection, IsInjective
<1>4. Cardinality(1 .. n) = n
  BY <1>1, FS_Interval
<1>5. s \in Surjection(1 .. n, S)
  BY <1>3, <1>4, FS_Injection
<1> HIDE DEF n
<1>6. \A x \in S : \E i \in 1 .. n : s[i] = x
  BY <1>5 DEF Surjection
<1>7. s \in Seq(S) /\ Len(s) = n /\ DOMAIN s = 1 .. n
  BY <1>1, <1>2
<1> QED
  BY <1>2, <1>6, <1>7 DEF n

\* R orders S.
Orders(R, S) ==
  /\ \A x, y \in S : x = y \/ <<x, y>> \in R \/ <<y, x>> \in R
  /\ \A x, y, z \in S : <<x, y>> \in R /\ <<y, z>> \in R => <<x, z>> \in R

SortedBy(s, R) == \A i, j \in DOMAIN s : i < j => <<s[i], s[j]>> \in R

LEMMA GreatestExists ==
  ASSUME NEW S, IsFiniteSet(S), S # {}, NEW R, Orders(R, S)
  PROVE  \E m \in S : \A x \in S \ {m} : <<x, m>> \in R
<1> DEFINE F == {s \in SUBSET S : s = {} \/ \E m \in s : \A x \in s \ {m} : <<x, m>> \in R}
<1>1. ASSUME NEW s \in SUBSET S, \A x \in s : s \ {x} \in F PROVE s \in F
  <2> SUFFICES ASSUME s # {} PROVE \E m \in s : \A x \in s \ {m} : <<x, m>> \in R
    OBVIOUS
  <2>1. PICK x \in s : TRUE
    OBVIOUS
  <2>2. CASE s \ {x} = {}
    BY <2>1, <2>2
  <2>3. CASE s \ {x} # {}
    <3>1. PICK m \in s \ {x} : \A y \in (s \ {x}) \ {m} : <<y, m>> \in R
      BY <1>1, <2>1, <2>3
    <3>2. CASE <<x, m>> \in R
      BY <3>1, <3>2
    <3>3. CASE <<m, x>> \in R
      <4>1. \A y \in s \ {x} : <<y, x>> \in R
        BY <2>1, <3>1, <3>3 DEF Orders
      <4> QED
        BY <2>1, <4>1
    <3> QED
      BY <2>1, <3>1, <3>2, <3>3 DEF Orders
  <2> QED
    BY <2>2, <2>3
<1>2. SUBSET S \subseteq F
  <2> HIDE DEF F
  <2>1. \A s \in SUBSET S : (\A x \in s : s \ {x} \in F) => s \in F
    BY <1>1
  <2> QED
    BY <2>1, SubsetInduction
<1> QED
  BY <1>2

\* An enumeration with one element more at its end.
LEMMA EnumerationAppend ==
  ASSUME NEW S, IsFiniteSet(S), NEW s \in SetToSeqs(S), NEW m, m \notin S
  PROVE  /\ Append(s, m) \in SetToSeqs(S \cup {m})
         /\ \A R : SortedBy(s, R) /\ (\A x \in S : <<x, m>> \in R) => SortedBy(Append(s, m), R)
<1> DEFINE n == Len(s)
           t == Append(s, m)
           Q == S \cup {m}
<1>1. /\ s \in Seq(S) /\ n = Cardinality(S) /\ DOMAIN s = 1 .. n /\ n \in Nat
      /\ \A i, j \in 1 .. n : s[i] = s[j] => i = j
  BY EnumerationType
<1>2. Cardinality(Q) = n + 1
  BY <1>1, FS_AddElement
<1>3. \A i \in 1 .. n : s[i] \in S /\ s[i] # m
  BY <1>1
<1>4. t \in Seq(Q) /\ Len(t) = n + 1 /\ DOMAIN t = 1 .. n + 1 /\ t[n + 1] = m
  <2>1. s \in Seq(Q) /\ m \in Q
    BY <1>1
  <2> HIDE DEF Q
  <2> QED
    BY <2>1
<1>5. \A i \in 1 .. n : t[i] = s[i]
  BY <1>1
<1> HIDE DEF t, Q, n
<1>6. \A i, j \in 1 .. n + 1 : i # j => t[i] # t[j]
  <2> SUFFICES ASSUME NEW i \in 1 .. n + 1, NEW j \in 1 .. n + 1, i # j PROVE t[i] # t[j]
    OBVIOUS
  <2>1. CASE i = n + 1
    <3>1. j \in 1 .. n
      BY <1>1, <2>1
    <3> QED
      BY <1>3, <1>4, <1>5, <2>1, <3>1
  <2>2. CASE j = n + 1
    <3>1. i \in 1 .. n
      BY <1>1, <2>2
    <3> QED
      BY <1>3, <1>4, <1>5, <2>2, <3>1
  <2>3. CASE i # n + 1 /\ j # n + 1
    <3>1. i \in 1 .. n /\ j \in 1 .. n
      BY <1>1, <2>3
    <3> QED
      BY <1>1, <1>5, <3>1
  <2> QED
    BY <2>1, <2>2, <2>3
<1>7. t \in [1 .. n + 1 -> Q]
  BY <1>4
<1>8. t \in SetToSeqs(Q)
  BY <1>2, <1>6, <1>7 DEF SetToSeqs
<1>9. ASSUME NEW R, SortedBy(s, R), \A x \in S : <<x, m>> \in R PROVE SortedBy(t, R)
  <2> SUFFICES ASSUME NEW i \in 1 .. n + 1, NEW j \in 1 .. n + 1, i < j PROVE <<t[i], t[j]>> \in R
    BY <1>4 DEF SortedBy
  <2>1. i \in 1 .. n
    BY <1>1
  <2>2. CASE j = n + 1
    BY <1>3, <1>4, <1>5, <1>9, <2>1, <2>2
  <2>3. CASE j \in 1 .. n
    BY <1>1, <1>5, <1>9, <2>1, <2>3 DEF SortedBy
  <2> QED
    BY <1>1, <2>2, <2>3
<1> QED
  BY <1>8, <1>9 DEF t, Q

\* Every finite set can be sorted.
LEMMA SortExists ==
  ASSUME NEW S, IsFiniteSet(S), NEW R, Orders(R, S)
  PROVE  \E s \in SetToSeqs(S) : SortedBy(s, R)
<1> DEFINE F == {t \in SUBSET S : \E s \in SetToSeqs(t) : SortedBy(s, R)}
<1>1. ASSUME NEW t \in SUBSET S, \A x \in t : t \ {x} \in F PROVE t \in F
  <2>1. CASE t = {}
    <3>1. <<>> \in [1 .. 0 -> {}] /\ DOMAIN <<>> = {} /\ 1 .. 0 = {}
      OBVIOUS
    <3>2. <<>> \in SetToSeqs({})
      BY <3>1, FS_EmptySet DEF SetToSeqs
    <3>3. SortedBy(<<>>, R)
      BY <3>1 DEF SortedBy
    <3> QED
      BY <2>1, <3>2, <3>3
  <2>2. CASE t # {}
    <3>1. IsFiniteSet(t) /\ Orders(R, t)
      BY FS_Subset DEF Orders
    <3>2. PICK m \in t : \A x \in t \ {m} : <<x, m>> \in R
      BY <2>2, <3>1, GreatestExists
    <3>3. PICK s \in SetToSeqs(t \ {m}) : SortedBy(s, R)
      BY <1>1, <3>2
    <3>4. IsFiniteSet(t \ {m}) /\ m \notin t \ {m} /\ (t \ {m}) \cup {m} = t
      BY <3>1, <3>2, FS_RemoveElement
    <3>5. Append(s, m) \in SetToSeqs((t \ {m}) \cup {m}) /\ SortedBy(Append(s, m), R)
      BY <3>2, <3>3, <3>4, EnumerationAppend
    <3> QED
      BY <3>4, <3>5
  <2> QED
    BY <2>1, <2>2
<1>2. SUBSET S \subseteq F
  <2> HIDE DEF F
  <2>1. \A s \in SUBSET S : (\A x \in s : s \ {x} \in F) => s \in F
    BY <1>1
  <2> QED
    BY <2>1, SubsetInduction
<1> QED
  BY <1>2

IsAscending(s) == \A i, j \in DOMAIN s : i < j => s[i] < s[j]

LEMMA AscendingExists ==
  ASSUME NEW S \in SUBSET Int, IsFiniteSet(S)
  PROVE  \E s \in SetToSeqs(S) : IsAscending(s)
<1> DEFINE R == {p \in S \X S : p[1] < p[2]}
<1>1. Orders(R, S)
  BY DEF Orders
<1> HIDE DEF R
<1>2. PICK s \in SetToSeqs(S) : SortedBy(s, R)
  BY <1>1, SortExists
<1>3. IsAscending(s)
  BY <1>2 DEF SortedBy, IsAscending, R
<1> QED
  BY <1>3

\* A set of numbers can be sorted in one way only.
LEMMA AscendingUnique ==
  ASSUME NEW S \in SUBSET Int, IsFiniteSet(S),
         NEW s \in SetToSeqs(S), IsAscending(s), NEW t \in SetToSeqs(S), IsAscending(t)
  PROVE  s = t
<1> DEFINE n == Len(s)
           T == {i \in 1 .. n : s[i] # t[i]}
<1>1. s \in Seq(S) /\ n \in Nat /\ DOMAIN s = 1 .. n /\ n = Cardinality(S)
  BY EnumerationType, FS_CardinalityType
<1>1a. t \in Seq(S) /\ Len(t) = n /\ DOMAIN t = 1 .. n
  BY <1>1, EnumerationType
<1>2. /\ \A i, j \in 1 .. n : s[i] = s[j] => i = j
      /\ \A x \in S : \E i \in 1 .. n : s[i] = x
  BY EnumerationType
<1>3. /\ \A i, j \in 1 .. Len(t) : t[i] = t[j] => i = j
      /\ \A x \in S : \E i \in 1 .. Len(t) : t[i] = x
  BY EnumerationType
<1>4. \A i \in 1 .. n : s[i] \in S /\ t[i] \in S /\ s[i] \in Int /\ t[i] \in Int
  <2>1. \A i \in 1 .. n : s[i] \in S /\ t[i] \in S
    BY <1>1, <1>1a
  <2> QED
    BY <2>1
<1> HIDE DEF n
<1>5. ASSUME T # {} PROVE FALSE
  <2>1. T \in SUBSET Nat
    BY <1>1
  <2>2. PICK i \in T : \A j \in T : i <= j
    BY <1>5, <2>1, LeastNumber
  <2>3. i \in 1 .. n /\ s[i] # t[i] /\ \A k \in 1 .. n : k < i => s[k] = t[k]
    BY <1>1, <2>2
  <2>4. PICK j \in 1 .. n : t[j] = s[i]
    BY <1>1a, <1>3, <1>4, <2>3
  <2>5. PICK k \in 1 .. n : s[k] = t[i]
    BY <1>2, <1>4, <2>3
  <2>6. j > i
    BY <1>1, <1>2, <2>3, <2>4
  <2>7. k > i
    BY <1>1, <1>1a, <1>3, <2>3, <2>5
  <2>8. t[i] < s[i]
    BY <1>1, <1>1a, <2>3, <2>4, <2>6 DEF IsAscending
  <2>9. s[i] < t[i]
    BY <1>1, <2>3, <2>5, <2>7 DEF IsAscending
  <2> QED
    BY <1>4, <2>3, <2>8, <2>9
<1> QED
  BY <1>1, <1>1a, <1>5

\* A greater number goes to the end.
LEMMA AscendingAppend ==
  ASSUME NEW S \in SUBSET Int, IsFiniteSet(S), NEW s \in SetToSeqs(S), IsAscending(s),
         NEW m \in Int, \A x \in S : x < m
  PROVE  Append(s, m) \in SetToSeqs(S \cup {m}) /\ IsAscending(Append(s, m))
<1> DEFINE Q == S \cup {m}
           R == {p \in Q \X Q : p[1] < p[2]}
<1>1. /\ s \in Seq(S) /\ DOMAIN s = 1 .. Len(s) /\ Len(s) \in Nat
  BY EnumerationType
<1>2. SortedBy(s, R)
  BY <1>1 DEF SortedBy, IsAscending
<1>3. \A x \in S : <<x, m>> \in R
  OBVIOUS
<1>4. m \notin S
  OBVIOUS
<1> HIDE DEF R
<1>5. Append(s, m) \in SetToSeqs(S \cup {m}) /\ SortedBy(Append(s, m), R)
  BY <1>2, <1>3, <1>4, EnumerationAppend
<1>6. IsAscending(Append(s, m))
  BY <1>5 DEF SortedBy, IsAscending, R
<1> QED
  BY <1>5, <1>6
=============================================================================
