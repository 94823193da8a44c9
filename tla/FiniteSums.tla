----------------------------- MODULE FiniteSums -----------------------------
(***************************************************************************)
(* Induction over sets and sums over finite sets.  The induction theorems  *)
(* of the library take a predicate; here a set stands for it, and the      *)
(* principle follows from WFMin: a set of naturals, or of subsets of a     *)
(* finite set, that is not empty has a minimal element.                    *)
(***************************************************************************)
EXTENDS Integers, FiniteSets, FiniteSetsExt, FiniteSetTheorems, TLAPS

(***************************************************************************)
(* Induction.                                                              *)
(***************************************************************************)
\* A non-empty set of naturals has a least element.
LEMMA LeastNatural ==
    ASSUME NEW T, T \subseteq Nat, T /= {}
    PROVE  \E x \in T: \A y \in T: x <= y
<1> DEFINE R == OpToRel(<, Nat)
<1>1. \A x, y \in Nat: <<x, y>> \in R <=> x < y
  BY DEF OpToRel
<1>2. IsWellFoundedOn(R, Nat)
  BY NatLessThanWellFounded, Zenon
<1> HIDE DEF R
<1>3. \E x \in T: \A y \in T: ~ (<<y, x>> \in R)
  BY <1>2, WFMin
<1>4. ASSUME NEW x \in T, NEW y \in T, ~ (<<y, x>> \in R)
      PROVE  x <= y
  <2>1. x \in Nat /\ y \in Nat
    OBVIOUS
  <2>2. QED BY <1>1, <1>4, <2>1
<1>5. QED BY <1>3, <1>4

\* A set that holds 0 and with a number the next one holds every number.
LEMMA EveryNatural ==
    ASSUME NEW U, 0 \in U, \A n \in Nat: n \in U => n + 1 \in U
    PROVE  Nat \subseteq U
<1> SUFFICES ASSUME Nat \ U /= {} PROVE FALSE
  OBVIOUS
<1>1. PICK x \in Nat \ U: \A y \in Nat \ U: x <= y
  BY LeastNatural
<1>2. x /= 0 /\ x - 1 \in Nat
  BY <1>1
<1>3. x - 1 \in U
  BY <1>1, <1>2
<1>4. x \in U
  BY <1>2, <1>3
<1>5. QED BY <1>4, <1>1

\* A set of sets that holds a part of S whenever it holds the smaller parts of that
\* part holds every part of the finite set S.
LEMMA EverySubset ==
    ASSUME NEW S, IsFiniteSet(S), NEW U,
           \A T \in SUBSET S: (\A R \in SUBSET T: R /= T => R \in U) => T \in U
    PROVE  SUBSET S \subseteq U
<1> DEFINE O == StrictSubsetOrdering(S)
<1>1. IsWellFoundedOn(O, SUBSET S)
  BY FS_StrictSubsetOrderingWellFounded, FS_FiniteSubsetsOfFinite, Zenon
<1>2. \A Q, T \in SUBSET S: Q \subseteq T /\ Q /= T => <<Q, T>> \in O
  BY DEF StrictSubsetOrdering
<1> HIDE DEF O
<1> SUFFICES ASSUME (SUBSET S) \ U /= {} PROVE FALSE
  OBVIOUS
<1>3. PICK T \in (SUBSET S) \ U: \A Q \in (SUBSET S) \ U: ~ (<<Q, T>> \in O)
  <2> DEFINE D == (SUBSET S) \ U
  <2>1. D \subseteq SUBSET S /\ D /= {}
    OBVIOUS
  <2> HIDE DEF D
  <2>2. \E x \in D: \A y \in D: ~ (<<y, x>> \in O)
    BY <1>1, <2>1, WFMin
  <2>3. QED BY <2>2 DEF D
<1>4. ASSUME NEW Q \in SUBSET T, Q /= T PROVE Q \in U
  <2>1. Q \in SUBSET S /\ T \in SUBSET S /\ Q \subseteq T
    OBVIOUS
  <2>2. <<Q, T>> \in O
    BY <1>2, <1>4, <2>1
  <2>3. QED BY <1>3, <2>1, <2>2
<1>5. QED BY <1>3, <1>4

\* The same, one element at a time.
LEMMA ByElement ==
    ASSUME NEW S, IsFiniteSet(S), NEW U, {} \in U,
           \A T \in SUBSET S: \A x \in S \ T: T \in U => T \cup {x} \in U
    PROVE  S \in U
<1>1. ASSUME NEW T \in SUBSET S, \A R \in SUBSET T: R /= T => R \in U
      PROVE  T \in U
  <2>1. CASE T = {}
    BY <2>1
  <2>2. CASE T /= {}
    <3>1. PICK x \in T: TRUE
      BY <2>2
    <3>2. T \ {x} \in U
      BY <1>1
    <3>3. /\ T \ {x} \in SUBSET S
          /\ x \in S \ (T \ {x}) /\ (T \ {x}) \cup {x} = T
      OBVIOUS
    <3>4. QED BY <3>2, <3>3
  <2>3. QED BY <2>1, <2>2
<1>2. SUBSET S \subseteq U
  BY <1>1, EverySubset
<1>3. QED BY <1>2

(***************************************************************************)
(* The sum of f over S: MapThenSumSet for a function.  Its fold takes the  *)
(* elements in the order of CHOOSE; IsFold is the equation it solves.      *)
(***************************************************************************)
Total(f, S) == MapThenSumSet(LAMBDA x: f[x], S)

Pick(s) == CHOOSE x \in s: TRUE
Unfolded(g, f, s) == IF s = {} THEN 0 ELSE f[Pick(s)] + g[s \ {Pick(s)}]
IsFold(g, f, S) == g = [s \in SUBSET S |-> Unfolded(g, f, s)]
Fold(f, S) == CHOOSE g: IsFold(g, f, S)

\* MapThenSumSet takes a solution of the equation.
LEMMA TotalIsFold ==
    ASSUME NEW f, NEW S PROVE Total(f, S) = Fold(f, S)[S]
BY DEF Total, MapThenSumSet, MapThenFoldSet, Fold, IsFold, Unfolded, Pick

\* The element taken next is an element.
LEMMA Picked == ASSUME NEW s, s /= {} PROVE Pick(s) \in s
BY DEF Pick

\* A part with one more element: its size.
LEMMA SmallerPart ==
    ASSUME NEW s, IsFiniteSet(s), NEW x \in s
    PROVE  /\ IsFiniteSet(s \ {x}) /\ s \ {x} /= s
           /\ Cardinality(s) \in Nat /\ Cardinality(s \ {x}) = Cardinality(s) - 1
BY FS_RemoveElement, FS_CardinalityType

\* The fold exists: it is built for parts of at most n elements, n by n.
LEMMA FoldExists ==
    ASSUME NEW f, NEW S, IsFiniteSet(S) PROVE \E g: IsFold(g, f, S)
<1> DEFINE K(n) == {s \in SUBSET S: Cardinality(s) <= n}
           Partial(n, g) == g = [s \in K(n) |-> Unfolded(g, f, s)]
           U == {n \in Nat: \E g: Partial(n, g)}
<1>1. \A s \in SUBSET S: IsFiniteSet(s) /\ Cardinality(s) \in Nat
  BY FS_Subset, FS_CardinalityType
<1>2. 0 \in U
  <2> DEFINE g == [s \in K(0) |-> 0]
  <2>1. \A s \in K(0): s = {}
    BY <1>1, FS_EmptySet
  <2>2. \A s \in K(0): Unfolded(g, f, s) = 0
    BY <2>1 DEF Unfolded
  <2>3. g = [s \in K(0) |-> Unfolded(g, f, s)]
    BY <2>2
  <2>4. QED BY <2>3
<1>3. ASSUME NEW n \in Nat, n \in U PROVE n + 1 \in U
  <2>1. PICK g: Partial(n, g)
    BY <1>3
  <2> DEFINE h == [s \in K(n + 1) |-> Unfolded(g, f, s)]
  <2>2. \A s \in K(n): s \in K(n + 1)
    BY <1>1
  <2>3. \A s \in K(n): h[s] = g[s]
    <3>1. g = [s \in K(n) |-> Unfolded(g, f, s)]
      BY <2>1
    <3> HIDE DEF K
    <3>2. \A s \in K(n): g[s] = Unfolded(g, f, s)
      BY <3>1
    <3>3. QED BY <3>2, <2>2
  <2>4. ASSUME NEW s \in K(n + 1), s /= {} PROVE s \ {Pick(s)} \in K(n)
    <3>1. Pick(s) \in s
      BY <2>4, Picked
    <3>2. IsFiniteSet(s) /\ s \in SUBSET S /\ Cardinality(s) <= n + 1
      BY <1>1
    <3>3. Cardinality(s) \in Nat /\ Cardinality(s \ {Pick(s)}) = Cardinality(s) - 1
      BY <3>1, <3>2, SmallerPart
    <3>4. QED BY <3>2, <3>3
  <2>5. \A s \in K(n + 1): Unfolded(g, f, s) = Unfolded(h, f, s)
    <3> HIDE DEF K, h
    <3>1. QED BY <2>3, <2>4 DEF Unfolded
  <2>6. h = [s \in K(n + 1) |-> Unfolded(h, f, s)]
    <3>1. h = [s \in K(n + 1) |-> Unfolded(g, f, s)]
      OBVIOUS
    <3> HIDE DEF K, h
    <3>2. QED BY <3>1, <2>5
  <2>7. Partial(n + 1, h)
    BY <2>6
  <2> HIDE DEF Partial, h
  <2>8. QED BY <2>7
<1>4. Nat \subseteq U
  <2> HIDE DEF U
  <2>1. QED BY <1>2, <1>3, EveryNatural
<1>5. Cardinality(S) \in Nat /\ K(Cardinality(S)) = SUBSET S
  <2>1. Cardinality(S) \in Nat
    BY FS_CardinalityType
  <2>2. \A s \in SUBSET S: Cardinality(s) <= Cardinality(S)
    BY FS_Subset
  <2>3. QED BY <2>1, <2>2
<1>6. PICK g: Partial(Cardinality(S), g)
  BY <1>4, <1>5
<1>7. IsFold(g, f, S)
  BY <1>5, <1>6 DEF IsFold
<1>8. QED BY <1>7

\* The fold solves its equation for every part of S.
LEMMA FoldUnfolds ==
    ASSUME NEW f, NEW S, IsFiniteSet(S), NEW s \in SUBSET S
    PROVE  Fold(f, S)[s] = Unfolded(Fold(f, S), f, s)
<1>1. IsFold(Fold(f, S), f, S)
  BY FoldExists DEF Fold
<1> DEFINE g == Fold(f, S)
<1>2. g = [t \in SUBSET S |-> Unfolded(g, f, t)]
  BY <1>1 DEF IsFold
<1> HIDE DEF g
<1>3. g[s] = Unfolded(g, f, s)
  BY <1>2
<1>4. QED BY <1>3 DEF g

\* A part of S has the same fold whether it is folded alone or within S.
LEMMA FoldLocal ==
    ASSUME NEW f, NEW S, IsFiniteSet(S), NEW T \in SUBSET S
    PROVE  \A s \in SUBSET T: Fold(f, T)[s] = Fold(f, S)[s]
<1> DEFINE U == {s \in SUBSET T: Fold(f, T)[s] = Fold(f, S)[s]}
<1>1. IsFiniteSet(T)
  BY FS_Subset
<1>2. ASSUME NEW s \in SUBSET T, \A r \in SUBSET s: r /= s => r \in U
      PROVE  s \in U
  <2>1. s \in SUBSET S
    OBVIOUS
  <2>2. /\ Fold(f, T)[s] = Unfolded(Fold(f, T), f, s)
        /\ Fold(f, S)[s] = Unfolded(Fold(f, S), f, s)
    BY <1>1, <2>1, FoldUnfolds
  <2>3. s /= {} => s \ {Pick(s)} \in U
    BY <1>2, Picked
  <2>4. QED BY <2>2, <2>3 DEF Unfolded
<1>3. SUBSET T \subseteq U
  <2> HIDE DEF U
  <2>1. QED BY <1>1, <1>2, EverySubset
<1>4. QED BY <1>3

\* A sum is the element taken next and the sum of the others.
LEMMA TotalUnfolds ==
    ASSUME NEW f, NEW S, IsFiniteSet(S)
    PROVE  Total(f, S) = IF S = {} THEN 0 ELSE f[Pick(S)] + Total(f, S \ {Pick(S)})
<1> DEFINE R == S \ {Pick(S)}
<1>1. Total(f, S) = Fold(f, S)[S] /\ Total(f, R) = Fold(f, R)[R]
  BY TotalIsFold
<1>2. Fold(f, R)[R] = Fold(f, S)[R]
  BY FoldLocal
<1>3. Fold(f, S)[S] = Unfolded(Fold(f, S), f, S)
  BY FoldUnfolds
<1>4. QED BY <1>1, <1>2, <1>3 DEF Unfolded

(***************************************************************************)
(* What a sum is.                                                          *)
(***************************************************************************)
LEMMA TotalEmpty == ASSUME NEW f PROVE Total(f, {}) = 0
BY TotalUnfolds, FS_EmptySet

\* Integers sum up to an integer.
LEMMA TotalInt ==
    ASSUME NEW f, NEW S, IsFiniteSet(S), \A x \in S: f[x] \in Int
    PROVE  Total(f, S) \in Int
<1> DEFINE U == {s \in SUBSET S: Total(f, s) \in Int}
<1>1. ASSUME NEW s \in SUBSET S, \A r \in SUBSET s: r /= s => r \in U
      PROVE  s \in U
  <2>1. IsFiniteSet(s)
    BY FS_Subset
  <2>2. Total(f, s) = IF s = {} THEN 0 ELSE f[Pick(s)] + Total(f, s \ {Pick(s)})
    BY <2>1, TotalUnfolds
  <2>3. s /= {} => Pick(s) \in S /\ s \ {Pick(s)} \in U
    BY <1>1, Picked
  <2>4. QED BY <2>2, <2>3
<1>2. SUBSET S \subseteq U
  <2> HIDE DEF U
  <2>1. QED BY <1>1, EverySubset
<1>3. QED BY <1>2

\* Any element may be taken out first.
LEMMA TotalTakeOut ==
    ASSUME NEW f, NEW S, IsFiniteSet(S), \A x \in S: f[x] \in Int, NEW e \in S
    PROVE  Total(f, S) = f[e] + Total(f, S \ {e})
<1> DEFINE U == {s \in SUBSET S: \A x \in s: Total(f, s) = f[x] + Total(f, s \ {x})}
<1>1. ASSUME NEW s \in SUBSET S, \A r \in SUBSET s: r /= s => r \in U
      PROVE  s \in U
  <2> SUFFICES ASSUME NEW x \in s PROVE Total(f, s) = f[x] + Total(f, s \ {x})
    BY <1>1
  <2> DEFINE p == Pick(s)
  <2>1. p \in s
    BY Picked
  <2>2. IsFiniteSet(s) /\ \A t \in SUBSET s: IsFiniteSet(t) /\ Total(f, t) \in Int
    <3>1. \A t \in SUBSET S: IsFiniteSet(t)
      BY FS_Subset
    <3>2. \A t \in SUBSET S: \A y \in t: f[y] \in Int
      OBVIOUS
    <3>3. \A t \in SUBSET S: Total(f, t) \in Int
      BY <3>1, <3>2, TotalInt
    <3>4. QED BY <3>1, <3>3
  <2>3. Total(f, s) = f[p] + Total(f, s \ {p})
    BY <2>1, <2>2, TotalUnfolds
  <2>4. CASE x /= p
    <3> HIDE DEF p
    <3>1. s \ {p} \in U /\ s \ {x} \in U
      BY <1>1, <2>1
    <3>2. Total(f, s \ {p}) = f[x] + Total(f, (s \ {p}) \ {x})
      BY <2>4, <3>1
    <3>3. Total(f, s \ {x}) = f[p] + Total(f, (s \ {x}) \ {p})
      BY <2>4, <2>1, <3>1
    <3>4. (s \ {p}) \ {x} = (s \ {x}) \ {p}
      OBVIOUS
    <3>5. f[x] \in Int /\ f[p] \in Int /\ Total(f, (s \ {x}) \ {p}) \in Int
      BY <2>1, <2>2
    <3> DEFINE rest == Total(f, (s \ {x}) \ {p})
    <3>6. Total(f, s) = f[p] + (f[x] + rest) /\ Total(f, s \ {x}) = f[p] + rest
      BY <2>3, <3>2, <3>3, <3>4
    <3>7. rest \in Int
      BY <3>5
    <3> HIDE DEF rest
    <3>8. QED BY <3>5, <3>6, <3>7
  <2>5. QED BY <2>3, <2>4
<1>2. SUBSET S \subseteq U
  <2> HIDE DEF U
  <2>1. QED BY <1>1, EverySubset
<1>3. S \in U
  BY <1>2
<1>4. QED BY <1>3

\* An element more.
LEMMA TotalAdd ==
    ASSUME NEW f, NEW S, IsFiniteSet(S), \A x \in S: f[x] \in Int,
           NEW e, e \notin S, f[e] \in Int
    PROVE  Total(f, S \cup {e}) = Total(f, S) + f[e] /\ Total(f, S) \in Int
<1>1. IsFiniteSet(S \cup {e}) /\ (S \cup {e}) \ {e} = S
  BY FS_AddElement
<1>2. Total(f, S \cup {e}) = f[e] + Total(f, S)
  BY <1>1, TotalTakeOut
<1>3. Total(f, S) \in Int
  BY TotalInt
<1>4. QED BY <1>2, <1>3

\* Only the values on S count.
LEMMA TotalSame ==
    ASSUME NEW f, NEW g, NEW S, IsFiniteSet(S), \A x \in S: f[x] \in Int /\ f[x] = g[x]
    PROVE  Total(f, S) = Total(g, S)
<1> DEFINE U == {s \in SUBSET S: Total(f, s) = Total(g, s)}
<1>1. {} \in U
  BY TotalEmpty
<1>2. ASSUME NEW T \in SUBSET S, NEW x \in S \ T, T \in U PROVE T \cup {x} \in U
  <2>1. IsFiniteSet(T) /\ \A y \in T \cup {x}: f[y] \in Int /\ f[y] = g[y]
    BY FS_Subset
  <2>2. Total(f, T \cup {x}) = Total(f, T) + f[x] /\ Total(g, T \cup {x}) = Total(g, T) + g[x]
    BY <2>1, TotalAdd
  <2>3. QED BY <1>2, <2>1, <2>2
<1>3. S \in U
  <2> HIDE DEF U
  <2>1. QED BY <1>1, <1>2, ByElement
<1>4. QED BY <1>3

\* Summand by summand not greater.
LEMMA TotalLe ==
    ASSUME NEW f, NEW g, NEW S, IsFiniteSet(S),
           \A x \in S: f[x] \in Int /\ g[x] \in Int /\ f[x] <= g[x]
    PROVE  Total(f, S) <= Total(g, S)
<1> DEFINE U == {s \in SUBSET S: Total(f, s) <= Total(g, s)}
<1>1. {} \in U
  BY TotalEmpty
<1>2. ASSUME NEW T \in SUBSET S, NEW x \in S \ T, T \in U PROVE T \cup {x} \in U
  <2>1. IsFiniteSet(T) /\ \A y \in T \cup {x}: f[y] \in Int /\ g[y] \in Int /\ f[y] <= g[y]
    BY FS_Subset
  <2>2. /\ Total(f, T \cup {x}) = Total(f, T) + f[x] /\ Total(f, T) \in Int
        /\ Total(g, T \cup {x}) = Total(g, T) + g[x] /\ Total(g, T) \in Int
    BY <2>1, TotalAdd
  <2>3. Total(f, T) <= Total(g, T)
    BY <1>2
  <2>4. QED BY <2>1, <2>2, <2>3
<1>3. S \in U
  <2> HIDE DEF U
  <2>1. QED BY <1>1, <1>2, ByElement
<1>4. QED BY <1>3

\* Summand by summand the sum of two.
LEMMA TotalPlus ==
    ASSUME NEW f, NEW g, NEW h, NEW S, IsFiniteSet(S),
           \A x \in S: f[x] \in Int /\ g[x] \in Int /\ h[x] = f[x] + g[x]
    PROVE  Total(h, S) = Total(f, S) + Total(g, S)
<1> DEFINE U == {s \in SUBSET S: Total(h, s) = Total(f, s) + Total(g, s)}
<1>1. {} \in U
  BY TotalEmpty
<1>2. ASSUME NEW T \in SUBSET S, NEW x \in S \ T, T \in U PROVE T \cup {x} \in U
  <2>1. /\ IsFiniteSet(T)
        /\ \A y \in T \cup {x}: f[y] \in Int /\ g[y] \in Int /\ h[y] \in Int /\ h[y] = f[y] + g[y]
    BY FS_Subset
  <2>2. /\ Total(f, T \cup {x}) = Total(f, T) + f[x] /\ Total(f, T) \in Int
        /\ Total(g, T \cup {x}) = Total(g, T) + g[x] /\ Total(g, T) \in Int
        /\ Total(h, T \cup {x}) = Total(h, T) + h[x] /\ Total(h, T) \in Int
    BY <2>1, TotalAdd
  <2>3. Total(h, T) = Total(f, T) + Total(g, T)
    BY <1>2
  <2>4. QED BY <2>1, <2>2, <2>3
<1>3. S \in U
  <2> HIDE DEF U
  <2>1. QED BY <1>1, <1>2, ByElement
<1>4. QED BY <1>3

\* A sum of equal summands.
LEMMA TotalConstant ==
    ASSUME NEW f, NEW S, IsFiniteSet(S), NEW c \in Int, \A x \in S: f[x] = c
    PROVE  Total(f, S) = c * Cardinality(S)
<1> DEFINE U == {s \in SUBSET S: Total(f, s) = c * Cardinality(s)}
<1>1. {} \in U
  BY TotalEmpty, FS_EmptySet
<1>2. ASSUME NEW T \in SUBSET S, NEW x \in S \ T, T \in U PROVE T \cup {x} \in U
  <2>1. IsFiniteSet(T) /\ Cardinality(T) \in Nat
    BY FS_Subset, FS_CardinalityType
  <2>2. Total(f, T \cup {x}) = Total(f, T) + f[x]
    BY <2>1, TotalAdd
  <2>3. Cardinality(T \cup {x}) = Cardinality(T) + 1
    BY <2>1, FS_AddElement
  <2>4. Total(f, T \cup {x}) = c * Cardinality(T) + c
    BY <1>2, <2>2
  <2>5. c * (Cardinality(T) + 1) = c * Cardinality(T) + c
    BY <2>1
  <2>6. QED BY <2>3, <2>4, <2>5
<1>3. S \in U
  <2> HIDE DEF U
  <2>1. QED BY <1>1, <1>2, ByElement
<1>4. QED BY <1>3

\* Naturals sum up to a natural.
LEMMA TotalNat ==
    ASSUME NEW f, NEW S, IsFiniteSet(S), \A x \in S: f[x] \in Nat
    PROVE  Total(f, S) \in Nat
<1> DEFINE zero == [x \in S |-> 0]
<1>1. Total(zero, S) = 0 * Cardinality(S)
  BY TotalConstant
<1>2. Cardinality(S) \in Nat
  BY FS_CardinalityType
<1>3. Total(zero, S) <= Total(f, S)
  BY TotalLe
<1>4. Total(f, S) \in Int
  BY TotalInt
<1>5. QED BY <1>1, <1>2, <1>3, <1>4

\* A summand is not greater than the sum.
LEMMA TotalHolds ==
    ASSUME NEW f, NEW S, IsFiniteSet(S), \A x \in S: f[x] \in Nat, NEW e \in S
    PROVE  f[e] <= Total(f, S)
<1>1. Total(f, S) = f[e] + Total(f, S \ {e})
  BY TotalTakeOut
<1>2. IsFiniteSet(S \ {e})
  BY FS_RemoveElement
<1>3. Total(f, S \ {e}) \in Nat
  BY <1>2, TotalNat
<1>4. QED BY <1>1, <1>3

\* One summand changes.
LEMMA TotalChange ==
    ASSUME NEW f, NEW g, NEW S, IsFiniteSet(S), NEW e \in S,
           \A x \in S: f[x] \in Int /\ g[x] \in Int,
           \A x \in S \ {e}: f[x] = g[x]
    PROVE  Total(g, S) = Total(f, S) - f[e] + g[e]
<1>1. IsFiniteSet(S \ {e})
  BY FS_RemoveElement
<1>2. Total(f, S \ {e}) = Total(g, S \ {e})
  BY <1>1, TotalSame
<1>3. Total(f, S) = f[e] + Total(f, S \ {e}) /\ Total(g, S) = g[e] + Total(g, S \ {e})
  BY TotalTakeOut
<1>4. Total(f, S \ {e}) \in Int
  BY <1>1, TotalInt
<1>5. QED BY <1>2, <1>3, <1>4

\* A part sums up to no more than the whole.
LEMMA TotalPart ==
    ASSUME NEW f, NEW S, IsFiniteSet(S), \A x \in S: f[x] \in Nat, NEW T \in SUBSET S
    PROVE  Total(f, T) <= Total(f, S)
<1> DEFINE g == [x \in S |-> IF x \in T THEN f[x] ELSE 0]
           U == {s \in SUBSET S: Total(g, s) = Total(f, s \cap T)}
<1>1. {} \in U
  <2>1. {} \cap T = {}
    OBVIOUS
  <2>2. QED BY <2>1, TotalEmpty
<1>2. ASSUME NEW s \in SUBSET S, NEW x \in S \ s, s \in U PROVE s \cup {x} \in U
  <2>1. IsFiniteSet(s) /\ IsFiniteSet(s \cap T)
    BY FS_Subset
  <2>2. Total(g, s \cup {x}) = Total(g, s) + g[x] /\ Total(g, s) \in Int
    BY <2>1, TotalAdd
  <2>3. CASE x \in T
    <3>1. (s \cup {x}) \cap T = (s \cap T) \cup {x} /\ x \notin s \cap T
      BY <2>3
    <3>2. \A y \in s \cap T: f[y] \in Int
      OBVIOUS
    <3>3. \A R: R = s \cap T => Total(f, R \cup {x}) = Total(f, R) + f[x]
      BY <2>1, <3>1, <3>2, TotalAdd
    <3>4. Total(f, (s \cap T) \cup {x}) = Total(f, s \cap T) + f[x]
      BY <3>3
    <3>5. QED BY <1>2, <2>2, <2>3, <3>1, <3>4
  <2>4. CASE x \notin T
    <3>1. (s \cup {x}) \cap T = s \cap T
      BY <2>4
    <3>2. QED BY <1>2, <2>2, <2>4, <3>1
  <2>5. QED BY <2>3, <2>4
<1>3. S \in U
  <2> HIDE DEF U
  <2>1. QED BY <1>1, <1>2, ByElement
<1>4. S \cap T = T
  OBVIOUS
<1>5. Total(g, S) = Total(f, T)
  BY <1>3, <1>4
<1>6. Total(g, S) <= Total(f, S)
  BY TotalLe
<1>7. QED BY <1>5, <1>6

\* What was one place to the left: the sum over an interval that lost its last
\* summand and got a 0 in front.
LEMMA TotalShifted ==
    ASSUME NEW m \in Nat \ {0}, NEW f, NEW g,
           \A a \in 0..(m - 1): f[a] \in Nat,
           \A a \in 0..(m - 1): g[a] = IF a = 0 THEN 0 ELSE f[a - 1]
    PROVE  Total(g, 0..(m - 1)) <= Total(f, 0..(m - 1))
<1> DEFINE U == {n \in Nat: n <= m - 1 =>
                   /\ Total(g, 0..n) \in Int /\ Total(f, 0..n) \in Int
                   /\ Total(g, 0..n) = Total(f, 0..n) - f[n]}
<1>1. \A n \in Nat: IsFiniteSet(0..n)
  BY FS_Interval
<1>2. 0 \in U
  <2>1. 0..0 = {} \cup {0}
    OBVIOUS
  <2>2. Total(g, 0..0) = Total(g, {}) + g[0] /\ Total(f, 0..0) = Total(f, {}) + f[0]
    BY <2>1, TotalAdd, FS_EmptySet
  <2>3. QED BY <2>2, TotalEmpty
<1>3. ASSUME NEW n \in Nat, n \in U PROVE n + 1 \in U
  <2> SUFFICES ASSUME n + 1 <= m - 1
      PROVE  /\ Total(g, 0..(n + 1)) \in Int /\ Total(f, 0..(n + 1)) \in Int
             /\ Total(g, 0..(n + 1)) = Total(f, 0..(n + 1)) - f[n + 1]
    OBVIOUS
  <2>1. 0..(n + 1) = (0..n) \cup {n + 1} /\ n + 1 \notin 0..n
    OBVIOUS
  <2>2. \A a \in 0..(n + 1): f[a] \in Nat /\ g[a] \in Nat
    OBVIOUS
  <2>3. /\ Total(g, 0..(n + 1)) = Total(g, 0..n) + g[n + 1]
        /\ Total(f, 0..(n + 1)) = Total(f, 0..n) + f[n + 1]
    <3> DEFINE I == 0..n
    <3>1. IsFiniteSet(I) /\ n + 1 \notin I
      BY <1>1, <2>1
    <3>2. \A a \in I: f[a] \in Int /\ g[a] \in Int
      BY <2>1, <2>2
    <3>3. f[n + 1] \in Int /\ g[n + 1] \in Int
      BY <2>1, <2>2
    <3> HIDE DEF I
    <3>4. \A h: (\A a \in I: h[a] \in Int) /\ h[n + 1] \in Int
            => Total(h, I \cup {n + 1}) = Total(h, I) + h[n + 1]
      BY <3>1, TotalAdd
    <3>5. /\ Total(g, I \cup {n + 1}) = Total(g, I) + g[n + 1]
          /\ Total(f, I \cup {n + 1}) = Total(f, I) + f[n + 1]
      BY <3>2, <3>3, <3>4
    <3>6. QED BY <2>1, <3>5 DEF I
  <2>4. /\ Total(g, 0..n) \in Int /\ Total(f, 0..n) \in Int
        /\ Total(g, 0..n) = Total(f, 0..n) - f[n]
    BY <1>3
  <2>5. g[n + 1] = f[n] /\ f[n] \in Nat /\ f[n + 1] \in Nat
    OBVIOUS
  <2>6. QED BY <2>3, <2>4, <2>5
<1>4. m - 1 \in U
  <2>1. Nat \subseteq U
    <3> HIDE DEF U
    <3>1. QED BY <1>2, <1>3, EveryNatural
  <2>2. QED BY <2>1
<1>5. QED BY <1>4

---------------------------------------------------------------------------
(***************************************************************************)
(* Sums over parts.                                                        *)
(***************************************************************************)
\* Two sets without a common element sum up separately.
LEMMA TotalUnion ==
    ASSUME NEW f, NEW S, NEW T, IsFiniteSet(S), IsFiniteSet(T), S \cap T = {},
           \A x \in S \cup T: f[x] \in Int
    PROVE  Total(f, S \cup T) = Total(f, S) + Total(f, T)
<1> DEFINE U == {R \in SUBSET T: Total(f, S \cup R) = Total(f, S) + Total(f, R)}
<1>1. {} \in U
  <2>1. S \cup {} = S /\ Total(f, {}) = 0 /\ Total(f, S) \in Int
    BY TotalEmpty, TotalInt
  <2>2. QED BY <2>1
<1>2. ASSUME NEW R \in SUBSET T, NEW x \in T \ R, R \in U
      PROVE  R \cup {x} \in U
  <2>1. IsFiniteSet(R) /\ IsFiniteSet(S \cup R) /\ x \notin R /\ x \notin S \cup R /\ f[x] \in Int
    BY FS_Subset, FS_Union
  <2>2. \A y \in R: f[y] \in Int
    OBVIOUS
  <2>3. \A y \in S \cup R: f[y] \in Int
    OBVIOUS
  <2>4. Total(f, R \cup {x}) = Total(f, R) + f[x] /\ Total(f, R) \in Int
    BY <2>1, <2>2, TotalAdd
  <2>5. Total(f, (S \cup R) \cup {x}) = Total(f, S \cup R) + f[x] /\ Total(f, S \cup R) \in Int
    BY <2>1, <2>3, TotalAdd
  <2>6. (S \cup R) \cup {x} = S \cup (R \cup {x}) /\ Total(f, S) \in Int /\ R \cup {x} \in SUBSET T
    BY TotalInt
  <2>7. Total(f, S \cup R) = Total(f, S) + Total(f, R)
    BY <1>2
  <2>8. Total(f, S \cup (R \cup {x})) = Total(f, S \cup R) + f[x]
    BY <2>5, <2>6
  <2>9. Total(f, S \cup (R \cup {x})) = Total(f, S) + Total(f, R \cup {x})
    BY <2>1, <2>4, <2>6, <2>7, <2>8
  <2>10. QED BY <2>6, <2>9
<1> HIDE DEF U
<1>3. T \in U
  BY <1>1, <1>2, ByElement
<1>4. QED BY <1>3 DEF U

\* A common factor.
LEMMA TotalTimes ==
    ASSUME NEW f, NEW g, NEW S, IsFiniteSet(S), NEW c \in Int,
           \A x \in S: f[x] \in Int /\ g[x] = c * f[x]
    PROVE  Total(g, S) = c * Total(f, S)
<1> DEFINE U == {R \in SUBSET S: Total(g, R) = c * Total(f, R)}
<1>1. {} \in U
  BY TotalEmpty
<1>2. ASSUME NEW R \in SUBSET S, NEW x \in S \ R, R \in U
      PROVE  R \cup {x} \in U
  <2>1. IsFiniteSet(R) /\ x \notin R /\ f[x] \in Int /\ g[x] = c * f[x] /\ g[x] \in Int
    BY FS_Subset
  <2>2. \A y \in R: f[y] \in Int /\ g[y] \in Int
    OBVIOUS
  <2>3. Total(f, R \cup {x}) = Total(f, R) + f[x] /\ Total(f, R) \in Int
    BY <2>1, <2>2, TotalAdd
  <2>4. Total(g, R \cup {x}) = Total(g, R) + g[x]
    BY <2>1, <2>2, TotalAdd
  <2>5. \A a, b \in Int: c * (a + b) = c * a + c * b
    OBVIOUS
  <2>6. Total(g, R) = c * Total(f, R)
    BY <1>2
  <2>7. QED BY <2>1, <2>3, <2>4, <2>5, <2>6
<1> HIDE DEF U
<1>3. S \in U
  BY <1>1, <1>2, ByElement
<1>4. QED BY <1>3 DEF U

\* Summand by summand not greater, and one summand less.
LEMMA TotalLess ==
    ASSUME NEW f, NEW g, NEW S, IsFiniteSet(S),
           \A x \in S: f[x] \in Int /\ g[x] \in Int /\ f[x] <= g[x],
           NEW e \in S, f[e] < g[e]
    PROVE  Total(f, S) < Total(g, S)
<1>1. IsFiniteSet(S \ {e}) /\ \A x \in S \ {e}: f[x] \in Int /\ g[x] \in Int /\ f[x] <= g[x]
  BY FS_RemoveElement
<1>2. Total(f, S \ {e}) <= Total(g, S \ {e})
  BY <1>1, TotalLe
<1>3. \A x \in S: f[x] \in Int
  OBVIOUS
<1>4. \A x \in S: g[x] \in Int
  OBVIOUS
<1>5. Total(f, S) = f[e] + Total(f, S \ {e})
  BY <1>3, TotalTakeOut
<1>6. Total(g, S) = g[e] + Total(g, S \ {e})
  BY <1>4, TotalTakeOut
<1>7. Total(f, S \ {e}) \in Int /\ Total(g, S \ {e}) \in Int
  BY <1>1, TotalInt
<1>8. QED BY <1>2, <1>5, <1>6, <1>7

(***************************************************************************)
(* Counting by groups: what the groups sum up to is the sum of the whole.  *)
(***************************************************************************)
\* k says which group an element is in.
Fiber(S, k, v) == {x \in S: k[x] = v}

\* A sum is the sum over the groups, where h holds the sum of each.
LEMMA TotalFibers ==
    ASSUME NEW f, NEW k, NEW h, NEW S, IsFiniteSet(S), NEW V, IsFiniteSet(V),
           \A x \in S: f[x] \in Int /\ k[x] \in V,
           \A v \in V: h[v] = Total(f, Fiber(S, k, v))
    PROVE  Total(h, V) = Total(f, S)
<1> DEFINE In(T) == {x \in S: k[x] \in T}
           U == {T \in SUBSET V: Total(h, T) = Total(f, In(T))}
<1>1. {} \in U
  <2>1. In({}) = {}
    OBVIOUS
  <2>2. QED BY <2>1, TotalEmpty
<1>2. ASSUME NEW T \in SUBSET V, NEW v \in V \ T, T \in U
      PROVE  T \cup {v} \in U
  <2> DEFINE F == Fiber(S, k, v)
  <2>1. /\ In(T \cup {v}) = In(T) \cup F /\ In(T) \cap F = {}
        /\ In(T) \in SUBSET S /\ F \in SUBSET S
    BY DEF Fiber
  <2>2. IsFiniteSet(In(T)) /\ IsFiniteSet(F) /\ IsFiniteSet(T)
    BY <2>1, FS_Subset
  <2> HIDE DEF In, F
  <2>3. \A x \in In(T) \cup F: f[x] \in Int
    BY <2>1
  <2>4. Total(f, In(T) \cup F) = Total(f, In(T)) + Total(f, F)
    BY <2>1, <2>2, <2>3, TotalUnion
  <2>5. ASSUME NEW w \in V PROVE h[w] \in Int
    <3>1. Fiber(S, k, w) \in SUBSET S /\ IsFiniteSet(Fiber(S, k, w))
      BY FS_Subset DEF Fiber
    <3>2. \A x \in Fiber(S, k, w): f[x] \in Int
      BY <3>1
    <3>3. QED BY <3>1, <3>2, TotalInt
  <2>6. Total(h, T \cup {v}) = Total(h, T) + h[v]
    <3>1. \A x \in T: h[x] \in Int
      BY <2>5
    <3>2. v \notin T /\ h[v] \in Int
      BY <2>5
    <3>3. QED BY <2>2, <3>1, <3>2, TotalAdd
  <2>7. h[v] = Total(f, F) /\ Total(h, T) = Total(f, In(T))
    BY <1>2 DEF F
  <2>8. Total(h, T \cup {v}) = Total(f, In(T \cup {v}))
    BY <2>1, <2>4, <2>6, <2>7
  <2>9. QED BY <2>8
<1> HIDE DEF U
<1>3. V \in U
  BY <1>1, <1>2, ByElement
<1>4. In(V) = S
  OBVIOUS
<1>5. QED BY <1>3, <1>4 DEF U

\* One for each element is the number of elements.
LEMMA CardinalityIsTotal ==
    ASSUME NEW S, IsFiniteSet(S) PROVE Total([x \in S |-> 1], S) = Cardinality(S)
<1> DEFINE f == [x \in S |-> 1]
<1>1. \A x \in S: f[x] = 1
  OBVIOUS
<1> HIDE DEF f
<1>2. Total(f, S) = 1 * Cardinality(S) /\ Cardinality(S) \in Nat
  BY <1>1, TotalConstant, FS_CardinalityType
<1>3. QED BY <1>2 DEF f

\* The elements are those of the groups, where h holds the size of each.
LEMMA CardinalityFibers ==
    ASSUME NEW k, NEW h, NEW S, IsFiniteSet(S), NEW V, IsFiniteSet(V),
           \A x \in S: k[x] \in V,
           \A v \in V: h[v] = Cardinality(Fiber(S, k, v))
    PROVE  Total(h, V) = Cardinality(S)
<1> DEFINE f == [x \in S |-> 1]
<1>1. ASSUME NEW v \in V PROVE h[v] = Total(f, Fiber(S, k, v))
  <2>1. Fiber(S, k, v) \in SUBSET S /\ IsFiniteSet(Fiber(S, k, v))
    BY FS_Subset DEF Fiber
  <2>2. \A x \in Fiber(S, k, v): f[x] = 1
    BY <2>1
  <2> HIDE DEF f
  <2>3. Total(f, Fiber(S, k, v)) = 1 * Cardinality(Fiber(S, k, v)) /\ Cardinality(Fiber(S, k, v)) \in Nat
    BY <2>1, <2>2, TotalConstant, FS_CardinalityType
  <2>4. QED BY <2>3
<1>2. \A x \in S: f[x] \in Int /\ k[x] \in V
  OBVIOUS
<1>3. Total(f, S) = Cardinality(S)
  BY CardinalityIsTotal
<1> HIDE DEF f
<1>4. Total(h, V) = Total(f, S)
  BY <1>1, <1>2, TotalFibers
<1>5. QED BY <1>3, <1>4

\* The partners of an element in a relation, on either side.
RowOf(R, V, s) == {v \in V: <<s, v>> \in R}
ColumnOf(R, S, v) == {s \in S: <<s, v>> \in R}

\* Counting the pairs of a relation by either side.
LEMMA CountedTwice ==
    ASSUME NEW S, IsFiniteSet(S), NEW V, IsFiniteSet(V), NEW R, NEW f, NEW g,
           \A s \in S: f[s] = Cardinality(RowOf(R, V, s)),
           \A v \in V: g[v] = Cardinality(ColumnOf(R, S, v))
    PROVE  Total(f, S) = Total(g, V)
<1>a. /\ \A s \in S: f[s] = Cardinality({v \in V: <<s, v>> \in R})
      /\ \A v \in V: g[v] = Cardinality({s \in S: <<s, v>> \in R})
  BY DEF RowOf, ColumnOf
<1> DEFINE G(T) == [v \in V |-> Cardinality({s \in T: <<s, v>> \in R})]
           U == {T \in SUBSET S: Total(f, T) = Total(G(T), V)}
<1>1. {} \in U
  <2>1. ASSUME NEW v \in V PROVE G({})[v] = 0
    <3>1. {s \in {}: <<s, v>> \in R} = {}
      OBVIOUS
    <3>2. QED BY <3>1, FS_EmptySet
  <2> HIDE DEF G
  <2>2. Total(G({}), V) = 0 * Cardinality(V) /\ Cardinality(V) \in Nat
    BY <2>1, TotalConstant, FS_CardinalityType
  <2>3. QED BY <2>2, TotalEmpty
<1>2. ASSUME NEW T \in SUBSET S, NEW e \in S \ T, T \in U
      PROVE  T \cup {e} \in U
  <2> DEFINE Q == {v \in V: <<e, v>> \in R}
             one == [v \in V |-> IF v \in Q THEN 1 ELSE 0]
  <2>1. IsFiniteSet(T) /\ IsFiniteSet(Q) /\ Q \in SUBSET V
    BY FS_Subset
  <2>2. Total(one, V) = Cardinality(Q)
    <3>1. IsFiniteSet(V \ Q) /\ V = Q \cup (V \ Q) /\ Q \cap (V \ Q) = {}
      BY <2>1, FS_Subset
    <3>2. /\ \A v \in Q: one[v] = 1
          /\ \A v \in V \ Q: one[v] = 0
          /\ \A v \in Q \cup (V \ Q): one[v] \in Int
      OBVIOUS
    <3> HIDE DEF one, Q
    <3>3. Total(one, Q) = 1 * Cardinality(Q) /\ Cardinality(Q) \in Nat
      BY <2>1, <3>2, TotalConstant, FS_CardinalityType
    <3>4. Total(one, V \ Q) = 0 * Cardinality(V \ Q) /\ Cardinality(V \ Q) \in Nat
      BY <3>1, <3>2, TotalConstant, FS_CardinalityType
    <3>5. Total(one, Q \cup (V \ Q)) = Total(one, Q) + Total(one, V \ Q)
      BY <2>1, <3>1, <3>2, TotalUnion
    <3>6. Total(one, V) = Total(one, Q) + Total(one, V \ Q)
      BY <3>1, <3>5
    <3>7. QED BY <3>3, <3>4, <3>6
  <2>3. ASSUME NEW v \in V
        PROVE  /\ G(T)[v] \in Int /\ one[v] \in Int
               /\ G(T \cup {e})[v] = G(T)[v] + one[v]
    <3> DEFINE A == {s \in T: <<s, v>> \in R}
               B == {s \in T \cup {e}: <<s, v>> \in R}
    <3>1. IsFiniteSet(A) /\ Cardinality(A) \in Nat /\ e \notin A
      BY <2>1, FS_Subset, FS_CardinalityType
    <3>0. /\ G(T)[v] = Cardinality(A) /\ G(T \cup {e})[v] = Cardinality(B)
          /\ one[v] = IF v \in Q THEN 1 ELSE 0
      OBVIOUS
    <3> HIDE DEF G, one
    <3>2. CASE v \in Q
      <4>1. B = A \cup {e}
        BY <3>2
      <4>2. Cardinality(A \cup {e}) = Cardinality(A) + 1
        BY <3>1, FS_AddElement
      <4> HIDE DEF A, B
      <4>3. QED BY <3>0, <3>1, <3>2, <4>1, <4>2
    <3>3. CASE v \notin Q
      <4>1. B = A
        BY <3>3
      <4> HIDE DEF A, B
      <4>2. QED BY <3>0, <3>1, <3>3, <4>1
    <3>4. QED BY <3>2, <3>3
  <2>4. f[e] = Cardinality(Q) /\ Cardinality(Q) \in Nat
    BY <1>a, <2>1, FS_CardinalityType
  <2> HIDE DEF Q, one, G
  <2>5. Total(G(T \cup {e}), V) = Total(G(T), V) + Total(one, V)
    <3> DEFINE p == G(T)
               q == G(T \cup {e})
    <3>1. \A v \in V: p[v] \in Int /\ one[v] \in Int /\ q[v] = p[v] + one[v]
      BY <2>3
    <3> HIDE DEF p, q
    <3>3. Total(q, V) = Total(p, V) + Total(one, V)
      BY <3>1, TotalPlus
    <3>4. QED BY <3>3 DEF p, q
  <2>6. \A s \in T: f[s] \in Int
    <3>1. ASSUME NEW s \in T PROVE f[s] \in Int
      <4>1. f[s] = Cardinality({v \in V: <<s, v>> \in R})
        BY <1>a
      <4>2. {v \in V: <<s, v>> \in R} \in SUBSET V
        OBVIOUS
      <4>3. Cardinality({v \in V: <<s, v>> \in R}) \in Nat
        BY <4>2, FS_Subset, FS_CardinalityType
      <4>4. QED BY <4>1, <4>3
    <3>2. QED BY <3>1
  <2>7. Total(f, T \cup {e}) = Total(f, T) + f[e]
    <3>1. e \notin T /\ f[e] \in Int
      BY <2>4
    <3>2. QED BY <2>1, <2>6, <3>1, TotalAdd
  <2>8. Total(f, T) = Total(G(T), V)
    BY <1>2
  <2>9. Total(f, T \cup {e}) = Total(G(T \cup {e}), V)
    BY <2>2, <2>4, <2>5, <2>7, <2>8
  <2>10. QED BY <2>9
<1>3. S \in U
  <2> HIDE DEF U
  <2>1. QED BY <1>1, <1>2, ByElement
<1>4. \A v \in V: G(S)[v] = g[v]
  BY <1>a
<1>5. \A v \in V: G(S)[v] \in Int
  <2>1. ASSUME NEW v \in V PROVE G(S)[v] \in Int
    <3>1. {s \in S: <<s, v>> \in R} \in SUBSET S
      OBVIOUS
    <3>2. Cardinality({s \in S: <<s, v>> \in R}) \in Nat
      BY <3>1, FS_Subset, FS_CardinalityType
    <3>3. QED BY <3>2
  <2>2. QED BY <2>1
<1> HIDE DEF G
<1>6. Total(G(S), V) = Total(g, V)
  BY <1>4, <1>5, TotalSame
<1>7. QED BY <1>3, <1>6

=============================================================================
