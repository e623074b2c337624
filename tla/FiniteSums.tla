------------------------------ MODULE FiniteSums ------------------------------
(***************************************************************************)
(* Facts about SumFunctionOnSet, the sum of a function over a finite set   *)
(* of its arguments, which balances and payments are counted with.         *)
(*                                                                         *)
(* The sum is defined by recursion on subsets.  It is shown to exist and   *)
(* to be unique for each finite set by looking at a smallest set for which *)
(* it would not; from there on only its two equations are used.            *)
(***************************************************************************)
EXTENDS Integers, FiniteSets, Functions, FiniteSetTheorems, WellFoundedInduction, TLAPS

Pick(T) == CHOOSE x \in T : TRUE

(* g is the recursive function that the sum of f over S is a value of. *)
Unrolls(f, S, g) ==
    g = [T \in SUBSET S |-> IF T = {} THEN 0 ELSE f[Pick(T)] + g[T \ {Pick(T)}]]

SumsIn(f, S) == CHOOSE g : Unrolls(f, S, g)

(* The sum over S is the value at S of a recursive function on the subsets *)
(* of S.                                                                   *)
LEMMA SumUnfolds ==
    ASSUME NEW f, NEW S
    PROVE  SumFunctionOnSet(f, S) = SumsIn(f, S)[S]
BY DEF SumFunctionOnSet, FoldFunctionOnSet, MapThenFoldSet, SumsIn, Unrolls, Pick

(* Of some subsets of a finite set, one has none of the others inside. *)
LEMMA SmallestSubset ==
    ASSUME NEW S, IsFiniteSet(S), NEW C, C \subseteq SUBSET S, C # {}
    PROVE  \E T \in C : \A U \in C : U \subseteq T => U = T
<1>1. IsWellFoundedOn(StrictSubsetOrdering(S), SUBSET S)
  BY FS_StrictSubsetOrderingWellFounded, FS_FiniteSubsetsOfFinite
<1> DEFINE R == StrictSubsetOrdering(S)
<1>2. \A U, T \in SUBSET S : U \subseteq T /\ U # T => <<U, T>> \in R
  BY DEF StrictSubsetOrdering
<1> HIDE DEF R
<1>3. PICK T \in C : \A U \in C : ~(<<U, T>> \in R)
  BY <1>1, WFMin DEF R
<1> QED BY <1>2, <1>3

LEMMA PickIn ==
    ASSUME NEW T, T # {}
    PROVE  Pick(T) \in T
BY DEF Pick

(* The two equations of a recursive function. *)
LEMMA UnrollsAt ==
    ASSUME NEW f, NEW S, NEW g, Unrolls(f, S, g)
    PROVE  /\ g[{}] = 0
           /\ \A T \in SUBSET S : T # {} => g[T] = f[Pick(T)] + g[T \ {Pick(T)}]
<1>1. \A T \in SUBSET S : g[T] = IF T = {} THEN 0 ELSE f[Pick(T)] + g[T \ {Pick(T)}]
  BY Zenon DEF Unrolls
<1>2. {} \in SUBSET S
  OBVIOUS
<1> QED BY <1>1, <1>2

(* There is at most one. *)
LEMMA UnrollsOnce ==
    ASSUME NEW f, NEW S, IsFiniteSet(S), NEW g, NEW h, Unrolls(f, S, g), Unrolls(f, S, h)
    PROVE  \A T \in SUBSET S : g[T] = h[T]
<1> DEFINE C == {T \in SUBSET S : g[T] # h[T]}
<1>1. SUFFICES ASSUME C # {} PROVE FALSE
  OBVIOUS
<1>2. PICK T \in C : \A U \in C : U \subseteq T => U = T
  <2>1. C \subseteq SUBSET S
    OBVIOUS
  <2> HIDE DEF C
  <2> QED BY <1>1, <2>1, SmallestSubset
<1>3. T # {}
  BY <1>2, UnrollsAt
<1> DEFINE U == T \ {Pick(T)}
<1>4. U \in SUBSET S /\ U \subseteq T /\ U # T
  BY <1>2, <1>3, PickIn
<1>5. g[U] = h[U]
  BY <1>2, <1>4
<1>6. g[T] = f[Pick(T)] + g[U] /\ h[T] = f[Pick(T)] + h[U]
  BY <1>2, <1>3, UnrollsAt
<1> QED BY <1>2, <1>5, <1>6

LEMMA UnrollsWithin ==
    ASSUME NEW f, NEW S, NEW g, Unrolls(f, S, g), NEW R \in SUBSET S
    PROVE  Unrolls(f, R, [T \in SUBSET R |-> g[T]])
<1> DEFINE h == [T \in SUBSET R |-> g[T]]
           Next(T) == IF T = {} THEN 0 ELSE f[Pick(T)] + h[T \ {Pick(T)}]
<1>1. ASSUME NEW T \in SUBSET R
      PROVE  h[T] = Next(T)
  <2>1. CASE T = {}
    BY <2>1, UnrollsAt
  <2>2. CASE T # {}
    <3>1. g[T] = f[Pick(T)] + g[T \ {Pick(T)}]
      BY <2>2, UnrollsAt
    <3>2. h[T \ {Pick(T)}] = g[T \ {Pick(T)}]
      OBVIOUS
    <3> QED BY <2>2, <3>1, <3>2
  <2> QED BY <2>1, <2>2
<1>2. h = [T \in SUBSET R |-> h[T]]
  OBVIOUS
<1> HIDE DEF h
<1>3. h = [T \in SUBSET R |-> Next(T)]
  BY <1>1, <1>2
<1>4. Unrolls(f, R, h)
  BY <1>3 DEF Unrolls
<1> QED BY <1>4 DEF h

(* For a finite set this recursive function exists: SumsIn obeys its       *)
(* equations.                                                              *)
LEMMA SumsAreUnrolled ==
    ASSUME NEW f, NEW S, IsFiniteSet(S)
    PROVE  Unrolls(f, S, SumsIn(f, S))
<1> DEFINE Has(T) == \E g : Unrolls(f, T, g)
           C == {T \in SUBSET S : ~Has(T)}
<1>1. SUFFICES ASSUME C # {} PROVE FALSE
  <2>1. Has(S) => Unrolls(f, S, SumsIn(f, S))
    BY DEF SumsIn
  <2> HIDE DEF Has
  <2> QED BY <2>1
<1>2. PICK T \in C : \A U \in C : U \subseteq T => U = T
  <2>1. C \subseteq SUBSET S
    OBVIOUS
  <2> HIDE DEF C
  <2> QED BY <1>1, <2>1, SmallestSubset
<1> DEFINE V(U) == SumsIn(f, U)[U]
           g == [U \in SUBSET T |-> IF U = {} THEN 0 ELSE f[Pick(U)] + V(U \ {Pick(U)})]
<1>3. ASSUME NEW U \in SUBSET T, U # T
      PROVE  Unrolls(f, U, SumsIn(f, U))
  <2>1. Has(U)
    <3> HIDE DEF Has
    <3> QED BY <1>2, <1>3
  <2> QED BY <2>1 DEF SumsIn
<1>4. ASSUME NEW U \in SUBSET T, U # T
      PROVE  V(U) = g[U]
  <2> DEFINE h == SumsIn(f, U)
  <2>1. Unrolls(f, U, h)
    BY <1>3, <1>4
  <2> HIDE DEF h
  <2>2. CASE U = {}
    <3>1. h[{}] = 0
      BY <2>1, UnrollsAt
    <3> QED BY <2>2, <3>1 DEF h
  <2>3. CASE U # {}
    <3> DEFINE W == U \ {Pick(U)}
               w == [X \in SUBSET W |-> h[X]]
    <3>1. W \in SUBSET U /\ W \in SUBSET T /\ W # T /\ IsFiniteSet(W)
      <4>1. W \in SUBSET U /\ W # U
        BY <2>3, PickIn
      <4>2. U \in SUBSET T
        OBVIOUS
      <4>3. W \in SUBSET S
        BY <1>2
      <4>4. IsFiniteSet(W)
        BY <4>3, FS_Subset
      <4> HIDE DEF W
      <4> QED BY <4>1, <4>2, <4>4
    <3>2. h[U] = f[Pick(U)] + h[W]
      BY <2>1, <2>3, UnrollsAt
    <3> HIDE DEF W
    <3>3. Unrolls(f, W, w) /\ Unrolls(f, W, SumsIn(f, W))
      BY <1>3, <2>1, <3>1, UnrollsWithin
    <3>4. w[W] = V(W)
      <4> HIDE DEF w
      <4> QED BY <3>1, <3>3, UnrollsOnce
    <3>5. w[W] = h[W]
      OBVIOUS
    <3>6. g[U] = f[Pick(U)] + V(W)
      BY <2>3 DEF W
    <3> HIDE DEF g, V
    <3>7. h[U] = g[U]
      BY <3>2, <3>4, <3>5, <3>6
    <3> QED BY <3>7 DEF h, V
  <2> QED BY <2>2, <2>3
<1>5. ASSUME NEW U \in SUBSET T
      PROVE  g[U] = IF U = {} THEN 0 ELSE f[Pick(U)] + g[U \ {Pick(U)}]
  <2>1. CASE U = {}
    BY <2>1
  <2>2. CASE U # {}
    <3> DEFINE W == U \ {Pick(U)}
    <3>1. W \in SUBSET T /\ W # T
      <4>1. W \subseteq U /\ W # U
        BY <2>2, PickIn
      <4> HIDE DEF W
      <4> QED BY <4>1
    <3>2. V(W) = g[W]
      BY <1>4, <3>1
    <3>3. g[U] = f[Pick(U)] + V(W)
      BY <2>2
    <3> HIDE DEF g, V
    <3> QED BY <2>2, <3>2, <3>3
  <2> QED BY <2>1, <2>2
<1>6. g = [U \in SUBSET T |-> g[U]]
  OBVIOUS
<1> HIDE DEF g, V
<1>7. Unrolls(f, T, g)
  BY <1>5, <1>6 DEF Unrolls
<1>8. Has(T)
  BY <1>7
<1> HIDE DEF Has
<1> QED BY <1>2, <1>8

-----------------------------------------------------------------------------
(* What sums are, by one element and as a whole *)

(* The sum over nothing.                                                   *)
LEMMA SumEmpty == \A f : SumFunctionOnSet(f, {}) = 0
<1> SUFFICES ASSUME NEW f PROVE SumFunctionOnSet(f, {}) = 0
  OBVIOUS
<1>1. Unrolls(f, {}, SumsIn(f, {}))
  BY SumsAreUnrolled, FS_EmptySet
<1> QED BY <1>1, SumUnfolds, UnrollsAt

(* A sum is that of the set without the element picked, and that element.  *)
LEMMA SumPick ==
    ASSUME NEW f, NEW S, IsFiniteSet(S), S # {}
    PROVE  SumFunctionOnSet(f, S) = f[Pick(S)] + SumFunctionOnSet(f, S \ {Pick(S)})
<1> DEFINE R == S \ {Pick(S)}
           g == SumsIn(f, S)
           h == SumsIn(f, R)
           w == [T \in SUBSET R |-> g[T]]
<1>1. IsFiniteSet(R) /\ R \in SUBSET S
  BY FS_Subset
<1>2. g[S] = f[Pick(S)] + g[R]
  <2>1. Unrolls(f, S, g)
    BY SumsAreUnrolled
  <2> HIDE DEF g
  <2> QED BY <2>1, UnrollsAt
<1> HIDE DEF R
<1>3. Unrolls(f, R, h) /\ Unrolls(f, R, w)
  BY <1>1, SumsAreUnrolled, UnrollsWithin
<1>4. w[R] = h[R]
  <2> HIDE DEF w, h
  <2> QED BY <1>1, <1>3, UnrollsOnce
<1>5. w[R] = g[R]
  OBVIOUS
<1>6. SumFunctionOnSet(f, S) = g[S] /\ SumFunctionOnSet(f, R) = h[R]
  BY SumUnfolds
<1> HIDE DEF g, h, w
<1> QED BY <1>2, <1>4, <1>5, <1>6 DEF R

(* A sum of integers is one. *)
LEMMA SumType ==
    ASSUME NEW f, NEW S, IsFiniteSet(S), \A x \in S : f[x] \in Int
    PROVE  SumFunctionOnSet(f, S) \in Int
<1> DEFINE C == {T \in SUBSET S : SumFunctionOnSet(f, T) \notin Int}
<1>1. SUFFICES ASSUME C # {} PROVE FALSE
  OBVIOUS
<1>2. PICK T \in C : \A U \in C : U \subseteq T => U = T
  <2>1. C \subseteq SUBSET S
    OBVIOUS
  <2> HIDE DEF C
  <2> QED BY <1>1, <2>1, SmallestSubset
<1>3. T # {}
  BY <1>2, SumEmpty
<1> DEFINE p == Pick(T)
<1>4. p \in T /\ IsFiniteSet(T)
  BY <1>3, PickIn, FS_Subset
<1>5. SumFunctionOnSet(f, T) = f[p] + SumFunctionOnSet(f, T \ {p})
  BY <1>3, <1>4, SumPick
<1>6. SumFunctionOnSet(f, T \ {p}) \in Int
  <2> HIDE DEF p
  <2> QED BY <1>2, <1>4
<1>7. f[p] \in Int
  BY <1>4
<1> HIDE DEF p
<1> QED BY <1>2, <1>5, <1>6, <1>7

(* Any element may be counted first. *)
LEMMA SumSplit ==
    ASSUME NEW f, NEW S, IsFiniteSet(S), \A x \in S : f[x] \in Int, NEW x \in S
    PROVE  SumFunctionOnSet(f, S) = f[x] + SumFunctionOnSet(f, S \ {x})
<1> DEFINE Total(T) == SumFunctionOnSet(f, T)
           Splits(T) == \A y \in T : Total(T) = f[y] + Total(T \ {y})
           C == {T \in SUBSET S : ~Splits(T)}
<1>0. \A T \in SUBSET S : IsFiniteSet(T) /\ Total(T) \in Int
  BY FS_Subset, SumType
<1>1. SUFFICES ASSUME C # {} PROVE FALSE
  BY <1>1
<1>2. PICK T \in C : \A U \in C : U \subseteq T => U = T
  <2>1. C \subseteq SUBSET S
    OBVIOUS
  <2> HIDE DEF C
  <2> QED BY <1>1, <2>1, SmallestSubset
<1>3. PICK y \in T : Total(T) # f[y] + Total(T \ {y})
  BY <1>2
<1> DEFINE p == Pick(T)
<1>4. p \in T
  BY <1>3, PickIn
<1>5. Total(T) = f[p] + Total(T \ {p})
  BY <1>0, <1>2, <1>4, SumPick
<1>6. p # y
  BY <1>3, <1>5
<1> HIDE DEF p
<1> DEFINE both == (T \ {p}) \ {y}
<1>7. Total(T \ {p}) = f[y] + Total(both)
  <2>1. T \ {p} \in SUBSET S /\ T \ {p} \notin C
    BY <1>2, <1>4
  <2>2. y \in T \ {p}
    BY <1>6
  <2> HIDE DEF Total
  <2> QED BY <2>1, <2>2
<1>8. Total(T \ {y}) = f[p] + Total(both)
  <2>1. T \ {y} \in SUBSET S /\ T \ {y} \notin C
    BY <1>2, <1>3
  <2>2. p \in T \ {y} /\ (T \ {y}) \ {p} = both
    BY <1>4, <1>6
  <2> HIDE DEF Total, both
  <2> QED BY <2>1, <2>2
<1>9. both \in SUBSET S /\ T \ {p} \in SUBSET S /\ T \ {y} \in SUBSET S
  BY <1>2
<1>10. Total(both) \in Int /\ f[p] \in Int /\ f[y] \in Int
  BY <1>0, <1>2, <1>4, <1>9
<1> HIDE DEF Total, both
<1> QED BY <1>3, <1>5, <1>7, <1>8, <1>10

(* Only the values on the set count. *)
LEMMA SumSame ==
    ASSUME NEW f, NEW g, NEW S, IsFiniteSet(S), \A x \in S : f[x] = g[x]
    PROVE  SumFunctionOnSet(f, S) = SumFunctionOnSet(g, S)
<1> DEFINE C == {T \in SUBSET S : SumFunctionOnSet(f, T) # SumFunctionOnSet(g, T)}
<1>1. SUFFICES ASSUME C # {} PROVE FALSE
  OBVIOUS
<1>2. PICK T \in C : \A U \in C : U \subseteq T => U = T
  <2>1. C \subseteq SUBSET S
    OBVIOUS
  <2> HIDE DEF C
  <2> QED BY <1>1, <2>1, SmallestSubset
<1>3. T # {}
  BY <1>2, SumEmpty
<1> DEFINE p == Pick(T)
<1>4. p \in T /\ IsFiniteSet(T)
  BY <1>3, PickIn, FS_Subset
<1>5. /\ SumFunctionOnSet(f, T) = f[p] + SumFunctionOnSet(f, T \ {p})
      /\ SumFunctionOnSet(g, T) = g[p] + SumFunctionOnSet(g, T \ {p})
  BY <1>3, <1>4, SumPick
<1>6. SumFunctionOnSet(f, T \ {p}) = SumFunctionOnSet(g, T \ {p})
  <2> HIDE DEF p
  <2> QED BY <1>2, <1>4
<1>7. f[p] = g[p]
  BY <1>4
<1> HIDE DEF p
<1> QED BY <1>2, <1>5, <1>6, <1>7

(* A sum changes by as much as its only value that does. *)
LEMMA SumChange ==
    ASSUME NEW f, NEW g, NEW S, IsFiniteSet(S), NEW x \in S,
           \A y \in S : f[y] \in Int /\ g[y] \in Int,
           \A y \in S \ {x} : f[y] = g[y]
    PROVE  SumFunctionOnSet(f, S) = SumFunctionOnSet(g, S) - g[x] + f[x]
<1> DEFINE R == S \ {x}
<1>1. R \in SUBSET S /\ IsFiniteSet(R)
  BY FS_Subset
<1>2. SumFunctionOnSet(f, R) = SumFunctionOnSet(g, R) /\ SumFunctionOnSet(g, R) \in Int
  BY <1>1, SumSame, SumType
<1>3. /\ SumFunctionOnSet(f, S) = f[x] + SumFunctionOnSet(f, R)
      /\ SumFunctionOnSet(g, S) = g[x] + SumFunctionOnSet(g, R)
  BY SumSplit
<1> HIDE DEF R
<1> QED BY <1>2, <1>3

(* What is zero outside of a subset may be left out. *)
LEMMA SumOutside ==
    ASSUME NEW f, NEW S, IsFiniteSet(S), \A x \in S : f[x] \in Int,
           NEW R \in SUBSET S, \A x \in S \ R : f[x] = 0
    PROVE  SumFunctionOnSet(f, S) = SumFunctionOnSet(f, R)
<1> DEFINE Total(T) == SumFunctionOnSet(f, T)
           C == {T \in SUBSET S : R \subseteq T /\ Total(T) # Total(R)}
<1>0. \A T \in SUBSET S : IsFiniteSet(T) /\ Total(T) \in Int
  BY FS_Subset, SumType
<1>1. SUFFICES ASSUME C # {} PROVE FALSE
  OBVIOUS
<1>2. PICK T \in C : \A U \in C : U \subseteq T => U = T
  <2>1. C \subseteq SUBSET S
    OBVIOUS
  <2> HIDE DEF C
  <2> QED BY <1>1, <2>1, SmallestSubset
<1>3. PICK y \in T : y \notin R
  BY <1>2
<1>4. Total(T) = f[y] + Total(T \ {y})
  BY <1>0, <1>2, SumSplit
<1>5. T \ {y} \in SUBSET S /\ T \ {y} \notin C /\ R \subseteq T \ {y}
  BY <1>2, <1>3
<1>6. f[y] = 0
  BY <1>2, <1>3
<1>7. Total(T \ {y}) \in Int
  BY <1>0, <1>5
<1> HIDE DEF Total
<1> QED BY <1>2, <1>4, <1>5, <1>6, <1>7

(* A sum with one term. *)
LEMMA SumOne ==
    ASSUME NEW f, NEW S, IsFiniteSet(S), \A x \in S : f[x] \in Int,
           NEW x \in S, \A y \in S \ {x} : f[y] = 0
    PROVE  SumFunctionOnSet(f, S) = f[x]
<1>1. SumFunctionOnSet(f, S) = f[x] + SumFunctionOnSet(f, S \ {x})
  BY SumSplit
<1>2. SumFunctionOnSet(f, S \ {x}) = SumFunctionOnSet(f, {})
  <2>1. IsFiniteSet(S \ {x}) /\ {} \in SUBSET (S \ {x})
    BY FS_Subset
  <2> QED BY <2>1, SumOutside
<1> QED BY <1>1, <1>2, SumEmpty

(* A sum of zeros. *)
LEMMA SumOfZeros ==
    ASSUME NEW f, NEW S, IsFiniteSet(S), \A x \in S : f[x] = 0
    PROVE  SumFunctionOnSet(f, S) = 0
<1>1. SumFunctionOnSet(f, S) = SumFunctionOnSet(f, {})
  <2>1. {} \in SUBSET S /\ \A x \in S : f[x] \in Int
    OBVIOUS
  <2> QED BY <2>1, SumOutside
<1> QED BY <1>1, SumEmpty

(* The sum of a sum of two functions. *)
LEMMA SumAdds ==
    ASSUME NEW f, NEW g, NEW h, NEW S, IsFiniteSet(S),
           \A x \in S : f[x] \in Int /\ g[x] \in Int /\ h[x] = f[x] + g[x]
    PROVE  SumFunctionOnSet(h, S) = SumFunctionOnSet(f, S) + SumFunctionOnSet(g, S)
<1> DEFINE F(T) == SumFunctionOnSet(f, T)
           G(T) == SumFunctionOnSet(g, T)
           H(T) == SumFunctionOnSet(h, T)
           C == {T \in SUBSET S : H(T) # F(T) + G(T)}
<1>0. \A T \in SUBSET S : F(T) \in Int /\ G(T) \in Int /\ IsFiniteSet(T)
  <2>1. \A T \in SUBSET S : IsFiniteSet(T)
    BY FS_Subset
  <2> QED BY <2>1, SumType
<1>1. SUFFICES ASSUME C # {} PROVE FALSE
  OBVIOUS
<1>2. PICK T \in C : \A U \in C : U \subseteq T => U = T
  <2>1. C \subseteq SUBSET S
    OBVIOUS
  <2> HIDE DEF C
  <2> QED BY <1>1, <2>1, SmallestSubset
<1>3. T # {}
  <2>1. F({}) = 0 /\ G({}) = 0 /\ H({}) = 0
    BY SumEmpty
  <2>2. H(T) # F(T) + G(T)
    OBVIOUS
  <2> HIDE DEF F, G, H, C
  <2>3. T = {} => F(T) = 0 /\ G(T) = 0 /\ H(T) = 0
    BY <2>1
  <2> QED BY <2>2, <2>3
<1> DEFINE p == Pick(T)
<1>4. p \in T /\ IsFiniteSet(T)
  BY <1>3, PickIn, FS_Subset
<1>5. /\ F(T) = f[p] + F(T \ {p})
      /\ G(T) = g[p] + G(T \ {p})
      /\ H(T) = h[p] + H(T \ {p})
  BY <1>3, <1>4, SumPick
<1>6. T \ {p} \in SUBSET S /\ T \ {p} \notin C
  <2> HIDE DEF p, C
  <2>1. T \in SUBSET S
    BY <1>2 DEF C
  <2> QED BY <1>2, <1>4, <2>1
<1>7. h[p] = f[p] + g[p] /\ f[p] \in Int /\ g[p] \in Int
  BY <1>2, <1>4
<1>8. F(T \ {p}) \in Int /\ G(T \ {p}) \in Int
  BY <1>0, <1>6
<1> HIDE DEF F, G, H, p
<1> QED BY <1>2, <1>5, <1>6, <1>7, <1>8

(* A sum of values that are each at most another is at most the other sum. *)
LEMMA SumLess ==
    ASSUME NEW f, NEW g, NEW S, IsFiniteSet(S),
           \A x \in S : f[x] \in Int /\ g[x] \in Int /\ f[x] <= g[x]
    PROVE  SumFunctionOnSet(f, S) <= SumFunctionOnSet(g, S)
<1> DEFINE F(T) == SumFunctionOnSet(f, T)
           G(T) == SumFunctionOnSet(g, T)
           C == {T \in SUBSET S : ~(F(T) <= G(T))}
<1>0. \A T \in SUBSET S : F(T) \in Int /\ G(T) \in Int /\ IsFiniteSet(T)
  <2>1. \A T \in SUBSET S : IsFiniteSet(T)
    BY FS_Subset
  <2> QED BY <2>1, SumType
<1>1. SUFFICES ASSUME C # {} PROVE FALSE
  OBVIOUS
<1>2. PICK T \in C : \A U \in C : U \subseteq T => U = T
  <2>1. C \subseteq SUBSET S
    OBVIOUS
  <2> HIDE DEF C
  <2> QED BY <1>1, <2>1, SmallestSubset
<1>3. T # {}
  <2>1. F({}) = 0 /\ G({}) = 0
    BY SumEmpty
  <2>2. ~(F(T) <= G(T))
    OBVIOUS
  <2> HIDE DEF F, G, C
  <2>3. T = {} => F(T) = 0 /\ G(T) = 0
    BY <2>1
  <2> QED BY <2>2, <2>3
<1> DEFINE p == Pick(T)
<1>4. p \in T /\ IsFiniteSet(T)
  BY <1>3, PickIn, FS_Subset
<1>5. /\ F(T) = f[p] + F(T \ {p})
      /\ G(T) = g[p] + G(T \ {p})
  BY <1>3, <1>4, SumPick
<1>6. T \ {p} \in SUBSET S /\ T \ {p} \notin C
  <2> HIDE DEF p, C
  <2>1. T \in SUBSET S
    BY <1>2 DEF C
  <2> QED BY <1>2, <1>4, <2>1
<1>7. f[p] <= g[p] /\ f[p] \in Int /\ g[p] \in Int
  BY <1>2, <1>4
<1>8. F(T \ {p}) \in Int /\ G(T \ {p}) \in Int
  BY <1>0, <1>6
<1> HIDE DEF F, G, p
<1> QED BY <1>2, <1>5, <1>6, <1>7, <1>8

(* A part of values that are not negative comes to no more than the whole. *)
LEMMA SumOfPart ==
    ASSUME NEW f, NEW S, IsFiniteSet(S), \A x \in S : f[x] \in Int /\ f[x] >= 0,
           NEW R \in SUBSET S
    PROVE  SumFunctionOnSet(f, R) <= SumFunctionOnSet(f, S)
<1> DEFINE g == [x \in S |-> IF x \in R THEN f[x] ELSE 0]
<1>1. /\ \A x \in S : g[x] \in Int /\ g[x] <= f[x] /\ f[x] \in Int
      /\ \A x \in S \ R : g[x] = 0
      /\ \A x \in R : g[x] = f[x]
  OBVIOUS
<1> HIDE DEF g
<1>2. SumFunctionOnSet(g, S) = SumFunctionOnSet(g, R)
  BY <1>1, SumOutside
<1>3. SumFunctionOnSet(g, R) = SumFunctionOnSet(f, R)
  BY <1>1, FS_Subset, SumSame
<1>4. SumFunctionOnSet(g, S) <= SumFunctionOnSet(f, S)
  BY <1>1, SumLess
<1> QED BY <1>2, <1>3, <1>4

(* A common factor may be taken out. *)
LEMMA SumScales ==
    ASSUME NEW f, NEW g, NEW S, IsFiniteSet(S), NEW c \in Int,
           \A x \in S : f[x] \in Int /\ g[x] = f[x] * c
    PROVE  SumFunctionOnSet(g, S) = SumFunctionOnSet(f, S) * c
<1> DEFINE F(T) == SumFunctionOnSet(f, T)
           G(T) == SumFunctionOnSet(g, T)
           C == {T \in SUBSET S : G(T) # F(T) * c}
<1>0. \A T \in SUBSET S : F(T) \in Int /\ IsFiniteSet(T)
  <2>1. \A T \in SUBSET S : IsFiniteSet(T)
    BY FS_Subset
  <2> QED BY <2>1, SumType
<1>1. SUFFICES ASSUME C # {} PROVE FALSE
  OBVIOUS
<1>2. PICK T \in C : \A U \in C : U \subseteq T => U = T
  <2>1. C \subseteq SUBSET S
    OBVIOUS
  <2> HIDE DEF C
  <2> QED BY <1>1, <2>1, SmallestSubset
<1>3. T # {}
  <2>1. F({}) = 0 /\ G({}) = 0
    BY SumEmpty
  <2> HIDE DEF F, G
  <2> QED BY <1>2, <2>1
<1> DEFINE p == Pick(T)
<1>4. p \in T /\ IsFiniteSet(T)
  BY <1>3, PickIn, FS_Subset
<1>5. /\ F(T) = f[p] + F(T \ {p})
      /\ G(T) = g[p] + G(T \ {p})
  BY <1>3, <1>4, SumPick
<1>6. T \ {p} \in SUBSET S /\ T \ {p} \notin C
  <2> HIDE DEF p, C
  <2>1. T \in SUBSET S
    BY <1>2 DEF C
  <2> QED BY <1>2, <1>4, <2>1
<1>7. g[p] = f[p] * c /\ f[p] \in Int
  BY <1>2, <1>4
<1>8. F(T \ {p}) \in Int
  BY <1>0, <1>6
<1>9. G(T \ {p}) = F(T \ {p}) * c /\ G(T) # F(T) * c
  BY <1>2, <1>6
<1> HIDE DEF F, G, p
<1>10. (f[p] + F(T \ {p})) * c = f[p] * c + F(T \ {p}) * c
  BY <1>7, <1>8
<1> QED BY <1>5, <1>7, <1>9, <1>10

-----------------------------------------------------------------------------

(* Among finitely many integers one is the greatest. *)
LEMMA HasGreatest ==
    ASSUME NEW S, IsFiniteSet(S), S # {}, \A x \in S : x \in Int
    PROVE  \E x \in S : \A y \in S : x >= y
<1> DEFINE Greatest(T) == \E x \in T : \A y \in T : x >= y
           C == {T \in SUBSET S : T # {} /\ ~Greatest(T)}
<1>1. SUFFICES ASSUME C # {} PROVE FALSE
  OBVIOUS
<1>4. PICK T \in C : \A U \in C : U \subseteq T => U = T
  <2>1. C \subseteq SUBSET S
    OBVIOUS
  <2> HIDE DEF C
  <2> QED BY <1>1, <2>1, SmallestSubset
<1>5. PICK p \in T : TRUE
  BY <1>4
<1>6. T \ {p} \notin C
  BY <1>4, <1>5
<1>7. CASE T = {p}
  BY <1>4, <1>5, <1>7
<1>8. CASE T # {p}
  <2>1. PICK x \in T \ {p} : \A y \in T \ {p} : x >= y
    BY <1>4, <1>6, <1>8
  <2>2. p \in Int /\ x \in Int
    BY <1>4, <1>5
  <2>3. CASE x >= p
    <3>1. Greatest(T)
      BY <2>1, <2>3
    <3> QED BY <1>4, <3>1
  <2>4. CASE p >= x
    <3>1. ASSUME NEW y \in T PROVE p >= y
      <4>1. y \in Int
        BY <1>4
      <4> QED BY <2>1, <2>2, <2>4, <4>1
    <3> QED BY <1>4, <1>5, <3>1
  <2> QED BY <2>2, <2>3, <2>4
<1> QED BY <1>7, <1>8
===============================================================================
