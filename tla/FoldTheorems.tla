---------------------------- MODULE FoldTheorems ----------------------------
(***************************************************************************)
(* Induction over numbers and finite sets, stated for sets of what has the *)
(* property, and from it what the folds of the community modules compute.  *)
(*                                                                         *)
(* A fold is a recursive function, which is the CHOOSE of a function that  *)
(* satisfies an equation.  FoldExists gives one that does; a property of   *)
(* every partial result then follows by SubsetInduction.  RecursionExists  *)
(* and RecursionKeeps do the same for a recursive function over 0 .. n.    *)
(***************************************************************************)
EXTENDS Integers, FiniteSets, Functions, Folds,
        FiniteSetTheorems, WellFoundedInduction, TLAPS

-----------------------------------------------------------------------------
(* Induction *)

LEMMA LeastNumber ==
    ASSUME NEW T, T \subseteq Nat, T # {}
    PROVE  \E x \in T : \A y \in T : x <= y
<1> DEFINE R == OpToRel(<, Nat)
<1>1. PICK x \in T : \A y \in T : ~(<<y, x>> \in R)
  <2>1. IsWellFoundedOn(R, Nat)
    BY NatLessThanWellFounded
  <2> HIDE DEF R
  <2> QED
    BY <2>1, WFMin
<1>2. ASSUME NEW y \in T PROVE x <= y
  <2>1. x \in Nat /\ y \in Nat
    BY <1>1
  <2>2. ~(y < x)
    BY <1>1, <2>1 DEF OpToRel
  <2> HIDE DEF R
  <2> QED
    BY <2>1, <2>2
<1> QED
    BY <1>1, <1>2

LEMMA NumberInduction ==
    ASSUME NEW G, 0 \in G, \A n \in Nat : n \in G => n + 1 \in G
    PROVE  \A n \in Nat : n \in G
<1> DEFINE Bad == {n \in Nat : n \notin G}
<1> SUFFICES ASSUME Bad # {} PROVE FALSE
    OBVIOUS
<1>1. PICK n \in Bad : \A m \in Bad : n <= m
    BY LeastNumber
<1>2. n \in Nat /\ n \notin G /\ n # 0
    BY <1>1
<1>3. n - 1 \in Nat /\ n - 1 \notin Bad
    BY <1>1, <1>2
<1> QED
    BY <1>2, <1>3

LEMMA GreatestNumber ==
    ASSUME NEW S, NEW n \in Nat, S \subseteq 0 .. n, S # {}
    PROVE  \E x \in S : \A y \in S : y <= x
<1> DEFINE T == {m \in 0 .. n : n - m \in S}
<1>1. PICK s \in S : TRUE
    OBVIOUS
<1>2. s \in 0 .. n /\ n - s \in 0 .. n /\ n - (n - s) = s
    BY <1>1
<1>3. n - s \in T
    BY <1>1, <1>2
<1>4. PICK m \in T : \A k \in T : m <= k
  <2>1. T \subseteq Nat /\ T # {}
    BY <1>3
  <2> HIDE DEF T
  <2> QED
    BY <2>1, LeastNumber
<1>5. ASSUME NEW y \in S PROVE y <= n - m
  <2>1. y \in 0 .. n /\ n - y \in 0 .. n /\ n - (n - y) = y
    BY <1>5
  <2>2. n - y \in T
    BY <2>1, <1>5
  <2>3. m <= n - y
    BY <1>4, <2>2
  <2> QED
    BY <1>4, <2>1, <2>3
<1> QED
    BY <1>4, <1>5

LEMMA SubsetInduction ==
    ASSUME NEW S, IsFiniteSet(S), NEW G,
           \A T \in SUBSET S : (\A U \in SUBSET T : U # T => U \in G) => T \in G
    PROVE  \A T \in SUBSET S : T \in G
<1> DEFINE R == StrictSubsetOrdering(S)
           Bad == {T \in SUBSET S : T \notin G}
<1> SUFFICES ASSUME Bad # {} PROVE FALSE
    OBVIOUS
<1>1. IsWellFoundedOn(R, SUBSET S)
  <2>1. IsWellFoundedOn(StrictSubsetOrdering(S), FiniteSubsetsOf(S))
    BY FS_StrictSubsetOrderingWellFounded
  <2>2. FiniteSubsetsOf(S) = SUBSET S
    BY FS_FiniteSubsetsOfFinite
  <2> QED
    BY <2>1, <2>2
<1>2. PICK T \in Bad : \A U \in Bad : ~(<<U, T>> \in R)
  <2>1. Bad \subseteq SUBSET S /\ Bad # {}
    OBVIOUS
  <2> HIDE DEF R, Bad
  <2> QED
    BY <1>1, <2>1, WFMin
<1>3. ASSUME NEW U \in SUBSET T, U # T PROVE U \in G
  <2>1. U \in SUBSET S /\ T \in SUBSET S
    BY <1>2, <1>3
  <2>2. <<U, T>> \in R
    BY <2>1, <1>3 DEF StrictSubsetOrdering
  <2> QED
    BY <1>2, <2>1, <2>2
<1> QED
    BY <1>2, <1>3

-----------------------------------------------------------------------------
(* Folds *)

\* A choice of the element of a set that is added to it last.
LastChoices(S) == {c \in [(SUBSET S) \ {{}} -> S] : \A A \in (SUBSET S) \ {{}} : c[A] \in A}

\* g[A] is the result for the elements of A, the choices of c being the last.
IsFold(g, S, c, F, base) ==
    \A A \in SUBSET S : g[A] = IF A = {} THEN base ELSE F[<<c[A], g[A \ {c[A]}]>>]

LEMMA FoldExists ==
    ASSUME NEW S, IsFiniteSet(S), NEW c \in LastChoices(S), NEW V, NEW F \in [S \X V -> V],
           NEW base \in V
    PROVE  \E g \in [SUBSET S -> V] : IsFold(g, S, c, F, base)
<1> DEFINE Value(g, A) == IF A = {} THEN base ELSE F[<<c[A], g[A \ {c[A]}]>>]
           G == {n \in Nat : \E g \in [SUBSET S -> V] : \A A \in SUBSET S :
                    Cardinality(A) <= n => g[A] = Value(g, A)}
<1>1. ASSUME NEW A \in SUBSET S PROVE IsFiniteSet(A) /\ Cardinality(A) \in Nat
    BY <1>1, FS_Subset, FS_CardinalityType
<1>2. ASSUME NEW A \in SUBSET S, A # {}
      PROVE  /\ c[A] \in A /\ c[A] \in S /\ A \ {c[A]} \in SUBSET S
             /\ Cardinality(A \ {c[A]}) = Cardinality(A) - 1
    BY <1>1, <1>2, FS_RemoveElement DEF LastChoices
<1>3. ASSUME NEW g \in [SUBSET S -> V], NEW A \in SUBSET S PROVE Value(g, A) \in V
    BY <1>2, <1>3
<1>4. 0 \in G
  <2> DEFINE g == [A \in SUBSET S |-> base]
  <2>1. g \in [SUBSET S -> V]
    OBVIOUS
  <2>2. ASSUME NEW A \in SUBSET S, Cardinality(A) <= 0 PROVE g[A] = Value(g, A)
    <3>1. A = {}
        BY <1>1, <2>2, FS_EmptySet
    <3> QED
        BY <3>1
  <2> QED
    BY <2>1, <2>2
<1>5. ASSUME NEW n \in Nat, n \in G PROVE n + 1 \in G
  <2>1. PICK g \in [SUBSET S -> V] : \A A \in SUBSET S : Cardinality(A) <= n => g[A] = Value(g, A)
    BY <1>5
  <2> DEFINE h == [A \in SUBSET S |-> Value(g, A)]
  <2>2. h \in [SUBSET S -> V]
    BY <1>3
  <2>3. ASSUME NEW A \in SUBSET S, Cardinality(A) <= n + 1 PROVE h[A] = Value(h, A)
    <3>1. CASE A = {}
        BY <3>1
    <3>2. CASE A # {}
      <4>1. Cardinality(A \ {c[A]}) <= n /\ A \ {c[A]} \in SUBSET S
        BY <1>1, <1>2, <2>3, <3>2
      <4>2. h[A \ {c[A]}] = g[A \ {c[A]}]
        BY <2>1, <4>1
      <4> QED
        BY <3>2, <4>2
    <3> QED
        BY <3>1, <3>2
  <2>4. \A A \in SUBSET S : Cardinality(A) <= n + 1 => h[A] = Value(h, A)
    BY <2>3
  <2> HIDE DEF h
  <2>5. n + 1 \in Nat
    OBVIOUS
  <2> QED
    BY <2>2, <2>4, <2>5
<1>6. \A n \in Nat : n \in G
  <2> HIDE DEF G
  <2> QED
    BY <1>4, <1>5, NumberInduction
<1>7. PICK g \in [SUBSET S -> V] : \A A \in SUBSET S :
          Cardinality(A) <= Cardinality(S) => g[A] = Value(g, A)
    BY <1>1, <1>6
<1>8. \A A \in SUBSET S : Cardinality(A) <= Cardinality(S)
    BY FS_Subset
<1> QED
    BY <1>7, <1>8 DEF IsFold

\* What the first partial result has, and each next element keeps, all have.
LEMMA FoldStays ==
    ASSUME NEW S, IsFiniteSet(S), NEW c \in LastChoices(S), NEW Good, {} \in Good,
           \A A \in (SUBSET S) \ {{}} : A \ {c[A]} \in Good => A \in Good
    PROVE  \A A \in SUBSET S : A \in Good
<1>1. ASSUME NEW T \in SUBSET S, \A U \in SUBSET T : U # T => U \in Good PROVE T \in Good
  <2>1. CASE T = {}
    BY <2>1
  <2>2. CASE T # {}
    <3>1. c[T] \in T
        BY <2>2 DEF LastChoices
    <3>2. T \ {c[T]} \in SUBSET T /\ T \ {c[T]} # T
        BY <3>1
    <3> QED
        BY <1>1, <2>2, <3>2
  <2> QED
    BY <2>1, <2>2
<1> QED
    BY <1>1, SubsetInduction

-----------------------------------------------------------------------------
(* Sums over a finite set *)

NextOf(A) == CHOOSE x \in A : TRUE

IsSum(g, f, S) ==
    \A A \in SUBSET S : g[A] = IF A = {} THEN 0 ELSE f[NextOf(A)] + g[A \ {NextOf(A)}]

LEMMA SumIsFold ==
    ASSUME NEW f, NEW S, IsFiniteSet(S), \A x \in S : f[x] \in Int
    PROVE  \E g \in [SUBSET S -> Int] : SumFunctionOnSet(f, S) = g[S] /\ IsSum(g, f, S)
<1> DEFINE c == [A \in (SUBSET S) \ {{}} |-> NextOf(A)]
           F == [xn \in S \X Int |-> f[xn[1]] + xn[2]]
           Sums(g) == g = [A \in SUBSET S |-> IF A = {} THEN 0
                                              ELSE f[NextOf(A)] + g[A \ {NextOf(A)}]]
           sum == CHOOSE g : Sums(g)
<1>1. ASSUME NEW A \in (SUBSET S) \ {{}}
      PROVE  /\ c[A] = NextOf(A) /\ NextOf(A) \in A /\ NextOf(A) \in S /\ f[NextOf(A)] \in Int
             /\ A \ {NextOf(A)} \in SUBSET S
    BY <1>1 DEF NextOf
<1>2. c \in LastChoices(S)
    BY <1>1 DEF LastChoices
<1>3. F \in [S \X Int -> Int]
    OBVIOUS
<1>4. \E g : Sums(g)
  <2>0. PICK g \in [SUBSET S -> Int] : IsFold(g, S, c, F, 0)
    <3> HIDE DEF c, F
    <3>1. 0 \in Int
        OBVIOUS
    <3> QED
        BY <1>2, <1>3, <3>1, FoldExists
  <2>1. \A A \in SUBSET S : g[A] = IF A = {} THEN 0 ELSE F[<<c[A], g[A \ {c[A]}]>>]
    BY <2>0 DEF IsFold
  <2>2. ASSUME NEW A \in SUBSET S
        PROVE  g[A] = IF A = {} THEN 0 ELSE f[NextOf(A)] + g[A \ {NextOf(A)}]
    <3>1. CASE A = {}
        BY <2>1, <3>1
    <3>2. CASE A # {}
      <4>1. g[A] = F[<<NextOf(A), g[A \ {NextOf(A)}]>>]
        BY <1>1, <2>1, <3>2
      <4>2. <<NextOf(A), g[A \ {NextOf(A)}]>> \in S \X Int
        BY <1>1, <2>1, <3>2
      <4> QED
        BY <3>2, <4>1, <4>2
    <3> QED
        BY <3>1, <3>2
  <2>3. Sums(g)
    BY <2>1, <2>2
  <2> QED
    BY <2>3
<1>5. Sums(sum)
    BY <1>4
<1>6. \A A \in SUBSET S : sum[A] = IF A = {} THEN 0 ELSE f[NextOf(A)] + sum[A \ {NextOf(A)}]
    BY <1>5
<1>7. sum = [A \in SUBSET S |-> sum[A]]
    BY <1>5
<1>8. SumFunctionOnSet(f, S) = sum[S]
    BY DEF SumFunctionOnSet, FoldFunctionOnSet, MapThenFoldSet, NextOf
<1>9. \A A \in SUBSET S : sum[A] \in Int
  <2> DEFINE Good == {A \in SUBSET S : sum[A] \in Int}
  <2> HIDE DEF sum
  <2>1. {} \in Good
    <3>1. {} \in SUBSET S
        OBVIOUS
    <3>2. sum[{}] = 0
        BY ONLY <1>6, <3>1
    <3> QED
        BY ONLY <3>1, <3>2
  <2>2. ASSUME NEW A \in (SUBSET S) \ {{}}, A \ {c[A]} \in Good PROVE A \in Good
    <3>1. sum[A \ {NextOf(A)}] \in Int /\ f[NextOf(A)] \in Int
        BY <1>1, <2>2
    <3>2. sum[A] = f[NextOf(A)] + sum[A \ {NextOf(A)}]
        BY <1>6, <2>2
    <3> QED
        BY <3>1, <3>2, <2>2
  <2>3. \A A \in SUBSET S : A \in Good
    <3> HIDE DEF Good, c
    <3> QED
        BY <1>2, <2>1, <2>2, FoldStays
  <2> QED
    BY <2>3
<1> HIDE DEF sum
<1>10. sum \in [SUBSET S -> Int]
    BY <1>7, <1>9
<1> QED
    BY <1>6, <1>8, <1>10 DEF IsSum

\* The sum of a part, as a partial result and by itself.
LEMMA PartialSums ==
    ASSUME NEW f, NEW S, IsFiniteSet(S), \A x \in S : f[x] \in Int,
           NEW g \in [SUBSET S -> Int], IsSum(g, f, S)
    PROVE  \A A \in SUBSET S : g[A] = SumFunctionOnSet(f, A)
<1> TAKE A \in SUBSET S
<1>1. IsFiniteSet(A) /\ \A x \in A : f[x] \in Int
    BY FS_Subset
<1>2. PICK h \in [SUBSET A -> Int] : SumFunctionOnSet(f, A) = h[A] /\ IsSum(h, f, A)
    BY <1>1, SumIsFold
<1> DEFINE Good == {B \in SUBSET A : h[B] = g[B]}
<1>3. ASSUME NEW T \in SUBSET A, \A U \in SUBSET T : U # T => U \in Good PROVE T \in Good
  <2>1. CASE T = {}
    BY <1>2, <2>1 DEF IsSum
  <2>2. CASE T # {}
    <3>1. NextOf(T) \in T
        BY <2>2 DEF NextOf
    <3>2. T \ {NextOf(T)} \in SUBSET T /\ T \ {NextOf(T)} # T
        BY <3>1
    <3>3. h[T \ {NextOf(T)}] = g[T \ {NextOf(T)}]
        BY <1>3, <3>2
    <3>4. T \in SUBSET S
        OBVIOUS
    <3> QED
        BY <1>2, <2>2, <3>3, <3>4 DEF IsSum
  <2> QED
    BY <2>1, <2>2
<1>4. \A T \in SUBSET A : T \in Good
  <2> HIDE DEF Good
  <2> QED
    BY <1>1, <1>3, SubsetInduction
<1> QED
    BY <1>2, <1>4

LEMMA SumTyped ==
    ASSUME NEW f, NEW S, IsFiniteSet(S), \A x \in S : f[x] \in Int
    PROVE  SumFunctionOnSet(f, S) \in Int
<1>1. PICK g \in [SUBSET S -> Int] : SumFunctionOnSet(f, S) = g[S] /\ IsSum(g, f, S)
    BY SumIsFold
<1> QED
    BY <1>1

LEMMA SumEmpty ==
    ASSUME NEW f
    PROVE  SumFunctionOnSet(f, {}) = 0
<1>1. IsFiniteSet({}) /\ \A x \in {} : f[x] \in Int
    BY FS_EmptySet
<1>2. PICK g \in [SUBSET {} -> Int] : SumFunctionOnSet(f, {}) = g[{}] /\ IsSum(g, f, {})
    BY <1>1, SumIsFold
<1> QED
    BY <1>2 DEF IsSum

LEMMA SumNext ==
    ASSUME NEW f, NEW S, IsFiniteSet(S), \A x \in S : f[x] \in Int, S # {}
    PROVE  SumFunctionOnSet(f, S) = f[NextOf(S)] + SumFunctionOnSet(f, S \ {NextOf(S)})
<1>1. PICK g \in [SUBSET S -> Int] : SumFunctionOnSet(f, S) = g[S] /\ IsSum(g, f, S)
    BY SumIsFold
<1>2. S \ {NextOf(S)} \in SUBSET S
    OBVIOUS
<1>3. g[S \ {NextOf(S)}] = SumFunctionOnSet(f, S \ {NextOf(S)})
  <2>0. g \in [SUBSET S -> Int] /\ IsSum(g, f, S)
    BY <1>1
  <2>1. \A A \in SUBSET S : g[A] = SumFunctionOnSet(f, A)
    BY ONLY IsFiniteSet(S), \A x \in S : f[x] \in Int, <2>0, PartialSums
  <2> QED
    BY <1>2, <2>1
<1>4. g[S] = f[NextOf(S)] + g[S \ {NextOf(S)}]
    BY <1>1 DEF IsSum
<1> QED
    BY <1>1, <1>3, <1>4

\* The order does not matter: any element may be taken out.
LEMMA SumRemove ==
    ASSUME NEW f, NEW S, IsFiniteSet(S), \A x \in S : f[x] \in Int
    PROVE  \A x \in S : SumFunctionOnSet(f, S) = f[x] + SumFunctionOnSet(f, S \ {x})
<1> DEFINE Sum(A) == SumFunctionOnSet(f, A)
           G == {A \in SUBSET S : \A x \in A : Sum(A) = f[x] + Sum(A \ {x})}
<1>0. ASSUME NEW A \in SUBSET S PROVE IsFiniteSet(A) /\ (\A x \in A : f[x] \in Int) /\ Sum(A) \in Int
    BY <1>0, FS_Subset, SumTyped
<1>1. ASSUME NEW A \in SUBSET S, \A B \in SUBSET A : B # A => B \in G PROVE A \in G
  <2> SUFFICES ASSUME NEW x \in A PROVE Sum(A) = f[x] + Sum(A \ {x})
    OBVIOUS
  <2> DEFINE n == NextOf(A)
  <2>1. n \in A
    BY DEF NextOf
  <2>2. Sum(A) = f[n] + Sum(A \ {n})
    BY <1>0, SumNext
  <2>3. CASE x = n
    BY <2>2, <2>3
  <2>4. CASE x # n
    <3>1. A \ {n} \in G /\ A \ {x} \in G
        BY <1>1, <2>1
    <3>2. x \in A \ {n} /\ n \in A \ {x} /\ (A \ {n}) \ {x} = (A \ {x}) \ {n}
        BY <2>1, <2>4
    <3>3. Sum(A \ {n}) = f[x] + Sum((A \ {n}) \ {x})
        BY <3>1, <3>2
    <3>4. Sum(A \ {x}) = f[n] + Sum((A \ {n}) \ {x})
        BY <3>1, <3>2
    <3>5. (A \ {n}) \ {x} \in SUBSET S /\ A \ {x} \in SUBSET S /\ A \ {n} \in SUBSET S
        OBVIOUS
    <3>6. Sum((A \ {n}) \ {x}) \in Int /\ f[x] \in Int /\ f[n] \in Int
        BY <1>0, <2>1, <3>5
    <3> HIDE DEF Sum, n
    <3> QED
        BY <2>2, <3>3, <3>4, <3>6
  <2> QED
    BY <2>3, <2>4
<1>2. \A A \in SUBSET S : A \in G
  <2> HIDE DEF G
  <2> QED
    BY <1>1, SubsetInduction
<1> QED
    BY <1>2

LEMMA SumAgrees ==
    ASSUME NEW f, NEW h, NEW S, IsFiniteSet(S),
           \A x \in S : f[x] \in Int /\ f[x] = h[x]
    PROVE  SumFunctionOnSet(f, S) = SumFunctionOnSet(h, S)
<1> DEFINE G == {A \in SUBSET S : SumFunctionOnSet(f, A) = SumFunctionOnSet(h, A)}
<1>1. ASSUME NEW A \in SUBSET S, \A B \in SUBSET A : B # A => B \in G PROVE A \in G
  <2>1. IsFiniteSet(A) /\ (\A x \in A : f[x] \in Int) /\ (\A x \in A : h[x] \in Int)
    BY FS_Subset
  <2>2. CASE A = {}
    BY <2>2, SumEmpty
  <2>3. CASE A # {}
    <3> DEFINE n == NextOf(A)
    <3>1. n \in A /\ A \ {n} \in SUBSET A /\ A \ {n} # A
        BY <2>3 DEF NextOf
    <3>2. SumFunctionOnSet(f, A) = f[n] + SumFunctionOnSet(f, A \ {n})
        BY <2>1, <2>3, SumNext
    <3>3. SumFunctionOnSet(h, A) = h[n] + SumFunctionOnSet(h, A \ {n})
        BY <2>1, <2>3, SumNext
    <3>4. A \ {n} \in G
        BY <1>1, <3>1
    <3>5. f[n] = h[n]
        BY <3>1
    <3> QED
        BY <3>2, <3>3, <3>4, <3>5
  <2> QED
    BY <2>2, <2>3
<1>2. \A A \in SUBSET S : A \in G
  <2> HIDE DEF G
  <2> QED
    BY <1>1, SubsetInduction
<1> QED
    BY <1>2

\* Zeros do not count.
LEMMA SumOfPart ==
    ASSUME NEW f, NEW S, IsFiniteSet(S), NEW T \in SUBSET S,
           \A x \in S : f[x] \in Int, \A x \in S \ T : f[x] = 0
    PROVE  SumFunctionOnSet(f, S) = SumFunctionOnSet(f, T)
<1> DEFINE Sum(A) == SumFunctionOnSet(f, A)
           G == {A \in SUBSET S : T \subseteq A => Sum(A) = Sum(T)}
<1>1. ASSUME NEW A \in SUBSET S, \A B \in SUBSET A : B # A => B \in G PROVE A \in G
  <2> SUFFICES ASSUME T \subseteq A, T # A PROVE Sum(A) = Sum(T)
    OBVIOUS
  <2>1. PICK x \in A : x \notin T
    OBVIOUS
  <2>2. T \subseteq A \ {x} /\ A \ {x} \in SUBSET A /\ A \ {x} # A /\ A \ {x} \in SUBSET S
    BY <2>1
  <2>3. Sum(A \ {x}) = Sum(T)
    BY <1>1, <2>2
  <2>4. IsFiniteSet(A) /\ \A y \in A : f[y] \in Int
    BY FS_Subset
  <2>5. \A y \in A : Sum(A) = f[y] + Sum(A \ {y})
    BY <2>4, SumRemove
  <2>6. Sum(A \ {x}) \in Int
    <3>1. IsFiniteSet(A \ {x}) /\ \A y \in A \ {x} : f[y] \in Int
        BY <2>2, <2>4, FS_Subset
    <3> QED
        BY <3>1, SumTyped
  <2>7. f[x] = 0
    BY <2>1
  <2> HIDE DEF Sum
  <2> QED
    BY <2>1, <2>3, <2>5, <2>6, <2>7
<1>2. \A A \in SUBSET S : A \in G
  <2> HIDE DEF G
  <2> QED
    BY <1>1, SubsetInduction
<1> QED
    BY <1>2

LEMMA SumOfDifference ==
    ASSUME NEW f, NEW h, NEW d, NEW S, IsFiniteSet(S),
           \A x \in S : f[x] \in Int /\ h[x] \in Int /\ d[x] = f[x] - h[x]
    PROVE  SumFunctionOnSet(d, S) = SumFunctionOnSet(f, S) - SumFunctionOnSet(h, S)
<1> DEFINE Sum(g, A) == SumFunctionOnSet(g, A)
           G == {A \in SUBSET S : Sum(d, A) = Sum(f, A) - Sum(h, A)}
<1>1. ASSUME NEW A \in SUBSET S, \A B \in SUBSET A : B # A => B \in G PROVE A \in G
  <2>1. IsFiniteSet(A) /\ (\A x \in A : f[x] \in Int) /\ (\A x \in A : h[x] \in Int)
        /\ \A x \in A : d[x] \in Int
    BY FS_Subset
  <2>2. CASE A = {}
    BY <2>2, SumEmpty
  <2>3. CASE A # {}
    <3> DEFINE n == NextOf(A)
    <3>1. n \in A /\ A \ {n} \in SUBSET A /\ A \ {n} # A
        BY <2>3 DEF NextOf
    <3>2. Sum(f, A) = f[n] + Sum(f, A \ {n})
        BY <2>1, <2>3, SumNext
    <3>3. Sum(h, A) = h[n] + Sum(h, A \ {n})
        BY <2>1, <2>3, SumNext
    <3>4. Sum(d, A) = d[n] + Sum(d, A \ {n})
        BY <2>1, <2>3, SumNext
    <3>5. Sum(d, A \ {n}) = Sum(f, A \ {n}) - Sum(h, A \ {n})
        BY <1>1, <3>1
    <3>6. f[n] \in Int /\ h[n] \in Int /\ d[n] = f[n] - h[n]
        BY <3>1
    <3>7. Sum(f, A \ {n}) \in Int /\ Sum(h, A \ {n}) \in Int
      <4>1. IsFiniteSet(A \ {n}) /\ (\A x \in A \ {n} : f[x] \in Int) /\ \A x \in A \ {n} : h[x] \in Int
        BY <2>1, <3>1, FS_Subset
      <4> QED
        BY <4>1, SumTyped
    <3> HIDE DEF Sum, n
    <3>8. Sum(d, A) = Sum(f, A) - Sum(h, A)
        BY <3>2, <3>3, <3>4, <3>5, <3>6, <3>7
    <3> QED
        BY <3>8
  <2> QED
    BY <2>2, <2>3
<1>2. \A A \in SUBSET S : A \in G
  <2> HIDE DEF G
  <2> QED
    BY <1>1, SubsetInduction
<1> QED
    BY <1>2

LEMMA SumOfNaturals ==
    ASSUME NEW f, NEW S, IsFiniteSet(S), \A x \in S : f[x] \in Nat
    PROVE  SumFunctionOnSet(f, S) \in Nat /\ \A x \in S : f[x] <= SumFunctionOnSet(f, S)
<1> DEFINE Sum(A) == SumFunctionOnSet(f, A)
           G == {A \in SUBSET S : Sum(A) \in Nat}
<1>0. ASSUME NEW A \in SUBSET S PROVE IsFiniteSet(A) /\ (\A x \in A : f[x] \in Int)
    BY FS_Subset
<1>1. ASSUME NEW A \in SUBSET S, \A B \in SUBSET A : B # A => B \in G PROVE A \in G
  <2>1. IsFiniteSet(A) /\ (\A x \in A : f[x] \in Int)
    BY <1>0
  <2>2. CASE A = {}
    BY <2>2, SumEmpty
  <2>3. CASE A # {}
    <3> DEFINE n == NextOf(A)
    <3>1. n \in A /\ A \ {n} \in SUBSET A /\ A \ {n} # A
        BY <2>3 DEF NextOf
    <3>2. Sum(A) = f[n] + Sum(A \ {n})
        BY <2>1, <2>3, SumNext
    <3>3. Sum(A \ {n}) \in Nat /\ f[n] \in Nat
        BY <1>1, <3>1
    <3> HIDE DEF Sum, n
    <3>4. Sum(A) \in Nat
        BY <3>2, <3>3
    <3> QED
        BY <3>4
  <2> QED
    BY <2>2, <2>3
<1>2. \A A \in SUBSET S : A \in G
  <2> HIDE DEF G
  <2> QED
    BY <1>1, SubsetInduction
<1>3. ASSUME NEW x \in S PROVE f[x] <= Sum(S)
  <2>1. \A y \in S : Sum(S) = f[y] + Sum(S \ {y})
    BY <1>0, SumRemove
  <2>2. S \ {x} \in G
    BY <1>2
  <2>3. Sum(S \ {x}) \in Nat /\ f[x] \in Nat
    BY <2>2
  <2> HIDE DEF Sum
  <2> QED
    BY <2>1, <2>3
<1> QED
    BY <1>2, <1>3


-----------------------------------------------------------------------------
(* Recursive functions over 0 .. n *)

\* h runs from base by the steps of F, through the sets of S.
Runs(h, n, base, F, S) ==
    /\ h = [k \in 0 .. n |-> IF k = 0 THEN base ELSE F[<<k, h[k - 1]>>]]
    /\ \A k \in 0 .. n : h[k] \in S[k]

\* A function is defined by recursion when each step stays in the sets of S.
LEMMA RecursionExists ==
    ASSUME NEW n \in Nat, NEW base, NEW F, NEW S, base \in S[0],
           \A k \in 1 .. n : \A w \in S[k - 1] : F[<<k, w>>] \in S[k]
    PROVE  \E h : Runs(h, n, base, F, S)
<1> DEFINE G == {m \in Nat : m <= n => \E h : Runs(h, m, base, F, S)}
<1>1. 0 \in G
  <2> DEFINE h == [k \in 0 .. 0 |-> base]
  <2>1. h = [k \in 0 .. 0 |-> IF k = 0 THEN base ELSE F[<<k, h[k - 1]>>]]
    OBVIOUS
  <2>2. \A k \in 0 .. 0 : h[k] \in S[k]
    OBVIOUS
  <2>3. Runs(h, 0, base, F, S)
    BY <2>1, <2>2 DEF Runs
  <2> QED
    BY <2>3
<1>2. ASSUME NEW m \in Nat, m \in G, m + 1 <= n
      PROVE  \E h : Runs(h, m + 1, base, F, S)
  <2>1. PICK g : Runs(g, m, base, F, S)
    BY <1>2
  <2> DEFINE h == [k \in 0 .. m + 1 |-> IF k <= m THEN g[k] ELSE F[<<m + 1, g[m]>>]]
  <2>2. /\ g = [k \in 0 .. m |-> IF k = 0 THEN base ELSE F[<<k, g[k - 1]>>]]
        /\ \A k \in 0 .. m : g[k] \in S[k]
    BY <2>1 DEF Runs
  <2>3. h[m + 1] = F[<<m + 1, h[m]>>] /\ h[m + 1] \in S[m + 1]
    <3>1. h[m + 1] = F[<<m + 1, g[m]>>] /\ h[m] = g[m]
      OBVIOUS
    <3>2. g[m] \in S[m] /\ m + 1 \in 1 .. n /\ (m + 1) - 1 = m
      BY <1>2, <2>2
    <3>3. F[<<m + 1, g[m]>>] \in S[m + 1]
      BY <3>2
    <3> QED
      BY <3>1, <3>3
  <2>4. ASSUME NEW k \in 0 .. m
        PROVE  h[k] = (IF k = 0 THEN base ELSE F[<<k, h[k - 1]>>]) /\ h[k] \in S[k]
    BY <2>2
  <2>5. \A k \in 0 .. m + 1 : k = m + 1 \/ k \in 0 .. m
    OBVIOUS
  <2>6. h = [k \in 0 .. m + 1 |-> h[k]]
    OBVIOUS
  <2> HIDE DEF h
  <2>7. ASSUME NEW k \in 0 .. m + 1
        PROVE  h[k] = (IF k = 0 THEN base ELSE F[<<k, h[k - 1]>>]) /\ h[k] \in S[k]
    BY <2>3, <2>4, <2>5, m + 1 # 0, (m + 1) - 1 = m
  <2>8. h = [k \in 0 .. m + 1 |-> IF k = 0 THEN base ELSE F[<<k, h[k - 1]>>]]
    BY <2>6, <2>7
  <2>9. Runs(h, m + 1, base, F, S)
    BY <2>7, <2>8 DEF Runs
  <2> QED
    BY <2>9
<1>3. \A m \in Nat : m \in G => m + 1 \in G
  BY <1>2
<1> HIDE DEF G
<1>4. \A m \in Nat : m \in G
  BY <1>1, <1>3, NumberInduction
<1> USE DEF G
<1> QED
  BY <1>4

\* What holds of the first value and passes from each value to the next holds of
\* all.
LEMMA RecursionKeeps ==
    ASSUME NEW n \in Nat, NEW g, NEW S, g[0] \in S[0],
           \A k \in 1 .. n : g[k - 1] \in S[k - 1] => g[k] \in S[k]
    PROVE  \A k \in 0 .. n : g[k] \in S[k]
<1> DEFINE G == {m \in Nat : m <= n => g[m] \in S[m]}
<1>1. 0 \in G
  OBVIOUS
<1>2. ASSUME NEW m \in Nat, m \in G PROVE m + 1 \in G
  <2>1. CASE m + 1 <= n
    <3>1. m + 1 \in 1 .. n /\ (m + 1) - 1 = m /\ m <= n
      BY <2>1
    <3>2. g[m] \in S[m]
      BY <1>2, <3>1
    <3>3. g[m + 1] \in S[m + 1]
      BY <3>1, <3>2
    <3> QED
      BY <3>3
  <2> QED
    BY <2>1
<1> HIDE DEF G
<1>3. \A m \in Nat : m \in G
  BY <1>1, <1>2, NumberInduction
<1> USE DEF G
<1> QED
  BY <1>3

=============================================================================
