----------------------------- MODULE SumLemmas -----------------------------
(***************************************************************************)
(* Sums over finite sets. The folds of the community modules take the      *)
(* elements in the order of a CHOOSE; here their value is found to be the  *)
(* size of a set, which has no order. Induction over a finite set goes by  *)
(* a smallest counterexample.                                              *)
(***************************************************************************)
EXTENDS Naturals, FiniteSets, FiniteSetsExt, FiniteSetTheorems, TLAPS

(* A family of subsets of S that has each set whose proper subsets it has, *)
(* has S itself.                                                           *)
LEMMA StrongSetInduction ==
    ASSUME NEW S, IsFiniteSet(S), NEW Good,
           \A T \in SUBSET S : (\A U \in (SUBSET T) \ {T} : U \in Good) => T \in Good
    PROVE  S \in Good
<1> DEFINE Bad == {T \in SUBSET S : T \notin Good}
<1>1. SUFFICES ASSUME Bad # {}
               PROVE  FALSE
  OBVIOUS
<1>2. Bad \subseteq FiniteSubsetsOf(S)
  BY FS_FiniteSubsetsOfFinite
<1>3. \E T \in Bad : \A U \in Bad : ~ (<<U, T>> \in StrictSubsetOrdering(S))
  <2> HIDE DEF Bad
  <2>1. QED
    BY <1>1, <1>2, FS_StrictSubsetOrderingWellFounded, WFMin
<1>4. PICK T \in Bad : \A U \in Bad : ~ (<<U, T>> \in StrictSubsetOrdering(S))
  BY <1>3
<1>5. ASSUME NEW U \in (SUBSET T) \ {T}
      PROVE  U \in Good
  <2>1. <<U, T>> \in StrictSubsetOrdering(S)
    BY DEF StrictSubsetOrdering
  <2>2. QED
    BY <1>4, <2>1
<1>6. QED
  BY <1>5

(* The same, one element at a time.                                        *)
LEMMA SetInduction ==
    ASSUME NEW S, IsFiniteSet(S), NEW Good, {} \in Good,
           \A T \in SUBSET S : \A x \in S \ T : T \in Good => T \cup {x} \in Good
    PROVE  S \in Good
<1>1. ASSUME NEW T \in SUBSET S, \A U \in (SUBSET T) \ {T} : U \in Good
      PROVE  T \in Good
  <2>1. CASE T = {}
    BY <2>1
  <2>2. CASE T # {}
    <3>1. PICK x \in T : TRUE
      BY <2>2
    <3>2. /\ T \ {x} \in (SUBSET T) \ {T} /\ x \in S \ (T \ {x}) /\ T \ {x} \in SUBSET S
          /\ (T \ {x}) \cup {x} = T
      OBVIOUS
    <3>3. QED
      BY <1>1, <3>2
  <2>3. QED
    BY <2>1, <2>2
<1>2. QED
  BY <1>1, StrongSetInduction

(* A finite set of numbers that is not empty has a least and a greatest.   *)
LEMMA Extremes ==
    ASSUME NEW S, IsFiniteSet(S), S \subseteq Nat, S # {}
    PROVE  /\ \E x \in S : \A y \in S : x <= y
           /\ \E x \in S : \A y \in S : y <= x
<1> DEFINE Between(T) == /\ \E x \in T : \A y \in T : x <= y
                         /\ \E x \in T : \A y \in T : y <= x
           Good == {T \in SUBSET S : T # {} => Between(T)}
<1>1. {} \in Good
  <2>1. {} \in SUBSET S
    OBVIOUS
  <2>2. QED
    BY <2>1
<1>2. ASSUME NEW T \in SUBSET S, NEW z \in S \ T, T \in Good
      PROVE  T \cup {z} \in Good
  <2>1. T \cup {z} \in SUBSET S /\ T \cup {z} # {} /\ z \in Nat
    OBVIOUS
  <2>2. CASE T = {}
    BY <2>1, <2>2
  <2>3. CASE T # {}
    <3>1. PICK lo \in T : \A y \in T : lo <= y
      BY <1>2, <2>3
    <3>2. PICK hi \in T : \A y \in T : y <= hi
      BY <1>2, <2>3
    <3>3. T \subseteq Nat /\ lo \in Nat /\ hi \in Nat
      OBVIOUS
    <3>4. \E x \in T \cup {z} : \A y \in T \cup {z} : x <= y
      <4>1. CASE z <= lo
        BY <2>1, <3>1, <3>3, <4>1
      <4>2. CASE lo <= z
        BY <2>1, <3>1, <3>3, <4>2
      <4>3. QED
        BY <2>1, <3>3, <4>1, <4>2
    <3>5. \E x \in T \cup {z} : \A y \in T \cup {z} : y <= x
      <4>1. CASE hi <= z
        BY <2>1, <3>2, <3>3, <4>1
      <4>2. CASE z <= hi
        BY <2>1, <3>2, <3>3, <4>2
      <4>3. QED
        BY <2>1, <3>3, <4>1, <4>2
    <3>6. QED
      BY <2>1, <3>4, <3>5
  <2>4. QED
    BY <2>2, <2>3
<1>3. S \in Good
  <2> HIDE DEF Good
  <2>1. QED
    BY <1>1, <1>2, SetInduction
<1>4. QED
  BY <1>3
----------------------------------------------------------------------------
(* As many pairs for each element of T as f says.                          *)
Units(f, T) == {p \in T \X Nat : p[2] < f[p[1]]}

(* The sum of f over T.                                                    *)
Total(f, T) == Cardinality(Units(f, T))

LEMMA UnitsOfOne ==
    ASSUME NEW x, NEW n \in Nat
    PROVE  /\ IsFiniteSet({x} \X (0 .. n - 1))
           /\ Cardinality({x} \X (0 .. n - 1)) = n
<1>1. IsFiniteSet(0 .. n - 1) /\ Cardinality(0 .. n - 1) = n
  BY FS_Interval
<1>2. IsFiniteSet({x}) /\ Cardinality({x}) = 1
  BY FS_Singleton
<1>3. QED
  BY <1>1, <1>2, FS_Product

LEMMA TotalWithOne ==
    ASSUME NEW T, NEW x, x \notin T, NEW f, f[x] \in Nat, IsFiniteSet(Units(f, T))
    PROVE  /\ IsFiniteSet(Units(f, T \cup {x}))
           /\ Total(f, T \cup {x}) = Total(f, T) + f[x]
<1> DEFINE One == {x} \X (0 .. f[x] - 1)
<1>1. Units(f, T \cup {x}) = Units(f, T) \cup One
  BY DEF Units
<1>2. Units(f, T) \cap One = {}
  BY DEF Units
<1>3. IsFiniteSet(One) /\ Cardinality(One) = f[x]
  BY UnitsOfOne
<1> HIDE DEF One
<1>4. /\ IsFiniteSet(Units(f, T) \cup One)
      /\ Cardinality(Units(f, T) \cup One) = Cardinality(Units(f, T)) + Cardinality(One) - 0
  BY <1>2, <1>3, FS_Union, FS_EmptySet
<1>5. Cardinality(Units(f, T)) \in Nat
  BY FS_CardinalityType
<1>6. Cardinality(Units(f, T) \cup One) = Cardinality(Units(f, T)) + f[x]
  BY <1>3, <1>4, <1>5
<1>7. QED
  BY <1>1, <1>4, <1>6 DEF Total

LEMMA TotalNat ==
    ASSUME NEW S, IsFiniteSet(S), NEW f, \A x \in S : f[x] \in Nat
    PROVE  IsFiniteSet(Units(f, S)) /\ Total(f, S) \in Nat
<1> DEFINE Good == {T \in SUBSET S : IsFiniteSet(Units(f, T))}
<1>1. {} \in Good
  <2>1. Units(f, {}) = {}
    BY DEF Units
  <2>2. {} \in SUBSET S /\ IsFiniteSet({})
    BY FS_EmptySet
  <2>3. QED
    BY <2>1, <2>2
<1>2. ASSUME NEW T \in SUBSET S, NEW x \in S \ T, T \in Good
      PROVE  T \cup {x} \in Good
  BY <1>2, TotalWithOne
<1>3. S \in Good
  <2> HIDE DEF Good
  <2>1. QED
    BY <1>1, <1>2, SetInduction
<1>4. QED
  BY <1>3, FS_CardinalityType DEF Total

(* One element apart from the others.                                      *)
LEMMA TotalApart ==
    ASSUME NEW S, IsFiniteSet(S), NEW f, \A x \in S : f[x] \in Nat, NEW y \in S
    PROVE  /\ Total(f, S) = Total(f, S \ {y}) + f[y]
           /\ Total(f, S \ {y}) \in Nat
<1>1. IsFiniteSet(S \ {y}) /\ (S \ {y}) \cup {y} = S
  BY FS_RemoveElement
<1>2. IsFiniteSet(Units(f, S \ {y})) /\ Total(f, S \ {y}) \in Nat
  BY <1>1, TotalNat
<1>3. QED
  BY <1>1, <1>2, TotalWithOne

LEMMA TotalSame ==
    ASSUME NEW T, NEW f, NEW g, \A x \in T : f[x] = g[x]
    PROVE  Total(f, T) = Total(g, T)
<1>1. Units(f, T) = Units(g, T)
  BY DEF Units
<1>2. QED
  BY <1>1 DEF Total

(* What a change at one element does to the sum.                           *)
LEMMA TotalChange ==
    ASSUME NEW S, IsFiniteSet(S), NEW f, NEW g, NEW y \in S,
           \A x \in S : f[x] \in Nat /\ g[x] \in Nat /\ (x # y => f[x] = g[x])
    PROVE  /\ Total(f, S) \in Nat /\ Total(g, S) \in Nat
           /\ Total(g, S) + f[y] = Total(f, S) + g[y]
<1>1. Total(f, S \ {y}) = Total(g, S \ {y})
  BY TotalSame
<1>2. Total(f, S) = Total(f, S \ {y}) + f[y] /\ Total(f, S \ {y}) \in Nat
  BY TotalApart
<1>3. Total(g, S) = Total(g, S \ {y}) + g[y]
  BY TotalApart
<1>4. f[y] \in Nat /\ g[y] \in Nat
  OBVIOUS
<1>5. QED
  BY <1>1, <1>2, <1>3, <1>4

LEMMA TotalOfNone ==
    ASSUME NEW S, NEW f, \A x \in S : f[x] = 0
    PROVE  Total(f, S) = 0
<1>1. Units(f, S) = {}
  BY DEF Units
<1>2. QED
  BY <1>1, FS_EmptySet DEF Total

LEMMA TotalPlus ==
    ASSUME NEW S, IsFiniteSet(S), NEW f, NEW g, NEW h,
           \A x \in S : f[x] \in Nat /\ g[x] \in Nat /\ h[x] = f[x] + g[x]
    PROVE  /\ Total(f, S) \in Nat /\ Total(g, S) \in Nat
           /\ Total(h, S) = Total(f, S) + Total(g, S)
<1> DEFINE Good == {T \in SUBSET S : Total(h, T) = Total(f, T) + Total(g, T)}
<1>1. {} \in Good
  <2>1. Total(f, {}) = 0 /\ Total(g, {}) = 0 /\ Total(h, {}) = 0
    BY TotalOfNone
  <2>2. QED
    BY <2>1
<1>2. ASSUME NEW T \in SUBSET S, NEW x \in S \ T, T \in Good
      PROVE  T \cup {x} \in Good
  <2>1. IsFiniteSet(T)
    BY FS_Subset
  <2>2. /\ IsFiniteSet(Units(f, T)) /\ IsFiniteSet(Units(g, T)) /\ IsFiniteSet(Units(h, T))
        /\ Total(f, T) \in Nat /\ Total(g, T) \in Nat
    BY <2>1, TotalNat
  <2>3. f[x] \in Nat /\ g[x] \in Nat /\ h[x] \in Nat /\ h[x] = f[x] + g[x]
    OBVIOUS
  <2>4. /\ Total(f, T \cup {x}) = Total(f, T) + f[x]
        /\ Total(g, T \cup {x}) = Total(g, T) + g[x]
        /\ Total(h, T \cup {x}) = Total(h, T) + h[x]
    BY <2>2, <2>3, TotalWithOne
  <2>5. Total(h, T \cup {x}) = Total(f, T \cup {x}) + Total(g, T \cup {x})
    BY <1>2, <2>2, <2>3, <2>4
  <2>6. QED
    BY <2>5
<1>3. S \in Good
  <2> HIDE DEF Good
  <2>1. QED
    BY <1>1, <1>2, SetInduction
<1>4. QED
  BY <1>3, TotalNat

(* No element can have more than the sum.                                  *)
LEMMA TotalBounds ==
    ASSUME NEW S, IsFiniteSet(S), NEW f, \A x \in S : f[x] \in Nat, NEW y \in S
    PROVE  f[y] <= Total(f, S)
<1>1. f[y] \in Nat /\ Total(f, S) = Total(f, S \ {y}) + f[y] /\ Total(f, S \ {y}) \in Nat
  BY TotalApart
<1>2. QED
  BY <1>1
----------------------------------------------------------------------------
(* MapThenSumSet: the function its definition recurses with, and what that *)
(* function returns.                                                       *)
First(T) == CHOOSE x \in T : TRUE

Folds(g, f, S) ==
    g = [T \in SUBSET S |-> IF T = {} THEN 0 ELSE f[First(T)] + g[T \ {First(T)}]]

LEMMA FoldsTotal ==
    ASSUME NEW S, IsFiniteSet(S), NEW f, \A x \in S : f[x] \in Nat,
           NEW g, Folds(g, f, S)
    PROVE  g[S] = Total(f, S)
<1> DEFINE Good == {T \in SUBSET S : g[T] = Total(f, T)}
<1>1. ASSUME NEW T \in SUBSET S, \A U \in (SUBSET T) \ {T} : U \in Good
      PROVE  T \in Good
  <2>1. g[T] = IF T = {} THEN 0 ELSE f[First(T)] + g[T \ {First(T)}]
    BY Zenon DEF Folds
  <2>2. CASE T = {}
    <3>1. Total(f, {}) = 0
      BY TotalOfNone
    <3>2. QED
      BY <2>1, <2>2, <3>1
  <2>3. CASE T # {}
    <3>1. First(T) \in T
      BY <2>3 DEF First
    <3> DEFINE x == First(T)
    <3>2. T \ {x} \in (SUBSET T) \ {T} /\ x \in S
      BY <3>1
    <3>3. g[T \ {x}] = Total(f, T \ {x})
      BY <1>1, <3>2
    <3>4. IsFiniteSet(T) /\ \A y \in T : f[y] \in Nat
      BY FS_Subset
    <3>5. Total(f, T) = Total(f, T \ {x}) + f[x] /\ Total(f, T \ {x}) \in Nat
      BY <3>1, <3>4, TotalApart
    <3>6. g[T] = f[x] + g[T \ {x}] /\ f[x] \in Nat
      BY <2>1, <2>3, <3>2
    <3>7. QED
      BY <3>3, <3>5, <3>6
  <2>4. QED
    BY <2>2, <2>3
<1>2. S \in Good
  <2> HIDE DEF Good
  <2>1. QED
    BY <1>1, StrongSetInduction
<1>3. QED
  BY <1>2

LEMMA FoldsExists ==
    ASSUME NEW S, IsFiniteSet(S), NEW f, \A x \in S : f[x] \in Nat
    PROVE  \E g : Folds(g, f, S)
<1> DEFINE g == [T \in SUBSET S |-> Total(f, T)]
<1>1. ASSUME NEW T \in SUBSET S
      PROVE  g[T] = IF T = {} THEN 0 ELSE f[First(T)] + g[T \ {First(T)}]
  <2>1. g[T] = Total(f, T)
    OBVIOUS
  <2>2. CASE T = {}
    <3>1. Total(f, {}) = 0
      BY TotalOfNone
    <3>2. QED
      BY <2>1, <2>2, <3>1
  <2>3. CASE T # {}
    <3>1. First(T) \in T
      BY <2>3 DEF First
    <3>2. g[T \ {First(T)}] = Total(f, T \ {First(T)})
      OBVIOUS
    <3>3. IsFiniteSet(T) /\ \A y \in T : f[y] \in Nat
      BY FS_Subset
    <3>4. Total(f, T) = Total(f, T \ {First(T)}) + f[First(T)] /\ Total(f, T \ {First(T)}) \in Nat
      BY <3>1, <3>3, TotalApart
    <3>5. f[First(T)] \in Nat
      BY <3>1, <3>3
    <3> HIDE DEF g
    <3>6. QED
      BY <2>1, <2>3, <3>2, <3>4, <3>5
  <2>4. QED
    BY <2>2, <2>3
<1>2. g = [T \in SUBSET S |-> g[T]]
  OBVIOUS
<1> HIDE DEF g
<1>3. g = [T \in SUBSET S |-> IF T = {} THEN 0 ELSE f[First(T)] + g[T \ {First(T)}]]
  BY <1>1, <1>2
<1>4. QED
  BY <1>3 DEF Folds

LEMMA SumIsTotal ==
    ASSUME NEW S, IsFiniteSet(S), NEW f, \A x \in S : f[x] \in Nat
    PROVE  MapThenSumSet(LAMBDA x : f[x], S) = Total(f, S)
<1> DEFINE g == CHOOSE h : Folds(h, f, S)
<1>1. MapThenSumSet(LAMBDA x : f[x], S) = g[S]
  BY DEF MapThenSumSet, MapThenFoldSet, First, Folds
<1>2. Folds(g, f, S)
  BY FoldsExists
<1>3. QED
  BY <1>1, <1>2, FoldsTotal

(* FoldSet and FoldLeft: they take elements in some order, from the last   *)
(* one, and add each to what the fold of the others gives.                 *)
Chooses(c, S) == \A T \in SUBSET S : T # {} => c[T] \in T

FoldsBy(g, f, c, S) ==
    g = [T \in SUBSET S |-> IF T = {} THEN 0 ELSE g[T \ {c[T]}] + f[c[T]]]

LEMMA FoldsByTotal ==
    ASSUME NEW S, IsFiniteSet(S), NEW f, \A x \in S : f[x] \in Nat,
           NEW c, Chooses(c, S), NEW g, FoldsBy(g, f, c, S)
    PROVE  g[S] = Total(f, S)
<1> DEFINE Good == {T \in SUBSET S : g[T] = Total(f, T)}
<1>1. ASSUME NEW T \in SUBSET S, \A U \in (SUBSET T) \ {T} : U \in Good
      PROVE  T \in Good
  <2>1. g[T] = IF T = {} THEN 0 ELSE g[T \ {c[T]}] + f[c[T]]
    BY Zenon DEF FoldsBy
  <2>2. CASE T = {}
    <3>1. Total(f, {}) = 0
      BY TotalOfNone
    <3>2. QED
      BY <2>1, <2>2, <3>1
  <2>3. CASE T # {}
    <3> DEFINE x == c[T]
    <3>1. x \in T
      BY <2>3 DEF Chooses
    <3>2. T \ {x} \in (SUBSET T) \ {T} /\ x \in S
      BY <3>1
    <3>3. g[T \ {x}] = Total(f, T \ {x})
      BY <1>1, <3>2
    <3>4. IsFiniteSet(T) /\ \A y \in T : f[y] \in Nat
      BY FS_Subset
    <3>5. Total(f, T) = Total(f, T \ {x}) + f[x]
      BY <3>1, <3>4, TotalApart
    <3>6. g[T] = g[T \ {x}] + f[x]
      BY <2>1, <2>3
    <3>7. QED
      BY <3>3, <3>5, <3>6
  <2>4. QED
    BY <2>2, <2>3
<1>2. S \in Good
  <2> HIDE DEF Good
  <2>1. QED
    BY <1>1, StrongSetInduction
<1>3. QED
  BY <1>2

LEMMA FoldsByExists ==
    ASSUME NEW S, IsFiniteSet(S), NEW f, \A x \in S : f[x] \in Nat,
           NEW c, Chooses(c, S)
    PROVE  \E g : FoldsBy(g, f, c, S)
<1> DEFINE g == [T \in SUBSET S |-> Total(f, T)]
<1>1. ASSUME NEW T \in SUBSET S
      PROVE  g[T] = IF T = {} THEN 0 ELSE g[T \ {c[T]}] + f[c[T]]
  <2>1. g[T] = Total(f, T)
    OBVIOUS
  <2>2. CASE T = {}
    <3>1. Total(f, {}) = 0
      BY TotalOfNone
    <3>2. QED
      BY <2>1, <2>2, <3>1
  <2>3. CASE T # {}
    <3>1. c[T] \in T
      BY <2>3 DEF Chooses
    <3>2. g[T \ {c[T]}] = Total(f, T \ {c[T]})
      OBVIOUS
    <3>3. IsFiniteSet(T) /\ \A y \in T : f[y] \in Nat
      BY FS_Subset
    <3>4. Total(f, T) = Total(f, T \ {c[T]}) + f[c[T]]
      BY <3>1, <3>3, TotalApart
    <3> HIDE DEF g
    <3>5. QED
      BY <2>1, <2>3, <3>2, <3>4
  <2>4. QED
    BY <2>2, <2>3
<1>2. g = [T \in SUBSET S |-> g[T]]
  OBVIOUS
<1> HIDE DEF g
<1>3. g = [T \in SUBSET S |-> IF T = {} THEN 0 ELSE g[T \ {c[T]}] + f[c[T]]]
  BY <1>1, <1>2
<1>4. QED
  BY <1>3 DEF FoldsBy

(* A fold that adds f, by whatever name its step has.                      *)
LEMMA FoldedTotal ==
    ASSUME NEW S, IsFiniteSet(S), NEW f, \A x \in S : f[x] \in Nat,
           NEW c, Chooses(c, S)
    PROVE  (CHOOSE g : FoldsBy(g, f, c, S))[S] = Total(f, S)
<1> DEFINE g == CHOOSE h : FoldsBy(h, f, c, S)
<1>1. FoldsBy(g, f, c, S)
  BY FoldsByExists
<1> HIDE DEF g
<1>2. g[S] = Total(f, S)
  BY <1>1, FoldsByTotal
<1>3. QED
  BY <1>2 DEF g
============================================================================
