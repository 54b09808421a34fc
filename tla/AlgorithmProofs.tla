---------------------------- MODULE AlgorithmProofs ----------------------------
(***************************************************************************)
(* Proofs about the pure algorithms of the pipeline, for every input:      *)
(* what the stopping policy, the sliding window of the event-time replay,  *)
(* the causal replay, the extraction of S0 Evidence and of R1 lineages,    *)
(* and the fast path compute is what their references say, which know no state, fold, window or      *)
(* order of processing.                                                    *)
(*                                                                         *)
(* The first part is what the others and TelemetryProofs rest on:          *)
(* induction over the naturals and over finite sets, stated about sets of  *)
(* numbers and sets of sets, and the sum over a finite set                 *)
(* (SumFunctionOnSet of the community modules is a recursive function      *)
(* behind a CHOOSE).                                                       *)
(***************************************************************************)
EXTENDS FirstCyclePipeline, R1CausalReplay, R1EvidenceArtifacts, Integers, FiniteSets,
        Functions, Folds, FiniteSetTheorems, WellFoundedInduction, TLAPS

-----------------------------------------------------------------------------
(***************************************************************************)
(* Induction and finite sums                                               *)
(***************************************************************************)
\* A nonempty set of natural numbers has a least member.
LEMMA FirstExists ==
    ASSUME NEW S \in SUBSET Nat, S # {}
    PROVE  \E i \in S : \A j \in S : i <= j
<1> DEFINE R == {ss \in Nat \X Nat : ss[1] < ss[2]}
<1>1. IsWellFoundedOn(R, Nat)
  BY NatLessThanWellFounded DEF OpToRel
<1>2. \E i \in S : \A j \in S : <<j, i>> \notin R
  <2> HIDE DEF R
  <2> QED  BY <1>1, WFMin
<1>3. \A i, j \in Nat : <<j, i>> \notin R => i <= j
  <2> SUFFICES ASSUME NEW i \in Nat, NEW j \in Nat, j < i
               PROVE  <<j, i>> \in R
    OBVIOUS
  <2> QED  OBVIOUS
<1> QED
  <2> HIDE DEF R
  <2> QED  BY <1>2, <1>3

\* Induction over the natural numbers, the property given as a set.
LEMMA Induction ==
    ASSUME NEW S \in SUBSET Nat, 0 \in S, \A n \in S : n + 1 \in S
    PROVE  S = Nat
<1>1. SUFFICES ASSUME Nat \ S # {}
               PROVE  FALSE
  OBVIOUS
<1>2. PICK i \in Nat \ S : \A j \in Nat \ S : i <= j
  BY <1>1, FirstExists
<1>3. i - 1 \in Nat /\ i - 1 \in S
  BY <1>2
<1> QED  BY <1>2, <1>3

\* Induction over the subsets of a finite set.
LEMMA FiniteInduction ==
    ASSUME NEW S, IsFiniteSet(S), NEW Good \in SUBSET SUBSET S, {} \in Good,
           \A T \in Good, x \in S : x \notin T => T \cup {x} \in Good
    PROVE  S \in Good
<1> DEFINE N == {n \in Nat : \A T \in SUBSET S : Cardinality(T) = n => T \in Good}
<1>1. \A T \in SUBSET S : IsFiniteSet(T) /\ Cardinality(T) \in Nat
  BY FS_Subset, FS_CardinalityType
<1>2. 0 \in N
  BY <1>1, FS_EmptySet
<1>3. ASSUME NEW n \in N
      PROVE  n + 1 \in N
  <2> SUFFICES ASSUME NEW T \in SUBSET S, Cardinality(T) = n + 1
               PROVE  T \in Good
    OBVIOUS
  <2>1. n \in Nat
    OBVIOUS
  <2>2. PICK x \in T : TRUE
    BY <1>1, <2>1, FS_EmptySet
  <2>3. Cardinality(T \ {x}) = n
    BY <1>1, <2>1, <2>2, FS_RemoveElement
  <2>4. T \ {x} \in Good
    BY <2>3
  <2>5. (T \ {x}) \cup {x} = T
    BY <2>2
  <2> QED  BY <2>2, <2>4, <2>5
<1>4. N = Nat
  <2> HIDE DEF N
  <2>1. N \in SUBSET Nat
    BY DEF N
  <2> QED  BY <1>2, <1>3, <2>1, Induction
<1> QED  BY <1>1, <1>4

\* The values of a function over a finite set.
LEMMA FiniteValues ==
    ASSUME NEW f, NEW S, IsFiniteSet(S)
    PROVE  IsFiniteSet({f[x] : x \in S})
<1> DEFINE V(T) == {f[x] : x \in T}
           Good == {T \in SUBSET S : IsFiniteSet(V(T))}
<1>1. {} \in Good
  <2>1. V({}) = {}
    OBVIOUS
  <2> QED  BY <2>1, FS_EmptySet
<1>2. ASSUME NEW T \in Good, NEW x \in S, x \notin T
      PROVE  T \cup {x} \in Good
  <2>1. V(T \cup {x}) = V(T) \cup {f[x]}
    OBVIOUS
  <2>2. IsFiniteSet(V(T))
    OBVIOUS
  <2> HIDE DEF V
  <2>3. IsFiniteSet(V(T) \cup {f[x]})
    BY <2>2, FS_AddElement
  <2> QED  BY <2>1, <2>3
<1>3. S \in Good
  <2> HIDE DEF Good
  <2>1. Good \in SUBSET SUBSET S
    BY DEF Good
  <2> QED  BY <1>1, <1>2, <2>1, FiniteInduction
<1> QED  BY <1>3

-----------------------------------------------------------------------------
\* The recursive function behind a sum over a set.
OneOf(T) == CHOOSE x \in T : TRUE

Walks(it, f, S) ==
    it = [T \in SUBSET S |-> IF T = {} THEN 0 ELSE f[OneOf(T)] + it[T \ {OneOf(T)}]]

Sum(f, S) == SumFunctionOnSet(f, S)

LEMMA SumIsChosen ==
    ASSUME NEW f, NEW S
    PROVE  Sum(f, S) = (CHOOSE it : Walks(it, f, S))[S]
  BY Zenon DEF Sum, SumFunctionOnSet, FoldFunctionOnSet, MapThenFoldSet, Walks, OneOf

\* A finite set without one of its elements is smaller.
LEMMA FewerElements ==
    ASSUME NEW T, IsFiniteSet(T), T # {}
    PROVE  LET x == OneOf(T)
           IN  /\ x \in T /\ IsFiniteSet(T \ {x})
               /\ Cardinality(T) \in Nat \ {0}
               /\ Cardinality(T \ {x}) = Cardinality(T) - 1
<1> DEFINE x == OneOf(T)
<1>1. x \in T
  BY DEF OneOf
<1> HIDE DEF x
<1>2. /\ IsFiniteSet(T \ {x}) /\ Cardinality(T) \in Nat /\ Cardinality(T) # 0
      /\ Cardinality(T \ {x}) = Cardinality(T) - 1
  BY <1>1, FS_RemoveElement, FS_CardinalityType, FS_EmptySet
<1> QED  BY <1>1, <1>2 DEF x

\* A set can be walked one element at a time, adding up as SumFunctionOnSet does.
LEMMA WalkExists ==
    ASSUME NEW f, NEW S, IsFiniteSet(S)
    PROVE  \E it : Walks(it, f, S)
<1> DEFINE D(n) == {T \in SUBSET S : Cardinality(T) <= n}
           Upto(it, n) ==
              it = [T \in D(n) |-> IF T = {} THEN 0 ELSE f[OneOf(T)] + it[T \ {OneOf(T)}]]
           N == {n \in Nat : \E it : Upto(it, n)}
<1>1. ASSUME NEW T \in SUBSET S
      PROVE  Cardinality(T) \in Nat /\ (T # {} => Cardinality(T) # 0)
  BY FS_Subset, FS_CardinalityType, FewerElements
<1>2. ASSUME NEW T \in SUBSET S, T # {}
      PROVE  /\ OneOf(T) \in T /\ T \ {OneOf(T)} \in SUBSET S
             /\ Cardinality(T \ {OneOf(T)}) = Cardinality(T) - 1
  BY <1>2, FS_Subset, FewerElements
<1>3. 0 \in N
  <2> DEFINE it == [T \in D(0) |-> 0]
  <2>1. ASSUME NEW T \in D(0)
        PROVE  T = {}
    <3>1. T \in SUBSET S /\ Cardinality(T) <= 0
      OBVIOUS
    <3> QED  BY <1>1, <3>1
  <2>2. it = [T \in D(0) |-> IF T = {} THEN 0 ELSE f[OneOf(T)] + it[T \ {OneOf(T)}]]
    BY <2>1
  <2>3. Upto(it, 0)
    BY <2>2
  <2> HIDE DEF it, Upto
  <2> QED  BY <2>3
<1>4. ASSUME NEW n \in N
      PROVE  n + 1 \in N
  <2>1. PICK g : Upto(g, n)
    OBVIOUS
  <2>2. n \in Nat
    OBVIOUS
  <2> DEFINE h == [T \in D(n + 1) |-> IF T = {} THEN 0 ELSE f[OneOf(T)] + g[T \ {OneOf(T)}]]
  <2>3. ASSUME NEW T \in D(n + 1), T # {}
        PROVE  h[T \ {OneOf(T)}] = g[T \ {OneOf(T)}]
    <3> DEFINE U == T \ {OneOf(T)}
    <3>1. U \in D(n) /\ U \in D(n + 1)
      <4>1. T \in SUBSET S /\ Cardinality(T) <= n + 1 /\ Cardinality(T) \in Nat
        BY <1>1
      <4>2. U \in SUBSET S /\ Cardinality(U) = Cardinality(T) - 1
        BY <1>2, <2>3, <4>1
      <4> QED  BY <2>2, <4>1, <4>2
    <3> HIDE DEF U
    <3>2. g[U] = IF U = {} THEN 0 ELSE f[OneOf(U)] + g[U \ {OneOf(U)}]
      BY <2>1, <3>1
    <3>3. h[U] = IF U = {} THEN 0 ELSE f[OneOf(U)] + g[U \ {OneOf(U)}]
      BY <3>1
    <3> QED  BY <3>2, <3>3 DEF U
  <2>4. h = [T \in D(n + 1) |-> IF T = {} THEN 0 ELSE f[OneOf(T)] + h[T \ {OneOf(T)}]]
    BY <2>3
  <2>5. Upto(h, n + 1)
    BY <2>4
  <2> HIDE DEF h, Upto
  <2> QED  BY <2>2, <2>5
<1>5. N = Nat
  <2>1. N \in SUBSET Nat
    OBVIOUS
  <2> HIDE DEF N
  <2> QED  BY <1>3, <1>4, <2>1, Induction
<1>6. Cardinality(S) \in Nat
  BY FS_CardinalityType
<1>7. PICK it : Upto(it, Cardinality(S))
  BY <1>5, <1>6
<1>8. D(Cardinality(S)) = SUBSET S
  BY FS_Subset
<1>9. it = [T \in SUBSET S |-> IF T = {} THEN 0 ELSE f[OneOf(T)] + it[T \ {OneOf(T)}]]
  BY <1>7, <1>8
<1> QED  BY <1>9 DEF Walks

\* Two walks agree on the sets both have come by.
LEMMA WalkAgrees ==
    ASSUME NEW f, NEW S, NEW R, IsFiniteSet(S), R \subseteq S,
           NEW a, Walks(a, f, S), NEW b, Walks(b, f, R)
    PROVE  a[R] = b[R]
<1> DEFINE N == {n \in Nat : \A T \in SUBSET R : Cardinality(T) = n => a[T] = b[T]}
<1>1. ASSUME NEW T \in SUBSET R
      PROVE  IsFiniteSet(T) /\ Cardinality(T) \in Nat
  BY FS_Subset, FS_CardinalityType
<1>2. 0 \in N
  <2>1. a[{}] = 0 /\ b[{}] = 0
    BY DEF Walks
  <2> QED  BY <1>1, <2>1, FS_EmptySet
<1>3. ASSUME NEW n \in N
      PROVE  n + 1 \in N
  <2> SUFFICES ASSUME NEW T \in SUBSET R, Cardinality(T) = n + 1
               PROVE  a[T] = b[T]
    OBVIOUS
  <2> DEFINE x == OneOf(T)
  <2>1. n \in Nat /\ T # {}
    BY <1>1, FS_EmptySet
  <2>2. Cardinality(T \ {x}) = n /\ T \ {x} \in SUBSET R
    BY <1>1, <2>1, FewerElements
  <2>3. a[T] = f[x] + a[T \ {x}] /\ b[T] = f[x] + b[T \ {x}]
    BY <2>1 DEF Walks
  <2>4. a[T \ {x}] = b[T \ {x}]
    BY <2>2
  <2> QED  BY <2>3, <2>4
<1>4. N = Nat
  <2>1. N \in SUBSET Nat
    OBVIOUS
  <2> HIDE DEF N
  <2> QED  BY <1>2, <1>3, <2>1, Induction
<1> QED  BY <1>1, <1>4

\* A sum over a set is the value of an element and the sum over the others.
LEMMA SumStep ==
    ASSUME NEW f, NEW S, IsFiniteSet(S)
    PROVE  /\ S = {} => Sum(f, S) = 0
           /\ S # {} => LET x == OneOf(S)
                        IN  Sum(f, S) = f[x] + Sum(f, S \ {x})
<1> DEFINE x == OneOf(S)
           R == S \ {x}
           a == CHOOSE it : Walks(it, f, S)
           b == CHOOSE it : Walks(it, f, R)
<1>1. R \subseteq S /\ IsFiniteSet(R)
  BY FS_Subset
<1>2. Walks(a, f, S) /\ Walks(b, f, R)
  BY <1>1, WalkExists
<1>3. Sum(f, S) = a[S] /\ Sum(f, R) = b[R]
  BY SumIsChosen
<1> HIDE DEF a, b
<1>4. a[R] = b[R]
  BY <1>1, <1>2, WalkAgrees
<1>5. a[S] = IF S = {} THEN 0 ELSE f[x] + a[R]
  BY <1>2 DEF Walks
<1> QED  BY <1>3, <1>4, <1>5

AllNat(f, S) == \A x \in S : f[x] \in Nat

\* ... and so it is for whatever element one takes.
LEMMA SumRemove ==
    ASSUME NEW f, NEW S, IsFiniteSet(S), AllNat(f, S)
    PROVE  /\ Sum(f, S) \in Nat
           /\ \A x \in S : Sum(f, S) = f[x] + Sum(f, S \ {x})
<1> DEFINE Splits(T) ==
             /\ Sum(f, T) \in Nat
             /\ \A x \in T : Sum(f, T) = f[x] + Sum(f, T \ {x})
           N == {n \in Nat : \A T \in SUBSET S : Cardinality(T) <= n => Splits(T)}
<1>1. ASSUME NEW T \in SUBSET S
      PROVE  IsFiniteSet(T) /\ Cardinality(T) \in Nat /\ (Cardinality(T) = 0 <=> T = {})
  BY FS_Subset, FS_CardinalityType, FS_EmptySet
<1>2. 0 \in N
  <2>1. Sum(f, {}) = 0
    BY FS_EmptySet, SumStep
  <2>2. ASSUME NEW T \in SUBSET S, Cardinality(T) <= 0
        PROVE  T = {}
    BY <1>1, <2>2
  <2>3. Splits({})
    BY <2>1
  <2> HIDE DEF Splits
  <2> QED  BY <2>2, <2>3
<1>3. ASSUME NEW n \in N
      PROVE  n + 1 \in N
  <2>1. n \in Nat /\ \A U \in SUBSET S : Cardinality(U) <= n => Splits(U)
    OBVIOUS
  <2> HIDE DEF Splits
  <2> SUFFICES ASSUME NEW T \in SUBSET S, Cardinality(T) = n + 1
               PROVE  Splits(T)
    <3>1. ASSUME NEW T \in SUBSET S, Cardinality(T) <= n + 1, Cardinality(T) # n + 1
          PROVE  Cardinality(T) <= n
      BY <1>1, <2>1, <3>1
    <3> QED  BY <2>1, <3>1
  <2> DEFINE c == OneOf(T)
  <2>2. T # {} /\ IsFiniteSet(T)
    BY <1>1, <2>1
  <2>3. c \in T /\ T \ {c} \in SUBSET S /\ Cardinality(T \ {c}) = n
    BY <2>1, <2>2, FewerElements DEF OneOf
  <2>4. Sum(f, T) = f[c] + Sum(f, T \ {c})
    BY <2>2, SumStep
  <2> HIDE DEF c
  <2>5. Splits(T \ {c})
    BY <2>1, <2>3
  <2>6. f[c] \in Nat /\ Sum(f, T \ {c}) \in Nat
    BY <2>3, <2>5 DEF Splits, AllNat
  <2>7. ASSUME NEW x \in T, x # c
        PROVE  Sum(f, T) = f[x] + Sum(f, T \ {x})
    <3>1. /\ T \ {x} \in SUBSET S /\ Cardinality(T \ {x}) = n
          /\ c \in T \ {x} /\ x \in T \ {c} /\ f[x] \in Nat
      BY <2>1, <2>2, <2>3, <2>7, FS_RemoveElement DEF AllNat
    <3>2. Splits(T \ {x})
      BY <2>1, <3>1
    <3>3. /\ Sum(f, T \ {x}) = f[c] + Sum(f, (T \ {x}) \ {c})
          /\ Sum(f, T \ {c}) = f[x] + Sum(f, (T \ {c}) \ {x})
      BY <2>5, <3>1, <3>2 DEF Splits
    <3>4. (T \ {x}) \ {c} = (T \ {c}) \ {x}
      OBVIOUS
    <3> DEFINE r == Sum(f, (T \ {c}) \ {x})
    <3>5. r \in Nat
      <4> DEFINE U == (T \ {c}) \ {x}
      <4>1. IsFiniteSet(T \ {c}) /\ U \in SUBSET S
        BY <1>1, <2>3
      <4>2. Cardinality(U) = n - 1
        <5> DEFINE V == T \ {c}
        <5>1. IsFiniteSet(V) /\ x \in V /\ Cardinality(V) = n
          BY <2>3, <3>1, <4>1
        <5> HIDE DEF V
        <5>2. Cardinality(V \ {x}) = n - 1
          BY <5>1, FS_RemoveElement
        <5> QED  BY <5>2 DEF V
      <4>3. Cardinality(U) <= n
        BY <2>1, <4>2
      <4> HIDE DEF U
      <4>4. Splits(U)
        BY <2>1, <4>1, <4>3
      <4> QED  BY <4>4 DEF Splits, U
    <3>6. Sum(f, T \ {x}) = f[c] + r /\ Sum(f, T \ {c}) = f[x] + r
      BY <3>3, <3>4
    <3> HIDE DEF r
    <3> QED  BY <2>4, <2>6, <3>1, <3>5, <3>6
  <2>8. \A x \in T : Sum(f, T) = f[x] + Sum(f, T \ {x})
    BY <2>4, <2>7
  <2>9. Sum(f, T) \in Nat
    BY <2>4, <2>6
  <2> QED  BY <2>8, <2>9 DEF Splits
<1>4. N = Nat
  <2>1. N \in SUBSET Nat
    OBVIOUS
  <2> HIDE DEF N
  <2> QED  BY <1>2, <1>3, <2>1, Induction
<1>5. Splits(S)
  <2>1. Cardinality(S) \in N
    BY <1>1, <1>4
  <2> HIDE DEF Splits
  <2> QED  BY <1>1, <2>1
<1> QED  BY <1>5

LEMMA SumSame ==
    ASSUME NEW f, NEW g, NEW S, IsFiniteSet(S), \A x \in S : f[x] = g[x]
    PROVE  Sum(f, S) = Sum(g, S)
<1> DEFINE Good == {T \in SUBSET S : Sum(f, T) = Sum(g, T)}
           N == {n \in Nat : \A T \in SUBSET S : Cardinality(T) = n => T \in Good}
<1>1. ASSUME NEW T \in SUBSET S
      PROVE  IsFiniteSet(T) /\ Cardinality(T) \in Nat /\ (Cardinality(T) = 0 <=> T = {})
  BY FS_Subset, FS_CardinalityType, FS_EmptySet
<1>2. 0 \in N
  <2>1. Sum(f, {}) = 0 /\ Sum(g, {}) = 0
    BY FS_EmptySet, SumStep
  <2> QED  BY <1>1, <2>1
<1>3. ASSUME NEW n \in N
      PROVE  n + 1 \in N
  <2> SUFFICES ASSUME NEW T \in SUBSET S, Cardinality(T) = n + 1
               PROVE  T \in Good
    OBVIOUS
  <2> DEFINE c == OneOf(T)
  <2>1. n \in Nat /\ T # {} /\ IsFiniteSet(T)
    BY <1>1
  <2>2. c \in T /\ T \ {c} \in SUBSET S /\ Cardinality(T \ {c}) = n
    BY <2>1, FewerElements DEF OneOf
  <2>3. Sum(f, T) = f[c] + Sum(f, T \ {c}) /\ Sum(g, T) = g[c] + Sum(g, T \ {c})
    BY <2>1, SumStep
  <2>4. T \ {c} \in Good
    BY <2>2
  <2> HIDE DEF c
  <2> QED  BY <2>2, <2>3, <2>4
<1>4. N = Nat
  <2>1. N \in SUBSET Nat
    OBVIOUS
  <2> HIDE DEF N
  <2> QED  BY <1>2, <1>3, <2>1, Induction
<1> QED  BY <1>1, <1>4

\* A sum with one more element.
LEMMA SumAdd ==
    ASSUME NEW f, NEW S, IsFiniteSet(S), NEW x, x \notin S, AllNat(f, S), f[x] \in Nat
    PROVE  /\ Sum(f, S) \in Nat
           /\ Sum(f, S \cup {x}) = Sum(f, S) + f[x]
<1> DEFINE T == S \cup {x}
<1>1. IsFiniteSet(T) /\ AllNat(f, T) /\ x \in T
  BY FS_AddElement DEF AllNat
<1>2. T \ {x} = S
  OBVIOUS
<1> HIDE DEF T
<1>3. Sum(f, T) = f[x] + Sum(f, S) /\ Sum(f, S) \in Nat
  BY <1>1, <1>2, SumRemove
<1> QED  BY <1>3 DEF T

LEMMA SumNothing == ASSUME NEW f PROVE Sum(f, {}) = 0
  BY FS_EmptySet, SumStep

LEMMA SumIsNat ==
    ASSUME NEW f, NEW S, IsFiniteSet(S), AllNat(f, S)
    PROVE  Sum(f, S) \in Nat
  BY SumRemove

\* The sum over two disjoint sets.
LEMMA SumJoin ==
    ASSUME NEW f, NEW R, NEW S, IsFiniteSet(R), IsFiniteSet(S), R \cap S = {},
           AllNat(f, R), AllNat(f, S)
    PROVE  Sum(f, R \cup S) = Sum(f, R) + Sum(f, S)
<1> DEFINE Good == {T \in SUBSET S : Sum(f, R \cup T) = Sum(f, R) + Sum(f, T)}
<1>1. {} \in Good
  <2>1. Sum(f, R) \in Nat /\ Sum(f, {}) = 0 /\ R \cup {} = R
    BY SumIsNat, SumNothing
  <2> QED  BY <2>1
<1>2. ASSUME NEW T \in Good, NEW x \in S, x \notin T
      PROVE  T \cup {x} \in Good
  <2>1. /\ IsFiniteSet(T) /\ IsFiniteSet(R \cup T) /\ x \notin R \cup T
        /\ AllNat(f, T) /\ AllNat(f, R \cup T) /\ f[x] \in Nat
    BY <1>2, FS_Subset, FS_Union DEF AllNat
  <2>2. /\ Sum(f, T \cup {x}) = Sum(f, T) + f[x]
        /\ Sum(f, (R \cup T) \cup {x}) = Sum(f, R \cup T) + f[x]
    BY <1>2, <2>1, SumAdd
  <2>3. Sum(f, R) \in Nat /\ Sum(f, T) \in Nat
    BY <2>1, SumIsNat
  <2>4. (R \cup T) \cup {x} = R \cup (T \cup {x})
    OBVIOUS
  <2>5. Sum(f, R \cup (T \cup {x})) = (Sum(f, R) + Sum(f, T)) + f[x]
    BY <2>2, <2>4
  <2>6. Sum(f, R \cup (T \cup {x})) = Sum(f, R) + Sum(f, T \cup {x})
    BY <2>1, <2>2, <2>3, <2>5
  <2> QED  BY <2>6
<1>3. S \in Good
  <2>1. Good \in SUBSET SUBSET S
    OBVIOUS
  <2> HIDE DEF Good
  <2> QED  BY <1>1, <1>2, <2>1, FiniteInduction
<1> QED  BY <1>3

\* Sums of two functions.
LEMMA SumPlus ==
    ASSUME NEW f, NEW g, NEW h, NEW S, IsFiniteSet(S), AllNat(f, S), AllNat(g, S),
           \A x \in S : h[x] = f[x] + g[x]
    PROVE  Sum(h, S) = Sum(f, S) + Sum(g, S)
<1> DEFINE Good == {T \in SUBSET S : Sum(h, T) = Sum(f, T) + Sum(g, T)}
<1>1. {} \in Good
  BY SumNothing
<1>2. ASSUME NEW T \in Good, NEW x \in S, x \notin T
      PROVE  T \cup {x} \in Good
  <2>1. /\ IsFiniteSet(T) /\ AllNat(f, T) /\ AllNat(g, T) /\ AllNat(h, T)
        /\ f[x] \in Nat /\ g[x] \in Nat /\ h[x] \in Nat /\ h[x] = f[x] + g[x]
    BY <1>2, FS_Subset DEF AllNat
  <2>2. /\ Sum(f, T \cup {x}) = Sum(f, T) + f[x] /\ Sum(g, T \cup {x}) = Sum(g, T) + g[x]
        /\ Sum(h, T \cup {x}) = Sum(h, T) + h[x]
    BY <1>2, <2>1, SumAdd
  <2>3. Sum(f, T) \in Nat /\ Sum(g, T) \in Nat
    BY <2>1, SumIsNat
  <2> QED  BY <2>1, <2>2, <2>3
<1>3. S \in Good
  <2>1. Good \in SUBSET SUBSET S
    OBVIOUS
  <2> HIDE DEF Good
  <2> QED  BY <1>1, <1>2, <2>1, FiniteInduction
<1> QED  BY <1>3

LEMMA SumZeros ==
    ASSUME NEW f, NEW S, IsFiniteSet(S), \A x \in S : f[x] = 0
    PROVE  Sum(f, S) = 0
<1> DEFINE Good == {T \in SUBSET S : Sum(f, T) = 0}
<1>1. {} \in Good
  BY SumNothing
<1>2. ASSUME NEW T \in Good, NEW x \in S, x \notin T
      PROVE  T \cup {x} \in Good
  <2>1. IsFiniteSet(T) /\ AllNat(f, T) /\ f[x] \in Nat /\ f[x] = 0
    BY <1>2, FS_Subset DEF AllNat
  <2> QED  BY <1>2, <2>1, SumAdd
<1>3. S \in Good
  <2>1. Good \in SUBSET SUBSET S
    OBVIOUS
  <2> HIDE DEF Good
  <2> QED  BY <1>1, <1>2, <2>1, FiniteInduction
<1> QED  BY <1>3

\* What is zero elsewhere may be summed over more.
LEMMA SumWider ==
    ASSUME NEW f, NEW R, NEW S, IsFiniteSet(S), R \subseteq S, AllNat(f, R),
           \A x \in S \ R : f[x] = 0
    PROVE  Sum(f, S) = Sum(f, R)
<1>1. /\ IsFiniteSet(R) /\ IsFiniteSet(S \ R) /\ R \cap (S \ R) = {}
      /\ R \cup (S \ R) = S /\ AllNat(f, S \ R)
  BY FS_Subset DEF AllNat
<1>2. Sum(f, R \cup (S \ R)) = Sum(f, R) + Sum(f, S \ R)
  BY <1>1, SumJoin
<1>3. Sum(f, S \ R) = 0 /\ Sum(f, R) \in Nat
  BY <1>1, SumZeros, SumIsNat
<1> QED  BY <1>1, <1>2, <1>3

LEMMA SumOrder ==
    ASSUME NEW f, NEW g, NEW S, IsFiniteSet(S), AllNat(f, S), AllNat(g, S),
           \A x \in S : f[x] <= g[x]
    PROVE  Sum(f, S) <= Sum(g, S)
<1> DEFINE h == [x \in S |-> g[x] - f[x]]
<1>1. AllNat(h, S) /\ \A x \in S : g[x] = f[x] + h[x]
  BY DEF AllNat
<1> HIDE DEF h
<1>2. Sum(g, S) = Sum(f, S) + Sum(h, S)
  BY <1>1, SumPlus
<1> QED  BY <1>1, <1>2, SumIsNat

\* A sum of natural numbers is none only of nothing.
LEMMA SumPositive ==
    ASSUME NEW f, NEW S, IsFiniteSet(S), AllNat(f, S)
    PROVE  \A x \in S : f[x] <= Sum(f, S)
<1> SUFFICES ASSUME NEW x \in S
             PROVE  f[x] <= Sum(f, S)
  OBVIOUS
<1>1. IsFiniteSet(S \ {x}) /\ AllNat(f, S \ {x}) /\ f[x] \in Nat
  BY FS_Subset DEF AllNat
<1>2. Sum(f, S) = f[x] + Sum(f, S \ {x}) /\ Sum(f, S \ {x}) \in Nat
  BY <1>1, SumRemove
<1> QED  BY <1>1, <1>2

\* The sum of a function over its domain.
LEMMA SumOfFunction ==
    ASSUME NEW f, NEW S, DOMAIN f = S
    PROVE  SumFunction(f) = Sum(f, S)
  BY DEF SumFunction, Sum

-----------------------------------------------------------------------------
\* The second that a time lies in.
LEMMA Larger ==
    ASSUME NEW a \in Int, NEW b \in Int, a <= b, NEW k \in Nat
    PROVE  a * k <= b * k
  OBVIOUS
LEMMA Division ==
    ASSUME NEW at \in Int, NEW S \in Nat \ {0}
    PROVE  /\ at \div S \in Int
           /\ (at \div S) * S <= at /\ at < ((at \div S) + 1) * S
<1>1. at \div S \in Int /\ at % S \in 0..(S - 1) /\ at = S * (at \div S) + (at % S)
  OBVIOUS
<1> DEFINE q == at \div S
           r == at % S
<1> HIDE DEF q, r
<1>2. q \in Int /\ r \in Int /\ 0 <= r /\ r < S /\ at = S * q + r
  BY <1>1 DEF q, r
<1>3. q * S <= at /\ at < (q + 1) * S
  BY <1>2
<1> QED  BY <1>2, <1>3 DEF q

LEMMA InSecond ==
    ASSUME NEW x \in Int, NEW at \in Int, NEW S \in Nat \ {0}
    PROVE  x * S <= at /\ at < (x + 1) * S <=> at \div S = x
<1> DEFINE q == at \div S
<1>1. q \in Int /\ q * S <= at /\ at < (q + 1) * S
  BY Division
<1> HIDE DEF q
<1>2. CASE q < x
  <2>1. (q + 1) * S <= x * S
    BY <1>1, <1>2, Larger
  <2> QED  BY <1>1, <1>2, <2>1 DEF q
<1>3. CASE x < q
  <2>1. (x + 1) * S <= q * S
    BY <1>1, <1>3, Larger
  <2> QED  BY <1>1, <1>3, <2>1 DEF q
<1>4. CASE q = x
  BY <1>1, <1>4 DEF q
<1> QED  BY <1>1, <1>2, <1>3, <1>4

\* What Append does to a sequence.
LEMMA AppendedTo ==
    ASSUME NEW T, NEW q \in Seq(T), NEW x
    PROVE  /\ Append(q, x) \in Seq(T \cup {x})
           /\ Len(q) \in Nat /\ Len(Append(q, x)) = Len(q) + 1
           /\ DOMAIN q = 1..Len(q) /\ DOMAIN Append(q, x) = 1..(Len(q) + 1)
           /\ Append(q, x)[Len(q) + 1] = x
           /\ \A i \in 1..Len(q) : Append(q, x)[i] = q[i]
<1>1. q \in Seq(T \cup {x}) /\ x \in T \cup {x}
  OBVIOUS
<1> QED  BY <1>1

ListOfOwn(q) == q \in Seq({q[i] : i \in DOMAIN q})

LEMMA OwnSequence ==
    ASSUME NEW T, NEW q \in Seq(T)
    PROVE  ListOfOwn(q)
<1>1. q = [i \in 1..Len(q) |-> q[i]] /\ Len(q) \in Nat /\ DOMAIN q = 1..Len(q)
  OBVIOUS
<1> DEFINE S == {q[i] : i \in DOMAIN q}
<1>2. \A i \in 1..Len(q) : q[i] \in S
  BY <1>1
<1> HIDE DEF S
<1>3. q \in Seq(S)
  BY <1>1, <1>2
<1> QED  BY <1>3 DEF ListOfOwn, S

-----------------------------------------------------------------------------
(***************************************************************************)
(* The stopping policy                                                     *)
(***************************************************************************)

\* A configuration as the code builds it: numbers, and finitely many types.
Numeric(c) ==
    /\ c.window \in Nat \ {0} /\ c.step \in Nat \ {0} /\ c.k \in Nat \ {0}
    /\ c.on \in 0..100 /\ c.off \in 0..100 /\ c.off < c.on
    /\ IsFiniteSet(c.types) /\ c.types # {}

IsPoint(p) == p = [timestamp |-> p.timestamp, score |-> p.score] /\ p.score \in Nat

Hit(c, p) == AtLeast(c, p.score, c.on)
Low(c, p) == ~AtLeast(c, p.score, c.off)

\* A point cannot be at or above threshold_on and below threshold_off.
LEMMA HitIsNotLow ==
    ASSUME NEW c, Numeric(c), NEW p, p.score \in Nat, Hit(c, p)
    PROVE  ~Low(c, p)
<1>1. Cardinality(c.types) \in Nat
  BY FS_CardinalityType DEF Numeric
<1>2. c.on \in Nat /\ c.off \in Nat /\ c.off <= c.on
  BY DEF Numeric
<1>3. c.off * Cardinality(c.types) <= c.on * Cardinality(c.types)
  BY <1>1, <1>2, Larger
<1> DEFINE low == c.off * Cardinality(c.types)
           high == c.on * Cardinality(c.types)
<1>4. low \in Int /\ high \in Int /\ low <= high
  BY <1>1, <1>2, <1>3
<1>5. p.score * 100 >= high
  BY DEF Hit, AtLeast
<1> HIDE DEF low, high
<1>6. p.score * 100 >= low
  BY <1>4, <1>5
<1> QED  BY <1>6 DEF Low, AtLeast, low

\* No score is no hit.
LEMMA ZeroIsNoHit ==
    ASSUME NEW c, Numeric(c), NEW p, p.score = 0
    PROVE  ~Hit(c, p)
<1>1. Cardinality(c.types) \in Nat \ {0}
  BY FS_CardinalityType, FS_EmptySet DEF Numeric
<1>2. c.on \in Nat \ {0}
  BY DEF Numeric
<1>3. 1 * Cardinality(c.types) <= c.on * Cardinality(c.types)
  BY <1>1, <1>2, Larger
<1> DEFINE high == c.on * Cardinality(c.types)
<1>4. high \in Int /\ 1 <= high
  BY <1>1, <1>2, <1>3
<1> HIDE DEF high
<1>5. ~(0 * 100 >= high)
  BY <1>4
<1> QED  BY <1>5 DEF Hit, AtLeast, high

\* The points at which k consecutive points were hits, and the ones that start
\* an episode: the score was low after every confirmed point before.
Confirmed(c, points, i) ==
    i \in c.k..Len(points) /\ \A j \in (i - c.k + 1)..i : Hit(c, points[j])

Dropped(c, points, y, n) == \E r \in (y + 1)..n : Low(c, points[r])

Begins(c, points, i) ==
    /\ Confirmed(c, points, i)
    /\ \A y \in 1..(i - 1) : Confirmed(c, points, y) => Dropped(c, points, y, i)

PolicyRecord(s) ==
    s = [consecutive |-> s.consecutive, open |-> s.open, first |-> s.first,
         episodes |-> s.episodes, trace |-> s.trace]

StartsOf(episodes) == {episodes[i].start : i \in DOMAIN episodes}

LEMMA AppendedStart ==
    ASSUME NEW q, ListOfOwn(q), NEW e
    PROVE  /\ ListOfOwn(Append(q, e))
           /\ StartsOf(Append(q, e)) = StartsOf(q) \cup {e.start}
<1> DEFINE T == {q[i] : i \in DOMAIN q}
           r == Append(q, e)
<1>1. q \in Seq(T)
  BY DEF ListOfOwn
<1> HIDE DEF T
<1>2. /\ r \in Seq(T \cup {e}) /\ Len(q) \in Nat
      /\ DOMAIN q = 1..Len(q) /\ DOMAIN r = 1..(Len(q) + 1)
      /\ r[Len(q) + 1] = e /\ \A i \in 1..Len(q) : r[i] = q[i]
  BY <1>1, AppendedTo
<1> HIDE DEF r
<1>3. ListOfOwn(r)
  BY <1>2, OwnSequence
<1>4. \A x : x \in StartsOf(r) <=> x \in StartsOf(q) \/ x = e.start
  <2>1. \A i \in DOMAIN r : i \in DOMAIN q \/ i = Len(q) + 1
    BY <1>2
  <2>2. \A i \in DOMAIN q : i \in DOMAIN r
    BY <1>2
  <2>3. Len(q) + 1 \in DOMAIN r
    BY <1>2
  <2> QED  BY <1>2, <2>1, <2>2, <2>3 DEF StartsOf
<1> QED  BY <1>3, <1>4 DEF r

OpenRecord(o) == o = [start |-> o.start, score |-> o.score, peak |-> o.peak]

\* What the state of the policy is, after n points.
CountsRight(c, points, s, n) ==
    /\ s.consecutive \in Nat /\ s.consecutive < c.k /\ s.consecutive <= n
    /\ s.open # None => s.consecutive = 0
    /\ s.open = None =>
          /\ \A j \in (n - s.consecutive + 1)..n : Hit(c, points[j])
          /\ s.consecutive < n => ~Hit(c, points[n - s.consecutive])

OpenRight(c, points, s, n) ==
    /\ s.open = None <=> \A y \in 1..n : Confirmed(c, points, y) => Dropped(c, points, y, n)
    /\ s.open # None => OpenRecord(s.open)

FirstRight(c, points, s, n) ==
    IF s.first = None THEN \A y \in 1..n : ~Confirmed(c, points, y)
    ELSE \E m \in 1..n : /\ Confirmed(c, points, m) /\ s.first = points[m]
                         /\ \A y \in 1..(m - 1) : ~Confirmed(c, points, y)

EpisodesRight(c, points, s, n) ==
    /\ ListOfOwn(s.episodes)
    /\ StartsOf(s.episodes) \cup (IF s.open = None THEN {} ELSE {s.open.start})
         = {points[m].timestamp : m \in {i \in 1..n : Begins(c, points, i)}}

TraceRight(points, s, n) ==
    /\ ListOfOwn(s.trace) /\ Len(s.trace) = n
    /\ \A i \in 1..n : s.trace[i].timestamp = points[i].timestamp

PolicyRight(c, points, s, n) ==
    /\ PolicyRecord(s)
    /\ CountsRight(c, points, s, n) /\ OpenRight(c, points, s, n)
    /\ FirstRight(c, points, s, n) /\ EpisodesRight(c, points, s, n)
    /\ TraceRight(points, s, n)

CountAfter(c, s, p) == IF Hit(c, p) THEN s.consecutive + 1 ELSE 0

\* What a point does to the state.
LEMMA PolicyEffect ==
    ASSUME NullIsNoFunction, NEW c, NEW p, NEW s, PolicyRecord(s),
           s.open # None => OpenRecord(s.open)
    PROVE  LET t == PolicyStep(c, s, p)
               same == t.first = s.first /\ t.episodes = s.episodes
           IN  /\ PolicyRecord(t)
               /\ \E x : t.trace = Append(s.trace, x) /\ x.timestamp = p.timestamp
               /\ s.open # None /\ Low(c, p) =>
                     /\ t.open = None /\ t.consecutive = 0 /\ t.first = s.first
                     /\ \E e : t.episodes = Append(s.episodes, e) /\ e.start = s.open.start
               /\ s.open # None /\ ~Low(c, p) =>
                     /\ t.open # None /\ OpenRecord(t.open) /\ t.open.start = s.open.start
                     /\ t.consecutive = s.consecutive /\ same
               /\ s.open = None /\ CountAfter(c, s, p) >= c.k =>
                     /\ t.open # None /\ OpenRecord(t.open) /\ t.open.start = p.timestamp
                     /\ t.consecutive = 0 /\ t.episodes = s.episodes
                     /\ t.first = IF s.first = None THEN p ELSE s.first
               /\ s.open = None /\ ~(CountAfter(c, s, p) >= c.k) =>
                     /\ t.open = None /\ t.consecutive = CountAfter(c, s, p) /\ same
<1> DEFINE t == PolicyStep(c, s, p)
           rec(n, o, f, e, h) == [consecutive |-> n, open |-> o, first |-> f, episodes |-> e,
                                  trace |-> h]
           seen(count, state) == [timestamp |-> p.timestamp, score |-> p.score,
                                  count |-> count, state |-> state]
<1>1. CASE s.open # None /\ Low(c, p)
  <2> DEFINE e == Closed(s.open, p.timestamp, "released")
  <2>1. t = rec(0, None, s.first, Append(s.episodes, e), Append(s.trace, seen(None, "off")))
    BY <1>1 DEF PolicyRecord, PolicyStep, WhileOn, Observed, Low
  <2>2. e.start = s.open.start
    BY DEF Closed
  <2> HIDE DEF e
  <2> QED  BY <1>1, <2>1, <2>2 DEF PolicyRecord
<1>2. CASE s.open # None /\ ~Low(c, p)
  <2> DEFINE peak == IF p.score > s.open.peak THEN p.score ELSE s.open.peak
             o == [start |-> s.open.start, score |-> s.open.score, peak |-> peak]
  <2>1. [s.open EXCEPT !.peak = peak] = o
    BY <1>2 DEF OpenRecord
  <2>2. [s EXCEPT !.open.peak = IF p.score > @ THEN p.score ELSE @]
          = rec(s.consecutive, [s.open EXCEPT !.peak = peak], s.first, s.episodes, s.trace)
    BY <1>2 DEF PolicyRecord
  <2>3. t = rec(s.consecutive, o, s.first, s.episodes, Append(s.trace, seen(None, "on")))
    BY <1>2, <2>1, <2>2 DEF PolicyStep, WhileOn, Observed, Low
  <2>4. o.start = s.open.start /\ OpenRecord(o) /\ o = [x \in DOMAIN o |-> o[x]]
    BY DEF OpenRecord
  <2> HIDE DEF o
  <2>5. o # None
    BY <2>4, Zenon DEF NullIsNoFunction
  <2> QED  BY <1>2, <2>3, <2>4, <2>5 DEF PolicyRecord
<1>3. CASE s.open = None /\ CountAfter(c, s, p) >= c.k
  <2> DEFINE o == [start |-> p.timestamp, score |-> p.score, peak |-> p.score]
             shown == IF CountAfter(c, s, p) > 0 THEN CountAfter(c, s, p) ELSE None
             f == IF s.first = None THEN p ELSE s.first
  <2>1. CountOff(c, s, p).count = CountAfter(c, s, p) /\ CountOff(c, s, p).shown = shown
    BY DEF CountOff, CountAfter, Hit
  <2>2. t = rec(0, o, f, s.episodes, Append(s.trace, seen(shown, "on")))
    <3> HIDE DEF shown
    <3> QED  BY <1>3, <2>1 DEF PolicyRecord, PolicyStep, WhileOff, Observed
  <2>3. o.start = p.timestamp /\ OpenRecord(o) /\ o = [x \in DOMAIN o |-> o[x]]
    BY DEF OpenRecord
  <2> HIDE DEF o, shown
  <2>4. o # None
    BY <2>3, Zenon DEF NullIsNoFunction
  <2> QED  BY <1>3, <2>2, <2>3, <2>4 DEF PolicyRecord
<1>4. CASE s.open = None /\ ~(CountAfter(c, s, p) >= c.k)
  <2> DEFINE shown == IF CountAfter(c, s, p) > 0 THEN CountAfter(c, s, p) ELSE None
  <2>1. CountOff(c, s, p).count = CountAfter(c, s, p) /\ CountOff(c, s, p).shown = shown
    BY DEF CountOff, CountAfter, Hit
  <2>2. t = rec(CountAfter(c, s, p), None, s.first, s.episodes, Append(s.trace, seen(shown, "off")))
    <3> HIDE DEF shown
    <3> QED  BY <1>4, <2>1 DEF PolicyRecord, PolicyStep, WhileOff, Observed
  <2> HIDE DEF shown
  <2> QED  BY <1>4, <2>2 DEF PolicyRecord
<1> QED  BY <1>1, <1>2, <1>3, <1>4

\* The point that ends k hits in a row is one of them.
LEMMA ConfirmedIsHit ==
    ASSUME NEW c, Numeric(c), NEW points, NEW i \in Int, Confirmed(c, points, i)
    PROVE  Hit(c, points[i])
BY DEF Confirmed, Numeric

\* While the policy is off, its counter tells which point is confirmed.
LEMMA CounterConfirms ==
    ASSUME NEW c, Numeric(c), NEW points, Len(points) \in Nat, NEW s, NEW n \in Nat,
           n + 1 <= Len(points), CountsRight(c, points, s, n), s.open = None
    PROVE  Confirmed(c, points, n + 1) <=> CountAfter(c, s, points[n + 1]) >= c.k
<1>1. /\ c.k \in Nat \ {0} /\ s.consecutive \in Nat /\ s.consecutive < c.k /\ s.consecutive <= n
      /\ \A j \in (n - s.consecutive + 1)..n : Hit(c, points[j])
      /\ s.consecutive < n => ~Hit(c, points[n - s.consecutive])
  BY DEF CountsRight, Numeric
<1> DEFINE m == s.consecutive
           k == c.k
<1>2. CASE ~Hit(c, points[n + 1])
  <2>1. ~Confirmed(c, points, n + 1)
    BY <1>2, ConfirmedIsHit
  <2> QED  BY <1>1, <1>2, <2>1 DEF CountAfter
<1>3. CASE Hit(c, points[n + 1])
  <2>1. CountAfter(c, s, points[n + 1]) = m + 1
    BY <1>3 DEF CountAfter
  <2> HIDE DEF m, k
  <2>2. ASSUME m + 1 >= k
        PROVE  Confirmed(c, points, n + 1)
    <3>1. m = k - 1 /\ n + 1 \in k..Len(points)
      BY <1>1, <2>2 DEF m, k
    <3>2. ASSUME NEW j \in (n + 1 - k + 1)..(n + 1)
          PROVE  Hit(c, points[j])
      <4>1. j = n + 1 \/ j \in (n - m + 1)..n
        BY <1>1, <3>1 DEF m, k
      <4> QED  BY <1>1, <1>3, <4>1 DEF m
    <3> QED  BY <1>1, <3>1, <3>2 DEF Confirmed, k
  <2>3. ASSUME Confirmed(c, points, n + 1), ~(m + 1 >= k)
        PROVE  FALSE
    <3>1. n + 1 \in k..Len(points) /\ \A j \in (n + 1 - k + 1)..(n + 1) : Hit(c, points[j])
      BY <1>1, <2>3 DEF Confirmed, k
    <3>2. m < n /\ n - m \in (n + 1 - k + 1)..(n + 1)
      BY <1>1, <2>3, <3>1 DEF m, k
    <3> QED  BY <1>1, <3>1, <3>2 DEF m
  <2> QED  BY <2>1, <2>2, <2>3 DEF k
<1> QED  BY <1>2, <1>3

\* One point more releases what was released, and everything if it is low.
LEMMA ReleasedNext ==
    ASSUME NEW c, NEW points, NEW n \in Nat, NEW y \in 1..(n + 1)
    PROVE  Dropped(c, points, y, n + 1) <=>
             y <= n /\ (Dropped(c, points, y, n) \/ Low(c, points[n + 1]))
<1>1. \A r : r \in (y + 1)..(n + 1) <=> y <= n /\ (r \in (y + 1)..n \/ r = n + 1)
  OBVIOUS
<1> QED  BY <1>1 DEF Dropped

\* One more point keeps the description of the state true.
LEMMA PolicyOneMore ==
    ASSUME NullIsNoFunction, NEW c, Numeric(c), NEW points, Len(points) \in Nat,
           \A i \in 1..Len(points) : IsPoint(points[i]),
           NEW n \in Nat, n + 1 <= Len(points), NEW s, PolicyRight(c, points, s, n)
    PROVE  PolicyRight(c, points, PolicyStep(c, s, points[n + 1]), n + 1)
<1> DEFINE p == points[n + 1]
           t == PolicyStep(c, s, p)
<1>1. /\ PolicyRecord(s) /\ CountsRight(c, points, s, n) /\ OpenRight(c, points, s, n)
      /\ FirstRight(c, points, s, n) /\ EpisodesRight(c, points, s, n)
      /\ TraceRight(points, s, n)
  BY DEF PolicyRight
<1>2. IsPoint(p) /\ p.score \in Nat /\ p # None
  <2>1. IsPoint(p)
    OBVIOUS
  <2>2. p = [x \in DOMAIN p |-> p[x]]
    BY <2>1 DEF IsPoint
  <2> QED  BY <2>1, <2>2, Zenon DEF NullIsNoFunction, IsPoint
<1>3. s.open # None => OpenRecord(s.open)
  BY <1>1 DEF OpenRight
<1> HIDE DEF p
<1>4. /\ PolicyRecord(t)
      /\ \E x : t.trace = Append(s.trace, x) /\ x.timestamp = p.timestamp
      /\ s.open # None /\ Low(c, p) =>
            /\ t.open = None /\ t.consecutive = 0 /\ t.first = s.first
            /\ \E e : t.episodes = Append(s.episodes, e) /\ e.start = s.open.start
      /\ s.open # None /\ ~Low(c, p) =>
            /\ t.open # None /\ OpenRecord(t.open) /\ t.open.start = s.open.start
            /\ t.consecutive = s.consecutive
            /\ t.first = s.first /\ t.episodes = s.episodes
      /\ s.open = None /\ CountAfter(c, s, p) >= c.k =>
            /\ t.open # None /\ OpenRecord(t.open) /\ t.open.start = p.timestamp
            /\ t.consecutive = 0 /\ t.episodes = s.episodes
            /\ t.first = IF s.first = None THEN p ELSE s.first
      /\ s.open = None /\ ~(CountAfter(c, s, p) >= c.k) =>
            /\ t.open = None /\ t.consecutive = CountAfter(c, s, p)
            /\ t.first = s.first /\ t.episodes = s.episodes
  BY <1>1, <1>3, PolicyEffect
<1> HIDE DEF t
<1> DEFINE con(i) == Confirmed(c, points, i)
           rel(y, m) == Dropped(c, points, y, m)
           beg(m) == {points[i].timestamp : i \in {j \in 1..m : Begins(c, points, j)}}
<1>5. s.open = None => (con(n + 1) <=> CountAfter(c, s, p) >= c.k)
  BY <1>1, CounterConfirms DEF p
<1>6. Low(c, p) => ~Hit(c, p) /\ ~con(n + 1)
  BY <1>2, HitIsNotLow, ConfirmedIsHit DEF p
<1>7. \A y \in 1..(n + 1) : rel(y, n + 1) <=> y <= n /\ (rel(y, n) \/ Low(c, p))
  BY ReleasedNext DEF p
<1>8. /\ s.open = None <=> \A y \in 1..n : con(y) => rel(y, n)
      /\ Begins(c, points, n + 1) <=> con(n + 1) /\ \A y \in 1..n : con(y) => rel(y, n + 1)
  BY <1>1 DEF OpenRight, Begins
<1>9. beg(n + 1) = beg(n) \cup (IF Begins(c, points, n + 1) THEN {p.timestamp} ELSE {})
  BY DEF p
<1>10. 1..(n + 1) = 1..n \cup {n + 1}
  OBVIOUS
<1>11. CountsRight(c, points, t, n + 1)
  <2>1. c.k \in Nat \ {0} /\ s.consecutive \in Nat /\ s.consecutive < c.k /\ s.consecutive <= n
    BY <1>1 DEF CountsRight, Numeric
  <2>2. CASE t.open # None
    <3>1. t.consecutive = 0
      BY <1>1, <1>4, <2>2 DEF CountsRight
    <3> QED  BY <2>1, <2>2, <3>1 DEF CountsRight
  <2>3. CASE s.open # None /\ Low(c, p)
    <3>1. t.consecutive = 0 /\ t.open = None /\ ~Hit(c, points[n + 1])
      BY <1>4, <1>6, <2>3 DEF p
    <3> QED  BY <2>1, <3>1 DEF CountsRight
  <2>4. CASE s.open = None /\ ~(CountAfter(c, s, p) >= c.k)
    <3>1. t.consecutive = CountAfter(c, s, p) /\ t.open = None
      BY <1>4, <2>4
    <3>2. CASE Hit(c, p)
      <4>1. t.consecutive = s.consecutive + 1 /\ s.consecutive + 1 < c.k
        BY <2>1, <2>4, <3>1, <3>2 DEF CountAfter
      <4>2. /\ \A j \in (n - s.consecutive + 1)..n : Hit(c, points[j])
            /\ s.consecutive < n => ~Hit(c, points[n - s.consecutive])
        BY <1>1, <2>4 DEF CountsRight
      <4>3. \A j \in (n + 1 - t.consecutive + 1)..(n + 1) : j \in (n - s.consecutive + 1)..n \/ j = n + 1
        BY <2>1, <4>1
      <4>4. n + 1 - t.consecutive = n - s.consecutive
        BY <2>1, <4>1
      <4> QED  BY <2>1, <3>1, <3>2, <4>1, <4>2, <4>3, <4>4 DEF CountsRight, p
    <3>3. CASE ~Hit(c, p)
      <4>1. t.consecutive = 0
        BY <3>1, <3>3 DEF CountAfter
      <4> QED  BY <2>1, <3>1, <3>3, <4>1 DEF CountsRight, p
    <3> QED  BY <3>2, <3>3
  <2> QED  BY <1>4, <2>2, <2>3, <2>4
<1>12. OpenRight(c, points, t, n + 1)
  <2>1. t.open = None <=> \A y \in 1..(n + 1) : con(y) => rel(y, n + 1)
    <3> HIDE DEF con, rel
    <3>1. CASE s.open # None /\ Low(c, p)
      BY <1>4, <1>6, <1>7, <1>10, <3>1
    <3>2. CASE s.open # None /\ ~Low(c, p)
      <4>1. PICK y \in 1..n : con(y) /\ ~rel(y, n)
        BY <1>8, <3>2
      <4>2. ~rel(y, n + 1)
        BY <1>7, <3>2, <4>1
      <4> QED  BY <1>4, <3>2, <4>1, <4>2
    <3>3. CASE s.open = None /\ CountAfter(c, s, p) >= c.k
      <4>1. con(n + 1) /\ ~rel(n + 1, n + 1)
        BY <1>5, <1>7, <3>3
      <4> QED  BY <1>4, <3>3, <4>1
    <3>4. CASE s.open = None /\ ~(CountAfter(c, s, p) >= c.k)
      <4>1. ~con(n + 1)
        BY <1>5, <3>4
      <4> QED  BY <1>4, <1>7, <1>8, <1>10, <3>4, <4>1
    <3> QED  BY <3>1, <3>2, <3>3, <3>4
  <2>2. t.open # None => OpenRecord(t.open)
    BY <1>4
  <2> QED  BY <2>1, <2>2 DEF OpenRight
<1>13. FirstRight(c, points, t, n + 1)
  <2>1. CASE s.first # None
    <3>1. t.first = s.first
      BY <1>4, <2>1
    <3>2. PICK m \in 1..n : /\ con(m) /\ s.first = points[m]
                            /\ \A y \in 1..(m - 1) : ~con(y)
      BY <1>1, <2>1 DEF FirstRight
    <3>3. m \in 1..(n + 1)
      OBVIOUS
    <3> QED  BY <2>1, <3>1, <3>2, <3>3 DEF FirstRight
  <2>2. CASE s.first = None
    <3>1. \A y \in 1..n : ~con(y)
      BY <1>1, <2>2 DEF FirstRight
    <3>2. s.open = None
      BY <1>8, <3>1
    <3>3. CASE CountAfter(c, s, p) >= c.k
      <4>1. con(n + 1) /\ t.first = points[n + 1] /\ t.first # None
        BY <1>2, <1>4, <1>5, <2>2, <3>2, <3>3 DEF p
      <4>2. n + 1 \in 1..(n + 1) /\ 1..(n + 1 - 1) = 1..n
        OBVIOUS
      <4> QED  BY <3>1, <4>1, <4>2 DEF FirstRight
    <3>4. CASE ~(CountAfter(c, s, p) >= c.k)
      <4>1. ~con(n + 1) /\ t.first = None
        BY <1>4, <1>5, <2>2, <3>2, <3>4
      <4> QED  BY <1>10, <3>1, <4>1 DEF FirstRight
    <3> QED  BY <3>3, <3>4
  <2> QED  BY <2>1, <2>2
<1>14. EpisodesRight(c, points, t, n + 1)
  <2> DEFINE now(o) == IF o = None THEN {} ELSE {o.start}
  <2>1. ListOfOwn(s.episodes) /\ StartsOf(s.episodes) \cup now(s.open) = beg(n)
    BY <1>1 DEF EpisodesRight
  <2>2. SUFFICES ListOfOwn(t.episodes) /\ StartsOf(t.episodes) \cup now(t.open) = beg(n + 1)
    BY DEF EpisodesRight
  <2>3. CASE s.open # None /\ Low(c, p)
    <3>1. PICK e : t.episodes = Append(s.episodes, e) /\ e.start = s.open.start
      BY <1>4, <2>3
    <3>2. /\ ListOfOwn(t.episodes)
          /\ StartsOf(t.episodes) = StartsOf(s.episodes) \cup {e.start}
      <4> DEFINE q == s.episodes
      <4>1. ListOfOwn(q) /\ t.episodes = Append(q, e)
        BY <2>1, <3>1
      <4> HIDE DEF q
      <4>2. ListOfOwn(Append(q, e)) /\ StartsOf(Append(q, e)) = StartsOf(q) \cup {e.start}
        BY <4>1, AppendedStart
      <4> QED  BY <4>1, <4>2 DEF q
    <3>3. t.open = None /\ ~Begins(c, points, n + 1)
      BY <1>4, <1>6, <1>8, <2>3
    <3>4. beg(n + 1) = beg(n)
      BY <1>9, <3>3
    <3> QED  BY <2>1, <2>3, <3>1, <3>2, <3>3, <3>4
  <2>4. CASE s.open # None /\ ~Low(c, p)
    <3>1. PICK y \in 1..n : con(y) /\ ~rel(y, n)
      BY <1>8, <2>4
    <3>2. ~rel(y, n + 1)
      BY <1>7, <2>4, <3>1
    <3>3. ~Begins(c, points, n + 1)
      BY <1>8, <3>1, <3>2
    <3>4. beg(n + 1) = beg(n)
      BY <1>9, <3>3
    <3> QED  BY <1>4, <2>1, <2>4, <3>4
  <2>5. CASE s.open = None /\ CountAfter(c, s, p) >= c.k
    <3>1. Begins(c, points, n + 1)
      BY <1>5, <1>7, <1>8, <2>5
    <3>2. beg(n + 1) = beg(n) \cup {p.timestamp}
      BY <1>9, <3>1
    <3> QED  BY <1>4, <2>1, <2>5, <3>2
  <2>6. CASE s.open = None /\ ~(CountAfter(c, s, p) >= c.k)
    <3>1. ~Begins(c, points, n + 1)
      BY <1>5, <1>8, <2>6
    <3>2. beg(n + 1) = beg(n)
      BY <1>9, <3>1
    <3> QED  BY <1>4, <2>1, <2>6, <3>2
  <2> QED  BY <2>3, <2>4, <2>5, <2>6
<1>15. TraceRight(points, t, n + 1)
  <2>1. PICK x : t.trace = Append(s.trace, x) /\ x.timestamp = p.timestamp
    BY <1>4
  <2> DEFINE T == {s.trace[i] : i \in DOMAIN s.trace}
  <2>2. s.trace \in Seq(T) /\ Len(s.trace) = n /\ \A i \in 1..n : s.trace[i].timestamp = points[i].timestamp
    BY <1>1 DEF TraceRight, ListOfOwn
  <2> HIDE DEF T
  <2>3. /\ Append(s.trace, x) \in Seq(T \cup {x}) /\ Len(t.trace) = n + 1
        /\ t.trace[n + 1] = x /\ \A i \in 1..n : t.trace[i] = s.trace[i]
    BY <2>1, <2>2, AppendedTo
  <2>4. ListOfOwn(t.trace)
    BY <2>1, <2>3, OwnSequence
  <2> QED  BY <1>10, <2>1, <2>2, <2>3, <2>4 DEF TraceRight, p
<1> QED  BY <1>4, <1>11, <1>12, <1>13, <1>14, <1>15 DEF PolicyRight, t, p

-----------------------------------------------------------------------------
\* The recursive function of the states is there, and follows its equation.
LEMMA PolicyFollows ==
    ASSUME NEW c, NEW points, Len(points) \in Nat
    PROVE  LET state == PolicyStates(c, points)
           IN  /\ state[0] = PolicyStart
               /\ \A n \in 0..(Len(points) - 1) :
                     state[n + 1] = PolicyStep(c, state[n], points[n + 1])
<1> DEFINE step(v, i) == PolicyStep(c, v, points[i])
           start == PolicyStart
           Upto(g, n) == g = [i \in 0..n |-> IF i = 0 THEN start ELSE step(g[i - 1], i)]
           N == {n \in Nat : \E g : Upto(g, n)}
<1>1. PolicyStates(c, points) = CHOOSE g : Upto(g, Len(points))
  BY DEF PolicyStates
<1> HIDE DEF step, start
<1>2. 0 \in N
  <2>1. Upto([i \in 0..0 |-> start], 0)
    OBVIOUS
  <2> QED  BY <2>1
<1>3. ASSUME NEW n \in N
      PROVE  n + 1 \in N
  <2>1. PICK g : Upto(g, n)
    OBVIOUS
  <2> DEFINE h == [i \in 0..(n + 1) |-> IF i = n + 1 THEN step(g[n], n + 1) ELSE g[i]]
  <2>2. ASSUME NEW i \in 0..(n + 1)
        PROVE  h[i] = IF i = 0 THEN start ELSE step(h[i - 1], i)
    <3>1. CASE i = n + 1
      <4>1. h[i] = step(g[n], n + 1) /\ h[i - 1] = g[n] /\ i # 0
        BY <3>1
      <4> QED  BY <3>1, <4>1
    <3>2. CASE i \in 1..n
      <4>1. h[i] = g[i] /\ h[i - 1] = g[i - 1] /\ i # 0
        BY <3>2
      <4>2. g[i] = step(g[i - 1], i)
        BY <2>1, <3>2
      <4> QED  BY <4>1, <4>2
    <3>3. CASE i = 0
      <4>1. h[i] = g[i] /\ g[i] = start
        BY <2>1, <3>3
      <4> QED  BY <3>3, <4>1
    <3> QED  BY <3>1, <3>2, <3>3
  <2>3. Upto(h, n + 1)
    <3>1. h = [i \in 0..(n + 1) |-> h[i]]
      OBVIOUS
    <3> HIDE DEF h
    <3> QED  BY <2>2, <3>1
  <2> HIDE DEF h, Upto
  <2> QED  BY <2>3
<1> HIDE DEF N
<1>4. N = Nat
  <2>1. N \in SUBSET Nat
    BY DEF N
  <2> QED  BY <1>2, <1>3, <2>1, Induction
<1>5. Upto(PolicyStates(c, points), Len(points))
  <2>1. \E g : Upto(g, Len(points))
    BY <1>4 DEF N
  <2> HIDE DEF Upto
  <2> QED  BY <1>1, <2>1
<1> DEFINE g == PolicyStates(c, points)
<1> HIDE DEF g
<1>6. g[0] = start
  BY <1>5 DEF g
<1>7. ASSUME NEW n \in 0..(Len(points) - 1)
      PROVE  g[n + 1] = step(g[n], n + 1)
  <2>1. n + 1 \in 0..Len(points) /\ n + 1 # 0 /\ n + 1 - 1 = n
    OBVIOUS
  <2> QED  BY <1>5, <2>1 DEF g
<1> QED  BY <1>6, <1>7 DEF g, start, step

\* It is true of the empty trajectory.
LEMMA PolicyBegins ==
    ASSUME NEW c, Numeric(c), NEW points
    PROVE  PolicyRight(c, points, PolicyStart, 0)
<1>1. /\ PolicyStart.consecutive = 0 /\ PolicyStart.open = None /\ PolicyStart.first = None
      /\ PolicyStart.episodes = <<>> /\ PolicyStart.trace = <<>> /\ PolicyRecord(PolicyStart)
  BY DEF PolicyStart, PolicyRecord
<1>2. CountsRight(c, points, PolicyStart, 0)
  BY <1>1 DEF CountsRight, Numeric
<1>3. ListOfOwn(<<>>) /\ StartsOf(<<>>) = {}
  BY DEF ListOfOwn, StartsOf
<1> QED  BY <1>1, <1>2, <1>3
         DEF PolicyRight, OpenRight, FirstRight, EpisodesRight, TraceRight

\* After every point the policy has found what the points up to it say.
LEMMA PolicyIsRight ==
    ASSUME NullIsNoFunction, NEW c, Numeric(c), NEW points, Len(points) \in Nat,
           \A i \in 1..Len(points) : IsPoint(points[i])
    PROVE  PolicyRight(c, points, PolicyStates(c, points)[Len(points)], Len(points))
<1> DEFINE g == PolicyStates(c, points)
           N == {n \in Nat : n <= Len(points) => PolicyRight(c, points, g[n], n)}
<1>1. /\ g[0] = PolicyStart
      /\ \A n \in 0..(Len(points) - 1) : g[n + 1] = PolicyStep(c, g[n], points[n + 1])
  BY PolicyFollows
<1> HIDE DEF g
<1>2. 0 \in N
  BY <1>1, PolicyBegins
<1>3. ASSUME NEW n \in N
      PROVE  n + 1 \in N
  <2> SUFFICES ASSUME n + 1 <= Len(points)
               PROVE  PolicyRight(c, points, g[n + 1], n + 1)
    OBVIOUS
  <2>1. PolicyRight(c, points, g[n], n) /\ n \in 0..(Len(points) - 1)
    OBVIOUS
  <2>2. PolicyRight(c, points, PolicyStep(c, g[n], points[n + 1]), n + 1)
    BY <2>1, PolicyOneMore
  <2> QED  BY <1>1, <2>1, <2>2
<1> HIDE DEF N
<1>4. N = Nat
  <2>1. N \in SUBSET Nat
    BY DEF N
  <2> QED  BY <1>2, <1>3, <2>1, Induction
<1> QED  BY <1>4 DEF N, g

IsTrajectory(points) ==
    /\ points = [i \in 1..Len(points) |-> points[i]] /\ Len(points) \in Nat
    /\ \A i \in 1..Len(points) : IsPoint(points[i]) /\ points[i].timestamp \in Int

\* The episodes of a trajectory start at the points that begin one, for any
\* scores and thresholds and any k: an open episode at the end is closed, and none
\* is found twice.
LEMMA EvaluateIsRight ==
    ASSUME NullIsNoFunction, NEW c, Numeric(c), NEW points, IsTrajectory(points), NEW end, NEW reason
    PROVE  LET r == Evaluate(c, points, end, reason)
               n == Len(points)
           IN  /\ StartsOf(r.episodes)
                     = {points[i].timestamp : i \in {j \in 1..n : Begins(c, points, j)}}
               /\ TraceRight(points, r, n)
               /\ IF \A y \in 1..n : ~Confirmed(c, points, y)
                    THEN r.status = "miss" /\ r.time = None
                    ELSE \E m \in 1..n :
                           /\ Confirmed(c, points, m)
                           /\ \A y \in 1..(m - 1) : ~Confirmed(c, points, y)
                           /\ r.status = "detected"
                           /\ r.time = points[m].timestamp /\ r.score = points[m].score
<1> DEFINE r == Evaluate(c, points, end, reason)
           n == Len(points)
           s == PolicyStates(c, points)[Len(points)]
<1>1. PolicyRight(c, points, s, n)
  BY PolicyIsRight DEF IsTrajectory
<1>2. /\ r.status = IF s.first = None THEN "miss" ELSE "detected"
      /\ r.time = IF s.first = None THEN None ELSE s.first.timestamp
      /\ r.score = IF s.first = None THEN None ELSE s.first.score
      /\ r.episodes = IF s.open = None THEN s.episodes
                      ELSE Append(s.episodes, Closed(s.open, end, reason))
      /\ r.trace = s.trace
  BY DEF Evaluate
<1> HIDE DEF r, s
<1>3. StartsOf(r.episodes) = {points[i].timestamp : i \in {j \in 1..n : Begins(c, points, j)}}
  <2>1. ListOfOwn(s.episodes)
    BY <1>1 DEF PolicyRight, EpisodesRight
  <2>2. StartsOf(r.episodes) = StartsOf(s.episodes) \cup (IF s.open = None THEN {} ELSE {s.open.start})
    <3>1. CASE s.open = None
      BY <1>2, <3>1
    <3>2. CASE s.open # None
      <4> DEFINE e == Closed(s.open, end, reason)
                 q == s.episodes
      <4>1. e.start = s.open.start /\ r.episodes = Append(q, e) /\ ListOfOwn(q)
        BY <1>2, <2>1, <3>2 DEF Closed
      <4> HIDE DEF e, q
      <4>2. StartsOf(Append(q, e)) = StartsOf(q) \cup {e.start}
        BY <4>1, AppendedStart
      <4> QED  BY <3>2, <4>1, <4>2 DEF q
    <3> QED  BY <3>1, <3>2
  <2> QED  BY <1>1, <2>2 DEF PolicyRight, EpisodesRight
<1>4. TraceRight(points, r, n)
  BY <1>1, <1>2 DEF PolicyRight, TraceRight
<1>5. IF s.first = None THEN \A y \in 1..n : ~Confirmed(c, points, y)
      ELSE \E m \in 1..n : /\ Confirmed(c, points, m) /\ s.first = points[m]
                           /\ \A y \in 1..(m - 1) : ~Confirmed(c, points, y)
  BY <1>1 DEF PolicyRight, FirstRight
<1>6. CASE s.first = None
  BY <1>2, <1>3, <1>4, <1>5, <1>6 DEF r
<1>7. CASE s.first # None
  <2>1. PICK m \in 1..n : /\ Confirmed(c, points, m) /\ s.first = points[m]
                          /\ \A y \in 1..(m - 1) : ~Confirmed(c, points, y)
    BY <1>5, <1>7
  <2>2. r.status = "detected" /\ r.time = points[m].timestamp /\ r.score = points[m].score
    BY <1>2, <1>7, <2>1
  <2> QED  BY <1>3, <1>4, <2>1, <2>2 DEF r
<1> QED  BY <1>6, <1>7

-----------------------------------------------------------------------------
(***************************************************************************)
(* The reference                                                           *)
(***************************************************************************)

\* The fusion time the reference names.
FusedAt(c, times, hit) == IF c.k > Len(times) THEN None ELSE ReferenceTime(times, hit)[c.k]

\* A time is that of the first point that ends k hits in a row.
FirstConfirmedAt(c, points, time) ==
    IF \A y \in 1..Len(points) : ~Confirmed(c, points, y) THEN time = None
    ELSE \A m \in 1..Len(points) :
            Confirmed(c, points, m) /\ (\A y \in 1..(m - 1) : ~Confirmed(c, points, y))
              => time = points[m].timestamp /\ time # None

\* The first confirmed point is the one the reference names.
LEMMA FirstIsReference ==
    ASSUME NEW c, Numeric(c), NEW points, IsTrajectory(points),
           NEW times, times = [i \in 1..Len(points) |-> points[i].timestamp],
           NEW hit, \A i \in 1..Len(points) : hit[i] <=> Hit(c, points[i])
    PROVE  FirstConfirmedAt(c, points, FusedAt(c, times, hit))
<1> DEFINE n == Len(points)
           C == {i \in c.k..Len(times) : \A j \in (i - c.k + 1)..i : hit[j]}
           fused == IF c.k > Len(times) THEN None ELSE ReferenceTime(times, hit)[c.k]
<1>1. n \in Nat /\ c.k \in Nat \ {0} /\ Len(times) = n /\ \A i \in 1..n : times[i] = points[i].timestamp
  <2>1. n \in Nat /\ c.k \in Nat \ {0}
    BY DEF Numeric, IsTrajectory
  <2> QED  BY <2>1
<1>2. \A i : i \in C <=> i \in 1..n /\ Confirmed(c, points, i)
  <2>1. ASSUME NEW i \in c.k..n
        PROVE  \A j \in (i - c.k + 1)..i : j \in 1..n
    BY <1>1
  <2>2. ASSUME NEW i \in c.k..n
        PROVE  (\A j \in (i - c.k + 1)..i : hit[j]) <=> (\A j \in (i - c.k + 1)..i : Hit(c, points[j]))
    BY <2>1
  <2>3. \A i \in c.k..n : i \in 1..n
    BY <1>1
  <2> HIDE DEF n
  <2>4. C = {i \in c.k..n : \A j \in (i - c.k + 1)..i : hit[j]}
    BY <1>1
  <2> QED  BY <2>2, <2>3, <2>4 DEF Confirmed, n
<1>3. fused = IF c.k > n \/ C = {} THEN None ELSE times[Min(C)]
  <2> DEFINE D(k) == {i \in k..Len(times) : \A j \in (i - k + 1)..i : hit[j]}
             first(k) == IF D(k) = {} THEN None ELSE times[Min(D(k))]
  <2>1. ReferenceTime(times, hit) = [k \in 1..Len(times) |-> first(k)]
    BY DEF ReferenceTime
  <2>2. D(c.k) = C
    OBVIOUS
  <2>3. first(c.k) = IF C = {} THEN None ELSE times[Min(C)]
    BY <2>2
  <2> HIDE DEF D, C, n, first
  <2>4. ASSUME ~(c.k > n)
        PROVE  ReferenceTime(times, hit)[c.k] = first(c.k)
    <3>1. c.k \in 1..Len(times)
      BY <1>1, <2>4
    <3> QED  BY <2>1, <3>1
  <2> QED  BY <1>1, <2>3, <2>4
<1> HIDE DEF fused, C, n
<1>4. ASSUME \A y \in 1..n : ~Confirmed(c, points, y)
      PROVE  fused = None
  BY <1>2, <1>3, <1>4
<1>5. ASSUME NEW m \in 1..n, Confirmed(c, points, m),
             \A y \in 1..(m - 1) : ~Confirmed(c, points, y)
      PROVE  fused = points[m].timestamp /\ fused # None
  <2>1. m \in C /\ \A y \in C : m <= y
    <3>1. \A y \in C : y \in 1..n /\ ~(y \in 1..(m - 1))
      BY <1>2, <1>5
    <3> QED  BY <1>1, <1>2, <1>5, <3>1
  <2>2. C \subseteq Int
    BY <1>1, <1>2
  <2>3. Min(C) = m
    <3>1. m \in Int /\ \A x \in C : (\A y \in C : x <= y) => x = m
      BY <2>1, <2>2
    <3> QED  BY <2>1, <3>1 DEF Min
  <2>4. ~(c.k > n)
    BY <1>1, <1>5 DEF Confirmed, n
  <2>5. points[m].timestamp \in Int /\ times[m] = points[m].timestamp
    BY <1>1 DEF IsTrajectory, n
  <2> QED  BY <1>3, <2>1, <2>3, <2>4, <2>5, NoneIsNoTime
<1>6. FusedAt(c, times, hit) = fused
  BY DEF FusedAt, fused
<1> QED  BY <1>4, <1>5, <1>6 DEF FirstConfirmedAt, n

\* A stopping result that finds a time.
Finds(r, fused) ==
    /\ r.status = IF fused = None THEN "miss" ELSE "detected"
    /\ r.time = fused /\ fused \in Int \cup {None}
    /\ fused # None => \E i \in DOMAIN r.trace : r.trace[i].timestamp = fused

\* The stopping policy (hysteresis.py) detects at the first point that ends k
\* consecutive hits, as the reference does, which keeps no counter and no open
\* episode, and misses when there is none: for every trajectory of scores.
THEOREM FusionIsReference ==
    ASSUME NullIsNoFunction, NEW c, Numeric(c), NEW points, IsTrajectory(points),
           NEW times, times = [i \in 1..Len(points) |-> points[i].timestamp],
           NEW hit, \A i \in 1..Len(points) : hit[i] <=> Hit(c, points[i]),
           NEW end, NEW reason
    PROVE  Finds(Evaluate(c, points, end, reason), FusedAt(c, times, hit))
<1> DEFINE r == Evaluate(c, points, end, reason)
           fused == FusedAt(c, times, hit)
           n == Len(points)
<1>1. /\ TraceRight(points, r, n)
      /\ IF \A y \in 1..n : ~Confirmed(c, points, y)
           THEN r.status = "miss" /\ r.time = None
           ELSE \E m \in 1..n :
                  /\ Confirmed(c, points, m)
                  /\ \A y \in 1..(m - 1) : ~Confirmed(c, points, y)
                  /\ r.status = "detected"
                  /\ r.time = points[m].timestamp /\ r.score = points[m].score
  BY EvaluateIsRight
<1>2. IF \A y \in 1..n : ~Confirmed(c, points, y) THEN fused = None
      ELSE \A m \in 1..n :
             Confirmed(c, points, m) /\ (\A y \in 1..(m - 1) : ~Confirmed(c, points, y))
               => fused = points[m].timestamp /\ fused # None
  <2>1. FirstConfirmedAt(c, points, fused)
    BY FirstIsReference
  <2> QED  BY <2>1 DEF FirstConfirmedAt
<1>3. n \in Nat /\ \A i \in 1..n : points[i].timestamp \in Int
  BY DEF IsTrajectory
<1>4. DOMAIN r.trace = 1..n /\ \A i \in 1..n : r.trace[i].timestamp = points[i].timestamp
  <2> DEFINE T == {r.trace[i] : i \in DOMAIN r.trace}
  <2>1. r.trace \in Seq(T) /\ Len(r.trace) = n
    BY <1>1 DEF TraceRight, ListOfOwn
  <2> HIDE DEF T, r
  <2> QED  BY <1>1, <2>1 DEF TraceRight
<1> HIDE DEF r, fused, n
<1>5. CASE \A y \in 1..n : ~Confirmed(c, points, y)
  BY <1>1, <1>2, <1>5 DEF r, fused, Finds
<1>6. CASE ~(\A y \in 1..n : ~Confirmed(c, points, y))
  <2>1. PICK m \in 1..n : /\ Confirmed(c, points, m)
                          /\ \A y \in 1..(m - 1) : ~Confirmed(c, points, y)
                          /\ r.status = "detected" /\ r.time = points[m].timestamp
    BY <1>1, <1>6
  <2>2. fused = points[m].timestamp /\ fused # None
    BY <1>2, <1>6, <2>1
  <2>3. r.trace[m].timestamp = fused /\ fused \in Int /\ m \in DOMAIN r.trace
    BY <1>3, <1>4, <2>1, <2>2
  <2> QED  BY <2>1, <2>2, <2>3 DEF r, fused, Finds
<1> QED  BY <1>5, <1>6

-----------------------------------------------------------------------------
(***************************************************************************)
(* Sorting                                                                 *)
(***************************************************************************)

\* A strict total order, as the set of its pairs.
Orders(R, S) ==
    /\ \A x \in S : <<x, x>> \notin R
    /\ \A x, y \in S : x # y => <<x, y>> \in R \/ <<y, x>> \in R
    /\ \A x, y, z \in S : <<x, y>> \in R /\ <<y, z>> \in R => <<x, z>> \in R

Preceding(R, S, x) == {y \in S : <<y, x>> \in R}

Sorted(R, S) ==
    [n \in 1..Cardinality(S) |-> CHOOSE x \in S : Cardinality(Preceding(R, S, x)) = n - 1]

\* Ranks differ, so every member has a place of its own.
LEMMA SortedIsAll ==
    ASSUME NEW R, NEW S, IsFiniteSet(S), Orders(R, S)
    PROVE  LET q == Sorted(R, S)
           IN  /\ q \in Seq(S) /\ Len(q) = Cardinality(S) /\ Len(q) \in Nat
               /\ DOMAIN q = 1..Len(q)
               /\ {q[n] : n \in DOMAIN q} = S
<1> DEFINE q == Sorted(R, S)
           N == Cardinality(S)
           E(x) == Preceding(R, S, x)
           rank == [x \in S |-> Cardinality(E(x)) + 1]
<1>1. N \in Nat
  BY FS_CardinalityType
<1>2. ASSUME NEW x \in S
      PROVE  /\ IsFiniteSet(E(x)) /\ Cardinality(E(x)) \in Nat /\ Cardinality(E(x)) < N
  <2>1. E(x) \subseteq S /\ x \notin E(x)
    BY DEF Orders, Preceding
  <2> HIDE DEF E
  <2>2. IsFiniteSet(E(x)) /\ Cardinality(E(x)) <= N /\ (Cardinality(E(x)) = N => E(x) = S)
    BY <2>1, FS_Subset
  <2>3. Cardinality(E(x)) \in Nat
    BY <2>2, FS_CardinalityType
  <2> QED  BY <1>1, <2>1, <2>2, <2>3
<1>3. rank \in [S -> 1..N]
  <2> HIDE DEF E, N
  <2> QED  BY <1>1, <1>2
<1>4. ASSUME NEW x \in S, NEW y \in S, <<x, y>> \in R
      PROVE  rank[x] # rank[y]
  <2>1. E(x) \subseteq E(y) /\ x \in E(y) /\ x \notin E(x)
    BY <1>4 DEF Orders, Preceding
  <2> HIDE DEF E, N
  <2>2. Cardinality(E(x)) = Cardinality(E(y)) => E(x) = E(y)
    BY <1>2, <2>1, FS_Subset
  <2> QED  BY <1>2, <2>1, <2>2
<1> HIDE DEF rank
<1>5. ASSUME NEW x \in S, NEW y \in S, rank[x] = rank[y]
      PROVE  x = y
  BY <1>4, <1>5 DEF Orders
<1> HIDE DEF N
<1>6. rank \in Injection(S, 1..N)
  BY <1>3, <1>5 DEF Injection, IsInjective
<1>7. IsFiniteSet(1..N) /\ Cardinality(1..N) = N
  BY <1>1, FS_Interval
<1>8. rank \in Surjection(S, 1..N)
  BY <1>6, <1>7, FS_Injection DEF N
<1>9. ASSUME NEW n \in 1..N
      PROVE  \E x \in S : rank[x] = n
  BY <1>8 DEF Surjection
<1>10. ASSUME NEW n \in 1..N
       PROVE  q[n] \in S /\ rank[q[n]] = n
  <2>1. q[n] = CHOOSE x \in S : Cardinality(E(x)) = n - 1
    BY DEF Sorted, N
  <2>2. PICK x \in S : rank[x] = n
    BY <1>9
  <2>3. \A y \in S : rank[y] = n <=> Cardinality(E(y)) = n - 1
    <3> HIDE DEF E
    <3> QED  BY <1>1, <1>2 DEF rank
  <2> HIDE DEF E, q
  <2> QED  BY <2>1, <2>2, <2>3
<1>11. q \in Seq(S) /\ Len(q) = N /\ DOMAIN q = 1..N
  <2>1. q = [n \in 1..N |-> q[n]]
    BY DEF Sorted, N
  <2> HIDE DEF q
  <2> QED  BY <1>1, <1>10, <2>1
<1>12. ASSUME NEW x \in S
       PROVE  \E n \in DOMAIN q : q[n] = x
  <2>1. rank[x] \in 1..N
    BY <1>3
  <2>2. rank[q[rank[x]]] = rank[x] /\ q[rank[x]] \in S
    BY <1>10, <2>1
  <2> QED  BY <1>5, <1>11, <2>1, <2>2
<1> HIDE DEF q
<1>13. {q[n] : n \in DOMAIN q} = S
  BY <1>10, <1>11, <1>12
<1> QED  BY <1>1, <1>11, <1>13 DEF q, N

\* A score counts some of the types.
LEMMA ScoreIsNat ==
    ASSUME NEW c, Numeric(c), NEW items
    PROVE  Score(c, items) \in Nat /\ Score(c, {}) = 0
<1> DEFINE types(A) == {e.type : e \in {x \in A : IsScoring(c, x)}}
<1>1. types(items) \subseteq c.types
  BY DEF IsScoring
<1>2. IsFiniteSet(types(items))
  BY <1>1, FS_Subset DEF Numeric
<1>3. types({}) = {}
  OBVIOUS
<1> HIDE DEF types
<1>4. Cardinality(types(items)) \in Nat /\ Cardinality(types({})) = 0
  BY <1>2, <1>3, FS_CardinalityType, FS_EmptySet
<1> QED  BY <1>4 DEF types, Score

Scored(c, n, times, active) ==
    [i \in 1..n |-> [timestamp |-> times[i], score |-> Score(c, active[i])]]

\* The scores of the points make a trajectory.
LEMMA ScoresAreTrajectory ==
    ASSUME NEW c, Numeric(c), NEW n \in Nat, NEW times, \A i \in 1..n : times[i] \in Int,
           NEW active
    PROVE  LET points == Scored(c, n, times, active)
           IN  /\ IsTrajectory(points) /\ Len(points) = n
               /\ \A i \in 1..n : /\ points[i].timestamp = times[i]
                                  /\ points[i].score = Score(c, active[i])
<1> DEFINE points == Scored(c, n, times, active)
<1>0. points = [i \in 1..n |-> [timestamp |-> times[i], score |-> Score(c, active[i])]]
  BY DEF Scored
<1> HIDE DEF points
<1>1. Len(points) = n /\ points = [i \in 1..Len(points) |-> points[i]]
  BY <1>0
<1>2. ASSUME NEW i \in 1..n
      PROVE  /\ IsPoint(points[i]) /\ points[i].timestamp = times[i]
             /\ points[i].score = Score(c, active[i])
  <2> DEFINE s == Score(c, active[i])
             p == points[i]
  <2>1. s \in Nat /\ p = [timestamp |-> times[i], score |-> s]
    BY <1>0, ScoreIsNat
  <2> HIDE DEF s, p
  <2>2. p.timestamp = times[i] /\ p.score = s /\ p = [timestamp |-> p.timestamp, score |-> p.score]
    BY <2>1
  <2> QED  BY <2>1, <2>2 DEF IsPoint, s, p
<1> QED  BY <1>1, <1>2 DEF IsTrajectory, points

\* The grid is a sequence of times.
LEMMA GridIsSequence ==
    ASSUME NEW c, Numeric(c), NEW start \in Int, NEW end \in Int, end >= start
    PROVE  LET g == Grid(c, start, end)
           IN  /\ Len(g) = ((end - start) \div c.step) + 1 /\ Len(g) \in Nat \ {0}
               /\ g \in Seq(Int) /\ g = [i \in 1..Len(g) |-> g[i]]
               /\ \A i \in 1..Len(g) : g[i] = start + (i - 1) * c.step
<1> DEFINE m == (end - start) \div c.step
           g == Grid(c, start, end)
<1>1. c.step \in Nat \ {0} /\ end - start \in Nat
  BY DEF Numeric
<1>2. m \in Nat
  BY <1>1, Division
<1>3. g = [i \in 1..(m + 1) |-> start + (i - 1) * c.step]
  BY DEF Grid
<1> HIDE DEF m
<1>4. \A i \in 1..(m + 1) : start + (i - 1) * c.step \in Int
  BY <1>1, <1>2
<1> HIDE DEF g
<1>5. Len(g) = m + 1 /\ g \in Seq(Int)
  BY <1>2, <1>3, <1>4
<1> QED  BY <1>2, <1>3, <1>5 DEF g, m

\* The points of run_causal are times.
LEMMA CausalPointsAreTimes ==
    ASSUME NEW c, Numeric(c), NEW start \in Int, NEW end \in Int, end >= start
    PROVE  LET times == CausalPoints(c, start, end)
           IN  Len(times) \in Nat /\ \A i \in 1..Len(times) : times[i] \in Int
<1> DEFINE g == Grid(c, start, end)
           times == CausalPoints(c, start, end)
<1>1. g \in Seq(Int)
  BY GridIsSequence
<1>2. times = g \/ times = Append(g, end)
  BY DEF CausalPoints
<1> HIDE DEF g, times
<1>3. times \in Seq(Int)
  BY <1>1, <1>2
<1> QED  BY <1>3 DEF times

\* run_causal of an R1 handoff finds what the reference does, whatever the Evidence:
\* what becomes available at one time counts from then on, while its event time
\* is in the window; the order of the schedule plays no part.
THEOREM CausalReplayIsReference ==
    ASSUME NullIsNoFunction, NEW c, Numeric(c), NEW start \in Int, NEW end \in Int, end >= start,
           NEW at \in Int, NEW items, \A e \in ToSet(items) : e.timestamp \in Int,
           NEW scheduled,
           ToSet(scheduled) = {[evidence |-> e, available |-> at] : e \in ToSet(items)}
    PROVE  LET times == CausalPoints(c, start, end)
               hit == [i \in 1..Len(times) |-> times[i] >= at /\ ReferenceHit(c, items, times[i])]
           IN  Finds(CausalReplay(c, scheduled, start, end).stopping, FusedAt(c, times, hit))
<1> DEFINE times == CausalPoints(c, start, end)
           n == Len(times)
           hit == [i \in 1..n |-> times[i] >= at /\ ReferenceHit(c, items, times[i])]
           active == [i \in 1..n |->
                        EventTimeWindow(Activated(scheduled, times[i]), times[i], c.window)]
           points == Scored(c, n, times, active)
<1>1. n \in Nat /\ \A i \in 1..n : times[i] \in Int
  BY CausalPointsAreTimes
<1>2. CausalReplay(c, scheduled, start, end).stopping = Evaluate(c, points, end, "run_end")
  BY DEF CausalReplay, Scored
<1> HIDE DEF times, n
<1>3. /\ IsTrajectory(points) /\ Len(points) = n
      /\ \A i \in 1..n : points[i].timestamp = times[i] /\ points[i].score = Score(c, active[i])
  <2> HIDE DEF active
  <2>1. \A i \in 1..n : times[i] \in Int
    BY <1>1
  <2>2. n \in Nat
    BY <1>1
  <2>3. IsTrajectory(points) /\ Len(points) = n
    BY <2>1, <2>2, ScoresAreTrajectory
  <2>4. \A i \in 1..n : points[i].timestamp = times[i] /\ points[i].score = Score(c, active[i])
    BY <2>1, <2>2, ScoresAreTrajectory
  <2> QED  BY <2>3, <2>4
<1>4. ASSUME NEW i \in 1..n
      PROVE  hit[i] <=> Hit(c, points[i])
  <2> DEFINE t == times[i]
  <2>1. c.window \in Nat /\ t \in Int
    BY <1>1 DEF Numeric
  <2>2. Activated(scheduled, t) = IF at <= t THEN ToSet(items) ELSE {}
    <3> DEFINE A == {[evidence |-> e, available |-> at] : e \in ToSet(items)}
    <3>1. Activated(scheduled, t) = {s.evidence : s \in {x \in A : x.available <= t}}
      BY DEF Activated
    <3>2. \A s \in A : s.available = at
      OBVIOUS
    <3>3. {s.evidence : s \in A} = ToSet(items)
      <4> DEFINE I == ToSet(items)
      <4> HIDE DEF I
      <4>1. \A s \in A : s.evidence \in I
        BY DEF I
      <4>2. \A e \in I : \E s \in A : s.evidence = e
        <5> SUFFICES ASSUME NEW e \in I
                     PROVE  \E s \in A : s.evidence = e
          OBVIOUS
        <5>1. [evidence |-> e, available |-> at] \in A
          BY DEF I
        <5>2. [evidence |-> e, available |-> at].evidence = e
          OBVIOUS
        <5> HIDE DEF A
        <5> QED  BY <5>1, <5>2
      <4> HIDE DEF A
      <4> QED  BY <4>1, <4>2 DEF I
    <3> HIDE DEF A
    <3>4. CASE at <= t
      BY <3>1, <3>2, <3>3, <3>4
    <3>5. CASE ~(at <= t)
      <4>1. {x \in A : x.available <= t} = {}
        BY <3>2, <3>5
      <4> QED  BY <3>1, <3>5, <4>1
    <3> QED  BY <3>4, <3>5
  <2>3. active[i] = IF at <= t THEN ReferenceActive(c, items, t) ELSE {}
    <3>1. active[i] = EventTimeWindow(Activated(scheduled, t), t, c.window)
      OBVIOUS
    <3>2. \A e \in ToSet(items) : t - c.window <= e.timestamp /\ e.timestamp <= t
                                    <=> e.timestamp \in (t - c.window)..t
      BY <2>1
    <3>3. EventTimeWindow(ToSet(items), t, c.window) = ReferenceActive(c, items, t)
      BY <3>2 DEF EventTimeWindow, ReferenceActive
    <3>4. EventTimeWindow({}, t, c.window) = {}
      BY DEF EventTimeWindow
    <3> HIDE DEF active, t
    <3> QED  BY <2>2, <3>1, <3>3, <3>4
  <2>4. points[i].score = Score(c, active[i]) /\ (hit[i] <=> t >= at /\ ReferenceHit(c, items, t))
    BY <1>3
  <2> HIDE DEF hit, active, points, t
  <2>5. CASE at <= t
    <3>1. active[i] = ReferenceActive(c, items, t) /\ t >= at
      BY <2>1, <2>3, <2>5
    <3>2. points[i].score = Score(c, ReferenceActive(c, items, t))
      BY <2>4, <3>1
    <3>3. Hit(c, points[i]) <=> ReferenceHit(c, items, t)
      BY <3>2 DEF Hit, ReferenceHit, Score
    <3> QED  BY <2>4, <3>1, <3>3
  <2>6. CASE ~(at <= t)
    <3>1. active[i] = {} /\ ~(t >= at)
      BY <2>1, <2>3, <2>6
    <3>2. points[i].score = 0
      BY <2>4, <3>1, ScoreIsNat
    <3> QED  BY <2>4, <3>1, <3>2, ZeroIsNoHit
  <2> QED  BY <2>5, <2>6
<1>5. times = [i \in 1..Len(points) |-> points[i].timestamp]
  <2>1. times = [i \in 1..n |-> times[i]]
    <3>1. CausalPoints(c, start, end) \in Seq(Int)
      <4> DEFINE g == Grid(c, start, end)
      <4>1. g \in Seq(Int)
        BY GridIsSequence
      <4>2. CausalPoints(c, start, end) = g \/ CausalPoints(c, start, end) = Append(g, end)
        BY DEF CausalPoints
      <4> HIDE DEF g
      <4> QED  BY <4>1, <4>2
    <3> QED  BY <3>1 DEF times, n
  <2> HIDE DEF points
  <2> QED  BY <1>3, <2>1
<1> HIDE DEF points, hit
<1>6. Finds(Evaluate(c, points, end, "run_end"), FusedAt(c, times, hit))
  <2>1. \A i \in 1..Len(points) : hit[i] <=> Hit(c, points[i])
    BY <1>3, <1>4
  <2> HIDE DEF active
  <2> QED  BY <1>3, <1>5, <2>1, FusionIsReference, Zenon
<1> QED  BY <1>2, <1>6 DEF hit, times, n

-----------------------------------------------------------------------------
(***************************************************************************)
(* The sliding window of the event-time replay                             *)
(***************************************************************************)

\* Neighbours in order are all in order.
LEMMA NeighboursInOrder ==
    ASSUME NEW n \in Nat, NEW f, \A i \in 1..n : f[i] \in Int, \A i \in 2..n : f[i] >= f[i - 1]
    PROVE  \A i, j \in 1..n : i <= j => f[i] <= f[j]
<1> DEFINE N == {k \in Nat : \A i \in 1..n : i + k <= n => f[i] <= f[i + k]}
<1>1. 0 \in N
  OBVIOUS
<1>2. ASSUME NEW k \in N
      PROVE  k + 1 \in N
  <2> SUFFICES ASSUME NEW i \in 1..n, i + (k + 1) <= n
               PROVE  f[i] <= f[i + (k + 1)]
    OBVIOUS
  <2>1. i + k \in 1..n /\ i + (k + 1) \in 2..n /\ f[i] <= f[i + k]
    OBVIOUS
  <2>2. f[i + (k + 1)] >= f[i + k]
    <3>1. PICK j \in 2..n : j = i + (k + 1)
      BY <2>1
    <3>2. f[j] >= f[j - 1] /\ j - 1 = i + k
      BY <3>1
    <3> QED  BY <3>1, <3>2
  <2>3. f[i + (k + 1)] \in Int /\ f[i + k] \in Int /\ f[i] \in Int
    BY <2>1
  <2> QED  BY <2>1, <2>2, <2>3
<1> HIDE DEF N
<1>3. N = Nat
  <2>1. N \in SUBSET Nat
    BY DEF N
  <2> QED  BY <1>1, <1>2, <2>1, Induction
<1> SUFFICES ASSUME NEW i \in 1..n, NEW j \in 1..n, i <= j
             PROVE  f[i] <= f[j]
  OBVIOUS
<1>4. j - i \in N /\ i + (j - i) = j
  BY <1>3
<1> QED  BY <1>4 DEF N

\* The members up to the first one that is not early enough.
LEMMA DueIsInterval ==
    ASSUME NEW last \in Nat, NEW next \in 1..(last + 1), NEW f, \A i \in 1..last : f[i] \in Int,
           \A i, j \in 1..last : i <= j => f[i] <= f[j], NEW t \in Int,
           NEW due, due = {i \in next..last : \A j \in next..i : f[j] <= t}
    PROVE  /\ Cardinality(due) \in Nat /\ next + Cardinality(due) \in next..(last + 1)
           /\ \A i \in next..((next + Cardinality(due)) - 1) : f[i] <= t
           /\ \A i \in (next + Cardinality(due))..last : f[i] > t
<1> DEFINE S == {i \in next..last : f[i] > t}
<1>1. PICK m \in next..(last + 1) :
          (\A i \in next..(m - 1) : f[i] <= t) /\ (\A i \in m..last : f[i] > t)
  <2>1. CASE S = {}
    <3>1. \A i \in next..last : f[i] <= t
      BY <2>1
    <3>2. last + 1 \in next..(last + 1) /\ (last + 1) - 1 = last
      OBVIOUS
    <3>3. \A i \in (last + 1)..last : f[i] > t
      OBVIOUS
    <3> QED  BY <3>1, <3>2, <3>3
  <2>2. CASE S # {}
    <3>1. S \in SUBSET Nat
      OBVIOUS
    <3>2. PICK m \in S : \A j \in S : m <= j
      <4> HIDE DEF S
      <4> QED  BY <2>2, <3>1, FirstExists
    <3>3. m \in next..last /\ f[m] > t
      OBVIOUS
    <3>4. ASSUME NEW i \in next..(m - 1)
          PROVE  f[i] <= t
      <4>1. i \in next..last /\ i \notin S
        BY <3>2, <3>3
      <4> QED  BY <4>1
    <3>5. ASSUME NEW i \in m..last
          PROVE  f[i] > t
      <4>1. i \in 1..last /\ m \in 1..last /\ f[m] <= f[i]
        BY <3>3
      <4> QED  BY <3>3, <4>1
    <3>6. m \in next..(last + 1)
      BY <3>3
    <3> HIDE DEF S
    <3> QED  BY <3>4, <3>5, <3>6
  <2> QED  BY <2>1, <2>2
<1> HIDE DEF S
<1>2. due = next..(m - 1)
  <2>1. ASSUME NEW i \in due
        PROVE  i \in next..(m - 1)
    <3>1. i \in next..last /\ f[i] <= t
      OBVIOUS
    <3>2. i \notin m..last
      BY <1>1, <3>1
    <3> QED  BY <3>1, <3>2
  <2>2. ASSUME NEW i \in next..(m - 1)
        PROVE  i \in due
    <3>1. i \in next..last /\ \A j \in next..i : j \in next..(m - 1)
      OBVIOUS
    <3> QED  BY <1>1, <3>1
  <2> QED  BY <2>1, <2>2
<1>3. Cardinality(due) = m - next
  <2>1. next \in Int /\ m - 1 \in Int
    OBVIOUS
  <2>2. Cardinality(next..(m - 1)) = IF next > m - 1 THEN 0 ELSE (m - 1) - next + 1
    BY <2>1, FS_Interval
  <2> DEFINE c == Cardinality(next..(m - 1))
  <2>3. c = IF next > m - 1 THEN 0 ELSE (m - 1) - next + 1
    BY <2>2
  <2> HIDE DEF c
  <2>4. c = m - next
    BY <2>3
  <2> QED  BY <1>2, <2>4 DEF c
<1> DEFINE n == Cardinality(due)
<1>4. n = m - next
  BY <1>3
<1> HIDE DEF n
<1>5. n \in Nat /\ next + n = m
  BY <1>4
<1> QED  BY <1>1, <1>5 DEF n

\* A part of a sequence that begins at lo and ends before hi.
Slice(q, items, lo, hi) ==
    /\ q \in Seq(ToSet(items)) /\ Len(q) = hi - lo
    /\ \A j \in 1..(hi - lo) : q[j] = items[lo + j - 1]

\* A part of a list, a slice that continues a slice, and a slice of a slice.
LEMMA PartIsSlice ==
    ASSUME NEW items, items \in Seq(ToSet(items)), NEW lo \in 1..(Len(items) + 1),
           NEW hi \in lo..(Len(items) + 1)
    PROVE  Slice(SubSeq(items, lo, hi - 1), items, lo, hi)
<1> DEFINE T == ToSet(items)
<1> HIDE DEF T
<1>1. items \in Seq(T) /\ Len(items) \in Nat
  BY DEF T
<1>2. SubSeq(items, lo, hi - 1) = [i \in 1..(1 + (hi - 1) - lo) |-> items[i + lo - 1]]
  BY <1>1
<1> QED  BY <1>1, <1>2 DEF Slice, T

LEMMA SlicesJoin ==
    ASSUME NEW items, NEW lo \in Int, NEW mid \in Int, NEW hi \in Int, lo <= mid, mid <= hi,
           NEW p, Slice(p, items, lo, mid), NEW q, Slice(q, items, mid, hi)
    PROVE  Slice(p \o q, items, lo, hi)
<1> DEFINE T == ToSet(items)
<1> HIDE DEF T
<1>1. p \in Seq(T) /\ q \in Seq(T) /\ Len(p) = mid - lo /\ Len(q) = hi - mid
  BY DEF Slice, T
<1>2. p \o q \in Seq(T) /\ Len(p \o q) = hi - lo
  BY <1>1
<1>3. ASSUME NEW j \in 1..(hi - lo)
      PROVE  (p \o q)[j] = items[lo + j - 1]
  <2>1. CASE j <= mid - lo
    BY <1>1, <2>1 DEF Slice
  <2>2. CASE j > mid - lo
    <3>1. (p \o q)[j] = q[j - (mid - lo)] /\ j - (mid - lo) \in 1..(hi - mid)
      BY <1>1, <2>2
    <3>2. q[j - (mid - lo)] = items[mid + (j - (mid - lo)) - 1]
      BY <3>1 DEF Slice
    <3>3. mid + (j - (mid - lo)) - 1 = lo + j - 1
      OBVIOUS
    <3> QED  BY <3>1, <3>2, <3>3
  <2>3. j <= mid - lo \/ j > mid - lo
    OBVIOUS
  <2> QED  BY <2>1, <2>2, <2>3, Zenon
<1> DEFINE r == p \o q
<1> HIDE DEF r
<1>4. r \in Seq(T) /\ Len(r) = hi - lo /\ \A j \in 1..(hi - lo) : r[j] = items[lo + j - 1]
  BY <1>2, <1>3 DEF r
<1>5. Slice(r, items, lo, hi)
  BY <1>4 DEF Slice, T
<1> QED  BY <1>5 DEF r

LEMMA SliceOfSlice ==
    ASSUME NEW items, NEW lo \in Int, NEW hi \in Int, NEW p, Slice(p, items, lo, hi), lo <= hi,
           NEW first \in 1..(Len(p) + 1)
    PROVE  Slice(SubSeq(p, first, Len(p)), items, lo + first - 1, hi)
<1> DEFINE T == ToSet(items)
<1> HIDE DEF T
<1>1. p \in Seq(T) /\ Len(p) = hi - lo /\ Len(p) \in Nat
  BY DEF Slice, T
<1>2. SubSeq(p, first, Len(p)) = [i \in 1..(1 + Len(p) - first) |-> p[i + first - 1]]
  BY <1>1
<1>3. PICK q : q = SubSeq(p, first, Len(p))
  OBVIOUS
<1>4. q \in Seq(T) /\ Len(q) = 1 + Len(p) - first
  BY <1>1, <1>2, <1>3
<1>5. ASSUME NEW j \in 1..(hi - (lo + first - 1))
      PROVE  q[j] = items[(lo + first - 1) + j - 1]
  <2>1. q[j] = p[j + first - 1] /\ j + first - 1 \in 1..(hi - lo)
    BY <1>1, <1>2, <1>3
  <2>2. p[j + first - 1] = items[lo + (j + first - 1) - 1]
    BY <2>1 DEF Slice
  <2>3. lo + (j + first - 1) - 1 = (lo + first - 1) + j - 1
    OBVIOUS
  <2> QED  BY <2>1, <2>2, <2>3
<1> QED  BY <1>1, <1>3, <1>4, <1>5 DEF Slice, T

IsWindow(w) == w = [items |-> w.items, last |-> w.last, advanced |-> w.advanced, ok |-> w.ok]

\* Ingesting appends the due items.
LEMMA IngestedItems ==
    ASSUME NEW w, IsWindow(w), NEW due
    PROVE  /\ IsWindow(Ingested(w, due))
           /\ Ingested(w, due).items = w.items \o due
           /\ Ingested(w, due).advanced = w.advanced
<1> DEFINE before(i) == IF i = 1 THEN w.last ELSE due[i - 1].timestamp
           good == \A i \in 1..Len(due) : /\ NotBefore(due[i].timestamp, w.advanced)
                                          /\ NotBefore(due[i].timestamp, before(i))
           last == IF due = <<>> THEN w.last ELSE Last(due).timestamp
           v == Ingested(w, due)
<1>1. v = [w EXCEPT !.ok = w.ok /\ good, !.items = w.items \o due, !.last = last]
  BY Zenon DEF Ingested
<1> HIDE DEF good, last, v
<1>2. PICK ok : ok = (w.ok /\ good)
  BY Zenon
<1>3. v = [w EXCEPT !.ok = ok, !.items = w.items \o due, !.last = last]
  BY <1>1, <1>2, Zenon
<1>4. PICK items, was, advanced, fine :
          w = [items |-> items, last |-> was, advanced |-> advanced, ok |-> fine]
  BY Zenon DEF IsWindow
<1>5. w.items = items /\ w.advanced = advanced
  BY <1>4
<1>6. v = [items |-> items \o due, last |-> last, advanced |-> advanced, ok |-> ok]
  BY <1>3, <1>4, <1>5
<1>7. v.items = items \o due /\ v.last = last /\ v.advanced = advanced /\ v.ok = ok
  BY <1>6
<1>8. IsWindow(v)
  BY <1>6, <1>7, Zenon DEF IsWindow
<1> QED  BY <1>5, <1>7, <1>8, Zenon DEF v

\* Where the items begin that an advanced window keeps.
FirstKept(q, edge) ==
    LET keep == {i \in 1..Len(q) : q[i].timestamp >= edge}
    IN  IF keep = {} THEN Len(q) + 1 ELSE Min(keep)

\* advance_to drops the items before the first that is recent enough.
LEMMA AdvancedItems ==
    ASSUME NEW w, IsWindow(w), NEW t, NEW size
    PROVE  LET v == AdvanceTo(w, t, size)
           IN  /\ IsWindow(v) /\ v.advanced = t
               /\ v.items = SubSeq(w.items, FirstKept(w.items, t - size), Len(w.items))
<1> DEFINE good == NotBefore(t, w.advanced) /\ NotBefore(t, w.last)
           kept == SubSeq(w.items, FirstKept(w.items, t - size), Len(w.items))
           v == AdvanceTo(w, t, size)
<1>1. v = [w EXCEPT !.ok = w.ok /\ NotBefore(t, w.advanced) /\ NotBefore(t, w.last),
                    !.items = kept, !.advanced = t]
  BY Zenon DEF AdvanceTo, FirstKept
<1> HIDE DEF kept, v
<1>2. PICK ok : ok = (w.ok /\ NotBefore(t, w.advanced) /\ NotBefore(t, w.last))
  BY Zenon
<1>3. v = [w EXCEPT !.ok = ok, !.items = kept, !.advanced = t]
  BY <1>1, <1>2, Zenon
<1>4. PICK items, last, advanced, fine :
          w = [items |-> items, last |-> last, advanced |-> advanced, ok |-> fine]
  BY Zenon DEF IsWindow
<1>5. v = [items |-> kept, last |-> last, advanced |-> t, ok |-> ok]
  BY <1>3, <1>4
<1>6. v.items = kept /\ v.last = last /\ v.advanced = t /\ v.ok = ok
  BY <1>5
<1>7. IsWindow(v)
  BY <1>5, <1>6, Zenon DEF IsWindow
<1> QED  BY <1>6, <1>7, Zenon DEF v, kept

\* In a sorted queue the items before it are old and the items from it are not.
LEMMA KeptAreRecent ==
    ASSUME NEW q, Len(q) \in Nat, \A i \in 1..Len(q) : q[i].timestamp \in Int,
           \A i, j \in 1..Len(q) : i <= j => q[i].timestamp <= q[j].timestamp,
           NEW edge \in Int
    PROVE  LET first == FirstKept(q, edge)
           IN  /\ first \in 1..(Len(q) + 1)
               /\ \A i \in 1..(first - 1) : q[i].timestamp < edge
               /\ \A i \in first..Len(q) : q[i].timestamp >= edge
<1> DEFINE keep == {i \in 1..Len(q) : q[i].timestamp >= edge}
           first == FirstKept(q, edge)
<1>1. first = IF keep = {} THEN Len(q) + 1 ELSE Min(keep)
  BY DEF FirstKept
<1>2. CASE keep = {}
  <2>1. \A i \in 1..Len(q) : q[i].timestamp < edge
    BY <1>2
  <2>2. first = Len(q) + 1
    BY <1>1, <1>2
  <2> HIDE DEF first, keep
  <2>3. first \in 1..(Len(q) + 1) /\ first - 1 = Len(q)
    BY <2>2
  <2>4. \A i \in 1..(first - 1) : q[i].timestamp < edge
    BY <2>1, <2>3
  <2>5. \A i \in first..Len(q) : q[i].timestamp >= edge
    BY <2>2
  <2> QED  BY <2>3, <2>4, <2>5 DEF first
<1>3. CASE keep # {}
  <2>1. keep \in SUBSET Nat
    OBVIOUS
  <2>2. \E i \in keep : \A j \in keep : i <= j
    <3> HIDE DEF keep
    <3> QED  BY <1>3, <2>1, FirstExists
  <2>3. first \in keep /\ \A j \in keep : first <= j
    <3> HIDE DEF keep
    <3> QED  BY <1>1, <1>3, <2>2 DEF Min
  <2>4. first \in 1..Len(q) /\ q[first].timestamp >= edge
    BY <2>3
  <2> HIDE DEF first
  <2>5. ASSUME NEW i \in 1..(first - 1)
        PROVE  q[i].timestamp < edge
    <3>1. i \in 1..Len(q) /\ i \notin keep
      BY <2>3, <2>4
    <3> QED  BY <3>1
  <2>6. ASSUME NEW i \in first..Len(q)
        PROVE  q[i].timestamp >= edge
    <3>1. i \in 1..Len(q) /\ q[first].timestamp <= q[i].timestamp
      BY <2>4
    <3> QED  BY <2>4, <3>1
  <2> QED  BY <2>4, <2>5, <2>6 DEF first
<1> QED  BY <1>2, <1>3

\* Items in the order of their times.
InTimeOrder(items) ==
    /\ items \in Seq(ToSet(items)) /\ Len(items) \in Nat /\ DOMAIN items = 1..Len(items)
    /\ \A i \in 1..Len(items) : items[i].timestamp \in Int
    /\ \A i, j \in 1..Len(items) : i <= j => items[i].timestamp <= items[j].timestamp

\* Before a tick at t the window is a part of what was ingested, and what it
\* dropped is too old at t.
WindowReady(c, items, t, r) ==
    /\ IsWindow(r.window) /\ r.next \in 1..(Len(items) + 1)
    /\ \A i \in 1..(r.next - 1) : items[i].timestamp <= t
    /\ \E lo \in 1..r.next :
          /\ Slice(r.window.items, items, lo, r.next)
          /\ \A i \in 1..(lo - 1) : items[i].timestamp < t - c.window

\* After it the window is what the closed interval holds.
WindowTicked(c, items, t, r) ==
    /\ IsWindow(r.window) /\ r.next \in 1..(Len(items) + 1) /\ r.window.advanced = t
    /\ \A i \in 1..(r.next - 1) : items[i].timestamp <= t
    /\ \A i \in r.next..Len(items) : items[i].timestamp > t
    /\ \E lo \in 1..r.next :
          /\ Slice(r.window.items, items, lo, r.next)
          /\ \A i \in 1..(lo - 1) : items[i].timestamp < t - c.window
          /\ \A i \in lo..(r.next - 1) : items[i].timestamp >= t - c.window

\* After a tick the window is as the next, later tick expects it.
LEMMA TickedIsReady ==
    ASSUME NEW c, Numeric(c), NEW items, InTimeOrder(items), NEW t \in Int, NEW u \in Int, t <= u,
           NEW r, WindowTicked(c, items, t, r)
    PROVE  WindowReady(c, items, u, r)
<1>1. c.window \in Nat
  BY DEF Numeric
<1>2. PICK lo \in 1..r.next :
          /\ Slice(r.window.items, items, lo, r.next)
          /\ \A i \in 1..(lo - 1) : items[i].timestamp < t - c.window
  BY DEF WindowTicked
<1>3. r.next \in 1..(Len(items) + 1) /\ IsWindow(r.window)
  BY DEF WindowTicked
<1>4. \A i \in 1..(lo - 1) : items[i].timestamp < u - c.window
  <2> SUFFICES ASSUME NEW i \in 1..(lo - 1)
               PROVE  items[i].timestamp < u - c.window
    OBVIOUS
  <2>1. i \in 1..Len(items) /\ items[i].timestamp \in Int /\ items[i].timestamp < t - c.window
    BY <1>2, <1>3 DEF InTimeOrder
  <2> QED  BY <1>1, <2>1
<1>5. \A i \in 1..(r.next - 1) : items[i].timestamp <= u
  <2> SUFFICES ASSUME NEW i \in 1..(r.next - 1)
               PROVE  items[i].timestamp <= u
    OBVIOUS
  <2>1. i \in 1..Len(items) /\ items[i].timestamp \in Int
    BY <1>3 DEF InTimeOrder
  <2>2. items[i].timestamp <= t
    BY Zenon DEF WindowTicked
  <2> QED  BY <2>1, <2>2
<1> QED  BY <1>2, <1>3, <1>4, <1>5, Zenon DEF WindowReady

\* The evidence that is active then is the evidence of the reference.
LEMMA TickedIsReference ==
    ASSUME NEW c, Numeric(c), NEW items, InTimeOrder(items), NEW t \in Int,
           NEW r, WindowTicked(c, items, t, r)
    PROVE  ActiveEvidence(r.window) = ReferenceActive(c, items, t)
<1> DEFINE q == r.window.items
           R == ReferenceActive(c, items, t)
<1>1. PICK lo \in 1..r.next :
          /\ Slice(q, items, lo, r.next)
          /\ \A i \in 1..(lo - 1) : items[i].timestamp < t - c.window
          /\ \A i \in lo..(r.next - 1) : items[i].timestamp >= t - c.window
  BY DEF WindowTicked
<1>2. /\ r.next \in 1..(Len(items) + 1) /\ r.window.advanced = t /\ c.window \in Nat
      /\ \A i \in 1..(r.next - 1) : items[i].timestamp <= t
      /\ \A i \in r.next..Len(items) : items[i].timestamp > t
  BY DEF WindowTicked, Numeric
<1>3. /\ Len(q) = r.next - lo /\ DOMAIN q = 1..(r.next - lo)
      /\ \A j \in 1..(r.next - lo) : q[j] = items[lo + j - 1]
  <2> DEFINE T == ToSet(items)
  <2> HIDE DEF T
  <2>1. q \in Seq(T) /\ Len(q) = r.next - lo /\ \A j \in 1..(r.next - lo) : q[j] = items[lo + j - 1]
    BY <1>1 DEF Slice, T
  <2> QED  BY <2>1
<1>4. ToSet(q) = {q[j] : j \in DOMAIN q} /\ ToSet(items) = {items[i] : i \in DOMAIN items}
  BY DEF ToSet
<1>5. R = {e \in ToSet(items) : e.timestamp \in (t - c.window)..t}
  BY DEF ReferenceActive
<1>6. ActiveEvidence(r.window) = {e \in ToSet(q) : e.timestamp <= t}
  <2>1. t # None
    BY NoneIsNoTime
  <2> QED  BY <1>2, <2>1 DEF ActiveEvidence
<1>7. DOMAIN items = 1..Len(items) /\ Len(items) \in Nat
      /\ \A i \in 1..Len(items) : items[i].timestamp \in Int
  BY DEF InTimeOrder
<1> HIDE DEF q, R
<1>8. ASSUME NEW e \in ActiveEvidence(r.window)
      PROVE  e \in R
  <2>1. PICK j \in 1..(r.next - lo) : e = q[j]
    BY <1>3, <1>4, <1>6
  <2>2. lo + j - 1 \in lo..(r.next - 1) /\ lo + j - 1 \in 1..Len(items)
        /\ lo + j - 1 \in 1..(r.next - 1)
    BY <1>2
  <2>3. e = items[lo + j - 1] /\ e.timestamp >= t - c.window /\ e.timestamp <= t
        /\ e.timestamp \in Int
    BY <1>1, <1>2, <1>3, <1>7, <2>1, <2>2
  <2>4. e \in ToSet(items)
    BY <1>4, <1>7, <2>2, <2>3
  <2> QED  BY <1>2, <1>5, <2>3, <2>4
<1>9. ASSUME NEW e \in R
      PROVE  e \in ActiveEvidence(r.window)
  <2>1. PICK i \in 1..Len(items) : e = items[i]
    BY <1>4, <1>5, <1>7
  <2>2. e.timestamp >= t - c.window /\ e.timestamp <= t /\ e.timestamp \in Int
    BY <1>2, <1>5, <1>7, <2>1
  <2>3. i \notin 1..(lo - 1)
    BY <1>1, <1>2, <2>1, <2>2
  <2>4. i \notin r.next..Len(items)
    BY <1>2, <2>1, <2>2
  <2>5. i - lo + 1 \in 1..(r.next - lo) /\ lo + (i - lo + 1) - 1 = i
    BY <1>2, <2>3, <2>4
  <2>6. q[i - lo + 1] = e
    BY <1>3, <2>1, <2>5
  <2> QED  BY <1>3, <1>4, <1>6, <2>2, <2>5, <2>6
<1> QED  BY <1>8, <1>9 DEF R

\* A tick takes in what is due and scores what the reference would.
LEMMA TickMoves ==
    ASSUME NEW c, Numeric(c), NEW items, InTimeOrder(items), NEW t \in Int,
           NEW r, WindowReady(c, items, t, r)
    PROVE  LET v == Tick(c, items, r, t)
           IN  /\ WindowTicked(c, items, t, v)
               /\ v.points = Append(r.points, [timestamp |-> t,
                                               score |-> Score(c, ReferenceActive(c, items, t))])
<1> DEFINE L == Len(items)
           due == {i \in r.next..L : \A j \in r.next..i : items[j].timestamp <= t}
           next == r.next + Cardinality(due)
           more == SubSeq(items, r.next, next - 1)
           u == Ingested(r.window, more)
           w == AdvanceTo(u, t, c.window)
           v == Tick(c, items, r, t)
           first == FirstKept(u.items, t - c.window)
<1>1. /\ v.next = next /\ v.window = w
      /\ v.points = Append(r.points, [timestamp |-> t, score |-> Score(c, ActiveEvidence(w))])
  BY DEF Tick
<1>2. L \in Nat /\ r.next \in 1..(L + 1) /\ c.window \in Nat /\ IsWindow(r.window)
  BY DEF InTimeOrder, WindowReady, Numeric
<1>3. /\ \A i \in 1..L : items[i].timestamp \in Int
      /\ \A i, j \in 1..L : i <= j => items[i].timestamp <= items[j].timestamp
      /\ items \in Seq(ToSet(items))
  BY DEF InTimeOrder
<1>4. /\ next \in r.next..(L + 1)
      /\ \A i \in r.next..(next - 1) : items[i].timestamp <= t
      /\ \A i \in next..L : items[i].timestamp > t
  <2> DEFINE f == [i \in 1..L |-> items[i].timestamp]
             n == Cardinality(due)
  <2>1. \A i \in 1..L : f[i] = items[i].timestamp
    OBVIOUS
  <2>2. due = {i \in r.next..L : \A j \in r.next..i : f[j] <= t}
    <3>1. \A i \in r.next..L : \A j \in r.next..i : f[j] = items[j].timestamp
      BY <1>2
    <3> QED  BY <3>1
  <2>3. \A i \in 1..L : f[i] \in Int
    BY <1>3
  <2>4. \A i, j \in 1..L : i <= j => f[i] <= f[j]
    BY <1>3
  <2> HIDE DEF f, due, L
  <2>5. L \in Nat /\ r.next \in 1..(L + 1)
    BY <1>2
  <2> DEFINE x == r.next
  <2> HIDE DEF x
  <2>6. x \in 1..(L + 1) /\ due = {i \in x..L : \A j \in x..i : f[j] <= t}
    BY <2>2, <2>5 DEF x
  <2>7. /\ Cardinality(due) \in Nat /\ x + Cardinality(due) \in x..(L + 1)
        /\ \A i \in x..((x + Cardinality(due)) - 1) : f[i] <= t
        /\ \A i \in (x + Cardinality(due))..L : f[i] > t
    BY <2>3, <2>4, <2>5, <2>6, DueIsInterval
  <2> DEFINE y == x + Cardinality(due)
  <2>8. y \in x..(L + 1) /\ (\A i \in x..(y - 1) : f[i] <= t) /\ (\A i \in y..L : f[i] > t)
    BY <2>7
  <2>9. y = next
    BY DEF x
  <2> HIDE DEF y
  <2>10. (\A i \in x..(y - 1) : i \in 1..L) /\ (\A i \in y..L : i \in 1..L)
    BY <2>5, <2>6, <2>8
  <2>11. (\A i \in x..(y - 1) : items[i].timestamp <= t) /\ (\A i \in y..L : items[i].timestamp > t)
    BY <2>1, <2>8, <2>10
  <2>12. x = r.next
    BY DEF x
  <2> HIDE DEF next
  <2> QED  BY <2>8, <2>9, <2>11, <2>12
<1> HIDE DEF v, w, first, u, more, due, next, L
<1>5. PICK lo \in 1..r.next :
          /\ Slice(r.window.items, items, lo, r.next)
          /\ \A i \in 1..(lo - 1) : items[i].timestamp < t - c.window
  BY DEF WindowReady
<1>6. Slice(more, items, r.next, next)
  BY <1>2, <1>3, <1>4, PartIsSlice DEF L, more
<1>7. IsWindow(u) /\ u.items = r.window.items \o more
  BY <1>2, IngestedItems DEF u
<1>8. Slice(u.items, items, lo, next)
  <2>1. lo \in Int /\ r.next \in Int /\ next \in Int /\ lo <= r.next /\ r.next <= next
    BY <1>2, <1>4, <1>5
  <2> QED  BY <1>5, <1>6, <1>7, <2>1, SlicesJoin
<1>9. IsWindow(w) /\ w.advanced = t /\ w.items = SubSeq(u.items, first, Len(u.items))
  BY <1>7, AdvancedItems, Zenon DEF w, first
<1>10. /\ Len(u.items) = next - lo /\ Len(u.items) \in Nat
       /\ \A j \in 1..(next - lo) : /\ u.items[j] = items[lo + j - 1]
                                    /\ lo + j - 1 \in lo..(next - 1) /\ lo + j - 1 \in 1..L
  <2>1. Len(u.items) = next - lo /\ \A j \in 1..(next - lo) : u.items[j] = items[lo + j - 1]
    BY <1>8, Zenon DEF Slice
  <2>2. lo \in Nat /\ next \in Nat /\ 1 <= lo /\ lo <= next /\ next <= L + 1
    BY <1>2, <1>4, <1>5
  <2> QED  BY <1>2, <2>1, <2>2
<1>11. /\ first \in 1..(Len(u.items) + 1)
       /\ \A i \in 1..(first - 1) : u.items[i].timestamp < t - c.window
       /\ \A i \in first..Len(u.items) : u.items[i].timestamp >= t - c.window
  <2> DEFINE q == u.items
             edge == t - c.window
  <2>1. Len(q) \in Nat /\ edge \in Int
    BY <1>2, <1>10
  <2>2. \A i \in 1..Len(q) : q[i].timestamp \in Int
    BY <1>3, <1>10
  <2>3. \A i, j \in 1..Len(q) : i <= j => q[i].timestamp <= q[j].timestamp
    <3> SUFFICES ASSUME NEW i \in 1..Len(q), NEW j \in 1..Len(q), i <= j
                 PROVE  q[i].timestamp <= q[j].timestamp
      OBVIOUS
    <3>1. lo + i - 1 \in 1..L /\ lo + j - 1 \in 1..L /\ lo + i - 1 <= lo + j - 1
      BY <1>10
    <3>2. q[i] = items[lo + i - 1] /\ q[j] = items[lo + j - 1]
      BY <1>10
    <3> QED  BY <1>3, <3>1, <3>2
  <2> HIDE DEF q, edge
  <2>4. LET x == FirstKept(q, edge)
        IN  /\ x \in 1..(Len(q) + 1)
            /\ \A i \in 1..(x - 1) : q[i].timestamp < edge
            /\ \A i \in x..Len(q) : q[i].timestamp >= edge
    BY <2>1, <2>2, <2>3, KeptAreRecent
  <2> QED  BY <2>4, Zenon DEF q, edge, first
<1> DEFINE mid == lo + first - 1
<1>12. mid \in lo..next /\ mid \in 1..next
  BY <1>4, <1>5, <1>10, <1>11
<1>13. Slice(w.items, items, mid, next)
  <2>1. lo \in Int /\ next \in Int /\ lo <= next
    BY <1>2, <1>4, <1>5
  <2> QED  BY <1>8, <1>9, <1>11, <2>1, SliceOfSlice
<1>14. \A i \in 1..(mid - 1) : items[i].timestamp < t - c.window
  <2> SUFFICES ASSUME NEW i \in 1..(mid - 1)
               PROVE  items[i].timestamp < t - c.window
    OBVIOUS
  <2>1. CASE i \in 1..(lo - 1)
    BY <1>5, <2>1
  <2>2. CASE i \notin 1..(lo - 1)
    <3>1. i - lo + 1 \in 1..(first - 1) /\ i - lo + 1 \in 1..(next - lo)
          /\ lo + (i - lo + 1) - 1 = i
      BY <1>5, <1>10, <1>11, <2>2
    <3>2. u.items[i - lo + 1] = items[i]
      BY <1>10, <3>1
    <3> QED  BY <1>11, <3>1, <3>2
  <2> QED  BY <2>1, <2>2
<1>15. \A i \in mid..(next - 1) : items[i].timestamp >= t - c.window
  <2> SUFFICES ASSUME NEW i \in mid..(next - 1)
               PROVE  items[i].timestamp >= t - c.window
    OBVIOUS
  <2>1. i - lo + 1 \in first..Len(u.items) /\ i - lo + 1 \in 1..(next - lo)
        /\ lo + (i - lo + 1) - 1 = i
    BY <1>4, <1>5, <1>10, <1>11
  <2>2. u.items[i - lo + 1] = items[i]
    BY <1>10, <2>1
  <2> QED  BY <1>11, <2>1, <2>2
<1> HIDE DEF mid
<1>16. \A i \in 1..(next - 1) : items[i].timestamp <= t
  <2>1. \A i \in 1..(r.next - 1) : items[i].timestamp <= t
    BY Zenon DEF WindowReady
  <2>2. \A i \in 1..(next - 1) : i \in 1..(r.next - 1) \/ i \in r.next..(next - 1)
    BY <1>2, <1>4
  <2> QED  BY <1>4, <2>1, <2>2
<1>17. WindowTicked(c, items, t, v)
  <2>1. v.next = next /\ v.window = w /\ next \in 1..(Len(items) + 1)
    BY <1>1, <1>2, <1>4 DEF next, w, u, more, due, L
  <2> QED  BY <1>4, <1>9, <1>12, <1>13, <1>14, <1>15, <1>16, <2>1, Zenon DEF WindowTicked, L
<1>18. ActiveEvidence(w) = ReferenceActive(c, items, t)
  <2>1. v.window = w
    BY <1>1
  <2> QED  BY <1>17, <2>1, TickedIsReference
<1> QED  BY <1>1, <1>17, <1>18 DEF v

\* The ticks of a replay, one after the other.
LEMMA TicksFollow ==
    ASSUME NEW c, NEW items, NEW times, Len(times) \in Nat
    PROVE  LET state == Ticks(c, items, times)
           IN  /\ state[0] = ReplayStart
               /\ \A n \in 0..(Len(times) - 1) :
                     state[n + 1] = Tick(c, items, state[n], times[n + 1])
<1> DEFINE step(v, i) == Tick(c, items, v, times[i])
           start == ReplayStart
           Upto(g, n) == g = [i \in 0..n |-> IF i = 0 THEN start ELSE step(g[i - 1], i)]
           N == {n \in Nat : \E g : Upto(g, n)}
<1>1. Ticks(c, items, times) = CHOOSE g : Upto(g, Len(times))
  BY DEF Ticks
<1> HIDE DEF step, start
<1>2. 0 \in N
  <2>1. Upto([i \in 0..0 |-> start], 0)
    OBVIOUS
  <2> QED  BY <2>1
<1>3. ASSUME NEW n \in N
      PROVE  n + 1 \in N
  <2>1. PICK g : Upto(g, n)
    OBVIOUS
  <2> DEFINE h == [i \in 0..(n + 1) |-> IF i = n + 1 THEN step(g[n], n + 1) ELSE g[i]]
  <2>2. ASSUME NEW i \in 0..(n + 1)
        PROVE  h[i] = IF i = 0 THEN start ELSE step(h[i - 1], i)
    <3>1. CASE i = n + 1
      <4>1. h[i] = step(g[n], n + 1) /\ h[i - 1] = g[n] /\ i # 0
        BY <3>1
      <4> QED  BY <3>1, <4>1
    <3>2. CASE i \in 1..n
      <4>1. h[i] = g[i] /\ h[i - 1] = g[i - 1] /\ i # 0
        BY <3>2
      <4>2. g[i] = step(g[i - 1], i)
        BY <2>1, <3>2
      <4> QED  BY <4>1, <4>2
    <3>3. CASE i = 0
      <4>1. h[i] = g[i] /\ g[i] = start
        BY <2>1, <3>3
      <4> QED  BY <3>3, <4>1
    <3> QED  BY <3>1, <3>2, <3>3
  <2>3. Upto(h, n + 1)
    <3>1. h = [i \in 0..(n + 1) |-> h[i]]
      OBVIOUS
    <3> HIDE DEF h
    <3> QED  BY <2>2, <3>1
  <2> HIDE DEF h, Upto
  <2> QED  BY <2>3
<1> HIDE DEF N
<1>4. N = Nat
  <2>1. N \in SUBSET Nat
    BY DEF N
  <2> QED  BY <1>2, <1>3, <2>1, Induction
<1>5. Upto(Ticks(c, items, times), Len(times))
  <2>1. \E g : Upto(g, Len(times))
    BY <1>4 DEF N
  <2> HIDE DEF Upto
  <2> QED  BY <1>1, <2>1
<1> DEFINE g == Ticks(c, items, times)
<1> HIDE DEF g
<1>6. g[0] = start
  BY <1>5 DEF g
<1>7. ASSUME NEW n \in 0..(Len(times) - 1)
      PROVE  g[n + 1] = step(g[n], n + 1)
  <2>1. n + 1 \in 0..Len(times) /\ n + 1 # 0 /\ n + 1 - 1 = n
    OBVIOUS
  <2> QED  BY <1>5, <2>1 DEF g
<1> QED  BY <1>6, <1>7 DEF g, start, step

\* What the window before the first tick holds is nothing.
LEMMA StartIsReady ==
    ASSUME NEW c, NEW items, Len(items) \in Nat, NEW t
    PROVE  WindowReady(c, items, t, ReplayStart) /\ ReplayStart.points = <<>>
<1>1. /\ ReplayStart.next = 1 /\ ReplayStart.window = EmptyWindow /\ ReplayStart.points = <<>>
  BY DEF ReplayStart
<1>2. IsWindow(EmptyWindow) /\ EmptyWindow.items = <<>>
  BY DEF IsWindow, EmptyWindow
<1>3. Slice(<<>>, items, 1, 1)
  BY DEF Slice
<1>4. 1 \in 1..1 /\ 1 \in 1..(Len(items) + 1) /\ \A i \in 1..(1 - 1) : FALSE
  OBVIOUS
<1>5. \E lo \in 1..1 : Slice(<<>>, items, lo, 1) /\ \A i \in 1..(lo - 1) : items[i].timestamp < t - c.window
  BY <1>3, <1>4
<1> QED  BY <1>1, <1>2, <1>4, <1>5, Zenon DEF WindowReady

\* One more point.
LEMMA ScoredOneMore ==
    ASSUME NEW c, NEW n \in Nat, NEW times, NEW active, NEW points, points = Scored(c, n, times, active)
    PROVE  Append(points, [timestamp |-> times[n + 1], score |-> Score(c, active[n + 1])])
             = Scored(c, n + 1, times, active)
<1> DEFINE f(i) == [timestamp |-> times[i], score |-> Score(c, active[i])]
           T == {f(i) : i \in 1..n}
           q == Append(points, f(n + 1))
<1>1. points = [i \in 1..n |-> f(i)] /\ Scored(c, n + 1, times, active) = [i \in 1..(n + 1) |-> f(i)]
  BY DEF Scored
<1> HIDE DEF f
<1>2. points \in Seq(T) /\ Len(points) = n
  BY <1>1
<1> HIDE DEF T, q
<1>3. /\ q \in Seq(T \cup {f(n + 1)}) /\ Len(q) = n + 1
      /\ q[n + 1] = f(n + 1) /\ \A i \in 1..n : q[i] = points[i]
  BY <1>2, AppendedTo DEF q
<1>4. q = [i \in 1..(n + 1) |-> q[i]]
  BY <1>3
<1>5. \A i \in 1..(n + 1) : q[i] = f(i)
  <2>1. \A i \in 1..n : q[i] = f(i)
    BY <1>1, <1>3
  <2>2. \A i \in 1..(n + 1) : i \in 1..n \/ i = n + 1
    OBVIOUS
  <2> QED  BY <1>3, <2>1, <2>2
<1>6. q = [i \in 1..(n + 1) |-> f(i)]
  BY <1>4, <1>5
<1> QED  BY <1>1, <1>6 DEF q, f

\* The points of the replay are the scores of the closed windows at its times.
LEMMA TicksAreScores ==
    ASSUME NEW c, Numeric(c), NEW items, InTimeOrder(items),
           NEW times, Len(times) \in Nat, \A i \in 1..Len(times) : times[i] \in Int,
           \A i \in 2..Len(times) : times[i - 1] <= times[i],
           NEW active, active = [i \in 1..Len(times) |-> ReferenceActive(c, items, times[i])]
    PROVE  Ticks(c, items, times)[Len(times)].points = Scored(c, Len(times), times, active)
<1> DEFINE state == Ticks(c, items, times)
           m == Len(times)
           Right(n) == /\ state[n].points = Scored(c, n, times, active)
                       /\ n >= 1 => WindowTicked(c, items, times[n], state[n])
                       /\ n = 0 => state[n] = ReplayStart
           N == {n \in Nat : n <= m => Right(n)}
<1>1. /\ state[0] = ReplayStart
      /\ \A n \in 0..(m - 1) : state[n + 1] = Tick(c, items, state[n], times[n + 1])
  BY TicksFollow
<1> HIDE DEF state
<1>2. 0 \in N
  <2>1. Scored(c, 0, times, active) = <<>>
    BY DEF Scored
  <2>2. ReplayStart.points = <<>>
    BY DEF ReplayStart
  <2>3. ~(0 >= 1)
    OBVIOUS
  <2> QED  BY <1>1, <2>1, <2>2, <2>3
<1>3. ASSUME NEW n \in N
      PROVE  n + 1 \in N
  <2> SUFFICES ASSUME n + 1 <= m
               PROVE  Right(n + 1)
    OBVIOUS
  <2> DEFINE r == state[n]
             t == times[n + 1]
  <2>1. n \in Nat /\ n <= m /\ n + 1 \in 1..m /\ n \in 0..(m - 1)
    OBVIOUS
  <2>2. Right(n)
    BY <2>1
  <2>3. t \in Int /\ active[n + 1] = ReferenceActive(c, items, t)
    BY <2>1
  <2>4. WindowReady(c, items, t, r)
    <3>1. CASE n = 0
      <4>1. r = ReplayStart /\ Len(items) \in Nat
        BY <2>2, <3>1 DEF InTimeOrder
      <4> HIDE DEF r
      <4> QED  BY <4>1, StartIsReady
    <3>2. CASE n >= 1
      <4>1. times[n] \in Int /\ times[n] <= t
        <5>1. n + 1 \in 2..m /\ n + 1 - 1 = n /\ n \in 1..m
          BY <2>1, <3>2
        <5> QED  BY <5>1
      <4>2. WindowTicked(c, items, times[n], r)
        BY <2>2, <3>2
      <4> HIDE DEF r, t
      <4> QED  BY <2>3, <4>1, <4>2, TickedIsReady
    <3> QED  BY <2>1, <3>1, <3>2
  <2> DEFINE v == state[n + 1]
  <2>5. v = Tick(c, items, r, t)
    BY <1>1, <2>1
  <2> HIDE DEF r, t, v
  <2>6. /\ WindowTicked(c, items, t, v)
        /\ v.points = Append(r.points, [timestamp |-> t,
                                        score |-> Score(c, ReferenceActive(c, items, t))])
    BY <2>3, <2>4, <2>5, TickMoves
  <2>7. v.points = Append(r.points, [timestamp |-> times[n + 1], score |-> Score(c, active[n + 1])])
    BY <2>3, <2>6, Zenon DEF t
  <2>8. r.points = Scored(c, n, times, active)
    BY <2>2 DEF r
  <2>9. v.points = Scored(c, n + 1, times, active)
    BY <2>1, <2>7, <2>8, ScoredOneMore
  <2>10. ~(n + 1 = 0)
    BY <2>1
  <2> QED  BY <2>6, <2>9, <2>10, Zenon DEF v, t
<1>4. N = Nat
  <2>1. N \in SUBSET Nat
    OBVIOUS
  <2> HIDE DEF N
  <2> QED  BY <1>2, <1>3, <2>1, Induction
<1>5. m \in N /\ m <= m
  <2> HIDE DEF N
  <2>1. m \in Nat /\ m <= m
    OBVIOUS
  <2> QED  BY <1>4, <2>1
<1>6. Right(m)
  BY <1>5, Zenon
<1> QED  BY <1>6 DEF state

\* The grid is in order.
LEMMA GridGrows ==
    ASSUME NEW c, Numeric(c), NEW start \in Int, NEW end \in Int, end >= start
    PROVE  LET g == Grid(c, start, end)
           IN  /\ Len(g) \in Nat /\ \A i \in 1..Len(g) : g[i] \in Int
               /\ \A i \in 2..Len(g) : g[i - 1] <= g[i]
<1> DEFINE g == Grid(c, start, end)
<1>1. /\ Len(g) \in Nat /\ g \in Seq(Int)
      /\ \A i \in 1..Len(g) : g[i] = start + (i - 1) * c.step
  BY GridIsSequence
<1> HIDE DEF g
<1>2. \A i \in 1..Len(g) : g[i] \in Int
  BY <1>1
<1>3. ASSUME NEW i \in 2..Len(g)
      PROVE  g[i - 1] <= g[i]
  <2>1. i - 1 \in 1..Len(g) /\ i \in 1..Len(g) /\ c.step \in Nat /\ i - 2 \in Int /\ i - 1 \in Int
    BY <1>1 DEF Numeric
  <2>2. g[i] = start + (i - 1) * c.step /\ g[i - 1] = start + ((i - 1) - 1) * c.step
    BY <1>1, <2>1
  <2>3. (i - 1) - 1 = i - 2 /\ i - 2 <= i - 1
    BY <2>1
  <2>4. (i - 2) * c.step <= (i - 1) * c.step
    BY <2>1, <2>3, Larger
  <2>5. g[i - 1] = start + (i - 2) * c.step
    BY <2>2, <2>3
  <2>6. (i - 2) * c.step \in Int /\ (i - 1) * c.step \in Int
    BY <2>1
  <2> QED  BY <2>2, <2>4, <2>5, <2>6
<1> QED  BY <1>1, <1>2, <1>3 DEF g

\* The event-time replay, which slides a window over the Evidence tick by tick
\* (TemporalReplay.run: ingest what is due, drop what expired), finds what the
\* reference finds, which asks at each grid point for the Evidence of the last
\* window seconds: for every Evidence in the order of time.
THEOREM ReplayIsReference ==
    ASSUME NullIsNoFunction, NEW c, Numeric(c), NEW items, InTimeOrder(items),
           NEW start \in Int, NEW runEnd, NEW replayEnd,
           NEW end \in Int, end = EffectiveEnd(runEnd, replayEnd), end >= start
    PROVE  Finds(Replay(c, items, start, runEnd, replayEnd).stopping,
                 ReferenceFusionTime(c, items, start, end))
<1> DEFINE times == Grid(c, start, end)
           n == Len(times)
           hit == [i \in 1..n |-> ReferenceHit(c, items, times[i])]
           active == [i \in 1..n |-> ReferenceActive(c, items, times[i])]
           points == Ticks(c, items, times)[n].points
           reason == BoundaryReason(runEnd, replayEnd)
<1>1. Replay(c, items, start, runEnd, replayEnd).stopping = Evaluate(c, points, end, reason)
  <2> DEFINE s == Evaluate(c, points, end, reason)
             out == [valid |-> Ticks(c, items, times)[n].window.ok /\ TrajectoryValid(points, end),
                     points |-> points, snapshots |-> Ticks(c, items, times)[n].snapshots,
                     stopping |-> s]
  <2>1. Replay(c, items, start, runEnd, replayEnd) = out
    BY Zenon DEF Replay
  <2> HIDE DEF s
  <2>2. out.stopping = s
    BY Zenon
  <2> HIDE DEF out
  <2> QED  BY <2>1, <2>2 DEF s
<1>2. ReferenceFusionTime(c, items, start, end) = FusedAt(c, times, hit)
  BY Zenon DEF ReferenceFusionTime, FusedAt
<1>3. /\ n \in Nat /\ \A i \in 1..n : times[i] \in Int
      /\ \A i \in 2..n : times[i - 1] <= times[i]
  BY GridGrows
<1> HIDE DEF times
<1>4. points = Scored(c, n, times, active)
  <2>1. active = [i \in 1..Len(times) |-> ReferenceActive(c, items, times[i])]
    OBVIOUS
  <2> HIDE DEF active
  <2> QED  BY <1>3, <2>1, TicksAreScores
<1> HIDE DEF points
<1>5. /\ IsTrajectory(points) /\ Len(points) = n
      /\ \A i \in 1..n : points[i].timestamp = times[i] /\ points[i].score = Score(c, active[i])
  <2> HIDE DEF active, n
  <2>1. LET p == Scored(c, n, times, active)
        IN  /\ IsTrajectory(p) /\ Len(p) = n
            /\ \A i \in 1..n : /\ p[i].timestamp = times[i]
                               /\ p[i].score = Score(c, active[i])
    BY <1>3, ScoresAreTrajectory
  <2> QED  BY <1>4, <2>1
<1>6. ASSUME NEW i \in 1..n
      PROVE  hit[i] <=> Hit(c, points[i])
  <2>1. ReferenceHit(c, items, times[i]) <=> AtLeast(c, Score(c, ReferenceActive(c, items, times[i])), c.on)
    BY Zenon DEF ReferenceHit, Score
  <2>2. points[i].score = Score(c, ReferenceActive(c, items, times[i]))
    BY <1>5
  <2> QED  BY <2>1, <2>2 DEF Hit
<1>7. times = [i \in 1..Len(points) |-> points[i].timestamp]
  <2>1. times = [i \in 1..Len(times) |-> times[i]]
    BY GridIsSequence DEF times
  <2> QED  BY <1>5, <2>1
<1> HIDE DEF hit, reason
<1>8. \A i \in 1..Len(points) : hit[i] <=> Hit(c, points[i])
  BY <1>5, <1>6
<1> HIDE DEF n
<1> QED  BY <1>1, <1>2, <1>5, <1>7, <1>8, FusionIsReference

-----------------------------------------------------------------------------
(***************************************************************************)
(* What a decision says of its inputs                                      *)
(***************************************************************************)

IsTime(t) == t \in Int \cup {None}

\* The time of the combined verdict is the earlier of the two.
EarliestOf(d) ==
    IF {d.detectorTime, d.fusionTime} \ {None} = {} \/ "not_evaluated" \in {d.fast, d.fusion}
      THEN None ELSE Min({d.detectorTime, d.fusionTime} \ {None})

\* A valid decision names the earlier of its two times as t_e.
LEMMA TeIsEarliest ==
    ASSUME NEW d, DecisionValid(d), d.fast \in Statuses, d.fusion \in Statuses,
           IsTime(d.detectorTime), IsTime(d.fusionTime)
    PROVE  d.te = EarliestOf(d)
<1> DEFINE a == d.detectorTime
           b == d.fusionTime
<1>1. /\ (d.fast = "detected") <=> (a # None)
      /\ (d.fusion = "detected") <=> (b # None)
      /\ PathsValid(d)
  BY DEF DecisionValid, StatusTimeValid
<1>2. a \in Int \cup {None} /\ b \in Int \cup {None} /\ None \notin Int
  BY NoneIsNoTime DEF IsTime
<1>3. ASSUME NEW x \in Int
      PROVE  Min({x}) = x
  BY <1>3 DEF Min
<1>4. ASSUME NEW x \in Int, NEW y \in Int
      PROVE  Min({x, y}) = Earlier(x, y)
  <2>1. CASE x < y
    <3>1. \A z \in {x, y} : (\A v \in {x, y} : z <= v) <=> z = x
      BY <2>1
    <3>2. Min({x, y}) = CHOOSE z \in {x, y} : \A v \in {x, y} : z <= v
      BY DEF Min
    <3>3. Min({x, y}) = x
      BY <3>1, <3>2
    <3> QED  BY <2>1, <3>3 DEF Earlier
  <2>2. CASE ~(x < y)
    <3>1. \A z \in {x, y} : (\A v \in {x, y} : z <= v) <=> z = y
      BY <2>2
    <3>2. Min({x, y}) = CHOOSE z \in {x, y} : \A v \in {x, y} : z <= v
      BY DEF Min
    <3>3. Min({x, y}) = y
      BY <3>1, <3>2
    <3> QED  BY <2>2, <3>3 DEF Earlier
  <2> QED  BY <2>1, <2>2
<1>5. CASE "not_evaluated" \in {d.fast, d.fusion}
  BY <1>1, <1>5 DEF PathsValid, EarliestOf
<1>6. CASE "not_evaluated" \notin {d.fast, d.fusion}
  <2>1. d.fast \in {"detected", "miss"} /\ d.fusion \in {"detected", "miss"}
    BY <1>6 DEF Statuses
  <2>2. CASE d.fast = "detected" /\ d.fusion = "detected"
    <3>1. a \in Int /\ b \in Int /\ d.te = Earlier(a, b)
      BY <1>1, <1>2, <2>2 DEF PathsValid
    <3>2. {a, b} \ {None} = {a, b}
      BY <1>2, <3>1
    <3>3. EarliestOf(d) = Min({a, b})
      BY <1>6, <3>2 DEF EarliestOf
    <3> QED  BY <1>4, <3>1, <3>3
  <2>3. CASE d.fast = "detected" /\ d.fusion = "miss"
    <3>1. a \in Int /\ b = None /\ d.te = a
      BY <1>1, <1>2, <2>3 DEF PathsValid
    <3>2. {a, b} \ {None} = {a}
      BY <1>2, <3>1
    <3>3. EarliestOf(d) = Min({a})
      BY <1>6, <3>2 DEF EarliestOf
    <3> QED  BY <1>3, <3>1, <3>3
  <2>4. CASE d.fast = "miss" /\ d.fusion = "detected"
    <3>1. b \in Int /\ a = None /\ d.te = b
      BY <1>1, <1>2, <2>4 DEF PathsValid
    <3>2. {a, b} \ {None} = {b}
      BY <1>2, <3>1
    <3>3. EarliestOf(d) = Min({b})
      BY <1>6, <3>2 DEF EarliestOf
    <3> QED  BY <1>3, <3>1, <3>3
  <2>5. CASE d.fast = "miss" /\ d.fusion = "miss"
    <3>1. b = None /\ a = None /\ d.te = None
      BY <1>1, <2>5 DEF PathsValid
    <3>2. {a, b} \ {None} = {}
      BY <3>1
    <3> QED  BY <3>1, <3>2 DEF EarliestOf
  <2> QED  BY <2>1, <2>2, <2>3, <2>4, <2>5
<1> QED  BY <1>5, <1>6

\* The JSON round trip keeps the status, and a time on the millisecond.
LEMMA JsonKeeps ==
    ASSUME NEW r, NEW run, NEW entity, NEW c, NEW n, n = NamedResult(r, run, entity, c),
           IsTime(r.time), r.time # None => r.time % Ms = 0
    PROVE  /\ n.status = r.status /\ n.time = r.time
           /\ FusionJson(n).status = r.status /\ FusionJson(n).time = r.time
<1>1. n.status = r.status /\ n.time = r.time
  BY DEF NamedResult
<1>2. r.time # None => MsTrunc(r.time) = r.time
  BY MsAssumption DEF IsTime, MsTrunc
<1>3. PICK e : n = [run |-> run, entity |-> entity, version |-> c.version, status |-> r.status,
                    time |-> r.time, score |-> r.score, evidence |-> r.evidence,
                    episodes |-> e]
  BY Zenon DEF NamedResult
<1>4. PICK x : FusionJson(n) =
                 [n EXCEPT !.time = IF n.time = None THEN None ELSE MsTrunc(n.time),
                           !.episodes = x]
  <2>1. FusionJson(n) =
          [n EXCEPT !.time = IF n.time = None THEN None ELSE MsTrunc(n.time),
                    !.episodes = [i \in DOMAIN n.episodes |-> EpisodeJson(n.episodes[i])]]
    BY <1>3 DEF FusionJson
  <2> QED  BY <2>1, Zenon
<1>5. FusionJson(n) = [n EXCEPT !.time = r.time, !.episodes = x]
  BY <1>1, <1>2, <1>4
<1> QED  BY <1>1, <1>3, <1>5

\* The fields of a combined decision.
LEMMA CombinedFields ==
    ASSUME NEW f, NEW fusion, NEW id, NEW config, NEW supersedes, NEW d,
           d = Combine(f, fusion, id, config, supersedes)
    PROVE  /\ d.id = id /\ d.entity = fusion.entity
           /\ d.fast = f.detection.status /\ d.detectorTime = f.detection.time
           /\ d.fusion = FusionJson(fusion).status /\ d.fusionTime = FusionJson(fusion).time
<1>1. PICK r, te, pa, w, ev, hs, se :
        d = [id |-> id, run |-> r, entity |-> fusion.entity, fast |-> f.detection.status,
             fusion |-> FusionJson(fusion).status, detectorTime |-> f.detection.time,
             fusionTime |-> FusionJson(fusion).time, te |-> te, path |-> pa,
             winning |-> w, config |-> config, evidence |-> ev, hits |-> hs,
             selected |-> se, supersedes |-> supersedes]
  BY ZenonT(30) DEF Combine
<1> QED  BY <1>1

LEMMA ConfigIsNumeric ==
    ASSUME NEW c, ConfigTyped(c), ConfigValid(c)
    PROVE  Numeric(c)
BY MsAssumption DEF ConfigTyped, ConfigValid, Numeric

\* A fusion that found what the reference finds, at a time on the millisecond.
FoundAt(fusion, fused) ==
    /\ FusionJson(fusion).status = IF fused = None THEN "miss" ELSE "detected"
    /\ FusionJson(fusion).time = fused
    /\ IsTime(fused)

\* Naming and publishing the result of run_causal loses nothing of what it finds.
LEMMA CausalOutputFinds ==
    ASSUME NEW c, NEW scheduled, NEW meta, NEW fused,
           Finds(CausalReplay(c, scheduled, meta.start, meta.end).stopping, fused),
           NEW out, out = CausalOutput(c, scheduled, meta), out.valid
    PROVE  FoundAt(out.fusion, fused)
<1> DEFINE r == CausalReplay(c, scheduled, meta.start, meta.end)
           f == FusionResult(r)
<1>1. /\ out.fusion = NamedResult(f, meta.run, meta.target, c)
      /\ StoppingTraceValid(r.stopping.trace)
  <2>1. PICK points, v :
          /\ out = [valid  |-> v,
                    fusion |-> NamedResult(FusionResult(r), meta.run, meta.target, c),
                    trace  |-> NamedTrace(r.stopping.trace, meta.run, meta.target, c),
                    points |-> points]
          /\ v => StoppingTraceValid(r.stopping.trace)
    BY Zenon DEF CausalOutput
  <2> HIDE DEF r
  <2>2. out.valid = v /\ out.fusion = NamedResult(FusionResult(r), meta.run, meta.target, c)
    BY <2>1
  <2> QED  BY <2>1, <2>2
<1>2. f.status = r.stopping.status /\ f.time = r.stopping.time
  <2> HIDE DEF r
  <2> QED  BY DEF FusionResult
<1> HIDE DEF r, f
<1>3. /\ f.status = (IF fused = None THEN "miss" ELSE "detected")
      /\ f.time = fused /\ IsTime(fused)
      /\ fused # None => \E i \in DOMAIN r.stopping.trace : r.stopping.trace[i].timestamp = fused
  BY <1>2 DEF Finds, IsTime, r
<1>4. fused # None => fused % Ms = 0
  BY <1>1, <1>3 DEF StoppingTraceValid
<1>5. FusionJson(out.fusion).status = f.status /\ FusionJson(out.fusion).time = f.time
  BY <1>1, <1>3, <1>4, JsonKeeps
<1> QED  BY <1>3, <1>5 DEF FoundAt

\* The pairs of the order of a schedule.
LEMMA ScheduleIsAll ==
    ASSUME NEW items, items \in Seq(ToSet(items)), NEW at \in Int,
           \A i \in DOMAIN items : items[i].timestamp \in Int /\ items[i].id \in Int,
           \A i, j \in DOMAIN items : i # j => items[i].id # items[j].id
    PROVE  ToSet(Scheduled(items, at)) = {[evidence |-> e, available |-> at] : e \in ToSet(items)}
<1> DEFINE S == {[evidence |-> e, available |-> at] : e \in ToSet(items)}
           R == {x \in S \X S : ScheduledBefore(x[1], x[2])}
<1>1. \A e \in ToSet(items) : \E i \in DOMAIN items : items[i] = e
  BY DEF ToSet
<1>2. IsFiniteSet(S)
  <2> DEFINE f == [i \in 1..Len(items) |-> [evidence |-> items[i], available |-> at]]
  <2>1. Len(items) \in Nat /\ DOMAIN items = 1..Len(items)
    OBVIOUS
  <2>2. IsFiniteSet({f[i] : i \in 1..Len(items)})
    <3>1. IsFiniteSet(1..Len(items))
      BY <2>1, FS_Interval
    <3> HIDE DEF f, S
    <3> QED  BY <3>1, FiniteValues, Zenon
  <2>3. S = {f[i] : i \in 1..Len(items)}
    <3>1. ASSUME NEW i \in 1..Len(items)
          PROVE  f[i] \in S
      BY <2>1 DEF ToSet
    <3>2. ASSUME NEW s \in S
          PROVE  \E i \in 1..Len(items) : f[i] = s
      <4>1. PICK e \in ToSet(items) : s = [evidence |-> e, available |-> at]
        OBVIOUS
      <4>2. PICK i \in 1..Len(items) : items[i] = e
        BY <1>1, <2>1
      <4> QED  BY <4>1, <4>2
    <3> HIDE DEF f, S
    <3> QED  BY <3>1, <3>2
  <2> QED  BY <2>2, <2>3
<1>3. ASSUME NEW x \in S
      PROVE  /\ x.evidence \in ToSet(items) /\ x = [evidence |-> x.evidence, available |-> at]
             /\ x.available = at /\ x.evidence.timestamp \in Int /\ x.evidence.id \in Int
  <2>1. PICK e \in ToSet(items) : x = [evidence |-> e, available |-> at]
    OBVIOUS
  <2>2. x.evidence = e /\ x.available = at
    BY <2>1
  <2>3. PICK i \in DOMAIN items : items[i] = e
    BY <1>1
  <2> QED  BY <2>1, <2>2, <2>3
<1>4. ASSUME NEW x \in S, NEW y \in S, x # y
      PROVE  x.evidence.id # y.evidence.id
  <2>1. x.evidence # y.evidence
    BY <1>3, <1>4
  <2>2. PICK i \in DOMAIN items : items[i] = x.evidence
    BY <1>1, <1>3
  <2>3. PICK j \in DOMAIN items : items[j] = y.evidence
    BY <1>1, <1>3
  <2> QED  BY <2>1, <2>2, <2>3
<1>5. \A x, y \in S : <<x, y>> \in R <=> ScheduledBefore(x, y)
  OBVIOUS
<1> HIDE DEF R, S
<1>6. ASSUME NEW x \in S, NEW y \in S
      PROVE  ScheduledBefore(x, y) <=>
                \/ x.evidence.timestamp < y.evidence.timestamp
                \/ x.evidence.timestamp = y.evidence.timestamp /\ x.evidence.id < y.evidence.id
  BY <1>3 DEF ScheduledBefore
<1>7. Orders(R, S)
  <2>1. \A x \in S : <<x, x>> \notin R
    BY <1>3, <1>5, <1>6
  <2>2. \A x, y \in S : x # y => <<x, y>> \in R \/ <<y, x>> \in R
    BY <1>3, <1>4, <1>5, <1>6
  <2>3. ASSUME NEW x \in S, NEW y \in S, NEW z \in S, <<x, y>> \in R, <<y, z>> \in R
        PROVE  <<x, z>> \in R
    BY <1>3, <1>5, <1>6, <2>3
  <2> QED  BY <2>1, <2>2, <2>3 DEF Orders
<1>8. Scheduled(items, at) = Sorted(R, S)
  <2>1. \A x \in S : {y \in S : ScheduledBefore(y, x)} = Preceding(R, S, x)
    BY <1>5 DEF Preceding
  <2>2. Scheduled(items, at) = [n \in 1..Cardinality(S) |->
           CHOOSE x \in S : Cardinality({y \in S : ScheduledBefore(y, x)}) = n - 1]
    BY Zenon DEF Scheduled, InOrder, S
  <2> QED  BY <2>1, <2>2 DEF Sorted
<1>9. {Sorted(R, S)[n] : n \in DOMAIN Sorted(R, S)} = S
  BY <1>2, <1>7, SortedIsAll
<1> QED  BY <1>8, <1>9 DEF ToSet, S

-----------------------------------------------------------------------------
(***************************************************************************)
(* What S0 fusion finds                                                    *)
(***************************************************************************)

\* Records with times, of the two event types, with an executable of a class.
RecordsTyped(jsonl) ==
    /\ jsonl \in Seq(ToSet(jsonl))
    /\ \A n \in 1..Len(jsonl) :
          /\ jsonl[n].time \in Int /\ jsonl[n].eventId \in {1, 3}
          /\ jsonl[n].image \in {"powershell", "script_host", "other"}

Normalized(run, raw, jsonl) == [n \in 1..Len(jsonl) |-> NormalizeRecord(run, raw, jsonl, n)]

ShownEvents(meta, evs) == {e \in ReplayEvents(meta, evs) : IsEvidence(e)}

\* A record that shows a behaviour inside the window is scored by the reference
\* exactly when its event gives Evidence.
Agree(meta, n, v, r) ==
    /\ v.timestamp \in Int /\ r.timestamp = v.timestamp /\ v.id[3] = n
    /\ r.group = "fusion_feature" <=> IsEvidence(v) /\ InReplayWindow(meta, v)
    /\ IsEvidence(v) => r.type = EvidenceType(v)

\* A normalized record and what the reference reads off the raw one agree.
LEMMA RecordAgrees ==
    ASSUME NEW jsonl, RecordsTyped(jsonl), NEW n \in 1..Len(jsonl), NEW meta, NEW run, NEW raw
    PROVE  Agree(meta, n, NormalizeRecord(run, raw, jsonl, n), ReferenceEvidence(meta, jsonl)[n])
<1> DEFINE v == NormalizeRecord(run, raw, jsonl, n)
           r == ReferenceEvidence(meta, jsonl)[n]
<1> DEFINE rec == jsonl[n]
           shows == \/ rec.eventId = 1 /\ rec.image = "powershell" /\ rec.command = "encoded"
                    \/ rec.eventId = 3 /\ rec.image # "other" /\ rec.dest = "global"
           inside == MsTrunc(rec.time) \in meta.start..(meta.start + ReplayDuration)
           t == MsTrunc(rec.time)
<1>1. /\ rec.time \in Int /\ rec.eventId \in {1, 3}
      /\ rec.image \in {"powershell", "script_host", "other"}
  BY DEF RecordsTyped
<1>2. t \in Int
  BY <1>1, MsAssumption DEF MsTrunc
<1>3. v = [id |-> <<run, raw, n, rec.recordId>>, run |-> run, timestamp |-> t, host |-> rec.host,
           type |-> EventTypeOf(rec.eventId), image |-> rec.image, command |-> rec.command,
           dest |-> rec.dest]
  BY DEF NormalizeRecord
<1>4. r = [timestamp |-> t, group |-> IF shows /\ inside THEN "fusion_feature" ELSE "none",
           type |-> IF rec.eventId = 1 THEN "encoded_powershell_command"
                    ELSE "script_interpreter_external_connection", id |-> n]
  <2> DEFINE g(m) == [timestamp |-> MsTrunc(jsonl[m].time),
                      group |-> IF (\/ jsonl[m].eventId = 1 /\ jsonl[m].image = "powershell"
                                       /\ jsonl[m].command = "encoded"
                                    \/ jsonl[m].eventId = 3 /\ jsonl[m].image # "other"
                                       /\ jsonl[m].dest = "global")
                                   /\ MsTrunc(jsonl[m].time) \in meta.start..(meta.start + ReplayDuration)
                                  THEN "fusion_feature" ELSE "none",
                      type |-> IF jsonl[m].eventId = 1 THEN "encoded_powershell_command"
                               ELSE "script_interpreter_external_connection", id |-> m]
  <2>1. ReferenceEvidence(meta, jsonl) = [m \in 1..Len(jsonl) |-> g(m)]
    BY Zenon DEF ReferenceEvidence
  <2>2. r = g(n)
    <3> HIDE DEF g
    <3> QED  BY <2>1
  <2> QED  BY <2>2, Zenon
<1> HIDE DEF t, inside
<1> HIDE DEF v, r
<1>5. /\ v.timestamp = t /\ v.id = <<run, raw, n, rec.recordId>>
      /\ v.type = EventTypeOf(rec.eventId) /\ v.image = rec.image /\ v.command = rec.command
      /\ v.dest = rec.dest
  BY <1>3
<1>6. IsEvidence(v) <=> shows
  BY <1>1, <1>5 DEF IsEvidence, EncodedPowershell, ExternalConnection, EventTypeOf
<1>7. InReplayWindow(meta, v) <=> inside
  BY <1>5 DEF InReplayWindow, ReplayEnd, inside, t
<1>8. EvidenceType(v) = IF EncodedPowershell(v) THEN "encoded_powershell_command"
                        ELSE "script_interpreter_external_connection"
  BY DEF EvidenceType
<1>9. IsEvidence(v) => (EncodedPowershell(v) <=> rec.eventId = 1)
  BY <1>1, <1>5 DEF IsEvidence, EncodedPowershell, ExternalConnection, EventTypeOf
<1> HIDE DEF shows
<1>10. /\ r.timestamp = t
       /\ r.group = IF shows /\ inside THEN "fusion_feature" ELSE "none"
       /\ r.type = IF rec.eventId = 1 THEN "encoded_powershell_command"
                   ELSE "script_interpreter_external_connection"
  BY <1>4
<1>11. v.id[3] = n
  BY <1>5
<1> QED  BY <1>2, <1>5, <1>6, <1>7, <1>8, <1>9, <1>10, <1>11 DEF Agree, v, r

\* Every event that shows something gives one item of Evidence.
LEMMA EvidenceIsAll ==
    ASSUME NEW jsonl, RecordsTyped(jsonl), NEW meta, NEW run, NEW raw,
           NEW evs, evs = Normalized(run, raw, jsonl),
           NEW items, items = S0Evidences(meta, evs)
    PROVE  /\ ToSet(items) = {Extracted(e) : e \in ShownEvents(meta, evs)}
           /\ items \in Seq(ToSet(items)) /\ Len(items) \in Nat /\ DOMAIN items = 1..Len(items)
<1> DEFINE S == ShownEvents(meta, evs)
           R == {x \in S \X S : EventBefore(x[1], x[2])}
           N == 1..Len(jsonl)
<1>1. /\ Len(jsonl) \in Nat /\ DOMAIN evs = N
      /\ \A n \in N : evs[n] = NormalizeRecord(run, raw, jsonl, n)
  BY DEF RecordsTyped, Normalized
<1>2. ToSet(evs) = {evs[n] : n \in N}
  BY <1>1 DEF ToSet
<1>3. S \subseteq {evs[n] : n \in N}
  BY <1>2 DEF ShownEvents, ReplayEvents
<1>4. IsFiniteSet(S)
  <2>1. IsFiniteSet(N)
    BY <1>1, FS_Interval
  <2> HIDE DEF N, S
  <2>2. IsFiniteSet({evs[n] : n \in N})
    BY <2>1, FiniteValues, Zenon
  <2> QED  BY <1>3, <2>2, FS_Subset
<1>5. ASSUME NEW x \in S
      PROVE  /\ x.timestamp \in Int /\ x.id[3] \in Int
             /\ x = evs[x.id[3]]
  <2>1. PICK n \in N : x = evs[n]
    BY <1>3
  <2>2. x = NormalizeRecord(run, raw, jsonl, n)
    BY <1>1, <2>1
  <2>3. n \in 1..Len(jsonl)
    OBVIOUS
  <2> HIDE DEF N, S, R
  <2>4. Agree(meta, n, x, ReferenceEvidence(meta, jsonl)[n])
    BY <2>2, <2>3, RecordAgrees
  <2> QED  BY <2>1, <2>3, <2>4 DEF Agree
<1>6. \A x, y \in S : <<x, y>> \in R <=> EventBefore(x, y)
  OBVIOUS
<1> HIDE DEF R, S
<1>7. ASSUME NEW x \in S, NEW y \in S
      PROVE  <<x, y>> \in R <=> \/ x.timestamp < y.timestamp
                                \/ x.timestamp = y.timestamp /\ x.id[3] < y.id[3]
  BY <1>6 DEF EventBefore
<1>8. Orders(R, S)
  <2>1. \A x \in S : <<x, x>> \notin R
    BY <1>5, <1>7
  <2>2. ASSUME NEW x \in S, NEW y \in S, x # y
        PROVE  <<x, y>> \in R \/ <<y, x>> \in R
    <3>1. x.id[3] # y.id[3]
      BY <1>5, <2>2
    <3> QED  BY <1>5, <1>7, <3>1
  <2>3. ASSUME NEW x \in S, NEW y \in S, NEW z \in S, <<x, y>> \in R, <<y, z>> \in R
        PROVE  <<x, z>> \in R
    BY <1>5, <1>7, <2>3
  <2> QED  BY <2>1, <2>2, <2>3 DEF Orders
<1> DEFINE q == Sorted(R, S)
<1>9. items = [n \in DOMAIN q |-> Extracted(q[n])]
  <2>1. \A x \in S : {y \in S : EventBefore(y, x)} = Preceding(R, S, x)
    BY <1>6 DEF Preceding
  <2>2. InOrder(S, EventBefore) =
          [n \in 1..Cardinality(S) |->
              CHOOSE x \in S : Cardinality({y \in S : EventBefore(y, x)}) = n - 1]
    BY Zenon DEF InOrder
  <2>3. InOrder(S, EventBefore) = q
    BY <2>1, <2>2 DEF Sorted
  <2>4. items = [n \in DOMAIN InOrder(S, EventBefore) |-> Extracted(InOrder(S, EventBefore)[n])]
    BY Zenon DEF S0Evidences, S, ShownEvents
  <2> QED  BY <2>3, <2>4
<1>10. /\ Len(q) \in Nat /\ DOMAIN q = 1..Len(q) /\ {q[n] : n \in DOMAIN q} = S
  BY <1>4, <1>8, SortedIsAll
<1> HIDE DEF q
<1>11. /\ DOMAIN items = 1..Len(q) /\ \A n \in 1..Len(q) : items[n] = Extracted(q[n])
  BY <1>9, <1>10
<1>12. items \in Seq({items[n] : n \in DOMAIN items}) /\ Len(items) = Len(q)
  BY <1>9, <1>10
<1>13. ToSet(items) = {items[n] : n \in DOMAIN items}
  BY DEF ToSet
<1>14. ToSet(items) = {Extracted(e) : e \in S}
  <2>1. ASSUME NEW e \in S
        PROVE  Extracted(e) \in ToSet(items)
    <3>1. PICK n \in DOMAIN q : q[n] = e
      BY <1>10
    <3> QED  BY <1>10, <1>11, <1>13, <3>1
  <2>2. ASSUME NEW x \in ToSet(items)
        PROVE  \E e \in S : x = Extracted(e)
    <3>1. PICK n \in 1..Len(q) : x = items[n]
      BY <1>11, <1>13
    <3>2. q[n] \in S
      BY <1>10
    <3> QED  BY <1>11, <3>1, <3>2
  <2> QED  BY <2>1, <2>2
<1> QED  BY <1>10, <1>11, <1>12, <1>13, <1>14 DEF S

ActiveTypes(c, items, t) ==
    {e.type : e \in {x \in ReferenceActive(c, items, t) : IsScoring(c, x)}}

\* The fields of extracted Evidence.
LEMMA ExtractedFields ==
    ASSUME NEW v
    PROVE  /\ Extracted(v).timestamp = v.timestamp /\ Extracted(v).type = EvidenceType(v)
           /\ Extracted(v).group = "fusion_feature"
BY DEF Extracted

\* The Evidence of a run and the scored records of the reference have the same
\* types in every window.
LEMMA TypesAgree ==
    ASSUME NEW jsonl, RecordsTyped(jsonl), NEW meta, NEW run, NEW raw,
           NEW evs, evs = Normalized(run, raw, jsonl), NEW c, NEW t
    PROVE  ActiveTypes(c, S0Evidences(meta, evs), t) = ActiveTypes(c, ReferenceEvidence(meta, jsonl), t)
<1> DEFINE items == S0Evidences(meta, evs)
           ref == ReferenceEvidence(meta, jsonl)
           N == 1..Len(jsonl)
           A == ActiveTypes(c, items, t)
           B == ActiveTypes(c, ref, t)
<1>1. /\ Len(jsonl) \in Nat /\ DOMAIN evs = N
      /\ \A n \in N : evs[n] = NormalizeRecord(run, raw, jsonl, n)
  BY DEF RecordsTyped, Normalized
<1>2. \A n \in N : Agree(meta, n, evs[n], ref[n])
  <2> SUFFICES ASSUME NEW n \in N
               PROVE  Agree(meta, n, evs[n], ref[n])
    OBVIOUS
  <2>1. n \in 1..Len(jsonl) /\ evs[n] = NormalizeRecord(run, raw, jsonl, n)
    BY <1>1
  <2> HIDE DEF N
  <2> QED  BY <2>1, RecordAgrees
<1>3. ToSet(items) = {Extracted(e) : e \in ShownEvents(meta, evs)}
  BY EvidenceIsAll
<1>4. DOMAIN ref = N
  BY DEF ReferenceEvidence
<1> HIDE DEF items, ref, N
<1>5. ToSet(ref) = {ref[n] : n \in N} /\ ToSet(evs) = {evs[n] : n \in N}
  BY <1>1, <1>4 DEF ToSet
<1>6. A = {e.type : e \in {x \in ToSet(items) : x.timestamp \in (t - c.window)..t /\ IsScoring(c, x)}}
  <2>1. {x \in ReferenceActive(c, items, t) : IsScoring(c, x)}
          = {x \in ToSet(items) : x.timestamp \in (t - c.window)..t /\ IsScoring(c, x)}
    BY DEF ReferenceActive
  <2> QED  BY <2>1 DEF ActiveTypes
<1>7. B = {e.type : e \in {x \in ToSet(ref) : x.timestamp \in (t - c.window)..t /\ IsScoring(c, x)}}
  <2>1. {x \in ReferenceActive(c, ref, t) : IsScoring(c, x)}
          = {x \in ToSet(ref) : x.timestamp \in (t - c.window)..t /\ IsScoring(c, x)}
    BY DEF ReferenceActive
  <2> QED  BY <2>1 DEF ActiveTypes
<1> HIDE DEF A, B
<1>8. ASSUME NEW y \in A
      PROVE  y \in B
  <2>1. PICK x \in ToSet(items) : /\ x.timestamp \in (t - c.window)..t /\ IsScoring(c, x)
                                  /\ y = x.type
    BY <1>6
  <2>2. PICK v \in ShownEvents(meta, evs) : x = Extracted(v)
    BY <1>3, <2>1
  <2>3. /\ v \in ToSet(evs) /\ InReplayWindow(meta, v) /\ IsEvidence(v)
    BY <2>2 DEF ShownEvents, ReplayEvents
  <2>4. PICK n \in N : v = evs[n]
    BY <1>5, <2>3
  <2>5. Agree(meta, n, v, ref[n])
    BY <1>2, <2>4
  <2>6. /\ ref[n].timestamp = v.timestamp /\ ref[n].group = "fusion_feature"
        /\ ref[n].type = EvidenceType(v)
    BY <2>3, <2>5 DEF Agree
  <2>7. x.timestamp = v.timestamp /\ x.type = EvidenceType(v)
    BY <2>2, ExtractedFields
  <2>8. ref[n] \in ToSet(ref) /\ IsScoring(c, ref[n])
    BY <1>5, <2>1, <2>6, <2>7 DEF IsScoring
  <2>9. ref[n].timestamp \in (t - c.window)..t /\ y = ref[n].type
    BY <2>1, <2>6, <2>7
  <2> QED  BY <1>7, <2>8, <2>9
<1>9. ASSUME NEW y \in B
      PROVE  y \in A
  <2>1. PICK r \in ToSet(ref) : /\ r.timestamp \in (t - c.window)..t /\ IsScoring(c, r)
                                /\ y = r.type
    BY <1>7
  <2>2. PICK n \in N : r = ref[n]
    BY <1>5, <2>1
  <2> DEFINE v == evs[n]
             x == Extracted(v)
  <2>3. Agree(meta, n, v, r)
    BY <1>2, <2>2
  <2>4. v \in ToSet(evs)
    BY <1>5
  <2> HIDE DEF v
  <2>5. r.group = "fusion_feature"
    BY <2>1 DEF IsScoring
  <2>6. /\ r.timestamp = v.timestamp /\ r.type = EvidenceType(v)
        /\ IsEvidence(v) /\ InReplayWindow(meta, v)
    BY <2>3, <2>5 DEF Agree
  <2>7. x \in ToSet(items)
    BY <1>3, <2>4, <2>6 DEF ShownEvents, ReplayEvents
  <2>8. x.timestamp = v.timestamp /\ x.type = EvidenceType(v) /\ x.group = "fusion_feature"
    BY ExtractedFields
  <2> HIDE DEF x
  <2>9. IsScoring(c, x)
    BY <2>1, <2>6, <2>8 DEF IsScoring
  <2>10. x.timestamp \in (t - c.window)..t /\ y = x.type
    BY <2>1, <2>6, <2>8
  <2> QED  BY <1>6, <2>7, <2>9, <2>10
<1> QED  BY <1>8, <1>9 DEF A, B, items, ref

\* The Evidence finds at every time what the records of the reference find.
LEMMA S0TimeIsReference ==
    ASSUME NEW jsonl, RecordsTyped(jsonl), NEW meta, NEW run, NEW raw,
           NEW evs, evs = Normalized(run, raw, jsonl), NEW c
    PROVE  ReferenceFusionTime(c, S0Evidences(meta, evs), meta.start, ReplayEnd(meta))
             = ReferenceS0Time(meta, jsonl, c)
<1> DEFINE items == S0Evidences(meta, evs)
           ref == ReferenceEvidence(meta, jsonl)
           times == Grid(c, meta.start, ReplayEnd(meta))
           n == Len(times)
<1>1. ASSUME NEW t
      PROVE  ReferenceHit(c, items, t) = ReferenceHit(c, ref, t)
  <2>1. ActiveTypes(c, items, t) = ActiveTypes(c, ref, t)
    BY TypesAgree
  <2>2. ReferenceHit(c, items, t) = AtLeast(c, Cardinality(ActiveTypes(c, items, t)), c.on)
    BY Zenon DEF ReferenceHit, ActiveTypes
  <2>3. ReferenceHit(c, ref, t) = AtLeast(c, Cardinality(ActiveTypes(c, ref, t)), c.on)
    BY Zenon DEF ReferenceHit, ActiveTypes
  <2> HIDE DEF items, ref
  <2> QED  BY <2>1, <2>2, <2>3, Zenon
<1> DEFINE a == [i \in 1..n |-> ReferenceHit(c, items, times[i])]
           b == [i \in 1..n |-> ReferenceHit(c, ref, times[i])]
<1>2. a = b
  <2> HIDE DEF items, ref, n, times
  <2> QED  BY <1>1, Zenon
<1>3. ReferenceFusionTime(c, items, meta.start, ReplayEnd(meta)) = FusedAt(c, times, a)
  BY Zenon DEF ReferenceFusionTime, FusedAt
<1>4. ReferenceS0Time(meta, jsonl, c) = FusedAt(c, times, b)
  <2>1. ReferenceS0Time(meta, jsonl, c)
          = ReferenceFusionTime(c, ref, meta.start, meta.start + ReplayDuration)
    BY Zenon DEF ReferenceS0Time
  <2>2. meta.start + ReplayDuration = ReplayEnd(meta)
    BY DEF ReplayEnd
  <2>3. ReferenceFusionTime(c, ref, meta.start, ReplayEnd(meta)) = FusedAt(c, times, b)
    BY Zenon DEF ReferenceFusionTime, FusedAt
  <2> HIDE DEF ref, times, b
  <2> QED  BY <2>1, <2>2, <2>3
<1> HIDE DEF a, b, items, times
<1> QED  BY <1>2, <1>3, <1>4 DEF items

\* A named result keeps what the replay found.
LEMMA NamedFinds ==
    ASSUME NEW r, NEW fused, Finds(r.stopping, fused), StoppingTraceValid(r.stopping.trace),
           NEW run, NEW entity, NEW c
    PROVE  FoundAt(NamedResult(FusionResult(r), run, entity, c), fused)
<1> DEFINE f == FusionResult(r)
           n == NamedResult(f, run, entity, c)
<1>1. f.status = r.stopping.status /\ f.time = r.stopping.time
  BY DEF FusionResult
<1> HIDE DEF f
<1>2. /\ f.status = (IF fused = None THEN "miss" ELSE "detected")
      /\ f.time = fused /\ IsTime(fused)
      /\ fused # None => \E i \in DOMAIN r.stopping.trace : r.stopping.trace[i].timestamp = fused
  BY <1>1 DEF Finds, IsTime
<1>3. fused # None => fused % Ms = 0
  BY <1>2 DEF StoppingTraceValid
<1>4. FusionJson(n).status = f.status /\ FusionJson(n).time = f.time
  BY <1>2, <1>3, JsonKeeps
<1> HIDE DEF n
<1> QED  BY <1>2, <1>4 DEF FoundAt, n, f

\* What the fusion of an S0 run is right about.
S0Found(fusion, meta, jsonl, c) ==
    IF Covered(meta) THEN FoundAt(fusion, ReferenceS0Time(meta, jsonl, c))
    ELSE FusionJson(fusion).status = "not_evaluated" /\ FusionJson(fusion).time = None

\* The fusion of an S0 run, from the normalized records through the extraction of
\* Evidence and the replay to the published Result, finds what the reference reads
\* off the raw records, when the configuration and the trace are accepted.
THEOREM S0FusionIsReference ==
    ASSUME NullIsNoFunction, NEW jsonl, RecordsTyped(jsonl), NEW meta,
           meta.start \in Int, meta.end \in Int, NEW run, NEW raw,
           NEW evs, evs = Normalized(run, raw, jsonl), NEW c, ConfigTyped(c), NEW entity,
           FusionAccepts(meta, evs, c, entity),
           NEW out, out = S0Fusion(meta, evs, c, entity), StoppingTraceValid(out.trace.points)
    PROVE  S0Found(out.fusion, meta, jsonl, c) /\ out.fusion.entity = entity
<1> DEFINE items == S0Evidences(meta, evs)
           played == Replay(c, items, meta.start, meta.end, ReplayEnd(meta))
           fused == ReferenceS0Time(meta, jsonl, c)
<1>1. Numeric(c)
  BY ConfigIsNumeric DEF FusionAccepts
<1>2. CASE Covered(meta)
  <2> DEFINE n == NamedResult(FusionResult(played), meta.run, entity, c)
             tr == NamedTrace(played.stopping.trace, meta.run, entity, c)
  <2>1. out = [valid |-> played.valid, fusion |-> n, trace |-> tr]
    BY <1>2, Zenon DEF S0Fusion
  <2>2. out.fusion = n /\ out.trace = tr
    <3> HIDE DEF n, tr, played
    <3> QED  BY <2>1
  <2>3. tr.points = played.stopping.trace
    <3> HIDE DEF played
    <3> QED  BY DEF NamedTrace
  <2>4. StoppingTraceValid(played.stopping.trace)
    <3> HIDE DEF played, tr
    <3> QED  BY <2>2, <2>3
  <2> DEFINE end == ReplayEnd(meta)
  <2>5. /\ end \in Int /\ end = EffectiveEnd(meta.end, end) /\ end >= meta.start
    <3>1. end \in Int /\ end >= meta.start
      BY ReplayDurationAssumption DEF ReplayEnd
    <3>2. end # None
      BY <3>1, NoneIsNoTime
    <3> QED  BY <3>1, <3>2 DEF EffectiveEnd
  <2>6. RunAccepts(c, items, meta.start, meta.end, end)
    BY <1>2 DEF FusionAccepts
  <2>7. items \in Seq(ToSet(items)) /\ Len(items) \in Nat /\ DOMAIN items = 1..Len(items)
    BY EvidenceIsAll
  <2> HIDE DEF items
  <2>8. /\ \A i \in 1..Len(items) : items[i].timestamp \in Int
        /\ \A i \in 2..Len(items) : items[i].timestamp >= items[i - 1].timestamp
    <3>1. /\ \A i \in 1..Len(items) : items[i].timestamp \in meta.start..end
          /\ \A i \in 2..Len(items) : items[i].timestamp >= items[i - 1].timestamp
      <4> HIDE DEF end
      <4> QED  BY <2>5, <2>6, Zenon DEF RunAccepts
    <3> QED  BY <2>5, <3>1
  <2>9. InTimeOrder(items)
    <3> DEFINE g == [i \in 1..Len(items) |-> items[i].timestamp]
    <3>1. \A i \in 1..Len(items) : g[i] = items[i].timestamp
      OBVIOUS
    <3>2. \A i \in 1..Len(items) : g[i] \in Int
      BY <2>8
    <3>3. \A i \in 2..Len(items) : g[i] >= g[i - 1]
      <4> SUFFICES ASSUME NEW i \in 2..Len(items)
                   PROVE  g[i] >= g[i - 1]
        OBVIOUS
      <4>1. i \in 1..Len(items) /\ i - 1 \in 1..Len(items)
        BY <2>7
      <4> QED  BY <2>8, <4>1
    <3> HIDE DEF g
    <3>4. \A i, j \in 1..Len(items) : i <= j => g[i] <= g[j]
      BY <2>7, <3>2, <3>3, NeighboursInOrder
    <3> QED  BY <2>7, <2>8, <3>1, <3>4 DEF InTimeOrder
  <2> HIDE DEF end
  <2>10. Finds(played.stopping, ReferenceFusionTime(c, items, meta.start, end))
    BY <1>1, <2>5, <2>9, ReplayIsReference DEF end
  <2>11. ReferenceFusionTime(c, items, meta.start, end) = fused
    BY S0TimeIsReference DEF end, items
  <2>12. FoundAt(n, fused)
    <3> HIDE DEF played, fused
    <3> QED  BY <2>4, <2>10, <2>11, NamedFinds
  <2>13. n.entity = entity
    BY DEF NamedResult
  <2> HIDE DEF n
  <2> QED  BY <1>2, <2>2, <2>12, <2>13 DEF S0Found
<1>3. CASE ~Covered(meta)
  <2> DEFINE n == NamedResult(NotEvaluatedFusion, meta.run, entity, c)
             tr == NamedTrace(<<>>, meta.run, entity, c)
  <2>1. out = [valid |-> TRUE, fusion |-> n, trace |-> tr]
    BY <1>3, Zenon DEF S0Fusion
  <2>2. out.fusion = n
    BY <2>1
  <2>3. NotEvaluatedFusion.status = "not_evaluated" /\ NotEvaluatedFusion.time = None
    BY DEF NotEvaluatedFusion
  <2>4. FusionJson(n).status = "not_evaluated" /\ FusionJson(n).time = None
    <3>1. IsTime(NotEvaluatedFusion.time)
      BY <2>3 DEF IsTime
    <3> QED  BY <2>3, <3>1, JsonKeeps
  <2>5. n.entity = entity
    BY DEF NamedResult
  <2> HIDE DEF n
  <2> QED  BY <1>3, <2>2, <2>4, <2>5 DEF S0Found
<1> QED  BY <1>2, <1>3

\* A finite set that is strictly ordered has a first member.
LEMMA FirstInOrder ==
    ASSUME NEW R, NEW S, IsFiniteSet(S), S # {}, Orders(R, S)
    PROVE  \E x \in S : \A y \in S \ {x} : <<x, y>> \in R
<1> DEFINE Good == {T \in SUBSET S : T = {} \/ \E x \in T : \A y \in T \ {x} : <<x, y>> \in R}
<1>1. {} \in Good
  OBVIOUS
<1>2. ASSUME NEW T \in Good, NEW z \in S, z \notin T
      PROVE  T \cup {z} \in Good
  <2>1. T \in SUBSET S
    OBVIOUS
  <2>2. CASE T = {}
    <3>1. \A y \in (T \cup {z}) \ {z} : <<z, y>> \in R
      BY <2>2
    <3>2. z \in T \cup {z} /\ T \cup {z} \in SUBSET S
      BY <2>1
    <3> QED  BY <3>1, <3>2
  <2>3. CASE T # {}
    <3>1. PICK x \in T : \A y \in T \ {x} : <<x, y>> \in R
      BY <2>3
    <3>2. x \in S /\ x # z /\ T \cup {z} \in SUBSET S
      BY <1>2, <2>1
    <3>3. CASE <<x, z>> \in R
      <4>1. \A y \in (T \cup {z}) \ {x} : <<x, y>> \in R
        BY <3>1, <3>3
      <4> QED  BY <3>2, <4>1
    <3>4. CASE <<z, x>> \in R
      <4>1. \A y \in T : <<z, y>> \in R
        BY <2>1, <3>1, <3>2, <3>4 DEF Orders
      <4>2. \A y \in (T \cup {z}) \ {z} : <<z, y>> \in R
        BY <4>1
      <4> QED  BY <3>2, <4>2
    <3> QED  BY <3>2, <3>3, <3>4 DEF Orders
  <2> QED  BY <2>2, <2>3
<1>3. Good \in SUBSET SUBSET S
  OBVIOUS
<1> HIDE DEF Good
<1>4. S \in Good
  BY <1>1, <1>2, <1>3, FiniteInduction
<1> QED  BY <1>4 DEF Good

-----------------------------------------------------------------------------
(***************************************************************************)
(* What the fast path finds                                                *)
(***************************************************************************)
Qualifying(csv, config) == {n \in 1..Len(csv) : csv[n].rule \in config.qualifying}

\* The fields of a hit.
LEMMA HitFields ==
    ASSUME NEW run, NEW csv, NEW config, NEW n
    PROVE  LET h == HitOf(run, csv, config, n)
           IN  /\ h.id = <<run, n>> /\ h.id[2] = n /\ h.time = MsTrunc(csv[n].time)
               /\ h.rule = csv[n].rule /\ h.host = csv[n].host
BY DEF HitOf

\* The adapter makes a hit of every qualifying row.
LEMMA HitsAreAll ==
    ASSUME NEW csv, RowsTyped(csv), NEW run, NEW config,
           NEW hits, hits = FastHits(run, csv, config)
    PROVE  /\ Len(hits) \in Nat /\ DOMAIN hits = 1..Len(hits)
           /\ ToSet(hits) = {HitOf(run, csv, config, n) : n \in Qualifying(csv, config)}
           /\ Qualifying(csv, config) \subseteq Nat /\ IsFiniteSet(Qualifying(csv, config))
<1> DEFINE S == Qualifying(csv, config)
           R == {x \in S \X S : RowBefore(x[1], x[2])}
           q == Sorted(R, S)
<1>1. Len(csv) \in Nat
  BY DEF RowsTyped
<1>2. S \subseteq 1..Len(csv)
  BY DEF Qualifying
<1>3. IsFiniteSet(S) /\ S \subseteq Nat
  <2>1. IsFiniteSet(1..Len(csv))
    BY <1>1, FS_Interval
  <2> HIDE DEF S
  <2>2. S \subseteq Nat
    BY <1>1, <1>2
  <2>3. S \in SUBSET (1..Len(csv))
    BY <1>2
  <2>4. IsFiniteSet(S)
    BY <2>1, <2>3, FS_Subset
  <2> QED  BY <2>2, <2>4
<1>4. \A x, y \in S : <<x, y>> \in R <=> RowBefore(x, y)
  OBVIOUS
<1> HIDE DEF R, S
<1>5. \A x, y \in S : <<x, y>> \in R <=> x < y
  BY <1>4, Zenon DEF RowBefore
<1>6. Orders(R, S)
  <2>1. \A x \in S : <<x, x>> \notin R
    BY <1>3, <1>5
  <2>2. \A x, y \in S : x # y => <<x, y>> \in R \/ <<y, x>> \in R
    BY <1>3, <1>5
  <2>3. \A x, y, z \in S : <<x, y>> \in R /\ <<y, z>> \in R => <<x, z>> \in R
    BY <1>3, <1>5
  <2> QED  BY <2>1, <2>2, <2>3 DEF Orders
<1>7. QualifyingRows(csv, config) = q
  <2>1. \A x \in S : {y \in S : RowBefore(y, x)} = Preceding(R, S, x)
    BY <1>4 DEF Preceding
  <2>2. QualifyingRows(csv, config) =
          [n \in 1..Cardinality(S) |->
              CHOOSE x \in S : Cardinality({y \in S : RowBefore(y, x)}) = n - 1]
    BY Zenon DEF QualifyingRows, InOrder, S, Qualifying
  <2> QED  BY <2>1, <2>2 DEF Sorted
<1>8. /\ Len(q) \in Nat /\ DOMAIN q = 1..Len(q) /\ {q[n] : n \in DOMAIN q} = S
  BY <1>3, <1>6, SortedIsAll
<1>9. hits = [k \in 1..Len(q) |-> HitOf(run, csv, config, q[k])]
  BY <1>7, Zenon DEF FastHits
<1> HIDE DEF q
<1>10. Len(hits) = Len(q) /\ DOMAIN hits = 1..Len(q)
       /\ \A k \in 1..Len(q) : hits[k] = HitOf(run, csv, config, q[k])
  BY <1>8, <1>9
<1>11. ToSet(hits) = {hits[k] : k \in DOMAIN hits}
  BY DEF ToSet
<1>12. ToSet(hits) = {HitOf(run, csv, config, n) : n \in S}
  <2>1. ASSUME NEW n \in S
        PROVE  HitOf(run, csv, config, n) \in ToSet(hits)
    <3>1. PICK k \in 1..Len(q) : q[k] = n
      BY <1>8
    <3> QED  BY <1>10, <1>11, <3>1
  <2>2. ASSUME NEW h \in ToSet(hits)
        PROVE  \E n \in S : h = HitOf(run, csv, config, n)
    <3>1. PICK k \in 1..Len(q) : h = hits[k]
      BY <1>10, <1>11
    <3>2. q[k] \in S
      BY <1>8
    <3> QED  BY <1>10, <3>1, <3>2
  <2> QED  BY <2>1, <2>2
<1> QED  BY <1>3, <1>8, <1>10, <1>12 DEF S

EarliestHit(O) == CHOOSE x \in O : \A g \in O \ {x} : Before(x, g)

\* The earliest of some hits, in the order of the selection, is one of them and
\* none is earlier.
LEMMA EarliestIsFirst ==
    ASSUME NEW csv, RowsTyped(csv), NEW run, NEW config,
           NEW O, O # {}, O \subseteq {HitOf(run, csv, config, n) : n \in Qualifying(csv, config)}
    PROVE  EarliestHit(O) \in O /\ \A g \in O : EarliestHit(O).time <= g.time
<1> DEFINE S == Qualifying(csv, config)
           H == {HitOf(run, csv, config, n) : n \in S}
           R == {x \in O \X O : Before(x[1], x[2])}
<1>1. S \subseteq Nat /\ IsFiniteSet(S) /\ S \subseteq 1..Len(csv) /\ Len(csv) \in Nat
  <2>1. S \subseteq 1..Len(csv)
    BY DEF Qualifying
  <2>2. Len(csv) \in Nat
    BY DEF RowsTyped
  <2>3. S \subseteq Nat /\ IsFiniteSet(S)
    <3> HIDE DEF S
    <3>1. PICK hits : hits = FastHits(run, csv, config)
      OBVIOUS
    <3> QED  BY <3>1, HitsAreAll DEF S
  <2> QED  BY <2>1, <2>2, <2>3
<1> HIDE DEF S
<1>2. IsFiniteSet(O)
  <2> DEFINE f == [n \in S |-> HitOf(run, csv, config, n)]
  <2>1. \A n \in S : f[n] = HitOf(run, csv, config, n)
    OBVIOUS
  <2> HIDE DEF f
  <2>2. H = {f[n] : n \in S}
    BY <2>1
  <2>3. IsFiniteSet({f[n] : n \in S})
    BY <1>1, FiniteValues, Zenon
  <2>4. O \subseteq H
    BY DEF S
  <2> HIDE DEF H
  <2> QED  BY <2>2, <2>3, <2>4, FS_Subset
<1>3. ASSUME NEW x \in O
      PROVE  /\ x.time \in Int /\ x.rule \in Int /\ x.id[2] \in Int
             /\ x = HitOf(run, csv, config, x.id[2])
  <2>1. PICK n \in S : x = HitOf(run, csv, config, n)
    BY DEF S
  <2>2. n \in DOMAIN csv /\ n \in Int
    BY <1>1 DEF RowsTyped
  <2>3. csv[n].time \in Int /\ csv[n].rule \in Int
    BY <2>2 DEF RowsTyped
  <2>4. MsTrunc(csv[n].time) \in Int
    BY <2>3, MsAssumption DEF MsTrunc
  <2> QED  BY <2>1, <2>2, <2>3, <2>4, HitFields
<1>4. \A x, y \in O : <<x, y>> \in R <=> Before(x, y)
  OBVIOUS
<1> HIDE DEF R
<1>5. ASSUME NEW x \in O, NEW y \in O
      PROVE  <<x, y>> \in R <=> \/ x.time < y.time
                                \/ x.time = y.time /\ x.rule < y.rule
                                \/ x.time = y.time /\ x.rule = y.rule /\ x.id[2] < y.id[2]
  BY <1>4 DEF Before
<1>6. Orders(R, O)
  <2>1. \A x \in O : <<x, x>> \notin R
    BY <1>3, <1>5
  <2>2. ASSUME NEW x \in O, NEW y \in O, x # y
        PROVE  <<x, y>> \in R \/ <<y, x>> \in R
    <3>1. x.id[2] # y.id[2]
      BY <1>3, <2>2
    <3> QED  BY <1>3, <1>5, <3>1
  <2>3. ASSUME NEW x \in O, NEW y \in O, NEW z \in O, <<x, y>> \in R, <<y, z>> \in R
        PROVE  <<x, z>> \in R
    BY <1>3, <1>5, <2>3
  <2> QED  BY <2>1, <2>2, <2>3 DEF Orders
<1> DEFINE First(x) == \A g \in O \ {x} : Before(x, g)
           h == CHOOSE x \in O : First(x)
<1>7. \E x \in O : First(x)
  <2>1. PICK x \in O : \A y \in O \ {x} : <<x, y>> \in R
    BY <1>2, <1>6, FirstInOrder
  <2> QED  BY <1>4, <2>1
<1>8. h \in O /\ First(h)
  <2> HIDE DEF First
  <2> QED  BY <1>7
<1> HIDE DEF h
<1>9. ASSUME NEW g \in O
      PROVE  h.time <= g.time
  <2>1. CASE g = h
    BY <1>3, <1>8, <2>1
  <2>2. CASE g # h
    <3>1. Before(h, g)
      BY <1>8, <2>2
    <3> QED  BY <1>3, <1>8, <3>1 DEF Before
  <2> QED  BY <2>1, <2>2
<1>10. EarliestHit(O) = h
  BY Zenon DEF EarliestHit, h
<1> QED  BY <1>8, <1>9, <1>10

\* The times of the rows of a host, without a map.
DirectHosts(csv) == [h \in {csv[n].host : n \in DOMAIN csv} |-> h]

FastTimes(csv, config, host) == ReferenceFastTimes(csv, config, DirectHosts(csv), host)

\* Times of hits are the times of the reference.
LEMMA TimesOfHits ==
    ASSUME NEW csv, RowsTyped(csv), NEW run, NEW config, NEW host
    PROVE  /\ FastTimes(csv, config, host)
                = {h.time : h \in {x \in ToSet(FastHits(run, csv, config)) : x.host = host}}
           /\ \A h \in ToSet(FastHits(run, csv, config)) : h.time \in Int
<1> DEFINE T == FastTimes(csv, config, host)
           H == ToSet(FastHits(run, csv, config))
           Q == Qualifying(csv, config)
<1>1. Len(csv) \in Nat /\ DOMAIN csv = 1..Len(csv) /\ \A n \in 1..Len(csv) : csv[n].time \in Int
  BY DEF RowsTyped
<1>2. H = {HitOf(run, csv, config, n) : n \in Q}
  BY HitsAreAll
<1>3. \A n \in 1..Len(csv) : Mapped(DirectHosts(csv), csv[n].host) = csv[n].host
  <2> SUFFICES ASSUME NEW n \in 1..Len(csv)
               PROVE  Mapped(DirectHosts(csv), csv[n].host) = csv[n].host
    OBVIOUS
  <2>1. csv[n].host \in {csv[m].host : m \in DOMAIN csv}
    BY <1>1
  <2> QED  BY <2>1 DEF Mapped, DirectHosts
<1>4. T = {MsTrunc(csv[n].time) : n \in {k \in Q : csv[k].host = host}}
  <2>1. T = {MsTrunc(csv[n].time) : n \in {k \in 1..Len(csv) :
               csv[k].rule \in config.qualifying /\ Mapped(DirectHosts(csv), csv[k].host) = host}}
    BY Zenon DEF FastTimes, ReferenceFastTimes
  <2>2. {k \in 1..Len(csv) :
           csv[k].rule \in config.qualifying /\ Mapped(DirectHosts(csv), csv[k].host) = host}
          = {k \in Q : csv[k].host = host}
    BY <1>3 DEF Qualifying
  <2> QED  BY <2>1, <2>2
<1>5. Q \subseteq 1..Len(csv)
  BY DEF Qualifying
<1> HIDE DEF T, H, Q
<1>6. ASSUME NEW n \in Q
      PROVE  /\ HitOf(run, csv, config, n).time = MsTrunc(csv[n].time)
             /\ HitOf(run, csv, config, n).host = csv[n].host
             /\ MsTrunc(csv[n].time) \in Int
  <2>1. csv[n].time \in Int
    BY <1>1, <1>5
  <2>2. MsTrunc(csv[n].time) \in Int
    BY <2>1, MsAssumption DEF MsTrunc
  <2> QED  BY <2>2, HitFields
<1>7. \A h \in H : h.time \in Int
  BY <1>2, <1>6
<1>8. T = {h.time : h \in {x \in H : x.host = host}}
  <2>1. ASSUME NEW t \in T
        PROVE  \E h \in H : h.host = host /\ t = h.time
    <3>1. PICK n \in Q : csv[n].host = host /\ t = MsTrunc(csv[n].time)
      BY <1>4
    <3>2. HitOf(run, csv, config, n) \in H
      BY <1>2
    <3> QED  BY <1>6, <3>1, <3>2
  <2>2. ASSUME NEW h \in H, h.host = host
        PROVE  h.time \in T
    <3>1. PICK n \in Q : h = HitOf(run, csv, config, n)
      BY <1>2
    <3>2. csv[n].host = host /\ h.time = MsTrunc(csv[n].time)
      BY <1>6, <2>2, <3>1
    <3> QED  BY <1>4, <3>2
  <2> QED  BY <2>1, <2>2
<1> QED  BY <1>7, <1>8 DEF T, H

\* What a fast result is meant to say of a host.
FastFound(out, csv, config, host) ==
    LET times == FastTimes(csv, config, host)
    IN  /\ out.detection.status = IF times = {} THEN "miss" ELSE "detected"
        /\ out.detection.time = IF times = {} THEN None ELSE Min(times)

\* A host that hits name is its own entity.
LEMMA DirectIsOwn ==
    ASSUME NEW hits
    PROVE  \A i \in DOMAIN hits : Mapped(DirectMap(hits), hits[i].host) = hits[i].host
<1> SUFFICES ASSUME NEW i \in DOMAIN hits
             PROVE  Mapped(DirectMap(hits), hits[i].host) = hits[i].host
  OBVIOUS
<1> DEFINE D == {hits[j].host : j \in DOMAIN hits} \ {None}
<1>1. DirectMap(hits) = [h \in D |-> h]
  BY Zenon DEF DirectMap
<1>2. hits[i].host # None => hits[i].host \in D
  OBVIOUS
<1>3. None \notin D
  OBVIOUS
<1> HIDE DEF D
<1> QED  BY <1>1, <1>2, <1>3 DEF Mapped

\* The fields of an adapted selection.
LEMMA AdaptedFields ==
    ASSUME NEW fs, NEW entity, NEW sel, NEW out, out = Adapt(fs, entity, sel)
    PROVE  /\ out.detection.status = sel.status /\ out.detection.entity = entity
           /\ out.detection.time =
                 IF sel.status = "detected"
                   THEN (CHOOSE h \in ToSet(fs.hits) : h.id = sel.hit).time ELSE None
<1> DEFINE hit == CHOOSE h \in ToSet(fs.hits) : h.id = sel.hit
           t == IF sel.status = "detected" THEN hit.time ELSE None
<1>1. PICK r, x, y, z :
        out = [detection |-> [run |-> r, entity |-> entity, status |-> sel.status, time |-> t,
                              rule |-> x], hits |-> y, selected |-> z]
  BY Zenon DEF Adapt
<1> HIDE DEF t
<1>2. out.detection = [run |-> r, entity |-> entity, status |-> sel.status, time |-> t, rule |-> x]
  BY <1>1
<1> QED  BY <1>2 DEF t

\* The fast path: a selection made over the very rows of the CSV export, that the
\* adapter accepts (complete hits, one owner), says of the host what the rows say:
\* detected at the earliest qualifying row of the host, or a miss.
THEOREM FastPathIsReference ==
    ASSUME NEW fs, RowsTyped(fs.csv), NEW run, fs.hits = FastHits(run, fs.csv, fs.config),
           NEW policy, NEW owner, NEW sel, sel = Select(fs, policy, owner),
           NEW host, AdaptAccepts(fs, host, sel, DirectMap(fs.hits)),
           NEW out, out = Adapt(fs, host, sel)
    PROVE  FastFound(out, fs.csv, fs.config, host)
<1> DEFINE H == ToSet(fs.hits)
           T == FastTimes(fs.csv, fs.config, host)
           O == Owned(fs, policy, owner)
           Q == Qualifying(fs.csv, fs.config)
<1>1. /\ T = {h.time : h \in {x \in H : x.host = host}} /\ \A h \in H : h.time \in Int
      /\ H = {HitOf(run, fs.csv, fs.config, n) : n \in Q}
  <2> DEFINE csv == fs.csv
             config == fs.config
  <2>1. RowsTyped(csv)
    OBVIOUS
  <2>2. H = ToSet(FastHits(run, csv, config))
    OBVIOUS
  <2>3. /\ T = {h.time : h \in {x \in ToSet(FastHits(run, csv, config)) : x.host = host}}
        /\ \A h \in ToSet(FastHits(run, csv, config)) : h.time \in Int
    <3> HIDE DEF csv, config
    <3>1. /\ FastTimes(csv, config, host)
                = {h.time : h \in {x \in ToSet(FastHits(run, csv, config)) : x.host = host}}
           /\ \A h \in ToSet(FastHits(run, csv, config)) : h.time \in Int
      BY <2>1, TimesOfHits
    <3> QED  BY <3>1 DEF csv, config
  <2>4. ToSet(FastHits(run, csv, config)) = {HitOf(run, csv, config, n) : n \in Qualifying(csv, config)}
    <3> HIDE DEF csv, config
    <3>1. PICK hits : hits = FastHits(run, csv, config)
      OBVIOUS
    <3> QED  BY <2>1, <3>1, HitsAreAll
  <2> HIDE DEF H
  <2> QED  BY <2>2, <2>3, <2>4
<1>2. H = {fs.hits[i] : i \in DOMAIN fs.hits}
  BY DEF ToSet
<1>3. O = {h \in H : Mapped(policy.map, h.host) = owner}
  BY DEF Owned
<1>4. ASSUME NEW g \in H, NEW h \in H, g.id = h.id
      PROVE  g = h
  <2>1. PICK n \in Q : g = HitOf(run, fs.csv, fs.config, n)
    BY <1>1
  <2>2. PICK m \in Q : h = HitOf(run, fs.csv, fs.config, m)
    BY <1>1
  <2>3. g.id[2] = n /\ h.id[2] = m
    BY <2>1, <2>2, HitFields
  <2>4. n = m
    BY <1>4, <2>3
  <2> QED  BY <2>1, <2>2, <2>4
<1>5. /\ out.detection.status = sel.status
      /\ out.detection.time = IF sel.status = "detected"
                                THEN (CHOOSE h \in H : h.id = sel.hit).time ELSE None
  BY AdaptedFields
<1> HIDE DEF H, T, O
<1>6. CASE O = {}
  <2>1. sel.status = "miss"
    BY <1>6 DEF Select, O
  <2>2. \A i \in DOMAIN fs.hits : fs.hits[i].host # host
    <3>1. MissAccepted(fs.hits, host, DirectMap(fs.hits))
      BY <2>1 DEF AdaptAccepts
    <3> QED  BY <3>1, DirectIsOwn DEF MissAccepted
  <2>3. T = {}
    BY <1>1, <1>2, <2>2
  <2> QED  BY <1>5, <2>1, <2>3 DEF FastFound, T
<1>7. CASE O # {}
  <2> DEFINE h0 == EarliestHit(O)
  <2>1. sel.status = "detected" /\ sel.hit = h0.id
    <3>1. sel = [status |-> "detected", hit |-> h0.id]
      BY <1>7, Zenon DEF Select, EarliestOwned, O, EarliestHit
    <3> QED  BY <3>1
  <2>2. h0 \in O /\ \A g \in O : h0.time <= g.time
    <3>1. O \subseteq {HitOf(run, fs.csv, fs.config, n) : n \in Qualifying(fs.csv, fs.config)}
      BY <1>1, <1>3
    <3> DEFINE csv == fs.csv
               config == fs.config
    <3>2. O \subseteq {HitOf(run, csv, config, n) : n \in Qualifying(csv, config)} /\ RowsTyped(csv)
      BY <3>1
    <3> HIDE DEF csv, config
    <3> QED  BY <1>7, <3>2, EarliestIsFirst
  <2> HIDE DEF h0
  <2>3. h0 \in H /\ Mapped(policy.map, h0.host) = owner
    BY <1>3, <2>2
  <2>4. h0.host = host
    <3>1. DetectionAccepted(fs.hits, host, DirectMap(fs.hits), h0.id)
      BY <2>1 DEF AdaptAccepts
    <3>2. PICK i \in DOMAIN fs.hits :
             fs.hits[i].id = h0.id /\ Mapped(DirectMap(fs.hits), fs.hits[i].host) = host
      BY <3>1 DEF DetectionAccepted
    <3>3. fs.hits[i] \in H /\ fs.hits[i].host = host
      BY <1>2, <3>2, DirectIsOwn
    <3>4. fs.hits[i] = h0
      BY <1>4, <2>3, <3>2, <3>3
    <3> QED  BY <3>3, <3>4
  <2>5. (CHOOSE h \in H : h.id = sel.hit) = h0
    <3>1. \A h \in H : h.id = sel.hit => h = h0
      BY <1>4, <2>1, <2>3
    <3> QED  BY <2>1, <2>3, <3>1
  <2>6. h0.time \in T /\ \A t \in T : t \in Int /\ h0.time <= t
    <3>1. h0.time \in T
      BY <1>1, <2>3, <2>4
    <3>2. ASSUME NEW t \in T
          PROVE  t \in Int /\ h0.time <= t
      <4>1. PICK g \in H : g.host = host /\ t = g.time
        BY <1>1
      <4>2. g \in O
        BY <1>3, <2>3, <2>4, <4>1
      <4> QED  BY <1>1, <2>2, <4>1, <4>2
    <3> QED  BY <3>1, <3>2
  <2>7. Min(T) = h0.time
    <3>1. \A x \in T : (\A y \in T : x <= y) => x = h0.time
      BY <2>6
    <3> QED  BY <2>6, <3>1 DEF Min
  <2> QED  BY <1>5, <2>1, <2>5, <2>6, <2>7 DEF FastFound, T
<1> QED  BY <1>6, <1>7

-----------------------------------------------------------------------------
(***************************************************************************)
(* R1 Evidence                                                             *)
(***************************************************************************)
\* The first case that applies, if one does.
LEMMA FirstMatchNone ==
    ASSUME NEW cases, NEW n \in Nat, DOMAIN cases = 1..n, \A i \in 1..n : cases[i][2] # None
    PROVE  FirstMatch(cases) = None <=> \A i \in 1..n : ~cases[i][1]
<1> DEFINE A == {i \in DOMAIN cases : cases[i][1]}
<1>1. FirstMatch(cases) = IF A = {} THEN None ELSE cases[Min(A)][2]
  BY DEF FirstMatch
<1>2. A \subseteq Nat /\ A \subseteq 1..n
  OBVIOUS
<1>3. A # {} => Min(A) \in A
  <2> HIDE DEF A
  <2> SUFFICES ASSUME A # {}
               PROVE  Min(A) \in A
    OBVIOUS
  <2>1. PICK i \in A : \A j \in A : i <= j
    BY <1>2, FirstExists
  <2> QED  BY <2>1 DEF Min
<1>4. A = {} <=> \A i \in 1..n : ~cases[i][1]
  OBVIOUS
<1> HIDE DEF A
<1> QED  BY <1>1, <1>2, <1>3, <1>4

LEMMA FourCases ==
    ASSUME NEW a1 \in BOOLEAN, NEW a2 \in BOOLEAN, NEW a3 \in BOOLEAN, NEW a4 \in BOOLEAN,
           NEW b1, NEW b2, NEW b3, NEW b4, b1 # None, b2 # None, b3 # None, b4 # None
    PROVE  FirstMatch(<<<<a1, b1>>, <<a2, b2>>, <<a3, b3>>, <<a4, b4>>>>) = None
             <=> ~a1 /\ ~a2 /\ ~a3 /\ ~a4
<1> DEFINE c == <<<<a1, b1>>, <<a2, b2>>, <<a3, b3>>, <<a4, b4>>>>
<1>1. DOMAIN c = 1..4 /\ c[1] = <<a1, b1>> /\ c[2] = <<a2, b2>> /\ c[3] = <<a3, b3>> /\ c[4] = <<a4, b4>>
  OBVIOUS
<1> HIDE DEF c
<1>2. \A i \in 1..4 : c[i][2] # None
  BY <1>1
<1>3. FirstMatch(c) = None <=> \A i \in 1..4 : ~c[i][1]
  BY <1>1, <1>2, FirstMatchNone
<1>4. c[1][1] = a1 /\ c[2][1] = a2 /\ c[3][1] = a3 /\ c[4][1] = a4
  BY <1>1
<1>5. FirstMatch(c) = None <=> ~c[1][1] /\ ~c[2][1] /\ ~c[3][1] /\ ~c[4][1]
  BY <1>3
<1> QED  BY <1>4, <1>5 DEF c


\* Events of one run and one host, each under an id of its own, with times; a name is
\* blank when its stem is.
IsBatch(batch) ==
    /\ IsFiniteSet(batch)
    /\ \A e \in batch : /\ e.time \in Int
                        /\ e.name # None /\ e.name[1] = "" => e.name = <<"", "">>
    /\ \A e, x \in batch : /\ e.id = x.id => e = x
                           /\ e.run = x.run /\ e.host = x.host

\* The processes of the Run that connected.
Connected(batch, start) ==
    {p \in Processes(batch) : p.time >= start /\ \E n \in Networks(batch) : n.guid = p.guid}

\* What the selector checks before it walks.
ToldApart(batch, start) ==
    /\ \A e \in Processes(batch) \cup Networks(batch) : e.guid # None
    /\ \A p, q \in Processes(batch) : p.guid = q.guid => p = q
    /\ \A n \in Networks(batch), p \in Processes(batch) :
          n.guid = p.guid /\ p.time >= start => n.time >= p.time
    /\ Cardinality(Connected(batch, start)) = 1

\* From a process to its parent, n processes in all.
IsLine(l, n, batch) ==
    /\ l \in Seq(Processes(batch)) /\ Len(l) = n
    /\ \A i \in 1..(n - 1) : l[i].parent = l[i + 1].guid /\ l[i + 1].time <= l[i].time
    /\ \A i, j \in 1..n : i # j => l[i].guid # l[j].guid

\* The selector refuses a batch exactly when it is not told apart.
LEMMA RefusedIsUnclear ==
    ASSUME NEW batch, IsBatch(batch), NEW start \in Int
    PROVE  /\ BatchFailure(batch, start) = None <=> ToldApart(batch, start)
           /\ ToldApart(batch, start) => TerminalCandidates(batch, start) = Connected(batch, start)
<1> DEFINE P == Processes(batch)
           N == Networks(batch)
           a1 == batch = {}
           a2 == Shared(batch, "id")
           a3 == Mixed(batch, "run")
           a4 == Mixed(batch, "host")
           a5 == \E e \in P \cup N : e.guid = None
           a6 == Shared(P, "guid")
           a7 == \E p \in InRun(batch, start) : Inverted(p, batch)
           a8 == TerminalCandidates(batch, start) = {}
           a9 == Cardinality(TerminalCandidates(batch, start)) # 1
<1>1. BatchFailure(batch, start) = None
        <=> ~a1 /\ ~a2 /\ ~a3 /\ ~a4 /\ ~a5 /\ ~a6 /\ ~a7 /\ ~a8 /\ ~a9
  <2> DEFINE c == <<
            <<a1, "empty_event_batch">>,
            <<a2, "duplicate_event_id">>,
            <<a3, "mixed_run_scope">>,
            <<a4, "mixed_host_scope">>,
            <<a5, "missing_process_guid">>,
            <<a6, "duplicate_process_guid">>,
            <<a7, "temporal_inversion">>,
            <<a8, "no_terminal_candidate">>,
            <<a9, "ambiguous_terminal_candidate">>>>
  <2>1. BatchFailure(batch, start) = FirstMatch(c)
    BY Zenon DEF BatchFailure
  <2>2. /\ a1 \in BOOLEAN /\ a2 \in BOOLEAN /\ a3 \in BOOLEAN /\ a4 \in BOOLEAN /\ a5 \in BOOLEAN
        /\ a6 \in BOOLEAN /\ a7 \in BOOLEAN /\ a8 \in BOOLEAN /\ a9 \in BOOLEAN
    BY DEF Shared, Mixed
  <2> HIDE DEF a1, a2, a3, a4, a5, a6, a7, a8, a9
  <2>3. /\ DOMAIN c = 1..9
        /\ c[1] = <<a1, "empty_event_batch">> /\ c[2] = <<a2, "duplicate_event_id">>
        /\ c[3] = <<a3, "mixed_run_scope">> /\ c[4] = <<a4, "mixed_host_scope">>
        /\ c[5] = <<a5, "missing_process_guid">> /\ c[6] = <<a6, "duplicate_process_guid">>
        /\ c[7] = <<a7, "temporal_inversion">> /\ c[8] = <<a8, "no_terminal_candidate">>
        /\ c[9] = <<a9, "ambiguous_terminal_candidate">>
    OBVIOUS
  <2> HIDE DEF c
  <2>4. \A i \in 1..9 : c[i][2] # None
    BY <2>3, NoneIsNoDiagnostic
  <2>5. FirstMatch(c) = None <=> \A i \in 1..9 : ~c[i][1]
    BY <2>3, <2>4, FirstMatchNone
  <2>6. /\ c[1][1] = a1 /\ c[2][1] = a2 /\ c[3][1] = a3 /\ c[4][1] = a4 /\ c[5][1] = a5
        /\ c[6][1] = a6 /\ c[7][1] = a7 /\ c[8][1] = a8 /\ c[9][1] = a9
    BY <2>2, <2>3
  <2>7. FirstMatch(c) = None <=> /\ ~c[1][1] /\ ~c[2][1] /\ ~c[3][1] /\ ~c[4][1] /\ ~c[5][1]
                                 /\ ~c[6][1] /\ ~c[7][1] /\ ~c[8][1] /\ ~c[9][1]
    BY <2>5
  <2> QED  BY <2>1, <2>6, <2>7
<1>2. ~a2 /\ ~a3 /\ ~a4
  BY DEF IsBatch, Shared, Mixed
<1>3. a7 <=> ~\A n \in N, p \in P : n.guid = p.guid /\ p.time >= start => n.time >= p.time
  <2>1. \A n \in N, p \in P : n.time \in Int /\ p.time \in Int
    BY DEF IsBatch, Processes, Networks
  <2>2. \A p \in P : Inverted(p, batch) <=> \E n \in N : n.guid = p.guid /\ n.time < p.time
    BY DEF Inverted, NetworksOf
  <2> HIDE DEF N, P
  <2>3. a7 <=> \E p \in P : p.time >= start /\ Inverted(p, batch)
    BY DEF InRun, P
  <2> QED  BY <2>1, <2>2, <2>3
<1>4. ~a7 => TerminalCandidates(batch, start) = Connected(batch, start)
  BY DEF TerminalCandidates, InRun, NetworksOf, Connected
<1>5. a6 <=> ~\A p, q \in P : p.guid = q.guid => p = q
  BY DEF Shared
<1>6. Cardinality(Connected(batch, start)) = 1 => ~a1 /\ Connected(batch, start) # {}
  BY FS_EmptySet DEF Connected, Processes
<1> HIDE DEF a1, a2, a3, a4, a6, a7
<1> QED  BY <1>1, <1>2, <1>3, <1>4, <1>5, <1>6 DEF ToldApart

\* One step of the walk finds the parent, if the line goes on.
LEMMA StepIsParent ==
    ASSUME NEW batch, NEW start, ToldApart(batch, start), IsBatch(batch), NEW n \in Nat \ {0},
           NEW l, IsLine(l, n, batch), NEW w, w = [line |-> l, why |-> None]
    PROVE  LET v == StepUp(w, batch)
           IN  \/ v = [line |-> v.line, why |-> None] /\ IsLine(v.line, n + 1, batch) /\ v.line[1] = l[1]
               \/ /\ v.why # None
                  /\ \A q \in Processes(batch) :
                        ~(/\ q.guid = l[n].parent /\ q.time <= l[n].time
                          /\ \A i \in 1..n : l[i].guid # q.guid)
<1> DEFINE child == Last(w.line)
           parents == {p \in Processes(batch) : p.guid = child.parent}
           a1 == child.parent = None
           a2 == \E i \in DOMAIN w.line : w.line[i].guid = child.parent
           a3 == parents = {}
           a4 == \E p \in parents : child.time < p.time
           why == FirstMatch(<<<<a1, "truncated_lineage">>, <<a2, "lineage_cycle">>,
                               <<a3, "truncated_lineage">>, <<a4, "temporal_inversion">>>>)
           v == StepUp(w, batch)
<1>1. v = IF why # None THEN [w EXCEPT !.why = why]
          ELSE [w EXCEPT !.line = Append(@, CHOOSE p \in parents : TRUE)]
  BY Zenon DEF StepUp
<1>2. why = None <=> ~a1 /\ ~a2 /\ ~a3 /\ ~a4
  <2>1. a1 \in BOOLEAN /\ a2 \in BOOLEAN /\ a3 \in BOOLEAN /\ a4 \in BOOLEAN
    OBVIOUS
  <2> HIDE DEF a1, a2, a3, a4
  <2> QED  BY <2>1, FourCases, NoneIsNoDiagnostic
<1> HIDE DEF why, v
<1>3. child = l[n] /\ l[n] \in Processes(batch) /\ DOMAIN l = 1..n /\ w.line = l /\ w.why = None
  BY DEF Last, IsLine
<1>4. CASE why # None
  <2>1. v.why = why
    BY <1>1, <1>4
  <2>2. ASSUME NEW q \in Processes(batch), q.guid = l[n].parent, q.time <= l[n].time,
               \A i \in 1..n : l[i].guid # q.guid
        PROVE  FALSE
    <3>1. ~a1
      BY <2>2, <1>3 DEF ToldApart
    <3>2. ~a2
      BY <2>2, <1>3
    <3>3. ~a3
      BY <2>2, <1>3
    <3>4. ~a4
      <4>1. \A p \in parents : p = q
        BY <2>2, <1>3 DEF ToldApart
      <4>2. q.time \in Int /\ l[n].time \in Int
        BY <1>3 DEF IsBatch, Processes
      <4> QED  BY <2>2, <1>3, <4>1, <4>2
    <3> QED  BY <1>2, <1>4, <3>1, <3>2, <3>3, <3>4
  <2> QED  BY <1>4, <2>1, <2>2 DEF v
<1>5. CASE why = None
  <2> DEFINE x == CHOOSE p \in parents : TRUE
  <2>1. x \in parents
    BY <1>2, <1>5
  <2> HIDE DEF x
  <2>2. v = [line |-> Append(l, x), why |-> None]
    BY <1>1, <1>5 DEF x
  <2>3. /\ x \in Processes(batch) /\ x.guid = l[n].parent
        /\ ~(l[n].time < x.time) /\ \A i \in 1..n : l[i].guid # x.guid
    BY <2>1, <1>2, <1>5, <1>3
  <2>4. x.time \in Int /\ l[n].time \in Int
    BY <1>3, <2>3 DEF IsBatch, Processes
  <2> DEFINE m == Append(l, x)
  <2>5. /\ m \in Seq(Processes(batch)) /\ Len(m) = n + 1 /\ m[n + 1] = x
        /\ \A i \in 1..n : m[i] = l[i]
    BY <2>3, <1>3 DEF IsLine
  <2> HIDE DEF m
  <2>6. IsLine(m, n + 1, batch)
    <3>1. ASSUME NEW i \in 1..n
          PROVE  m[i].parent = m[i + 1].guid /\ m[i + 1].time <= m[i].time
      <4>1. CASE i = n
        BY <4>1, <2>3, <2>4, <2>5
      <4>2. CASE i # n
        <5>1. m[i] = l[i] /\ m[i + 1] = l[i + 1] /\ i \in 1..(n - 1)
          BY <2>5, <4>2
        <5> QED  BY <5>1 DEF IsLine
      <4> QED  BY <4>1, <4>2
    <3>2. ASSUME NEW i \in 1..(n + 1), NEW j \in 1..(n + 1), i # j
          PROVE  m[i].guid # m[j].guid
      BY <2>3, <2>5, <3>2 DEF IsLine
    <3>3. (n + 1) - 1 = n
      OBVIOUS
    <3> QED  BY <2>5, <3>1, <3>2, <3>3 DEF IsLine
  <2>7. m[1] = l[1]
    BY <2>5
  <2>8. v.line = m /\ v = [line |-> m, why |-> None]
    BY <2>2 DEF m
  <2> QED  BY <2>6, <2>7, <2>8 DEF v
<1> QED  BY <1>4, <1>5

\* The walk of the selector takes its steps.
LEMMA LineWalkFollows ==
    ASSUME NEW t, NEW batch, NEW count \in Nat \ {0}
    PROVE  \E g : /\ LineageToBoundary(t, batch, count) = g[count]
                  /\ g[1] = [line |-> <<t>>, why |-> None]
                  /\ \A n \in 1..(count - 1) :
                        g[n + 1] = IF g[n].why # None THEN g[n] ELSE StepUp(g[n], batch)
<1> DEFINE step(w) == IF w.why # None THEN w ELSE StepUp(w, batch)
           first == [line |-> <<t>>, why |-> None]
           Upto(g, n) == g = [i \in 1..n |-> IF i = 1 THEN first ELSE step(g[i - 1])]
           N == {n \in Nat : \E g : Upto(g, n + 1)}
           g == CHOOSE g : Upto(g, count)
<1>1. LineageToBoundary(t, batch, count) = g[count]
  BY DEF LineageToBoundary
<1> HIDE DEF step, first
<1>2. 0 \in N
  <2>1. Upto([i \in 1..1 |-> first], 0 + 1)
    OBVIOUS
  <2> QED  BY <2>1
<1>3. ASSUME NEW n \in N
      PROVE  n + 1 \in N
  <2>1. PICK f : Upto(f, n + 1)
    OBVIOUS
  <2> DEFINE h == [i \in 1..((n + 1) + 1) |-> IF i = n + 2 THEN step(f[n + 1]) ELSE f[i]]
  <2>2. ASSUME NEW i \in 1..((n + 1) + 1)
        PROVE  h[i] = IF i = 1 THEN first ELSE step(h[i - 1])
    <3>1. CASE i = n + 2
      <4>1. h[i] = step(f[n + 1]) /\ h[i - 1] = f[n + 1] /\ i # 1
        BY <3>1
      <4> QED  BY <3>1, <4>1
    <3>2. CASE i \in 2..(n + 1)
      <4>1. h[i] = f[i] /\ h[i - 1] = f[i - 1] /\ i # 1
        BY <3>2
      <4>2. f[i] = step(f[i - 1])
        BY <2>1, <3>2
      <4> QED  BY <4>1, <4>2
    <3>3. CASE i = 1
      <4>1. h[i] = f[i] /\ f[i] = first
        BY <2>1, <3>3
      <4> QED  BY <3>3, <4>1
    <3> QED  BY <3>1, <3>2, <3>3
  <2>3. Upto(h, (n + 1) + 1)
    <3>1. h = [i \in 1..((n + 1) + 1) |-> h[i]]
      OBVIOUS
    <3> HIDE DEF h
    <3> QED  BY <2>2, <3>1
  <2> HIDE DEF h, Upto
  <2> QED  BY <2>3
<1> HIDE DEF N
<1>4. N = Nat
  <2>1. N \in SUBSET Nat
    BY DEF N
  <2> QED  BY <1>2, <1>3, <2>1, Induction
<1>5. Upto(g, count)
  <2>1. count - 1 \in Nat /\ (count - 1) + 1 = count
    OBVIOUS
  <2> HIDE DEF Upto
  <2>2. count - 1 \in N
    BY <1>4, <2>1
  <2>3. \E f : Upto(f, (count - 1) + 1)
    BY <2>2 DEF N
  <2> QED  BY <2>1, <2>3
<1> HIDE DEF g
<1>6. g[1] = first
  BY <1>5
<1>7. ASSUME NEW n \in 1..(count - 1)
      PROVE  g[n + 1] = step(g[n])
  <2>1. n + 1 \in 1..count /\ n + 1 # 1 /\ (n + 1) - 1 = n
    OBVIOUS
  <2> QED  BY <1>5, <2>1
<1> HIDE DEF Upto
<1> QED  BY <1>1, <1>6, <1>7 DEF step, first

\* A line is given by where it starts.
LEMMA LineIsOne ==
    ASSUME NEW batch, NEW start, ToldApart(batch, start), NEW n \in Nat \ {0},
           NEW l, IsLine(l, n, batch), NEW m, IsLine(m, n, batch), l[1] = m[1]
    PROVE  l = m
<1> DEFINE N == {k \in Nat : k + 1 <= n => l[k + 1] = m[k + 1]}
<1>1. /\ \A i \in 1..n : l[i] \in Processes(batch) /\ m[i] \in Processes(batch)
      /\ l = [i \in 1..n |-> l[i]] /\ m = [i \in 1..n |-> m[i]]
  BY DEF IsLine
<1>2. 0 \in N
  OBVIOUS
<1>3. ASSUME NEW k \in N
      PROVE  k + 1 \in N
  <2> SUFFICES ASSUME (k + 1) + 1 <= n
               PROVE  l[(k + 1) + 1] = m[(k + 1) + 1]
    OBVIOUS
  <2>1. l[k + 1] = m[k + 1] /\ k + 1 \in 1..(n - 1) /\ (k + 1) + 1 \in 1..n
    OBVIOUS
  <2>2. l[(k + 1) + 1].guid = m[(k + 1) + 1].guid
    BY <2>1 DEF IsLine
  <2> QED  BY <1>1, <2>1, <2>2 DEF ToldApart
<1> HIDE DEF N
<1>4. N = Nat
  <2>1. N \in SUBSET Nat
    BY DEF N
  <2> QED  BY <1>2, <1>3, <2>1, Induction
<1>5. ASSUME NEW i \in 1..n
      PROVE  l[i] = m[i]
  <2>1. i - 1 \in N /\ (i - 1) + 1 = i
    BY <1>4
  <2> QED  BY <2>1 DEF N
<1> QED  BY <1>1, <1>5

\* The beginning of a line is a line.
LEMMA LineBefore ==
    ASSUME NEW batch, NEW n \in Nat \ {0}, NEW l, IsLine(l, n + 1, batch)
    PROVE  LET m == [i \in 1..n |-> l[i]]
           IN  IsLine(m, n, batch) /\ m[1] = l[1]
<1> DEFINE m == [i \in 1..n |-> l[i]]
<1>1. \A i \in 1..(n + 1) : l[i] \in Processes(batch)
  BY DEF IsLine
<1>2. m \in Seq(Processes(batch)) /\ Len(m) = n /\ \A i \in 1..n : m[i] = l[i]
  BY <1>1
<1> HIDE DEF m
<1>3. \A i \in 1..(n - 1) : i \in 1..n /\ i + 1 \in 1..n /\ i \in 1..((n + 1) - 1)
  OBVIOUS
<1>4. \A i \in 1..(n - 1) : m[i].parent = m[i + 1].guid /\ m[i + 1].time <= m[i].time
  BY <1>2, <1>3 DEF IsLine
<1>5. \A i, j \in 1..n : i # j => m[i].guid # m[j].guid
  BY <1>2 DEF IsLine
<1> QED  BY <1>2, <1>4, <1>5 DEF IsLine, m

\* A process alone is a line.
LEMMA LineOfOne ==
    ASSUME NEW batch, NEW t \in Processes(batch)
    PROVE  IsLine(<<t>>, 1, batch) /\ <<t>>[1] = t
<1>1. /\ <<t>> \in Seq(Processes(batch)) /\ Len(<<t>>) = 1 /\ <<t>>[1] = t
      /\ 1..(1 - 1) = {} /\ 1..1 = {1}
  OBVIOUS
<1> QED  BY <1>1 DEF IsLine

\* The walk finds the line of its length from the terminal, if there is one.
LEMMA WalkIsLine ==
    ASSUME NEW batch, NEW start, ToldApart(batch, start), IsBatch(batch),
           NEW t \in Processes(batch), NEW count \in Nat \ {0}
    PROVE  LET w == LineageToBoundary(t, batch, count)
           IN  \/ w = [line |-> w.line, why |-> None] /\ IsLine(w.line, count, batch) /\ w.line[1] = t
               \/ w.why # None /\ \A l : ~(IsLine(l, count, batch) /\ l[1] = t)
<1> DEFINE Right(w, n) ==
              \/ w = [line |-> w.line, why |-> None] /\ IsLine(w.line, n, batch) /\ w.line[1] = t
              \/ w.why # None /\ \A l : ~(IsLine(l, n, batch) /\ l[1] = t)
<1>1. PICK g : /\ LineageToBoundary(t, batch, count) = g[count]
               /\ g[1] = [line |-> <<t>>, why |-> None]
               /\ \A n \in 1..(count - 1) :
                        g[n + 1] = IF g[n].why # None THEN g[n] ELSE StepUp(g[n], batch)
  BY LineWalkFollows
<1> DEFINE N == {n \in Nat : n + 1 <= count => Right(g[n + 1], n + 1)}
<1>2. 0 \in N
  <2>1. g[1].line = <<t>> /\ g[1] = [line |-> g[1].line, why |-> None]
    BY <1>1
  <2>2. Right(g[1], 1)
    BY <2>1, LineOfOne
  <2> HIDE DEF Right
  <2> QED  BY <2>2
<1>3. ASSUME NEW n \in N
      PROVE  n + 1 \in N
  <2> SUFFICES ASSUME (n + 1) + 1 <= count
               PROVE  Right(g[(n + 1) + 1], (n + 1) + 1)
    <3> HIDE DEF Right
    <3> QED  OBVIOUS
  <2> DEFINE k == n + 1
             w == g[k]
             v == g[k + 1]
  <2>1. k \in Nat \ {0} /\ k \in 1..(count - 1)
    OBVIOUS
  <2>2. Right(w, k)
    <3> HIDE DEF Right
    <3> QED  BY <2>1
  <2>3. v = IF w.why # None THEN w ELSE StepUp(w, batch)
    BY <1>1, <2>1
  <2> HIDE DEF k, w, v
  <2>4. CASE w.why # None
    <3>1. \A l : ~(IsLine(l, k + 1, batch) /\ l[1] = t)
      <4> SUFFICES ASSUME NEW l, IsLine(l, k + 1, batch), l[1] = t
                   PROVE  FALSE
        OBVIOUS
      <4> DEFINE m == [i \in 1..k |-> l[i]]
      <4>1. IsLine(m, k, batch) /\ m[1] = l[1]
        BY <2>1, LineBefore
      <4> HIDE DEF m
      <4> QED  BY <2>2, <2>4, <4>1
    <3> QED  BY <2>3, <2>4, <3>1 DEF v, k
  <2>5. CASE w.why = None
    <3>1. w = [line |-> w.line, why |-> None] /\ IsLine(w.line, k, batch) /\ w.line[1] = t
      BY <2>2, <2>5
    <3>2. \/ v = [line |-> v.line, why |-> None] /\ IsLine(v.line, k + 1, batch) /\ v.line[1] = t
          \/ /\ v.why # None
             /\ \A q \in Processes(batch) :
                   ~(/\ q.guid = w.line[k].parent /\ q.time <= w.line[k].time
                     /\ \A i \in 1..k : w.line[i].guid # q.guid)
      BY <2>1, <2>3, <2>5, <3>1, StepIsParent
    <3>3. ASSUME NEW l, IsLine(l, k + 1, batch), l[1] = t
          PROVE  \E q \in Processes(batch) :
                    /\ q.guid = w.line[k].parent /\ q.time <= w.line[k].time
                    /\ \A i \in 1..k : w.line[i].guid # q.guid
      <4> DEFINE m == [i \in 1..k |-> l[i]]
      <4>1. IsLine(m, k, batch) /\ m[1] = l[1]
        BY <2>1, <3>3, LineBefore
      <4>2. m = w.line
        BY <2>1, <3>1, <3>3, <4>1, LineIsOne
      <4>3. \A i \in 1..k : m[i] = l[i]
        OBVIOUS
      <4> HIDE DEF m
      <4>4. l[k + 1] \in Processes(batch) /\ k \in 1..k /\ k + 1 \in 1..(k + 1) /\ k \in 1..((k + 1) - 1)
        BY <2>1, <3>3 DEF IsLine
      <4>5. l[k + 1].guid = l[k].parent /\ l[k + 1].time <= l[k].time
        BY <3>3, <4>4 DEF IsLine
      <4>6. \A i \in 1..k : l[i].guid # l[k + 1].guid
        BY <2>1, <3>3, <4>4 DEF IsLine
      <4> QED  BY <4>2, <4>3, <4>4, <4>5, <4>6
    <3> QED  BY <3>2, <3>3 DEF v, k
  <2> QED  BY <2>4, <2>5
<1> HIDE DEF N, Right
<1>4. N = Nat
  <2>1. N \in SUBSET Nat
    BY DEF N
  <2> QED  BY <1>2, <1>3, <2>1, Induction
<1>5. count - 1 \in N /\ (count - 1) + 1 = count
  BY <1>4
<1>6. Right(g[count], count)
  BY <1>5 DEF N
<1> QED  BY <1>1, <1>6 DEF Right

\* A chain is a line read from its other end.
LEMMA ChainIsLine ==
    ASSUME NEW batch, IsBatch(batch), NEW start, NEW count \in Nat \ {0},
           NEW c \in Chains(batch, count, start)
    PROVE  /\ IsLine(Reverse(c), count, batch) /\ Reverse(c)[1] \in Connected(batch, start)
           /\ c = Reverse(Reverse(c))
<1> DEFINE m == Reverse(c)
<1>1. /\ c \in [1..count -> Processes(batch)]
      /\ \A i \in 1..(count - 1) : c[i].guid = c[i + 1].parent /\ c[i].time <= c[i + 1].time
      /\ \A i, j \in 1..count : i # j => c[i].guid # c[j].guid
      /\ c[count].time >= start
      /\ \E n \in Networks(batch) : n.guid = c[count].guid
  BY Zenon DEF Chains
<1>2. Len(c) = count /\ c \in Seq(Processes(batch)) /\ c = [i \in 1..count |-> c[i]]
  BY <1>1
<1>3. m = [i \in 1..count |-> c[(count - i) + 1]]
  BY <1>2 DEF Reverse
<1>4. m \in Seq(Processes(batch)) /\ Len(m) = count
  BY <1>1, <1>3
<1>5. \A i \in 1..count : m[i] = c[(count - i) + 1] /\ (count - i) + 1 \in 1..count
  BY <1>3
<1> HIDE DEF m
<1>6. ASSUME NEW i \in 1..(count - 1)
      PROVE  m[i].parent = m[i + 1].guid /\ m[i + 1].time <= m[i].time
  <2> DEFINE j == (count - (i + 1)) + 1
  <2>1. j \in 1..(count - 1) /\ j + 1 = (count - i) + 1 /\ i \in 1..count /\ i + 1 \in 1..count
    OBVIOUS
  <2>2. m[i] = c[j + 1] /\ m[i + 1] = c[j]
    BY <1>5, <2>1
  <2> HIDE DEF j
  <2> QED  BY <1>1, <2>1, <2>2
<1>7. ASSUME NEW i \in 1..count, NEW j \in 1..count, i # j
      PROVE  m[i].guid # m[j].guid
  <2> DEFINE a == (count - i) + 1
             b == (count - j) + 1
  <2>1. a \in 1..count /\ b \in 1..count /\ a # b
    BY <1>7
  <2>2. m[i] = c[a] /\ m[j] = c[b]
    BY <1>5
  <2> HIDE DEF a, b
  <2> QED  BY <1>1, <2>1, <2>2
<1>8. IsLine(m, count, batch)
  BY <1>4, <1>6, <1>7 DEF IsLine
<1>9. m[1] = c[count] /\ c[count] \in Processes(batch)
  BY <1>1, <1>5
<1>10. m[1] \in Connected(batch, start)
  BY <1>1, <1>9 DEF Connected
<1>11. c = Reverse(m)
  <2>1. Reverse(m) = [i \in 1..count |-> m[(count - i) + 1]]
    BY <1>4 DEF Reverse
  <2>2. ASSUME NEW i \in 1..count
        PROVE  m[(count - i) + 1] = c[i]
    <3>1. (count - i) + 1 \in 1..count /\ (count - ((count - i) + 1)) + 1 = i
      OBVIOUS
    <3> QED  BY <1>5, <3>1
  <2> QED  BY <1>2, <2>1, <2>2
<1> QED  BY <1>8, <1>10, <1>11 DEF m

LEMMA LineIsChain ==
    ASSUME NEW batch, IsBatch(batch), NEW start, NEW count \in Nat \ {0},
           NEW l, IsLine(l, count, batch), l[1] \in Connected(batch, start)
    PROVE  Reverse(l) \in Chains(batch, count, start)
<1> DEFINE c == Reverse(l)
<1>1. /\ l \in Seq(Processes(batch)) /\ Len(l) = count
      /\ \A i \in 1..(count - 1) : l[i].parent = l[i + 1].guid /\ l[i + 1].time <= l[i].time
      /\ \A i, j \in 1..count : i # j => l[i].guid # l[j].guid
  BY DEF IsLine
<1>2. c = [i \in 1..count |-> l[(count - i) + 1]]
  BY <1>1 DEF Reverse
<1>3. c \in [1..count -> Processes(batch)]
  BY <1>1, <1>2
<1>4. \A i \in 1..count : c[i] = l[(count - i) + 1] /\ (count - i) + 1 \in 1..count
  BY <1>2
<1> HIDE DEF c
<1>5. ASSUME NEW i \in 1..(count - 1)
      PROVE  c[i].guid = c[i + 1].parent /\ c[i].time <= c[i + 1].time
  <2> DEFINE j == (count - (i + 1)) + 1
  <2>1. j \in 1..(count - 1) /\ j + 1 = (count - i) + 1 /\ i \in 1..count /\ i + 1 \in 1..count
    OBVIOUS
  <2>2. c[i] = l[j + 1] /\ c[i + 1] = l[j]
    BY <1>4, <2>1
  <2> HIDE DEF j
  <2> QED  BY <1>1, <2>1, <2>2
<1>6. ASSUME NEW i \in 1..count, NEW j \in 1..count, i # j
      PROVE  c[i].guid # c[j].guid
  <2>1. (count - i) + 1 # (count - j) + 1
    BY <1>6
  <2> QED  BY <1>1, <1>4, <2>1
<1>7. c[count] = l[1]
  BY <1>4
<1>8. c[count].time >= start /\ \E n \in Networks(batch) : n.guid = c[count].guid
  BY <1>7 DEF Connected
<1> QED  BY <1>3, <1>5, <1>6, <1>8, Zenon DEF Chains, c

\* The only chain of a batch that is told apart.
LEMMA ChainIsOne ==
    ASSUME NEW batch, IsBatch(batch), NEW start, NEW count \in Nat \ {0},
           ToldApart(batch, start), NEW l, IsLine(l, count, batch), l[1] \in Connected(batch, start)
    PROVE  Chains(batch, count, start) = {Reverse(l)}
<1>1. PICK t : Connected(batch, start) = {t}
  <2>1. IsFiniteSet(Connected(batch, start))
    <3>1. Connected(batch, start) \subseteq batch
      BY DEF Connected, Processes
    <3> QED  BY <3>1, FS_Subset DEF IsBatch
  <2> QED  BY <2>1, FS_Singleton DEF ToldApart
<1>2. Reverse(l) \in Chains(batch, count, start)
  BY LineIsChain
<1>3. ASSUME NEW c \in Chains(batch, count, start)
      PROVE  c = Reverse(l)
  <2>1. IsLine(Reverse(c), count, batch) /\ Reverse(c)[1] = l[1] /\ c = Reverse(Reverse(c))
    BY <1>1, ChainIsLine
  <2>2. Reverse(c) = l
    BY <2>1, LineIsOne
  <2> QED  BY <2>1, <2>2
<1> QED  BY <1>2, <1>3

\* What the selector answers.
Selected(l, start) ==
    [why |-> None, anchor |-> Last(l).id, terminal |-> l[1].id,
     context |-> IdSeq(Among(Reverse(l), {e \in Range(l) : e.time < start}))]

\* The selector finds the line of a batch that has one.
LEMMA SelectionIsLine ==
    ASSUME NEW batch, IsBatch(batch), NEW start \in Int, NEW count \in Nat \ {0}
    PROVE  LET s == SelectLineage(batch, count, start)
           IN  /\ s.why = None <=> ToldApart(batch, start) /\ Chains(batch, count, start) # {}
               /\ s.why = None =>
                     \E l : /\ IsLine(l, count, batch) /\ l[1] \in Connected(batch, start)
                            /\ s = Selected(l, start)
<1> DEFINE s == SelectLineage(batch, count, start)
<1>1. CASE ~ToldApart(batch, start)
  <2>1. BatchFailure(batch, start) # None
    BY <1>1, RefusedIsUnclear
  <2>2. s = NoSelection(BatchFailure(batch, start))
    BY <2>1 DEF SelectLineage
  <2>3. s.why # None
    BY <2>1, <2>2 DEF NoSelection
  <2> QED  BY <1>1, <2>3
<1>2. CASE ToldApart(batch, start)
  <2> DEFINE t == CHOOSE p \in TerminalCandidates(batch, start) : TRUE
             w == LineageToBoundary(t, batch, count)
  <2>1. BatchFailure(batch, start) = None /\ TerminalCandidates(batch, start) = Connected(batch, start)
    BY <1>2, RefusedIsUnclear
  <2>2. s = SelectionOf(w, start)
    BY <2>1 DEF SelectLineage
  <2>3. PICK x : Connected(batch, start) = {x}
    <3>1. Connected(batch, start) \subseteq batch
      BY DEF Connected, Processes
    <3>2. IsFiniteSet(Connected(batch, start))
      BY <3>1, FS_Subset DEF IsBatch
    <3> QED  BY <1>2, <3>2, FS_Singleton DEF ToldApart
  <2>4. t \in Connected(batch, start) /\ \A y \in Connected(batch, start) : y = t
    BY <2>1, <2>3
  <2> HIDE DEF s, t
  <2>5. t \in Processes(batch)
    BY <2>4 DEF Connected
  <2>6. \/ w = [line |-> w.line, why |-> None] /\ IsLine(w.line, count, batch) /\ w.line[1] = t
        \/ w.why # None /\ \A l : ~(IsLine(l, count, batch) /\ l[1] = t)
    BY <1>2, <2>5, WalkIsLine
  <2> HIDE DEF w
  <2>7. CASE w.why # None
    <3>1. \A l : ~(IsLine(l, count, batch) /\ l[1] = t)
      BY <2>6, <2>7
    <3>2. Chains(batch, count, start) = {}
      <4> SUFFICES ASSUME NEW c \in Chains(batch, count, start)
                   PROVE  FALSE
        OBVIOUS
      <4>1. IsLine(Reverse(c), count, batch) /\ Reverse(c)[1] = t
        BY <2>4, ChainIsLine
      <4> QED  BY <3>1, <4>1
    <3>3. s.why # None
      BY <2>2, <2>7 DEF SelectionOf, NoSelection
    <3> QED  BY <3>2, <3>3 DEF s
  <2>8. CASE w.why = None
    <3>1. IsLine(w.line, count, batch) /\ w.line[1] = t
      BY <2>6, <2>8
    <3>2. Chains(batch, count, start) # {}
      BY <2>4, <3>1, LineIsChain
    <3>3. s = Selected(w.line, start)
      BY <2>2, <2>8, Zenon DEF SelectionOf, Selected
    <3>4. s.why = None
      BY <3>3 DEF Selected
    <3>5. \E l : /\ IsLine(l, count, batch) /\ l[1] \in Connected(batch, start)
                 /\ s = Selected(l, start)
      BY <2>4, <3>1, <3>3
    <3> QED  BY <1>2, <3>2, <3>4, <3>5 DEF s
  <2> QED  BY <2>7, <2>8
<1> QED  BY <1>1, <1>2

\* The members are collected one after the other.
LEMMA AmongFollows ==
    ASSUME NEW s, Len(s) \in Nat, NEW kept
    PROVE  \E g : /\ Among(s, kept) = g[Len(s)]
                  /\ g[0] = <<>>
                  /\ \A n \in 0..(Len(s) - 1) :
                        g[n + 1] = IF s[n + 1] \in kept THEN Append(g[n], s[n + 1]) ELSE g[n]
<1> DEFINE step(v, i) == IF s[i] \in kept THEN Append(v, s[i]) ELSE v
           first == <<>>
           Upto(g, n) == g = [i \in 0..n |-> IF i = 0 THEN first ELSE step(g[i - 1], i)]
           N == {n \in Nat : \E g : Upto(g, n)}
           g == CHOOSE g : Upto(g, Len(s))
<1>1. Among(s, kept) = g[Len(s)]
  BY DEF Among
<1> HIDE DEF step, first
<1>2. 0 \in N
  <2>1. Upto([i \in 0..0 |-> first], 0)
    OBVIOUS
  <2> QED  BY <2>1
<1>3. ASSUME NEW n \in N
      PROVE  n + 1 \in N
  <2>1. PICK f : Upto(f, n)
    OBVIOUS
  <2> DEFINE h == [i \in 0..(n + 1) |-> IF i = n + 1 THEN step(f[n], n + 1) ELSE f[i]]
  <2>2. ASSUME NEW i \in 0..(n + 1)
        PROVE  h[i] = IF i = 0 THEN first ELSE step(h[i - 1], i)
    <3>1. CASE i = n + 1
      <4>1. h[i] = step(f[n], n + 1) /\ h[i - 1] = f[n] /\ i # 0
        BY <3>1
      <4> QED  BY <3>1, <4>1
    <3>2. CASE i \in 1..n
      <4>1. h[i] = f[i] /\ h[i - 1] = f[i - 1] /\ i # 0
        BY <3>2
      <4>2. f[i] = step(f[i - 1], i)
        BY <2>1, <3>2
      <4> QED  BY <4>1, <4>2
    <3>3. CASE i = 0
      <4>1. h[i] = f[i] /\ f[i] = first
        BY <2>1, <3>3
      <4> QED  BY <3>3, <4>1
    <3> QED  BY <3>1, <3>2, <3>3
  <2>3. Upto(h, n + 1)
    <3>1. h = [i \in 0..(n + 1) |-> h[i]]
      OBVIOUS
    <3> HIDE DEF h
    <3> QED  BY <2>2, <3>1
  <2> HIDE DEF h, Upto
  <2> QED  BY <2>3
<1> HIDE DEF N
<1>4. N = Nat
  <2>1. N \in SUBSET Nat
    BY DEF N
  <2> QED  BY <1>2, <1>3, <2>1, Induction
<1>5. Upto(g, Len(s))
  <2>1. \E f : Upto(f, Len(s))
    BY <1>4 DEF N
  <2> HIDE DEF Upto
  <2> QED  BY <2>1
<1> HIDE DEF g
<1>6. g[0] = first
  BY <1>5
<1>7. ASSUME NEW n \in 0..(Len(s) - 1)
      PROVE  g[n + 1] = step(g[n], n + 1)
  <2>1. n + 1 \in 0..Len(s) /\ n + 1 # 0 /\ (n + 1) - 1 = n
    OBVIOUS
  <2> QED  BY <1>5, <2>1
<1> HIDE DEF Upto
<1> QED  BY <1>1, <1>6, <1>7 DEF step, first

\* What is kept of the first n members.
KeptOf(q, s, kept, n) ==
    /\ q \in Seq(kept) /\ Len(q) \in 0..n
    /\ {q[j] : j \in 1..Len(q)} = {s[i] : i \in {k \in 1..n : s[k] \in kept}}
    /\ n > 0 /\ s[1] \in kept => Len(q) > 0 /\ q[1] = s[1]
    /\ n > 0 /\ s[n] \in kept => Len(q) > 0 /\ q[Len(q)] = s[n]
    /\ (\A i, j \in 1..n : s[i] = s[j] => i = j) =>
          \A i, j \in 1..Len(q) : q[i] = q[j] => i = j

LEMMA KeptNext ==
    ASSUME NEW s, NEW kept, NEW n \in Nat, NEW q, KeptOf(q, s, kept, n),
           NEW r, r = IF s[n + 1] \in kept THEN Append(q, s[n + 1]) ELSE q
    PROVE  KeptOf(r, s, kept, n + 1)
<1> DEFINE I(m) == {k \in 1..m : s[k] \in kept}
<1>1. CASE s[n + 1] \notin kept
  <2>1. I(n + 1) = I(n) /\ r = q
    BY <1>1
  <2>2. {q[j] : j \in 1..Len(q)} = {s[i] : i \in {k \in 1..n : s[k] \in kept}}
    BY DEF KeptOf
  <2>3. {k \in 1..(n + 1) : s[k] \in kept} = {k \in 1..n : s[k] \in kept}
    BY <2>1
  <2>4. {r[j] : j \in 1..Len(r)} = {s[i] : i \in {k \in 1..(n + 1) : s[k] \in kept}}
    BY <2>1, <2>2, <2>3
  <2>5. n + 1 > 0 /\ s[1] \in kept => Len(r) > 0 /\ r[1] = s[1]
    BY <1>1, <2>1 DEF KeptOf
  <2>6. (\A i, j \in 1..(n + 1) : s[i] = s[j] => i = j) =>
            \A i, j \in 1..Len(r) : r[i] = r[j] => i = j
    BY <2>1 DEF KeptOf
  <2>7. r \in Seq(kept) /\ Len(r) \in 0..(n + 1)
    BY <2>1 DEF KeptOf
  <2> QED  BY <1>1, <2>4, <2>5, <2>6, <2>7, Zenon DEF KeptOf
<1>2. CASE s[n + 1] \in kept
  <2> DEFINE x == s[n + 1]
             l == Len(q)
  <2>1. r = Append(q, x) /\ q \in Seq(kept) /\ l \in Nat /\ l <= n
    BY <1>2 DEF KeptOf
  <2>2. /\ r \in Seq(kept) /\ Len(r) = l + 1 /\ r[l + 1] = x
        /\ \A i \in 1..l : r[i] = q[i]
    BY <1>2, <2>1
  <2>3. I(n + 1) = I(n) \cup {n + 1}
    BY <1>2
  <2>4. {q[j] : j \in 1..l} = {s[i] : i \in I(n)}
    BY DEF KeptOf
  <2> HIDE DEF l
  <2>5. {r[j] : j \in 1..(l + 1)} = {q[j] : j \in 1..l} \cup {x}
    BY <2>1, <2>2
  <2>6. {s[i] : i \in I(n + 1)} = {s[i] : i \in I(n)} \cup {x}
    <3> HIDE DEF I
    <3> QED  BY <2>3
  <2>7. s[1] \in kept => r[1] = s[1]
    <3>1. CASE n = 0
      <4>1. l = 0
        BY <2>1, <3>1
      <4> QED  BY <2>2, <3>1, <4>1
    <3>2. CASE n > 0
      <4>1. s[1] \in kept => l > 0 /\ q[1] = s[1]
        BY <3>2 DEF KeptOf, l
      <4> QED  BY <2>1, <2>2, <4>1
    <3> QED  BY <3>1, <3>2
  <2>8. ASSUME \A i, j \in 1..(n + 1) : s[i] = s[j] => i = j
        PROVE  \A i, j \in 1..(l + 1) : r[i] = r[j] => i = j
    <3>1. \A i, j \in 1..l : q[i] = q[j] => i = j
      BY <2>8 DEF KeptOf, l
    <3>2. \A i \in 1..l : q[i] # x
      <4> SUFFICES ASSUME NEW i \in 1..l, q[i] = x
                   PROVE  FALSE
        OBVIOUS
      <4>1. PICK k \in I(n) : s[k] = x
        BY <2>4
      <4> QED  BY <2>8, <4>1
    <3> QED  BY <2>1, <2>2, <3>1, <3>2
  <2>9. Len(r) \in 0..(n + 1) /\ Len(r) > 0
    BY <2>1, <2>2
  <2> HIDE DEF I, x
  <2>10. {r[j] : j \in 1..Len(r)} = {s[i] : i \in I(n + 1)}
    BY <2>2, <2>4, <2>5, <2>6
  <2>11. r[Len(r)] = s[n + 1]
    BY <2>1, <2>2 DEF x
  <2>12. /\ n + 1 > 0 /\ s[1] \in kept => Len(r) > 0 /\ r[1] = s[1]
         /\ n + 1 > 0 /\ s[n + 1] \in kept => Len(r) > 0 /\ r[Len(r)] = s[n + 1]
    BY <2>7, <2>9, <2>11
  <2>13. (\A i, j \in 1..(n + 1) : s[i] = s[j] => i = j) =>
            \A i, j \in 1..Len(r) : r[i] = r[j] => i = j
    BY <2>2, <2>8
  <2>14. {r[j] : j \in 1..Len(r)} = {s[i] : i \in {k \in 1..(n + 1) : s[k] \in kept}}
    BY <2>10, Zenon DEF I
  <2>15. r \in Seq(kept) /\ Len(r) \in 0..(n + 1)
    BY <2>2, <2>9
  <2> QED  BY <2>12, <2>13, <2>14, <2>15, Zenon DEF KeptOf
<1> QED  BY <1>1, <1>2

LEMMA AmongKeeps ==
    ASSUME NEW s, Len(s) \in Nat, NEW kept
    PROVE  KeptOf(Among(s, kept), s, kept, Len(s))
<1>1. PICK g : /\ Among(s, kept) = g[Len(s)]
               /\ g[0] = <<>>
               /\ \A n \in 0..(Len(s) - 1) :
                     g[n + 1] = IF s[n + 1] \in kept THEN Append(g[n], s[n + 1]) ELSE g[n]
  BY AmongFollows
<1> DEFINE N == {n \in Nat : n <= Len(s) => KeptOf(g[n], s, kept, n)}
<1>2. 0 \in N
  <2>1. /\ <<>> \in Seq(kept) /\ Len(<<>>) = 0 /\ 1..0 = {}
        /\ {k \in 1..0 : s[k] \in kept} = {}
    OBVIOUS
  <2>2. /\ {<<>>[j] : j \in 1..Len(<<>>)} = {}
        /\ {s[i] : i \in {k \in 1..0 : s[k] \in kept}} = {}
    BY <2>1
  <2>3. KeptOf(<<>>, s, kept, 0)
    BY <2>1, <2>2 DEF KeptOf
  <2> QED  BY <1>1, <2>3
<1>3. ASSUME NEW n \in N
      PROVE  n + 1 \in N
  <2> SUFFICES ASSUME n + 1 <= Len(s)
               PROVE  KeptOf(g[n + 1], s, kept, n + 1)
    OBVIOUS
  <2>1. n \in 0..(Len(s) - 1) /\ KeptOf(g[n], s, kept, n)
    OBVIOUS
  <2>2. g[n + 1] = IF s[n + 1] \in kept THEN Append(g[n], s[n + 1]) ELSE g[n]
    BY <1>1, <2>1
  <2> QED  BY <2>1, <2>2, KeptNext
<1> HIDE DEF N
<1>4. N = Nat
  <2>1. N \in SUBSET Nat
    BY DEF N
  <2> QED  BY <1>2, <1>3, <2>1, Induction
<1> QED  BY <1>1, <1>4 DEF N

\* The second case applies when the first does not.
LEMMA SecondMatch ==
    ASSUME NEW cases, NEW n \in Nat, DOMAIN cases = 1..n, 2 \in 1..n, ~cases[1][1], cases[2][1]
    PROVE  FirstMatch(cases) = cases[2][2]
<1> DEFINE A == {i \in DOMAIN cases : cases[i][1]}
<1>1. FirstMatch(cases) = IF A = {} THEN None ELSE cases[Min(A)][2]
  BY DEF FirstMatch
<1>2. A \subseteq 1..n /\ 1 \notin A /\ 2 \in A
  <2>1. 1 \in DOMAIN cases /\ 2 \in DOMAIN cases /\ A \subseteq DOMAIN cases
    OBVIOUS
  <2>2. 1 \notin A /\ 2 \in A
    BY <2>1, Zenon
  <2> QED  BY <2>1, <2>2
<1> HIDE DEF A
<1>3. Min(A) = 2
  <2>1. \A i \in A : i \in Int /\ 2 <= i
    BY <1>2
  <2>2. \A i \in A : (\A j \in A : i <= j) <=> i = 2
    BY <1>2, <2>1
  <2> QED  BY <1>2, <2>2 DEF Min
<1> QED  BY <1>1, <1>2, <1>3

\* The processes the reconstruction of the extractor looks at, its turns on them
\* and the line it has after n of them.
Indexed(batch, terminal) == {e \in batch : Eligible(e, terminal)}

Turns(g, r, indexed, anchor, terminal) ==
    /\ r = [g[Cardinality(indexed) + 1] EXCEPT !.line = Reverse(@)]
    /\ g[0] = [line |-> <<terminal>>, status |-> None]
    /\ \A n \in 0..Cardinality(indexed) :
          g[n + 1] = IF g[n].status # None THEN g[n] ELSE Reconstruct(g[n], indexed, anchor)

UpTo(l, n) == [line |-> [i \in 1..n |-> l[i]], status |-> None]

\* The reconstruction of the extractor takes its turns.
LEMMA TurnsFollow ==
    ASSUME NEW batch, NEW anchor, NEW terminal, Cardinality(Indexed(batch, terminal)) \in Nat
    PROVE  \E g : Turns(g, ReconstructLineage(batch, anchor, terminal), Indexed(batch, terminal),
                        anchor, terminal)
<1> DEFINE indexed == Indexed(batch, terminal)
           k == Cardinality(indexed)
<1> HIDE DEF indexed, k
<1> DEFINE step(w) == IF w.status # None THEN w ELSE Reconstruct(w, indexed, anchor)
           first == [line |-> <<terminal>>, status |-> None]
           Upto(g, n) == g = [i \in 0..n |-> IF i = 0 THEN first ELSE step(g[i - 1])]
           N == {n \in Nat : \E g : Upto(g, n)}
           g == CHOOSE g : Upto(g, k + 1)
<1>1. ReconstructLineage(batch, anchor, terminal) = [g[k + 1] EXCEPT !.line = Reverse(@)]
  BY Zenon DEF ReconstructLineage, Indexed, indexed, k
<1> HIDE DEF step, first
<1>8. k \in Nat
  BY DEF k, indexed
<1>2. 0 \in N
  <2>1. Upto([i \in 0..0 |-> first], 0)
    OBVIOUS
  <2> QED  BY <2>1
<1>3. ASSUME NEW n \in N
      PROVE  n + 1 \in N
  <2>1. PICK f : Upto(f, n)
    OBVIOUS
  <2> DEFINE h == [i \in 0..(n + 1) |-> IF i = n + 1 THEN step(f[n]) ELSE f[i]]
  <2>2. ASSUME NEW i \in 0..(n + 1)
        PROVE  h[i] = IF i = 0 THEN first ELSE step(h[i - 1])
    <3>1. CASE i = n + 1
      <4>1. h[i] = step(f[n]) /\ h[i - 1] = f[n] /\ i # 0
        BY <3>1
      <4> QED  BY <3>1, <4>1
    <3>2. CASE i \in 1..n
      <4>1. h[i] = f[i] /\ h[i - 1] = f[i - 1] /\ i # 0
        BY <3>2
      <4>2. f[i] = step(f[i - 1])
        BY <2>1, <3>2
      <4> QED  BY <4>1, <4>2
    <3>3. CASE i = 0
      <4>1. h[i] = f[i] /\ f[i] = first
        BY <2>1, <3>3
      <4> QED  BY <3>3, <4>1
    <3> QED  BY <3>1, <3>2, <3>3
  <2>3. Upto(h, n + 1)
    <3>1. h = [i \in 0..(n + 1) |-> h[i]]
      OBVIOUS
    <3> HIDE DEF h
    <3> QED  BY <2>2, <3>1
  <2> HIDE DEF h, Upto
  <2> QED  BY <2>3
<1> HIDE DEF N
<1>4. N = Nat
  <2>1. N \in SUBSET Nat
    BY DEF N
  <2> QED  BY <1>2, <1>3, <2>1, Induction
<1>5. Upto(g, k + 1)
  <2> HIDE DEF Upto
  <2>1. k + 1 \in N
    BY <1>4, <1>8
  <2>2. \E f : Upto(f, k + 1)
    BY <2>1 DEF N
  <2> QED  BY <2>2
<1> HIDE DEF g
<1>6. g[0] = first
  BY <1>5, <1>8
<1>7. ASSUME NEW n \in 0..k
      PROVE  g[n + 1] = step(g[n])
  <2>1. n + 1 \in 0..(k + 1) /\ n + 1 # 0 /\ (n + 1) - 1 = n
    BY <1>8
  <2> QED  BY <1>5, <2>1
<1> HIDE DEF Upto
<1> QED  BY <1>1, <1>6, <1>7, Zenon DEF step, first, Turns, indexed, k

\* A turn goes on to the parent below the anchor, and ends at it.
LEMMA TurnIsParent ==
    ASSUME NEW batch, NEW start, ToldApart(batch, start), IsBatch(batch), NEW count \in Nat \ {0},
           NEW l, IsLine(l, count, batch), NEW n \in 1..count
    PROVE  Reconstruct(UpTo(l, n), Processes(batch), l[count]) =
             IF n = count THEN [line |-> l, status |-> "complete"] ELSE UpTo(l, n + 1)
<1> DEFINE w == UpTo(l, n)
           current == Last(w.line)
           same(g) == {e \in Processes(batch) : e.guid = g}
           parents == same(current.parent)
           a1 == Cardinality(same(current.guid)) > 1
           a2 == current.guid = l[count].guid
           a3 == current.parent = None
           a4 == \E i \in DOMAIN w.line : w.line[i].guid = current.parent
           a5 == Cardinality(parents) > 1
           a6 == parents = {} \/ \E p \in parents : current.time < p.time
           c == <<<<a1, "duplicate_process_guid">>, <<a2, "complete">>, <<a3, "truncated_lineage">>,
                  <<a4, "lineage_cycle">>, <<a5, "duplicate_process_guid">>,
                  <<a6, "truncated_lineage">>>>
           status == FirstMatch(c)
           v == Reconstruct(w, Processes(batch), l[count])
<1>1. v = IF status # None THEN [w EXCEPT !.status = status]
          ELSE [w EXCEPT !.line = Append(@, CHOOSE p \in parents : TRUE)]
  BY Zenon DEF Reconstruct
<1>2. /\ status = None <=> ~a1 /\ ~a2 /\ ~a3 /\ ~a4 /\ ~a5 /\ ~a6
      /\ ~a1 /\ a2 => status = "complete"
  <2>1. /\ a1 \in BOOLEAN /\ a2 \in BOOLEAN /\ a3 \in BOOLEAN /\ a4 \in BOOLEAN
        /\ a5 \in BOOLEAN /\ a6 \in BOOLEAN
    OBVIOUS
  <2> HIDE DEF a1, a2, a3, a4, a5, a6
  <2>2. /\ DOMAIN c = 1..6 /\ c[1] = <<a1, "duplicate_process_guid">> /\ c[2] = <<a2, "complete">>
        /\ c[3] = <<a3, "truncated_lineage">> /\ c[4] = <<a4, "lineage_cycle">>
        /\ c[5] = <<a5, "duplicate_process_guid">> /\ c[6] = <<a6, "truncated_lineage">>
    OBVIOUS
  <2> HIDE DEF c
  <2>3. \A i \in 1..6 : c[i][2] # None
    BY <2>2, NoneIsNoDiagnostic
  <2>4. status = None <=> \A i \in 1..6 : ~c[i][1]
    BY <2>2, <2>3, FirstMatchNone
  <2>5. /\ c[1][1] = a1 /\ c[2][1] = a2 /\ c[3][1] = a3 /\ c[4][1] = a4 /\ c[5][1] = a5
        /\ c[6][1] = a6 /\ c[2][2] = "complete"
    BY <2>1, <2>2
  <2>6. status = None <=> ~c[1][1] /\ ~c[2][1] /\ ~c[3][1] /\ ~c[4][1] /\ ~c[5][1] /\ ~c[6][1]
    BY <2>4
  <2>7. ~a1 /\ a2 => status = "complete"
    <3> SUFFICES ASSUME ~a1, a2
                 PROVE  status = "complete"
      OBVIOUS
    <3>1. ~c[1][1] /\ c[2][1] /\ 6 \in Nat /\ 2 \in 1..6
      BY <2>5
    <3>2. FirstMatch(c) = c[2][2]
      BY <2>2, <3>1, SecondMatch
    <3> QED  BY <2>5, <3>2
  <2> QED  BY <2>5, <2>6, <2>7
<1>3. /\ l = [i \in 1..count |-> l[i]] /\ \A i \in 1..count : l[i] \in Processes(batch)
      /\ \A i, j \in 1..count : i # j => l[i].guid # l[j].guid
      /\ \A i \in 1..(count - 1) : l[i].parent = l[i + 1].guid /\ l[i + 1].time <= l[i].time
  BY DEF IsLine
<1> DEFINE pre == [i \in 1..n |-> l[i]]
<1>4. Len(pre) = n /\ pre \in Seq(Processes(batch)) /\ \A i \in 1..n : pre[i] = l[i]
  <2>1. \A i \in 1..n : l[i] \in Processes(batch)
    BY <1>3
  <2> QED  BY <2>1
<1>5. w.line = pre /\ w.status = None /\ w = [line |-> pre, status |-> None]
  BY DEF UpTo
<1> HIDE DEF pre, v, status, w
<1>6. current = l[n] /\ DOMAIN w.line = 1..n
  BY <1>4, <1>5 DEF Last
<1>7. \A i \in 1..count : same(l[i].guid) = {l[i]}
  BY <1>3 DEF ToldApart
<1>8. ~a1
  <2>1. same(current.guid) = {l[n]}
    BY <1>6, <1>7
  <2>2. Cardinality({l[n]}) = 1
    BY FS_Singleton
  <2>3. ~(1 > 1)
    OBVIOUS
  <2> QED  BY <2>1, <2>2, <2>3, Zenon
<1>9. CASE n = count
  <2>1. status = "complete"
    BY <1>2, <1>6, <1>8, <1>9
  <2>2. pre = l
    BY <1>3, <1>9 DEF pre
  <2>3. v = [line |-> l, status |-> "complete"]
    BY <1>1, <1>5, <2>1, <2>2, NoneIsNoDiagnostic
  <2> QED  BY <1>9, <2>3 DEF v, w
<1>10. CASE n # count
  <2>1. n \in 1..(count - 1) /\ n + 1 \in 1..count
    BY <1>10
  <2>2. current.parent = l[n + 1].guid /\ l[n + 1].time <= current.time
    BY <1>3, <1>6, <2>1
  <2>3. parents = {l[n + 1]}
    BY <1>7, <2>1, <2>2
  <2>4. ~a2
    BY <1>3, <1>6, <1>10
  <2>5. ~a3
    BY <1>3, <2>1, <2>2 DEF ToldApart
  <2>6. ~a4
    <3> SUFFICES ASSUME NEW i \in 1..n, l[i].guid = l[n + 1].guid
                 PROVE  FALSE
      BY <1>4, <1>5, <1>6, <2>2
    <3> QED  BY <1>3, <2>1
  <2>7. ~a5
    <3>1. Cardinality({l[n + 1]}) = 1
      BY FS_Singleton
    <3>2. ~(1 > 1)
      OBVIOUS
    <3> QED  BY <2>3, <3>1, <3>2, Zenon
  <2>8. ~a6
    <3>1. l[n + 1].time \in Int /\ current.time \in Int
      BY <1>3, <1>6, <2>1 DEF IsBatch, Processes
    <3> QED  BY <2>2, <2>3, <3>1
  <2>9. status = None
    BY <1>2, <1>8, <2>4, <2>5, <2>6, <2>7, <2>8
  <2>10. (CHOOSE p \in parents : TRUE) = l[n + 1]
    BY <2>3
  <2>11. v = [line |-> Append(pre, l[n + 1]), status |-> None]
    BY <1>1, <1>5, <2>9, <2>10
  <2>12. Append(pre, l[n + 1]) = [i \in 1..(n + 1) |-> l[i]]
    <3>1. l[n + 1] \in Processes(batch)
      BY <1>3, <2>1
    <3> QED  BY <1>4, <3>1
  <2>13. v = UpTo(l, n + 1)
    BY <2>11, <2>12, Zenon DEF UpTo
  <2> QED  BY <1>10, <2>13 DEF v, w
<1> QED  BY <1>9, <1>10

\* The extractor reconstructs the line the selector walked.
LEMMA ReconstructedIsLine ==
    ASSUME NEW batch, NEW start, ToldApart(batch, start), IsBatch(batch), NEW count \in Nat \ {0},
           NEW l, IsLine(l, count, batch)
    PROVE  /\ ReconstructLineage(batch, l[count], l[1]) = [line |-> Reverse(l), status |-> "complete"]
           /\ \A i \in 1..count : Eligible(l[i], l[1])
<1> DEFINE P == Processes(batch)
           k == Cardinality(P)
<1>1. /\ l = [i \in 1..count |-> l[i]] /\ \A i \in 1..count : l[i] \in P
      /\ \A i, j \in 1..count : i # j => l[i].guid # l[j].guid
  BY DEF IsLine
<1>2. \A e \in P : Eligible(e, l[1])
  <2>1. l[1] \in P
    BY <1>1
  <2> QED  BY <2>1 DEF Eligible, IsBatch, ToldApart, Processes
<1>3. P = {e \in batch : Eligible(e, l[1])}
  BY <1>2 DEF Eligible, Processes
<1>4. IsFiniteSet(P) /\ k \in Nat
  <2>1. P \subseteq batch
    BY DEF Processes
  <2> HIDE DEF P
  <2> QED  BY <2>1, FS_Subset, FS_CardinalityType DEF IsBatch
<1>5. count <= k
  <2>1. l \in Injection(1..count, P)
    BY <1>1 DEF Injection, IsInjective
  <2>2. Cardinality(1..count) = count
    BY FS_Interval
  <2> HIDE DEF P
  <2> QED  BY <1>4, <2>1, <2>2, FS_Injection
<1> HIDE DEF k
<1>6. PICK g : Turns(g, ReconstructLineage(batch, l[count], l[1]), P, l[count], l[1])
  <2>1. P = Indexed(batch, l[1])
    BY <1>3 DEF Indexed
  <2>2. Cardinality(Indexed(batch, l[1])) \in Nat
    BY <1>4, <2>1 DEF k
  <2> HIDE DEF P
  <2>3. \E h : Turns(h, ReconstructLineage(batch, l[count], l[1]), Indexed(batch, l[1]), l[count],
                     l[1])
    BY <2>2, TurnsFollow
  <2> QED  BY <2>1, <2>3
<1> HIDE DEF P
<1>12. /\ ReconstructLineage(batch, l[count], l[1]) = [g[k + 1] EXCEPT !.line = Reverse(@)]
       /\ g[0] = [line |-> <<l[1]>>, status |-> None]
       /\ \A n \in 0..k : g[n + 1] = IF g[n].status # None THEN g[n]
                                       ELSE Reconstruct(g[n], P, l[count])
  BY <1>6, Zenon DEF Turns, k
<1> DEFINE At(n) == IF n < count THEN UpTo(l, n + 1) ELSE [line |-> l, status |-> "complete"]
           N == {n \in Nat : n <= k + 1 => g[n] = At(n)}
<1>7. 0 \in N
  <2>1. [i \in 1..(0 + 1) |-> l[i]] = <<l[1]>>
    OBVIOUS
  <2>2. UpTo(l, 0 + 1) = [line |-> <<l[1]>>, status |-> None]
    BY <2>1, Zenon DEF UpTo
  <2> QED  BY <1>12, <2>2
<1>8. ASSUME NEW n \in N
      PROVE  n + 1 \in N
  <2> SUFFICES ASSUME n + 1 <= k + 1
               PROVE  g[n + 1] = At(n + 1)
    <3> HIDE DEF At
    <3> QED  OBVIOUS
  <2>1. n \in 0..k /\ g[n] = At(n)
    <3> HIDE DEF At
    <3> QED  BY <1>4
  <2>2. g[n + 1] = IF g[n].status # None THEN g[n] ELSE Reconstruct(g[n], P, l[count])
    BY <1>12, <2>1
  <2>3. CASE n < count
    <3>1. g[n] = UpTo(l, n + 1) /\ n + 1 \in 1..count
      BY <2>1, <2>3
    <3>2. g[n].status = None
      BY <3>1 DEF UpTo
    <3>3. g[n + 1] = Reconstruct(UpTo(l, n + 1), Processes(batch), l[count])
      BY <2>2, <3>1, <3>2 DEF P
    <3>4. \A m \in 1..count : Reconstruct(UpTo(l, m), Processes(batch), l[count]) =
             IF m = count THEN [line |-> l, status |-> "complete"] ELSE UpTo(l, m + 1)
      BY TurnIsParent
    <3>5. Reconstruct(UpTo(l, n + 1), Processes(batch), l[count]) =
             IF n + 1 = count THEN [line |-> l, status |-> "complete"] ELSE UpTo(l, (n + 1) + 1)
      BY <3>1, <3>4
    <3>6. n + 1 < count <=> n + 1 # count
      BY <3>1
    <3> QED  BY <3>3, <3>5, <3>6
  <2>4. CASE ~(n < count)
    <3>1. g[n] = [line |-> l, status |-> "complete"] /\ ~(n + 1 < count)
      BY <2>1, <2>4
    <3>2. g[n].status # None
      BY <3>1, NoneIsNoDiagnostic
    <3> QED  BY <2>2, <3>1, <3>2
  <2> QED  BY <2>3, <2>4
<1> HIDE DEF N
<1>9. N = Nat
  <2>1. N \in SUBSET Nat
    BY DEF N
  <2> QED  BY <1>7, <1>8, <2>1, Induction
<1>10. g[k + 1] = [line |-> l, status |-> "complete"]
  <2>1. k + 1 \in N /\ ~(k + 1 < count)
    BY <1>4, <1>5, <1>9
  <2> QED  BY <1>4, <2>1 DEF N
<1>11. [g[k + 1] EXCEPT !.line = Reverse(@)] = [line |-> Reverse(l), status |-> "complete"]
  BY <1>10
<1> QED  BY <1>1, <1>2, <1>11, <1>12 DEF P

\* A batch whose processes are told apart, and the line of its terminal.
LineFound(batch, start, count, l) ==
    /\ IsBatch(batch) /\ ToldApart(batch, start) /\ start \in Int /\ count \in Nat \ {0}
    /\ IsLine(l, count, batch) /\ l[1] \in Connected(batch, start)

\* A line goes back in time, by events of their own.
LEMMA LineGoesBack ==
    ASSUME NEW batch, NEW start, NEW count, NEW l, LineFound(batch, start, count, l)
    PROVE  /\ DOMAIN l = 1..count /\ Len(l) = count /\ l = [i \in 1..count |-> l[i]]
           /\ \A i \in 1..count : l[i] \in Processes(batch) /\ l[i] \in batch /\ l[i].time \in Int
           /\ \A i, j \in 1..count : l[i] = l[j] \/ l[i].id = l[j].id => i = j
           /\ \A i, j \in 1..count : i <= j => l[j].time <= l[i].time
           /\ l[1].time >= start
<1>1. /\ l \in Seq(Processes(batch)) /\ Len(l) = count /\ count \in Nat \ {0}
      /\ \A i \in 1..(count - 1) : l[i].parent = l[i + 1].guid /\ l[i + 1].time <= l[i].time
      /\ \A i, j \in 1..count : i # j => l[i].guid # l[j].guid
  BY DEF LineFound, IsLine
<1>2. DOMAIN l = 1..count /\ l = [i \in 1..count |-> l[i]] /\ \A i \in 1..count : l[i] \in Processes(batch)
  BY <1>1
<1>3. \A e \in Processes(batch) : e \in batch /\ e.time \in Int
  BY DEF Processes, LineFound, IsBatch
<1>4. \A i, j \in 1..count : l[i] = l[j] \/ l[i].id = l[j].id => i = j
  <2> SUFFICES ASSUME NEW i \in 1..count, NEW j \in 1..count, l[i] = l[j] \/ l[i].id = l[j].id
               PROVE  i = j
    OBVIOUS
  <2>1. l[i] = l[j]
    BY <1>2, <1>3 DEF LineFound, IsBatch
  <2> QED  BY <1>1, <2>1
<1>5. \A i, j \in 1..count : i <= j => l[j].time <= l[i].time
  <2> DEFINE f == [i \in 1..count |-> 0 - l[i].time]
  <2>1. \A i \in 1..count : f[i] = 0 - l[i].time /\ l[i].time \in Int /\ f[i] \in Int
    BY <1>2, <1>3
  <2>2. ASSUME NEW i \in 2..count
        PROVE  f[i] >= f[i - 1]
    <3>1. i - 1 \in 1..(count - 1) /\ i - 1 \in 1..count /\ i \in 1..count /\ (i - 1) + 1 = i
      BY <1>1
    <3>2. l[i].time <= l[i - 1].time
      BY <1>1, <3>1
    <3> HIDE DEF f
    <3> QED  BY <2>1, <3>1, <3>2
  <2> HIDE DEF f
  <2>3. \A i, j \in 1..count : i <= j => f[i] <= f[j]
    BY <1>1, <2>1, <2>2, NeighboursInOrder
  <2> QED  BY <2>1, <2>3
<1>6. l[1].time >= start
  BY DEF LineFound, Connected
<1> QED  BY <1>1, <1>2, <1>3, <1>4, <1>5, <1>6

LEMMA LineReversed ==
    ASSUME NEW batch, NEW start, NEW count, NEW l, LineFound(batch, start, count, l),
           NEW r, r = Reverse(l)
    PROVE  /\ DOMAIN r = 1..count /\ Len(r) = count /\ \A i \in 1..count : r[i] = l[(count - i) + 1]
           /\ r[1] = l[count] /\ r[count] = l[1] /\ Range(r) = Range(l) /\ Last(r) = l[1]
           /\ \A i, j \in 1..count : r[i] = r[j] => i = j
<1>1. DOMAIN l = 1..count /\ Len(l) = count /\ \A i, j \in 1..count : l[i] = l[j] => i = j
  BY LineGoesBack
<1>2. count \in Nat \ {0}
  BY DEF LineFound
<1>3. r = [i \in 1..count |-> l[(count - i) + 1]]
  BY <1>1 DEF Reverse
<1>4. \A i \in 1..count : (count - i) + 1 \in 1..count /\ (count - ((count - i) + 1)) + 1 = i
  BY <1>2
<1>5. DOMAIN r = 1..count /\ Len(r) = count /\ \A i \in 1..count : r[i] = l[(count - i) + 1]
  BY <1>2, <1>3
<1>6. Range(r) = Range(l)
  <2>1. \A i \in 1..count : \E j \in 1..count : r[i] = l[j]
    BY <1>4, <1>5
  <2>2. \A i \in 1..count : \E j \in 1..count : l[i] = r[j]
    <3> SUFFICES ASSUME NEW i \in 1..count
                 PROVE  \E j \in 1..count : l[i] = r[j]
      OBVIOUS
    <3>1. r[(count - i) + 1] = l[i] /\ (count - i) + 1 \in 1..count
      BY <1>4, <1>5
    <3> QED  BY <3>1
  <2>3. Range(r) = {r[i] : i \in 1..count} /\ Range(l) = {l[i] : i \in 1..count}
    BY <1>1, <1>5, Zenon DEF Range
  <2>4. {r[i] : i \in 1..count} = {l[i] : i \in 1..count}
    BY <2>1, <2>2
  <2> QED  BY <2>3, <2>4
<1>7. \A i, j \in 1..count : r[i] = r[j] => i = j
  <2> SUFFICES ASSUME NEW i \in 1..count, NEW j \in 1..count, r[i] = r[j]
               PROVE  i = j
    OBVIOUS
  <2>1. (count - i) + 1 = (count - j) + 1
    BY <1>1, <1>4, <1>5
  <2> QED  BY <1>2, <2>1
<1>8. r[1] = l[count] /\ r[count] = l[1]
  BY <1>2, <1>5
<1> QED  BY <1>5, <1>6, <1>7, <1>8 DEF Last

\* What is kept of a sequence when all of it is there.
LEMMA AmongIsAll ==
    ASSUME NEW s, NEW n \in Nat \ {0}, DOMAIN s = 1..n, Len(s) = n, NEW kept, kept \subseteq Range(s),
           \A i, j \in 1..n : s[i] = s[j] => i = j
    PROVE  LET q == Among(s, kept)
           IN  /\ q \in Seq(kept) /\ Range(q) = kept /\ DOMAIN q = 1..Len(q) /\ Len(q) \in Nat
               /\ q = <<>> <=> kept = {}
               /\ s[1] \in kept => Len(q) > 0 /\ q[1] = s[1]
               /\ s[n] \in kept => Len(q) > 0 /\ Last(q) = s[n]
               /\ \A i, j \in 1..Len(q) : q[i] = q[j] => i = j
<1> DEFINE q == Among(s, kept)
<1>1. KeptOf(q, s, kept, n)
  BY AmongKeeps
<1> HIDE DEF q
<1>2. /\ q \in Seq(kept) /\ Len(q) \in 0..n
      /\ {q[j] : j \in 1..Len(q)} = {s[i] : i \in {k \in 1..n : s[k] \in kept}}
      /\ s[1] \in kept => Len(q) > 0 /\ q[1] = s[1]
      /\ s[n] \in kept => Len(q) > 0 /\ q[Len(q)] = s[n]
      /\ \A i, j \in 1..Len(q) : q[i] = q[j] => i = j
  BY <1>1, n > 0 DEF KeptOf
<1>3. DOMAIN q = 1..Len(q) /\ Len(q) \in Nat
  BY <1>2
<1>4. {s[i] : i \in {k \in 1..n : s[k] \in kept}} = kept
  BY DEF Range
<1>5. Range(q) = kept
  BY <1>2, <1>3, <1>4 DEF Range
<1>6. q = <<>> <=> kept = {}
  <2>1. q = <<>> <=> Len(q) = 0
    BY <1>2
  <2>2. Len(q) = 0 <=> {q[j] : j \in 1..Len(q)} = {}
    <3>1. ASSUME Len(q) # 0
          PROVE  {q[j] : j \in 1..Len(q)} # {}
      <4>1. 1 \in 1..Len(q)
        BY <1>3, <3>1
      <4>2. q[1] \in {q[j] : j \in 1..Len(q)}
        BY <4>1, Zenon
      <4> QED  BY <4>2
    <3>2. ASSUME Len(q) = 0
          PROVE  {q[j] : j \in 1..Len(q)} = {}
      <4>1. \A j : j \notin 1..0
        OBVIOUS
      <4> QED  BY <3>2, <4>1
    <3> QED  BY <3>1, <3>2
  <2> QED  BY <1>2, <1>4, <2>1, <2>2
<1> QED  BY <1>2, <1>3, <1>5, <1>6 DEF q, Last

\* The part of a line that is not its context.
LateOf(l, context) == Among(Reverse(l), {e \in Range(Reverse(l)) : e.id \notin Range(context)})

\* The members of a line before the start of the Run are the context of the Evidence,
\* the others are what the Evidence of a deviation is made of.
LEMMA LineSplits ==
    ASSUME NEW batch, NEW start, NEW count, NEW l, LineFound(batch, start, count, l),
           NEW context, context = Selected(l, start).context
    PROVE  /\ DOMAIN context = 1..Len(context) /\ Len(context) \in Nat /\ IsInjective(context)
           /\ Range(context) = {e.id : e \in {e \in Range(l) : e.time < start}}
           /\ context # <<>> => context[1] = l[count].id
           /\ l[1].id \notin Range(context)
           /\ Range(context) \subseteq Range(IdSeq(Reverse(l))) \ {l[1].id}
           /\ DOMAIN LateOf(l, context) = 1..Len(LateOf(l, context))
           /\ Len(LateOf(l, context)) \in Nat \ {0} /\ Last(LateOf(l, context)) = l[1]
           /\ Range(LateOf(l, context)) = {e \in Range(l) : e.time >= start}
           /\ context = <<>> => LateOf(l, context)[1] = l[count]
           /\ Range(IdSeq(LateOf(l, context))) \cap Range(context) = {}
<1> DEFINE r == Reverse(l)
           kept == LateOf(l, context)
           early == {e \in Range(l) : e.time < start}
           late == {e \in Range(l) : e.time >= start}
           q == Among(r, early)
<1>1. /\ DOMAIN l = 1..count /\ Len(l) = count
      /\ \A i \in 1..count : l[i] \in batch /\ l[i].time \in Int
      /\ \A i, j \in 1..count : l[i] = l[j] \/ l[i].id = l[j].id => i = j
      /\ \A i, j \in 1..count : i <= j => l[j].time <= l[i].time
      /\ l[1].time >= start /\ count \in Nat \ {0} /\ start \in Int
  <2>1. count \in Nat \ {0} /\ start \in Int
    BY DEF LineFound
  <2> QED  BY <2>1, LineGoesBack
<1>2. /\ DOMAIN r = 1..count /\ Len(r) = count /\ Range(r) = Range(l)
      /\ r[1] = l[count] /\ r[count] = l[1] /\ \A i, j \in 1..count : r[i] = r[j] => i = j
  BY LineReversed
<1>3. Range(l) = {l[i] : i \in 1..count} /\ l[1] \in Range(l) /\ l[count] \in Range(l)
  BY <1>1 DEF Range
<1>4. \A e \in Range(l) : e.time \in Int /\ l[count].time <= e.time
  BY <1>1, <1>3
<1>5. \A e, x \in Range(l) : e.id = x.id => e = x
  BY <1>1, <1>3
<1> HIDE DEF r
<1>6. early \subseteq Range(r) /\ l[1] \notin early /\ l[1] \in late
  BY <1>1, <1>2, <1>3
<1>7. context = IdSeq(q)
  BY Zenon DEF Selected, r
<1>8. /\ Range(q) = early /\ DOMAIN q = 1..Len(q) /\ Len(q) \in Nat
      /\ q = <<>> <=> early = {}
      /\ r[1] \in early => Len(q) > 0 /\ q[1] = r[1]
      /\ \A i, j \in 1..Len(q) : q[i] = q[j] => i = j
  <2> HIDE DEF early
  <2> QED  BY <1>1, <1>2, <1>6, AmongIsAll
<1>9. q \in Seq(early)
  <2> HIDE DEF early
  <2> QED  BY <1>1, <1>2, <1>6, AmongIsAll
<1> HIDE DEF q
<1>10. DOMAIN context = 1..Len(q) /\ Len(context) = Len(q) /\ \A i \in 1..Len(q) : context[i] = q[i].id
  BY <1>7, <1>8 DEF IdSeq
<1>11. \A i \in 1..Len(q) : q[i] \in early
  BY <1>8, <1>9
<1>12. Range(context) = {e.id : e \in early}
  <2>1. Range(context) = {q[i].id : i \in 1..Len(q)}
    BY <1>10 DEF Range
  <2>2. early = {q[i] : i \in 1..Len(q)}
    BY <1>8 DEF Range
  <2> HIDE DEF early
  <2> QED  BY <2>1, <2>2
<1>13. IsInjective(context)
  <2>1. \A i, j \in 1..Len(q) : q[i].id = q[j].id => i = j
    BY <1>5, <1>8, <1>11
  <2> QED  BY <1>10, <2>1 DEF IsInjective
<1>14. context = <<>> <=> early = {}
  <2>1. context = <<>> <=> Len(q) = 0
    BY <1>7, <1>8, <1>10 DEF IdSeq
  <2>2. q = <<>> <=> Len(q) = 0
    BY <1>8, <1>9
  <2> QED  BY <1>8, <2>1, <2>2
<1>15. early # {} => l[count] \in early
  BY <1>1, <1>3, <1>4
<1>16. context # <<>> => context[1] = l[count].id
  BY <1>2, <1>8, <1>10, <1>14, <1>15
<1>17. \A e \in Range(l) : e.id \in Range(context) <=> e \in early
  BY <1>5, <1>12
<1>18. {e \in Range(r) : e.id \notin Range(context)} = late
  BY <1>1, <1>2, <1>4, <1>17
<1>19. kept = Among(r, late)
  BY <1>18 DEF r, LateOf
<1> HIDE DEF kept
<1>20. late \subseteq Range(r)
  BY <1>2
<1>21. /\ Range(kept) = late /\ DOMAIN kept = 1..Len(kept) /\ Len(kept) \in Nat
       /\ r[1] \in late => kept[1] = r[1]
       /\ r[count] \in late => Len(kept) > 0 /\ Last(kept) = r[count]
  <2> HIDE DEF late
  <2> QED  BY <1>1, <1>2, <1>19, <1>20, AmongIsAll
<1>22. Len(kept) \in Nat \ {0} /\ Last(kept) = l[1]
  BY <1>2, <1>6, <1>21
<1>23. context = <<>> => kept[1] = l[count]
  BY <1>2, <1>3, <1>4, <1>14, <1>1, <1>21
<1>24. Range(context) \subseteq Range(IdSeq(r)) \ {l[1].id}
  <2>1. Range(IdSeq(r)) = {e.id : e \in Range(l)}
    <3>1. Range(IdSeq(r)) = {r[i].id : i \in 1..count}
      BY <1>2 DEF Range, IdSeq
    <3>2. Range(r) = {r[i] : i \in 1..count}
      BY <1>2 DEF Range
    <3> QED  BY <1>2, <3>1, <3>2
  <2>2. l[1].id \notin Range(context)
    BY <1>3, <1>6, <1>17
  <2> QED  BY <1>12, <2>1, <2>2
<1>25. Range(IdSeq(kept)) \cap Range(context) = {}
  <2>1. Range(IdSeq(kept)) = {kept[i].id : i \in 1..Len(kept)} /\ late = {kept[i] : i \in 1..Len(kept)}
    BY <1>21 DEF Range, IdSeq
  <2>2. \A e \in late : e.id \notin Range(context)
    BY <1>1, <1>4, <1>17
  <2> QED  BY <2>1, <2>2
<1>26. l[1].id \notin Range(context)
  BY <1>24
<1> QED  BY <1>10, <1>8, <1>12, <1>13, <1>16, <1>21, <1>22, <1>23, <1>24, <1>25, <1>26 DEF r, kept

LEMMA NamedIsEvent ==
    ASSUME NEW batch, IsBatch(batch), NEW e \in batch
    PROVE  EventNamed(batch, e.id) = e
BY DEF EventNamed, IsBatch

\* The latest of times of which one is the latest.
LEMMA LatestIs ==
    ASSUME NEW T, NEW t \in T, \A x \in T : x \in Int /\ x <= t
    PROVE  Max(T) = t
<1>1. \A x \in T : (\A y \in T : x >= y) <=> x = t
  OBVIOUS
<1> QED  BY <1>1 DEF Max

\* A connection of the terminal as Evidence.
FollowOn(t, n) == EvidenceOf("follow_on", t, <<t, n>>, None)

LEMMA FollowOnIs ==
    ASSUME NEW t, NEW n, t.time \in Int, n.time \in Int, t.time <= n.time
    PROVE  /\ FollowOn(t, n) = [id |-> <<"follow_on", t.run, {t.id, n.id}, None>>,
                                type |-> "follow_on", run |-> t.run, entity |-> t.host,
                                time |-> n.time, events |-> <<t.id, n.id>>, policy |-> None]
           /\ Range(<<t.id, n.id>>) = {t.id, n.id}
<1> DEFINE q == <<t, n>>
<1>1. DOMAIN q = 1..2 /\ q[1] = t /\ q[2] = n
  OBVIOUS
<1> HIDE DEF q
<1>2. Range(q) = {t, n}
  <2>1. Range(q) = {q[i] : i \in 1..2}
    BY <1>1 DEF Range
  <2>2. \A i : i \in 1..2 <=> i = 1 \/ i = 2
    OBVIOUS
  <2> QED  BY <1>1, <2>1, <2>2
<1>3. {e.id : e \in Range(q)} = {t.id, n.id} /\ {e.time : e \in Range(q)} = {t.time, n.time}
  BY <1>2
<1>4. Max({t.time, n.time}) = n.time
  <2> DEFINE T == {t.time, n.time}
  <2>1. n.time \in T /\ \A x \in T : x \in Int /\ x <= n.time
    OBVIOUS
  <2> HIDE DEF T
  <2> QED  BY <2>1, LatestIs DEF T
<1>5. IdSeq(q) = <<t.id, n.id>>
  <2>1. IdSeq(q) = [i \in 1..2 |-> q[i].id]
    BY <1>1 DEF IdSeq
  <2> QED  BY <1>1, <2>1
<1>6. FollowOn(t, n) = EvidenceOf("follow_on", t, q, None)
  BY DEF FollowOn, q
<1>7. Range(<<t.id, n.id>>) = {t.id, n.id}
  <2> DEFINE w == <<t.id, n.id>>
  <2>1. DOMAIN w = 1..2 /\ w[1] = t.id /\ w[2] = n.id
    OBVIOUS
  <2> HIDE DEF w
  <2>2. Range(w) = {w[i] : i \in 1..2}
    BY <2>1 DEF Range
  <2>3. \A i : i \in 1..2 <=> i = 1 \/ i = 2
    OBVIOUS
  <2>4. Range(w) = {t.id, n.id}
    BY <2>1, <2>2, <2>3
  <2> QED  BY <2>4 DEF w
<1> QED  BY <1>3, <1>4, <1>5, <1>6, <1>7, Zenon DEF EvidenceOf

LEMMA FollowOnsAre ==
    ASSUME NEW batch, NEW start, NEW count, NEW l, LineFound(batch, start, count, l)
    PROVE  /\ FollowOns(batch, l[1]) = {FollowOn(l[1], n) : n \in NetworksOf(l[1], batch)}
           /\ NetworksOf(l[1], batch) # {}
           /\ \A n \in NetworksOf(l[1], batch) :
                 /\ n \in batch /\ n.time \in Int /\ l[1].time <= n.time /\ n.id # l[1].id
                 /\ n.run = l[1].run /\ n.host = l[1].host
<1>1. /\ l[1] \in Processes(batch) /\ l[1] \in batch /\ l[1].time \in Int /\ l[1].time >= start
      /\ 1 \in 1..count
  <2>1. 1 \in 1..count
    BY DEF LineFound
  <2> QED  BY <2>1, LineGoesBack
<1>2. Eligible(l[1], l[1])
  BY <1>1 DEF Eligible, LineFound, ToldApart, Processes
<1>3. \A n \in NetworksOf(l[1], batch) :
         /\ n \in batch /\ n.time \in Int /\ n.run = l[1].run /\ n.host = l[1].host
         /\ n \in Networks(batch) /\ n.guid = l[1].guid
  BY <1>1 DEF NetworksOf, Networks, LineFound, IsBatch
<1>4. \A n \in NetworksOf(l[1], batch) : l[1].time <= n.time
  BY <1>1, <1>3 DEF LineFound, ToldApart
<1>5. \A n \in NetworksOf(l[1], batch) : n.id # l[1].id
  <2> SUFFICES ASSUME NEW n \in NetworksOf(l[1], batch), n.id = l[1].id
               PROVE  FALSE
    OBVIOUS
  <2>1. n = l[1]
    BY <1>1, <1>3 DEF LineFound, IsBatch
  <2> QED  BY <1>1, <1>3, <2>1 DEF Processes, Networks
<1>6. NetworksOf(l[1], batch) # {}
  BY DEF LineFound, Connected, NetworksOf
<1>7. {n \in NetworksOf(l[1], batch) : /\ Eligible(l[1], l[1])
                                       /\ n.run = l[1].run /\ n.host = l[1].host
                                       /\ n.time >= l[1].time} = NetworksOf(l[1], batch)
  BY <1>1, <1>2, <1>3, <1>4
<1>8. FollowOns(batch, l[1]) = {FollowOn(l[1], n) : n \in NetworksOf(l[1], batch)}
  BY <1>7, Zenon DEF FollowOns, FollowOn
<1> QED  BY <1>3, <1>4, <1>5, <1>6, <1>8

\* What a line says against a policy, as Evidence.
Deviates(l, policy) == \E i \in 1..Len(l) : Casefold(Reverse(l)[i].name) # Casefold(policy.lineage[i])

DeviationOn(l, context, policy) == EvidenceOf("deviation", l[1], LateOf(l, context), policy.id)

DeviationsOn(l, context, policy) ==
    IF Deviates(l, policy) THEN {DeviationOn(l, context, policy)} ELSE {}

LateIds(l, start) == {e.id : e \in {e \in Range(l) : e.time >= start}}

DeviationRow(l, start, policy) ==
    [id |-> <<"deviation", l[1].run, LateIds(l, start), policy.id>>,
     type |-> "deviation", run |-> l[1].run, entity |-> l[1].host, time |-> l[1].time,
     events |-> IdSeq(LateOf(l, Selected(l, start).context)), policy |-> policy.id]

LEMMA DeviationIs ==
    ASSUME NEW batch, NEW start, NEW count, NEW l, LineFound(batch, start, count, l), NEW policy
    PROVE  /\ DeviationOn(l, Selected(l, start).context, policy) = DeviationRow(l, start, policy)
           /\ Range(IdSeq(LateOf(l, Selected(l, start).context))) = LateIds(l, start)
<1> DEFINE context == Selected(l, start).context
<1> DEFINE late == {e \in Range(l) : e.time >= start}
           kept == LateOf(l, context)
<1>1. Range(kept) = late /\ DOMAIN kept = 1..Len(kept)
  BY LineSplits DEF LateOf
<1>2. /\ DOMAIN l = 1..count /\ 1 \in 1..count /\ l[1].time >= start
      /\ \A i \in 1..count : l[i].time \in Int /\ l[i].time <= l[1].time
  <2>1. count \in Nat \ {0}
    BY DEF LineFound
  <2> QED  BY <2>1, LineGoesBack
<1>3. Max({e.time : e \in late}) = l[1].time
  <2> DEFINE T == {e.time : e \in late}
  <2>1. \A e \in late : e.time \in Int /\ e.time <= l[1].time
    BY <1>2 DEF Range
  <2>2. l[1] \in late
    BY <1>2 DEF Range
  <2> HIDE DEF late
  <2>3. l[1].time \in T /\ \A x \in T : x \in Int /\ x <= l[1].time
    BY <2>1, <2>2
  <2> HIDE DEF T
  <2> QED  BY <2>3, LatestIs DEF T
<1> HIDE DEF kept, late
<1>4. DeviationOn(l, context, policy) = EvidenceOf("deviation", l[1], kept, policy.id)
  BY Zenon DEF DeviationOn, kept
<1>5. Range(IdSeq(kept)) = {e.id : e \in late}
  <2>1. Range(IdSeq(kept)) = {kept[i].id : i \in 1..Len(kept)}
    BY <1>1 DEF Range, IdSeq
  <2>2. late = {kept[i] : i \in 1..Len(kept)}
    BY <1>1 DEF Range
  <2> QED  BY <2>1, <2>2
<1>6. EvidenceOf("deviation", l[1], kept, policy.id) =
         [id |-> <<"deviation", l[1].run, {e.id : e \in late}, policy.id>>,
          type |-> "deviation", run |-> l[1].run, entity |-> l[1].host,
          time |-> l[1].time, events |-> IdSeq(kept), policy |-> policy.id]
  BY <1>1, <1>3, Zenon DEF EvidenceOf
<1> QED  BY <1>4, <1>5, <1>6, Zenon DEF kept, late, LateIds, DeviationRow

Complete(l) == [line |-> Reverse(l), status |-> "complete"]

LEMMA DeviationsAre ==
    ASSUME NEW l, NEW count \in Nat, Len(l) = count, DOMAIN Reverse(l) = 1..count,
           NEW in, DOMAIN in.policy.lineage = 1..count
    PROVE  /\ DeviationOf(Complete(l), l[1], in).diagnostics = {} <=> Named(Reverse(l))
           /\ Named(Reverse(l)) =>
                 DeviationOf(Complete(l), l[1], in)
                   = Extraction(DeviationsOn(l, in.context, in.policy), {})
<1> DEFINE c == Complete(l)
           d == DeviationOf(c, l[1], in)
           policy == in.policy
           r == Reverse(l)
           observed == [i \in DOMAIN r |-> Casefold(r[i].name)]
           approved == [i \in DOMAIN policy.lineage |-> Casefold(policy.lineage[i])]
<1>1. c.line = r /\ c.status = "complete"
  BY DEF Complete
<1> HIDE DEF c
<1>2. d = IF c.status # "complete" THEN Extraction({}, {c.status})
          ELSE IF ~Named(r) THEN Extraction({}, {"missing_or_blank_process_name"})
          ELSE IF observed = approved THEN Extraction({}, {})
          ELSE Extraction({DeviationOn(l, in.context, policy)}, {})
  BY <1>1, Zenon DEF DeviationOf, DeviationOn, LateOf
<1>3. observed = approved <=> ~Deviates(l, policy)
  <2> HIDE DEF r
  <2> QED  BY DEF Deviates, r
<1> HIDE DEF r, d
<1>4. d = IF ~Named(r) THEN Extraction({}, {"missing_or_blank_process_name"})
          ELSE IF Deviates(l, policy) THEN Extraction({DeviationOn(l, in.context, policy)}, {})
          ELSE Extraction({}, {})
  BY <1>1, <1>2, <1>3
<1>5. d.diagnostics = {} <=> Named(r)
  BY <1>4 DEF Extraction
<1>6. Named(r) => d = Extraction(DeviationsOn(l, in.context, policy), {})
  BY <1>4 DEF DeviationsOn
<1> QED  BY <1>5, <1>6, Zenon DEF r, d, c

\* The Evidence of a line.
EvidenceMade(batch, start, l, policy) ==
    DeviationsOn(l, Selected(l, start).context, policy)
      \cup {FollowOn(l[1], n) : n \in NetworksOf(l[1], batch)}

LEMMA ExtractionOfLine ==
    ASSUME NEW batch, NEW start, NEW count, NEW l, LineFound(batch, start, count, l),
           NEW policy, DOMAIN policy.lineage = 1..count,
           NEW in, in = LineageInput(Selected(l, start), policy)
    PROVE  /\ ~ExtractionRaises(batch, in)
           /\ Extract(batch, in).diagnostics = {} <=> Named(Reverse(l))
           /\ Named(Reverse(l)) =>
                 Extract(batch, in) = Extraction(EvidenceMade(batch, start, l, policy), {})
<1>1. /\ in.anchor = Last(l).id /\ in.terminal = l[1].id /\ in.policy = policy
      /\ in.context = Selected(l, start).context
  BY DEF LineageInput, Selected
<1>2. /\ count \in Nat \ {0} /\ 1 \in 1..count /\ count \in 1..count /\ IsBatch(batch)
      /\ ToldApart(batch, start) /\ IsLine(l, count, batch)
  BY DEF LineFound
<1>3. Len(l) = count /\ l[1] \in batch /\ l[count] \in batch
  BY <1>2, LineGoesBack
<1>4. in.anchor = l[count].id
  BY <1>1, <1>3 DEF Last
<1>5. EventNamed(batch, in.anchor) = l[count] /\ EventNamed(batch, in.terminal) = l[1]
  BY <1>1, <1>2, <1>3, <1>4, NamedIsEvent
<1> DEFINE c == Complete(l)
<1>6. /\ ReconstructLineage(batch, l[count], l[1]) = c
      /\ Eligible(l[count], l[1]) /\ Eligible(l[1], l[1])
  BY <1>2, ReconstructedIsLine DEF Complete
<1>7. c.line = Reverse(l) /\ c.status = "complete"
  BY DEF Complete
<1>8. ~ExtractionRaises(batch, in)
  <2>1. ~Shared(batch, "id")
    BY <1>2 DEF Shared, IsBatch
  <2>2. {in.anchor, in.terminal} \ {e.id : e \in batch} = {}
    BY <1>1, <1>3, <1>4
  <2>3. Range(in.context) \subseteq Range(IdSeq(Reverse(l))) \ {in.terminal}
    BY <1>1, LineSplits
  <2> HIDE DEF c
  <2> QED  BY <1>5, <1>6, <1>7, <2>1, <2>2, <2>3, Zenon DEF ExtractionRaises
<1> HIDE DEF c
<1> DEFINE d == DeviationOf(c, l[1], in)
           x == Extract(batch, in)
<1>9. x = [d EXCEPT !.evidences = @ \cup FollowOns(batch, l[1])]
  BY <1>5, <1>6, Zenon DEF Extract, Deviation
<1>10. DOMAIN Reverse(l) = 1..count
  BY LineReversed
<1>11. /\ d.diagnostics = {} <=> Named(Reverse(l))
       /\ Named(Reverse(l)) =>
             d = Extraction(DeviationsOn(l, in.context, policy), {})
  <2>1. count \in Nat /\ DOMAIN in.policy.lineage = 1..count
    BY <1>1, <1>2
  <2>2. /\ d.diagnostics = {} <=> Named(Reverse(l))
        /\ Named(Reverse(l)) => d = Extraction(DeviationsOn(l, in.context, in.policy), {})
    BY <1>3, <1>10, <2>1, DeviationsAre DEF c
  <2> HIDE DEF d
  <2> QED  BY <1>1, <2>2
<1> HIDE DEF d
<1>12. x.diagnostics = d.diagnostics
  BY <1>9
<1>13. FollowOns(batch, l[1]) = {FollowOn(l[1], n) : n \in NetworksOf(l[1], batch)}
  BY FollowOnsAre
<1>14. ASSUME Named(Reverse(l))
       PROVE  x = Extraction(EvidenceMade(batch, start, l, policy), {})
  <2> DEFINE D == DeviationsOn(l, in.context, policy)
             F == FollowOns(batch, l[1])
  <2>1. d = [evidences |-> D, diagnostics |-> {}]
    BY <1>11, <1>14 DEF Extraction
  <2> HIDE DEF D, F, x
  <2>2. x = [evidences |-> D \cup F, diagnostics |-> {}]
    BY <1>9, <2>1 DEF F, x
  <2>3. D \cup F = EvidenceMade(batch, start, l, policy)
    BY <1>1, <1>13, Zenon DEF D, F, EvidenceMade
  <2> QED  BY <2>2, <2>3, Zenon DEF Extraction
<1> QED  BY <1>8, <1>11, <1>12, <1>14, Zenon DEF x

\* A batch is clear when it has a line, of processes with names.
LEMMA ClearIsLine ==
    ASSUME NEW batch, IsBatch(batch), NEW start \in Int, NEW count \in Nat \ {0}
    PROVE  /\ Clear(batch, count, start) => \E l : LineFound(batch, start, count, l)
           /\ \A l : LineFound(batch, start, count, l) =>
                 (Clear(batch, count, start) <=> Named(Reverse(l)))
<1>1. Clear(batch, count, start) <=>
         /\ ToldApart(batch, start) /\ Chains(batch, count, start) # {}
         /\ \A c \in Chains(batch, count, start), i \in 1..count : c[i].name \notin {None, <<"", "">>}
  BY Zenon DEF Clear, ToldApart, Connected
<1>2. ASSUME Clear(batch, count, start)
      PROVE  \E l : LineFound(batch, start, count, l)
  <2>1. PICK c : c \in Chains(batch, count, start)
    BY <1>1, <1>2
  <2>2. IsLine(Reverse(c), count, batch) /\ Reverse(c)[1] \in Connected(batch, start)
    BY <2>1, ChainIsLine
  <2> QED  BY <1>1, <1>2, <2>2 DEF LineFound
<1>3. ASSUME NEW l, LineFound(batch, start, count, l)
      PROVE  Clear(batch, count, start) <=> Named(Reverse(l))
  <2> DEFINE r == Reverse(l)
  <2>1. ToldApart(batch, start) /\ Chains(batch, count, start) = {r}
    BY <1>3, ChainIsOne DEF LineFound
  <2>2. DOMAIN r = 1..count /\ Range(r) = Range(l)
    BY <1>3, LineReversed
  <2>3. \A i \in 1..count : r[i] \in batch
    <3>1. DOMAIN l = 1..count /\ \A i \in 1..count : l[i] \in batch
      BY <1>3, LineGoesBack
    <3> HIDE DEF r
    <3> QED  BY <2>2, <3>1 DEF Range
  <2> HIDE DEF r
  <2>4. \A i \in 1..count : r[i].name \notin {None, <<"", "">>}
                              <=> r[i].name # None /\ Casefold(r[i].name) # ""
    <3>1. \A e \in batch : e.name # None /\ e.name[1] = "" => e.name = <<"", "">>
      BY DEF IsBatch
    <3>2. <<"", "">>[1] = ""
      OBVIOUS
    <3> QED  BY <2>3, <3>1, <3>2 DEF Casefold
  <2>5. (\A i \in 1..count : r[i].name \notin {None, <<"", "">>}) <=> Named(r)
    BY <2>2, <2>4, Zenon DEF Named
  <2> QED  BY <1>1, <2>1, <2>5 DEF r
<1> QED  BY <1>2, <1>3

\* What the reference makes of a chain.
ExpectedOf(c, batch, count, policy, start) ==
    LET own == {i \in 1..count : c[i].time >= start}
    IN  {[type |-> "follow_on", time |-> n.time, events |-> {c[count].id, n.id}] :
            n \in {n \in Networks(batch) : n.guid = c[count].guid}}
        \cup {[type |-> "deviation", time |-> c[count].time, events |-> {c[i].id : i \in own}] :
                 x \in {x \in 1..count : c[x].name[1] # policy.lineage[x][1]}}

\* The Evidence of a line is the Evidence expected.
LEMMA MadeIsExpected ==
    ASSUME NEW batch, NEW start, NEW count, NEW l, LineFound(batch, start, count, l),
           NEW policy, DOMAIN policy.lineage = 1..count, Len(policy.lineage) = count
    PROVE  Shape(EvidenceMade(batch, start, l, policy)) = EvidenceExpected(batch, policy, start)
<1> DEFINE r == Reverse(l)
           context == Selected(l, start).context
           D == DeviationOn(l, context, policy)
           shape(e) == [type |-> e.type, time |-> e.time, events |-> Range(e.events)]
           follow(n) == [type |-> "follow_on", time |-> n.time, events |-> {r[count].id, n.id}]
           own == {i \in 1..count : r[i].time >= start}
           deviation == [type |-> "deviation", time |-> r[count].time, events |-> {r[i].id : i \in own}]
           nets == NetworksOf(l[1], batch)
<1>1. Chains(batch, count, start) = {r}
  BY ChainIsOne DEF LineFound
<1>2. /\ DOMAIN r = 1..count /\ r[count] = l[1] /\ Range(r) = Range(l)
      /\ Len(l) = count
  BY LineReversed, LineGoesBack
<1> HIDE DEF r
<1>3. (CHOOSE c \in Chains(batch, count, start) : TRUE) = r
  BY <1>1
<1>4. EvidenceExpected(batch, policy, start) =
         {follow(n) : n \in {n \in Networks(batch) : n.guid = r[count].guid}}
           \cup {deviation : x \in {x \in 1..count : r[x].name[1] # policy.lineage[x][1]}}
  <2>1. Len(policy.lineage) = count
    OBVIOUS
  <2>2. EvidenceExpected(batch, policy, start) =
          ExpectedOf(CHOOSE c \in Chains(batch, count, start) : TRUE, batch, count, policy, start)
    BY <2>1, Zenon DEF EvidenceExpected, ExpectedOf
  <2>3. EvidenceExpected(batch, policy, start) = ExpectedOf(r, batch, count, policy, start)
    BY <1>3, <2>2
  <2> QED  BY <2>3, Zenon DEF ExpectedOf
<1>5. nets = {n \in Networks(batch) : n.guid = r[count].guid}
  BY <1>2, Zenon DEF NetworksOf
<1>6. \A n \in nets : shape(FollowOn(l[1], n)) = follow(n)
  <2> SUFFICES ASSUME NEW n \in nets
               PROVE  shape(FollowOn(l[1], n)) = follow(n)
    OBVIOUS
  <2>1. n.time \in Int /\ l[1].time <= n.time /\ l[1].time \in Int
    <3>1. 1 \in 1..count
      BY DEF LineFound
    <3> QED  BY <3>1, FollowOnsAre, LineGoesBack
  <2>2. /\ FollowOn(l[1], n) = [id |-> <<"follow_on", l[1].run, {l[1].id, n.id}, None>>,
                                type |-> "follow_on", run |-> l[1].run, entity |-> l[1].host,
                                time |-> n.time, events |-> <<l[1].id, n.id>>, policy |-> None]
        /\ Range(<<l[1].id, n.id>>) = {l[1].id, n.id}
    BY <2>1, FollowOnIs
  <2>3. /\ FollowOn(l[1], n).type = "follow_on" /\ FollowOn(l[1], n).time = n.time
        /\ FollowOn(l[1], n).events = <<l[1].id, n.id>>
    BY <2>2
  <2> QED  BY <1>2, <2>2, <2>3
<1>7. shape(D) = deviation
  <2>1. D = DeviationRow(l, start, policy) /\ Range(IdSeq(LateOf(l, context))) = LateIds(l, start)
    BY DeviationIs
  <2> HIDE DEF D, context
  <2>2. D.type = "deviation" /\ D.time = l[1].time /\ D.events = IdSeq(LateOf(l, context))
    BY <2>1 DEF DeviationRow, context
  <2>3. LateIds(l, start) = {r[i].id : i \in own}
    <3>1. Range(l) = {r[i] : i \in 1..count}
      BY <1>2 DEF Range
    <3> QED  BY <3>1 DEF LateIds
  <2> HIDE DEF own
  <2> QED  BY <1>2, <2>1, <2>2, <2>3
<1>8. Deviates(l, policy) <=> {x \in 1..count : r[x].name[1] # policy.lineage[x][1]} # {}
  BY <1>2 DEF Deviates, Casefold, r
<1> HIDE DEF D, deviation, follow, shape, nets
<1>9. Shape(EvidenceMade(batch, start, l, policy)) =
         {shape(e) : e \in (IF Deviates(l, policy) THEN {D} ELSE {})
                             \cup {FollowOn(l[1], n) : n \in nets}}
  BY Zenon DEF Shape, EvidenceMade, DeviationsOn, shape, D, context, nets
<1>10. {shape(e) : e \in (IF Deviates(l, policy) THEN {D} ELSE {})
                            \cup {FollowOn(l[1], n) : n \in nets}}
         = {follow(n) : n \in nets} \cup (IF Deviates(l, policy) THEN {deviation} ELSE {})
  BY <1>6, <1>7
<1>11. {deviation : x \in {x \in 1..count : r[x].name[1] # policy.lineage[x][1]}}
         = IF Deviates(l, policy) THEN {deviation} ELSE {}
  BY <1>8
<1> QED  BY <1>4, <1>5, <1>9, <1>10, <1>11

\* What the selector and the extractor make of a batch is what they make of its line.
LEMMA ExtractionIsLine ==
    ASSUME NEW batch, IsBatch(batch), NEW start \in Int, NEW count \in Nat \ {0},
           NEW policy, DOMAIN policy.lineage = 1..count, Len(policy.lineage) = count,
           NEW x, x = SelectAndExtract(batch, policy, start)
    PROVE  /\ Clear(batch, count, start) <=> x.selection.why = None /\ x.extraction.diagnostics = {}
           /\ Clear(batch, count, start) =>
                 \E l : /\ LineFound(batch, start, count, l) /\ Named(Reverse(l))
                        /\ x.input = LineageInput(Selected(l, start), policy)
                        /\ x.extraction = Extraction(EvidenceMade(batch, start, l, policy), {})
<1> DEFINE s == SelectLineage(batch, count, start)
<1>1. /\ s.why = None <=> ToldApart(batch, start) /\ Chains(batch, count, start) # {}
      /\ s.why = None =>
            \E l : /\ IsLine(l, count, batch) /\ l[1] \in Connected(batch, start)
                   /\ s = Selected(l, start)
  BY SelectionIsLine
<1> HIDE DEF s
<1>2. x = ExtractSelected(s, batch, policy)
  BY DEF SelectAndExtract, s
<1>3. CASE s.why # None
  <2>1. x.selection.why # None
    BY <1>2, <1>3 DEF ExtractSelected
  <2>2. ~Clear(batch, count, start)
    BY <1>1, <1>3 DEF Clear, ToldApart, Connected
  <2> QED  BY <2>1, <2>2
<1>4. CASE s.why = None
  <2>1. PICK l : LineFound(batch, start, count, l) /\ s = Selected(l, start)
    BY <1>1, <1>4 DEF LineFound
  <2> DEFINE in == LineageInput(Selected(l, start), policy)
  <2>2. /\ Extract(batch, in).diagnostics = {} <=> Named(Reverse(l))
        /\ Named(Reverse(l)) =>
              Extract(batch, in) = Extraction(EvidenceMade(batch, start, l, policy), {})
    BY <2>1, ExtractionOfLine
  <2> HIDE DEF in
  <2>3. /\ x.selection.why = None /\ x.input = in /\ x.extraction = Extract(batch, in)
    BY <1>2, <1>4, <2>1 DEF ExtractSelected, in
  <2>4. Clear(batch, count, start) <=> Named(Reverse(l))
    BY <2>1, ClearIsLine
  <2> QED  BY <2>1, <2>2, <2>3, <2>4 DEF in
<1> QED  BY <1>3, <1>4

\* The walk over the parents, the checks made twice, the choices made in the order of
\* times and the identities computed on the way come to what the reference says: for every
\* batch of events that the ledger can hold, the selector and the extractor refuse what is
\* not clear, and make of the rest the Evidence expected, none of it twice.
THEOREM ExtractionIsReference ==
    ASSUME NEW batch, IsBatch(batch), NEW start \in Int, NEW count \in Nat \ {0},
           NEW policy, DOMAIN policy.lineage = 1..count, Len(policy.lineage) = count,
           NEW x, x = SelectAndExtract(batch, policy, start)
    PROVE  /\ Clear(batch, count, start) <=> x.selection.why = None /\ x.extraction.diagnostics = {}
           /\ Clear(batch, count, start) =>
                 Shape(x.extraction.evidences) = EvidenceExpected(batch, policy, start)
<1>1. Clear(batch, count, start) <=> x.selection.why = None /\ x.extraction.diagnostics = {}
  BY ExtractionIsLine
<1>2. ASSUME Clear(batch, count, start)
      PROVE  Shape(x.extraction.evidences) = EvidenceExpected(batch, policy, start)
  <2>1. PICK l : /\ LineFound(batch, start, count, l)
                 /\ x.extraction = Extraction(EvidenceMade(batch, start, l, policy), {})
    BY <1>2, ExtractionIsLine
  <2>2. x.extraction.evidences = EvidenceMade(batch, start, l, policy)
    BY <2>1 DEF Extraction
  <2> QED  BY <2>1, <2>2, MadeIsExpected
<1> QED  BY <1>1, <1>2

-----------------------------------------------------------------------------
LEMMA MadeIsFinite ==
    ASSUME NEW batch, NEW start, NEW count, NEW l, LineFound(batch, start, count, l), NEW policy
    PROVE  /\ IsFiniteSet(EvidenceMade(batch, start, l, policy))
           /\ EvidenceMade(batch, start, l, policy) # {}
<1> DEFINE nets == NetworksOf(l[1], batch)
           F == {FollowOn(l[1], n) : n \in nets}
           D == DeviationsOn(l, Selected(l, start).context, policy)
<1>1. IsFiniteSet(nets) /\ nets # {}
  <2>1. nets \subseteq batch /\ IsFiniteSet(batch)
    BY DEF NetworksOf, Networks, LineFound, IsBatch
  <2>2. nets # {}
    BY FollowOnsAre
  <2> HIDE DEF nets
  <2> QED  BY <2>1, <2>2, FS_Subset
<1> HIDE DEF nets
<1>2. IsFiniteSet(F) /\ F # {}
  <2>1. IsFiniteSet(F)
    <3> DEFINE f == [n \in nets |-> FollowOn(l[1], n)]
    <3>1. F = {f[n] : n \in nets}
      OBVIOUS
    <3> HIDE DEF f, F
    <3> QED  BY <1>1, <3>1, FiniteValues
  <2> QED  BY <1>1, <2>1
<1>3. IsFiniteSet(D)
  BY FS_EmptySet, FS_Singleton DEF DeviationsOn
<1> HIDE DEF F, D
<1>4. EvidenceMade(batch, start, l, policy) = D \cup F
  BY Zenon DEF EvidenceMade, D, F, nets
<1> QED  BY <1>2, <1>3, <1>4, FS_Union

LEMMA MadeAre ==
    ASSUME NEW batch, NEW start, NEW count, NEW l, LineFound(batch, start, count, l), NEW policy,
           NEW e \in EvidenceMade(batch, start, l, policy)
    PROVE  \/ Deviates(l, policy) /\ e = DeviationRow(l, start, policy)
           \/ \E n \in NetworksOf(l[1], batch) :
                 e = [id |-> <<"follow_on", l[1].run, {l[1].id, n.id}, None>>,
                      type |-> "follow_on", run |-> l[1].run, entity |-> l[1].host,
                      time |-> n.time, events |-> <<l[1].id, n.id>>, policy |-> None]
<1>1. DeviationOn(l, Selected(l, start).context, policy) = DeviationRow(l, start, policy)
  BY DeviationIs
<1>2. CASE e \in DeviationsOn(l, Selected(l, start).context, policy)
  BY <1>1, <1>2, Zenon DEF DeviationsOn
<1>3. CASE e \in {FollowOn(l[1], n) : n \in NetworksOf(l[1], batch)}
  <2>1. PICK n \in NetworksOf(l[1], batch) : e = FollowOn(l[1], n)
    BY <1>3
  <2>2. n.time \in Int /\ l[1].time <= n.time /\ l[1].time \in Int
    <3>1. 1 \in 1..count
      BY DEF LineFound
    <3> QED  BY <3>1, FollowOnsAre, LineGoesBack
  <2>3. FollowOn(l[1], n) =
          [id |-> <<"follow_on", l[1].run, {l[1].id, n.id}, None>>,
           type |-> "follow_on", run |-> l[1].run, entity |-> l[1].host,
           time |-> n.time, events |-> <<l[1].id, n.id>>, policy |-> None]
    BY <2>2, FollowOnIs
  <2> QED  BY <2>1, <2>3
<1> QED  BY <1>2, <1>3 DEF EvidenceMade

\* Evidence of a line has times, and an identity of its own.
LEMMA MadeAreTold ==
    ASSUME NEW batch, NEW start, NEW count, NEW l, LineFound(batch, start, count, l), NEW policy
    PROVE  /\ \A e \in EvidenceMade(batch, start, l, policy) :
                 e.time \in Int /\ e.run = l[1].run /\ e.type \in {"follow_on", "deviation"}
           /\ \A d, e \in EvidenceMade(batch, start, l, policy) : d.id = e.id => d = e
<1> DEFINE made == EvidenceMade(batch, start, l, policy)
           row(n) == [id |-> <<"follow_on", l[1].run, {l[1].id, n.id}, None>>,
                      type |-> "follow_on", run |-> l[1].run, entity |-> l[1].host,
                      time |-> n.time, events |-> <<l[1].id, n.id>>, policy |-> None]
           nets == NetworksOf(l[1], batch)
<1>1. \A e \in made : e = DeviationRow(l, start, policy) \/ \E n \in nets : e = row(n)
  BY MadeAre
<1>2. \A n \in nets : n \in batch /\ n.time \in Int /\ n.id # l[1].id
  BY FollowOnsAre
<1>3. l[1].time \in Int
  <2>1. 1 \in 1..count
    BY DEF LineFound
  <2> QED  BY <2>1, LineGoesBack
<1> HIDE DEF made, nets
<1>4. /\ DeviationRow(l, start, policy).time = l[1].time
      /\ DeviationRow(l, start, policy).run = l[1].run
      /\ DeviationRow(l, start, policy).type = "deviation"
      /\ DeviationRow(l, start, policy).id = <<"deviation", l[1].run, LateIds(l, start), policy.id>>
  BY DEF DeviationRow
<1>5. \A n : /\ row(n).time = n.time /\ row(n).run = l[1].run /\ row(n).type = "follow_on"
             /\ row(n).id = <<"follow_on", l[1].run, {l[1].id, n.id}, None>>
  OBVIOUS
<1>6. \A e \in made : e.time \in Int /\ e.run = l[1].run /\ e.type \in {"follow_on", "deviation"}
  <2> HIDE DEF row
  <2> QED  BY <1>1, <1>2, <1>3, <1>4, <1>5
<1>7. \A d, e \in made : d.id = e.id => d = e
  <2> HIDE DEF row
  <2> SUFFICES ASSUME NEW d \in made, NEW e \in made, d.id = e.id
               PROVE  d = e
    OBVIOUS
  <2>1. \A n, m \in nets : row(n).id = row(m).id => n = m
    <3> SUFFICES ASSUME NEW n \in nets, NEW m \in nets, row(n).id = row(m).id
                 PROVE  n = m
      OBVIOUS
    <3>1. {l[1].id, n.id} = {l[1].id, m.id}
      BY <1>5
    <3>2. n.id = m.id
      BY <1>2, <3>1
    <3> QED  BY <1>2, <3>2 DEF LineFound, IsBatch
  <2>2. \A n \in nets : row(n).id # DeviationRow(l, start, policy).id
    BY <1>4, <1>5
  <2> HIDE DEF row
  <2> QED  BY <1>1, <2>1, <2>2
<1> QED  BY <1>6, <1>7 DEF made

\* The summary of a completed extraction.
CompletedSummary(run, n, lineage, selector, made) ==
    [run |-> run, extractor |-> Extractor, inputs |-> n, count |-> Cardinality(made),
     status |-> "completed", lineage |-> lineage, diagnostics |-> {}, error |-> FALSE,
     digest |-> made, selector |-> selector]

LEMMA CompletedIs ==
    ASSUME NEW run, NEW batch, NEW lineage, NEW selector, NEW made
    PROVE  CompletedArtifacts(SummaryBase(run, batch, lineage, selector), Extraction(made, {}))
             = [evidence |-> made,
                summary |-> CompletedSummary(run, Cardinality(batch), lineage, selector, made)]
<1> DEFINE x == Extraction(made, {})
           n == Cardinality(batch)
           c == Cardinality(made)
           base == SummaryBase(run, batch, lineage, selector)
<1>1. x.evidences = made /\ x.diagnostics = {}
  BY DEF Extraction
<1>2. base = [run |-> run, extractor |-> Extractor, inputs |-> n, count |-> None, status |-> "failed",
            lineage |-> lineage, diagnostics |-> {}, error |-> TRUE, digest |-> None,
            selector |-> selector]
  BY Zenon DEF SummaryBase
<1> HIDE DEF x, n, base
<1>3. CompletedArtifacts(base, x) =
        [evidence |-> made,
         summary |-> [base EXCEPT !.count = c, !.status = "completed",
                                  !.error = FALSE, !.diagnostics = {}, !.digest = made]]
  BY <1>1, Zenon DEF CompletedArtifacts
<1> HIDE DEF c
<1>4. PICK b1 : b1 = [base EXCEPT !.count = c]
  OBVIOUS
<1>5. b1 = [run |-> run, extractor |-> Extractor, inputs |-> n, count |-> c, status |-> "failed",
            lineage |-> lineage, diagnostics |-> {}, error |-> TRUE, digest |-> None,
            selector |-> selector]
  BY <1>2, <1>4
<1>6. PICK b2 : b2 = [b1 EXCEPT !.status = "completed"]
  OBVIOUS
<1>7. b2 = [run |-> run, extractor |-> Extractor, inputs |-> n, count |-> c, status |-> "completed",
            lineage |-> lineage, diagnostics |-> {}, error |-> TRUE, digest |-> None,
            selector |-> selector]
  BY <1>5, <1>6
<1>8. PICK b3 : b3 = [b2 EXCEPT !.error = FALSE]
  OBVIOUS
<1>9. b3 = [run |-> run, extractor |-> Extractor, inputs |-> n, count |-> c, status |-> "completed",
            lineage |-> lineage, diagnostics |-> {}, error |-> FALSE, digest |-> None,
            selector |-> selector]
  BY <1>7, <1>8
<1>10. PICK b4 : b4 = [b3 EXCEPT !.diagnostics = {}]
  OBVIOUS
<1>11. b4 = [run |-> run, extractor |-> Extractor, inputs |-> n, count |-> c, status |-> "completed",
            lineage |-> lineage, diagnostics |-> {}, error |-> FALSE, digest |-> None,
            selector |-> selector]
  BY <1>9, <1>10
<1>12. [b4 EXCEPT !.digest = made] = CompletedSummary(run, n, lineage, selector, made)
  <2>2. PICK b5 : b5 = [b4 EXCEPT !.digest = made]
    OBVIOUS
  <2>1. b5 =
          [run |-> run, extractor |-> Extractor, inputs |-> n, count |-> c, status |-> "completed",
           lineage |-> lineage, diagnostics |-> {}, error |-> FALSE, digest |-> made,
           selector |-> selector]
    BY <1>11, <2>2
  <2> QED  BY <2>1, <2>2, Zenon DEF CompletedSummary, c
<1>13. CompletedArtifacts(base, x) =
         [evidence |-> made, summary |-> CompletedSummary(run, n, lineage, selector, made)]
  BY <1>3, <1>4, <1>6, <1>8, <1>10, <1>12, Zenon
<1> QED  BY <1>13, Zenon DEF base, x, n

\* What is published of a line loads again.
LEMMA FilesOfLine ==
    ASSUME NullIsNoFunction, NullHoldsNoFunction,
           NEW batch, NEW start, NEW count, NEW l, LineFound(batch, start, count, l), Named(Reverse(l)),
           NEW policy, DOMAIN policy.lineage = 1..count, NEW run, \A e \in batch : e.run = run,
           NEW in, in = LineageInput(Selected(l, start), policy), NEW published,
           published = ArtifactsOf(batch, run, in, [status |-> "selected", diagnostics |-> {}])
    PROVE  ArtifactsLoad(published) /\ published.evidence = EvidenceMade(batch, start, l, policy)
<1> DEFINE made == EvidenceMade(batch, start, l, policy)
           selector == [status |-> "selected", diagnostics |-> {}]
           given == InputProvenance(in)
           base == SummaryBase(run, batch, <<given>>, selector)
           context == Selected(l, start).context
           kept == LateOf(l, context)
<1>1. /\ in.anchor = Last(l).id /\ in.terminal = l[1].id /\ in.policy = policy
      /\ in.context = context
  BY DEF LineageInput, Selected
<1>2. given = [anchor |-> Last(l).id, terminal |-> l[1].id, policy |-> policy.id, context |-> context]
  BY <1>1, Zenon DEF InputProvenance
<1>3. /\ given.anchor = Last(l).id /\ given.terminal = l[1].id /\ given.policy = policy.id
      /\ given.context = context
  BY <1>2
<1>4. l[1] \in batch /\ 1 \in 1..count /\ Last(l) = l[count]
  <2>1. 1 \in 1..count
    BY DEF LineFound
  <2> QED  BY <2>1, LineGoesBack DEF Last
<1>5. ~ExtractionRaises(batch, in) /\ Extract(batch, in) = Extraction(made, {})
  BY ExtractionOfLine
<1>6. /\ made # {} /\ Cardinality(made) \in Nat
      /\ \A e \in made : e.run = l[1].run /\ e.type \in {"follow_on", "deviation"}
      /\ \A d, e \in made : d.id = e.id => d = e
  BY MadeIsFinite, MadeAreTold, FS_CardinalityType
<1>7. /\ context # <<>> => context[1] = l[count].id
      /\ DOMAIN context = 1..Len(context) /\ Len(context) \in Nat /\ IsInjective(context)
      /\ l[1].id \notin Range(context)
      /\ DOMAIN kept = 1..Len(kept) /\ Len(kept) \in Nat \ {0} /\ Last(kept) = l[1]
      /\ context = <<>> => kept[1] = l[count]
      /\ Range(IdSeq(kept)) \cap Range(context) = {}
  BY LineSplits
<1>8. \A e \in made : \/ e = DeviationRow(l, start, policy)
                      \/ \E n \in batch :
                            e = [id |-> <<"follow_on", l[1].run, {l[1].id, n.id}, None>>,
                                 type |-> "follow_on", run |-> l[1].run, entity |-> l[1].host,
                                 time |-> n.time, events |-> <<l[1].id, n.id>>, policy |-> None]
  BY MadeAre, FollowOnsAre
<1> HIDE DEF made, given, context, kept
<1>9. published = CompletedArtifacts(base, Extraction(made, {}))
  <2> HIDE DEF base
  <2>1. base = SummaryBase(run, batch, <<InputProvenance(in)>>, selector)
    BY DEF base, given
  <2> QED  BY <1>5, <2>1, Zenon DEF ArtifactsOf
<1> DEFINE summary == CompletedSummary(run, Cardinality(batch), <<given>>, selector, made)
<1>10. published.evidence = made /\ published.summary = summary
  <2>1. published = [evidence |-> made, summary |-> summary]
    BY <1>9, CompletedIs
  <2> HIDE DEF summary
  <2> QED  BY <2>1
<1>11. /\ summary.lineage = <<given>> /\ summary.selector = selector /\ summary.status = "completed"
       /\ summary.count = Cardinality(made) /\ ~summary.error /\ summary.digest = made
       /\ summary.extractor = Extractor /\ summary.run = run
       /\ summary = [x \in DOMAIN summary |-> summary[x]]
  BY DEF CompletedSummary
<1>12. selector.status = "selected" /\ selector.diagnostics = {}
  OBVIOUS
<1> HIDE DEF summary, selector
<1>13. summary # None
  BY <1>11, Zenon DEF NullIsNoFunction
<1>14. made # None
  <2>1. PICK e \in made : TRUE
    BY <1>6
  <2>2. e = [x \in DOMAIN e |-> e[x]]
    BY <1>8 DEF DeviationRow
  <2> QED  BY <2>1, <2>2, Zenon DEF NullHoldsNoFunction
<1>15. summary.count # None
  <2>1. Cardinality(made) \in Int
    BY <1>6
  <2> QED  BY <1>11, <2>1, NoneIsNoTime
<1>16. LineageProvenanceValid(given)
  <2>1. \A i \in DOMAIN context : context[i] # l[1].id
    BY <1>7 DEF Range
  <2> QED  BY <1>3, <1>4, <1>7, <2>1 DEF LineageProvenanceValid, LineageInputValid
<1>17. DOMAIN summary.lineage = {1} /\ summary.lineage[1] = given /\ summary.lineage # <<>>
  <2>1. DOMAIN <<given>> = {1} /\ <<given>>[1] = given /\ <<given>> # <<>>
    OBVIOUS
  <2> QED  BY <1>11, <2>1
<1>18. SummaryContract(summary)
  <2>1. SelectorProvenanceValid(selector)
    BY <1>12 DEF SelectorProvenanceValid
  <2>2. summary.selector.status = "selected" /\ SelectorProvenanceValid(summary.selector)
    BY <1>11, <1>12, <2>1
  <2>3. summary.digest # None
    BY <1>11, <1>14
  <2> QED  BY <1>11, <1>15, <1>16, <1>17, <2>2, <2>3 DEF SummaryContract
<1>19. ASSUME NEW e \in made
       PROVE  EvidenceMatches(e, summary.lineage)
  <2>1. CASE e = DeviationRow(l, start, policy)
    <3>1. /\ e.type = "deviation" /\ e.events = IdSeq(kept) /\ e.policy = policy.id
      BY <2>1 DEF DeviationRow, kept, context
    <3>2. /\ DOMAIN IdSeq(kept) = 1..Len(kept) /\ IdSeq(kept) = [i \in 1..Len(kept) |-> kept[i].id]
      BY <1>7 DEF IdSeq
    <3>3. Len(IdSeq(kept)) = Len(kept)
      BY <1>7, <3>2
    <3>4. Last(e.events) = l[1].id /\ e.events[1] = kept[1].id
      BY <1>7, <3>1, <3>2, <3>3 DEF Last
    <3>5. context # <<>> => l[count].id \in Range(context)
      <4> SUFFICES ASSUME context # <<>>
                   PROVE  l[count].id \in Range(context)
        OBVIOUS
      <4>1. 1 \in DOMAIN context
        <5>1. Len(context) # 0
          BY <1>7 DEF context, Selected, IdSeq
        <5> QED  BY <1>7, <5>1
      <4> QED  BY <1>7, <4>1 DEF Range
    <3>6. DeviationMatches(e, given)
      BY <1>3, <1>4, <1>7, <3>1, <3>4, <3>5 DEF DeviationMatches
    <3> QED  BY <1>17, <3>1, <3>6 DEF EvidenceMatches
  <2>2. CASE \E n \in batch :
                e = [id |-> <<"follow_on", l[1].run, {l[1].id, n.id}, None>>,
                     type |-> "follow_on", run |-> l[1].run, entity |-> l[1].host,
                     time |-> n.time, events |-> <<l[1].id, n.id>>, policy |-> None]
    <3>1. PICK n \in batch :
                e = [id |-> <<"follow_on", l[1].run, {l[1].id, n.id}, None>>,
                     type |-> "follow_on", run |-> l[1].run, entity |-> l[1].host,
                     time |-> n.time, events |-> <<l[1].id, n.id>>, policy |-> None]
      BY <2>2
    <3>2. e.type = "follow_on" /\ e.events[1] = l[1].id
      BY <3>1
    <3> QED  BY <1>3, <1>17, <3>2 DEF EvidenceMatches
  <2> QED  BY <1>8, <2>1, <2>2
<1>20. CompletedArtifactsValid(made, summary)
  <2>1. l[1].run = run
    BY <1>4
  <2> QED  BY <1>6, <1>11, <1>19, <2>1 DEF CompletedArtifactsValid
<1> QED  BY <1>10, <1>11, <1>13, <1>14, <1>18, <1>20 DEF ArtifactsLoad, made
================================================================================
