------------------------------ MODULE SumProofs ------------------------------
(***************************************************************************)
(* Sums over finite sets.  SumFunctionOnSet folds a function over a set in *)
(* an order that a CHOOSE decides; the lemmas below show that the order    *)
(* does not matter, and what a sum does when a summand comes, goes or      *)
(* changes.  Store's and Eviction's byte counts are such sums.             *)
(*                                                                         *)
(* The induction is on a set of numbers, with a least element outside it,  *)
(* so that no operator is ever a parameter.                                *)
(***************************************************************************)
EXTENDS Integers, Functions, FiniteSetTheorems, TLAPS

-----------------------------------------------------------------------------
(***************************************************************************)
(* Induction over numbers.                                                 *)
(***************************************************************************)

\* A set of numbers that is not empty has a least element.
LEMMA Least ==
  ASSUME NEW T \in SUBSET Nat, T # {}
  PROVE  \E m \in T : \A n \in T : m <= n
<1> DEFINE R == {ss \in Nat \X Nat : ss[1] < ss[2]}
<1>1. IsWellFoundedOn(R, Nat)
  BY NatLessThanWellFounded DEF OpToRel
<1>2. \A m, n \in T : <<n, m>> \notin R => m <= n
  OBVIOUS
<1> HIDE DEF R
<1>3. PICK m \in T : \A n \in T : <<n, m>> \notin R
  BY <1>1, WFMin
<1> QED BY <1>2, <1>3

\* A bounded one has a greatest element.
LEMMA Greatest ==
  ASSUME NEW T \in SUBSET Nat, T # {}, NEW b \in Nat, \A n \in T : n <= b
  PROVE  \E m \in T : \A n \in T : m >= n
<1> DEFINE U == {i \in Nat : \A n \in T : n <= i}
<1>1. U \in SUBSET Nat /\ U # {}
  OBVIOUS
<1> HIDE DEF U
<1>2. PICK m \in U : \A i \in U : m <= i
  BY <1>1, Least
<1>3. m \in Nat /\ \A n \in T : n <= m
  BY <1>2 DEF U
<1>4. m \in T
  <2> SUFFICES ASSUME m \notin T PROVE FALSE
    OBVIOUS
  <2>1. \A n \in T : n < m
    BY <1>3
  <2>0. PICK n \in T : n < m
    BY <2>1
  <2>2. m - 1 \in Nat /\ \A i \in T : i <= m - 1
    BY <1>3, <2>0, <2>1
  <2>3. m - 1 \in U
    BY <2>2 DEF U
  <2> QED BY <1>2, <1>3, <2>3
<1> QED BY <1>3, <1>4

\* A set that holds 0, and each number's successor, holds every number.
LEMMA Inductive ==
  ASSUME NEW T \in SUBSET Nat, 0 \in T, \A n \in T : n + 1 \in T
  PROVE  \A n \in Nat : n \in T
<1> SUFFICES ASSUME Nat \ T # {} PROVE FALSE
  OBVIOUS
<1>1. PICK m \in Nat \ T : \A n \in Nat \ T : m <= n
  <2> DEFINE U == Nat \ T
  <2>1. U \in SUBSET Nat /\ U # {}
    OBVIOUS
  <2> HIDE DEF U
  <2>2. \E m \in U : \A n \in U : m <= n
    BY <2>1, Least
  <2> QED BY <2>2 DEF U
<1>2. m # 0 /\ m - 1 \in Nat
  OBVIOUS
<1>3. m - 1 \in T
  BY <1>1, <1>2
<1>4. (m - 1) + 1 \in T
  BY <1>3
<1> QED BY <1>4

-----------------------------------------------------------------------------
(***************************************************************************)
(* Folds over the subsets of a finite set: they exist and agree.           *)
(***************************************************************************)

\* The element a fold takes out of a set first, and the equation that defines the fold.
Pick(s) == CHOOSE x \in s : TRUE
Partial(f, g, s) == IF s = {} THEN 0 ELSE f[Pick(s)] + g[s \ {Pick(s)}]
Accumulates(g, f, D) == g = [s \in D |-> Partial(f, g, s)]
Accumulator(g, f, S) == Accumulates(g, f, SUBSET S)

\* The subsets of S with at most n elements.
Small(S, n) == {s \in SUBSET S : Cardinality(s) <= n}

\* A fold's next subset has one element less.
LEMMA PickFrom ==
  ASSUME NEW S, IsFiniteSet(S), NEW s \in SUBSET S, s # {}
  PROVE  /\ Pick(s) \in s /\ s \ {Pick(s)} \in SUBSET S
         /\ IsFiniteSet(s) /\ Cardinality(s) \in Nat /\ Cardinality(s) >= 1
         /\ Cardinality(s \ {Pick(s)}) = Cardinality(s) - 1
<1>1. Pick(s) \in s
  BY DEF Pick
<1>2. IsFiniteSet(s) /\ Cardinality(s) \in Nat
  BY FS_Subset, FS_CardinalityType
<1>3. Cardinality(s) # 0
  BY <1>2, FS_EmptySet
<1>4. Cardinality(s \ {Pick(s)}) = Cardinality(s) - 1
  BY <1>1, <1>2, FS_RemoveElement
<1> QED BY <1>1, <1>2, <1>3, <1>4

\* The fold is defined on the subsets of every finite set.
LEMMA AccumulatorExists ==
  ASSUME NEW f, NEW S, IsFiniteSet(S)
  PROVE  \E g : Accumulator(g, f, S)
<1> DEFINE N == {n \in Nat : \E g : Accumulates(g, f, Small(S, n))}
<1>1. 0 \in N
  <2> DEFINE g == [s \in Small(S, 0) |-> 0]
  <2>1. \A s \in Small(S, 0) : s = {}
    <3> SUFFICES ASSUME NEW s \in Small(S, 0), s # {} PROVE FALSE
      OBVIOUS
    <3>1. s \in SUBSET S /\ Cardinality(s) <= 0
      BY DEF Small
    <3>2. Cardinality(s) \in Nat /\ Cardinality(s) >= 1
      BY <3>1, PickFrom
    <3> QED BY <3>1, <3>2
  <2>2. Accumulates(g, f, Small(S, 0))
    BY <2>1 DEF Accumulates, Partial
  <2> QED BY <2>2
<1>2. \A n \in N : n + 1 \in N
  <2> SUFFICES ASSUME NEW n \in N PROVE \E h : Accumulates(h, f, Small(S, n + 1))
    OBVIOUS
  <2>1. PICK g : Accumulates(g, f, Small(S, n))
    OBVIOUS
  <2> DEFINE h == [s \in Small(S, n + 1) |-> Partial(f, g, s)]
  <2>2. ASSUME NEW s \in Small(S, n + 1), s # {}
        PROVE  h[s \ {Pick(s)}] = g[s \ {Pick(s)}]
    <3>1. s \ {Pick(s)} \in Small(S, n)
      BY <2>2, PickFrom DEF Small
    <3>2. Small(S, n) \subseteq Small(S, n + 1)
      <4>1. \A t \in SUBSET S : Cardinality(t) \in Nat
        BY FS_Subset, FS_CardinalityType
      <4> QED BY <4>1 DEF Small
    <3> DEFINE t == s \ {Pick(s)}
    <3>3. h[t] = Partial(f, g, t)
      BY <3>1, <3>2
    <3>4. g[t] = Partial(f, g, t)
      BY <2>1, <3>1 DEF Accumulates
    <3> QED BY <3>3, <3>4
  <2>3. \A s \in Small(S, n + 1) : Partial(f, g, s) = Partial(f, h, s)
    <3> HIDE DEF h
    <3> QED BY <2>2 DEF Partial
  <2>4. h = [s \in Small(S, n + 1) |-> Partial(f, h, s)]
    BY <2>3
  <2> HIDE DEF h
  <2> QED BY <2>4 DEF Accumulates
<1>3. N \in SUBSET Nat
  OBVIOUS
<1> HIDE DEF N
<1>4. Cardinality(S) \in N
  BY <1>1, <1>2, <1>3, Inductive, FS_CardinalityType
<1>5. Small(S, Cardinality(S)) = SUBSET S
  BY FS_Subset DEF Small
<1> QED BY <1>4, <1>5 DEF N, Accumulator

\* Folds over a set and over a part of it agree where both are defined.
LEMMA AccumulatorsAgree ==
  ASSUME NEW f, NEW S, IsFiniteSet(S), NEW T \in SUBSET S,
         NEW g, Accumulator(g, f, S), NEW h, Accumulator(h, f, T)
  PROVE  g[T] = h[T]
<1> DEFINE N == {n \in Nat : \A s \in SUBSET T : Cardinality(s) <= n => g[s] = h[s]}
<1>1. \A s \in SUBSET T : g[s] = Partial(f, g, s) /\ h[s] = Partial(f, h, s)
  BY DEF Accumulator, Accumulates
<1>2. \A s \in SUBSET T : s \in SUBSET S /\ Cardinality(s) \in Nat
  BY FS_Subset, FS_CardinalityType
<1>3. g[{}] = h[{}]
  BY <1>1 DEF Partial
<1>4. 0 \in N
  <2>1. \A s \in SUBSET T : s # {} => Cardinality(s) >= 1
    BY <1>2, PickFrom
  <2>2. \A s \in SUBSET T : Cardinality(s) <= 0 => s = {}
    BY <1>2, <2>1
  <2> QED BY <1>3, <2>2
<1>5. \A n \in N : n + 1 \in N
  <2> SUFFICES ASSUME NEW n \in N, NEW s \in SUBSET T, Cardinality(s) <= n + 1
               PROVE  g[s] = h[s]
    OBVIOUS
  <2> SUFFICES ASSUME s # {} PROVE g[s] = h[s]
    BY <1>3
  <2>1. Cardinality(s \ {Pick(s)}) <= n
    BY <1>2, PickFrom
  <2>2. s \ {Pick(s)} \in SUBSET T
    OBVIOUS
  <2>3. g[s \ {Pick(s)}] = h[s \ {Pick(s)}]
    BY <2>1, <2>2
  <2> QED BY <1>1, <2>3 DEF Partial
<1>6. N \in SUBSET Nat
  OBVIOUS
<1> HIDE DEF N
<1>7. \A n \in Nat : n \in N
  BY <1>4, <1>5, <1>6, Inductive
<1>8. T \in SUBSET T
  OBVIOUS
<1> QED BY <1>2, <1>7, <1>8 DEF N

-----------------------------------------------------------------------------
(***************************************************************************)
(* Sums of a function's values over a finite set.                          *)
(***************************************************************************)

\* The sum is what some accumulator has for the whole set.
LEMMA SumAccumulated ==
  ASSUME NEW f, NEW S, IsFiniteSet(S)
  PROVE  \E g : Accumulator(g, f, S) /\ SumFunctionOnSet(f, S) = g[S]
<1>1. SumFunctionOnSet(f, S) = (CHOOSE g : Accumulator(g, f, S))[S]
  BY DEF SumFunctionOnSet, FoldFunctionOnSet, MapThenFoldSet, Accumulator, Accumulates, Partial, Pick
<1>2. Accumulator(CHOOSE g : Accumulator(g, f, S), f, S)
  BY AccumulatorExists
<1> QED BY <1>1, <1>2

\* Nothing to add up.
LEMMA SumEmpty ==
  ASSUME NEW f
  PROVE  SumFunctionOnSet(f, {}) = 0
<1>1. PICK g : Accumulator(g, f, {}) /\ SumFunctionOnSet(f, {}) = g[{}]
  BY SumAccumulated, FS_EmptySet
<1>2. {} \in SUBSET {}
  OBVIOUS
<1> QED BY <1>1, <1>2 DEF Accumulator, Accumulates, Partial

\* One step of the fold.
LEMMA SumPick ==
  ASSUME NEW f, NEW S, IsFiniteSet(S), S # {}
  PROVE  SumFunctionOnSet(f, S) = f[Pick(S)] + SumFunctionOnSet(f, S \ {Pick(S)})
<1> DEFINE T == S \ {Pick(S)}
<1>1. T \in SUBSET S /\ S \in SUBSET S /\ T \in SUBSET T
  OBVIOUS
<1>2. IsFiniteSet(T)
  BY <1>1, FS_Subset
<1>3. PICK g : Accumulator(g, f, S) /\ SumFunctionOnSet(f, S) = g[S]
  BY SumAccumulated
<1>4. PICK h : Accumulator(h, f, T) /\ SumFunctionOnSet(f, T) = h[T]
  BY <1>2, SumAccumulated
<1>5. g[S] = f[Pick(S)] + g[T]
  BY <1>1, <1>3 DEF Accumulator, Accumulates, Partial
<1> HIDE DEF T
<1>6. g[T] = h[T]
  <2>1. T \in SUBSET S /\ Accumulator(g, f, S) /\ Accumulator(h, f, T)
    BY <1>1, <1>3, <1>4
  <2> QED BY <2>1, AccumulatorsAgree
<1> QED BY <1>3, <1>4, <1>5, <1>6 DEF T

\* Induction over the subsets of a finite set, by size.
LEMMA SubsetInduction ==
  ASSUME NEW S, IsFiniteSet(S), NEW Q \in SUBSET SUBSET S,
         {} \in Q,
         \A s \in SUBSET S : s # {} /\ (\A x \in s : s \ {x} \in Q) => s \in Q
  PROVE  \A s \in SUBSET S : s \in Q
<1> DEFINE N == {n \in Nat : \A s \in SUBSET S : Cardinality(s) <= n => s \in Q}
<1>1. \A s \in SUBSET S : IsFiniteSet(s) /\ Cardinality(s) \in Nat
  BY FS_Subset, FS_CardinalityType
<1>2. 0 \in N
  <2>1. \A s \in SUBSET S : s # {} => Cardinality(s) >= 1
    BY <1>1, PickFrom
  <2>2. \A s \in SUBSET S : Cardinality(s) <= 0 => s = {}
    BY <1>1, <2>1
  <2> QED BY <2>2
<1>3. \A n \in N : n + 1 \in N
  <2> SUFFICES ASSUME NEW n \in N, NEW s \in SUBSET S, Cardinality(s) <= n + 1
               PROVE  s \in Q
    OBVIOUS
  <2> SUFFICES ASSUME s # {} PROVE s \in Q
    OBVIOUS
  <2>1. \A x \in s : Cardinality(s \ {x}) = Cardinality(s) - 1
    BY <1>1, FS_RemoveElement
  <2>2. n \in Nat /\ Cardinality(s) \in Nat
    BY <1>1
  <2>3. \A x \in s : Cardinality(s \ {x}) <= n /\ s \ {x} \in SUBSET S
    BY <2>1, <2>2
  <2>4. \A x \in s : s \ {x} \in Q
    BY <2>3
  <2> QED BY <2>4
<1>4. N \in SUBSET Nat
  OBVIOUS
<1> HIDE DEF N
<1>5. \A n \in Nat : n \in N
  BY <1>2, <1>3, <1>4, Inductive
<1> QED BY <1>1, <1>5 DEF N

\* Sums of integers are integers.
LEMMA SumInt ==
  ASSUME NEW S, IsFiniteSet(S), NEW f, \A x \in S : f[x] \in Int
  PROVE  SumFunctionOnSet(f, S) \in Int
<1> DEFINE Q == {s \in SUBSET S : SumFunctionOnSet(f, s) \in Int}
<1>1. {} \in Q
  BY SumEmpty
<1>2. \A s \in SUBSET S : s # {} /\ (\A x \in s : s \ {x} \in Q) => s \in Q
  <2> SUFFICES ASSUME NEW s \in SUBSET S, s # {}, \A x \in s : s \ {x} \in Q
               PROVE  SumFunctionOnSet(f, s) \in Int
    OBVIOUS
  <2>1. Pick(s) \in s /\ IsFiniteSet(s)
    BY PickFrom
  <2>2. SumFunctionOnSet(f, s) = f[Pick(s)] + SumFunctionOnSet(f, s \ {Pick(s)})
    BY <2>1, SumPick
  <2>3. f[Pick(s)] \in Int /\ SumFunctionOnSet(f, s \ {Pick(s)}) \in Int
    BY <2>1
  <2> QED BY <2>2, <2>3
<1>3. Q \in SUBSET SUBSET S
  OBVIOUS
<1> HIDE DEF Q
<1>4. S \in Q
  BY <1>1, <1>2, <1>3, SubsetInduction
<1> QED BY <1>4 DEF Q

\* Any element may be taken out first.
LEMMA SumRemove ==
  ASSUME NEW S, IsFiniteSet(S), NEW f, \A x \in S : f[x] \in Int, NEW z \in S
  PROVE  SumFunctionOnSet(f, S) = f[z] + SumFunctionOnSet(f, S \ {z})
<1> DEFINE Q == {s \in SUBSET S : \A x \in s :
                    SumFunctionOnSet(f, s) = f[x] + SumFunctionOnSet(f, s \ {x})}
<1>1. {} \in Q
  OBVIOUS
<1>2. \A s \in SUBSET S : s # {} /\ (\A x \in s : s \ {x} \in Q) => s \in Q
  <2> SUFFICES ASSUME NEW s \in SUBSET S, s # {}, \A x \in s : s \ {x} \in Q, NEW x \in s
               PROVE  SumFunctionOnSet(f, s) = f[x] + SumFunctionOnSet(f, s \ {x})
    OBVIOUS
  <2> DEFINE y == Pick(s)
  <2>1. y \in s /\ IsFiniteSet(s)
    BY PickFrom
  <2>2. SumFunctionOnSet(f, s) = f[y] + SumFunctionOnSet(f, s \ {y})
    BY <2>1, SumPick
  <2> HIDE DEF y
  <2>3. CASE x = y
    BY <2>2, <2>3
  <2>4. CASE x # y
    <3> DEFINE U == (s \ {x}) \ {y}
    <3>1. (s \ {y}) \ {x} = U
      OBVIOUS
    <3>2. IsFiniteSet(U) /\ \A i \in U : f[i] \in Int
      BY <2>1, FS_RemoveElement
    <3>3. SumFunctionOnSet(f, s \ {x}) = f[y] + SumFunctionOnSet(f, U)
      BY <2>1, <2>4
    <3> HIDE DEF U
    <3>4. SumFunctionOnSet(f, s \ {y}) = f[x] + SumFunctionOnSet(f, U)
      BY <2>1, <2>4, <3>1
    <3>5. SumFunctionOnSet(f, U) \in Int /\ f[x] \in Int /\ f[y] \in Int
      BY <2>1, <3>2, SumInt
    <3> QED BY <2>2, <3>3, <3>4, <3>5
  <2> QED BY <2>3, <2>4
<1>3. Q \in SUBSET SUBSET S
  OBVIOUS
<1> HIDE DEF Q
<1>4. S \in Q
  BY <1>1, <1>2, <1>3, SubsetInduction
<1> QED BY <1>4 DEF Q

\* An element more.
LEMMA SumAdd ==
  ASSUME NEW S, IsFiniteSet(S), NEW f, NEW z, z \notin S, \A x \in S \cup {z} : f[x] \in Int
  PROVE  SumFunctionOnSet(f, S \cup {z}) = f[z] + SumFunctionOnSet(f, S)
<1> DEFINE T == S \cup {z}
<1>1. IsFiniteSet(T) /\ z \in T /\ \A x \in T : f[x] \in Int
  BY FS_AddElement
<1>2. T \ {z} = S
  OBVIOUS
<1> HIDE DEF T
<1>3. SumFunctionOnSet(f, T) = f[z] + SumFunctionOnSet(f, T \ {z})
  BY <1>1, SumRemove
<1> QED BY <1>2, <1>3 DEF T

\* Sums of natural numbers are natural numbers.
LEMMA SumNat ==
  ASSUME NEW S, IsFiniteSet(S), NEW f, \A x \in S : f[x] \in Nat
  PROVE  SumFunctionOnSet(f, S) \in Nat
<1> DEFINE Q == {s \in SUBSET S : SumFunctionOnSet(f, s) \in Nat}
<1>1. {} \in Q
  BY SumEmpty
<1>2. \A s \in SUBSET S : s # {} /\ (\A x \in s : s \ {x} \in Q) => s \in Q
  <2> SUFFICES ASSUME NEW s \in SUBSET S, s # {}, \A x \in s : s \ {x} \in Q
               PROVE  SumFunctionOnSet(f, s) \in Nat
    OBVIOUS
  <2>1. Pick(s) \in s /\ IsFiniteSet(s)
    BY PickFrom
  <2>2. SumFunctionOnSet(f, s) = f[Pick(s)] + SumFunctionOnSet(f, s \ {Pick(s)})
    BY <2>1, SumPick
  <2>3. f[Pick(s)] \in Nat /\ SumFunctionOnSet(f, s \ {Pick(s)}) \in Nat
    BY <2>1
  <2> QED BY <2>2, <2>3
<1>3. Q \in SUBSET SUBSET S
  OBVIOUS
<1> HIDE DEF Q
<1>4. S \in Q
  BY <1>1, <1>2, <1>3, SubsetInduction
<1> QED BY <1>4 DEF Q

\* Only the values on the set matter.
LEMMA SumSame ==
  ASSUME NEW S, IsFiniteSet(S), NEW f, NEW g, \A x \in S : f[x] = g[x]
  PROVE  SumFunctionOnSet(f, S) = SumFunctionOnSet(g, S)
<1> DEFINE Q == {s \in SUBSET S : SumFunctionOnSet(f, s) = SumFunctionOnSet(g, s)}
<1>1. {} \in Q
  BY SumEmpty
<1>2. \A s \in SUBSET S : s # {} /\ (\A x \in s : s \ {x} \in Q) => s \in Q
  <2> SUFFICES ASSUME NEW s \in SUBSET S, s # {}, \A x \in s : s \ {x} \in Q
               PROVE  SumFunctionOnSet(f, s) = SumFunctionOnSet(g, s)
    OBVIOUS
  <2>1. Pick(s) \in s /\ IsFiniteSet(s)
    BY PickFrom
  <2>2. /\ SumFunctionOnSet(f, s) = f[Pick(s)] + SumFunctionOnSet(f, s \ {Pick(s)})
        /\ SumFunctionOnSet(g, s) = g[Pick(s)] + SumFunctionOnSet(g, s \ {Pick(s)})
    BY <2>1, SumPick
  <2>3. /\ f[Pick(s)] = g[Pick(s)]
        /\ SumFunctionOnSet(f, s \ {Pick(s)}) = SumFunctionOnSet(g, s \ {Pick(s)})
    BY <2>1
  <2> QED BY <2>2, <2>3
<1>3. Q \in SUBSET SUBSET S
  OBVIOUS
<1> HIDE DEF Q
<1>4. S \in Q
  BY <1>1, <1>2, <1>3, SubsetInduction
<1> QED BY <1>4 DEF Q

\* The sum over two disjoint sets.
LEMMA SumUnion ==
  ASSUME NEW S, IsFiniteSet(S), NEW T, IsFiniteSet(T), S \cap T = {},
         NEW f, \A x \in S \cup T : f[x] \in Int
  PROVE  SumFunctionOnSet(f, S \cup T) = SumFunctionOnSet(f, S) + SumFunctionOnSet(f, T)
<1> DEFINE Q == {s \in SUBSET S :
                   SumFunctionOnSet(f, s \cup T) = SumFunctionOnSet(f, s) + SumFunctionOnSet(f, T)}
<1>t. SumFunctionOnSet(f, T) \in Int
  BY SumInt
<1>1. {} \in Q
  <2>1. {} \cup T = T
    OBVIOUS
  <2> QED BY <1>t, <2>1, SumEmpty
<1>2. \A s \in SUBSET S : s # {} /\ (\A x \in s : s \ {x} \in Q) => s \in Q
  <2> SUFFICES ASSUME NEW s \in SUBSET S, s # {}, \A x \in s : s \ {x} \in Q
               PROVE  SumFunctionOnSet(f, s \cup T)
                        = SumFunctionOnSet(f, s) + SumFunctionOnSet(f, T)
    OBVIOUS
  <2>1. PICK x \in s : TRUE
    OBVIOUS
  <2> DEFINE r == s \ {x}
             U == s \cup T
  <2>2. IsFiniteSet(s) /\ IsFiniteSet(U) /\ IsFiniteSet(r)
    BY FS_Subset, FS_Union, FS_RemoveElement
  <2>3. /\ x \in U /\ U \ {x} = r \cup T
        /\ \A i \in U : f[i] \in Int
        /\ \A i \in s : f[i] \in Int
        /\ \A i \in r : f[i] \in Int
    OBVIOUS
  <2>4. SumFunctionOnSet(f, r \cup T) = SumFunctionOnSet(f, r) + SumFunctionOnSet(f, T)
    OBVIOUS
  <2>5. SumFunctionOnSet(f, s) = f[x] + SumFunctionOnSet(f, r)
    BY <2>2, <2>3, SumRemove
  <2> HIDE DEF U
  <2>6. SumFunctionOnSet(f, U) = f[x] + SumFunctionOnSet(f, U \ {x})
    BY <2>2, <2>3, SumRemove
  <2> HIDE DEF r
  <2>7. SumFunctionOnSet(f, r) \in Int /\ f[x] \in Int
    BY <2>2, <2>3, SumInt
  <2>8. SumFunctionOnSet(f, U) = f[x] + (SumFunctionOnSet(f, r) + SumFunctionOnSet(f, T))
    BY <2>3, <2>4, <2>6, Zenon
  <2>9. SumFunctionOnSet(f, U) = SumFunctionOnSet(f, s) + SumFunctionOnSet(f, T)
    BY <1>t, <2>5, <2>7, <2>8
  <2> QED BY <2>9 DEF U
<1>3. Q \in SUBSET SUBSET S
  OBVIOUS
<1> HIDE DEF Q
<1>4. S \in Q
  BY <1>1, <1>2, <1>3, SubsetInduction
<1> QED BY <1>4 DEF Q

\* With natural numbers a larger set has no smaller sum ...
LEMMA SumMonotone ==
  ASSUME NEW S, IsFiniteSet(S), NEW T \in SUBSET S, NEW f, \A x \in S : f[x] \in Nat
  PROVE  SumFunctionOnSet(f, T) <= SumFunctionOnSet(f, S)
<1> DEFINE D == S \ T
<1>1. IsFiniteSet(T) /\ IsFiniteSet(D) /\ T \cap D = {} /\ T \cup D = S
  BY FS_Subset, FS_Difference
<1>2. (\A x \in T : f[x] \in Nat) /\ (\A x \in D : f[x] \in Nat)
  OBVIOUS
<1> HIDE DEF D
<1>3. SumFunctionOnSet(f, T) \in Nat /\ SumFunctionOnSet(f, D) \in Nat
  BY <1>1, <1>2, SumNat
<1>4. \A x \in T \cup D : f[x] \in Int
  BY <1>2
<1>5. SumFunctionOnSet(f, T \cup D) = SumFunctionOnSet(f, T) + SumFunctionOnSet(f, D)
  BY <1>1, <1>4, SumUnion
<1>6. SumFunctionOnSet(f, S) = SumFunctionOnSet(f, T) + SumFunctionOnSet(f, D)
  BY <1>1, <1>5, Zenon
<1> QED BY <1>3, <1>6

\* ... and a set covered by two has no larger sum than both together.
LEMMA SumCovered ==
  ASSUME NEW S, IsFiniteSet(S), NEW T, IsFiniteSet(T), NEW U, U \subseteq S \cup T,
         NEW f, \A x \in S \cup T : f[x] \in Nat
  PROVE  SumFunctionOnSet(f, U) <= SumFunctionOnSet(f, S) + SumFunctionOnSet(f, T)
<1> DEFINE D == T \ S
           C == S \cup T
<1>1. IsFiniteSet(C) /\ IsFiniteSet(D) /\ S \cap D = {} /\ S \cup D = C /\ D \in SUBSET T
  BY FS_Union, FS_Difference
<1>2. U \in SUBSET C /\ \A x \in C : f[x] \in Nat
  OBVIOUS
<1>3. (\A x \in S : f[x] \in Nat) /\ (\A x \in T : f[x] \in Nat) /\ (\A x \in D : f[x] \in Nat)
  OBVIOUS
<1> HIDE DEF C, D
<1>4. SumFunctionOnSet(f, U) <= SumFunctionOnSet(f, C)
  BY <1>1, <1>2, SumMonotone
<1>5. SumFunctionOnSet(f, D) <= SumFunctionOnSet(f, T)
  BY <1>1, <1>3, SumMonotone
<1>6. SumFunctionOnSet(f, S \cup D) = SumFunctionOnSet(f, S) + SumFunctionOnSet(f, D)
  <2>1. \A x \in S \cup D : f[x] \in Int
    BY <1>3
  <2> QED BY <1>1, <2>1, SumUnion
<1>7. /\ SumFunctionOnSet(f, S) \in Nat /\ SumFunctionOnSet(f, T) \in Nat
      /\ SumFunctionOnSet(f, D) \in Nat /\ SumFunctionOnSet(f, C) \in Nat
  BY <1>1, <1>2, <1>3, SumNat
<1>8. IsFiniteSet(U) /\ SumFunctionOnSet(f, U) \in Nat
  <2>1. IsFiniteSet(U) /\ \A x \in U : f[x] \in Nat
    BY <1>1, <1>2, FS_Subset
  <2> QED BY <2>1, SumNat
<1>9. SumFunctionOnSet(f, C) = SumFunctionOnSet(f, S) + SumFunctionOnSet(f, D)
  BY <1>1, <1>6, Zenon
<1> QED BY <1>4, <1>5, <1>7, <1>8, <1>9

=============================================================================
