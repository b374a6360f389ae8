------------------------------ MODULE NatLemmas ------------------------------
(***************************************************************************)
(* Extreme elements of sets of naturals, and sums over finite sets.        *)
(*                                                                         *)
(* The kernel's tables are searched upwards for the first entry that fits  *)
(* and downwards for the last one in use; the proofs need to know that     *)
(* such an entry exists.                                                   *)
(***************************************************************************)
EXTENDS Integers, FiniteSetTheorems, WellFoundedInduction, TLAPS

\* A set of naturals that is not empty has a least element: an upward search
\* of a table that finds something finds a first one.
LEMMA MinExists ==
  ASSUME NEW S \in SUBSET Nat, S # {}
  PROVE  \E x \in S : \A y \in S : x <= y
<1>1. IsWellFoundedOn(OpToRel(<, Nat), Nat)
  BY NatLessThanWellFounded
<1>2. PICK x \in S : \A y \in S : ~ (<<y, x>> \in OpToRel(<, Nat))
  BY <1>1, WFMin
<1>3. ASSUME NEW y \in S PROVE x <= y
  <2>1. <<y, x>> \notin OpToRel(<, Nat)
    BY <1>2
  <2>2. ~(y < x)
    BY <2>1 DEF OpToRel
  <2> QED BY <2>2
<1> QED BY <1>2, <1>3

\* A set of naturals with an upper bound has a greatest element: the downward
\* search of hwapi_proc_remove for the last used entry.
LEMMA MaxExists ==
  ASSUME NEW N \in Nat, NEW S \in SUBSET (0..N), S # {}
  PROVE  \E x \in S : \A y \in S : y <= x
<1> DEFINE T == {N - y : y \in S}
<1>1. T \in SUBSET Nat
  OBVIOUS
<1>2. T # {}
  OBVIOUS
<1>3. PICK z \in T : \A y \in T : z <= y
  <2> HIDE DEF T
  <2> QED BY <1>1, <1>2, MinExists
<1>4. PICK x \in S : z = N - x
  OBVIOUS
<1>5. ASSUME NEW y \in S PROVE y <= x
  <2>1. N - y \in T
    OBVIOUS
  <2>2. N - x <= N - y
    BY <2>1, <1>3, <1>4
  <2>3. N \in Int /\ x \in Int /\ y \in Int
    OBVIOUS
  <2> QED BY <2>2, <2>3
<1> QED BY <1>5

-----------------------------------------------------------------------------
(* Sums over finite sets.  The books of HWMAN are sums over the objects    *)
(* that are loaded.  SumOf(g, S) adds up g[x] for all x in S, picking one  *)
(* after the other as MapThenSumSet does; the lemmas say that the order    *)
(* does not matter.                                                        *)

Pick(s) == CHOOSE x \in s : TRUE
Summed(f, g, S) == [s \in SUBSET S |-> IF s = {} THEN 0 ELSE g[Pick(s)] + f[s \ {Pick(s)}]]
SumOf(g, S) == (CHOOSE f : f = Summed(f, g, S))[S]

\* Of some subsets of a finite set one has no element without which it is one of
\* them too.
LEMMA SmallestSet ==
  ASSUME NEW S, IsFiniteSet(S), NEW B \in SUBSET (SUBSET S), B # {}
  PROVE  \E T \in B : IsFiniteSet(T) /\ \A x \in T : T \ {x} \notin B
<1> DEFINE N == {Cardinality(T) : T \in B}
<1>1. \A T \in B : IsFiniteSet(T) /\ Cardinality(T) \in Nat
  BY FS_Subset, FS_CardinalityType
<1>2. N \in SUBSET Nat /\ N # {}
  BY <1>1
<1> HIDE DEF N
<1>3. PICK n \in N : \A k \in N : n <= k
  BY <1>2, MinExists
<1>4. PICK T \in B : Cardinality(T) = n
  BY DEF N
<1>5. ASSUME NEW x \in T, T \ {x} \in B
      PROVE  FALSE
  <2>1. Cardinality(T \ {x}) = Cardinality(T) - 1
    BY <1>1, FS_RemoveElement
  <2>2. Cardinality(T \ {x}) \in N
    BY <1>5 DEF N
  <2> QED BY <1>1, <1>3, <1>4, <2>1, <2>2
<1> QED BY <1>1, <1>5

\* The values of a function on a finite set have a bound.
LEMMA FiniteBounded ==
  ASSUME NEW f, NEW S, IsFiniteSet(S), \A x \in S : f[x] \in Nat
  PROVE  \E n \in Nat : \A x \in S : f[x] <= n
<1> DEFINE B == {T \in SUBSET S : ~\E n \in Nat : \A x \in T : f[x] <= n}
<1>1. ASSUME B # {} PROVE FALSE
  <2>1. B \in SUBSET (SUBSET S)
    OBVIOUS
  <2>2. PICK T \in B : \A x \in T : T \ {x} \notin B
    <3> HIDE DEF B
    <3> QED BY <1>1, <2>1, SmallestSet
  <2>3. /\ T \subseteq S
        /\ ~\E n \in Nat : \A x \in T : f[x] <= n
        /\ \A x \in T : \E n \in Nat : \A y \in T \ {x} : f[y] <= n
    BY <2>2
  <2> HIDE DEF B
  <2>4. PICK x : x \in T
    BY <2>3
  <2>5. PICK n \in Nat : \A y \in T \ {x} : f[y] <= n
    BY <2>3, <2>4
  <2>6. f[x] \in Nat /\ \A y \in T : f[y] \in Nat
    BY <2>3, <2>4
  <2>7. \A y \in T : f[y] <= n + f[x]
    BY <2>5, <2>6
  <2> QED BY <2>3, <2>6, <2>7
<1> QED BY <1>1

LEMMA PickIn == ASSUME NEW s, s # {} PROVE Pick(s) \in s
BY DEF Pick

\* There is a function that sums up as it should: on the subsets of up to n
\* elements for every n, and so on all of them.
LEMMA SummedExists ==
  ASSUME NEW g, NEW S, IsFiniteSet(S)
  PROVE  \E f : f = Summed(f, g, S)
<1> DEFINE D(k) == {s \in SUBSET S : Cardinality(s) <= k}
           Sums(f, k) == [s \in D(k) |-> IF s = {} THEN 0 ELSE g[Pick(s)] + f[s \ {Pick(s)}]]
           B == {k \in Nat : ~\E f : f = Sums(f, k)}
<1>1. \A s \in SUBSET S : IsFiniteSet(s) /\ Cardinality(s) \in Nat
  BY FS_Subset, FS_CardinalityType
<1>2. ASSUME B # {} PROVE FALSE
  <2>1. PICK k \in B : \A j \in B : k <= j
    <3>1. B \in SUBSET Nat
      OBVIOUS
    <3> HIDE DEF B
    <3> QED BY <1>2, <3>1, MinExists
  <2>2. k # 0
    <3> SUFFICES ASSUME k = 0 PROVE FALSE
      OBVIOUS
    <3> DEFINE f == [s \in D(0) |-> 0]
    <3>1. \A s \in D(0) : s = {}
      BY <1>1, FS_EmptySet
    <3>2. f = Sums(f, 0)
      BY <3>1
    <3> QED BY <3>2
  <2>3. k - 1 \in Nat /\ k - 1 \notin B
    <3>1. k \in Nat
      OBVIOUS
    <3> HIDE DEF B
    <3> QED BY <2>1, <2>2, <3>1
  <2>4. PICK f : f = Sums(f, k - 1)
    BY <2>3
  <2> DEFINE h == Sums(f, k)
  <2>5. ASSUME NEW s \in D(k), s # {}
        PROVE  h[s \ {Pick(s)}] = f[s \ {Pick(s)}]
    <3> DEFINE t == s \ {Pick(s)}
    <3>1. Pick(s) \in s
      BY <2>5, PickIn
    <3>2. Cardinality(t) = Cardinality(s) - 1 /\ Cardinality(s) \in Nat /\ Cardinality(s) <= k
      BY <1>1, <3>1, FS_RemoveElement
    <3>3. t \in D(k - 1) /\ t \in D(k)
      BY <3>2, <2>3
    <3> HIDE DEF t, D
    <3>4. f[t] = IF t = {} THEN 0 ELSE g[Pick(t)] + f[t \ {Pick(t)}]
      BY <2>4, <3>3
    <3>5. h[t] = IF t = {} THEN 0 ELSE g[Pick(t)] + f[t \ {Pick(t)}]
      BY <3>3
    <3> QED BY <3>4, <3>5 DEF t
  <2>6. h = Sums(h, k)
    <3> HIDE DEF D
    <3>1. h = [s \in D(k) |-> IF s = {} THEN 0 ELSE g[Pick(s)] + f[s \ {Pick(s)}]]
      OBVIOUS
    <3> HIDE DEF h
    <3> QED BY <2>5, <3>1
  <2>7. k \notin B
    BY <2>6
  <2> QED BY <2>1, <2>7
<1> DEFINE n == Cardinality(S)
<1>3. n \in Nat
  BY FS_CardinalityType
<1>4. PICK f : f = Sums(f, n)
  <2> HIDE DEF n
  <2> QED BY <1>2, <1>3
<1>5. D(n) = SUBSET S
  BY FS_Subset
<1> HIDE DEF D, n
<1>6. f = Summed(f, g, S)
  BY <1>4, <1>5 DEF Summed
<1> QED BY <1>6

\* Two such functions agree on a set on which what they add up agrees.
LEMMA SummedUnique ==
  ASSUME NEW f, NEW g, NEW S, f = Summed(f, g, S),
         NEW f1, NEW g1, NEW S1, f1 = Summed(f1, g1, S1),
         NEW U, IsFiniteSet(U), U \subseteq S, U \subseteq S1, \A x \in U : g[x] = g1[x]
  PROVE  f[U] = f1[U]
<1> DEFINE B == {T \in SUBSET U : f[T] # f1[T]}
<1>1. ASSUME B # {} PROVE FALSE
  <2>1. B \in SUBSET (SUBSET U)
    OBVIOUS
  <2>2. PICK T \in B : \A x \in T : T \ {x} \notin B
    <3> HIDE DEF B
    <3> QED BY <1>1, <2>1, SmallestSet
  <2>3. T \subseteq U /\ T \in SUBSET S /\ T \in SUBSET S1 /\ f[T] # f1[T]
    OBVIOUS
  <2>4. /\ f[T] = IF T = {} THEN 0 ELSE g[Pick(T)] + f[T \ {Pick(T)}]
        /\ f1[T] = IF T = {} THEN 0 ELSE g1[Pick(T)] + f1[T \ {Pick(T)}]
    BY <2>3 DEF Summed
  <2>5. T # {}
    BY <2>3, <2>4
  <2>6. Pick(T) \in T
    BY <2>5, PickIn
  <2>7. f[T \ {Pick(T)}] = f1[T \ {Pick(T)}]
    BY <2>2, <2>3, <2>6
  <2> QED BY <2>3, <2>4, <2>5, <2>6, <2>7
<1> QED BY <1>1

\* The sum is what such a function says.
LEMMA SumIs ==
  ASSUME NEW f, NEW g, NEW S, f = Summed(f, g, S), IsFiniteSet(S), NEW T \in SUBSET S
  PROVE  SumOf(g, T) = f[T]
<1>1. IsFiniteSet(T)
  BY FS_Subset
<1> DEFINE h == CHOOSE h : h = Summed(h, g, T)
<1>2. h = Summed(h, g, T)
  BY <1>1, SummedExists
<1> HIDE DEF h
<1>3. h[T] = f[T]
  BY <1>1, <1>2, SummedUnique
<1> QED BY <1>3 DEF SumOf, h

\* Nothing adds up to 0, and what is added up may be any function that has the
\* same values.
LEMMA SumEmpty == \A g : SumOf(g, {}) = 0
<1> SUFFICES ASSUME NEW g PROVE SumOf(g, {}) = 0
  OBVIOUS
<1>1. PICK f : f = Summed(f, g, {})
  BY SummedExists, FS_EmptySet
<1>2. f[{}] = 0
  BY <1>1 DEF Summed
<1> QED BY <1>1, <1>2, SumIs, FS_EmptySet

LEMMA SumSame ==
  ASSUME NEW g, NEW g1, NEW S, IsFiniteSet(S), \A x \in S : g[x] = g1[x]
  PROVE  SumOf(g, S) = SumOf(g1, S)
<1>1. PICK f : f = Summed(f, g, S)
  BY SummedExists
<1>2. PICK f1 : f1 = Summed(f1, g1, S)
  BY SummedExists
<1>3. f[S] = f1[S]
  BY <1>1, <1>2, SummedUnique
<1> QED BY <1>1, <1>2, <1>3, SumIs

\* A sum of integers is an integer.
LEMMA SumInt ==
  ASSUME NEW g, NEW S, IsFiniteSet(S), \A x \in S : g[x] \in Int
  PROVE  SumOf(g, S) \in Int
<1> DEFINE B == {T \in SUBSET S : SumOf(g, T) \notin Int}
<1>1. PICK f : f = Summed(f, g, S)
  BY SummedExists
<1>2. ASSUME B # {} PROVE FALSE
  <2>1. B \in SUBSET (SUBSET S)
    OBVIOUS
  <2>2. PICK T \in B : \A x \in T : T \ {x} \notin B
    <3> HIDE DEF B
    <3> QED BY <1>2, <2>1, SmallestSet
  <2>3. SumOf(g, T) = IF T = {} THEN 0 ELSE g[Pick(T)] + f[T \ {Pick(T)}]
    <3>1. SumOf(g, T) = f[T]
      BY <1>1, SumIs
    <3>2. f[T] = IF T = {} THEN 0 ELSE g[Pick(T)] + f[T \ {Pick(T)}]
      BY <1>1 DEF Summed
    <3> QED BY <3>1, <3>2
  <2>4. T # {} /\ Pick(T) \in T
    BY <2>3, PickIn
  <2>5. T \ {Pick(T)} \in SUBSET S /\ SumOf(g, T \ {Pick(T)}) \in Int
    BY <2>2, <2>4
  <2>6. f[T \ {Pick(T)}] \in Int
    BY <1>1, <2>5, SumIs
  <2> QED BY <2>3, <2>4, <2>6
<1> QED BY <1>2

\* Whichever element is taken out, the rest and it make up the sum.
LEMMA SumWithout ==
  ASSUME NEW g, NEW S, IsFiniteSet(S), \A x \in S : g[x] \in Int, NEW y \in S
  PROVE  SumOf(g, S) = g[y] + SumOf(g, S \ {y})
<1> DEFINE B == {T \in SUBSET S : \E x \in T : SumOf(g, T) # g[x] + SumOf(g, T \ {x})}
<1>1. PICK f : f = Summed(f, g, S)
  BY SummedExists
<1>2. \A T \in SUBSET S : SumOf(g, T) = f[T] /\ f[T] \in Int
  BY <1>1, SumIs, SumInt, FS_Subset
<1>3. \A T \in SUBSET S : T # {} => Pick(T) \in T /\ f[T] = g[Pick(T)] + f[T \ {Pick(T)}]
  BY <1>1, PickIn DEF Summed
<1>4. ASSUME B # {} PROVE FALSE
  <2>1. B \in SUBSET (SUBSET S)
    OBVIOUS
  <2>2. PICK T \in B : \A x \in T : T \ {x} \notin B
    <3> HIDE DEF B
    <3> QED BY <1>4, <2>1, SmallestSet
  <2>3. T \in SUBSET S
    OBVIOUS
  <2>4. PICK x \in T : SumOf(g, T) # g[x] + SumOf(g, T \ {x})
    OBVIOUS
  <2>5. \A z \in T : \A u \in T \ {z} : f[T \ {z}] = g[u] + f[(T \ {z}) \ {u}]
    <3> SUFFICES ASSUME NEW z \in T, NEW u \in T \ {z}
                 PROVE  f[T \ {z}] = g[u] + f[(T \ {z}) \ {u}]
      OBVIOUS
    <3>1. SumOf(g, T \ {z}) = g[u] + SumOf(g, (T \ {z}) \ {u})
      BY <2>2, <2>3
    <3> QED BY <1>2, <2>3, <3>1
  <2> HIDE DEF B
  <2> DEFINE c == Pick(T)
  <2>6. c \in T /\ f[T] = g[c] + f[T \ {c}]
    BY <1>3, <2>3, <2>4
  <2> HIDE DEF c
  <2>7. f[T] # g[x] + f[T \ {x}]
    BY <1>2, <2>3, <2>4
  <2>8. x # c
    BY <2>6, <2>7
  <2>9. f[T \ {c}] = g[x] + f[(T \ {c}) \ {x}] /\ f[T \ {x}] = g[c] + f[(T \ {x}) \ {c}]
    BY <2>4, <2>5, <2>6, <2>8
  <2>10. (T \ {c}) \ {x} = (T \ {x}) \ {c}
    OBVIOUS
  <2>11. g[x] \in Int /\ g[c] \in Int /\ f[(T \ {c}) \ {x}] \in Int
    BY <1>2, <2>3, <2>4, <2>6
  <2> DEFINE r == f[(T \ {c}) \ {x}]
  <2>12. f[T \ {c}] = g[x] + r /\ f[T \ {x}] = g[c] + r /\ r \in Int
    BY <2>9, <2>10, <2>11
  <2> HIDE DEF r
  <2>13. g[c] + (g[x] + r) = g[x] + (g[c] + r)
    BY <2>11, <2>12
  <2> QED BY <2>6, <2>7, <2>12, <2>13
<1> QED BY <1>4

\* One more element.
LEMMA SumWith ==
  ASSUME NEW g, NEW S, IsFiniteSet(S), NEW y, y \notin S, \A x \in S \cup {y} : g[x] \in Int
  PROVE  SumOf(g, S \cup {y}) = g[y] + SumOf(g, S)
<1>1. IsFiniteSet(S \cup {y}) /\ (S \cup {y}) \ {y} = S
  BY FS_AddElement
<1> QED BY <1>1, SumWithout

\* The sum over two sets that have nothing in common.
LEMMA SumUnion ==
  ASSUME NEW g, NEW S, NEW S1, IsFiniteSet(S), IsFiniteSet(S1), S \cap S1 = {},
         \A x \in S \cup S1 : g[x] \in Int
  PROVE  SumOf(g, S \cup S1) = SumOf(g, S) + SumOf(g, S1)
<1> DEFINE B == {T \in SUBSET S1 : SumOf(g, S \cup T) # SumOf(g, S) + SumOf(g, T)}
<1>1. ASSUME B # {} PROVE FALSE
  <2>1. B \in SUBSET (SUBSET S1)
    OBVIOUS
  <2>2. PICK T \in B : \A x \in T : T \ {x} \notin B
    <3> HIDE DEF B
    <3> QED BY <1>1, <2>1, SmallestSet
  <2>3. T \subseteq S1 /\ SumOf(g, S \cup T) # SumOf(g, S) + SumOf(g, T)
        /\ \A x \in T : SumOf(g, S \cup (T \ {x})) = SumOf(g, S) + SumOf(g, T \ {x})
    BY <2>2
  <2> HIDE DEF B
  <2>4. IsFiniteSet(T) /\ IsFiniteSet(S \cup T)
    BY <2>3, FS_Subset, FS_Union
  <2>5. SumOf(g, S) \in Int
    BY SumInt
  <2>6. CASE T = {}
    BY <2>3, <2>5, <2>6, SumEmpty
  <2>7. CASE T # {}
    <3>1. PICK x : x \in T
      BY <2>7
    <3>2. SumOf(g, T) = g[x] + SumOf(g, T \ {x})
      BY <2>3, <2>4, <3>1, SumWithout
    <3>3. SumOf(g, S \cup T) = g[x] + SumOf(g, (S \cup T) \ {x})
      BY <2>3, <2>4, <3>1, SumWithout
    <3>4. (S \cup T) \ {x} = S \cup (T \ {x})
      BY <2>3, <3>1
    <3>5. g[x] \in Int /\ SumOf(g, T \ {x}) \in Int
      BY <2>3, <2>4, <3>1, FS_RemoveElement, SumInt
    <3> QED BY <2>3, <2>5, <3>1, <3>2, <3>3, <3>4, <3>5
  <2> QED BY <2>6, <2>7
<1> QED BY <1>1

\* The sum over the pairs of something with the elements of a set.
LEMMA SumPairs ==
  ASSUME NEW g, NEW h, NEW S, IsFiniteSet(S), NEW i, NEW R, R = {i} \X S,
         \A x \in S : g[<<i, x>>] = h[x], \A x \in S : h[x] \in Int
  PROVE  SumOf(g, R) = SumOf(h, S)
<1> DEFINE B == {T \in SUBSET S : SumOf(g, {i} \X T) # SumOf(h, T)}
<1>1. ASSUME B # {} PROVE FALSE
  <2>1. B \in SUBSET (SUBSET S)
    OBVIOUS
  <2>2. PICK T \in B : \A x \in T : T \ {x} \notin B
    <3> HIDE DEF B
    <3> QED BY <1>1, <2>1, SmallestSet
  <2>3. T \subseteq S /\ SumOf(g, {i} \X T) # SumOf(h, T)
        /\ \A x \in T : SumOf(g, {i} \X (T \ {x})) = SumOf(h, T \ {x})
    BY <2>2
  <2> HIDE DEF B
  <2>4. IsFiniteSet(T) /\ IsFiniteSet({i} \X T)
    BY <2>3, FS_Subset, FS_Product, FS_Singleton
  <2>5. CASE T = {}
    <3>1. {i} \X T = {}
      BY <2>5
    <3> QED BY <2>3, <2>5, <3>1, SumEmpty
  <2>6. CASE T # {}
    <3>1. PICK x : x \in T
      BY <2>6
    <3>2. SumOf(h, T) = h[x] + SumOf(h, T \ {x})
      <4>1. \A y \in T : h[y] \in Int
        BY <2>3
      <4> QED BY <2>4, <3>1, <4>1, SumWithout
    <3>3. <<i, x>> \in {i} \X T /\ \A y \in {i} \X T : g[y] \in Int
      BY <2>3, <3>1
    <3>4. SumOf(g, {i} \X T) = g[<<i, x>>] + SumOf(g, ({i} \X T) \ {<<i, x>>})
      BY <2>4, <3>3, SumWithout
    <3>5. ({i} \X T) \ {<<i, x>>} = {i} \X (T \ {x})
      OBVIOUS
    <3> QED BY <2>3, <3>1, <3>2, <3>4, <3>5
  <2> QED BY <2>5, <2>6
<1> QED BY <1>1
=============================================================================
