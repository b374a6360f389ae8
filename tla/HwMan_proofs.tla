----------------------------- MODULE HwMan_proofs -----------------------------
(***************************************************************************)
(* The books of HWMAN.  What each loaded waveform uses of a PE is a sum;   *)
(* a waveform more or less changes the sums over all of them by its own.   *)
(* That an instance is never booked twice is the order of the packets      *)
(* between SWMAN and HWMAN, which Deploy_proofs establishes.               *)
(*                                                                         *)
(* Then the types of what the daemons hold.  They hang together: a status  *)
(* in apps_db comes out of a packet and out of an object's entry, an order *)
(* to load out of HWMAN's mapping; and how many objects HWMAN has on a PE  *)
(* is a natural number because the books balance.                          *)
(***************************************************************************)
EXTENDS Deploy_proofs

\* What the list l of waveforms uses of p, as HwMan defines it for loaded.
MineOf(l, p) == {o \in Objects : o[1] \in DOMAIN l /\ o[2] \in On(l[o[1]].at, p)}
CostOf(l, p) == SumOf([o \in MineOf(l, p) |-> File[l[o[1]].name][o[2]].mops], MineOf(l, p))
WireOf(l, p) == SumOf([i \in DOMAIN l |-> Cardinality(InsideOf(l[i].name, l[i].at, p))], DOMAIN l)

\* The lists HWMAN can have.
Placed(l) ==
  /\ DOMAIN l \subseteq Insts
  /\ \A i \in DOMAIN l : l[i].name \in Apps /\ l[i].at \in [Keys(l[i].name) -> PEs]

LEMMA MopsIs ==
  \A a, ks : Mops(a, ks) = SumOf([k \in ks |-> File[a][k].mops], ks)
BY Zenon DEF Mops, MapThenSumSet, MapThenFoldSet, SumOf, Summed, Pick

LEMMA UsedIs ==
  ASSUME NEW p
  PROVE  Mine(p) = MineOf(loaded, p) /\ UsedC(p) = CostOf(loaded, p) /\ UsedBW(p) = WireOf(loaded, p)
<1>1. Mine(p) = MineOf(loaded, p)
  BY Zenon DEF Mine, MineOf
<1>2. UsedC(p) = SumOf([o \in Mine(p) |-> File[loaded[o[1]].name][o[2]].mops], Mine(p))
  BY Zenon DEF UsedC, MapThenSumSet, MapThenFoldSet, SumOf, Summed, Pick
<1>3. UsedBW(p) = WireOf(loaded, p)
  BY Zenon DEF UsedBW, WireOf, MapThenSumSet, MapThenFoldSet, SumOf, Summed, Pick
<1> QED BY <1>1, <1>2, <1>3 DEF CostOf

-----------------------------------------------------------------------------
\* No waveform has more objects than MaxKey says.
LEMMA MaxKeyIs ==
  /\ MaxKey \in Nat
  /\ \A a \in Apps : Len(File[a]) \in Nat /\ Len(File[a]) <= MaxKey
<1> DEFINE f == [a \in Apps |-> Len(File[a])]
           S == {0} \cup {Len(File[a]) : a \in Apps}
<1>1. \A a \in Apps : f[a] \in Nat
  BY FileAssumption
<1>2. PICK n \in Nat : \A a \in Apps : f[a] <= n
  <2> HIDE DEF f
  <2> QED BY <1>1, FileAssumption, FiniteBounded
<1>3. S \in SUBSET (0..n) /\ S # {}
  BY <1>1, <1>2
<1>4. PICK x \in S : \A y \in S : y <= x
  <2> HIDE DEF S
  <2> QED BY <1>3, MaxExists
<1>5. x \in S /\ \A y \in S : x >= y
  BY <1>3, <1>4
<1>6. MaxKey \in S /\ \A y \in S : MaxKey >= y
  BY <1>5 DEF MaxKey, Max
<1> QED BY <1>1, <1>3, <1>6

\* Of one waveform: its objects on a PE and its wires inside it are finitely many.
LEMMA OneApp ==
  ASSUME NEW a \in Apps, NEW at \in [Keys(a) -> PEs], NEW p
  PROVE  /\ On(at, p) \subseteq Keys(a) /\ Keys(a) \subseteq 1..MaxKey
         /\ IsFiniteSet(On(at, p)) /\ Cardinality(On(at, p)) \in Nat
         /\ Mops(a, On(at, p)) \in Int
         /\ Cardinality(InsideOf(a, at, p)) \in Nat /\ Cardinality(Inside(a, at)) \in Nat
         /\ Cardinality(InsideOf(a, at, p)) <= Cardinality(Inside(a, at))
<1>1. /\ Keys(a) = 1..Len(File[a]) /\ Len(File[a]) \in Nat /\ Len(File[a]) <= MaxKey
      /\ MaxKey \in Nat /\ Wires[a] \subseteq Keys(a) \X Keys(a)
      /\ \A k \in Keys(a) : File[a][k].mops \in Nat
  BY FileAssumption, MaxKeyIs
<1>2. On(at, p) \subseteq Keys(a) /\ Keys(a) \subseteq 1..MaxKey
  BY <1>1 DEF On
<1>3. IsFiniteSet(Keys(a))
  BY <1>1, FS_Interval
<1>4. IsFiniteSet(On(at, p)) /\ Cardinality(On(at, p)) \in Nat
  BY <1>2, <1>3, FS_Subset, FS_CardinalityType
<1>5. Mops(a, On(at, p)) \in Int
  <2> DEFINE g == [k \in On(at, p) |-> File[a][k].mops]
  <2>1. \A k \in On(at, p) : g[k] \in Int
    BY <1>1, <1>2
  <2>2. Mops(a, On(at, p)) = SumOf(g, On(at, p))
    BY MopsIs
  <2> HIDE DEF g
  <2> QED BY <1>4, <2>1, <2>2, SumInt
<1>6. IsFiniteSet(Wires[a])
  BY <1>1, <1>3, FS_Product, FS_Subset
<1>7. Inside(a, at) \subseteq Wires[a] /\ InsideOf(a, at, p) \subseteq Inside(a, at)
  BY DEF Inside, InsideOf
<1>8. IsFiniteSet(Inside(a, at)) /\ IsFiniteSet(InsideOf(a, at, p))
  BY <1>6, <1>7, FS_Subset
<1>9. Cardinality(InsideOf(a, at, p)) <= Cardinality(Inside(a, at))
  BY <1>7, <1>8, FS_Subset
<1> QED BY <1>2, <1>4, <1>5, <1>8, <1>9, FS_CardinalityType

\* Of a list: finitely many instances and objects, and what is summed up are
\* integers.
LEMMA OneList ==
  ASSUME NEW l, Placed(l), NEW p
  PROVE  /\ IsFiniteSet(DOMAIN l) /\ IsFiniteSet(MineOf(l, p))
         /\ \A o \in MineOf(l, p) : /\ o = <<o[1], o[2]>> /\ o[1] \in DOMAIN l
                                    /\ l[o[1]].name \in Apps
                                    /\ File[l[o[1]].name][o[2]].mops \in Int
         /\ \A i \in DOMAIN l : Cardinality(InsideOf(l[i].name, l[i].at, p)) \in Nat
<1>1. MaxCalls \in Nat /\ MaxKey \in Nat /\ Insts = 1..MaxCalls
  BY BoundAssumption, MaxKeyIs DEF Insts
<1>2. IsFiniteSet(Objects)
  <2>1. IsFiniteSet(1..MaxCalls) /\ IsFiniteSet(1..MaxKey)
    BY <1>1, FS_Interval
  <2> QED BY <1>1, <2>1, FS_Product DEF Objects
<1>3. IsFiniteSet(DOMAIN l) /\ IsFiniteSet(MineOf(l, p))
  <2>1. IsFiniteSet(1..MaxCalls) /\ DOMAIN l \subseteq 1..MaxCalls
    BY <1>1, FS_Interval DEF Placed
  <2>2. MineOf(l, p) \subseteq Objects
    BY DEF MineOf
  <2> QED BY <1>2, <2>1, <2>2, FS_Subset
<1>4. ASSUME NEW o \in MineOf(l, p)
      PROVE  /\ o = <<o[1], o[2]>> /\ o[1] \in DOMAIN l /\ l[o[1]].name \in Apps
             /\ File[l[o[1]].name][o[2]].mops \in Int
  <2>1. o \in Insts \X (1..MaxKey) /\ o[1] \in DOMAIN l /\ o[2] \in On(l[o[1]].at, p)
    BY DEF MineOf, Objects
  <2>2. l[o[1]].name \in Apps /\ l[o[1]].at \in [Keys(l[o[1]].name) -> PEs]
    BY <2>1 DEF Placed
  <2>3. o[2] \in Keys(l[o[1]].name)
    BY <2>1, <2>2, OneApp
  <2>4. File[l[o[1]].name][o[2]].mops \in Nat
    BY <2>2, <2>3, FileAssumption
  <2> QED BY <2>1, <2>2, <2>4
<1>5. \A i \in DOMAIN l : Cardinality(InsideOf(l[i].name, l[i].at, p)) \in Nat
  BY OneApp DEF Placed
<1> QED BY <1>3, <1>4, <1>5

\* A waveform more adds its own objects, their cost and its wires.
LEMMA OneMore ==
  ASSUME NEW l, NEW l1, Placed(l), Placed(l1), NEW i \in DOMAIN l1,
         DOMAIN l = DOMAIN l1 \ {i}, \A j \in DOMAIN l : l[j] = l1[j], NEW p
  PROVE  LET a  == l1[i].name
             at == l1[i].at
         IN /\ Cardinality(MineOf(l1, p)) = Cardinality(MineOf(l, p)) + Cardinality(On(at, p))
            /\ CostOf(l1, p) = CostOf(l, p) + Mops(a, On(at, p))
            /\ WireOf(l1, p) = WireOf(l, p) + Cardinality(InsideOf(a, at, p))
            /\ Cardinality(MineOf(l, p)) \in Nat
            /\ CostOf(l, p) \in Int /\ WireOf(l, p) \in Int
<1> DEFINE a  == l1[i].name
           at == l1[i].at
           New == {i} \X On(at, p)
           S == MineOf(l, p)
           S1 == MineOf(l1, p)
           cost  == [o \in S |-> File[l[o[1]].name][o[2]].mops]
           cost1 == [o \in S1 |-> File[l1[o[1]].name][o[2]].mops]
           wire  == [j \in DOMAIN l |-> Cardinality(InsideOf(l[j].name, l[j].at, p))]
           wire1 == [j \in DOMAIN l1 |-> Cardinality(InsideOf(l1[j].name, l1[j].at, p))]
<1>1. /\ a \in Apps /\ at \in [Keys(a) -> PEs] /\ i \in Insts
      /\ IsFiniteSet(On(at, p)) /\ Cardinality(On(at, p)) \in Nat /\ On(at, p) \subseteq Keys(a)
      /\ On(at, p) \subseteq 1..MaxKey
  <2>1. a \in Apps /\ at \in [Keys(a) -> PEs] /\ i \in Insts
    BY DEF Placed
  <2> QED BY <2>1, OneApp
<1>2. IsFiniteSet(S) /\ IsFiniteSet(S1) /\ IsFiniteSet(DOMAIN l) /\ IsFiniteSet(DOMAIN l1)
  BY OneList
<1>3. \A o \in S : o[1] \in DOMAIN l /\ o[1] # i
  BY DEF MineOf
<1>4. S1 = S \cup New
  <2>1. \A o \in S : o \in S1
    BY DEF MineOf
  <2>2. \A o \in New : o \in Objects /\ o[1] = i /\ o[2] \in On(at, p)
    BY <1>1 DEF Objects
  <2>3. New \subseteq S1
    BY <2>2 DEF MineOf
  <2>4. ASSUME NEW o \in S1, o \notin S
        PROVE  o \in New
    <3>1. o \in Objects /\ o[1] \in DOMAIN l1 /\ o[2] \in On(l1[o[1]].at, p)
      BY DEF MineOf
    <3>2. o[1] = i
      BY <2>4, <3>1 DEF MineOf
    <3>3. o = <<o[1], o[2]>>
      BY <3>1 DEF Objects
    <3> QED BY <3>1, <3>2, <3>3
  <2> QED BY <2>1, <2>3, <2>4
<1>5. S \cap New = {}
  BY <1>3
<1>6. IsFiniteSet(New) /\ Cardinality(New) = Cardinality(On(at, p))
  <2>1. IsFiniteSet({i}) /\ Cardinality({i}) = 1
    BY FS_Singleton
  <2>2. IsFiniteSet(New) /\ Cardinality(New) = 1 * Cardinality(On(at, p))
    BY <1>1, <2>1, FS_Product
  <2>3. 1 * Cardinality(On(at, p)) = Cardinality(On(at, p))
    BY <1>1
  <2> QED BY <2>2, <2>3
<1>7. Cardinality(S1) = Cardinality(S) + Cardinality(On(at, p)) /\ Cardinality(S) \in Nat
  <2>1. Cardinality(S) \in Nat /\ Cardinality(New) \in Nat
    BY <1>2, <1>6, FS_CardinalityType
  <2>2. Cardinality(S1) = Cardinality(S) + Cardinality(New) - Cardinality(S \cap New)
    BY <1>2, <1>4, <1>6, FS_Union
  <2>3. Cardinality(S \cap New) = 0
    BY <1>5, FS_EmptySet
  <2> HIDE DEF S, S1, New
  <2> QED BY <1>6, <2>1, <2>2, <2>3
<1>8. /\ SumOf(cost1, S1) = SumOf(cost, S) + Mops(a, On(at, p))
      /\ SumOf(cost, S) \in Int
  <2> DEFINE mops == [k \in On(at, p) |-> File[a][k].mops]
  <2>1. (\A o \in S : cost[o] \in Int) /\ (\A o \in S1 : cost1[o] \in Int)
    BY OneList
  <2>2. \A o \in S : cost[o] = cost1[o]
    BY <1>3, <1>4
  <2>3. \A k \in On(at, p) : cost1[<<i, k>>] = mops[k] /\ mops[k] \in Int
    <3> SUFFICES ASSUME NEW k \in On(at, p) PROVE cost1[<<i, k>>] = mops[k] /\ mops[k] \in Int
      OBVIOUS
    <3>1. <<i, k>> \in New
      OBVIOUS
    <3>2. <<i, k>> \in S1
      <4> HIDE DEF S, S1, New
      <4> QED BY <1>4, <3>1
    <3>3. cost1[<<i, k>>] \in Int
      <4> HIDE DEF S1, cost1
      <4> QED BY <2>1, <3>2
    <3>4. cost1[<<i, k>>] = File[l1[<<i, k>>[1]].name][<<i, k>>[2]].mops
      <4> HIDE DEF S1
      <4> QED BY <3>2
    <3>5. mops[k] = File[l1[i].name][k].mops
      OBVIOUS
    <3> QED BY <3>3, <3>4, <3>5
  <2>4. Mops(a, On(at, p)) = SumOf(mops, On(at, p))
    BY MopsIs
  <2> HIDE DEF cost, cost1, mops, S, S1
  <2>5. SumOf(cost1, New) = SumOf(mops, On(at, p))
    <3> DEFINE on == On(at, p)
    <3>1. /\ New = {i} \X on /\ IsFiniteSet(on)
          /\ (\A k \in on : cost1[<<i, k>>] = mops[k]) /\ (\A k \in on : mops[k] \in Int)
      BY <1>1, <2>3
    <3> HIDE DEF on, New
    <3>2. SumOf(cost1, New) = SumOf(mops, on)
      BY <3>1, SumPairs
    <3> QED BY <3>2 DEF on
  <2> HIDE DEF New
  <2>6. SumOf(cost1, S1) = SumOf(cost1, S) + SumOf(cost1, New)
    BY <1>2, <1>4, <1>5, <1>6, <2>1, SumUnion
  <2>7. SumOf(cost, S) = SumOf(cost1, S)
    BY <1>2, <2>2, SumSame
  <2> QED BY <1>2, <2>1, <2>4, <2>5, <2>6, <2>7, SumInt
<1>9. /\ SumOf(wire1, DOMAIN l1) = SumOf(wire, DOMAIN l) + Cardinality(InsideOf(a, at, p))
      /\ SumOf(wire, DOMAIN l) \in Int
  <2>1. (\A j \in DOMAIN l : wire[j] \in Int) /\ (\A j \in DOMAIN l1 : wire1[j] \in Int)
    BY OneList
  <2>2. \A j \in DOMAIN l : wire[j] = wire1[j]
    OBVIOUS
  <2>3. wire1[i] = Cardinality(InsideOf(a, at, p))
    OBVIOUS
  <2> HIDE DEF wire, wire1
  <2>4. SumOf(wire1, DOMAIN l1) = wire1[i] + SumOf(wire1, DOMAIN l)
    BY <1>2, <2>1, SumWithout
  <2>5. SumOf(wire, DOMAIN l) = SumOf(wire1, DOMAIN l)
    BY <1>2, <2>2, SumSame
  <2>6. SumOf(wire, DOMAIN l) \in Int /\ wire1[i] \in Int
    BY <1>2, <2>1, SumInt
  <2> QED BY <2>3, <2>4, <2>5, <2>6
<1> QED BY <1>7, <1>8, <1>9 DEF CostOf, WireOf

-----------------------------------------------------------------------------
\* The books as they are when l is the list of loaded waveforms.
Books(l, n, c, b) ==
  /\ n \in [PEs -> Int] /\ c \in [PEs -> Int] /\ b \in [PEs -> Int]
  /\ \A p \in PEs : /\ n[p] = Cardinality(MineOf(l, p))
                    /\ c[p] = setup.C[p] - CostOf(l, p)
                    /\ b[p] <= TotalBW - WireOf(l, p)

BooksOK == Books(loaded, nof_objects, C, intBW)
BInv == AInv /\ BooksOK

\* Instances are given out in turn, one for each order of the user.
LEMMA PlacedIs ==
  ASSUME NEW q, NEW r, NEW s, NEW l, NEW id, Alike(q, r, s, Names(l), id), id <= MaxCalls + 1,
         \A i \in DOMAIN l : l[i].at \in [Keys(l[i].name) -> PEs]
  PROVE  Placed(l)
<1>1. /\ DOMAIN Names(l) = DOMAIN l
      /\ \A i \in DOMAIN l : Names(l)[i] = l[i].name
  BY NamesAt
<1>2. \A i \in DOMAIN l : i \in Nat \ {0} /\ i < id /\ l[i].name \in Apps
  BY <1>1 DEF Alike, ListOK
<1>3. id \in Nat /\ MaxCalls \in Nat
  BY BoundAssumption DEF Alike
<1> QED BY <1>2, <1>3 DEF Placed, Insts

\* How many instances there can be.
LEMMA Instances ==
  ASSUME NEW su \in Setups, NEW n \in Nat, n <= su.calls, NEW q \in Seq(Orders), NEW id \in Nat,
         id + Len(q) <= n + 1
  PROVE  id <= MaxCalls + 1
<1>1. su.calls \in Nat /\ su.calls <= MaxCalls /\ MaxCalls \in Nat
  BY BoundAssumption
<1>2. Len(q) \in Nat
  BY LenProperties
<1> QED BY <1>1, <1>2

\* A waveform is booked.
LEMMA MappedBooks ==
  ASSUME BooksOK, Placed(loaded), Placed(loaded'), setup.C \in [PEs -> Nat], setup' = setup,
         NEW i, i \notin DOMAIN loaded, NEW a, NEW at, Mapped(i, a, at)
  PROVE  BooksOK'
<1>1. /\ DOMAIN loaded' = DOMAIN loaded \cup {i}
      /\ loaded'[i] = [name |-> a, at |-> at]
      /\ \A j \in DOMAIN loaded : loaded'[j] = loaded[j]
  BY DEF Mapped, With
<1>2. loaded'[i].name = a /\ loaded'[i].at = at
  BY <1>1
<1>3. a \in Apps /\ at \in [Keys(a) -> PEs]
  BY <1>1, <1>2 DEF Placed
<1>4. ASSUME NEW p \in PEs
      PROVE  /\ nof_objects'[p] \in Int /\ nof_objects'[p] = Cardinality(MineOf(loaded', p))
             /\ C'[p] \in Int /\ C'[p] = setup.C[p] - CostOf(loaded', p)
             /\ intBW'[p] \in Int /\ intBW'[p] <= TotalBW - WireOf(loaded', p)
  <2>1. /\ Cardinality(MineOf(loaded', p)) = Cardinality(MineOf(loaded, p)) + Cardinality(On(at, p))
        /\ CostOf(loaded', p) = CostOf(loaded, p) + Mops(a, On(at, p))
        /\ WireOf(loaded', p) = WireOf(loaded, p) + Cardinality(InsideOf(a, at, p))
        /\ Cardinality(MineOf(loaded, p)) \in Nat
        /\ CostOf(loaded, p) \in Int /\ WireOf(loaded, p) \in Int
    <3>1. i \in DOMAIN loaded' /\ DOMAIN loaded = DOMAIN loaded' \ {i}
      BY <1>1
    <3>2. \A j \in DOMAIN loaded : loaded[j] = loaded'[j]
      BY <1>1
    <3> QED BY <1>2, <3>1, <3>2, OneMore
  <2>2. /\ Cardinality(On(at, p)) \in Nat /\ Mops(a, On(at, p)) \in Int
        /\ Cardinality(InsideOf(a, at, p)) \in Nat /\ Cardinality(Inside(a, at)) \in Nat
        /\ Cardinality(InsideOf(a, at, p)) <= Cardinality(Inside(a, at))
    BY <1>3, OneApp
  <2>3. /\ nof_objects[p] = Cardinality(MineOf(loaded, p)) /\ C[p] = setup.C[p] - CostOf(loaded, p)
        /\ intBW[p] \in Int /\ intBW[p] <= TotalBW - WireOf(loaded, p)
    BY DEF BooksOK, Books
  <2>4. /\ nof_objects'[p] = nof_objects[p] + Cardinality(On(at, p))
        /\ C'[p] = C[p] - Mops(a, On(at, p))
        /\ intBW'[p] = intBW[p] - Cardinality(Inside(a, at))
    BY DEF Mapped
  <2>5. setup.C[p] \in Nat /\ TotalBW \in Nat
    BY TotalAssumption
  <2>6. nof_objects'[p] \in Int /\ nof_objects'[p] = Cardinality(MineOf(loaded', p))
    BY <2>1, <2>2, <2>3, <2>4
  <2>7. C'[p] \in Int /\ C'[p] = setup.C[p] - CostOf(loaded', p)
    BY <2>1, <2>2, <2>3, <2>4, <2>5
  <2>8. intBW'[p] \in Int /\ intBW'[p] <= TotalBW - WireOf(loaded', p)
    BY <2>1, <2>2, <2>3, <2>4, <2>5
  <2> QED BY <2>6, <2>7, <2>8
<1>5. nof_objects' \in [PEs -> Int] /\ C' \in [PEs -> Int] /\ intBW' \in [PEs -> Int]
  BY <1>4 DEF Mapped
<1> QED BY <1>4, <1>5 DEF BooksOK, Books

\* A waveform is taken off the books.
LEMMA FreedBooks ==
  ASSUME BooksOK, Placed(loaded), Placed(loaded'), setup.C \in [PEs -> Nat], setup' = setup,
         NEW i \in DOMAIN loaded, Freed(i)
  PROVE  BooksOK'
<1> DEFINE a  == loaded[i].name
           at == loaded[i].at
<1>1. DOMAIN loaded' = DOMAIN loaded \ {i} /\ \A j \in DOMAIN loaded' : loaded'[j] = loaded[j]
  BY DEF Freed, Without, Restrict
<1>2. a \in Apps /\ at \in [Keys(a) -> PEs]
  BY DEF Placed
<1>3. ASSUME NEW p \in PEs
      PROVE  /\ nof_objects'[p] \in Int /\ nof_objects'[p] = Cardinality(MineOf(loaded', p))
             /\ C'[p] \in Int /\ C'[p] = setup.C[p] - CostOf(loaded', p)
             /\ intBW'[p] \in Int /\ intBW'[p] <= TotalBW - WireOf(loaded', p)
  <2>1. /\ Cardinality(MineOf(loaded, p)) = Cardinality(MineOf(loaded', p)) + Cardinality(On(at, p))
        /\ CostOf(loaded, p) = CostOf(loaded', p) + Mops(a, On(at, p))
        /\ WireOf(loaded, p) = WireOf(loaded', p) + Cardinality(InsideOf(a, at, p))
        /\ Cardinality(MineOf(loaded', p)) \in Nat
        /\ CostOf(loaded', p) \in Int /\ WireOf(loaded', p) \in Int
    BY <1>1, OneMore
  <2>2. /\ Cardinality(On(at, p)) \in Nat /\ Mops(a, On(at, p)) \in Int
        /\ Cardinality(InsideOf(a, at, p)) \in Nat
    BY <1>2, OneApp
  <2>3. /\ nof_objects[p] = Cardinality(MineOf(loaded, p)) /\ C[p] = setup.C[p] - CostOf(loaded, p)
        /\ intBW[p] \in Int /\ intBW[p] <= TotalBW - WireOf(loaded, p)
    BY DEF BooksOK, Books
  <2>4. /\ nof_objects'[p] = nof_objects[p] - Cardinality(On(at, p))
        /\ C'[p] = C[p] + Mops(a, On(at, p))
        /\ intBW'[p] = intBW[p] + Cardinality(InsideOf(a, at, p))
    BY DEF Freed
  <2>5. setup.C[p] \in Nat /\ TotalBW \in Nat
    BY TotalAssumption
  <2> HIDE DEF a, at
  <2>6. nof_objects'[p] \in Int /\ nof_objects'[p] = Cardinality(MineOf(loaded', p))
    BY <2>1, <2>2, <2>3, <2>4
  <2>7. C'[p] \in Int /\ C'[p] = setup.C[p] - CostOf(loaded', p)
    BY <2>1, <2>2, <2>3, <2>4, <2>5
  <2>8. intBW'[p] \in Int /\ intBW'[p] <= TotalBW - WireOf(loaded', p)
    BY <2>1, <2>2, <2>3, <2>4, <2>5
  <2> QED BY <2>6, <2>7, <2>8
<1>4. nof_objects' \in [PEs -> Int] /\ C' \in [PEs -> Int] /\ intBW' \in [PEs -> Int]
  BY <1>3 DEF Freed
<1> QED BY <1>3, <1>4 DEF BooksOK, Books

\* The packet that is mapped is about an instance that is not on the books.
LEMMA NewInstance ==
  ASSUME AInv, SwMapper
  PROVE  Packet(SWMAN, HWMAN).inst \notin DOMAIN loaded
<1>1. ch[SH] # <<>> /\ Head(ch[SH]).cmd = "MAPOBJ" /\ Packet(SWMAN, HWMAN) = Head(ch[SH])
  BY DEF SwMapper, Waits, SH, Packet
<1>2. ch[SH] \in Seq(ToHwman) /\ FreshOK(ch[SH], Names(loaded), app_id)
  BY DEF AInv, RoadsOK, ListsOK, Alike
<1>3. 1 \in DOMAIN ch[SH] /\ Head(ch[SH]) = ch[SH][1]
  BY <1>1, <1>2
<1> QED BY <1>1, <1>2, <1>3, NamesAt DEF FreshOK

\* Every step keeps the books: only HWMAN's own change them.
LEMMA StepBooks ==
  ASSUME BInv, AInv', [Next]_vars
  PROVE  BInv'
<1>1. /\ Placed(loaded) /\ Placed(loaded') /\ setup.C \in [PEs -> Nat]
  <2>1. app_id <= MaxCalls + 1 /\ setup.C \in [PEs -> Nat]
    BY Instances, BoundAssumption DEF BInv, AInv, CountsOK, RoadsOK, ListsOK, Alike
  <2>2. app_id' <= MaxCalls + 1
    BY Instances DEF AInv, CountsOK, RoadsOK, ListsOK, Alike
  <2>3. Placed(loaded)
    BY <2>1, PlacedIs DEF BInv, AInv, ListsOK, PlacesOK
  <2>4. Placed(loaded')
    BY <2>2, PlacedIs DEF AInv, ListsOK, PlacesOK
  <2> QED BY <2>1, <2>3, <2>4
<1>2. setup' = setup
  BY DEF Next, vars
<1>3. CASE UNCHANGED hwman
  BY <1>2, <1>3 DEF BInv, BooksOK, Books, hwman
<1>4. CASE Hwman
  <2>1. CASE SwMapper
    <3> DEFINE m == Packet(SWMAN, HWMAN)
    <3>1. m.inst \notin DOMAIN loaded
      BY <2>1, NewInstance DEF BInv
    <3>2. UNCHANGED hwman \/ \E at \in [Keys(m.app) -> PEs] : Mapped(m.inst, m.app, at)
      BY <2>1 DEF SwMapper
    <3> HIDE DEF m
    <3> QED BY <1>1, <1>2, <1>3, <3>1, <3>2, MappedBooks DEF BInv
  <2>2. CASE SwUnmap
    <3>1. UNCHANGED hwman \/ \E i \in DOMAIN loaded : Freed(i)
      BY <2>2 DEF SwUnmap, Loaded
    <3> QED BY <1>1, <1>2, <1>3, <3>1, FreedBooks DEF BInv
  <2> QED BY <1>4, <2>1, <2>2 DEF Hwman, HwNext
<1> QED
  BY <1>3, <1>4 DEF Next, Step, vars, User, SwmanFromUser, SwmanFromHwman, SwmanFromSwload,
     SwmanFromExec, SwloadFromHwman, SwloadFromSwman, Exec, Library, Trouble, Watched, Others

LEMMA BooksStart == Init => BooksOK
<1> SUFFICES ASSUME Init PROVE BooksOK
  OBVIOUS
<1>1. /\ loaded = <<>> /\ C = setup.C /\ nof_objects = [p \in PEs |-> 0]
      /\ intBW = [p \in PEs |-> TotalBW]
  BY DEF Init, HwInit
<1>2. setup.C \in [PEs -> Nat] /\ TotalBW \in Nat
  BY BoundAssumption, TotalAssumption DEF Init
<1>3. DOMAIN loaded = {} /\ \A p : MineOf(loaded, p) = {}
  BY <1>1 DEF MineOf
<1>4. \A p : CostOf(loaded, p) = 0 /\ WireOf(loaded, p) = 0
  BY <1>3, SumEmpty DEF CostOf, WireOf
<1>5. \A p \in PEs : /\ nof_objects[p] = 0 /\ Cardinality(MineOf(loaded, p)) = 0
                     /\ C[p] = setup.C[p] /\ C[p] \in Nat /\ intBW[p] = TotalBW
  BY <1>1, <1>2, <1>3, FS_EmptySet
<1>6. /\ nof_objects \in [PEs -> Int] /\ C \in [PEs -> Int] /\ intBW \in [PEs -> Int]
  BY <1>1, <1>2
<1> QED BY <1>2, <1>4, <1>5, <1>6 DEF BooksOK, Books

LEMMA BooksMean == BooksOK => Balanced
  BY UsedIs DEF BooksOK, Books, Balanced, Counted

\* Whatever was loaded and unloaded in which order, what HWMAN has free is what
\* there was less what the loaded waveforms use: an instance is booked once, and
\* given back once.
THEOREM BooksBalance == Spec => []Balanced
<1>1. Init => BInv
  BY StartsSo, BooksStart DEF BInv
<1>2. BInv /\ [Next]_vars => BInv'
  BY StepKeeps, StepBooks DEF BInv
<1>3. BInv => Balanced
  BY BooksMean DEF BInv
<1> QED BY <1>1, <1>2, <1>3, PTL DEF Spec
-----------------------------------------------------------------------------
(* The types of the rest: what waits in a queue is a sequence, and the     *)
(* packets that carry a status or the objects to load carry them properly. *)

IsQueue(q) == \E S : q \in Seq(S)

\* What a packet must be for its reader to be right: one that sets or confirms a
\* status, and one that has objects loaded.
Proper(m) ==
  /\ m.cmd \in {"SETSTATUS", "STATUSOK"} => m.st \in Status
  /\ m.cmd = "LOADOBJ" => IsQueue(m.objs)

ProperQueue(q) == IsQueue(q) /\ \A n \in DOMAIN q : Proper(q[n])
QueuesOK(c) == DOMAIN c = Routes /\ \A r \in Routes : ProperQueue(c[r])

\* A queue with one more at its end, one more at its head, one less, and with
\* another one behind it.
LEMMA QueueMore ==
  ASSUME NEW q, IsQueue(q), NEW e
  PROVE  /\ IsQueue(Append(q, e)) /\ Len(q) \in Nat /\ DOMAIN q = 1..Len(q)
         /\ DOMAIN Append(q, e) = 1..(Len(q) + 1)
         /\ \A n \in DOMAIN q : Append(q, e)[n] = q[n]
         /\ Append(q, e)[Len(q) + 1] = e
<1>1. PICK S : q \in Seq(S)
  BY DEF IsQueue
<1>2. q \in Seq(S \cup {e}) /\ e \in S \cup {e}
  BY <1>1, SeqMonotonic
<1> QED BY <1>2, Longer DEF IsQueue

LEMMA QueueBefore ==
  ASSUME NEW q, IsQueue(q), NEW e, NEW u, u = <<e>>
  PROVE  /\ IsQueue(u \o q) /\ u \o q # <<>> /\ Len(u \o q) = Len(q) + 1
         /\ DOMAIN (u \o q) = 1..(Len(q) + 1) /\ (u \o q)[1] = e
         /\ \A n \in DOMAIN (u \o q) : n = 1 \/ (n - 1 \in DOMAIN q /\ (u \o q)[n] = q[n - 1])
<1>1. PICK S : q \in Seq(S)
  BY DEF IsQueue
<1> DEFINE T == S \cup {e}
           d == u \o q
<1>2. q \in Seq(T) /\ e \in T /\ u \in Seq(T) /\ Len(u) = 1 /\ u[1] = e
  BY <1>1, SeqMonotonic
<1> HIDE DEF T
<1>3. Len(q) \in Nat /\ DOMAIN q = 1..Len(q)
  BY <1>2, LenProperties
<1>4. /\ d \in Seq(T) /\ Len(d) = Len(q) + 1
      /\ \A n \in 1..(Len(q) + 1) : d[n] = IF n <= 1 THEN e ELSE q[n - 1]
  BY <1>2, <1>3, ConcatProperties
<1> HIDE DEF d
<1>5. DOMAIN d = 1..(Len(q) + 1) /\ d # <<>>
  BY <1>3, <1>4, LenProperties
<1>6. \A n \in DOMAIN d : n = 1 \/ (n - 1 \in DOMAIN q /\ d[n] = q[n - 1])
  BY <1>3, <1>4, <1>5
<1>7. d[1] = e
  BY <1>3, <1>4
<1>8. IsQueue(d)
  BY <1>4 DEF IsQueue
<1> QED BY <1>4, <1>5, <1>6, <1>7, <1>8 DEF d

LEMMA QueueLess ==
  ASSUME NEW q, IsQueue(q), q # <<>>
  PROVE  /\ IsQueue(Tail(q)) /\ Head(q) = q[1] /\ 1 \in DOMAIN q
         /\ \A n \in DOMAIN Tail(q) : n + 1 \in DOMAIN q /\ Tail(q)[n] = q[n + 1]
<1>1. PICK S : q \in Seq(S)
  BY DEF IsQueue
<1>2. /\ Len(q) \in Nat /\ Len(q) > 0 /\ DOMAIN q = 1..Len(q)
      /\ Tail(q) \in Seq(S) /\ DOMAIN Tail(q) = 1..(Len(q) - 1)
      /\ \A n \in DOMAIN Tail(q) : Tail(q)[n] = q[n + 1]
      /\ Head(q) = q[1]
  BY <1>1, Shorter
<1> QED BY <1>2 DEF IsQueue

LEMMA QueueJoined ==
  ASSUME NEW q, IsQueue(q), NEW n \in Nat, NEW f, DOMAIN f = 1..n, f = [i \in 1..n |-> f[i]]
  PROVE  /\ IsQueue(q \o f)
         /\ \A k \in DOMAIN (q \o f) :
              (k \in DOMAIN q /\ (q \o f)[k] = q[k]) \/ \E i \in 1..n : (q \o f)[k] = f[i]
<1>1. PICK S : q \in Seq(S)
  BY DEF IsQueue
<1> DEFINE T == S \cup {f[i] : i \in 1..n}
<1>2. \A i \in 1..n : f[i] \in T
  OBVIOUS
<1>3. q \in Seq(T)
  BY <1>1, SeqMonotonic
<1> HIDE DEF T
<1>4. f \in [1..n -> T]
  BY <1>2
<1>5. f \in Seq(T) /\ Len(f) = n
  BY <1>4
<1>6. /\ q \o f \in Seq(T) /\ Len(q \o f) = Len(q) + n
      /\ \A i \in 1..(Len(q) + n) : (q \o f)[i] = IF i <= Len(q) THEN q[i] ELSE f[i - Len(q)]
  BY <1>3, <1>5, ConcatProperties
<1>7. Len(q) \in Nat /\ DOMAIN q = 1..Len(q) /\ DOMAIN (q \o f) = 1..Len(q \o f)
  BY <1>3, <1>6, LenProperties
<1> DEFINE d == q \o f
<1> HIDE DEF d
<1>8. ASSUME NEW k \in DOMAIN d
      PROVE  (k \in DOMAIN q /\ d[k] = q[k]) \/ \E i \in 1..n : d[k] = f[i]
  <2>1. k \in 1..(Len(q) + n) /\ d[k] = IF k <= Len(q) THEN q[k] ELSE f[k - Len(q)]
    BY <1>6, <1>7 DEF d
  <2>2. CASE k <= Len(q)
    BY <1>7, <2>1, <2>2
  <2>3. CASE ~(k <= Len(q))
    BY <1>7, <2>1, <2>3
  <2> QED BY <2>2, <2>3
<1> QED BY <1>6, <1>8 DEF IsQueue, d

LEMMA OneMoreProper ==
  ASSUME NEW q, ProperQueue(q), NEW m, Proper(m)
  PROVE  ProperQueue(Append(q, m))
<1>1. /\ IsQueue(Append(q, m)) /\ DOMAIN q = 1..Len(q) /\ Len(q) \in Nat
      /\ DOMAIN Append(q, m) = 1..(Len(q) + 1)
      /\ \A n \in DOMAIN q : Append(q, m)[n] = q[n]
      /\ Append(q, m)[Len(q) + 1] = m
  BY QueueMore DEF ProperQueue
<1>2. \A n \in 1..(Len(q) + 1) : n \in DOMAIN q \/ n = Len(q) + 1
  BY <1>1
<1> QED BY <1>1, <1>2 DEF ProperQueue

LEMMA PostProper ==
  ASSUME NEW c, QueuesOK(c), NEW x, NEW y, NEW m, Proper(m)
  PROVE  QueuesOK(Post(c, x, y, m))
<1> DEFINE d == Post(c, x, y, m)
<1>1. DOMAIN d = Routes /\ \A r \in Routes : d[r] = IF r = <<x, y>> THEN Append(c[r], m) ELSE c[r]
  BY DEF Post, QueuesOK
<1> HIDE DEF d
<1>2. ASSUME NEW r \in Routes
      PROVE  ProperQueue(d[r])
  <2>1. ProperQueue(c[r])
    BY DEF QueuesOK
  <2>2. ProperQueue(Append(c[r], m))
    BY <2>1, OneMoreProper
  <2> QED BY <1>1, <2>1, <2>2
<1> QED BY <1>1, <1>2 DEF QueuesOK, d

\* Packets that carry nothing of that kind.
LEMMA PostPlain ==
  ASSUME NEW c, QueuesOK(c), NEW x, NEW y, NEW m,
         m.cmd \notin {"SETSTATUS", "STATUSOK", "LOADOBJ"}
  PROVE  QueuesOK(Post(c, x, y, m))
BY PostProper DEF Proper

LEMMA TakenProper ==
  ASSUME QueuesOK(ch), NEW x, NEW y, <<x, y>> \in Routes, ch[<<x, y>>] # <<>>
  PROVE  QueuesOK(Taken(x, y)) /\ Proper(Packet(x, y))
<1> DEFINE d == Taken(x, y)
           q == ch[<<x, y>>]
<1>1. /\ DOMAIN d = Routes
      /\ \A r \in Routes : d[r] = IF r = <<x, y>> THEN Tail(ch[r]) ELSE ch[r]
  BY DEF Taken, QueuesOK
<1> HIDE DEF d
<1>2. ProperQueue(q)
  BY DEF QueuesOK
<1>3. /\ IsQueue(Tail(q)) /\ Head(q) = q[1] /\ 1 \in DOMAIN q
      /\ \A n \in DOMAIN Tail(q) : n + 1 \in DOMAIN q /\ Tail(q)[n] = q[n + 1]
  BY <1>2, QueueLess DEF ProperQueue
<1>4. ProperQueue(Tail(q))
  BY <1>2, <1>3 DEF ProperQueue
<1>5. QueuesOK(d)
  BY <1>1, <1>4 DEF QueuesOK
<1>6. Proper(Packet(x, y))
  BY <1>2, <1>3 DEF ProperQueue, Packet
<1> QED BY <1>5, <1>6 DEF d

\* SWMAN tells the objects of a waveform a status.
LEMMA SendProper ==
  ASSUME NEW c, QueuesOK(c), NEW i, NEW w, IsFiniteSet(DOMAIN w.obj), NEW st \in Status
  PROVE  QueuesOK(SendObjStatus(c, i, w, st))
<1> DEFINE mine(r) == {k \in Told(w) : r = <<SWMAN, EXEC(w.obj[k].pe)>>}
           more(r) == [n \in 1..Cardinality(mine(r)) |->
                         [cmd |-> "SETSTATUS", obj |-> <<i, Ascending(mine(r))[n]>>, st |-> st]]
           d == SendObjStatus(c, i, w, st)
<1>1. DOMAIN d = Routes /\ \A r \in Routes : d[r] = c[r] \o more(r)
  BY Zenon DEF SendObjStatus, QueuesOK
<1> HIDE DEF d
<1>2. ASSUME NEW r \in Routes
      PROVE  ProperQueue(d[r])
  <2>1. mine(r) \subseteq DOMAIN w.obj
    BY DEF Told
  <2>2. Cardinality(mine(r)) \in Nat
    BY <2>1, FS_Subset, FS_CardinalityType
  <2> DEFINE n == Cardinality(mine(r))
             f == more(r)
  <2>3. DOMAIN f = 1..n /\ f = [k \in 1..n |-> f[k]]
    OBVIOUS
  <2>4. ASSUME NEW k \in 1..n PROVE Proper(f[k])
    <3>1. f[k] = [cmd |-> "SETSTATUS", obj |-> <<i, Ascending(mine(r))[k]>>, st |-> st]
      BY Zenon
    <3>2. f[k].cmd = "SETSTATUS" /\ f[k].st = st
      BY <3>1
    <3> QED BY <3>2 DEF Proper
  <2>5. ProperQueue(c[r])
    BY DEF QueuesOK
  <2>6. d[r] = c[r] \o f
    BY <1>1
  <2> HIDE DEF n, f, mine, more
  <2>7. /\ IsQueue(c[r] \o f)
        /\ \A k \in DOMAIN (c[r] \o f) :
             (k \in DOMAIN c[r] /\ (c[r] \o f)[k] = c[r][k]) \/ \E j \in 1..n : (c[r] \o f)[k] = f[j]
    <3>1. IsQueue(c[r]) /\ n \in Nat
      BY <2>2, <2>5 DEF ProperQueue, n
    <3> QED BY <2>3, <3>1, QueueJoined
  <2> QED BY <2>4, <2>5, <2>6, <2>7 DEF ProperQueue
<1> QED BY <1>1, <1>2 DEF QueuesOK, d

\* Some keys, one after the other, are a sequence.
LEMMA AscendingIs ==
  ASSUME NEW n \in Nat, NEW S \in SUBSET (1..n)
  PROVE  Ascending(S) \in [1..Cardinality(S) -> S] /\ Cardinality(S) \in Nat
<1> DEFINE Rising(s, T) == \A k \in 2..Cardinality(T) : s[k - 1] < s[k]
           B == {T \in SUBSET S : ~\E s \in [1..Cardinality(T) -> T] : Rising(s, T)}
<1>1. \A T \in SUBSET S : IsFiniteSet(T) /\ Cardinality(T) \in Nat
  <2>1. IsFiniteSet(1..n)
    BY FS_Interval
  <2> QED BY <2>1, FS_Subset, FS_CardinalityType
<1>2. ASSUME B # {} PROVE FALSE
  <2>1. B \in SUBSET (SUBSET S) /\ IsFiniteSet(S)
    BY <1>1
  <2>2. PICK T \in B : \A x \in T : T \ {x} \notin B
    <3> HIDE DEF B
    <3> QED BY <1>2, <2>1, SmallestSet
  <2>3. T \in SUBSET S /\ ~\E s \in [1..Cardinality(T) -> T] : Rising(s, T)
    BY <2>2
  <2>4. T # {}
    <3> SUFFICES ASSUME T = {} PROVE FALSE
      OBVIOUS
    <3>1. Cardinality(T) = 0
      BY FS_EmptySet
    <3>2. Rising(<<>>, T) /\ <<>> \in [1..Cardinality(T) -> T]
      BY <3>1
    <3> QED BY <2>3, <3>2
  <2>5. PICK x \in T : \A y \in T : y <= x
    <3>1. T \in SUBSET (0..n)
      BY <2>3
    <3> QED BY <2>4, <3>1, MaxExists
  <2> DEFINE U == T \ {x}
             m == Cardinality(U)
  <2>6. U \in SUBSET S /\ U \notin B /\ m \in Nat /\ Cardinality(T) = m + 1
    <3>1. Cardinality(U) = Cardinality(T) - 1 /\ Cardinality(T) \in Nat
      BY <1>1, <2>3, FS_RemoveElement
    <3>2. U \in SUBSET S /\ U \notin B
      BY <2>2, <2>3
    <3>3. m \in Nat
      BY <1>1, <3>2
    <3> HIDE DEF U, B
    <3> QED BY <3>1, <3>2, <3>3
  <2>7. PICK s \in [1..m -> U] : Rising(s, U)
    BY <2>6
  <2>a. x \in Int /\ \A y \in U : y \in T /\ y \in Int /\ y < x
    <3>1. x \in Int /\ \A y \in T : y \in Int /\ y <= x
      BY <2>3, <2>5
    <3>2. \A y \in T : y # x => y < x
      BY <3>1
    <3> QED BY <3>1, <3>2
  <2> HIDE DEF U, m
  <2> DEFINE t == [k \in 1..(m + 1) |-> IF k = m + 1 THEN x ELSE s[k]]
  <2>8. t \in [1..(m + 1) -> T]
    <3>1. ASSUME NEW k \in 1..(m + 1) PROVE t[k] \in T
      <4>1. CASE k = m + 1
        BY <4>1
      <4>2. CASE k # m + 1
        <5>1. k \in 1..m /\ t[k] = s[k]
          BY <2>6, <4>2
        <5> QED BY <2>7, <2>a, <5>1
      <4> QED BY <4>1, <4>2
    <3> QED BY <3>1
  <2>9. ASSUME NEW k \in 2..(m + 1) PROVE t[k - 1] < t[k]
    <3>1. k - 1 \in 1..m /\ t[k - 1] = s[k - 1] /\ s[k - 1] \in U
      BY <2>6, <2>7
    <3>2. CASE k = m + 1
      <4>1. t[k] = x
        BY <2>6, <3>2
      <4> QED BY <2>a, <3>1, <4>1
    <3>3. CASE k # m + 1
      <4>1. k \in 2..m /\ t[k] = s[k]
        BY <2>6, <3>3
      <4>2. s[k - 1] < s[k]
        BY <2>7, <4>1 DEF m
      <4> QED BY <3>1, <4>1, <4>2
    <3> QED BY <3>2, <3>3
  <2> HIDE DEF t
  <2>10. t \in [1..Cardinality(T) -> T] /\ Rising(t, T)
    BY <2>6, <2>8, <2>9
  <2> QED BY <2>3, <2>10
<1>3. \E s \in [1..Cardinality(S) -> S] : \A k \in 2..Cardinality(S) : s[k - 1] < s[k]
  BY <1>2
<1>4. Ascending(S) \in [1..Cardinality(S) -> S]
  BY <1>3 DEF Ascending
<1> QED BY <1>1, <1>4

-----------------------------------------------------------------------------
(* The downloads of SWLOAD.  Every executable in its queue has an object   *)
(* that waits for it, and an id that was given out.                        *)

Download(d, id) ==
  /\ {"id", "objs"} \subseteq DOMAIN d
  /\ d.id \in Int /\ d.id < id /\ IsQueue(d.objs) /\ d.objs # <<>>

DownloadsOK(q, id) ==
  IsQueue(q) /\ id \in Int /\ \A n \in DOMAIN q : Download(q[n], id)

\* Ids are given out once.
LEMMA LaterId ==
  ASSUME NEW d, NEW id \in Int, Download(d, id)
  PROVE  Download(d, id + 1)
BY DEF Download

LEMMA EnqueuedOne ==
  ASSUME NEW q, NEW id, DownloadsOK(q, id), NEW a, NEW i, NEW k,
         NEW q1, q1 = Enqueue(q, a, i, k, id)
  PROVE  /\ Len(q1) \in Nat /\ Len(q) \in Nat
         /\ DownloadsOK(q1, id + Len(q1) - Len(q))
<1>0. IsQueue(q) /\ id \in Int /\ \A n \in DOMAIN q : Download(q[n], id)
  BY DEF DownloadsOK
<1>a. Len(q) \in Nat /\ DOMAIN q = 1..Len(q)
  BY <1>0, QueueMore
<1> DEFINE me == [obj |-> <<i, k>>, app |-> a]
           new == [exe |-> File[a][k].exe, id |-> id, objs |-> <<me>>]
<1>1. q1 = <<new>> \o q \/ \E n : q1 = [q EXCEPT ![n].objs = <<me>> \o @]
  BY Zenon DEF Enqueue
<1>2. IsQueue(<<me>>) /\ <<me>> # <<>>
  <2>1. <<me>> \in Seq({me}) /\ Len(<<me>>) = 1
    OBVIOUS
  <2> QED BY <2>1 DEF IsQueue
<1>3. {"id", "objs"} \subseteq DOMAIN new /\ new.id = id /\ new.objs = <<me>>
  OBVIOUS
<1> HIDE DEF me, new
<1>4. CASE q1 = <<new>> \o q
  <2>1. /\ IsQueue(q1) /\ Len(q1) = Len(q) + 1 /\ DOMAIN q1 = 1..(Len(q) + 1)
        /\ q1[1] = new
        /\ \A n \in DOMAIN q1 : n = 1 \/ (n - 1 \in DOMAIN q /\ q1[n] = q[n - 1])
    <3>1. PICK u : u = <<new>>
      OBVIOUS
    <3>2. q1 = u \o q
      BY <1>4, <3>1
    <3>3. IsQueue(u \o q) /\ Len(u \o q) = Len(q) + 1 /\ DOMAIN (u \o q) = 1..(Len(q) + 1)
      BY <1>0, <3>1, QueueBefore
    <3>4. (u \o q)[1] = new
      BY <1>0, <3>1, QueueBefore
    <3>5. \A n \in DOMAIN (u \o q) : n = 1 \/ (n - 1 \in DOMAIN q /\ (u \o q)[n] = q[n - 1])
      BY <1>0, <3>1, QueueBefore
    <3> QED BY <3>2, <3>3, <3>4, <3>5
  <2>2. id + Len(q1) - Len(q) = id + 1 /\ Len(q1) \in Nat
    BY <1>0, <1>a, <2>1
  <2>3. Download(new, id + 1)
    BY <1>0, <1>2, <1>3 DEF Download
  <2>4. \A n \in DOMAIN q : Download(q[n], id + 1)
    BY <1>0, LaterId
  <2>5. \A n \in DOMAIN q1 : Download(q1[n], id + 1)
    BY <2>1, <2>3, <2>4
  <2>6. DownloadsOK(q1, id + 1)
    BY <1>0, <2>1, <2>5 DEF DownloadsOK
  <2> QED BY <1>a, <2>2, <2>6
<1>5. ASSUME NEW n, q1 = [q EXCEPT ![n].objs = <<me>> \o @]
      PROVE  Len(q1) \in Nat /\ DownloadsOK(q1, id + Len(q1) - Len(q))
  <2>1. /\ DOMAIN q1 = 1..Len(q)
        /\ \A j \in DOMAIN q : q1[j] = IF j = n THEN [q[j] EXCEPT !.objs = <<me>> \o @] ELSE q[j]
    BY <1>a, <1>5
  <2> DEFINE T == {q1[j] : j \in 1..Len(q)}
  <2>2. q1 \in [1..Len(q) -> T]
    BY <1>5, <1>a, <2>1
  <2>3. q1 \in Seq(T) /\ Len(q1) = Len(q)
    BY <1>a, <2>2
  <2>4. ASSUME NEW j \in DOMAIN q
        PROVE  Download(q1[j], id)
    <3> DEFINE d == q[j]
               d1 == q1[j]
    <3>1. Download(d, id)
      BY <1>0
    <3>2. d1 = d \/ d1 = [d EXCEPT !.objs = <<me>> \o @]
      BY <2>1
    <3> HIDE DEF d, d1
    <3>3. CASE d1 = [d EXCEPT !.objs = <<me>> \o @]
      <4>1. {"id", "objs"} \subseteq DOMAIN d1 /\ d1.id = d.id /\ d1.objs = <<me>> \o d.objs
        BY <3>1, <3>3 DEF Download
      <4>2. IsQueue(d.objs)
        BY <3>1 DEF Download
      <4>3. IsQueue(d1.objs) /\ d1.objs # <<>>
        BY <4>1, <4>2, QueueBefore
      <4>4. Download(d1, id)
        BY <3>1, <4>1, <4>3 DEF Download
      <4> QED BY <4>4 DEF d1
    <3> QED BY <3>1, <3>2, <3>3 DEF d1
  <2>5. DownloadsOK(q1, id)
    BY <1>0, <1>a, <2>1, <2>3, <2>4 DEF DownloadsOK, IsQueue
  <2>6. id + Len(q1) - Len(q) = id
    BY <1>0, <1>a, <2>3
  <2> QED BY <1>a, <2>3, <2>5, <2>6
<1> QED BY <1>a, <1>1, <1>4, <1>5

\* The queue with the objects s of the order m in it, one after the other.
Joined(f, q, id, m, D) ==
  [s \in SUBSET D |->
     IF s = {} THEN q
     ELSE Enqueue(f[s \ {Max(s)}], m.app, m.inst, m.objs[Max(s)],
                  id + Len(f[s \ {Max(s)}]) - Len(q))]

LEMMA LastIn ==
  ASSUME NEW n \in Nat, NEW s \in SUBSET (1..n), s # {}
  PROVE  Max(s) \in s
<1>1. s \in SUBSET (0..n)
  OBVIOUS
<1>2. PICK x \in s : \A y \in s : y <= x
  BY <1>1, MaxExists
<1>3. x \in s /\ \A y \in s : x >= y
  BY <1>1, <1>2
<1> QED BY <1>3 DEF Max

LEMMA JoinedExists ==
  ASSUME NEW q, NEW id, NEW m, NEW S, IsFiniteSet(S),
         \A s \in SUBSET S : s # {} => Max(s) \in s
  PROVE  \E f : f = Joined(f, q, id, m, S)
<1> DEFINE D(k) == {s \in SUBSET S : Cardinality(s) <= k}
           Next1(f, s) == Enqueue(f[s \ {Max(s)}], m.app, m.inst, m.objs[Max(s)],
                                  id + Len(f[s \ {Max(s)}]) - Len(q))
           Joins(f, k) == [s \in D(k) |-> IF s = {} THEN q ELSE Next1(f, s)]
           B == {k \in Nat : ~\E f : f = Joins(f, k)}
<1>1. \A s \in SUBSET S : IsFiniteSet(s) /\ Cardinality(s) \in Nat
  BY FS_Subset, FS_CardinalityType
<1>2. ASSUME B # {} PROVE FALSE
  <2>1. PICK k \in B : \A j \in B : k <= j
    <3>1. B \in SUBSET Nat
      OBVIOUS
    <3> HIDE DEF B
    <3> QED BY <1>2, <3>1, MinExists
  <2>2. k # 0
    <3> SUFFICES ASSUME k = 0 PROVE FALSE
      OBVIOUS
    <3> DEFINE f == [s \in D(0) |-> q]
    <3>1. \A s \in D(0) : s = {}
      BY <1>1, FS_EmptySet
    <3>2. f = Joins(f, 0)
      BY <3>1
    <3> QED BY <3>2
  <2>3. k - 1 \in Nat /\ k - 1 \notin B
    <3>1. k \in Nat
      OBVIOUS
    <3> HIDE DEF B
    <3> QED BY <2>1, <2>2, <3>1
  <2>4. PICK f : f = Joins(f, k - 1)
    BY <2>3
  <2> DEFINE h == Joins(f, k)
  <2>5. ASSUME NEW s \in D(k), s # {}
        PROVE  h[s \ {Max(s)}] = f[s \ {Max(s)}]
    <3> DEFINE t == s \ {Max(s)}
    <3>1. Max(s) \in s
      BY <2>5
    <3>2. Cardinality(t) = Cardinality(s) - 1 /\ Cardinality(s) \in Nat /\ Cardinality(s) <= k
      BY <1>1, <3>1, FS_RemoveElement
    <3>3. t \in D(k - 1) /\ t \in D(k)
      BY <3>2, <2>3
    <3> HIDE DEF t, D, Next1
    <3>4. f[t] = IF t = {} THEN q ELSE Next1(f, t)
      BY <2>4, <3>3
    <3>5. h[t] = IF t = {} THEN q ELSE Next1(f, t)
      BY <3>3
    <3> QED BY <3>4, <3>5 DEF t
  <2>6. \A s \in D(k) : s # {} => Next1(h, s) = Next1(f, s)
    <3> HIDE DEF h, D
    <3> QED BY <2>5
  <2>7. h = Joins(h, k)
    <3> HIDE DEF D, Next1
    <3>1. h = [s \in D(k) |-> IF s = {} THEN q ELSE Next1(f, s)]
      OBVIOUS
    <3> HIDE DEF h
    <3> QED BY <2>6, <3>1
  <2>8. k \notin B
    BY <2>7
  <2> QED BY <2>1, <2>8
<1> DEFINE c == Cardinality(S)
<1>3. c \in Nat
  BY FS_CardinalityType
<1>4. PICK f : f = Joins(f, c)
  <2> HIDE DEF c
  <2> QED BY <1>2, <1>3
<1>5. D(c) = SUBSET S
  BY FS_Subset
<1> HIDE DEF D, c
<1>6. f = Joined(f, q, id, m, S)
  BY <1>4, <1>5 DEF Joined
<1> QED BY <1>6

\* All objects of an order are in the queue, and it is in order.
LEMMA JoinedFine ==
  ASSUME NEW q, NEW id, DownloadsOK(q, id), NEW m, NEW n \in Nat, NEW S, S = 1..n,
         NEW f, f = Joined(f, q, id, m, S)
  PROVE  Len(f[S]) \in Nat /\ Len(q) \in Nat /\ DownloadsOK(f[S], id + Len(f[S]) - Len(q))
<1>1. Len(q) \in Nat /\ id \in Int
  <2>1. IsQueue(q) /\ id \in Int
    BY DEF DownloadsOK
  <2> QED BY <2>1, QueueMore
<1> DEFINE Fine(d) == Len(d) \in Nat /\ DownloadsOK(d, id + Len(d) - Len(q))
           B == {T \in SUBSET S : ~Fine(f[T])}
<1> HIDE DEF Fine
<1>2. ASSUME B # {} PROVE FALSE
  <2>1. B \in SUBSET (SUBSET S) /\ IsFiniteSet(S)
    BY FS_Interval
  <2>2. PICK T \in B : \A x \in T : T \ {x} \notin B
    <3> HIDE DEF B
    <3> QED BY <1>2, <2>1, SmallestSet
  <2>3. T \in SUBSET S /\ ~Fine(f[T]) /\ \A x \in T : Fine(f[T \ {x}])
    BY <2>2
  <2> HIDE DEF B
  <2>4. CASE T = {}
    <3>1. f[T] = q
      BY <2>3, <2>4 DEF Joined
    <3>2. id + Len(q) - Len(q) = id
      BY <1>1
    <3> QED BY <1>1, <2>3, <3>1, <3>2 DEF Fine
  <2>5. CASE T # {}
    <3> DEFINE k == Max(T)
               d == f[T \ {k}]
               x == id + Len(d) - Len(q)
               d1 == f[T]
    <3>1. k \in T
      BY <2>3, <2>5, LastIn
    <3>2. Fine(d)
      BY <2>3, <3>1
    <3>3. d1 = Enqueue(d, m.app, m.inst, m.objs[k], x)
      BY <2>3, <2>5 DEF Joined
    <3> HIDE DEF d, d1, k
    <3>4. Len(d1) \in Nat /\ DownloadsOK(d1, x + Len(d1) - Len(d))
      <4>1. DownloadsOK(d, x) /\ Len(d) \in Nat
        BY <3>2 DEF Fine
      <4> HIDE DEF x
      <4> QED BY <3>3, <4>1, EnqueuedOne
    <3>5. x + Len(d1) - Len(d) = id + Len(d1) - Len(q)
      BY <1>1, <3>2, <3>4 DEF Fine
    <3> QED BY <2>3, <3>4, <3>5 DEF Fine, d1
  <2> QED BY <2>4, <2>5
<1>3. Fine(f[S])
  BY <1>2
<1> QED BY <1>1, <1>3 DEF Fine

\* The queue after an order, as LoadObj puts it together.
Queued(q, id, m) ==
  FoldLeft(LAMBDA d, k : Enqueue(d, m.app, m.inst, k, id + Len(d) - Len(q)), q, m.objs)

LEMMA EnqueuedAll ==
  ASSUME NEW q, NEW id, DownloadsOK(q, id), NEW m, IsQueue(m.objs), NEW q1, q1 = Queued(q, id, m)
  PROVE  Len(q1) \in Nat /\ Len(q) \in Nat /\ DownloadsOK(q1, id + Len(q1) - Len(q))
<1> DEFINE n == Len(m.objs)
           S == DOMAIN m.objs
           f == CHOOSE f : f = Joined(f, q, id, m, S)
<1>1. n \in Nat /\ S = 1..n
  BY QueueMore
<1> HIDE DEF n
<1>2. IsFiniteSet(S)
  BY <1>1, FS_Interval
<1>3. \A s \in SUBSET S : s # {} => Max(s) \in s
  BY <1>1, LastIn
<1> HIDE DEF S
<1>4. f = Joined(f, q, id, m, S)
  BY <1>2, <1>3, JoinedExists
<1>5. Len(f[S]) \in Nat /\ Len(q) \in Nat /\ DownloadsOK(f[S], id + Len(f[S]) - Len(q))
  <2> HIDE DEF f
  <2> QED BY <1>1, <1>4, JoinedFine
<1>6. Queued(q, id, m) = f[S]
  BY Zenon DEF Queued, FoldLeft, MapThenFoldSet, Joined, S
<1> QED BY <1>5, <1>6

\* An executable is taken out.
LEMMA DownloadOut ==
  ASSUME NEW q, NEW id, DownloadsOK(q, id), NEW n \in DOMAIN q
  PROVE  DownloadsOK(RemoveAt(q, n), id)
<1>1. PICK S : q \in Seq(S)
  BY DEF DownloadsOK, IsQueue
<1> DEFINE l == Len(q)
           T == {q[j] : j \in DOMAIN q}
           s == SubSeq(q, 1, n - 1)
           t == SubSeq(q, n + 1, l)
<1>2. /\ l \in Nat /\ DOMAIN q = 1..l /\ n \in Int /\ n >= 1 /\ n <= l
      /\ \A j \in 1..l : q[j] \in T
  BY <1>1, LenProperties
<1> HIDE DEF l, T
<1>3. s \in Seq(T)
  <2>1. \A j \in 1..(n - 1) : q[j] \in T
    BY <1>2
  <2> QED BY <1>2, <2>1, SubSeqProperties
<1>4. t \in Seq(T)
  <2>1. \A j \in (n + 1)..l : q[j] \in T
    BY <1>2
  <2> QED BY <1>2, <2>1, SubSeqProperties
<1>5. RemoveAt(q, n) = s \o t
  BY DEF RemoveAt, l
<1> HIDE DEF s, t
<1>6. RemoveAt(q, n) \in Seq(T)
  BY <1>3, <1>4, <1>5, ConcatProperties
<1>7. \A j \in DOMAIN RemoveAt(q, n) : RemoveAt(q, n)[j] \in T
  BY <1>6, LenProperties, ElementOfSeq
<1>8. \A d \in T : Download(d, id)
  BY DEF T, DownloadsOK
<1> QED BY <1>6, <1>7, <1>8 DEF DownloadsOK, IsQueue

-----------------------------------------------------------------------------
(* The invariant, daemon by daemon.                                        *)

AppOK(w) ==
  \E a \in Apps :
    w \in [name : {a}, cur : Status, pend : Status,
           obj : [Keys(a) -> [st : Status, pe : PEs \cup {NoPE}]]]

UserOK ==
  /\ call = Idle \/ call \in [app : Apps, st : Status \cup {"load"}, two : BOOLEAN]
  /\ mixed \in BOOLEAN
SwmanOK  == dropped \subseteq Insts /\ \A i \in DOMAIN apps : AppOK(apps[i])
SwloadOK == /\ DOMAIN down_q = PEs /\ DOMAIN exeid = PEs
            /\ \A p \in PEs : DownloadsOK(down_q[p], exeid[p])
ProcOK   == proc \in [Objects -> Entry]
FaultsOK == faults \in 0..setup.faults

TInv == UserOK /\ SwmanOK /\ SwloadOK /\ ProcOK /\ FaultsOK /\ QueuesOK(ch)

LEMMA AppParts ==
  ASSUME NEW w, AppOK(w)
  PROVE  /\ w.name \in Apps /\ w.cur \in Status /\ w.pend \in Status
         /\ w.obj \in [Keys(w.name) -> [st : Status, pe : PEs \cup {NoPE}]]
         /\ IsFiniteSet(DOMAIN w.obj)
<1>1. /\ w.name \in Apps /\ w.cur \in Status /\ w.pend \in Status
      /\ w.obj \in [Keys(w.name) -> [st : Status, pe : PEs \cup {NoPE}]]
  BY DEF AppOK
<1>2. DOMAIN w.obj = 1..Len(File[w.name]) /\ Len(File[w.name]) \in Nat
  BY <1>1, FileAssumption
<1> QED BY <1>1, <1>2, FS_Interval

\* An entry of apps_db after an assignment to one of its fields.
LEMMA AppSet ==
  ASSUME NEW w, AppOK(w), NEW st \in Status
  PROVE  /\ AppOK([w EXCEPT !.cur = st]) /\ AppOK([w EXCEPT !.pend = st])
         /\ [w EXCEPT !.cur = st].obj = w.obj /\ [w EXCEPT !.cur = st].name = w.name
BY DEF AppOK

LEMMA AppObj ==
  ASSUME NEW w, AppOK(w), NEW o,
         o \in [DOMAIN w.obj -> [st : Status, pe : PEs \cup {NoPE}]]
  PROVE  AppOK([w EXCEPT !.obj = o])
BY DEF AppOK

LEMMA StatusIs ==
  /\ {"NONE", "STARTED", "INIT", "RUN", "PAUSE", "STEP", "STOP", "ABNSTOP"} \subseteq Status
  /\ \A st \in Status : Goal(st) \in Status
BY DEF Status, Stopped, Goal

\* All routes a packet can be taken from.
LEMMA TakenRoutes ==
  /\ <<CMDMAN, SWMAN>> \in Routes /\ <<SWMAN, CMDMAN>> \in Routes
  /\ <<SWMAN, HWMAN>> \in Routes /\ <<HWMAN, SWMAN>> \in Routes
  /\ \A p \in PEs : /\ <<HWMAN, SWLOAD(p)>> \in Routes /\ <<SWMAN, SWLOAD(p)>> \in Routes
                    /\ <<SWLOAD(p), SWMAN>> \in Routes /\ <<SWMAN, EXEC(p)>> \in Routes
                    /\ <<EXEC(p), SWMAN>> \in Routes
BY DEF Routes

LEMMA WaitsTaken ==
  ASSUME QueuesOK(ch), NEW x, NEW y, <<x, y>> \in Routes, NEW cmd, Waits(x, y, cmd)
  PROVE  QueuesOK(Taken(x, y)) /\ Proper(Packet(x, y)) /\ Packet(x, y).cmd = cmd
<1>1. ch[<<x, y>>] # <<>> /\ Packet(x, y).cmd = cmd
  BY DEF Waits, Packet
<1> QED BY <1>1, TakenProper

LEMMA FaultOK ==
  ASSUME FaultsOK, setup \in Setups, setup' = setup, Fault \/ NoFault
  PROVE  FaultsOK'
<1>1. setup.faults \in Nat
  BY BoundAssumption
<1>2. CASE Fault
  BY <1>1, <1>2 DEF FaultsOK, Fault
<1>3. CASE NoFault
  BY <1>3 DEF FaultsOK, NoFault
<1> QED BY <1>2, <1>3

-----------------------------------------------------------------------------
(* The user.                                                               *)

LEMMA UserTyped ==
  ASSUME TInv, setup \in Setups, setup' = setup, CmNext, UNCHANGED <<swman, swload, proc>>
  PROVE  TInv'
<1>1. setup.apps \subseteq Apps /\ setup.asked \subseteq Status
  BY BoundAssumption
<1>2. QueuesOK(ch) /\ UserOK /\ FaultsOK
  BY DEF TInv
<1>3. FaultsOK'
  BY <1>2, FaultOK DEF CmNext, LoadAppCall, AppStatusCall, Answered, Timeout
<1>4. ASSUME UserOK', QueuesOK(ch') PROVE TInv'
  BY <1>3, <1>4 DEF TInv, SwmanOK, SwloadOK, ProcOK, swman, swload
<1>5. ASSUME NEW a \in setup.apps, LoadAppCall(a) PROVE TInv'
  <2> DEFINE c == [ch EXCEPT ![<<SWMAN, CMDMAN>>] = <<>>]
  <2>1. DOMAIN c = Routes /\ \A r \in Routes : c[r] = <<>> \/ c[r] = ch[r]
    BY <1>2 DEF QueuesOK
  <2>2. ProperQueue(<<>>)
    <3>1. IsQueue(<<>>)
      BY EmptySeq DEF IsQueue
    <3> QED BY <3>1 DEF ProperQueue
  <2> HIDE DEF c
  <2>3. QueuesOK(c)
    BY <1>2, <2>1, <2>2 DEF QueuesOK
  <2>4. /\ ch' = Post(c, CMDMAN, SWMAN, [cmd |-> "LOADAPP", app |-> a])
        /\ call' = [app |-> a, st |-> "load", two |-> FALSE] /\ mixed' = mixed
    BY <1>5 DEF LoadAppCall, c
  <2>5. QueuesOK(ch')
    BY <2>3, <2>4, PostPlain
  <2>6. UserOK'
    BY <1>1, <1>2, <2>4 DEF UserOK
  <2> QED BY <1>4, <2>5, <2>6
<1>6. ASSUME NEW a \in setup.apps, NEW st \in setup.asked, NEW two \in BOOLEAN,
             AppStatusCall(a, st, two)
      PROVE  TInv'
  <2> DEFINE c == Post(ch, CMDMAN, SWMAN, Order(a, st))
             d == Post(c, CMDMAN, SWMAN, Order(a, "PAUSE"))
  <2>1. \A s : Order(a, s).cmd = "APPSTATUS"
    BY DEF Order
  <2>2. QueuesOK(c)
    BY <1>2, <2>1, PostPlain
  <2> HIDE DEF c
  <2>3. QueuesOK(d)
    BY <2>1, <2>2, PostPlain
  <2> HIDE DEF d
  <2>4. /\ ch' = d \/ ch' = c
        /\ call' = [app |-> a, st |-> st, two |-> two] /\ mixed' = (mixed \/ two)
    BY <1>6 DEF AppStatusCall, c, d
  <2>5. UserOK'
    BY <1>1, <1>2, <2>4 DEF UserOK
  <2> QED BY <1>4, <2>2, <2>3, <2>4, <2>5
<1>7. CASE Answered
  <2>1. QueuesOK(ch')
    BY <1>2, <1>7, TakenProper, TakenRoutes DEF Answered
  <2>2. UserOK'
    BY <1>2, <1>7 DEF Answered, UserOK, Waiting, Idle
  <2> QED BY <1>4, <2>1, <2>2
<1>8. CASE Timeout
  BY <1>2, <1>4, <1>8 DEF Timeout, UserOK, Waiting, Idle
<1> QED BY <1>5, <1>6, <1>7, <1>8 DEF CmNext

-----------------------------------------------------------------------------
(* SWMAN.                                                                  *)

\* What the rest of the invariant needs of a step of SWMAN.
LEMMA SwmanStep ==
  ASSUME TInv, FaultsOK', UNCHANGED <<user, swload, proc>>, SwmanOK', QueuesOK(ch')
  PROVE  TInv'
BY DEF TInv, UserOK, SwloadOK, ProcOK, user, swload

\* An entry of apps_db is replaced, and one is taken out.
LEMMA EntrySet ==
  ASSUME SwmanOK, UNCHANGED dropped, NEW i, NEW w, AppOK(w), apps' = [apps EXCEPT ![i] = w]
  PROVE  SwmanOK'
BY DEF SwmanOK

LEMMA EntryOut ==
  ASSUME SwmanOK, NEW i, apps' = Without(apps, i), dropped' \subseteq Insts
  PROVE  SwmanOK'
<1>1. DOMAIN apps' = DOMAIN apps \ {i} /\ \A j \in DOMAIN apps' : apps'[j] = apps[j]
  BY DEF Without, Restrict
<1> QED BY <1>1 DEF SwmanOK

LEMMA UnmapProper ==
  ASSUME NEW c, QueuesOK(c), NEW a
  PROVE  QueuesOK(Unmap(c, a))
BY PostPlain DEF Unmap

LEMMA DroppedTyped ==
  ASSUME TInv, NEW c, QueuesOK(c), NEW i \in Insts, NEW a, LoadAppError(c, i, a)
  PROVE  SwmanOK' /\ QueuesOK(ch')
<1>1. QueuesOK(Post(c, SWMAN, CMDMAN, LoadAppErr))
  BY PostPlain DEF LoadAppErr
<1>2. QueuesOK(ch')
  BY <1>1, UnmapProper DEF LoadAppError
<1>3. SwmanOK'
  BY EntryOut DEF LoadAppError, TInv, SwmanOK
<1> QED BY <1>2, <1>3

LEMMA LoadAppTyped ==
  ASSUME TInv, LoadApp, Packet(CMDMAN, SWMAN).app \in Apps
  PROVE  SwmanOK' /\ QueuesOK(ch')
<1> DEFINE a == Packet(CMDMAN, SWMAN).app
           c == Taken(CMDMAN, SWMAN)
<1>1. a \in Apps /\ QueuesOK(c) /\ SwmanOK
  BY WaitsTaken, TakenRoutes DEF TInv, LoadApp
<1>2. QueuesOK(Post(c, SWMAN, CMDMAN, LoadAppErr))
  BY <1>1, PostPlain DEF LoadAppErr
<1>3. CASE ch' = Post(c, SWMAN, CMDMAN, LoadAppErr) /\ UNCHANGED swman
  BY <1>1, <1>2, <1>3 DEF SwmanOK, swman
<1>4. CASE ch' = Unmap(Post(c, SWMAN, CMDMAN, LoadAppErr), a) /\ UNCHANGED <<apps, dropped>>
  BY <1>1, <1>2, <1>4, UnmapProper DEF SwmanOK
<1>5. CASE /\ ch' = Post(c, SWMAN, HWMAN, [cmd |-> "MAPOBJ", inst |-> app_id, app |-> a])
           /\ apps' = With(apps, app_id, App(a)) /\ UNCHANGED dropped
  <2>1. QueuesOK(ch')
    BY <1>1, <1>5, PostPlain
  <2> HIDE DEF a
  <2>2. AppOK(App(a))
    BY <1>1, StatusIs DEF AppOK, App, None
  <2>3. SwmanOK'
    BY <1>1, <1>5, <2>2 DEF SwmanOK, With
  <2> QED BY <2>1, <2>3
<1> QED BY <1>3, <1>4, <1>5 DEF LoadApp

\* A waveform whose objects are all told the status st: for STEP SWMAN notes it
\* down at once.
LEMMA SteppedOK ==
  ASSUME NEW w, AppOK(w)
  PROVE  AppOK([w EXCEPT !.obj = [k \in DOMAIN w.obj |-> [w.obj[k] EXCEPT !.st = "STEP"]]])
<1> DEFINE o == [k \in DOMAIN w.obj |-> [w.obj[k] EXCEPT !.st = "STEP"]]
<1>1. o \in [DOMAIN w.obj -> [st : Status, pe : PEs \cup {NoPE}]]
  <2>1. \A k \in DOMAIN w.obj : w.obj[k] \in [st : Status, pe : PEs \cup {NoPE}]
    BY AppParts
  <2> QED BY <2>1, StatusIs
<1> HIDE DEF o
<1> QED BY <1>1, AppObj DEF o

LEMMA AppStatusTyped ==
  ASSUME TInv, AppStatus, Packet(CMDMAN, SWMAN) \in Orders, DOMAIN apps \subseteq Insts
  PROVE  SwmanOK' /\ QueuesOK(ch')
<1> DEFINE m == Packet(CMDMAN, SWMAN)
           c == Taken(CMDMAN, SWMAN)
<1>1. m.st \in Status /\ QueuesOK(c) /\ SwmanOK
  <2>1. m.cmd = "APPSTATUS" /\ QueuesOK(c)
    BY WaitsTaken, TakenRoutes DEF TInv, AppStatus
  <2> QED BY <2>1 DEF Orders, TInv
<1> HIDE DEF m, c
<1>2. CASE /\ ch' = Post(c, SWMAN, CMDMAN, LoadAppErr)
           /\ UNCHANGED <<apps, dropped>>
  BY <1>1, <1>2, PostPlain DEF LoadAppErr, SwmanOK
<1>3. ASSUME NEW i \in Named(m.app)
      PROVE  LET w == apps[i]
                 v == [w EXCEPT !.cur = Goal(m.st)]
             IN /\ i \in Insts /\ AppOK(w) /\ AppOK(v) /\ QueuesOK(SendObjStatus(c, i, v, m.st))
                /\ AppOK([v EXCEPT !.obj = [k \in DOMAIN v.obj |-> [v.obj[k] EXCEPT !.st = "STEP"]]])
                /\ AppOK([w EXCEPT !.pend = m.st])
  <2> DEFINE w == apps[i]
             v == [w EXCEPT !.cur = Goal(m.st)]
  <2>1. i \in Insts /\ AppOK(w)
    BY <1>1 DEF SwmanOK, Named
  <2> HIDE DEF w
  <2>2. AppOK(v) /\ AppOK([w EXCEPT !.pend = m.st])
    BY <1>1, <2>1, AppSet, StatusIs
  <2> HIDE DEF v
  <2>3. QueuesOK(SendObjStatus(c, i, v, m.st))
    BY <1>1, <2>2, AppParts, SendProper
  <2>4. AppOK([v EXCEPT !.obj = [k \in DOMAIN v.obj |-> [v.obj[k] EXCEPT !.st = "STEP"]]])
    BY <2>2, SteppedOK
  <2> QED BY <2>1, <2>2, <2>3, <2>4 DEF w, v
<1>4. ASSUME NEW i \in Named(m.app),
             LET w == apps[i]
                 v == [w EXCEPT !.cur = Goal(m.st)]
             IN \/ /\ ch' = SendObjStatus(c, i, v, m.st)
                   /\ apps' = [apps EXCEPT ![i] =
                        IF m.st = "STEP"
                        THEN [v EXCEPT !.obj = [k \in DOMAIN v.obj |-> [v.obj[k] EXCEPT !.st = "STEP"]]]
                        ELSE v]
                   /\ UNCHANGED dropped
                \/ LoadAppError(SendObjStatus(c, i, v, m.st), i, m.app)
                \/ /\ apps' = [apps EXCEPT ![i].pend = m.st]
                   /\ ch' = c /\ UNCHANGED dropped
                \/ LoadAppError(c, i, m.app)
      PROVE  SwmanOK' /\ QueuesOK(ch')
  <2> DEFINE w == apps[i]
             v == [w EXCEPT !.cur = Goal(m.st)]
             u == [v EXCEPT !.obj = [k \in DOMAIN v.obj |-> [v.obj[k] EXCEPT !.st = "STEP"]]]
             x == [w EXCEPT !.pend = m.st]
             d == SendObjStatus(c, i, v, m.st)
  <2>1. i \in Insts /\ AppOK(v) /\ AppOK(u) /\ AppOK(x) /\ QueuesOK(d)
    BY <1>3
  <2>2. \/ ch' = d /\ UNCHANGED dropped
           /\ (apps' = [apps EXCEPT ![i] = u] \/ apps' = [apps EXCEPT ![i] = v])
        \/ LoadAppError(d, i, m.app)
        \/ apps' = [apps EXCEPT ![i] = x] /\ ch' = c /\ UNCHANGED dropped
        \/ LoadAppError(c, i, m.app)
    BY <1>4, Zenon
  <2> HIDE DEF u, v, x, d
  <2> QED BY <1>1, <2>1, <2>2, EntrySet, DroppedTyped
<1>5. \/ /\ ch' = Post(c, SWMAN, CMDMAN, LoadAppErr)
         /\ UNCHANGED <<apps, dropped>>
      \/ \E i \in Named(m.app) :
           LET w == apps[i]
               v == [w EXCEPT !.cur = Goal(m.st)]
           IN \/ /\ ch' = SendObjStatus(c, i, v, m.st)
                 /\ apps' = [apps EXCEPT ![i] =
                      IF m.st = "STEP"
                      THEN [v EXCEPT !.obj = [k \in DOMAIN v.obj |-> [v.obj[k] EXCEPT !.st = "STEP"]]]
                      ELSE v]
                 /\ UNCHANGED dropped
              \/ LoadAppError(SendObjStatus(c, i, v, m.st), i, m.app)
              \/ /\ apps' = [apps EXCEPT ![i].pend = m.st]
                 /\ ch' = c /\ UNCHANGED dropped
              \/ LoadAppError(c, i, m.app)
  BY Zenon DEF AppStatus, m, c
<1> QED BY <1>2, <1>4, <1>5

\* The report of an object is noted.
LEMMA NotedOK ==
  ASSUME NEW w, AppOK(w), NEW m, Proper(m), NEW p \in PEs
  PROVE  AppOK(Noted(w, m, p))
<1> DEFINE k == m.obj[2]
           st == IF Good(w, m) THEN m.st ELSE "ABNSTOP"
           pe == IF Good(w, m) /\ m.st = "STARTED" THEN p ELSE w.obj[k].pe
           o == [w.obj EXCEPT ![k] = [st |-> st, pe |-> pe]]
<1>1. st \in Status
  BY StatusIs DEF Proper, Good
<1>2. \A j \in DOMAIN w.obj : w.obj[j] \in [st : Status, pe : PEs \cup {NoPE}]
  BY AppParts
<1>3. k \in DOMAIN w.obj => pe \in PEs \cup {NoPE}
  BY <1>2
<1>4. Noted(w, m, p) = [w EXCEPT !.obj = o]
  BY DEF Noted
<1> HIDE DEF k, st, pe
<1>5. o \in [DOMAIN w.obj -> [st : Status, pe : PEs \cup {NoPE}]]
  BY <1>1, <1>2, <1>3
<1> HIDE DEF o
<1> QED BY <1>4, <1>5, AppObj

LEMMA ReportedOK ==
  ASSUME NEW c, QueuesOK(c), NEW i, NEW w, AppOK(w), NEW m, Proper(m), NEW p \in PEs,
         NEW r, r = Reported(c, i, w, m, p)
  PROVE  AppOK(r.app) /\ QueuesOK(r.ch)
<1> DEFINE v == Noted(w, m, p)
           x == [v EXCEPT !.cur = "ABNSTOP"]
           t == AbortTells(w, m)
           d == SendObjStatus(c, i, t, "ABNSTOP")
<1>1. AppOK(v)
  BY NotedOK
<1> HIDE DEF v
<1>2. AppOK(x)
  BY <1>1, AppSet, StatusIs
<1>3. IsFiniteSet(DOMAIN t.obj)
  <2>1. DOMAIN t.obj = DOMAIN w.obj
    BY DEF AbortTells, AppOK
  <2> QED BY <2>1, AppParts
<1> HIDE DEF t
<1>4. QueuesOK(d)
  BY <1>3, SendProper, StatusIs
<1> HIDE DEF x, d
<1>5. r = [app |-> x, ch |-> d] \/ r = [app |-> v, ch |-> c]
  BY Zenon DEF Reported, v, x, d, t
<1> QED BY <1>1, <1>2, <1>4, <1>5

\* The rest of a report: the pending status, the removal and the answer.
LEMMA CompletedTyped ==
  ASSUME SwmanOK, UNCHANGED dropped, NEW c, QueuesOK(c), NEW i, NEW w, AppOK(w), NEW k,
         Completed(c, i, w, k)
  PROVE  SwmanOK' /\ QueuesOK(ch')
<1> DEFINE out  == Answer(OutType(w, k), i, w)
           next == IF w.pend = None THEN w ELSE [w EXCEPT !.cur = w.pend, !.pend = None]
           sent == IF w.pend = None THEN c ELSE SendObjStatus(c, i, next, w.pend)
<1>1. out.cmd \notin {"SETSTATUS", "STATUSOK", "LOADOBJ"}
  BY DEF Answer, OutType
<1>2. w.pend \in Status /\ None \in Status
  BY AppParts, StatusIs DEF None
<1>3. AppOK(next)
  <2> DEFINE v == [w EXCEPT !.cur = w.pend]
  <2>1. AppOK(v)
    BY <1>2, AppSet
  <2>2. AppOK([v EXCEPT !.pend = None])
    <3> HIDE DEF v
    <3> QED BY <1>2, <2>1, AppSet
  <2>3. [v EXCEPT !.pend = None] = [w EXCEPT !.cur = w.pend, !.pend = None]
    OBVIOUS
  <2> QED BY <2>2, <2>3
<1>4. QueuesOK(sent)
  <2>1. IsFiniteSet(DOMAIN next.obj)
    BY <1>3, AppParts
  <2> HIDE DEF next
  <2> QED BY <1>2, <2>1, SendProper
<1>5. QueuesOK(Unmap(sent, w.name))
  <2> HIDE DEF sent
  <2> QED BY <1>4, UnmapProper
<1>6. \/ ch' = Post(sent, SWMAN, CMDMAN, LoadAppErr) /\ apps' = [apps EXCEPT ![i] = next]
      \/ ch' = Post(Unmap(sent, w.name), SWMAN, CMDMAN, out) /\ apps' = Without(apps, i)
      \/ ch' = Post(sent, SWMAN, CMDMAN, out) /\ apps' = [apps EXCEPT ![i] = next]
  BY Zenon DEF Completed
<1> HIDE DEF out, next, sent
<1>7. QueuesOK(ch')
  <2>1. LoadAppErr.cmd \notin {"SETSTATUS", "STATUSOK", "LOADOBJ"}
    BY DEF LoadAppErr
  <2> QED BY <1>1, <1>4, <1>5, <1>6, <2>1, PostPlain
<1>8. SwmanOK'
  BY <1>3, <1>6, EntrySet, EntryOut DEF SwmanOK
<1> QED BY <1>7, <1>8

LEMMA StatusRepTyped ==
  ASSUME TInv, NEW p \in PEs, StatusRep(p)
  PROVE  SwmanOK' /\ QueuesOK(ch')
<1> DEFINE m == Packet(EXEC(p), SWMAN)
           i == m.obj[1]
           c == Taken(EXEC(p), SWMAN)
           r == Reported(c, i, apps[i], m, p)
<1>1. QueuesOK(c) /\ Proper(m) /\ SwmanOK
  BY WaitsTaken, TakenRoutes DEF TInv, StatusRep
<1>2. /\ UNCHANGED dropped
      /\ \/ ch' = c /\ UNCHANGED apps
         \/ i \in DOMAIN apps /\ Completed(r.ch, i, r.app, m.obj[2])
         \/ i \in DOMAIN apps /\ ch' = r.ch /\ apps' = [apps EXCEPT ![i] = r.app]
  BY Zenon DEF StatusRep
<1> HIDE DEF c, m, i
<1>3. CASE ch' = c /\ UNCHANGED apps
  BY <1>1, <1>2, <1>3 DEF SwmanOK
<1>4. CASE i \in DOMAIN apps
  <2>1. AppOK(apps[i])
    BY <1>1, <1>4 DEF SwmanOK
  <2>2. AppOK(r.app) /\ QueuesOK(r.ch)
    BY <1>1, <2>1, ReportedOK
  <2> HIDE DEF r
  <2> QED BY <1>1, <1>2, <1>3, <2>2, CompletedTyped, EntrySet
<1> QED BY <1>2, <1>3, <1>4

LEMMA AppErrorTyped ==
  ASSUME TInv, NEW from, <<from, SWMAN>> \in Routes, AppError(from), DOMAIN apps \subseteq Insts
  PROVE  SwmanOK' /\ QueuesOK(ch')
<1> DEFINE m == Packet(from, SWMAN)
           c == Taken(from, SWMAN)
<1>1. QueuesOK(c) /\ SwmanOK
  BY WaitsTaken DEF TInv, AppError
<1> HIDE DEF c
<1>2. \/ \E i \in DOMAIN apps : LoadAppError(c, i, m.app)
      \/ ch' = c /\ UNCHANGED <<apps, dropped>>
  BY DEF AppError, c, Named
<1>3. CASE ch' = c /\ UNCHANGED <<apps, dropped>>
  BY <1>1, <1>3 DEF SwmanOK
<1> QED BY <1>1, <1>2, <1>3, DroppedTyped

LEMMA ExecReqTyped ==
  ASSUME TInv, NEW p \in PEs, ExecReq(p)
  PROVE  SwmanOK' /\ QueuesOK(ch')
<1> DEFINE c == Taken(SWLOAD(p), SWMAN)
           m == Packet(SWLOAD(p), SWMAN)
           x == IF m.exe \in Missing THEN [cmd |-> "EXECERR", exe |-> m.exe]
                ELSE [cmd |-> "LOAD", id |-> m.id]
<1>1. QueuesOK(c)
  BY WaitsTaken, TakenRoutes DEF TInv, ExecReq
<1>2. x.cmd \notin {"SETSTATUS", "STATUSOK", "LOADOBJ"}
  OBVIOUS
<1>3. ch' = Post(c, SWMAN, SWLOAD(p), x) /\ UNCHANGED swman
  BY DEF ExecReq
<1> HIDE DEF c, x
<1>4. QueuesOK(ch')
  BY <1>1, <1>2, <1>3, PostPlain
<1> QED BY <1>3, <1>4 DEF TInv, SwmanOK, swman

-----------------------------------------------------------------------------
(* HWMAN and the SWLOADs.                                                  *)

LEMMA PartIsQueue ==
  ASSUME NEW a \in Apps, NEW at \in [Keys(a) -> PEs], NEW p
  PROVE  IsQueue(Part(at, p))
<1> DEFINE s == Ascending(On(at, p))
           n == Cardinality(On(at, p))
<1>1. On(at, p) \subseteq 1..Len(File[a]) /\ Len(File[a]) \in Nat
  BY FileAssumption DEF On
<1>2. s \in [1..n -> On(at, p)] /\ n \in Nat
  BY <1>1, AscendingIs
<1>3. Part(at, p) = [i \in 1..Len(s) |-> s[(Len(s) - i) + 1]]
  BY DEF Part, Reverse
<1> HIDE DEF s, n
<1>4. Len(s) = n
  BY <1>2
<1>5. Part(at, p) \in [1..n -> On(at, p)]
  BY <1>2, <1>3, <1>4
<1>6. Part(at, p) \in Seq(On(at, p))
  BY <1>2, <1>5
<1> QED BY <1>6 DEF IsQueue

LEMMA LoadProper ==
  ASSUME NEW c, QueuesOK(c), NEW i, NEW a \in Apps, NEW at \in [Keys(a) -> PEs]
  PROVE  QueuesOK(LoadObjs(c, i, a, at))
<1> DEFINE d == LoadObjs(c, i, a, at)
           m(r) == [cmd |-> "LOADOBJ", inst |-> i, app |-> a, objs |-> Part(at, r[2][2])]
<1>1. DOMAIN d = Routes /\ \A r \in Routes : d[r] = c[r] \/ d[r] = Append(c[r], m(r))
  BY DEF LoadObjs, QueuesOK
<1>2. ASSUME NEW r PROVE Proper(m(r))
  <2>1. m(r).cmd = "LOADOBJ" /\ m(r).objs = Part(at, r[2][2])
    OBVIOUS
  <2> QED BY <2>1, PartIsQueue DEF Proper
<1> HIDE DEF d, m
<1>3. ASSUME NEW r \in Routes PROVE ProperQueue(d[r])
  BY <1>1, <1>2, OneMoreProper DEF QueuesOK
<1>4. QueuesOK(d)
  BY <1>1, <1>3 DEF QueuesOK
<1> QED BY <1>4 DEF d

LEMMA HwmanTyped ==
  ASSUME TInv, FaultsOK', HwNext, UNCHANGED <<user, swman, swload, proc>>,
         Packet(SWMAN, HWMAN).app \in Apps
  PROVE  TInv'
<1> DEFINE m == Packet(SWMAN, HWMAN)
           c == Taken(SWMAN, HWMAN)
<1>1. QueuesOK(c)
  BY WaitsTaken, TakenRoutes DEF TInv, HwNext, SwMapper, SwUnmap
<1>2. \/ \E at \in [Keys(m.app) -> PEs] : ch' = LoadObjs(c, m.inst, m.app, at)
      \/ ch' = Post(c, HWMAN, SWMAN, [cmd |-> "MAPAPPERROR", app |-> m.app])
      \/ ch' = c
  BY DEF HwNext, SwMapper, SwUnmap
<1>3. m.app \in Apps
  OBVIOUS
<1> HIDE DEF m, c
<1>4. QueuesOK(ch')
  BY <1>1, <1>2, <1>3, LoadProper, PostPlain
<1> QED BY <1>4 DEF TInv, UserOK, SwmanOK, SwloadOK, ProcOK, user, swman, swload

LEMMA RequestProper ==
  ASSUME NEW c, QueuesOK(c), NEW p, NEW q
  PROVE  QueuesOK(Request(c, p, q))
BY PostPlain DEF Request

\* What the rest of the invariant needs of a step of a SWLOAD.
LEMMA SwloadStep ==
  ASSUME TInv, FaultsOK', UNCHANGED <<user, swman>>, NEW p \in PEs,
         NEW q, NEW x, DownloadsOK(q, x),
         down_q' = [down_q EXCEPT ![p] = q],
         exeid' = [exeid EXCEPT ![p] = x] \/ (exeid' = exeid /\ x = exeid[p]),
         ProcOK', QueuesOK(ch')
  PROVE  TInv'
<1>1. SwloadOK'
  <2>1. DOMAIN down_q = PEs /\ DOMAIN exeid = PEs /\ \A r \in PEs : DownloadsOK(down_q[r], exeid[r])
    BY DEF TInv, SwloadOK
  <2> HIDE DEF DownloadsOK
  <2>2. ASSUME NEW r \in PEs PROVE DownloadsOK(down_q'[r], exeid'[r])
    <3>1. CASE r = p
      BY <2>1, <3>1
    <3>2. CASE r # p
      BY <2>1, <3>2
    <3> QED BY <3>1, <3>2
  <2>3. DOMAIN down_q' = PEs /\ DOMAIN exeid' = PEs
    BY <2>1
  <2> QED BY <2>2, <2>3 DEF SwloadOK
<1> QED BY <1>1 DEF TInv, UserOK, SwmanOK, user, swman

LEMMA LoadObjTyped ==
  ASSUME TInv, FaultsOK', NEW p \in PEs, LoadObj(p), UNCHANGED <<user, swman>>
  PROVE  TInv'
<1> DEFINE m == Packet(HWMAN, SWLOAD(p))
           q0 == down_q[p]
           id == exeid[p]
           q == Queued(q0, id, m)
           c == Taken(HWMAN, SWLOAD(p))
<1>1. QueuesOK(c) /\ IsQueue(m.objs)
  <2>1. QueuesOK(c) /\ Proper(m) /\ m.cmd = "LOADOBJ"
    BY WaitsTaken, TakenRoutes DEF TInv, LoadObj
  <2> QED BY <2>1 DEF Proper
<1>2. DownloadsOK(q0, id)
  BY DEF TInv, SwloadOK
<1>3. Len(q) \in Nat /\ Len(q0) \in Nat /\ DownloadsOK(q, id + Len(q) - Len(q0))
  <2> HIDE DEF m, q0, id, q
  <2>1. q = Queued(q0, id, m)
    BY DEF q
  <2> QED BY <1>1, <1>2, <2>1, EnqueuedAll
<1>4. /\ down_q' = [down_q EXCEPT ![p] = q]
      /\ exeid' = [exeid EXCEPT ![p] = id + Len(q) - Len(q0)]
      /\ ch' = Request(c, p, q) /\ UNCHANGED proc
  BY Zenon DEF LoadObj, Queued
<1> HIDE DEF q, c, q0, id
<1>5. QueuesOK(ch')
  BY <1>1, <1>4, RequestProper
<1>6. ProcOK'
  BY <1>4 DEF TInv, ProcOK
<1> QED BY <1>3, <1>4, <1>5, <1>6, SwloadStep

LEMMA FoundIn ==
  ASSUME NEW q, IsQueue(q), NEW I \in SUBSET (1..Len(q)), I # {}
  PROVE  Min(I) \in DOMAIN q
<1>1. Len(q) \in Nat /\ DOMAIN q = 1..Len(q)
  BY QueueMore
<1>2. I \in SUBSET Nat
  BY <1>1
<1>3. PICK x \in I : \A y \in I : x <= y
  BY <1>2, MinExists
<1>4. Min(I) \in I
  BY <1>3 DEF Min
<1> QED BY <1>1, <1>4

\* An executable SWLOAD cannot get or launch.
LEMMA LoadErrorTyped ==
  ASSUME TInv, FaultsOK', NEW p \in PEs, UNCHANGED <<user, swman, exeid>>, ProcOK',
         NEW c, QueuesOK(c), NEW n \in DOMAIN down_q[p], LoadError(c, p, n)
  PROVE  TInv'
<1> DEFINE m == [cmd |-> "EXECERR", app |-> down_q[p][n].objs[1].app]
           q == RemoveAt(down_q[p], n)
<1>1. m.cmd \notin {"SETSTATUS", "STATUSOK", "LOADOBJ"}
  OBVIOUS
<1>2. ch' = Post(c, SWLOAD(p), SWMAN, m) /\ down_q' = [down_q EXCEPT ![p] = q]
  BY DEF LoadError
<1>3. DownloadsOK(q, exeid[p])
  BY DownloadOut DEF TInv, SwloadOK
<1> HIDE DEF m, q
<1>4. QueuesOK(ch')
  BY <1>1, <1>2, PostPlain
<1> QED BY <1>2, <1>3, <1>4, SwloadStep

LEMMA LaunchTyped ==
  ASSUME ProcOK, NEW p \in PEs, NEW os, Launch(p, os)
  PROVE  ProcOK'
<1>1. PICK ls : proc' = [o \in Objects |->
                  IF o \in os THEN Fresh(p)
                  ELSE IF o \in ls THEN [proc[o] EXCEPT !.at = "lost"] ELSE proc[o]]
  BY DEF Launch
<1>2. Fresh(p) \in Entry
  BY StatusIs DEF Fresh, Entry
<1>3. \A o \in Objects : proc[o] \in Entry /\ [proc[o] EXCEPT !.at = "lost"] \in Entry
  BY DEF ProcOK, Entry
<1> QED BY <1>1, <1>2, <1>3 DEF ProcOK

LEMMA NothingLoaded ==
  ASSUME TInv, FaultsOK', NEW p \in PEs, UNCHANGED <<user, swman, swload, proc>>, QueuesOK(ch')
  PROVE  TInv'
BY DEF TInv, UserOK, SwmanOK, SwloadOK, ProcOK, user, swman, swload

LEMMA ExecErrTyped ==
  ASSUME TInv, FaultsOK', NEW p \in PEs, ExecErr(p), UNCHANGED <<user, swman>>
  PROVE  TInv'
<1> DEFINE c == Taken(SWMAN, SWLOAD(p))
           I == {j \in 1..Len(down_q[p]) : down_q[p][j].exe = Packet(SWMAN, SWLOAD(p)).exe}
           n == IF I # {} THEN Min(I) ELSE 0
<1>1. QueuesOK(c) /\ IsQueue(down_q[p])
  BY WaitsTaken, TakenRoutes DEF TInv, ExecErr, SwloadOK, DownloadsOK
<1>2. /\ UNCHANGED <<exeid, proc>>
      /\ IF n = 0 THEN ch' = c /\ UNCHANGED down_q ELSE LoadError(c, p, n)
  BY Zenon DEF ExecErr, SelectInSeq
<1>3. n = 0 \/ n \in DOMAIN down_q[p]
  BY <1>1, FoundIn
<1> HIDE DEF c, n
<1>4. ProcOK'
  BY <1>2 DEF TInv, ProcOK
<1>5. CASE n = 0
  BY <1>1, <1>2, <1>5, NothingLoaded DEF swload
<1>6. CASE n # 0
  BY <1>1, <1>2, <1>3, <1>4, <1>6, LoadErrorTyped
<1> QED BY <1>5, <1>6

LEMMA LoadEndTyped ==
  ASSUME TInv, FaultsOK', NEW p \in PEs, LoadEnd(p), UNCHANGED <<user, swman>>
  PROVE  TInv'
<1> DEFINE c == Taken(SWMAN, SWLOAD(p))
           I == {j \in 1..Len(down_q[p]) : down_q[p][j].id = Packet(SWMAN, SWLOAD(p)).id}
           n == IF I # {} THEN Min(I) ELSE 0
           q == RemoveAt(down_q[p], n)
<1>1. QueuesOK(c) /\ IsQueue(down_q[p])
  BY WaitsTaken, TakenRoutes DEF TInv, LoadEnd, SwloadOK, DownloadsOK
<1>2. /\ UNCHANGED exeid
      /\ \/ /\ ch' = Post(c, SWLOAD(p), SWMAN, [cmd |-> "EXECERR"])
            /\ UNCHANGED <<down_q, proc>>
         \/ /\ n # 0 /\ \E os : Launch(p, os)
            /\ down_q' = [down_q EXCEPT ![p] = q] /\ ch' = Request(c, p, q)
         \/ n # 0 /\ (\E os : Launch(p, os)) /\ LoadError(c, p, n)
  BY Zenon DEF LoadEnd, SelectInSeq
<1>3. n = 0 \/ n \in DOMAIN down_q[p]
  BY <1>1, FoundIn
<1>4. n # 0 => DownloadsOK(q, exeid[p])
  <2> HIDE DEF n
  <2> QED BY <1>3, DownloadOut DEF TInv, SwloadOK
<1> HIDE DEF c, n, q
<1>5. ProcOK'
  BY <1>2, LaunchTyped DEF TInv, ProcOK
<1>6. CASE ch' = Post(c, SWLOAD(p), SWMAN, [cmd |-> "EXECERR"]) /\ UNCHANGED <<down_q, proc>>
  <2>1. QueuesOK(ch')
    BY <1>1, <1>6, PostPlain
  <2> QED BY <1>2, <1>6, <2>1, NothingLoaded DEF swload
<1>7. CASE n # 0 /\ down_q' = [down_q EXCEPT ![p] = q] /\ ch' = Request(c, p, q)
  <2>1. QueuesOK(ch')
    BY <1>1, <1>7, RequestProper
  <2> QED BY <1>2, <1>4, <1>5, <1>7, <2>1, SwloadStep
<1>8. CASE n # 0 /\ LoadError(c, p, n)
  BY <1>1, <1>2, <1>3, <1>5, <1>8, LoadErrorTyped
<1> QED BY <1>2, <1>6, <1>7, <1>8

-----------------------------------------------------------------------------
(* The objects and EXEC.                                                   *)

LEMMA ProcSet ==
  ASSUME ProcOK, NEW o, NEW e, o \in Objects => e \in Entry, Becomes(o, e)
  PROVE  ProcOK'
BY DEF ProcOK, Becomes

\* The entries an object can get.
LEMMA EntryFields ==
  ASSUME NEW e \in Entry
  PROVE  /\ Killed(e) \subseteq Entry /\ Adopted(e) \in Entry
         /\ \A st \in Status : [e EXCEPT !.next = st, !.prog = 1] \in Entry
         /\ [e EXCEPT !.at = "dead"] \in Entry /\ [e EXCEPT !.at = "gone"] \in Entry
         /\ [e EXCEPT !.prog = 0] \in Entry
         /\ [e EXCEPT !.at = "dead", !.next = "STOP", !.prog = 1] \in Entry
         /\ [e EXCEPT !.cur = "ABNSTOP", !.next = "ABNSTOP", !.prog = 2] \in Entry
<1>1. Killed(e) \subseteq Entry
  BY DEF Killed, Entry
<1>2. /\ "STEP" \in Status /\ "PAUSE" \in Status /\ "STOP" \in Status /\ "ABNSTOP" \in Status
      /\ 0 \in 0..2 /\ 1 \in 0..2 /\ 2 \in 0..2
  BY StatusIs
<1>3. ASSUME NEW d \in Entry, NEW st \in Status, NEW g \in 0..2
      PROVE  /\ [d EXCEPT !.cur = st] \in Entry /\ [d EXCEPT !.next = st] \in Entry
             /\ [d EXCEPT !.prog = g] \in Entry /\ d.next \in Status
  BY DEF Entry
<1>4. /\ [e EXCEPT !.at = "dead"] \in Entry /\ [e EXCEPT !.at = "gone"] \in Entry
  BY DEF Entry
<1>5. Adopted(e) \in Entry
  <2>1. [[e EXCEPT !.cur = "STEP"] EXCEPT !.next = "PAUSE"] \in Entry
    BY <1>2, <1>3
  <2>2. [[e EXCEPT !.cur = e.next] EXCEPT !.prog = 2] \in Entry
    BY <1>2, <1>3
  <2> QED BY <2>1, <2>2 DEF Adopted
<1>6. \A st \in Status : [e EXCEPT !.next = st, !.prog = 1] \in Entry
  <2>1. \A st \in Status : [[e EXCEPT !.next = st] EXCEPT !.prog = 1] \in Entry
    BY <1>2, <1>3
  <2> QED BY <2>1
<1>7. [e EXCEPT !.at = "dead", !.next = "STOP", !.prog = 1] \in Entry
  <2>1. [[[e EXCEPT !.at = "dead"] EXCEPT !.next = "STOP"] EXCEPT !.prog = 1] \in Entry
    BY <1>2, <1>3, <1>4
  <2> QED BY <2>1
<1>8. [e EXCEPT !.cur = "ABNSTOP", !.next = "ABNSTOP", !.prog = 2] \in Entry
  <2>1. [[[e EXCEPT !.cur = "ABNSTOP"] EXCEPT !.next = "ABNSTOP"] EXCEPT !.prog = 2] \in Entry
    BY <1>2, <1>3
  <2> QED BY <2>1
<1> QED BY <1>1, <1>2, <1>3, <1>4, <1>5, <1>6, <1>7, <1>8

LEMMA ReportErr ==
  ASSUME NEW c, QueuesOK(c), NEW o, NEW st
  PROVE  QueuesOK(Report(c, o, "STATUSERR", st))
BY PostPlain DEF Report

LEMMA ReportOk ==
  ASSUME NEW c, QueuesOK(c), NEW o, NEW st \in Status
  PROVE  QueuesOK(Report(c, o, "STATUSOK", st))
BY PostProper DEF Report, Proper

LEMMA SetStatusTyped ==
  ASSUME TInv, NEW p \in PEs, SetStatus(p)
  PROVE  ProcOK' /\ QueuesOK(ch')
<1> DEFINE m == Packet(SWMAN, EXEC(p))
           o == m.obj
           c == Taken(SWMAN, EXEC(p))
<1>1. QueuesOK(c) /\ m.st \in Status /\ ProcOK
  <2>1. QueuesOK(c) /\ Proper(m) /\ m.cmd = "SETSTATUS"
    BY WaitsTaken, TakenRoutes DEF TInv, SetStatus
  <2> QED BY <2>1 DEF Proper, TInv
<1>2. \/ ch' = c /\ UNCHANGED proc
      \/ Becomes(o, [proc[o] EXCEPT !.next = m.st, !.prog = 1]) /\ ch' = c
      \/ /\ \E e \in Killed(proc[o]) : Becomes(o, e)
         /\ ch' = Report(c, o, "STATUSERR", proc[o].cur)
  BY DEF SetStatus, RefuseKills
<1> HIDE DEF m, o, c
<1>3. CASE ch' = c /\ UNCHANGED proc
  BY <1>1, <1>3 DEF ProcOK
<1>4. CASE Becomes(o, [proc[o] EXCEPT !.next = m.st, !.prog = 1]) /\ ch' = c
  <2>1. o \in Objects => [proc[o] EXCEPT !.next = m.st, !.prog = 1] \in Entry
    BY <1>1, EntryFields DEF ProcOK
  <2> QED BY <1>1, <1>4, <2>1, ProcSet
<1>5. ASSUME NEW e \in Killed(proc[o]), Becomes(o, e), ch' = Report(c, o, "STATUSERR", proc[o].cur)
      PROVE  ProcOK' /\ QueuesOK(ch')
  <2>1. o \in Objects => e \in Entry
    BY <1>1, EntryFields DEF ProcOK
  <2> QED BY <1>1, <1>5, <2>1, ProcSet, ReportErr
<1> QED BY <1>2, <1>3, <1>4, <1>5

LEMMA ObjectTyped ==
  ASSUME TInv, NEW o \in Objects, Adopt(o) \/ Close(o) \/ Fails(o) \/ Crash(o)
  PROVE  ProcOK' /\ QueuesOK(ch')
<1>1. QueuesOK(ch) /\ UNCHANGED ch /\ ProcOK /\ proc[o] \in Entry
  BY DEF TInv, ProcOK, Adopt, Close, Fails, Crash, Quietly
<1>2. \/ Becomes(o, Adopted(proc[o]))
      \/ Becomes(o, [proc[o] EXCEPT !.at = "dead", !.next = "STOP", !.prog = 1])
      \/ Becomes(o, [proc[o] EXCEPT !.cur = "ABNSTOP", !.next = "ABNSTOP", !.prog = 2])
      \/ Becomes(o, [proc[o] EXCEPT !.at = "dead"])
  BY DEF Adopt, Close, Fails, Crash
<1>3. ProcOK'
  BY <1>1, <1>2, EntryFields, ProcSet
<1> QED BY <1>1, <1>3

LEMMA WatchTyped ==
  ASSUME TInv, NEW o \in Objects, Watch(o)
  PROVE  ProcOK' /\ QueuesOK(ch')
<1> DEFINE e == proc[o]
<1>1. QueuesOK(ch) /\ ProcOK /\ e \in Entry /\ e.cur \in Status
  BY DEF TInv, ProcOK, Entry
<1>2. CASE Died(o)
  <2>1. ch' = ch \/ ch' = Report(ch, o, "STATUSERR", e.cur)
    BY <1>2 DEF Died
  <2>2. Becomes(o, [e EXCEPT !.at = "gone"])
    BY <1>2 DEF Died
  <2> HIDE DEF e
  <2>3. QueuesOK(ch')
    BY <1>1, <2>1, ReportErr
  <2>4. ProcOK'
    BY <1>1, <2>2, EntryFields, ProcSet
  <2> QED BY <2>3, <2>4
<1>3. CASE Ack(o)
  <2>1. ch' = Report(ch, o, "STATUSOK", e.cur) /\ Becomes(o, [e EXCEPT !.prog = 0])
    BY <1>3 DEF Ack
  <2> HIDE DEF e
  <2> QED BY <1>1, <2>1, EntryFields, ProcSet, ReportOk
<1>4. CASE Late(o)
  <2>1. ch' = Report(ch, o, "STATUSERR", "ABNSTOP")
    BY <1>4 DEF Late
  <2>2. Becomes(o, [e EXCEPT !.at = "gone"]) \/ \E d \in Killed(e) : Becomes(o, d)
    BY <1>4 DEF Late
  <2> HIDE DEF e
  <2> QED BY <1>1, <2>1, <2>2, EntryFields, ProcSet, ReportErr
<1> QED BY <1>2, <1>3, <1>4 DEF Watch

LEMMA ExecStep ==
  ASSUME TInv, FaultsOK', UNCHANGED <<user, swman, swload>>, ProcOK', QueuesOK(ch')
  PROVE  TInv'
BY DEF TInv, UserOK, SwmanOK, SwloadOK, user, swman, swload

-----------------------------------------------------------------------------
(* Together.                                                               *)

\* What the lists of SWMAN and HWMAN say of the instances and the orders.
LEMMA KnownInstances ==
  ASSUME BInv
  PROVE  /\ setup \in Setups /\ app_id \in 1..(MaxCalls + 1)
         /\ DOMAIN apps \subseteq Insts /\ Placed(loaded)
         /\ calls \in 0..setup.calls /\ DOMAIN ch = Routes
<1>1. /\ setup \in Setups /\ app_id \in Nat \ {0} /\ ListOK(Names(apps), app_id)
      /\ calls \in Nat /\ calls <= setup.calls /\ DOMAIN ch = Routes
  BY DEF BInv, AInv, CountsOK, RoadsOK, ListsOK, Alike
<1>2. app_id <= MaxCalls + 1
  BY Instances DEF BInv, AInv, CountsOK, RoadsOK, ListsOK, Alike
<1>3. MaxCalls \in Nat /\ setup.calls \in Nat
  BY <1>1, BoundAssumption
<1>4. DOMAIN apps \subseteq Insts
  <2>1. \A i \in DOMAIN apps : i \in Nat \ {0} /\ i < app_id
    BY <1>1, NamesAt DEF ListOK
  <2> QED BY <1>1, <1>2, <1>3, <2>1 DEF Insts
<1>5. Placed(loaded)
  BY <1>2, PlacedIs DEF BInv, AInv, ListsOK, PlacesOK
<1> QED BY <1>1, <1>2, <1>3, <1>4, <1>5

LEMMA KnownPackets ==
  ASSUME AInv
  PROVE  /\ ch[<<CMDMAN, SWMAN>>] # <<>> => /\ Packet(CMDMAN, SWMAN) \in Orders
                                           /\ Packet(CMDMAN, SWMAN).app \in Apps
         /\ ch[<<SWMAN, HWMAN>>] # <<>> => Packet(SWMAN, HWMAN).app \in Apps
<1>1. ch[SH] \in Seq(ToHwman)
  BY DEF AInv, RoadsOK
<1>2. ch[SH] # <<>> => Head(ch[SH]) \in ToHwman
  BY <1>1
<1> QED BY <1>2, OrderTaken DEF CS, SH, Packet, ToHwman

\* Every handler says whether it was a fault.
LEMMA FaultStep ==
  ASSUME TInv, BInv, Next
  PROVE  FaultsOK'
<1>1. Fault \/ NoFault
  <2>1. CASE User
    BY <2>1 DEF User, CmNext, LoadAppCall, AppStatusCall, Answered, Timeout
  <2>2. CASE SwmanFromUser \/ SwmanFromHwman \/ Hwman
    BY <2>2 DEF SwmanFromUser, SwmanFromHwman, Hwman, LoadApp, AppStatus, AppError, HwNext,
       SwMapper, SwUnmap
  <2>3. ASSUME NEW p \in PEs,
               SwmanFromSwload(p) \/ SwmanFromExec(p) \/ SwloadFromHwman(p) \/ SwloadFromSwman(p)
                 \/ Exec(p)
        PROVE  Fault \/ NoFault
    <3>1. CASE SwmanFromSwload(p) \/ SwmanFromExec(p)
      BY <3>1 DEF SwmanFromSwload, SwmanFromExec, AppError, ExecReq, StatusRep
    <3>2. CASE SwloadFromHwman(p) \/ SwloadFromSwman(p)
      BY Zenon, <3>2 DEF SwloadFromHwman, SwloadFromSwman, LoadObj, ExecErr, LoadEnd
    <3>3. CASE Exec(p)
      BY <3>3 DEF Exec, SetStatus
    <3> QED BY <2>3, <3>1, <3>2, <3>3
  <2>4. ASSUME NEW o \in Objects, Library(o) \/ Trouble(o) \/ Watched(o)
        PROVE  Fault \/ NoFault
    BY <2>4 DEF Library, Trouble, Watched, Adopt, Close, Fails, Crash, Watch, Died, Ack, Late,
       Quietly
  <2> QED BY <2>1, <2>2, <2>3, <2>4 DEF Next, Step
<1>2. setup \in Setups /\ setup' = setup
  BY KnownInstances DEF Next
<1> QED BY <1>1, <1>2, FaultOK DEF TInv

LEMMA StepTypes ==
  ASSUME TInv, BInv, [Next]_vars
  PROVE  TInv'
<1>1. CASE UNCHANGED vars
  BY <1>1 DEF vars, TInv, UserOK, SwmanOK, SwloadOK, ProcOK, FaultsOK, user, swman, swload
<1>2. CASE Next
  <2>1. FaultsOK' /\ setup \in Setups /\ setup' = setup /\ DOMAIN apps \subseteq Insts /\ AInv
    BY <1>2, FaultStep, KnownInstances DEF BInv, Next
  <2>2. CASE User
    BY <2>1, <2>2, UserTyped DEF User
  <2>3. CASE SwmanFromUser
    <3>1. ch[<<CMDMAN, SWMAN>>] # <<>>
      BY <2>3 DEF SwmanFromUser, LoadApp, AppStatus, Waits
    <3>2. Packet(CMDMAN, SWMAN) \in Orders /\ Packet(CMDMAN, SWMAN).app \in Apps
      BY <2>1, <3>1, KnownPackets
    <3>3. SwmanOK' /\ QueuesOK(ch')
      BY <2>1, <2>3, <3>2, LoadAppTyped, AppStatusTyped DEF SwmanFromUser
    <3> QED BY <2>1, <2>3, <3>3, SwmanStep DEF SwmanFromUser
  <2>4. CASE SwmanFromHwman
    <3>1. SwmanOK' /\ QueuesOK(ch')
      BY <2>1, <2>4, TakenRoutes, AppErrorTyped DEF SwmanFromHwman
    <3> QED BY <2>1, <2>4, <3>1, SwmanStep DEF SwmanFromHwman
  <2>5. CASE Hwman
    <3>1. ch[<<SWMAN, HWMAN>>] # <<>>
      BY <2>5 DEF Hwman, HwNext, SwMapper, SwUnmap, Waits
    <3>2. Packet(SWMAN, HWMAN).app \in Apps
      BY <2>1, <3>1, KnownPackets
    <3> QED BY <2>1, <2>5, <3>2, HwmanTyped DEF Hwman
  <2>6. ASSUME NEW p \in PEs, SwmanFromSwload(p) PROVE TInv'
    <3>1. SwmanOK' /\ QueuesOK(ch')
      BY <2>1, <2>6, TakenRoutes, AppErrorTyped, ExecReqTyped DEF SwmanFromSwload
    <3> QED BY <2>1, <2>6, <3>1, SwmanStep DEF SwmanFromSwload
  <2>7. ASSUME NEW p \in PEs, SwmanFromExec(p) PROVE TInv'
    <3>1. SwmanOK' /\ QueuesOK(ch')
      BY <2>7, StatusRepTyped DEF SwmanFromExec
    <3> QED BY <2>1, <2>7, <3>1, SwmanStep DEF SwmanFromExec
  <2>8. ASSUME NEW p \in PEs, SwloadFromHwman(p) PROVE TInv'
    BY <2>1, <2>8, LoadObjTyped DEF SwloadFromHwman
  <2>9. ASSUME NEW p \in PEs, SwloadFromSwman(p) PROVE TInv'
    BY <2>1, <2>9, ExecErrTyped, LoadEndTyped DEF SwloadFromSwman
  <2>10. ASSUME NEW p \in PEs, Exec(p) PROVE TInv'
    BY <2>1, <2>10, SetStatusTyped, ExecStep DEF Exec
  <2>11. ASSUME NEW o \in Objects, Library(o) \/ Trouble(o) PROVE TInv'
    BY <2>1, <2>11, ObjectTyped, ExecStep DEF Library, Trouble, Others
  <2>12. ASSUME NEW o \in Objects, Watched(o) PROVE TInv'
    BY <2>1, <2>12, WatchTyped, ExecStep DEF Watched, Others
  <2> QED BY <1>2, <2>2, <2>3, <2>4, <2>5, <2>6, <2>7, <2>8, <2>9, <2>10, <2>11, <2>12
       DEF Next, Step
<1> QED BY <1>1, <1>2

LEMMA TypesStart == Init => TInv
<1> SUFFICES ASSUME Init PROVE TInv
  OBVIOUS
<1>1. UserOK /\ SwmanOK
  <2>1. call = Idle /\ mixed = FALSE /\ apps = <<>> /\ dropped = {} /\ DOMAIN apps = {}
    BY DEF Init, CmInit, SwInit
  <2> QED BY <2>1 DEF UserOK, SwmanOK
<1>2. ProcOK
  <2>1. NoEntry \in Entry
    BY RootAssumption, StatusIs DEF NoEntry, Entry
  <2> QED BY <2>1 DEF Init, ExInit, ProcOK
<1>3. IsQueue(<<>>) /\ DOMAIN <<>> = {}
  BY EmptySeq DEF IsQueue
<1>4. SwloadOK
  BY <1>3 DEF Init, LdInit, SwloadOK, DownloadsOK
<1>5. QueuesOK(ch)
  BY <1>3 DEF Init, QueuesOK, ProperQueue
<1>6. FaultsOK
  BY BoundAssumption DEF Init, FaultsOK
<1> QED BY <1>1, <1>2, <1>4, <1>5, <1>6 DEF TInv

LEMMA TypesMean ==
  ASSUME TInv, BInv
  PROVE  TypeOK
<1>1. /\ DOMAIN ch = Routes /\ setup \in Setups /\ faults \in 0..setup.faults
      /\ calls \in 0..setup.calls /\ app_id \in 1..(MaxCalls + 1) /\ DOMAIN apps \subseteq Insts
  BY KnownInstances DEF TInv, FaultsOK
<1>2. /\ mixed \in BOOLEAN
      /\ call = Idle \/ call \in [app : Apps, st : Status \cup {"load"}, two : BOOLEAN]
      /\ dropped \subseteq Insts /\ proc \in [Objects -> Entry]
  BY DEF TInv, UserOK, SwmanOK, ProcOK
<1>3. \A i \in DOMAIN apps :
        /\ apps[i].name \in Apps
        /\ apps[i].cur \in Status /\ apps[i].pend \in Status
        /\ apps[i].obj \in [Keys(apps[i].name) -> [st : Status, pe : PEs \cup {NoPE}]]
  BY AppParts DEF TInv, SwmanOK
<1>4. /\ DOMAIN loaded \subseteq Insts
      /\ \A i \in DOMAIN loaded :
           loaded[i].name \in Apps /\ loaded[i].at \in [Keys(loaded[i].name) -> PEs]
  BY KnownInstances DEF Placed
<1>5. nof_objects \in [PEs -> Nat] /\ C \in [PEs -> Int] /\ intBW \in [PEs -> Int]
  <2>1. /\ nof_objects \in [PEs -> Int] /\ C \in [PEs -> Int] /\ intBW \in [PEs -> Int]
        /\ \A p \in PEs : nof_objects[p] = Cardinality(MineOf(loaded, p))
    BY DEF BInv, BooksOK, Books
  <2>2. \A p : Cardinality(MineOf(loaded, p)) \in Nat
    BY KnownInstances, OneList, FS_CardinalityType
  <2> QED BY <2>1, <2>2
<1>6. ASSUME NEW p \in PEs, NEW n \in 1..MaxKey, n <= Len(down_q[p])
      PROVE  down_q[p][n].objs # <<>> /\ down_q[p][n].id < exeid[p]
  <2>1. DownloadsOK(down_q[p], exeid[p])
    BY DEF TInv, SwloadOK
  <2>2. Len(down_q[p]) \in Nat /\ DOMAIN down_q[p] = 1..Len(down_q[p]) /\ MaxKey \in Nat
    BY <2>1, QueueMore, MaxKeyIs DEF DownloadsOK
  <2>3. n \in DOMAIN down_q[p]
    BY <1>6, <2>2
  <2> QED BY <2>1, <2>3 DEF DownloadsOK, Download
<1> QED BY <1>1, <1>2, <1>3, <1>4, <1>5, <1>6 DEF TypeOK

\* Every variable of the daemons keeps its type, for any platform, waveforms and
\* orders: entries for as many instances as there were calls, objects booked a
\* natural number of times, downloads with objects that wait and ids given out.
THEOREM DeployTypes == Spec => []TypeOK
<1>1. Init => TInv /\ BInv
  BY TypesStart, StartsSo, BooksStart DEF BInv
<1>2. TInv /\ BInv /\ [Next]_vars => TInv' /\ BInv'
  BY StepTypes, StepKeeps, StepBooks DEF BInv
<1>3. TInv /\ BInv => TypeOK
  BY TypesMean
<1> QED BY <1>1, <1>2, <1>3, PTL DEF Spec
=============================================================================
