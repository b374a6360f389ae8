---------------------------- MODULE Deploy_proofs ----------------------------
(***************************************************************************)
(* What SWMAN and HWMAN hold to be loaded.  SWMAN's list s and HWMAN's     *)
(* list l give each instance its name; q are the packets from SWMAN to     *)
(* HWMAN, and r the ones back.  A removal and an error name the waveform   *)
(* only, and they are right all the same: the invariant says in which      *)
(* order the packets about a name can be on their way.                     *)
(***************************************************************************)
EXTENDS Deploy, NatLemmas, SequenceTheorems, FiniteSetTheorems

Names(f) == [i \in DOMAIN f |-> f[i].name]

MapObj(i, a) == [cmd |-> "MAPOBJ", inst |-> i, app |-> a]
UnmapObj(a)  == [cmd |-> "UNMAPOBJ", app |-> a]
MapError(a)  == [cmd |-> "MAPAPPERROR", app |-> a]

ToHwman == [cmd : {"MAPOBJ"}, inst : Nat \ {0}, app : Apps] \cup [cmd : {"UNMAPOBJ"}, app : Apps]
ToSwman == [cmd : {"MAPAPPERROR"}, app : Apps]

Maps(q, n, a) == q[n].cmd = "MAPOBJ" /\ q[n].app = a

\* No name is in the list twice, and its instances are old.
ListOK(f, id) ==
  /\ \A i \in DOMAIN f : i \in Nat \ {0} /\ i < id /\ f[i] \in Apps
  /\ \A i, j \in DOMAIN f : f[i] = f[j] => i = j

\* Instances in the packets are old, and each is in one place only.
FreshOK(q, l, id) ==
  \A n \in DOMAIN q : q[n].cmd = "MAPOBJ" =>
    /\ q[n].inst < id /\ q[n].inst \notin DOMAIN l
    /\ \A m \in DOMAIN q : q[m].cmd = "MAPOBJ" /\ q[m].inst = q[n].inst => m = n

\* Before a name is mapped again its removal is on its way.
TurnsOK(q, l) ==
  \A n \in DOMAIN q, a \in Apps : Maps(q, n, a) =>
    /\ \A m \in DOMAIN q : m < n /\ Maps(q, m, a) =>
         \E k \in DOMAIN q : m < k /\ k < n /\ q[k] = UnmapObj(a)
    /\ \A i \in DOMAIN l : l[i] = a =>
         \E k \in DOMAIN q : k < n /\ q[k] = UnmapObj(a)

\* What SWMAN holds is asked for by the last packet of its name; or there is
\* none, and HWMAN holds it or has said that it cannot.
HeldOK(q, r, s, l) ==
  \A i \in DOMAIN s :
    \/ \E n \in DOMAIN q : /\ q[n] = MapObj(i, s[i])
                           /\ \A k \in DOMAIN q : n < k => q[k] # UnmapObj(s[i])
    \/ /\ \A k \in DOMAIN q : q[k].app # s[i]
       /\ \/ i \in DOMAIN l /\ l[i] = s[i]
          \/ \E k \in DOMAIN r : r[k].app = s[i]

\* What HWMAN holds or is asked for SWMAN holds too, or its removal is behind it.
GivenUpOK(q, s, l) ==
  /\ \A i \in DOMAIN l : \/ i \in DOMAIN s /\ s[i] = l[i]
                         \/ \E k \in DOMAIN q : q[k] = UnmapObj(l[i])
  /\ \A n \in DOMAIN q : q[n].cmd = "MAPOBJ" =>
       \/ q[n].inst \in DOMAIN s /\ s[q[n].inst] = q[n].app
       \/ \E k \in DOMAIN q : n < k /\ q[k] = UnmapObj(q[n].app)

Alike(q, r, s, l, id) ==
  /\ q \in Seq(ToHwman) /\ r \in Seq(ToSwman) /\ id \in Nat \ {0}
  /\ ListOK(s, id) /\ ListOK(l, id) /\ FreshOK(q, l, id)
  /\ TurnsOK(q, l) /\ HeldOK(q, r, s, l) /\ GivenUpOK(q, s, l)

-----------------------------------------------------------------------------
(* Packets and queues.                                                     *)

\* The two kinds of packets of SWMAN, and the one of HWMAN.
LEMMA Kinds ==
  /\ \A i \in Nat \ {0}, a \in Apps : MapObj(i, a) \in ToHwman
  /\ \A a \in Apps : UnmapObj(a) \in ToHwman /\ MapError(a) \in ToSwman
  /\ \A i, a : /\ MapObj(i, a).cmd = "MAPOBJ" /\ MapObj(i, a).inst = i
               /\ MapObj(i, a).app = a
  /\ \A a : UnmapObj(a).cmd = "UNMAPOBJ" /\ UnmapObj(a).app = a
  /\ \A a : MapError(a).app = a
  /\ \A m \in ToHwman :
       /\ m.app \in Apps
       /\ \/ m.cmd = "MAPOBJ" /\ m.inst \in Nat \ {0} /\ m = MapObj(m.inst, m.app)
          \/ m.cmd = "UNMAPOBJ" /\ m = UnmapObj(m.app)
  /\ \A m \in ToSwman : m.app \in Apps
BY DEF ToHwman, ToSwman, MapObj, UnmapObj, MapError

\* A queue with one more packet.
LEMMA Longer ==
  ASSUME NEW S, NEW q \in Seq(S), NEW e \in S
  PROVE  /\ Len(q) \in Nat /\ DOMAIN q = 1..Len(q)
         /\ \A n \in DOMAIN q : q[n] \in S
         /\ Append(q, e) \in Seq(S)
         /\ DOMAIN Append(q, e) = 1..(Len(q) + 1)
         /\ \A n \in DOMAIN q : Append(q, e)[n] = q[n]
         /\ Append(q, e)[Len(q) + 1] = e
BY AppendProperties, LenProperties, ElementOfSeq

\* A queue without its first packet.
LEMMA Shorter ==
  ASSUME NEW S, NEW q \in Seq(S), q # <<>>
  PROVE  /\ Len(q) \in Nat /\ Len(q) > 0 /\ DOMAIN q = 1..Len(q)
         /\ \A n \in DOMAIN q : q[n] \in S
         /\ Tail(q) \in Seq(S)
         /\ DOMAIN Tail(q) = 1..(Len(q) - 1)
         /\ \A n \in DOMAIN Tail(q) : Tail(q)[n] = q[n + 1]
         /\ Head(q) = q[1]
<1>1. Len(q) \in Nat \ {0}
  BY EmptySeq
<1>2. DOMAIN q = 1..Len(q) /\ \A n \in DOMAIN q : q[n] \in S
  BY LenProperties, ElementOfSeq
<1>3. Tail(q) \in Seq(S) /\ Len(Tail(q)) = Len(q) - 1
      /\ \A n \in 1..Len(Tail(q)) : Tail(q)[n] = q[n + 1]
  BY HeadTailProperties
<1>4. DOMAIN Tail(q) = 1..Len(Tail(q))
  BY <1>3, LenProperties
<1>5. Head(q) = q[1]
  BY <1>1
<1> QED BY <1>1, <1>2, <1>3, <1>4, <1>5

-----------------------------------------------------------------------------
(* What SWMAN does to its list and to the packets.                         *)

\* LoadApp puts a waveform into the list and has it mapped.
LEMMA Held ==
  ASSUME NEW q, NEW r, NEW s, NEW l, NEW id, Alike(q, r, s, l, id),
         NEW a \in Apps, \A i \in DOMAIN s : s[i] # a
  PROVE  Alike(Append(q, MapObj(id, a)), r, With(s, id, a), l, id + 1)
<1> DEFINE q1 == Append(q, MapObj(id, a))
           s1 == With(s, id, a)
<1>1. q \in Seq(ToHwman) /\ r \in Seq(ToSwman) /\ id \in Nat \ {0}
  BY DEF Alike
<1>2. MapObj(id, a) \in ToHwman
  BY <1>1, Kinds
<1>3. /\ Len(q) \in Nat /\ DOMAIN q = 1..Len(q)
      /\ \A n \in DOMAIN q : q[n] \in ToHwman
      /\ q1 \in Seq(ToHwman) /\ DOMAIN q1 = 1..(Len(q) + 1)
      /\ \A n \in DOMAIN q : q1[n] = q[n]
      /\ q1[Len(q) + 1] = MapObj(id, a)
  BY <1>1, <1>2, Longer
<1>4. /\ DOMAIN s1 = DOMAIN s \cup {id} /\ s1[id] = a
      /\ id \notin DOMAIN s /\ id \notin DOMAIN l
      /\ \A i \in DOMAIN s : s1[i] = s[i]
  BY <1>1 DEF With, Alike, ListOK
<1> HIDE DEF q1, s1
<1>5. ListOK(s1, id + 1) /\ ListOK(l, id + 1)
  BY <1>1, <1>4 DEF Alike, ListOK
<1>6. FreshOK(q1, l, id + 1)
  <2> SUFFICES ASSUME NEW n \in DOMAIN q1, q1[n].cmd = "MAPOBJ"
               PROVE  /\ q1[n].inst < id + 1 /\ q1[n].inst \notin DOMAIN l
                      /\ \A m \in DOMAIN q1 :
                           q1[m].cmd = "MAPOBJ" /\ q1[m].inst = q1[n].inst => m = n
    BY DEF FreshOK
  <2>1. \A m \in DOMAIN q : q[m].cmd = "MAPOBJ" =>
          /\ q[m].inst \in Nat \ {0} /\ q[m].inst < id /\ q[m].inst \notin DOMAIN l
          /\ \A k \in DOMAIN q : q[k].cmd = "MAPOBJ" /\ q[k].inst = q[m].inst => k = m
    BY <1>3, Kinds DEF Alike, FreshOK
  <2>2. q1[Len(q) + 1].inst = id
    BY <1>3, Kinds
  <2>3. \A m \in DOMAIN q1 : (m \in DOMAIN q /\ q1[m] = q[m]) \/ m = Len(q) + 1
    BY <1>3
  <2>4. CASE n = Len(q) + 1
    <3>1. q1[n].inst = id
      BY <2>2, <2>4
    <3>2. \A m \in DOMAIN q : q[m].cmd = "MAPOBJ" => q[m].inst # id
      BY <2>1, <1>1
    <3> QED BY <2>3, <2>4, <3>1, <3>2, <1>1, <1>4
  <2>5. CASE n \in DOMAIN q /\ q1[n] = q[n]
    <3>1. q[n].inst \in Nat /\ q[n].inst < id /\ q[n].inst \notin DOMAIN l
      BY <2>1, <2>5
    <3>2. q[n].inst < id + 1 /\ q[n].inst # id
      BY <3>1, <1>1
    <3>3. ASSUME NEW m \in DOMAIN q1, q1[m].cmd = "MAPOBJ", q1[m].inst = q1[n].inst
          PROVE  m = n
      BY <2>1, <2>2, <2>3, <2>5, <3>2, <3>3
    <3> QED BY <2>5, <3>1, <3>2, <3>3
  <2> QED BY <2>3, <2>4, <2>5
<1>7. TurnsOK(q1, l)
  <2> SUFFICES ASSUME NEW n \in DOMAIN q1, NEW b \in Apps, Maps(q1, n, b)
               PROVE  /\ \A m \in DOMAIN q1 : m < n /\ Maps(q1, m, b) =>
                           \E k \in DOMAIN q1 : m < k /\ k < n /\ q1[k] = UnmapObj(b)
                      /\ \A i \in DOMAIN l : l[i] = b =>
                           \E k \in DOMAIN q1 : k < n /\ q1[k] = UnmapObj(b)
    BY DEF TurnsOK
  <2>1. CASE n \in DOMAIN q
    BY <2>1, <1>3 DEF Alike, TurnsOK, Maps
  <2>2. CASE n = Len(q) + 1
    <3>1. b = a
      BY <2>2, <1>3, Kinds DEF Maps
    <3>2. ASSUME NEW m \in DOMAIN q1, m < n, Maps(q1, m, b)
          PROVE  \E k \in DOMAIN q1 : m < k /\ k < n /\ q1[k] = UnmapObj(b)
      BY <2>2, <3>1, <3>2, <1>3 DEF Alike, GivenUpOK, Maps
    <3>3. ASSUME NEW i \in DOMAIN l, l[i] = b
          PROVE  \E k \in DOMAIN q1 : k < n /\ q1[k] = UnmapObj(b)
      BY <2>2, <3>1, <3>3, <1>3 DEF Alike, GivenUpOK
    <3> QED BY <3>2, <3>3
  <2> QED BY <2>1, <2>2, <1>3
<1>8. HeldOK(q1, r, s1, l)
  <2> SUFFICES ASSUME NEW i \in DOMAIN s1
               PROVE  \/ \E n \in DOMAIN q1 :
                           /\ q1[n] = MapObj(i, s1[i])
                           /\ \A k \in DOMAIN q1 : n < k => q1[k] # UnmapObj(s1[i])
                      \/ /\ \A k \in DOMAIN q1 : q1[k].app # s1[i]
                         /\ \/ i \in DOMAIN l /\ l[i] = s1[i]
                            \/ \E k \in DOMAIN r : r[k].app = s1[i]
    BY DEF HeldOK
  <2>1. CASE i = id
    BY <2>1, <1>3, <1>4
  <2>2. CASE i \in DOMAIN s
    <3>1. s1[i] = s[i] /\ s[i] # a
      BY <2>2, <1>4
    <3>2. CASE \E n \in DOMAIN q : /\ q[n] = MapObj(i, s[i])
                                   /\ \A k \in DOMAIN q : n < k => q[k] # UnmapObj(s[i])
      <4>1. PICK n \in DOMAIN q : /\ q[n] = MapObj(i, s[i])
                                  /\ \A k \in DOMAIN q : n < k => q[k] # UnmapObj(s[i])
        BY <3>2
      <4>2. n \in DOMAIN q1 /\ q1[n] = MapObj(i, s1[i])
        BY <4>1, <3>1, <1>3
      <4>3. ASSUME NEW k \in DOMAIN q1, n < k PROVE q1[k] # UnmapObj(s1[i])
        BY <4>1, <4>3, <3>1, <1>3, Kinds
      <4> QED BY <4>2, <4>3
    <3>3. CASE /\ \A k \in DOMAIN q : q[k].app # s[i]
               /\ \/ i \in DOMAIN l /\ l[i] = s[i]
                  \/ \E k \in DOMAIN r : r[k].app = s[i]
      BY <3>3, <3>1, <1>3, Kinds
    <3> QED BY <2>2, <3>2, <3>3 DEF Alike, HeldOK
  <2> QED BY <2>1, <2>2, <1>4
<1>9. GivenUpOK(q1, s1, l)
  <2>1. ASSUME NEW i \in DOMAIN l
        PROVE  \/ i \in DOMAIN s1 /\ s1[i] = l[i]
               \/ \E k \in DOMAIN q1 : q1[k] = UnmapObj(l[i])
    BY <1>3, <1>4 DEF Alike, GivenUpOK
  <2>2. ASSUME NEW n \in DOMAIN q1, q1[n].cmd = "MAPOBJ"
        PROVE  \/ q1[n].inst \in DOMAIN s1 /\ s1[q1[n].inst] = q1[n].app
               \/ \E k \in DOMAIN q1 : n < k /\ q1[k] = UnmapObj(q1[n].app)
    <3>1. CASE n = Len(q) + 1
      BY <3>1, <1>3, <1>4, Kinds
    <3>2. CASE n \in DOMAIN q
      BY <3>2, <2>2, <1>3, <1>4 DEF Alike, GivenUpOK
    <3> QED BY <3>1, <3>2, <1>3
  <2> QED BY <2>1, <2>2 DEF GivenUpOK
<1>10. Alike(q1, r, s1, l, id + 1)
  BY <1>1, <1>3, <1>5, <1>6, <1>7, <1>8, <1>9 DEF Alike
<1> QED BY <1>10 DEF q1, s1

\* SWMAN gives a waveform up, or has found its file torn: whoever has the name
\* is out of the list, and HWMAN is told to unmap it.
LEMMA GivenUp ==
  ASSUME NEW q, NEW r, NEW s, NEW l, NEW id, Alike(q, r, s, l, id),
         NEW a \in Apps, NEW id1 \in Nat \ {0}, id <= id1,
         NEW s1, DOMAIN s1 = {i \in DOMAIN s : s[i] # a},
         \A i \in DOMAIN s1 : s1[i] = s[i]
  PROVE  Alike(Append(q, UnmapObj(a)), r, s1, l, id1)
<1> DEFINE q1 == Append(q, UnmapObj(a))
<1>1. q \in Seq(ToHwman) /\ r \in Seq(ToSwman) /\ id \in Nat \ {0}
  BY DEF Alike
<1>2. UnmapObj(a) \in ToHwman
  BY Kinds
<1>3. /\ Len(q) \in Nat /\ DOMAIN q = 1..Len(q)
      /\ \A n \in DOMAIN q : q[n] \in ToHwman
      /\ q1 \in Seq(ToHwman) /\ DOMAIN q1 = 1..(Len(q) + 1)
      /\ \A n \in DOMAIN q : q1[n] = q[n]
      /\ q1[Len(q) + 1] = UnmapObj(a)
  BY <1>1, <1>2, Longer
<1> HIDE DEF q1
<1>4. /\ q1[Len(q) + 1].cmd # "MAPOBJ" /\ q1[Len(q) + 1].app = a
      /\ Len(q) + 1 \in DOMAIN q1
      /\ \A n \in DOMAIN q1 : n \in DOMAIN q \/ n = Len(q) + 1
  BY <1>3, Kinds
<1>5. ListOK(s1, id1) /\ ListOK(l, id1)
  BY <1>1 DEF Alike, ListOK
<1>6. FreshOK(q1, l, id1)
  <2>1. \A n \in DOMAIN q : q[n].cmd = "MAPOBJ" => q[n].inst \in Nat
    BY <1>3, Kinds
  <2> QED BY <2>1, <1>1, <1>3, <1>4 DEF Alike, FreshOK
<1>7. TurnsOK(q1, l)
  <2> SUFFICES ASSUME NEW n \in DOMAIN q1, NEW b \in Apps, Maps(q1, n, b)
               PROVE  /\ \A m \in DOMAIN q1 : m < n /\ Maps(q1, m, b) =>
                           \E k \in DOMAIN q1 : m < k /\ k < n /\ q1[k] = UnmapObj(b)
                      /\ \A i \in DOMAIN l : l[i] = b =>
                           \E k \in DOMAIN q1 : k < n /\ q1[k] = UnmapObj(b)
    BY DEF TurnsOK
  <2>1. n \in DOMAIN q
    BY <1>4 DEF Maps
  <2> QED BY <2>1, <1>3 DEF Alike, TurnsOK, Maps
<1>8. HeldOK(q1, r, s1, l)
  <2> SUFFICES ASSUME NEW i \in DOMAIN s1
               PROVE  \/ \E n \in DOMAIN q1 :
                           /\ q1[n] = MapObj(i, s1[i])
                           /\ \A k \in DOMAIN q1 : n < k => q1[k] # UnmapObj(s1[i])
                      \/ /\ \A k \in DOMAIN q1 : q1[k].app # s1[i]
                         /\ \/ i \in DOMAIN l /\ l[i] = s1[i]
                            \/ \E k \in DOMAIN r : r[k].app = s1[i]
    BY DEF HeldOK
  <2>1. i \in DOMAIN s /\ s1[i] = s[i] /\ s[i] # a
    OBVIOUS
  <2>2. CASE \E n \in DOMAIN q : /\ q[n] = MapObj(i, s[i])
                                 /\ \A k \in DOMAIN q : n < k => q[k] # UnmapObj(s[i])
    <3>1. PICK n \in DOMAIN q : /\ q[n] = MapObj(i, s[i])
                                /\ \A k \in DOMAIN q : n < k => q[k] # UnmapObj(s[i])
      BY <2>2
    <3>2. n \in DOMAIN q1 /\ q1[n] = MapObj(i, s1[i])
      BY <3>1, <2>1, <1>3
    <3>3. ASSUME NEW k \in DOMAIN q1, n < k PROVE q1[k] # UnmapObj(s1[i])
      BY <3>1, <3>3, <2>1, <1>3, <1>4, Kinds
    <3> QED BY <3>2, <3>3
  <2>3. CASE /\ \A k \in DOMAIN q : q[k].app # s[i]
             /\ \/ i \in DOMAIN l /\ l[i] = s[i]
                \/ \E k \in DOMAIN r : r[k].app = s[i]
    BY <2>3, <2>1, <1>3, <1>4
  <2> QED BY <2>1, <2>2, <2>3 DEF Alike, HeldOK
<1>9. GivenUpOK(q1, s1, l)
  <2>1. ASSUME NEW i \in DOMAIN l
        PROVE  \/ i \in DOMAIN s1 /\ s1[i] = l[i]
               \/ \E k \in DOMAIN q1 : q1[k] = UnmapObj(l[i])
    <3>1. CASE l[i] = a
      BY <3>1, <1>3, <1>4
    <3>2. CASE l[i] # a
      BY <3>2, <1>3 DEF Alike, GivenUpOK
    <3> QED BY <3>1, <3>2
  <2>2. ASSUME NEW n \in DOMAIN q1, q1[n].cmd = "MAPOBJ"
        PROVE  \/ q1[n].inst \in DOMAIN s1 /\ s1[q1[n].inst] = q1[n].app
               \/ \E k \in DOMAIN q1 : n < k /\ q1[k] = UnmapObj(q1[n].app)
    <3>1. n \in DOMAIN q /\ q1[n] = q[n] /\ n < Len(q) + 1
      BY <2>2, <1>3, <1>4
    <3>2. CASE q[n].app = a
      BY <3>1, <3>2, <1>3, <1>4
    <3>3. CASE q[n].app # a
      BY <2>2, <3>1, <3>3, <1>3 DEF Alike, GivenUpOK
    <3> QED BY <3>2, <3>3
  <2> QED BY <2>1, <2>2 DEF GivenUpOK
<1>10. Alike(q1, r, s1, l, id1)
  BY <1>1, <1>3, <1>5, <1>6, <1>7, <1>8, <1>9 DEF Alike
<1> QED BY <1>10 DEF q1

\* An error about a name that SWMAN does not hold, or no longer, is taken.
LEMMA ErrorTaken ==
  ASSUME NEW q, NEW r, NEW s, NEW l, NEW id, Alike(q, r, s, l, id), r # <<>>,
         \A i \in DOMAIN s : s[i] # Head(r).app
  PROVE  Alike(q, Tail(r), s, l, id)
<1>1. q \in Seq(ToHwman) /\ r \in Seq(ToSwman)
  BY DEF Alike
<1>2. /\ Len(r) \in Nat /\ DOMAIN r = 1..Len(r)
      /\ Tail(r) \in Seq(ToSwman) /\ DOMAIN Tail(r) = 1..(Len(r) - 1)
      /\ \A n \in DOMAIN Tail(r) : Tail(r)[n] = r[n + 1]
      /\ Head(r) = r[1]
  BY <1>1, Shorter
<1>3. ASSUME NEW i \in DOMAIN s, \E k \in DOMAIN r : r[k].app = s[i]
      PROVE  \E k \in DOMAIN Tail(r) : Tail(r)[k].app = s[i]
  <2>1. PICK k \in DOMAIN r : r[k].app = s[i]
    BY <1>3
  <2>2. k # 1
    BY <2>1, <1>2
  <2>3. k - 1 \in DOMAIN Tail(r) /\ Tail(r)[k - 1] = r[k]
    BY <2>2, <1>2
  <2> QED BY <2>1, <2>3
<1>4. HeldOK(q, Tail(r), s, l)
  BY <1>3 DEF Alike, HeldOK
<1> QED BY <1>2, <1>4 DEF Alike

-----------------------------------------------------------------------------
(* What HWMAN does to its list and to the packets.                         *)

\* The facts about the queue when HWMAN takes a packet from it.
LEMMA Taking ==
  ASSUME NEW q \in Seq(ToHwman), q # <<>>
  PROVE  /\ Len(q) \in Nat /\ 1 \in DOMAIN q /\ DOMAIN q = 1..Len(q)
         /\ Tail(q) \in Seq(ToHwman)
         /\ Head(q) = q[1]
         /\ \A n \in DOMAIN q : q[n] \in ToHwman
         /\ \A n \in DOMAIN q : n # 1 => n - 1 \in DOMAIN Tail(q) /\ Tail(q)[n - 1] = q[n]
         /\ \A n \in DOMAIN Tail(q) : n \in Nat /\ n > 0 /\ n + 1 \in DOMAIN q
                                      /\ Tail(q)[n] = q[n + 1]
BY Shorter

\* What is asked for twice is unmapped in between, also in what is left of q;
\* l1 is what HWMAN holds after the packet it has taken.
LEMMA StillInTurn ==
  ASSUME NEW q, NEW l, NEW l1, q \in Seq(ToHwman), q # <<>>, TurnsOK(q, l),
         \A i \in DOMAIN l1 : \/ i \in DOMAIN l /\ l1[i] = l[i] /\ q[1] # UnmapObj(l[i])
                              \/ Maps(q, 1, l1[i])
  PROVE  TurnsOK(Tail(q), l1)
<1> SUFFICES ASSUME NEW n \in DOMAIN Tail(q), NEW a \in Apps, Maps(Tail(q), n, a)
             PROVE  /\ \A m \in DOMAIN Tail(q) : m < n /\ Maps(Tail(q), m, a) =>
                         \E k \in DOMAIN Tail(q) : m < k /\ k < n /\ Tail(q)[k] = UnmapObj(a)
                    /\ \A i \in DOMAIN l1 : l1[i] = a =>
                         \E k \in DOMAIN Tail(q) : k < n /\ Tail(q)[k] = UnmapObj(a)
  BY DEF TurnsOK
<1>1. /\ n \in Nat /\ n + 1 \in DOMAIN q /\ Maps(q, n + 1, a)
      /\ 1 \in DOMAIN q /\ DOMAIN q = 1..Len(q) /\ Len(q) \in Nat
  BY Taking DEF Maps
<1>2. ASSUME NEW k \in DOMAIN q, k > 1, k < n + 1, q[k] = UnmapObj(a)
      PROVE  k - 1 \in DOMAIN Tail(q) /\ k - 1 < n /\ Tail(q)[k - 1] = UnmapObj(a)
  BY <1>1, <1>2, Taking
<1>3. ASSUME NEW m \in DOMAIN Tail(q), m < n, Maps(Tail(q), m, a)
      PROVE  \E k \in DOMAIN Tail(q) : m < k /\ k < n /\ Tail(q)[k] = UnmapObj(a)
  <2>1. m \in Nat /\ m + 1 \in DOMAIN q /\ Maps(q, m + 1, a) /\ m + 1 < n + 1 /\ m > 0
    BY <1>1, <1>3, Taking DEF Maps
  <2>2. PICK k \in DOMAIN q : m + 1 < k /\ k < n + 1 /\ q[k] = UnmapObj(a)
    BY <1>1, <2>1 DEF TurnsOK
  <2>3. k \in Nat /\ k > 1 /\ m < k - 1
    BY <1>1, <2>1, <2>2
  <2> QED BY <2>2, <2>3, <1>2
<1>4. ASSUME NEW i \in DOMAIN l1, l1[i] = a
      PROVE  \E k \in DOMAIN Tail(q) : k < n /\ Tail(q)[k] = UnmapObj(a)
  <2>1. PICK k \in DOMAIN q : k < n + 1 /\ q[k] = UnmapObj(a) /\ k # 1
    <3>1. CASE i \in DOMAIN l /\ l1[i] = l[i] /\ q[1] # UnmapObj(l[i])
      BY <3>1, <1>1, <1>4 DEF TurnsOK
    <3>2. CASE Maps(q, 1, l1[i])
      <4>1. n > 0
        BY Taking
      <4>2. 1 < n + 1
        BY <4>1, <1>1
      <4> QED BY <3>2, <4>2, <1>1, <1>4 DEF TurnsOK
    <3> QED BY <3>1, <3>2
  <2>2. k > 1
    BY <2>1, <1>1
  <2> QED BY <2>1, <2>2, <1>2
<1> QED BY <1>3, <1>4

\* SwMapper could map the waveform.
LEMMA MappedByHwman ==
  ASSUME NEW q, NEW r, NEW s, NEW l, NEW id, Alike(q, r, s, l, id),
         q # <<>>, Head(q).cmd = "MAPOBJ"
  PROVE  Alike(Tail(q), r, s, With(l, Head(q).inst, Head(q).app), id)
<1> DEFINE i1 == Head(q).inst
           a1 == Head(q).app
           q1 == Tail(q)
           l1 == With(l, i1, a1)
<1>1. q \in Seq(ToHwman) /\ r \in Seq(ToSwman) /\ id \in Nat \ {0}
  BY DEF Alike
<1>2. /\ Len(q) \in Nat /\ 1 \in DOMAIN q /\ DOMAIN q = 1..Len(q)
      /\ q1 \in Seq(ToHwman)
      /\ Head(q) = q[1]
      /\ \A n \in DOMAIN q : q[n] \in ToHwman
      /\ \A n \in DOMAIN q : n # 1 => n - 1 \in DOMAIN q1 /\ q1[n - 1] = q[n]
      /\ \A n \in DOMAIN q1 : n \in Nat /\ n > 0 /\ n + 1 \in DOMAIN q /\ q1[n] = q[n + 1]
  BY <1>1, Taking
<1>3. /\ q[1].cmd = "MAPOBJ" /\ q[1].inst = i1 /\ q[1].app = a1
      /\ i1 \in Nat \ {0} /\ a1 \in Apps /\ q[1] = MapObj(i1, a1) /\ Maps(q, 1, a1)
  BY <1>2, Kinds DEF Maps
<1>4. /\ i1 < id /\ i1 \notin DOMAIN l
      /\ \A m \in DOMAIN q : q[m].cmd = "MAPOBJ" /\ q[m].inst = i1 => m = 1
  BY <1>2, <1>3 DEF Alike, FreshOK
<1>5. /\ DOMAIN l1 = DOMAIN l \cup {i1} /\ l1[i1] = a1
      /\ \A i \in DOMAIN l : l1[i] = l[i] /\ i # i1
  BY <1>4 DEF With
<1> HIDE DEF i1, a1, q1, l1
<1>6. \A i \in DOMAIN l : l[i] # a1
  <2>1. TurnsOK(q, l)
    BY DEF Alike
  <2>2. \A i \in DOMAIN l : l[i] = a1 =>
          \E k \in DOMAIN q : k < 1 /\ q[k] = UnmapObj(a1)
    BY <2>1, <1>2, <1>3 DEF TurnsOK
  <2> QED BY <2>2, <1>2
<1>7. ListOK(l1, id)
  BY <1>1, <1>3, <1>4, <1>5, <1>6 DEF Alike, ListOK
<1>8. FreshOK(q1, l1, id)
  <2> SUFFICES ASSUME NEW n \in DOMAIN q1, q1[n].cmd = "MAPOBJ"
               PROVE  /\ q1[n].inst < id /\ q1[n].inst \notin DOMAIN l1
                      /\ \A m \in DOMAIN q1 :
                           q1[m].cmd = "MAPOBJ" /\ q1[m].inst = q1[n].inst => m = n
    BY DEF FreshOK
  <2>1. n \in Nat /\ n > 0 /\ n + 1 \in DOMAIN q /\ q1[n] = q[n + 1] /\ n + 1 # 1
    BY <1>2
  <2>2. /\ q[n + 1].inst < id /\ q[n + 1].inst \notin DOMAIN l
        /\ \A m \in DOMAIN q : q[m].cmd = "MAPOBJ" /\ q[m].inst = q[n + 1].inst => m = n + 1
    BY <2>1 DEF Alike, FreshOK
  <2>3. q1[n].inst # i1
    BY <2>1, <1>4
  <2>4. ASSUME NEW m \in DOMAIN q1, q1[m].cmd = "MAPOBJ", q1[m].inst = q1[n].inst
        PROVE  m = n
    <3>1. m \in Nat /\ m + 1 \in DOMAIN q /\ q1[m] = q[m + 1]
      BY <1>2
    <3>2. m + 1 = n + 1
      BY <2>1, <2>2, <2>4, <3>1
    <3> QED BY <2>1, <3>1, <3>2
  <2> QED BY <2>1, <2>2, <2>3, <2>4, <1>5
<1>9. TurnsOK(q1, l1)
  <2>1. ASSUME NEW i \in DOMAIN l
        PROVE  q[1] # UnmapObj(l[i])
    BY <1>3, Kinds
  <2>2. \A i \in DOMAIN l1 : \/ i \in DOMAIN l /\ l1[i] = l[i] /\ q[1] # UnmapObj(l[i])
                             \/ Maps(q, 1, l1[i])
    BY <2>1, <1>3, <1>5
  <2> QED BY <2>2, <1>1, StillInTurn DEF Alike, q1
<1>10. HeldOK(q1, r, s, l1)
  <2> SUFFICES ASSUME NEW i \in DOMAIN s
               PROVE  \/ \E n \in DOMAIN q1 :
                           /\ q1[n] = MapObj(i, s[i])
                           /\ \A k \in DOMAIN q1 : n < k => q1[k] # UnmapObj(s[i])
                      \/ /\ \A k \in DOMAIN q1 : q1[k].app # s[i]
                         /\ \/ i \in DOMAIN l1 /\ l1[i] = s[i]
                            \/ \E k \in DOMAIN r : r[k].app = s[i]
    BY DEF HeldOK
  <2>1. CASE \E n \in DOMAIN q : /\ q[n] = MapObj(i, s[i])
                                 /\ \A k \in DOMAIN q : n < k => q[k] # UnmapObj(s[i])
    <3>1. PICK n \in DOMAIN q : /\ q[n] = MapObj(i, s[i])
                                /\ \A k \in DOMAIN q : n < k => q[k] # UnmapObj(s[i])
      BY <2>1
    <3>2. CASE n = 1
      <4>1. i = i1 /\ s[i] = a1
        BY <3>1, <3>2, <1>3, Kinds
      <4>2. ASSUME NEW k \in DOMAIN q1, q1[k].app = a1
            PROVE  FALSE
        <5>1. k + 1 \in DOMAIN q /\ q1[k] = q[k + 1] /\ 1 < k + 1 /\ q[k + 1] \in ToHwman
          BY <1>2
        <5>2. q[k + 1] # UnmapObj(a1)
          BY <5>1, <3>1, <3>2, <4>1
        <5>3. Maps(q, k + 1, a1)
          BY <4>2, <5>1, <5>2, Kinds DEF Maps
        <5>4. PICK u \in DOMAIN q : 1 < u /\ u < k + 1 /\ q[u] = UnmapObj(a1)
          <6>1. TurnsOK(q, l) /\ 1 \in DOMAIN q /\ Maps(q, 1, a1) /\ a1 \in Apps
            BY <1>2, <1>3 DEF Alike
          <6> QED BY <6>1, <5>1, <5>3 DEF TurnsOK
        <5> QED BY <5>4, <3>1, <3>2, <4>1
      <4> QED BY <4>1, <4>2, <1>5
    <3>3. CASE n # 1
      <4>1. n - 1 \in DOMAIN q1 /\ q1[n - 1] = MapObj(i, s[i])
        BY <3>1, <3>3, <1>2
      <4>2. ASSUME NEW k \in DOMAIN q1, n - 1 < k PROVE q1[k] # UnmapObj(s[i])
        <5>1. k + 1 \in DOMAIN q /\ n < k + 1 /\ q1[k] = q[k + 1]
          BY <4>2, <1>2
        <5> QED BY <5>1, <3>1
      <4> QED BY <4>1, <4>2
    <3> QED BY <3>2, <3>3
  <2>2. CASE /\ \A k \in DOMAIN q : q[k].app # s[i]
             /\ \/ i \in DOMAIN l /\ l[i] = s[i]
                \/ \E k \in DOMAIN r : r[k].app = s[i]
    BY <2>2, <1>2, <1>5
  <2> QED BY <2>1, <2>2 DEF Alike, HeldOK
<1>11. GivenUpOK(q1, s, l1)
  <2>1. ASSUME NEW a, NEW k \in DOMAIN q, q[k] = UnmapObj(a)
        PROVE  k - 1 \in DOMAIN q1 /\ q1[k - 1] = UnmapObj(a)
    BY <2>1, <1>2, <1>3, Kinds
  <2>2. ASSUME NEW i \in DOMAIN l1
        PROVE  \/ i \in DOMAIN s /\ s[i] = l1[i]
               \/ \E k \in DOMAIN q1 : q1[k] = UnmapObj(l1[i])
    <3>1. CASE i \in DOMAIN l
      <4>1. \/ i \in DOMAIN s /\ s[i] = l[i]
            \/ \E k \in DOMAIN q : q[k] = UnmapObj(l[i])
        BY <3>1 DEF Alike, GivenUpOK
      <4> QED BY <3>1, <4>1, <2>1, <1>5
    <3>2. CASE i = i1
      <4>1. \/ i1 \in DOMAIN s /\ s[i1] = a1
            \/ \E k \in DOMAIN q : q[k] = UnmapObj(a1)
        BY <1>2, <1>3 DEF Alike, GivenUpOK
      <4> QED BY <3>2, <4>1, <2>1, <1>5
    <3> QED BY <3>1, <3>2, <1>5
  <2>3. ASSUME NEW n \in DOMAIN q1, q1[n].cmd = "MAPOBJ"
        PROVE  \/ q1[n].inst \in DOMAIN s /\ s[q1[n].inst] = q1[n].app
               \/ \E k \in DOMAIN q1 : n < k /\ q1[k] = UnmapObj(q1[n].app)
    <3>1. n \in Nat /\ n + 1 \in DOMAIN q /\ q1[n] = q[n + 1]
      BY <1>2
    <3>2. CASE \E k \in DOMAIN q : n + 1 < k /\ q[k] = UnmapObj(q[n + 1].app)
      <4>1. PICK k \in DOMAIN q : n + 1 < k /\ q[k] = UnmapObj(q[n + 1].app)
        BY <3>2
      <4>2. n < k - 1
        BY <4>1, <3>1, <1>2
      <4> QED BY <4>1, <4>2, <3>1, <2>1
    <3> QED BY <2>3, <3>1, <3>2 DEF Alike, GivenUpOK
  <2> QED BY <2>2, <2>3 DEF GivenUpOK
<1>12. Alike(q1, r, s, l1, id)
  BY <1>1, <1>2, <1>7, <1>8, <1>9, <1>10, <1>11 DEF Alike
<1> QED BY <1>12 DEF q1, l1, i1, a1

\* What stays of the order of the packets when HWMAN takes one that changes
\* nothing but takes names out of its list.
LEMMA OneLess ==
  ASSUME NEW q, NEW s, NEW l, NEW l1, NEW id, q \in Seq(ToHwman), q # <<>>,
         FreshOK(q, l, id), GivenUpOK(q, s, l),
         \A i \in DOMAIN l1 : i \in DOMAIN l /\ l1[i] = l[i] /\ q[1] # UnmapObj(l[i])
  PROVE  FreshOK(Tail(q), l1, id) /\ GivenUpOK(Tail(q), s, l1)
<1> DEFINE q1 == Tail(q)
<1>1. /\ Len(q) \in Nat /\ 1 \in DOMAIN q /\ DOMAIN q = 1..Len(q)
      /\ \A n \in DOMAIN q : n # 1 => n - 1 \in DOMAIN q1 /\ q1[n - 1] = q[n]
      /\ \A n \in DOMAIN q1 : n \in Nat /\ n > 0 /\ n + 1 \in DOMAIN q /\ q1[n] = q[n + 1]
  BY Taking
<1> HIDE DEF q1
<1>2. FreshOK(q1, l1, id)
  <2> SUFFICES ASSUME NEW n \in DOMAIN q1, q1[n].cmd = "MAPOBJ"
               PROVE  /\ q1[n].inst < id /\ q1[n].inst \notin DOMAIN l1
                      /\ \A m \in DOMAIN q1 :
                           q1[m].cmd = "MAPOBJ" /\ q1[m].inst = q1[n].inst => m = n
    BY DEF FreshOK
  <2>1. n \in Nat /\ n > 0 /\ n + 1 \in DOMAIN q /\ q1[n] = q[n + 1]
    BY <1>1
  <2>2. /\ q[n + 1].inst < id /\ q[n + 1].inst \notin DOMAIN l
        /\ \A m \in DOMAIN q : q[m].cmd = "MAPOBJ" /\ q[m].inst = q[n + 1].inst => m = n + 1
    BY <2>1 DEF FreshOK
  <2>3. ASSUME NEW m \in DOMAIN q1, q1[m].cmd = "MAPOBJ", q1[m].inst = q1[n].inst
        PROVE  m = n
    <3>1. m \in Nat /\ m + 1 \in DOMAIN q /\ q1[m] = q[m + 1]
      BY <1>1
    <3>2. m + 1 = n + 1
      BY <2>1, <2>2, <2>3, <3>1
    <3> QED BY <2>1, <3>1, <3>2
  <2> QED BY <2>1, <2>2, <2>3
<1>3. GivenUpOK(q1, s, l1)
  <2>1. ASSUME NEW i \in DOMAIN l1
        PROVE  \/ i \in DOMAIN s /\ s[i] = l1[i]
               \/ \E k \in DOMAIN q1 : q1[k] = UnmapObj(l1[i])
    <3>1. \/ i \in DOMAIN s /\ s[i] = l[i]
          \/ \E k \in DOMAIN q : q[k] = UnmapObj(l[i])
      BY DEF GivenUpOK
    <3>2. ASSUME NEW k \in DOMAIN q, q[k] = UnmapObj(l[i])
          PROVE  k - 1 \in DOMAIN q1 /\ q1[k - 1] = UnmapObj(l[i])
      BY <3>2, <1>1
    <3> QED BY <3>1, <3>2
  <2>2. ASSUME NEW n \in DOMAIN q1, q1[n].cmd = "MAPOBJ"
        PROVE  \/ q1[n].inst \in DOMAIN s /\ s[q1[n].inst] = q1[n].app
               \/ \E k \in DOMAIN q1 : n < k /\ q1[k] = UnmapObj(q1[n].app)
    <3>1. n \in Nat /\ n > 0 /\ n + 1 \in DOMAIN q /\ q1[n] = q[n + 1]
      BY <1>1
    <3>2. CASE \E k \in DOMAIN q : n + 1 < k /\ q[k] = UnmapObj(q[n + 1].app)
      <4>1. PICK k \in DOMAIN q : n + 1 < k /\ q[k] = UnmapObj(q[n + 1].app)
        BY <3>2
      <4>2. n < k - 1 /\ k # 1
        BY <4>1, <3>1, <1>1
      <4>3. k - 1 \in DOMAIN q1 /\ q1[k - 1] = q[k]
        BY <4>2, <1>1
      <4> QED BY <4>1, <4>2, <4>3, <3>1
    <3> QED BY <2>2, <3>1, <3>2 DEF GivenUpOK
  <2> QED BY <2>1, <2>2 DEF GivenUpOK
<1> QED BY <1>2, <1>3 DEF q1

\* SwMapper could not map it and says so.
LEMMA RefusedByHwman ==
  ASSUME NEW q, NEW r, NEW s, NEW l, NEW id, Alike(q, r, s, l, id),
         q # <<>>, Head(q).cmd = "MAPOBJ"
  PROVE  Alike(Tail(q), Append(r, MapError(Head(q).app)), s, l, id)
<1> DEFINE i1 == Head(q).inst
           a1 == Head(q).app
           q1 == Tail(q)
           r1 == Append(r, MapError(a1))
<1>1. q \in Seq(ToHwman) /\ r \in Seq(ToSwman) /\ id \in Nat \ {0}
  BY DEF Alike
<1>2. /\ Len(q) \in Nat /\ 1 \in DOMAIN q /\ DOMAIN q = 1..Len(q)
      /\ q1 \in Seq(ToHwman)
      /\ Head(q) = q[1]
      /\ \A n \in DOMAIN q : q[n] \in ToHwman
      /\ \A n \in DOMAIN q : n # 1 => n - 1 \in DOMAIN q1 /\ q1[n - 1] = q[n]
      /\ \A n \in DOMAIN q1 : n \in Nat /\ n > 0 /\ n + 1 \in DOMAIN q /\ q1[n] = q[n + 1]
  BY <1>1, Taking
<1>3. /\ q[1].cmd = "MAPOBJ" /\ q[1].inst = i1 /\ q[1].app = a1
      /\ i1 \in Nat \ {0} /\ a1 \in Apps /\ q[1] = MapObj(i1, a1) /\ Maps(q, 1, a1)
  BY <1>2, Kinds DEF Maps
<1>4. MapError(a1) \in ToSwman /\ MapError(a1).app = a1
  BY <1>3, Kinds
<1>5. /\ Len(r) \in Nat /\ DOMAIN r = 1..Len(r)
      /\ r1 \in Seq(ToSwman) /\ DOMAIN r1 = 1..(Len(r) + 1)
      /\ \A n \in DOMAIN r : r1[n] = r[n]
      /\ r1[Len(r) + 1] = MapError(a1)
  BY <1>1, <1>4, Longer
<1> HIDE DEF i1, a1, r1
<1>6. \A i \in DOMAIN l : q[1] # UnmapObj(l[i])
  BY <1>3, Kinds
<1>7. FreshOK(q1, l, id) /\ GivenUpOK(q1, s, l) /\ TurnsOK(q1, l)
  <2>1. FreshOK(q, l, id) /\ GivenUpOK(q, s, l) /\ TurnsOK(q, l) /\ q # <<>>
    BY DEF Alike
  <2>2. FreshOK(q1, l, id) /\ GivenUpOK(q1, s, l)
    BY <2>1, <1>1, <1>6, OneLess
  <2>3. TurnsOK(q1, l)
    BY <2>1, <1>1, <1>6, StillInTurn
  <2> QED BY <2>2, <2>3
<1> HIDE DEF q1
<1>8. HeldOK(q1, r1, s, l)
  <2> SUFFICES ASSUME NEW i \in DOMAIN s
               PROVE  \/ \E n \in DOMAIN q1 :
                           /\ q1[n] = MapObj(i, s[i])
                           /\ \A k \in DOMAIN q1 : n < k => q1[k] # UnmapObj(s[i])
                      \/ /\ \A k \in DOMAIN q1 : q1[k].app # s[i]
                         /\ \/ i \in DOMAIN l /\ l[i] = s[i]
                            \/ \E k \in DOMAIN r1 : r1[k].app = s[i]
    BY DEF HeldOK
  <2>1. CASE \E n \in DOMAIN q : /\ q[n] = MapObj(i, s[i])
                                 /\ \A k \in DOMAIN q : n < k => q[k] # UnmapObj(s[i])
    <3>1. PICK n \in DOMAIN q : /\ q[n] = MapObj(i, s[i])
                                /\ \A k \in DOMAIN q : n < k => q[k] # UnmapObj(s[i])
      BY <2>1
    <3>2. CASE n = 1
      <4>1. i = i1 /\ s[i] = a1
        BY <3>1, <3>2, <1>3, Kinds
      <4>2. ASSUME NEW k \in DOMAIN q1, q1[k].app = a1
            PROVE  FALSE
        <5>1. k + 1 \in DOMAIN q /\ q1[k] = q[k + 1] /\ 1 < k + 1 /\ q[k + 1] \in ToHwman
          BY <1>2
        <5>2. q[k + 1] # UnmapObj(a1)
          BY <5>1, <3>1, <3>2, <4>1
        <5>3. Maps(q, k + 1, a1)
          BY <4>2, <5>1, <5>2, Kinds DEF Maps
        <5>4. PICK u \in DOMAIN q : 1 < u /\ u < k + 1 /\ q[u] = UnmapObj(a1)
          <6>1. TurnsOK(q, l) /\ 1 \in DOMAIN q /\ Maps(q, 1, a1) /\ a1 \in Apps
            BY <1>2, <1>3 DEF Alike
          <6> QED BY <6>1, <5>1, <5>3 DEF TurnsOK
        <5> QED BY <5>4, <3>1, <3>2, <4>1
      <4> QED BY <4>1, <4>2, <1>4, <1>5
    <3>3. CASE n # 1
      <4>1. n - 1 \in DOMAIN q1 /\ q1[n - 1] = MapObj(i, s[i])
        BY <3>1, <3>3, <1>2
      <4>2. ASSUME NEW k \in DOMAIN q1, n - 1 < k PROVE q1[k] # UnmapObj(s[i])
        <5>1. k + 1 \in DOMAIN q /\ n < k + 1 /\ q1[k] = q[k + 1]
          BY <4>2, <1>2
        <5> QED BY <5>1, <3>1
      <4> QED BY <4>1, <4>2
    <3> QED BY <3>2, <3>3
  <2>2. CASE /\ \A k \in DOMAIN q : q[k].app # s[i]
             /\ \/ i \in DOMAIN l /\ l[i] = s[i]
                \/ \E k \in DOMAIN r : r[k].app = s[i]
    BY <2>2, <1>2, <1>5
  <2> QED BY <2>1, <2>2 DEF Alike, HeldOK
<1>9. Alike(q1, r1, s, l, id)
  BY <1>1, <1>2, <1>5, <1>7, <1>8 DEF Alike
<1> QED BY <1>9 DEF q1, r1, a1

\* SwUnmap frees what it holds under that name, if there is any.
LEMMA UnmappedByHwman ==
  ASSUME NEW q, NEW r, NEW s, NEW l, NEW id, Alike(q, r, s, l, id),
         q # <<>>, Head(q).cmd = "UNMAPOBJ",
         NEW l1, DOMAIN l1 = {i \in DOMAIN l : l[i] # Head(q).app},
         \A i \in DOMAIN l1 : l1[i] = l[i]
  PROVE  Alike(Tail(q), r, s, l1, id)
<1> DEFINE a1 == Head(q).app
           q1 == Tail(q)
<1>1. q \in Seq(ToHwman) /\ r \in Seq(ToSwman) /\ id \in Nat \ {0}
  BY DEF Alike
<1>2. /\ Len(q) \in Nat /\ 1 \in DOMAIN q /\ DOMAIN q = 1..Len(q)
      /\ q1 \in Seq(ToHwman)
      /\ Head(q) = q[1]
      /\ \A n \in DOMAIN q : q[n] \in ToHwman
      /\ \A n \in DOMAIN q : n # 1 => n - 1 \in DOMAIN q1 /\ q1[n - 1] = q[n]
      /\ \A n \in DOMAIN q1 : n \in Nat /\ n > 0 /\ n + 1 \in DOMAIN q /\ q1[n] = q[n + 1]
  BY <1>1, Taking
<1>3. q[1].cmd = "UNMAPOBJ" /\ q[1].app = a1 /\ a1 \in Apps /\ q[1] = UnmapObj(a1)
  BY <1>2, Kinds
<1>4. \A i \in DOMAIN l1 : i \in DOMAIN l /\ l1[i] = l[i] /\ l[i] # a1
  OBVIOUS
<1>5. \A i \in DOMAIN l1 : i \in DOMAIN l /\ l1[i] = l[i] /\ q[1] # UnmapObj(l[i])
  BY <1>3, <1>4, Kinds
<1>6. FreshOK(q1, l1, id) /\ GivenUpOK(q1, s, l1) /\ TurnsOK(q1, l1)
  <2>1. FreshOK(q, l, id) /\ GivenUpOK(q, s, l) /\ TurnsOK(q, l) /\ q # <<>>
    BY DEF Alike
  <2>2. FreshOK(q1, l1, id) /\ GivenUpOK(q1, s, l1)
    BY <2>1, <1>1, <1>5, OneLess
  <2>3. TurnsOK(q1, l1)
    BY <2>1, <1>1, <1>5, StillInTurn
  <2> QED BY <2>2, <2>3
<1> HIDE DEF q1, a1
<1>7. ListOK(l1, id)
  BY <1>4 DEF Alike, ListOK
<1>8. HeldOK(q1, r, s, l1)
  <2> SUFFICES ASSUME NEW i \in DOMAIN s
               PROVE  \/ \E n \in DOMAIN q1 :
                           /\ q1[n] = MapObj(i, s[i])
                           /\ \A k \in DOMAIN q1 : n < k => q1[k] # UnmapObj(s[i])
                      \/ /\ \A k \in DOMAIN q1 : q1[k].app # s[i]
                         /\ \/ i \in DOMAIN l1 /\ l1[i] = s[i]
                            \/ \E k \in DOMAIN r : r[k].app = s[i]
    BY DEF HeldOK
  <2>1. CASE \E n \in DOMAIN q : /\ q[n] = MapObj(i, s[i])
                                 /\ \A k \in DOMAIN q : n < k => q[k] # UnmapObj(s[i])
    <3>1. PICK n \in DOMAIN q : /\ q[n] = MapObj(i, s[i])
                                /\ \A k \in DOMAIN q : n < k => q[k] # UnmapObj(s[i])
      BY <2>1
    <3>2. n # 1
      BY <3>1, <1>3, Kinds
    <3>3. n - 1 \in DOMAIN q1 /\ q1[n - 1] = MapObj(i, s[i])
      BY <3>1, <3>2, <1>2
    <3>4. ASSUME NEW k \in DOMAIN q1, n - 1 < k PROVE q1[k] # UnmapObj(s[i])
      <4>1. k + 1 \in DOMAIN q /\ n < k + 1 /\ q1[k] = q[k + 1]
        BY <3>4, <1>2
      <4> QED BY <4>1, <3>1
    <3> QED BY <3>3, <3>4
  <2>2. CASE /\ \A k \in DOMAIN q : q[k].app # s[i]
             /\ \/ i \in DOMAIN l /\ l[i] = s[i]
                \/ \E k \in DOMAIN r : r[k].app = s[i]
    <3>1. a1 # s[i]
      BY <2>2, <1>2, <1>3
    <3>2. i \in DOMAIN l /\ l[i] = s[i] => i \in DOMAIN l1 /\ l1[i] = s[i]
      BY <3>1 DEF a1
    <3> QED BY <2>2, <3>2, <1>2
  <2> QED BY <2>1, <2>2 DEF Alike, HeldOK
<1>9. Alike(q1, r, s, l1, id)
  BY <1>1, <1>2, <1>6, <1>7, <1>8 DEF Alike
<1> QED BY <1>9 DEF q1

-----------------------------------------------------------------------------
(* The routes.  Only what CMDMAN orders and what SWMAN and HWMAN tell each *)
(* other matters here; all other packets leave those three queues alone.   *)

SH == <<SWMAN, HWMAN>>
HS == <<HWMAN, SWMAN>>
CS == <<CMDMAN, SWMAN>>

Orders == [cmd : {"LOADAPP"}, app : Apps] \cup [cmd : {"APPSTATUS"}, app : Apps, st : Status]

\* What the queues of the managers are in the channels c.
RoadsOK(c) ==
  /\ DOMAIN c = Routes
  /\ c[SH] \in Seq(ToHwman) /\ c[HS] \in Seq(ToSwman) /\ c[CS] \in Seq(Orders)

Same(c, d) ==
  /\ DOMAIN d = Routes
  /\ d[SH] = c[SH] /\ d[HS] = c[HS] /\ d[CS] = c[CS]

\* The three routes are different, and all are routes.
LEMMA ThreeRoutes ==
  /\ SH \in Routes /\ HS \in Routes /\ CS \in Routes
  /\ SH # HS /\ SH # CS /\ HS # CS
  /\ <<SWMAN, CMDMAN>> \notin {SH, HS, CS}
  /\ \A p : {<<HWMAN, SWLOAD(p)>>, <<SWMAN, SWLOAD(p)>>, <<SWLOAD(p), SWMAN>>,
             <<SWMAN, EXEC(p)>>, <<EXEC(p), SWMAN>>} \cap {SH, HS, CS} = {}
BY DEF SH, HS, CS, Routes, SWMAN, HWMAN, CMDMAN, SWLOAD, EXEC

\* daemon_sendto and daemon_rcvpkt touch one queue.
LEMMA PostAt ==
  ASSUME NEW c, NEW x, NEW y, NEW m, DOMAIN c = Routes
  PROVE  /\ DOMAIN Post(c, x, y, m) = Routes
         /\ <<x, y>> \in Routes => Post(c, x, y, m)[<<x, y>>] = Append(c[<<x, y>>], m)
         /\ \A r \in Routes : r # <<x, y>> => Post(c, x, y, m)[r] = c[r]
         /\ <<x, y>> \notin {SH, HS, CS} => Same(c, Post(c, x, y, m))
BY ThreeRoutes DEF Post, Same

LEMMA TakenAt ==
  ASSUME NEW x, NEW y, DOMAIN ch = Routes
  PROVE  /\ DOMAIN Taken(x, y) = Routes
         /\ <<x, y>> \in Routes => Taken(x, y)[<<x, y>>] = Tail(ch[<<x, y>>])
         /\ \A r \in Routes : r # <<x, y>> => Taken(x, y)[r] = ch[r]
         /\ <<x, y>> \notin {SH, HS, CS} => Same(ch, Taken(x, y))
BY ThreeRoutes DEF Taken, Same

\* SWMAN tells HWMAN to unmap a waveform.
LEMMA UnmapAt ==
  ASSUME NEW c, NEW a, DOMAIN c = Routes
  PROVE  /\ DOMAIN Unmap(c, a) = Routes
         /\ Unmap(c, a)[SH] = Append(c[SH], UnmapObj(a))
         /\ Unmap(c, a)[HS] = c[HS] /\ Unmap(c, a)[CS] = c[CS]
<1>1. Unmap(c, a) = Post(c, SWMAN, HWMAN, UnmapObj(a))
  BY DEF Unmap, UnmapObj
<1> QED BY <1>1, PostAt, ThreeRoutes DEF SH

\* SWMAN's orders go to the EXECs only.
LEMMA SendSame ==
  ASSUME NEW c, NEW i, NEW w, NEW st, RoadsOK(c)
  PROVE  Same(c, SendObjStatus(c, i, w, st))
<1> DEFINE mine(r) == {k \in Told(w) : r = <<SWMAN, EXEC(w.obj[k].pe)>>}
           more(r) == [n \in 1..Cardinality(mine(r)) |->
                         [cmd |-> "SETSTATUS", obj |-> <<i, Ascending(mine(r))[n]>>, st |-> st]]
           d == SendObjStatus(c, i, w, st)
<1>1. DOMAIN d = Routes /\ \A r \in Routes : d[r] = c[r] \o more(r)
  BY Zenon DEF SendObjStatus, RoadsOK
<1>2. ASSUME NEW r \in {SH, HS, CS}, NEW S, c[r] \in Seq(S)
      PROVE  d[r] = c[r]
  <2>1. mine(r) = {}
    BY ThreeRoutes
  <2>2. Cardinality(mine(r)) = 0
    BY <2>1, FS_EmptySet
  <2> HIDE DEF mine
  <2>3. more(r) = [n \in 1..0 |->
                     [cmd |-> "SETSTATUS", obj |-> <<i, Ascending(mine(r))[n]>>, st |-> st]]
    BY <2>2, Zenon
  <2>4. \A f : f = [n \in 1..0 |-> f[n]] => f = <<>>
    OBVIOUS
  <2>5. more(r) = <<>>
    BY <2>3, <2>4, Zenon
  <2> HIDE DEF more
  <2> QED BY <1>1, <1>2, <2>5, ThreeRoutes, ConcatEmptySeq
<1> HIDE DEF d
<1>3. Same(c, d)
  BY <1>1, <1>2 DEF Same, RoadsOK
<1> QED BY <1>3 DEF d

\* HWMAN's LOADOBJs go to the SWLOADs only.
LEMMA LoadSame ==
  ASSUME NEW c, NEW i, NEW a, NEW at, DOMAIN c = Routes
  PROVE  Same(c, LoadObjs(c, i, a, at))
BY ThreeRoutes DEF LoadObjs, Same

\* A queue of the managers stays what it is if nothing touches it.
LEMMA SameRoads ==
  ASSUME NEW c, NEW d, RoadsOK(c), Same(c, d)
  PROVE  RoadsOK(d)
BY DEF RoadsOK, Same

LEMMA SameTwice ==
  ASSUME NEW c, NEW d, NEW e, Same(c, d), Same(d, e)
  PROVE  Same(c, e)
BY DEF Same

-----------------------------------------------------------------------------
(* The invariant.  Besides the order of the packets it bounds the          *)
(* instances: each order of the user makes one of them at most.            *)

HasNames == \A i \in DOMAIN apps : "name" \in DOMAIN apps[i]
PlacesOK == \A i \in DOMAIN loaded : loaded[i].at \in [Keys(loaded[i].name) -> PEs]
CountsOK ==
  /\ setup \in Setups
  /\ calls \in Nat /\ calls <= setup.calls /\ app_id + Len(ch[CS]) <= calls + 1
ListsOK == Alike(ch[SH], ch[HS], Names(apps), Names(loaded), app_id)

AInv == CountsOK /\ RoadsOK(ch) /\ HasNames /\ PlacesOK /\ ListsOK

\* The names of a list with one more entry, with one less, and with other
\* entries of the same names.
LEMMA NamesAt ==
  ASSUME NEW f
  PROVE  /\ DOMAIN Names(f) = DOMAIN f
         /\ \A i \in DOMAIN f : Names(f)[i] = f[i].name
         /\ \A i, v : Names(With(f, i, v)) = With(Names(f), i, v.name)
         /\ \A i : /\ DOMAIN Without(f, i) = DOMAIN f \ {i}
                   /\ \A j \in DOMAIN f \ {i} : Without(f, i)[j] = f[j]
         /\ \A i, v : /\ DOMAIN With(f, i, v) = DOMAIN f \cup {i}
                      /\ With(f, i, v)[i] = v
                      /\ \A j \in DOMAIN f : j # i => With(f, i, v)[j] = f[j]
         /\ \A g : /\ DOMAIN g = DOMAIN f
                   /\ \A i \in DOMAIN f : g[i].name = f[i].name
                   => Names(g) = Names(f)
<1>1. ASSUME NEW i, NEW v PROVE Names(With(f, i, v)) = With(Names(f), i, v.name)
  BY DEF Names, With
<1>2. ASSUME NEW i PROVE /\ DOMAIN Without(f, i) = DOMAIN f \ {i}
                         /\ \A j \in DOMAIN f \ {i} : Without(f, i)[j] = f[j]
  BY DEF Without, Restrict
<1>3. ASSUME NEW g, DOMAIN g = DOMAIN f, \A i \in DOMAIN f : g[i].name = f[i].name
      PROVE  Names(g) = Names(f)
  BY <1>3 DEF Names
<1> QED BY <1>1, <1>2, <1>3 DEF Names, With

\* Nothing that the invariant is about has changed, but perhaps the places
\* of the objects and the user's calls.
LEMMA NothingNew ==
  ASSUME AInv, Same(ch, ch'), CountsOK', HasNames', PlacesOK',
         Names(apps') = Names(apps), Names(loaded') = Names(loaded), app_id' = app_id
  PROVE  AInv'
<1>1. RoadsOK(ch')
  BY SameRoads DEF AInv
<1>2. Alike(ch'[SH], ch'[HS], Names(apps'), Names(loaded'), app_id')
  BY DEF AInv, ListsOK, Same
<1> QED BY <1>1, <1>2 DEF AInv, ListsOK

\* SWMAN gives the waveform i up: it is out of the list, and UNMAPOBJ is sent.
\* d is what SWMAN had sent by then.
LEMMA OneGivenUp ==
  ASSUME AInv, NEW d, RoadsOK(d), d[SH] = ch[SH], d[HS] = ch[HS], CountsOK',
         NEW i \in DOMAIN apps, NEW a, a = apps[i].name,
         Same(Unmap(d, a), ch'), apps' = Without(apps, i),
         UNCHANGED <<loaded, app_id>>
  PROVE  AInv'
<1>1. DOMAIN d = Routes /\ d[SH] = ch[SH] /\ d[HS] = ch[HS]
  BY DEF RoadsOK
<1>2. /\ ch'[SH] = Append(ch[SH], UnmapObj(a)) /\ ch'[HS] = ch[HS] /\ ch'[CS] = d[CS]
      /\ DOMAIN ch' = Routes
  BY <1>1, UnmapAt DEF Same
<1>3. /\ DOMAIN Names(apps) = DOMAIN apps /\ Names(apps)[i] = a
      /\ DOMAIN Names(apps') = DOMAIN apps \ {i}
      /\ \A j \in DOMAIN Names(apps') : /\ Names(apps')[j] = Names(apps)[j]
                                        /\ apps'[j] = apps[j]
  <2>1. DOMAIN apps' = DOMAIN apps \ {i} /\ \A j \in DOMAIN apps \ {i} : apps'[j] = apps[j]
    BY DEF Without, Restrict
  <2>2. DOMAIN Names(apps) = DOMAIN apps /\ \A j \in DOMAIN apps : Names(apps)[j] = apps[j].name
    BY NamesAt
  <2>3. /\ DOMAIN Names(apps') = DOMAIN apps'
        /\ \A j \in DOMAIN apps' : Names(apps')[j] = apps'[j].name
    BY NamesAt
  <2> QED BY <2>1, <2>2, <2>3
<1>4. Alike(ch[SH], ch[HS], Names(apps), Names(loaded), app_id)
  BY DEF AInv, ListsOK
<1>5. a \in Apps /\ \A j \in DOMAIN apps : Names(apps)[j] = a => j = i
  BY <1>3, <1>4 DEF Alike, ListOK
<1>6. DOMAIN Names(apps') = {j \in DOMAIN Names(apps) : Names(apps)[j] # a}
  BY <1>3, <1>5
<1>7. app_id \in Nat \ {0}
  BY <1>4 DEF Alike
<1>8. Alike(Append(ch[SH], UnmapObj(a)), ch[HS], Names(apps'), Names(loaded), app_id)
  BY <1>3, <1>4, <1>5, <1>6, <1>7, GivenUp
<1>9. RoadsOK(ch')
  BY <1>2, <1>8 DEF RoadsOK, AInv, Alike
<1>10. HasNames' /\ PlacesOK'
  BY <1>3 DEF HasNames, PlacesOK, AInv, Without, Restrict
<1>11. ListsOK'
  BY <1>2, <1>8 DEF ListsOK
<1> QED BY <1>9, <1>10, <1>11 DEF AInv

-----------------------------------------------------------------------------
(* SWMAN.                                                                  *)

\* The packet SWMAN takes from CMDMAN is an order, and taking it makes room.
LEMMA OrderTaken ==
  ASSUME AInv, ch[CS] # <<>>
  PROVE  /\ Packet(CMDMAN, SWMAN) \in Orders /\ Packet(CMDMAN, SWMAN).app \in Apps
         /\ RoadsOK(Taken(CMDMAN, SWMAN))
         /\ Taken(CMDMAN, SWMAN)[SH] = ch[SH] /\ Taken(CMDMAN, SWMAN)[HS] = ch[HS]
         /\ Len(Taken(CMDMAN, SWMAN)[CS]) = Len(ch[CS]) - 1
         /\ Len(ch[CS]) \in Nat
<1>1. ch[CS] \in Seq(Orders) /\ DOMAIN ch = Routes
  BY DEF AInv, RoadsOK
<1>2. /\ Head(ch[CS]) \in Orders /\ Tail(ch[CS]) \in Seq(Orders)
      /\ Len(Tail(ch[CS])) = Len(ch[CS]) - 1 /\ Len(ch[CS]) \in Nat
  BY <1>1, HeadTailProperties, LenProperties
<1>3. \A m \in Orders : m.app \in Apps
  BY DEF Orders
<1>4. /\ DOMAIN Taken(CMDMAN, SWMAN) = Routes
      /\ Taken(CMDMAN, SWMAN)[CS] = Tail(ch[CS])
      /\ Taken(CMDMAN, SWMAN)[SH] = ch[SH] /\ Taken(CMDMAN, SWMAN)[HS] = ch[HS]
  BY <1>1, TakenAt, ThreeRoutes DEF CS
<1> QED BY <1>1, <1>2, <1>3, <1>4 DEF RoadsOK, AInv, Packet, CS

\* The invariant with the order taken: the channels c without it, and the
\* instances still bounded.
LEMMA Served ==
  ASSUME AInv, ch[CS] # <<>>, Same(Taken(CMDMAN, SWMAN), ch'), HasNames',
         Names(apps') = Names(apps), UNCHANGED <<setup, calls, loaded, app_id>>
  PROVE  AInv'
<1>1. RoadsOK(ch')
  BY OrderTaken, SameRoads
<1>2. CountsOK'
  BY OrderTaken DEF CountsOK, AInv, Same, Alike, ListsOK
<1>3. ch'[SH] = ch[SH] /\ ch'[HS] = ch[HS]
  BY OrderTaken DEF Same
<1>4. ListsOK'
  BY <1>3 DEF AInv, ListsOK
<1>5. PlacesOK'
  BY DEF AInv, PlacesOK
<1> QED BY <1>1, <1>2, <1>4, <1>5 DEF AInv

LEMMA LoadAppKeeps ==
  ASSUME AInv, LoadApp, UNCHANGED <<setup, user, hwman>>
  PROVE  AInv'
<1> DEFINE a == Packet(CMDMAN, SWMAN).app
           c == Taken(CMDMAN, SWMAN)
<1>1. ch[CS] # <<>>
  BY DEF LoadApp, Waits, CS
<1>2. a \in Apps /\ RoadsOK(c) /\ c[SH] = ch[SH] /\ c[HS] = ch[HS]
      /\ Len(c[CS]) = Len(ch[CS]) - 1 /\ Len(ch[CS]) \in Nat
  BY <1>1, OrderTaken
<1>3. Alike(ch[SH], ch[HS], Names(apps), Names(loaded), app_id) /\ app_id \in Nat \ {0}
  BY DEF AInv, ListsOK, Alike
<1>4. UNCHANGED <<setup, calls, loaded>> /\ PlacesOK'
  BY DEF user, hwman, AInv, PlacesOK
<1> HIDE DEF c, a
<1>5. CASE /\ ch' = Post(c, SWMAN, CMDMAN, LoadAppErr)
           /\ UNCHANGED swman
  <2>1. Same(c, ch') /\ HasNames' /\ app_id' = app_id /\ apps' = apps
    BY <1>2, <1>5, PostAt, ThreeRoutes DEF RoadsOK, swman, AInv, HasNames
  <2> QED BY <2>1, <1>1, <1>4, Served DEF c
<1>6. CASE /\ Named(a) = {} /\ File[a] = <<>>
           /\ ch' = Unmap(Post(c, SWMAN, CMDMAN, LoadAppErr), a)
           /\ app_id' = app_id + 1 /\ UNCHANGED <<apps, dropped>>
  <2> DEFINE d == Post(c, SWMAN, CMDMAN, LoadAppErr)
  <2>1. Same(c, d)
    BY <1>2, PostAt, ThreeRoutes DEF RoadsOK
  <2>2. /\ ch'[SH] = Append(ch[SH], UnmapObj(a)) /\ ch'[HS] = ch[HS] /\ ch'[CS] = c[CS]
        /\ DOMAIN ch' = Routes
    BY <2>1, <1>2, <1>6, PostAt, ThreeRoutes DEF Unmap, UnmapObj, Same, SH
  <2>3. DOMAIN Names(apps) = {i \in DOMAIN Names(apps) : Names(apps)[i] # a}
    <3>1. \A i \in DOMAIN apps : apps[i].name # a
      BY <1>6 DEF Named
    <3>2. /\ DOMAIN Names(apps) = DOMAIN apps
          /\ \A i \in DOMAIN apps : Names(apps)[i] = apps[i].name
      BY NamesAt
    <3> QED BY <3>1, <3>2
  <2>4. Alike(ch'[SH], ch'[HS], Names(apps), Names(loaded), app_id')
    <3>1. app_id' \in Nat \ {0} /\ app_id <= app_id' /\ apps' = apps /\ loaded' = loaded
      BY <1>3, <1>4, <1>6
    <3>2. Alike(Append(ch[SH], UnmapObj(a)), ch[HS], Names(apps), Names(loaded), app_id')
      BY <1>2, <1>3, <2>3, <3>1, GivenUp
    <3> QED BY <2>2, <3>1, <3>2
  <2>5. RoadsOK(ch') /\ ListsOK' /\ HasNames'
    BY <1>2, <1>4, <1>6, <2>2, <2>4 DEF RoadsOK, Alike, ListsOK, HasNames, AInv
  <2>6. CountsOK'
    BY <1>2, <1>3, <1>4, <1>6, <2>2 DEF CountsOK, AInv
  <2> QED BY <2>5, <2>6, <1>4 DEF AInv
<1>7. CASE /\ Named(a) = {} /\ File[a] # <<>>
           /\ ch' = Post(c, SWMAN, HWMAN, [cmd |-> "MAPOBJ", inst |-> app_id, app |-> a])
           /\ apps' = With(apps, app_id, App(a))
           /\ app_id' = app_id + 1 /\ UNCHANGED dropped
  <2>1. /\ ch'[SH] = Append(ch[SH], MapObj(app_id, a)) /\ ch'[HS] = ch[HS] /\ ch'[CS] = c[CS]
        /\ DOMAIN ch' = Routes
    <3>1. ch' = Post(c, SWMAN, HWMAN, MapObj(app_id, a))
      BY <1>7 DEF MapObj
    <3>2. DOMAIN c = Routes
      BY <1>2 DEF RoadsOK
    <3> QED BY <1>2, <3>1, <3>2, PostAt, ThreeRoutes DEF SH
  <2>2. /\ \A i \in DOMAIN Names(apps) : Names(apps)[i] # a
        /\ Names(apps') = With(Names(apps), app_id, a)
    BY <1>7, NamesAt DEF Named, App
  <2>3. Alike(ch'[SH], ch'[HS], Names(apps'), Names(loaded), app_id')
    BY <1>2, <1>3, <1>7, <2>1, <2>2, Held
  <2>4. HasNames'
    BY <1>7 DEF HasNames, AInv, With, App
  <2>5. RoadsOK(ch') /\ ListsOK'
    BY <1>2, <1>4, <2>1, <2>3 DEF RoadsOK, Alike, ListsOK
  <2>6. CountsOK'
    BY <1>2, <1>3, <1>4, <1>7, <2>1 DEF CountsOK, AInv
  <2> QED BY <2>4, <2>5, <2>6, <1>4 DEF AInv
<1> QED BY <1>5, <1>6, <1>7 DEF LoadApp, a, c

\* Orders and answers to the user, and the removal of the waveform i.
LEMMA ErrorPosted ==
  ASSUME AInv, NEW c, RoadsOK(c), c[SH] = ch[SH], c[HS] = ch[HS], CountsOK', NEW i \in DOMAIN apps, NEW a,
         a = apps[i].name, LoadAppError(c, i, a), UNCHANGED <<loaded, app_id>>
  PROVE  AInv'
<1> DEFINE d == Post(c, SWMAN, CMDMAN, LoadAppErr)
<1>1. RoadsOK(d) /\ d[SH] = ch[SH] /\ d[HS] = ch[HS]
  <2>1. Same(c, d)
    BY PostAt, ThreeRoutes DEF RoadsOK
  <2> QED BY <2>1, SameRoads DEF Same
<1>2. ch' = Unmap(d, a) /\ apps' = Without(apps, i)
  BY DEF LoadAppError
<1> HIDE DEF d
<1>3. Same(Unmap(d, a), ch')
  <2>1. DOMAIN Unmap(d, a) = Routes
    BY <1>1, PostAt DEF RoadsOK, Unmap
  <2> QED BY <1>2, <2>1 DEF Same
<1> QED BY <1>1, <1>2, <1>3, OneGivenUp

LEMMA AppStatusKeeps ==
  ASSUME AInv, AppStatus, UNCHANGED <<setup, user, hwman>>
  PROVE  AInv'
<1> DEFINE m == Packet(CMDMAN, SWMAN)
           c == Taken(CMDMAN, SWMAN)
<1>1. ch[CS] # <<>>
  BY DEF AppStatus, Waits, CS
<1>2. RoadsOK(c) /\ DOMAIN c = Routes /\ Same(c, c)
  BY <1>1, OrderTaken DEF RoadsOK, Same
<1>3. UNCHANGED <<setup, calls, loaded, app_id>>
  BY DEF user, hwman, AppStatus
<1> HIDE DEF c, m
<1>4. ASSUME Same(c, ch'), HasNames', Names(apps') = Names(apps)
      PROVE  AInv'
  BY <1>1, <1>3, <1>4, Served DEF c
<1>5. CASE Named(m.app) = {} /\ ch' = Post(c, SWMAN, CMDMAN, LoadAppErr)
           /\ UNCHANGED <<apps, dropped>>
  <2>1. Same(c, ch')
    BY <1>2, <1>5, PostAt, ThreeRoutes
  <2> QED BY <1>4, <1>5, <2>1 DEF AInv, HasNames
<1>6. ASSUME NEW i \in Named(m.app)
      PROVE  LET w == apps[i]
                 v == [w EXCEPT !.cur = Goal(m.st)]
             IN (\/ /\ CanSet(w, m.st) /\ Registered(v)
                    /\ ch' = SendObjStatus(c, i, v, m.st)
                    /\ apps' = [apps EXCEPT ![i] =
                         IF m.st = "STEP"
                         THEN [v EXCEPT !.obj = [k \in DOMAIN v.obj |-> [v.obj[k] EXCEPT !.st = "STEP"]]]
                         ELSE v]
                    /\ UNCHANGED dropped
                 \/ /\ CanSet(w, m.st) /\ ~Registered(v)
                    /\ LoadAppError(SendObjStatus(c, i, v, m.st), i, m.app)
                 \/ /\ ~CanSet(w, m.st) /\ w.pend = None
                    /\ apps' = [apps EXCEPT ![i].pend = m.st]
                    /\ ch' = c /\ UNCHANGED dropped
                 \/ /\ ~CanSet(w, m.st) /\ w.pend # None
                    /\ LoadAppError(c, i, m.app)) => AInv'
  <2> DEFINE w == apps[i]
             v == [w EXCEPT !.cur = Goal(m.st)]
  <2>1. i \in DOMAIN apps /\ w.name = m.app /\ "name" \in DOMAIN w
    BY DEF Named, AInv, HasNames
  <2>2. DOMAIN v = DOMAIN w /\ v.name = w.name
    BY <2>1
  <2>3. ASSUME NEW e, "name" \in DOMAIN e, e.name = w.name, apps' = [apps EXCEPT ![i] = e]
        PROVE  HasNames' /\ Names(apps') = Names(apps)
    <3>1. /\ DOMAIN apps' = DOMAIN apps /\ apps'[i] = e
          /\ \A j \in DOMAIN apps : j # i => apps'[j] = apps[j]
      BY <2>1, <2>3
    <3>2. HasNames'
      BY <2>3, <3>1 DEF HasNames, AInv
    <3>3. \A j \in DOMAIN apps : apps'[j].name = apps[j].name
      BY <2>3, <3>1
    <3> QED BY <3>1, <3>2, <3>3, NamesAt
  <2>4. ASSUME NEW d, Same(c, d), LoadAppError(d, i, m.app)
        PROVE  AInv'
    <3>1. RoadsOK(d) /\ d[SH] = ch[SH] /\ d[HS] = ch[HS] /\ Len(d[CS]) = Len(ch[CS]) - 1
          /\ Len(ch[CS]) \in Nat
      BY <1>1, <2>4, OrderTaken, SameRoads DEF Same, c
    <3>2. ch'[CS] = d[CS]
      <4>1. Same(d, Post(d, SWMAN, CMDMAN, LoadAppErr))
        BY <3>1, PostAt, ThreeRoutes DEF RoadsOK
      <4> QED BY <2>4, <4>1, UnmapAt DEF LoadAppError, Same
    <3>3. CountsOK'
      BY <1>3, <3>1, <3>2 DEF CountsOK, AInv, ListsOK, Alike
    <3> QED BY <1>3, <2>1, <2>4, <3>1, <3>3, ErrorPosted
  <2>5. CASE /\ ch' = SendObjStatus(c, i, v, m.st)
             /\ apps' = [apps EXCEPT ![i] =
                  IF m.st = "STEP"
                  THEN [v EXCEPT !.obj = [k \in DOMAIN v.obj |-> [v.obj[k] EXCEPT !.st = "STEP"]]]
                  ELSE v]
    <3>1. Same(c, ch')
      BY <1>2, <2>5, SendSame
    <3> DEFINE e == IF m.st = "STEP"
                    THEN [v EXCEPT !.obj = [k \in DOMAIN v.obj |-> [v.obj[k] EXCEPT !.st = "STEP"]]]
                    ELSE v
    <3>2. DOMAIN e = DOMAIN w /\ e.name = w.name
      BY <2>1, <2>2
    <3> HIDE DEF e
    <3>3. apps' = [apps EXCEPT ![i] = e]
      BY <2>5 DEF e
    <3> QED BY <1>4, <2>1, <2>3, <3>1, <3>2, <3>3
  <2>6. CASE LoadAppError(SendObjStatus(c, i, v, m.st), i, m.app)
    BY <1>2, <2>4, <2>6, SendSame
  <2>7. CASE apps' = [apps EXCEPT ![i].pend = m.st] /\ ch' = c
    <3> DEFINE e == [w EXCEPT !.pend = m.st]
    <3>1. DOMAIN e = DOMAIN w /\ e.name = w.name
      BY <2>1
    <3>2. apps' = [apps EXCEPT ![i] = e]
      BY <2>7
    <3> QED BY <1>2, <1>4, <2>1, <2>3, <2>7, <3>1, <3>2
  <2>8. CASE LoadAppError(c, i, m.app)
    BY <1>2, <2>4, <2>8
  <2> QED BY <2>5, <2>6, <2>7, <2>8
<1> QED BY <1>5, <1>6 DEF AppStatus, m, c

\* What a report makes of a waveform's entry keeps its name, and what SWMAN
\* sends about it leaves the three queues alone.
LEMMA ReportedKeeps ==
  ASSUME NEW c, RoadsOK(c), NEW i, NEW w, "name" \in DOMAIN w, NEW m, NEW p
  PROVE  LET r == Reported(c, i, w, m, p)
         IN "name" \in DOMAIN r.app /\ r.app.name = w.name /\ Same(c, r.ch)
<1> DEFINE v == Noted(w, m, p)
           r == Reported(c, i, w, m, p)
<1>1. "name" \in DOMAIN v /\ v.name = w.name
  BY DEF Noted
<1> HIDE DEF v
<1>2. CASE Aborts(w, m)
  <2>1. Same(c, SendObjStatus(c, i, AbortTells(w, m), "ABNSTOP"))
    BY SendSame
  <2>2. r.app = [v EXCEPT !.cur = "ABNSTOP"]
        /\ r.ch = SendObjStatus(c, i, AbortTells(w, m), "ABNSTOP")
    BY <1>2 DEF Reported, v
  <2> QED BY <1>1, <2>1, <2>2
<1>3. CASE ~Aborts(w, m)
  <2>1. r.app = v /\ r.ch = c
    BY <1>3 DEF Reported, v
  <2> QED BY <1>1, <2>1 DEF Same, RoadsOK
<1> QED BY <1>2, <1>3

LEMMA CompletedKeeps ==
  ASSUME AInv, UNCHANGED <<setup, calls, loaded, app_id>>,
         NEW c, Same(ch, c), NEW i \in DOMAIN apps,
         NEW w, "name" \in DOMAIN w, w.name = apps[i].name,
         NEW k, Completed(c, i, w, k)
  PROVE  AInv'
<1> DEFINE out  == Answer(OutType(w, k), i, w)
           next == IF w.pend = None THEN w ELSE [w EXCEPT !.cur = w.pend, !.pend = None]
           sent == IF w.pend = None THEN c ELSE SendObjStatus(c, i, next, w.pend)
<1>1. RoadsOK(c)
  BY SameRoads DEF AInv
<1>2. "name" \in DOMAIN next /\ next.name = apps[i].name
  OBVIOUS
<1>3. Same(ch, sent)
  <2>1. CASE w.pend = None
    BY <2>1
  <2>2. CASE w.pend # None
    BY <2>2, <1>1, SendSame, SameTwice
  <2> QED BY <2>1, <2>2
<1>4. CASE /\ ch' = Post(sent, SWMAN, CMDMAN, LoadAppErr) \/ ch' = Post(sent, SWMAN, CMDMAN, out)
           /\ apps' = [apps EXCEPT ![i] = next]
  <2> HIDE DEF next, sent, out
  <2>1. Same(sent, ch')
    <3>1. DOMAIN sent = Routes
      BY <1>3 DEF Same
    <3>2. \A x : Same(sent, Post(sent, SWMAN, CMDMAN, x))
      BY <3>1, PostAt, ThreeRoutes
    <3> QED BY <1>4, <3>2
  <2>2. Same(ch, ch')
    BY <1>3, <2>1, SameTwice
  <2>3. /\ DOMAIN apps' = DOMAIN apps /\ apps'[i] = next
        /\ \A j \in DOMAIN apps : j # i => apps'[j] = apps[j]
    BY <1>4
  <2>4. HasNames'
    BY <1>2, <2>3 DEF HasNames, AInv
  <2>5. \A j \in DOMAIN apps : apps'[j].name = apps[j].name
    BY <1>2, <2>3
  <2>6. Names(apps') = Names(apps)
    BY <2>3, <2>5, NamesAt
  <2>7. CountsOK' /\ PlacesOK'
    BY <2>2 DEF AInv, CountsOK, PlacesOK, Same
  <2> QED BY <2>2, <2>4, <2>6, <2>7, NothingNew
<1>5. CASE /\ ch' = Post(Unmap(sent, w.name), SWMAN, CMDMAN, out)
           /\ apps' = Without(apps, i)
  <2> HIDE DEF next, sent, out
  <2>1. RoadsOK(sent) /\ sent[SH] = ch[SH] /\ sent[HS] = ch[HS]
    BY <1>3, SameRoads DEF Same, AInv
  <2>2. /\ DOMAIN Unmap(sent, w.name) = Routes
        /\ Unmap(sent, w.name)[CS] = sent[CS]
    BY <2>1, UnmapAt DEF RoadsOK
  <2>3. Same(Unmap(sent, w.name), ch')
    BY <1>5, <2>2, PostAt, ThreeRoutes
  <2>4. CountsOK'
    BY <1>3, <2>2, <2>3 DEF AInv, CountsOK, Same
  <2> QED BY <1>5, <2>1, <2>3, <2>4, OneGivenUp
<1> QED BY <1>4, <1>5 DEF Completed

LEMMA StatusRepKeeps ==
  ASSUME AInv, NEW p \in PEs, StatusRep(p), UNCHANGED <<setup, user, hwman>>
  PROVE  AInv'
<1> DEFINE m == Packet(EXEC(p), SWMAN)
           i == m.obj[1]
           c == Taken(EXEC(p), SWMAN)
           r == Reported(c, i, apps[i], m, p)
<1>1. UNCHANGED <<setup, calls, loaded, app_id>>
  BY DEF user, hwman, StatusRep
<1>2. Same(ch, c) /\ RoadsOK(c)
  BY TakenAt, ThreeRoutes, SameRoads DEF AInv, RoadsOK
<1>3. \/ i \notin DOMAIN apps /\ ch' = c /\ UNCHANGED apps
      \/ /\ i \in DOMAIN apps
         /\ Completed(r.ch, i, r.app, m.obj[2]) \/ (ch' = r.ch /\ apps' = [apps EXCEPT ![i] = r.app])
  BY DEF StatusRep
<1> HIDE DEF c, m, i, r
<1>4. ASSUME Same(ch, ch'), HasNames', Names(apps') = Names(apps)
      PROVE  AInv'
  <2>1. CountsOK' /\ PlacesOK'
    BY <1>1, <1>4 DEF AInv, CountsOK, PlacesOK, Same
  <2> QED BY <1>1, <1>4, <2>1, NothingNew
<1>5. CASE ch' = c /\ UNCHANGED apps
  BY <1>2, <1>4, <1>5 DEF AInv, HasNames
<1>6. CASE i \in DOMAIN apps
  <2>1. "name" \in DOMAIN apps[i]
    BY <1>6 DEF AInv, HasNames
  <2>2. "name" \in DOMAIN r.app /\ r.app.name = apps[i].name /\ Same(c, r.ch)
    BY <1>2, <2>1, ReportedKeeps DEF r
  <2>3. Same(ch, r.ch)
    BY <1>2, <2>2, SameTwice
  <2>4. CASE ch' = r.ch /\ apps' = [apps EXCEPT ![i] = r.app]
    <3>1. /\ DOMAIN apps' = DOMAIN apps /\ apps'[i] = r.app
          /\ \A j \in DOMAIN apps : j # i => apps'[j] = apps[j]
      BY <1>6, <2>4
    <3>2. HasNames'
      BY <2>2, <3>1 DEF HasNames, AInv
    <3>3. \A j \in DOMAIN apps : apps'[j].name = apps[j].name
      BY <2>2, <3>1
    <3>4. Names(apps') = Names(apps)
      BY <3>1, <3>3, NamesAt
    <3> QED BY <1>4, <2>3, <2>4, <3>2, <3>4
  <2>5. CASE Completed(r.ch, i, r.app, m.obj[2])
    BY <1>1, <1>6, <2>2, <2>3, <2>5, CompletedKeeps
  <2> QED BY <1>3, <1>6, <2>4, <2>5, <1>5
<1> QED BY <1>3, <1>5, <1>6

\* An error that SWLOAD reports.
LEMMA LoadErrorKeeps ==
  ASSUME AInv, NEW p \in PEs, AppError(SWLOAD(p)), UNCHANGED <<setup, user, hwman>>
  PROVE  AInv'
<1> DEFINE m == Packet(SWLOAD(p), SWMAN)
           c == Taken(SWLOAD(p), SWMAN)
<1>1. UNCHANGED <<setup, calls, loaded, app_id>>
  BY DEF user, hwman, AppError
<1>2. Same(ch, c) /\ RoadsOK(c)
  BY TakenAt, ThreeRoutes, SameRoads DEF AInv, RoadsOK
<1>3. \/ \E i \in Named(m.app) : LoadAppError(c, i, m.app)
      \/ ch' = c /\ UNCHANGED <<apps, dropped>>
  BY DEF AppError
<1> HIDE DEF c, m
<1>4. CASE ch' = c /\ UNCHANGED <<apps, dropped>>
  BY <1>1, <1>2, <1>4, NothingNew DEF AInv, HasNames, CountsOK, PlacesOK, Same
<1>5. ASSUME NEW i \in Named(m.app), LoadAppError(c, i, m.app)
      PROVE  AInv'
  <2>1. i \in DOMAIN apps /\ m.app = apps[i].name
    BY DEF Named
  <2>2. c[SH] = ch[SH] /\ c[HS] = ch[HS] /\ c[CS] = ch[CS]
    BY <1>2 DEF Same
  <2>3. ch'[CS] = c[CS]
    <3>1. Same(c, Post(c, SWMAN, CMDMAN, LoadAppErr))
      BY <1>2, PostAt, ThreeRoutes DEF RoadsOK
    <3> QED BY <1>5, <3>1, UnmapAt DEF LoadAppError, Same
  <2>4. CountsOK'
    BY <1>1, <2>2, <2>3 DEF CountsOK, AInv
  <2> QED BY <1>1, <1>2, <1>5, <2>1, <2>2, <2>4, ErrorPosted
<1> QED BY <1>3, <1>4, <1>5

\* The error that HWMAN reports.  The removal that SWMAN answers with is sent
\* before the packet counts as taken.
LEMMA MapErrorKeeps ==
  ASSUME AInv, AppError(HWMAN), UNCHANGED <<setup, user, hwman>>
  PROVE  AInv'
<1> DEFINE m == Packet(HWMAN, SWMAN)
           c == Taken(HWMAN, SWMAN)
           a == m.app
<1>1. UNCHANGED <<setup, calls, loaded, app_id>>
  BY DEF user, hwman, AppError
<1>2. ch[HS] # <<>> /\ ch[HS] \in Seq(ToSwman) /\ DOMAIN ch = Routes
  BY DEF AInv, RoadsOK, AppError, Waits, HS
<1>3. m = Head(ch[HS]) /\ m \in ToSwman /\ Tail(ch[HS]) \in Seq(ToSwman)
  BY <1>2, HeadTailProperties DEF Packet, HS
<1>4. "app" \in DOMAIN m /\ a \in Apps
  BY <1>3 DEF ToSwman
<1>5. /\ DOMAIN c = Routes /\ c[HS] = Tail(ch[HS]) /\ c[SH] = ch[SH] /\ c[CS] = ch[CS]
      /\ RoadsOK(c)
  BY <1>2, <1>3, TakenAt, ThreeRoutes DEF HS, RoadsOK, AInv
<1>6. \/ \E i \in Named(a) : LoadAppError(c, i, a)
      \/ Named(a) = {} /\ ch' = c /\ UNCHANGED <<apps, dropped>>
  BY <1>4 DEF AppError
<1>7. Alike(ch[SH], ch[HS], Names(apps), Names(loaded), app_id) /\ app_id \in Nat \ {0}
  BY DEF AInv, ListsOK, Alike
<1>8. PlacesOK'
  BY <1>1 DEF AInv, PlacesOK
<1> HIDE DEF c, m, a
<1>9. CASE Named(a) = {} /\ ch' = c /\ UNCHANGED <<apps, dropped>>
  <2>1. \A i \in DOMAIN Names(apps) : Names(apps)[i] # a
    BY <1>9, NamesAt DEF Named
  <2>2. Alike(ch[SH], Tail(ch[HS]), Names(apps), Names(loaded), app_id)
    BY <1>2, <1>3, <1>7, <2>1, ErrorTaken DEF a
  <2>3. ListsOK'
    BY <1>1, <1>5, <1>9, <2>2 DEF ListsOK
  <2> QED BY <1>1, <1>5, <1>8, <1>9, <2>3 DEF AInv, CountsOK, HasNames
<1>10. ASSUME NEW i \in Named(a), LoadAppError(c, i, a)
       PROVE  AInv'
  <2>1. i \in DOMAIN apps /\ a = apps[i].name
    BY DEF Named
  <2> DEFINE d == Post(c, SWMAN, CMDMAN, LoadAppErr)
  <2>2. Same(c, d)
    BY <1>5, PostAt, ThreeRoutes
  <2>3. ch' = Unmap(d, a) /\ apps' = Without(apps, i)
    BY <1>10 DEF LoadAppError
  <2> HIDE DEF d
  <2>4. /\ DOMAIN ch' = Routes /\ ch'[SH] = Append(ch[SH], UnmapObj(a))
        /\ ch'[HS] = Tail(ch[HS]) /\ ch'[CS] = ch[CS]
    BY <1>5, <2>2, <2>3, UnmapAt DEF Same
  <2>5. /\ DOMAIN Names(apps) = DOMAIN apps /\ Names(apps)[i] = a
        /\ DOMAIN Names(apps') = DOMAIN apps \ {i}
        /\ \A j \in DOMAIN Names(apps') : /\ Names(apps')[j] = Names(apps)[j]
                                          /\ apps'[j] = apps[j]
    <3>1. DOMAIN apps' = DOMAIN apps \ {i} /\ \A j \in DOMAIN apps \ {i} : apps'[j] = apps[j]
      BY <2>3 DEF Without, Restrict
    <3>2. /\ DOMAIN Names(apps) = DOMAIN apps
          /\ \A j \in DOMAIN apps : Names(apps)[j] = apps[j].name
      BY NamesAt
    <3>3. /\ DOMAIN Names(apps') = DOMAIN apps'
          /\ \A j \in DOMAIN apps' : Names(apps')[j] = apps'[j].name
      BY NamesAt
    <3> QED BY <2>1, <3>1, <3>2, <3>3
  <2>6. \A j \in DOMAIN apps : Names(apps)[j] = a => j = i
    <3>1. \A j, k \in DOMAIN Names(apps) : Names(apps)[j] = Names(apps)[k] => j = k
      BY <1>7 DEF Alike, ListOK
    <3> QED BY <2>1, <2>5, <3>1
  <2>7. DOMAIN Names(apps') = {j \in DOMAIN Names(apps) : Names(apps)[j] # a}
    BY <2>5, <2>6
  <2>8. Alike(Append(ch[SH], UnmapObj(a)), ch[HS], Names(apps'), Names(loaded), app_id)
    BY <1>4, <1>7, <2>5, <2>7, GivenUp DEF a
  <2>9. Alike(Append(ch[SH], UnmapObj(a)), Tail(ch[HS]), Names(apps'), Names(loaded), app_id)
    <3>1. \A j \in DOMAIN Names(apps') : Names(apps')[j] # Head(ch[HS]).app
      BY <1>3, <2>5, <2>7 DEF a
    <3> QED BY <1>2, <2>8, <3>1, ErrorTaken
  <2>10. ListsOK' /\ RoadsOK(ch')
    BY <1>1, <2>4, <2>9 DEF ListsOK, RoadsOK, Alike, AInv
  <2>11. HasNames' /\ CountsOK'
    <3>1. HasNames'
      BY <2>3, <2>5, NamesAt DEF HasNames, AInv
    <3> QED BY <1>1, <2>4, <3>1 DEF CountsOK, AInv
  <2> QED BY <1>8, <2>10, <2>11 DEF AInv
<1> QED BY <1>6, <1>9, <1>10 DEF a

\* An executable that SWLOAD asks for.
LEMMA ExecReqKeeps ==
  ASSUME AInv, NEW p \in PEs, ExecReq(p), UNCHANGED <<setup, user, hwman>>
  PROVE  AInv'
<1>1. UNCHANGED <<setup, calls, loaded, app_id, apps>>
  BY DEF user, hwman, swman, ExecReq
<1>2. Same(ch, Taken(SWLOAD(p), SWMAN))
  BY TakenAt, ThreeRoutes DEF AInv, RoadsOK
<1>3. PICK x : ch' = Post(Taken(SWLOAD(p), SWMAN), SWMAN, SWLOAD(p), x)
  BY DEF ExecReq
<1>4. Same(Taken(SWLOAD(p), SWMAN), ch')
  <2>1. DOMAIN Taken(SWLOAD(p), SWMAN) = Routes
    BY <1>2 DEF Same
  <2>2. <<SWMAN, SWLOAD(p)>> \notin {SH, HS, CS}
    BY ThreeRoutes
  <2> QED BY <1>3, <2>1, <2>2, PostAt
<1>5. Same(ch, ch')
  BY <1>2, <1>4, SameTwice
<1> QED BY <1>1, <1>5, NothingNew DEF AInv, HasNames, CountsOK, PlacesOK, Same

-----------------------------------------------------------------------------
(* HWMAN, the user and the rest.                                           *)

\* The packet HWMAN takes from SWMAN.
LEMMA WorkTaken ==
  ASSUME AInv, ch[SH] # <<>>
  PROVE  LET m == Packet(SWMAN, HWMAN)
             c == Taken(SWMAN, HWMAN)
         IN /\ m = Head(ch[SH]) /\ m \in ToHwman /\ m.app \in Apps
            /\ DOMAIN c = Routes /\ c[SH] = Tail(ch[SH]) /\ c[HS] = ch[HS] /\ c[CS] = ch[CS]
            /\ RoadsOK(c)
<1>1. ch[SH] \in Seq(ToHwman) /\ DOMAIN ch = Routes
  BY DEF AInv, RoadsOK
<1>2. Head(ch[SH]) \in ToHwman /\ Tail(ch[SH]) \in Seq(ToHwman)
  BY <1>1, HeadTailProperties
<1>3. /\ DOMAIN Taken(SWMAN, HWMAN) = Routes
      /\ Taken(SWMAN, HWMAN)[SH] = Tail(ch[SH])
      /\ Taken(SWMAN, HWMAN)[HS] = ch[HS] /\ Taken(SWMAN, HWMAN)[CS] = ch[CS]
  BY <1>1, TakenAt, ThreeRoutes DEF SH
<1> QED BY <1>2, <1>3, Kinds DEF RoadsOK, AInv, Packet, SH

LEMMA SwMapperKeeps ==
  ASSUME AInv, SwMapper, UNCHANGED <<setup, user, swman>>
  PROVE  AInv'
<1> DEFINE m == Packet(SWMAN, HWMAN)
           c == Taken(SWMAN, HWMAN)
<1>1. UNCHANGED <<setup, calls, apps, app_id>>
  BY DEF user, swman
<1>2. ch[SH] # <<>> /\ m.cmd = "MAPOBJ"
  BY DEF SwMapper, Waits, Packet, SH
<1>3. /\ m = Head(ch[SH]) /\ m \in ToHwman /\ m.app \in Apps
      /\ DOMAIN c = Routes /\ c[SH] = Tail(ch[SH]) /\ c[HS] = ch[HS] /\ c[CS] = ch[CS]
      /\ RoadsOK(c)
  BY <1>2, WorkTaken
<1>4. \/ \E at \in [Keys(m.app) -> PEs] :
           Mapped(m.inst, m.app, at) /\ ch' = LoadObjs(c, m.inst, m.app, at)
      \/ ch' = Post(c, HWMAN, SWMAN, MapError(m.app)) /\ UNCHANGED hwman
  BY DEF SwMapper, MapError
<1>5. HasNames'
  BY <1>1 DEF HasNames, AInv
<1>6. Alike(ch[SH], ch[HS], Names(apps), Names(loaded), app_id)
  BY DEF AInv, ListsOK
<1> HIDE DEF c, m
<1>7. ASSUME NEW at \in [Keys(m.app) -> PEs],
             Mapped(m.inst, m.app, at), ch' = LoadObjs(c, m.inst, m.app, at)
      PROVE  AInv'
  <2>1. Same(c, ch')
    BY <1>3, <1>7, LoadSame
  <2>2. loaded' = With(loaded, m.inst, [name |-> m.app, at |-> at])
    BY <1>7 DEF Mapped
  <2>3. Names(loaded') = With(Names(loaded), m.inst, m.app)
    BY <2>2, NamesAt
  <2>4. Alike(Tail(ch[SH]), ch[HS], Names(apps), Names(loaded'), app_id)
    BY <1>2, <1>3, <1>6, <2>3, MappedByHwman
  <2>5. ListsOK'
    BY <1>1, <1>3, <2>1, <2>4 DEF ListsOK, Same
  <2>6. PlacesOK'
    BY <2>2 DEF PlacesOK, AInv, With
  <2>7. RoadsOK(ch') /\ CountsOK'
    BY <1>1, <1>3, <2>1, SameRoads DEF CountsOK, AInv, Same
  <2> QED BY <1>5, <2>5, <2>6, <2>7 DEF AInv
<1>8. CASE ch' = Post(c, HWMAN, SWMAN, MapError(m.app)) /\ UNCHANGED hwman
  <2>1. /\ DOMAIN ch' = Routes /\ ch'[HS] = Append(ch[HS], MapError(m.app))
        /\ ch'[SH] = Tail(ch[SH]) /\ ch'[CS] = ch[CS]
    <3> DEFINE d == Post(c, HWMAN, SWMAN, MapError(m.app))
    <3>1. /\ DOMAIN d = Routes /\ d[HS] = Append(c[HS], MapError(m.app))
          /\ d[SH] = c[SH] /\ d[CS] = c[CS]
      <4>1. DOMAIN c = Routes
        BY <1>3
      <4>2. HS = <<HWMAN, SWMAN>>
        BY DEF HS
      <4>3. <<HWMAN, SWMAN>> \in Routes /\ SH \in Routes /\ CS \in Routes
            /\ SH # <<HWMAN, SWMAN>> /\ CS # <<HWMAN, SWMAN>>
        BY <4>2, ThreeRoutes
      <4>4. \A x : LET e == Post(c, HWMAN, SWMAN, x) IN
              /\ DOMAIN e = Routes
              /\ e[<<HWMAN, SWMAN>>] = Append(c[<<HWMAN, SWMAN>>], x)
              /\ e[SH] = c[SH] /\ e[CS] = c[CS]
        BY <4>1, <4>3, PostAt
      <4> QED BY <4>2, <4>4
    <3> HIDE DEF d
    <3> QED BY <1>3, <1>8, <3>1 DEF d
  <2>2. UNCHANGED loaded
    BY <1>8 DEF hwman
  <2>3. Alike(Tail(ch[SH]), Append(ch[HS], MapError(m.app)), Names(apps), Names(loaded), app_id)
    BY <1>2, <1>3, <1>6, RefusedByHwman
  <2>4. ListsOK' /\ RoadsOK(ch')
    BY <1>1, <2>1, <2>2, <2>3 DEF ListsOK, RoadsOK, Alike, AInv
  <2>5. PlacesOK' /\ CountsOK'
    BY <1>1, <2>1, <2>2 DEF PlacesOK, CountsOK, AInv
  <2> QED BY <1>5, <2>4, <2>5 DEF AInv
<1> QED BY <1>4, <1>7, <1>8

LEMMA SwUnmapKeeps ==
  ASSUME AInv, SwUnmap, UNCHANGED <<setup, user, swman>>
  PROVE  AInv'
<1> DEFINE m == Packet(SWMAN, HWMAN)
           c == Taken(SWMAN, HWMAN)
           a == m.app
<1>1. UNCHANGED <<setup, calls, apps, app_id>>
  BY DEF user, swman
<1>2. ch[SH] # <<>> /\ m.cmd = "UNMAPOBJ" /\ ch' = c
  BY DEF SwUnmap, Waits, Packet, SH
<1>3. /\ m = Head(ch[SH]) /\ a \in Apps
      /\ DOMAIN c = Routes /\ c[SH] = Tail(ch[SH]) /\ c[HS] = ch[HS] /\ c[CS] = ch[CS]
      /\ RoadsOK(c)
  BY <1>2, WorkTaken
<1>4. \/ Loaded(a) = {} /\ UNCHANGED hwman
      \/ \E i \in Loaded(a) : Freed(i)
  BY DEF SwUnmap
<1>5. HasNames'
  BY <1>1 DEF HasNames, AInv
<1>6. Alike(ch[SH], ch[HS], Names(apps), Names(loaded), app_id)
  BY DEF AInv, ListsOK
<1> HIDE DEF c, m, a
<1>7. /\ DOMAIN Names(loaded) = DOMAIN loaded
      /\ \A j \in DOMAIN loaded : Names(loaded)[j] = loaded[j].name
  BY NamesAt
<1>8. /\ DOMAIN Names(loaded') = DOMAIN loaded'
      /\ \A j \in DOMAIN loaded' : Names(loaded')[j] = loaded'[j].name
  BY NamesAt
<1>9. /\ DOMAIN Names(loaded') = {i \in DOMAIN Names(loaded) : Names(loaded)[i] # a}
      /\ \A j \in DOMAIN Names(loaded') : Names(loaded')[j] = Names(loaded)[j]
      /\ \A j \in DOMAIN loaded' : j \in DOMAIN loaded /\ loaded'[j] = loaded[j]
  <2>1. CASE Loaded(a) = {} /\ UNCHANGED hwman
    <3>1. \A j \in DOMAIN loaded : loaded[j].name # a
      BY <2>1 DEF Loaded
    <3> QED BY <2>1, <3>1, <1>7 DEF hwman
  <2>2. CASE \E i \in Loaded(a) : Freed(i)
    <3>1. PICK i \in Loaded(a) : loaded' = Without(loaded, i)
      BY <2>2 DEF Freed
    <3>2. i \in DOMAIN loaded /\ loaded[i].name = a
      BY <3>1 DEF Loaded
    <3>3. \A j \in DOMAIN loaded : loaded[j].name = a => j = i
      <4>1. \A j, k \in DOMAIN Names(loaded) : Names(loaded)[j] = Names(loaded)[k] => j = k
        BY <1>6 DEF Alike, ListOK
      <4> QED BY <4>1, <3>2, <1>7
    <3>4. DOMAIN loaded' = DOMAIN loaded \ {i} /\ \A j \in DOMAIN loaded' : loaded'[j] = loaded[j]
      BY <3>1 DEF Without, Restrict
    <3> QED BY <3>2, <3>3, <3>4, <1>7, <1>8
  <2> QED BY <1>4, <2>1, <2>2
<1>10. Alike(Tail(ch[SH]), ch[HS], Names(apps), Names(loaded'), app_id)
  BY <1>2, <1>3, <1>6, <1>9, UnmappedByHwman DEF a
<1>11. ListsOK' /\ RoadsOK(ch')
  BY <1>1, <1>2, <1>3, <1>10 DEF ListsOK
<1>12. PlacesOK' /\ CountsOK'
  BY <1>1, <1>2, <1>3, <1>9 DEF PlacesOK, CountsOK, AInv
<1> QED BY <1>5, <1>11, <1>12 DEF AInv

LEMMA UserKeeps ==
  ASSUME AInv, CmNext, UNCHANGED <<setup, swman, hwman>>
  PROVE  AInv'
<1>1. UNCHANGED <<setup, loaded, apps, app_id>>
  BY DEF hwman, swman
<1>2. /\ DOMAIN ch = Routes /\ ch[CS] \in Seq(Orders) /\ Len(ch[CS]) \in Nat
      /\ setup \in Setups /\ calls \in Nat /\ app_id \in Nat \ {0}
  BY LenProperties DEF AInv, RoadsOK, CountsOK, ListsOK, Alike
<1>3. setup.apps \subseteq Apps /\ setup.asked \subseteq Status /\ setup.calls \in Nat
  BY <1>2, BoundAssumption
<1>4. HasNames' /\ PlacesOK'
  BY <1>1 DEF AInv, HasNames, PlacesOK
<1>5. ASSUME DOMAIN ch' = Routes, ch'[SH] = ch[SH], ch'[HS] = ch[HS],
             ch'[CS] \in Seq(Orders), calls' \in Nat, calls' <= setup.calls,
             Len(ch'[CS]) + calls <= Len(ch[CS]) + calls'
      PROVE  AInv'
  <2>1. Len(ch'[CS]) \in Nat
    BY <1>5, LenProperties
  <2>2. CountsOK'
    BY <1>1, <1>2, <1>3, <1>5, <2>1 DEF CountsOK, AInv
  <2> QED BY <1>1, <1>4, <1>5, <2>2 DEF AInv, RoadsOK, ListsOK
<1>6. ASSUME NEW c, NEW o \in Orders, DOMAIN c = Routes, c[SH] = ch[SH], c[HS] = ch[HS],
             c[CS] \in Seq(Orders)
      PROVE  LET d == Post(c, CMDMAN, SWMAN, o)
             IN /\ DOMAIN d = Routes /\ d[SH] = ch[SH] /\ d[HS] = ch[HS]
                /\ d[CS] \in Seq(Orders) /\ Len(d[CS]) = Len(c[CS]) + 1
  BY <1>6, PostAt, ThreeRoutes, AppendProperties DEF CS
<1>7. ASSUME NEW a \in setup.apps, LoadAppCall(a)
      PROVE  AInv'
  <2> DEFINE c == [ch EXCEPT ![<<SWMAN, CMDMAN>>] = <<>>]
             o == [cmd |-> "LOADAPP", app |-> a]
  <2>1. o \in Orders
    BY <1>3 DEF Orders
  <2>2. DOMAIN c = Routes /\ c[SH] = ch[SH] /\ c[HS] = ch[HS] /\ c[CS] = ch[CS]
    BY <1>2, ThreeRoutes
  <2>3. ch' = Post(c, CMDMAN, SWMAN, o) /\ calls' = calls + 1 /\ calls < setup.calls
    BY <1>7 DEF LoadAppCall
  <2> HIDE DEF c, o
  <2>4. /\ DOMAIN ch' = Routes /\ ch'[SH] = ch[SH] /\ ch'[HS] = ch[HS]
        /\ ch'[CS] \in Seq(Orders) /\ Len(ch'[CS]) = Len(ch[CS]) + 1
    BY <1>2, <1>6, <2>1, <2>2, <2>3
  <2>5. Len(ch'[CS]) + calls <= Len(ch[CS]) + calls'
    <3>1. Len(ch[CS]) \in Nat /\ calls \in Nat /\ calls' = calls + 1
      BY <1>2, <2>3
    <3>2. \A x, y, u, v : y \in Nat /\ u \in Nat /\ x = y + 1 /\ v = u + 1 => x + u <= y + v
      OBVIOUS
    <3> QED BY <2>4, <3>1, <3>2
  <2>6. calls' \in Nat /\ calls' <= setup.calls
    BY <1>2, <1>3, <2>3
  <2> QED BY <1>5, <2>4, <2>5, <2>6
<1>8. ASSUME NEW a \in setup.apps, NEW st \in setup.asked, NEW two \in BOOLEAN,
             AppStatusCall(a, st, two)
      PROVE  AInv'
  <2> DEFINE c == Post(ch, CMDMAN, SWMAN, Order(a, st))
             d == Post(c, CMDMAN, SWMAN, Order(a, "PAUSE"))
  <2>1. Order(a, st) \in Orders /\ Order(a, "PAUSE") \in Orders
    BY <1>3 DEF Orders, Order, Status
  <2>2. /\ DOMAIN c = Routes /\ c[SH] = ch[SH] /\ c[HS] = ch[HS]
        /\ c[CS] \in Seq(Orders) /\ Len(c[CS]) = Len(ch[CS]) + 1
    BY <1>2, <1>6, <2>1
  <2> HIDE DEF c
  <2>3. /\ DOMAIN d = Routes /\ d[SH] = ch[SH] /\ d[HS] = ch[HS]
        /\ d[CS] \in Seq(Orders) /\ Len(d[CS]) = Len(ch[CS]) + 2
    BY <1>2, <1>6, <2>1, <2>2
  <2>4. /\ ch' = IF two THEN d ELSE c
        /\ calls' = IF two THEN calls + 2 ELSE calls + 1
        /\ calls' <= setup.calls
    BY <1>8 DEF AppStatusCall, c
  <2> HIDE DEF d
  <2>5. CASE ch' = d /\ calls' = calls + 2
    <3>1. Len(ch'[CS]) + calls <= Len(ch[CS]) + calls'
      <4>1. Len(ch'[CS]) = Len(ch[CS]) + 2
        BY <2>3, <2>5
      <4>2. Len(ch[CS]) \in Nat /\ calls \in Nat /\ calls' = calls + 2
        BY <1>2, <2>5
      <4>3. \A x, y, u, v : y \in Nat /\ u \in Nat /\ x = y + 2 /\ v = u + 2 => x + u <= y + v
        OBVIOUS
      <4> QED BY <4>1, <4>2, <4>3
    <3>2. calls' \in Nat
      BY <1>2, <2>5
    <3>3. /\ DOMAIN ch' = Routes /\ ch'[SH] = ch[SH] /\ ch'[HS] = ch[HS]
          /\ ch'[CS] \in Seq(Orders)
      BY <2>3, <2>5
    <3> QED BY <1>5, <2>4, <3>1, <3>2, <3>3
  <2>6. CASE ch' = c /\ calls' = calls + 1
    <3>1. Len(ch'[CS]) + calls <= Len(ch[CS]) + calls'
      <4>1. Len(ch'[CS]) = Len(ch[CS]) + 1
        BY <2>2, <2>6
      <4>2. Len(ch[CS]) \in Nat /\ calls \in Nat /\ calls' = calls + 1
        BY <1>2, <2>6
      <4>3. \A x, y, u, v : y \in Nat /\ u \in Nat /\ x = y + 1 /\ v = u + 1 => x + u <= y + v
        OBVIOUS
      <4> QED BY <4>1, <4>2, <4>3
    <3>2. calls' \in Nat
      BY <1>2, <2>6
    <3>3. /\ DOMAIN ch' = Routes /\ ch'[SH] = ch[SH] /\ ch'[HS] = ch[HS]
          /\ ch'[CS] \in Seq(Orders)
      BY <2>2, <2>6
    <3> QED BY <1>5, <2>4, <3>1, <3>2, <3>3
  <2> QED BY <2>4, <2>5, <2>6
<1>9. CASE Answered
  <2>1. ch' = Taken(SWMAN, CMDMAN) /\ calls' = calls
    BY <1>9 DEF Answered
  <2>2. Same(ch, ch')
    BY <1>2, <2>1, TakenAt, ThreeRoutes
  <2>3. /\ DOMAIN ch' = Routes /\ ch'[SH] = ch[SH] /\ ch'[HS] = ch[HS] /\ ch'[CS] = ch[CS]
        /\ calls <= setup.calls
    BY <2>2 DEF Same, AInv, CountsOK
  <2>4. Len(ch'[CS]) + calls <= Len(ch[CS]) + calls'
    BY <1>2, <2>1, <2>3
  <2>5. ch'[CS] \in Seq(Orders) /\ calls' \in Nat /\ calls' <= setup.calls
    BY <1>2, <2>1, <2>3
  <2> QED BY <1>5, <2>3, <2>4, <2>5
<1>10. CASE Timeout
  BY <1>2, <1>5, <1>10 DEF Timeout, AInv, CountsOK
<1> QED BY <1>7, <1>8, <1>9, <1>10 DEF CmNext

\* The SWLOADs, the EXECs and the objects.
LEMMA OthersKeep ==
  ASSUME AInv, UNCHANGED <<setup, user, swman, hwman>>, Same(ch, ch')
  PROVE  AInv'
<1>1. UNCHANGED <<setup, calls, loaded, apps, app_id>>
  BY DEF user, hwman, swman
<1> QED BY <1>1, NothingNew DEF AInv, HasNames, CountsOK, PlacesOK, Same

LEMMA SwLoadSame ==
  ASSUME AInv, NEW p \in PEs, LoadObj(p) \/ ExecErr(p) \/ LoadEnd(p)
  PROVE  Same(ch, ch')
<1> DEFINE out(c, x) == Post(c, SWLOAD(p), SWMAN, x)
<1>1. DOMAIN ch = Routes /\ RoadsOK(ch)
  BY DEF AInv, RoadsOK
<1>2. /\ Same(ch, Taken(HWMAN, SWLOAD(p))) /\ Same(ch, Taken(SWMAN, SWLOAD(p)))
  BY <1>1, TakenAt, ThreeRoutes
<1>3. ASSUME NEW c, Same(ch, c), NEW x
      PROVE  Same(ch, out(c, x))
  <2>1. DOMAIN c = Routes
    BY <1>3 DEF Same
  <2>2. <<SWLOAD(p), SWMAN>> \notin {SH, HS, CS}
    BY ThreeRoutes
  <2>3. Same(c, out(c, x))
    BY <2>1, <2>2, PostAt
  <2> QED BY <1>3, <2>3, SameTwice
<1>4. ASSUME NEW c, Same(ch, c), NEW q
      PROVE  Same(ch, Request(c, p, q))
  BY <1>3, <1>4 DEF Request
<1>5. ASSUME NEW c, Same(ch, c), NEW n, LoadError(c, p, n)
      PROVE  Same(ch, ch')
  BY <1>3, <1>5 DEF LoadError
<1> HIDE DEF out
<1>6. CASE LoadObj(p)
  <2>1. PICK q : ch' = Request(Taken(HWMAN, SWLOAD(p)), p, q)
    BY <1>6, Zenon DEF LoadObj
  <2> QED BY <1>2, <1>4, <2>1
<1>7. CASE ExecErr(p)
  <2> DEFINE c == Taken(SWMAN, SWLOAD(p))
  <2>1. ch' = c \/ \E n : LoadError(c, p, n)
    BY <1>7, Zenon DEF ExecErr
  <2> QED BY <1>2, <1>5, <2>1
<1>8. CASE LoadEnd(p)
  <2> DEFINE c == Taken(SWMAN, SWLOAD(p))
  <2>1. \/ ch' = Post(c, SWLOAD(p), SWMAN, [cmd |-> "EXECERR"])
        \/ \E q : ch' = Request(c, p, q)
        \/ \E n : LoadError(c, p, n)
    BY <1>8, Zenon DEF LoadEnd
  <2> QED BY <1>2, <1>3, <1>4, <1>5, <2>1 DEF out
<1> QED BY <1>6, <1>7, <1>8

LEMMA ExecSame ==
  ASSUME AInv,
         \/ \E p \in PEs : SetStatus(p)
         \/ \E o \in Objects : Adopt(o) \/ Close(o) \/ Fails(o) \/ Crash(o) \/ Watch(o)
  PROVE  Same(ch, ch')
<1>1. DOMAIN ch = Routes /\ Same(ch, ch)
  BY DEF AInv, RoadsOK, Same
<1>2. ASSUME NEW c, Same(ch, c), NEW o, NEW cmd, NEW st
      PROVE  Same(ch, Report(c, o, cmd, st))
  <2>1. DOMAIN c = Routes
    BY <1>2 DEF Same
  <2>2. <<EXEC(proc[o].pe), SWMAN>> \notin {SH, HS, CS}
    BY ThreeRoutes
  <2>3. Same(c, Report(c, o, cmd, st))
    BY <2>1, <2>2, PostAt DEF Report
  <2> QED BY <1>2, <2>3, SameTwice
<1>3. ASSUME NEW p \in PEs, SetStatus(p)
      PROVE  Same(ch, ch')
  <2>1. Same(ch, Taken(SWMAN, EXEC(p)))
    BY <1>1, TakenAt, ThreeRoutes
  <2>2. \/ ch' = Taken(SWMAN, EXEC(p))
        \/ \E o, st : ch' = Report(Taken(SWMAN, EXEC(p)), o, "STATUSERR", st)
    BY <1>3 DEF SetStatus
  <2> QED BY <1>2, <2>1, <2>2
<1>4. ASSUME NEW o \in Objects, Adopt(o) \/ Close(o) \/ Fails(o) \/ Crash(o)
      PROVE  Same(ch, ch')
  BY <1>1, <1>4 DEF Adopt, Close, Fails, Crash, Quietly
<1>5. ASSUME NEW o \in Objects, Watch(o)
      PROVE  Same(ch, ch')
  <2>1. ch' = ch \/ \E cmd, st : ch' = Report(ch, o, cmd, st)
    BY <1>5 DEF Watch, Died, Ack, Late
  <2> QED BY <1>1, <1>2, <2>1
<1> QED BY <1>3, <1>4, <1>5

-----------------------------------------------------------------------------
(* The theorem.                                                            *)

LEMMA StepKeeps ==
  ASSUME AInv, [Next]_vars
  PROVE  AInv'
<1>1. CASE UNCHANGED vars
  BY <1>1, OthersKeep DEF vars, AInv, RoadsOK, Same, user, swman, hwman
<1>2. CASE Next
  <2>1. UNCHANGED setup /\ Step
    BY <1>2 DEF Next
  <2>2. CASE User
    BY <2>1, <2>2, UserKeeps DEF User
  <2>3. CASE SwmanFromUser
    BY <2>1, <2>3, LoadAppKeeps, AppStatusKeeps DEF SwmanFromUser
  <2>4. CASE SwmanFromHwman
    BY <2>1, <2>4, MapErrorKeeps DEF SwmanFromHwman
  <2>5. CASE Hwman
    BY <2>1, <2>5, SwMapperKeeps, SwUnmapKeeps DEF Hwman, HwNext
  <2>6. ASSUME NEW p \in PEs, SwmanFromSwload(p) \/ SwmanFromExec(p)
        PROVE  AInv'
    BY <2>1, <2>6, LoadErrorKeeps, ExecReqKeeps, StatusRepKeeps DEF SwmanFromSwload, SwmanFromExec
  <2>7. ASSUME NEW p \in PEs, SwloadFromHwman(p) \/ SwloadFromSwman(p)
        PROVE  AInv'
    BY <2>1, <2>7, SwLoadSame, OthersKeep DEF SwloadFromHwman, SwloadFromSwman
  <2>8. ASSUME NEW p \in PEs, Exec(p)
        PROVE  AInv'
    BY <2>1, <2>8, ExecSame, OthersKeep DEF Exec
  <2>9. ASSUME NEW o \in Objects, Library(o) \/ Trouble(o) \/ Watched(o)
        PROVE  AInv'
    BY <2>1, <2>9, ExecSame, OthersKeep DEF Library, Trouble, Watched, Others
  <2> QED BY <2>1, <2>2, <2>3, <2>4, <2>5, <2>6, <2>7, <2>8, <2>9 DEF Step
<1> QED BY <1>1, <1>2

LEMMA StartsSo == Init => AInv
<1> SUFFICES ASSUME Init PROVE AInv
  OBVIOUS
<1>1. /\ setup \in Setups /\ ch = [r \in Routes |-> <<>>] /\ calls = 0
      /\ apps = <<>> /\ app_id = 1 /\ loaded = <<>>
  BY DEF Init, CmInit, SwInit, HwInit
<1>2. setup.calls \in Nat
  BY <1>1, BoundAssumption
<1>3. ch[SH] = <<>> /\ ch[HS] = <<>> /\ ch[CS] = <<>> /\ DOMAIN ch = Routes
  BY <1>1, ThreeRoutes
<1>4. DOMAIN apps = {} /\ DOMAIN loaded = {}
  BY <1>1
<1>5. DOMAIN Names(apps) = {} /\ DOMAIN Names(loaded) = {}
  BY <1>4, NamesAt
<1>6. ListsOK
  <2>1. \A s, l : DOMAIN s = {} /\ DOMAIN l = {} => Alike(<<>>, <<>>, s, l, 1)
    BY EmptySeq DEF Alike, ListOK, FreshOK, TurnsOK, HeldOK, GivenUpOK
  <2> QED BY <1>1, <1>3, <1>5, <2>1 DEF ListsOK
<1>7. CountsOK
  BY <1>1, <1>2, <1>3 DEF CountsOK
<1> QED BY <1>3, <1>4, <1>6, <1>7 DEF AInv, RoadsOK, HasNames, PlacesOK

\* When nothing is on its way, what SWMAN holds HWMAN holds, and what HWMAN
\* holds SWMAN has not given up.
LEMMA AlikeAgrees == AInv => Agree
<1> SUFFICES ASSUME AInv, ch[SH] = <<>>, ch[HS] = <<>>
             PROVE  /\ DOMAIN apps = DOMAIN loaded
                    /\ \A i \in DOMAIN apps : apps[i].name = loaded[i].name
  BY DEF Agree, SH, HS
<1>1. HeldOK(<<>>, <<>>, Names(apps), Names(loaded)) /\ GivenUpOK(<<>>, Names(apps), Names(loaded))
  BY DEF AInv, ListsOK, Alike
<1>2. \A i \in DOMAIN Names(apps) : i \in DOMAIN Names(loaded) /\ Names(loaded)[i] = Names(apps)[i]
  BY <1>1 DEF HeldOK
<1>3. \A i \in DOMAIN Names(loaded) : i \in DOMAIN Names(apps)
  BY <1>1 DEF GivenUpOK
<1>4. /\ DOMAIN Names(apps) = DOMAIN apps
      /\ \A i \in DOMAIN apps : Names(apps)[i] = apps[i].name
  BY NamesAt
<1>5. /\ DOMAIN Names(loaded) = DOMAIN loaded
      /\ \A i \in DOMAIN loaded : Names(loaded)[i] = loaded[i].name
  BY NamesAt
<1> QED BY <1>2, <1>3, <1>4, <1>5

\* However the loadings and removals of waveforms of one name, the errors and
\* the refusals of HWMAN overtake each other, SWMAN and HWMAN hold the same
\* waveforms whenever nothing is on its way between them.
THEOREM ListsAgree == Spec => []Agree
<1>1. AInv /\ [Next]_vars => AInv'
  BY StepKeeps
<1> QED BY <1>1, StartsSo, AlikeAgrees, PTL DEF Spec
=============================================================================
