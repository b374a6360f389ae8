--------------------------- MODULE Frontend_proofs ---------------------------
(***************************************************************************)
(* Proofs about Frontend, for every platform: any set of PEs and any tree. *)
(***************************************************************************)
EXTENDS Frontend, NatLemmas, FiniteSetTheorems, SequenceTheorems

-----------------------------------------------------------------------------
(* The search for a free id.                                               *)

\* The ids in the database of a FRONT-END and its own are not more than its entries
\* and one.
UsedIds(p) == {f_pedb[p][i].id : i \in DOMAIN f_pedb[p]} \cup {fe_local_id[p]}

LEMMA FewUsed ==
  ASSUME TypeOK, NEW p \in PE
  PROVE  IsFiniteSet(UsedIds(p)) /\ Cardinality(UsedIds(p)) <= Len(f_pedb[p]) + 1
<1> DEFINE s == f_pedb[p]
           T == {s[i].id : i \in DOMAIN s}
           f == [i \in 1..Len(s) |-> s[i].id]
<1>1. s \in Seq(Entry) /\ Len(s) \in Nat /\ DOMAIN s = 1..Len(s)
  BY LenProperties DEF TypeOK
<1>2. f \in Surjection(1..Len(s), T)
  BY <1>1 DEF Surjection
<1>3. IsFiniteSet(1..Len(s)) /\ Cardinality(1..Len(s)) = Len(s)
  BY <1>1, FS_Interval
<1>4. IsFiniteSet(T) /\ Cardinality(T) <= Len(s)
  BY <1>2, <1>3, FS_Surjection
<1>5. IsFiniteSet({fe_local_id[p]}) /\ Cardinality({fe_local_id[p]}) = 1
  BY FS_Singleton
<1>6. /\ IsFiniteSet(T \cap {fe_local_id[p]})
      /\ Cardinality(T \cap {fe_local_id[p]}) \in Nat
  BY <1>4, FS_Intersection, FS_CardinalityType
<1>7. Cardinality(T) \in Nat
  BY <1>4, FS_CardinalityType
<1>8. /\ IsFiniteSet(T \cup {fe_local_id[p]})
      /\ Cardinality(T \cup {fe_local_id[p]})
            = Cardinality(T) + 1 - Cardinality(T \cap {fe_local_id[p]})
  BY <1>4, <1>5, FS_Union
<1>9. UsedIds(p) = T \cup {fe_local_id[p]}
  BY DEF UsedIds
<1> HIDE DEF T
<1> QED BY <1>1, <1>4, <1>6, <1>7, <1>8, <1>9

\* The loop of register_son ends, with an id that is not in use and not below the
\* one asked for.
LEMMA FreeIdIsFree ==
  ASSUME TypeOK, NEW p \in PE, NEW id \in Nat
  PROVE  /\ FreeId(p, id) \in Nat /\ FreeId(p, id) >= id
         /\ FreeId(p, id) \notin UsedIds(p)
<1> DEFINE n == Len(f_pedb[p])
           range == id..(id + n + 1)
           free == range \ UsedIds(p)
<1>1. n \in Nat
  BY LenProperties DEF TypeOK
<1>2. IsFiniteSet(range) /\ Cardinality(range) = n + 2
  <2>1. PICK b \in Nat : b = id + n + 1
    BY <1>1
  <2>2. IsFiniteSet(id..b) /\ Cardinality(id..b) = IF id > b THEN 0 ELSE b - id + 1
    BY FS_Interval
  <2> QED BY <1>1, <2>1, <2>2
<1>3. Cardinality(UsedIds(p)) \in Nat
  BY FewUsed, FS_CardinalityType
<1>4. free # {}
  <2>1. SUFFICES ASSUME range \subseteq UsedIds(p) PROVE FALSE
    OBVIOUS
  <2>2. Cardinality(range) <= Cardinality(UsedIds(p))
    BY <2>1, FewUsed, FS_Subset
  <2> HIDE DEF range
  <2> QED BY <1>1, <1>2, <1>3, <2>2, FewUsed
<1>5. PICK m \in free : \A k \in free : m <= k
  <2>1. free \in SUBSET Nat
    BY <1>1
  <2> HIDE DEF free
  <2> QED BY <1>4, <2>1, MinExists
<1>6. m \in range /\ m \notin UsedIds(p) /\ id..(m - 1) \subseteq UsedIds(p)
  BY <1>1, <1>5
<1>7. FreeId(p, id) = CHOOSE k \in range : k \notin UsedIds(p) /\ id..(k - 1) \subseteq UsedIds(p)
  BY DEF FreeId, UsedIds
<1>8. FreeId(p, id) \in range /\ FreeId(p, id) \notin UsedIds(p)
  <2> HIDE DEF range
  <2> QED BY <1>6, <1>7
<1> QED BY <1>1, <1>8

-----------------------------------------------------------------------------
(* Packets and queues.                                                     *)

\* What can be on each kind of interface: answers and identifications go down,
\* requests and reports go up.
Answer  == [cmd : {"REGISTERACK"}, id : Nat, req : Nat]
Request == [cmd : {"REGISTERSON"}, id : {n \in Nat : n >= FirstId}, req : Nat]
Hello   == [cmd : {"IDENT"}, id : Nat]
Cpu     == [cmd : {"ADDCPU"}, id : Nat]
LinkPacket(l) == IF l \in Down THEN Answer \cup Hello
                 ELSE IF l \in Up THEN Request \cup Cpu ELSE Hello \cup {CfgItf}

\* An interface is named by its direction and a PE, and has a reader.
LEMMA Links ==
  ASSUME TypeOK
  PROVE  /\ \A p \in Sons : p \in PE /\ <<"up", p>> \in Up /\ <<"down", p>> \in Down
         /\ In \in Link /\ In \notin Up /\ In \notin Down /\ Up \subseteq Link
         /\ Down \subseteq Link /\ Up \cap Down = {} /\ Root \notin Sons
         /\ \A l \in Link : Reader(l) \in PE
         /\ \A l \in Up : l[2] \in Sons
         /\ \A l \in Down : l[2] \in Sons /\ Reader(l) = l[2]
         /\ Reader(In) = Root
<1>1. tree \in [Sons -> PE]
  BY TreeAssumption DEF TypeOK
<1>2. \A l \in Up : l[1] = "up" /\ l[2] \in Sons
  BY DEF Up
<1>3. \A l \in Down : l[1] = "down" /\ l[2] \in Sons
  BY DEF Down
<1>4. \A p \in Sons : p \in PE /\ <<"up", p>> \in Up /\ <<"down", p>> \in Down
  BY DEF Sons, Up, Down
<1>5. In[1] = "in" /\ In[2] = Root
  BY DEF In
<1>6. \A l \in Link : Reader(l) \in PE
  BY <1>1, <1>2, <1>3, <1>5, RootAssumption DEF Link, Reader, Sons
<1>7. Reader(In) = Root /\ \A l \in Down : Reader(l) = l[2]
  BY <1>3, <1>5 DEF Reader
<1> QED BY <1>2, <1>3, <1>4, <1>5, <1>6, <1>7 DEF Link, Sons

LEMMA PacketsArePackets ==
  /\ Answer \subseteq Packet /\ Request \subseteq Packet /\ Hello \subseteq Packet
  /\ Cpu \subseteq Packet /\ CfgItf \in Packet
BY DEF Answer, Request, Hello, Cpu, Packet

\* Set_find returns an entry, or none.
LEMMA FindFinds ==
  ASSUME NEW s \in Seq(Entry), NEW field, NEW x, Find(s, field, x) # 0
  PROVE  /\ Find(s, field, x) \in DOMAIN s
         /\ s[Find(s, field, x)] \in Entry /\ s[Find(s, field, x)].son \in Sons
<1> DEFINE hits == {i \in DOMAIN s : s[i][field] = x}
<1>1. hits \in SUBSET Nat /\ DOMAIN s = 1..Len(s) /\ Len(s) \in Nat
  BY LenProperties
<1>2. hits # {} /\ Find(s, field, x) = CHOOSE i \in hits : \A j \in hits : i <= j
  BY DEF Find
<1> HIDE DEF hits
<1>3. \E i \in hits : \A j \in hits : i <= j
  BY <1>1, <1>2, MinExists
<1>4. Find(s, field, x) \in hits
  BY <1>2, <1>3
<1>5. Find(s, field, x) \in DOMAIN s
  BY <1>4 DEF hits
<1>6. s[Find(s, field, x)] \in Entry
  BY <1>1, <1>5, ElementOfSeq
<1> QED BY <1>5, <1>6 DEF Entry

\* What holds of the queues when q is what they hold.
QOK(q) == /\ q \in [Link -> Seq(Packet)]
          /\ \A l \in Link : \A j \in DOMAIN q[l] : q[l][j] \in LinkPacket(l)

\* A packet put at the end of a queue leaves the others where they were.
LEMMA Putting ==
  ASSUME NEW q, QOK(q), NEW m \in Link, NEW pkt \in LinkPacket(m) \cap Packet
  PROVE  LET r == Added(q, m, pkt) IN
         /\ QOK(r) /\ Len(r[m]) = Len(q[m]) + 1 /\ \A l \in Link : l # m => r[l] = q[l]
         /\ \A l \in Link : \A j \in DOMAIN r[l] :
              \/ l = m /\ j = Len(r[m]) /\ r[l][j] = pkt
              \/ j \in DOMAIN q[l] /\ r[l][j] = q[l][j]
<1> DEFINE r == Added(q, m, pkt)
<1>1. q \in [Link -> Seq(Packet)] /\ q[m] \in Seq(Packet)
  BY DEF QOK
<1>2. /\ Append(q[m], pkt) \in Seq(Packet)
      /\ Len(Append(q[m], pkt)) = Len(q[m]) + 1 /\ Len(q[m]) \in Nat
      /\ DOMAIN Append(q[m], pkt) = 1..(Len(q[m]) + 1)
      /\ DOMAIN q[m] = 1..Len(q[m])
      /\ \A j \in 1..Len(q[m]) : Append(q[m], pkt)[j] = q[m][j]
      /\ Append(q[m], pkt)[Len(q[m]) + 1] = pkt
  BY <1>1, AppendProperties, LenProperties
<1>3. \A l \in Link : l # m => r[l] = q[l]
  BY <1>1 DEF Added
<1>4. r[m] = Append(q[m], pkt) /\ r \in [Link -> Seq(Packet)]
  BY <1>1, <1>2 DEF Added
<1> HIDE DEF r
<1>5. ASSUME NEW l \in Link, NEW j \in DOMAIN r[l]
      PROVE  \/ l = m /\ j = Len(r[m]) /\ r[l][j] = pkt
             \/ j \in DOMAIN q[l] /\ r[l][j] = q[l][j]
  <2>1. CASE l # m
    BY <2>1, <1>3
  <2>2. CASE l = m
    <3>1. r[m] = Append(q[m], pkt) /\ j \in 1..(Len(q[m]) + 1)
      BY <2>2, <1>2, <1>4
    <3>2. j = Len(q[m]) + 1 \/ j \in 1..Len(q[m])
      BY <3>1, <1>2
    <3> QED BY <3>1, <3>2, <2>2, <1>2
  <2> QED BY <2>1, <2>2
<1>6. \A l \in Link : \A j \in DOMAIN r[l] : r[l][j] \in LinkPacket(l)
  BY <1>5 DEF QOK
<1>7. QOK(r)
  BY <1>4, <1>6 DEF QOK
<1> QED BY <1>2, <1>3, <1>4, <1>5, <1>7 DEF r

\* By how many places the packets of interface x move when one is read from l.
Off(l, x) == IF x = l THEN 1 ELSE 0

\* A packet taken from the head of a queue moves the others one place forward.
LEMMA Taking ==
  ASSUME NEW q, QOK(q), NEW m \in Link, q[m] # <<>>
  PROVE  LET r == Removed(q, m) IN
         /\ QOK(r) /\ Len(r[m]) = Len(q[m]) - 1 /\ \A l \in Link : l # m => r[l] = q[l]
         /\ \A l \in Link : \A j \in DOMAIN r[l] :
              j + Off(m, l) \in DOMAIN q[l] /\ r[l][j] = q[l][j + Off(m, l)]
<1> DEFINE r == Removed(q, m)
<1>1. q \in [Link -> Seq(Packet)] /\ q[m] \in Seq(Packet)
  BY DEF QOK
<1>2. /\ Tail(q[m]) \in Seq(Packet) /\ Len(Tail(q[m])) = Len(q[m]) - 1
      /\ Len(q[m]) \in Nat /\ Len(Tail(q[m])) \in Nat
      /\ DOMAIN Tail(q[m]) = 1..Len(Tail(q[m])) /\ DOMAIN q[m] = 1..Len(q[m])
      /\ \A j \in 1..Len(Tail(q[m])) : Tail(q[m])[j] = q[m][j + 1]
  BY <1>1, HeadTailProperties, LenProperties
<1>3. \A l \in Link : l # m => r[l] = q[l]
  BY <1>1 DEF Removed
<1>4. r[m] = Tail(q[m]) /\ r \in [Link -> Seq(Packet)]
  BY <1>1, <1>2 DEF Removed
<1> HIDE DEF r
<1>5. ASSUME NEW l \in Link, NEW j \in DOMAIN r[l]
      PROVE  j + Off(m, l) \in DOMAIN q[l] /\ r[l][j] = q[l][j + Off(m, l)]
  <2>1. CASE l # m
    <3>1. q[l] \in Seq(Packet) /\ r[l] = q[l]
      BY <2>1, <1>1, <1>3
    <3>2. j \in DOMAIN q[l] /\ j \in Nat
      BY <3>1, LenProperties
    <3> QED BY <2>1, <3>1, <3>2 DEF Off
  <2>2. CASE l = m
    <3>1. j \in 1..Len(Tail(q[m])) /\ Off(m, l) = 1
      BY <2>2, <1>2, <1>4 DEF Off
    <3>2. j + 1 \in DOMAIN q[m] /\ r[m][j] = q[m][j + 1]
      BY <3>1, <1>2, <1>4
    <3> QED BY <2>2, <3>1, <3>2
  <2> QED BY <2>1, <2>2
<1>6. \A l \in Link : \A j \in DOMAIN r[l] : r[l][j] \in LinkPacket(l)
  BY <1>5 DEF QOK
<1>7. QOK(r)
  BY <1>4, <1>6 DEF QOK
<1> QED BY <1>2, <1>3, <1>4, <1>5, <1>7 DEF r

\* The part of TypeOK that is about queues.
SilentOK == /\ silent \in [Link -> Nat]
            /\ \A l \in Link : silent[l] <= Len(queue[l])

\* A packet that is taken is the first one of its queue.
LEMMA TakenIsFirst ==
  ASSUME TypeOK, QOK(queue), NEW l \in Link, NEW cmd, Takes(l, cmd)
  PROVE  /\ queue[l] # <<>> /\ 1 \in DOMAIN queue[l] /\ Head(queue[l]) = queue[l][1]
         /\ Head(queue[l]) \in LinkPacket(l) /\ Head(queue[l]).cmd = cmd
         /\ silent' \in [Link -> Nat] /\ silent'[l] <= Len(queue[l]) - 1
         /\ \A x \in Link : x # l => silent'[x] = silent[x]
<1>1. /\ queue[l] \in Seq(Packet) /\ silent[l] \in Nat /\ silent[l] < Len(queue[l])
      /\ silent \in [Link -> Nat]
      /\ silent' = [silent EXCEPT ![l] = IF silent[l] = 0 THEN 0 ELSE silent[l] - 1]
  BY LenProperties DEF Takes, TypeOK
<1>2. Len(queue[l]) \in Nat /\ DOMAIN queue[l] = 1..Len(queue[l])
  BY <1>1, LenProperties
<1>3. queue[l] # <<>> /\ 1 \in DOMAIN queue[l] /\ Head(queue[l]) = queue[l][1]
  BY <1>1, <1>2
<1>4. Head(queue[l]) \in LinkPacket(l)
  BY <1>3 DEF QOK
<1> QED BY <1>1, <1>2, <1>3, <1>4 DEF Takes

LEMMA DoneStep ==
  ASSUME TypeOK, QOK(queue), NEW l \in Link, NEW cmd, Takes(l, cmd), Done(l)
  PROVE  /\ QOK(queue') /\ SilentOK'
         /\ \A x \in Link : \A j \in DOMAIN queue'[x] :
              j + Off(l, x) \in DOMAIN queue[x] /\ queue'[x][j] = queue[x][j + Off(l, x)]
<1>1. queue' = Removed(queue, l)
  BY DEF Done
<1>2. /\ QOK(queue') /\ Len(queue'[l]) = Len(queue[l]) - 1
      /\ \A x \in Link : x # l => queue'[x] = queue[x]
      /\ \A x \in Link : \A j \in DOMAIN queue'[x] :
            j + Off(l, x) \in DOMAIN queue[x] /\ queue'[x][j] = queue[x][j + Off(l, x)]
  BY <1>1, TakenIsFirst, Taking
<1>3. ASSUME NEW x \in Link PROVE silent'[x] <= Len(queue'[x])
  <2>1. silent[x] <= Len(queue[x])
    BY DEF TypeOK
  <2> QED BY <1>2, <2>1, TakenIsFirst
<1>4. SilentOK'
  BY <1>3, TakenIsFirst DEF SilentOK
<1> QED BY <1>2, <1>4

LEMMA PassStep ==
  ASSUME TypeOK, QOK(queue), NEW l \in Link, NEW cmd, Takes(l, cmd),
         NEW m \in Link, NEW pkt \in LinkPacket(m) \cap Packet, Pass(l, m, pkt)
  PROVE  /\ QOK(queue') /\ SilentOK'
         /\ \A x \in Link : \A j \in DOMAIN queue'[x] :
              \/ x = m /\ j = Len(queue'[m]) /\ queue'[x][j] = pkt
              \/ j + Off(l, x) \in DOMAIN queue[x] /\ queue'[x][j] = queue[x][j + Off(l, x)]
<1> DEFINE q == Removed(queue, l)
<1>1. queue' = Added(q, m, pkt)
  BY DEF Pass
<1>2. /\ QOK(q) /\ Len(q[l]) = Len(queue[l]) - 1
      /\ \A x \in Link : x # l => q[x] = queue[x]
      /\ \A x \in Link : \A j \in DOMAIN q[x] :
            j + Off(l, x) \in DOMAIN queue[x] /\ q[x][j] = queue[x][j + Off(l, x)]
  BY TakenIsFirst, Taking
<1> HIDE DEF q
<1>3. /\ QOK(queue') /\ Len(queue'[m]) = Len(q[m]) + 1
      /\ \A x \in Link : x # m => queue'[x] = q[x]
      /\ \A x \in Link : \A j \in DOMAIN queue'[x] :
            \/ x = m /\ j = Len(queue'[m]) /\ queue'[x][j] = pkt
            \/ j \in DOMAIN q[x] /\ queue'[x][j] = q[x][j]
  BY <1>1, <1>2, Putting
<1>4. SilentOK'
  <2>1. ASSUME NEW x \in Link PROVE silent'[x] <= Len(queue'[x])
    <3>1. /\ Len(queue[x]) \in Nat /\ Len(q[x]) \in Nat /\ silent[x] \in Nat
          /\ silent'[x] \in Nat /\ silent[x] <= Len(queue[x])
      BY <1>2, TakenIsFirst, LenProperties DEF QOK, TypeOK
    <3>2. silent'[x] <= Len(q[x])
      BY <1>2, <3>1, TakenIsFirst
    <3> QED BY <1>3, <3>1, <3>2
  <2> QED BY <2>1, TakenIsFirst DEF SilentOK
<1>5. ASSUME NEW x \in Link, NEW j \in DOMAIN queue'[x]
      PROVE  \/ x = m /\ j = Len(queue'[m]) /\ queue'[x][j] = pkt
             \/ j + Off(l, x) \in DOMAIN queue[x] /\ queue'[x][j] = queue[x][j + Off(l, x)]
  BY <1>2, <1>3
<1> QED BY <1>3, <1>4, <1>5

LEMMA SendStep ==
  ASSUME TypeOK, QOK(queue), UNCHANGED silent,
         NEW m \in Link, NEW pkt \in LinkPacket(m) \cap Packet, Send(m, pkt)
  PROVE  /\ QOK(queue') /\ SilentOK'
         /\ \A x \in Link : \A j \in DOMAIN queue'[x] :
              \/ x = m /\ j = Len(queue'[m]) /\ queue'[x][j] = pkt
              \/ j \in DOMAIN queue[x] /\ queue'[x][j] = queue[x][j]
<1>1. queue' = Added(queue, m, pkt)
  BY DEF Send
<1>2. /\ QOK(queue') /\ Len(queue'[m]) = Len(queue[m]) + 1
      /\ \A x \in Link : x # m => queue'[x] = queue[x]
      /\ \A x \in Link : \A j \in DOMAIN queue'[x] :
            \/ x = m /\ j = Len(queue'[m]) /\ queue'[x][j] = pkt
            \/ j \in DOMAIN queue[x] /\ queue'[x][j] = queue[x][j]
  BY <1>1, Putting
<1>3. ASSUME NEW x \in Link PROVE silent'[x] <= Len(queue'[x])
  <2>1. Len(queue[x]) \in Nat /\ silent[x] \in Nat /\ silent[x] <= Len(queue[x])
    BY LenProperties DEF QOK, TypeOK
  <2> QED BY <1>2, <2>1
<1>4. SilentOK'
  BY <1>3 DEF SilentOK, TypeOK
<1> QED BY <1>2, <1>4

-----------------------------------------------------------------------------
(* The inductive invariant.                                                *)

\* The ids the top FRONT-END has given out.
Given == {f_pedb[Root][i].id : i \in DOMAIN f_pedb[Root]}

IsAnswer(l, j) == queue[l][j].cmd = "REGISTERACK"

\* Each id given out is on its way in one answer at most, or in the answer that made
\* one PE its owner, and never both.
AnswersOK ==
  /\ fe_local_id[Root] \in {0, RootId}
  /\ \A g \in Given : g >= FirstId
  /\ \A p \in Sons : fe_local_id[p] \in Given \cup {0}
  /\ \A l \in Down : \A j \in DOMAIN queue[l] : IsAnswer(l, j) =>
       /\ queue[l][j].id \in Given
       /\ \A p \in Sons : fe_local_id[p] # queue[l][j].id
  /\ \A l, m \in Down : \A j \in DOMAIN queue[l] : \A k \in DOMAIN queue[m] :
       IsAnswer(l, j) /\ IsAnswer(m, k) /\ queue[l][j].id = queue[m][k].id => l = m /\ j = k
  /\ \A p, q \in Sons : p # q /\ fe_local_id[p] # 0 => fe_local_id[p] # fe_local_id[q]

IInv == TypeOK /\ QOK(queue) /\ AnswersOK

\* It is enough: the top FRONT-END's own id is none of those given.
LEMMA IInvGivesUniqueIds == IInv => UniqueIds
<1> SUFFICES ASSUME IInv, NEW p \in PE, NEW q \in PE, p # q, fe_local_id[p] # 0
             PROVE  fe_local_id[p] # fe_local_id[q]
  BY DEF UniqueIds
<1>1. RootId # 0 /\ \A g \in Given : g # RootId
  BY DEF IInv, AnswersOK, FirstId, RootId
<1>2. \A s \in Sons : fe_local_id[s] # RootId
  BY <1>1 DEF IInv, AnswersOK
<1>3. fe_local_id[Root] \in {0, RootId}
  BY DEF IInv, AnswersOK
<1>4. CASE p = Root \/ q = Root
  BY <1>2, <1>3, <1>4 DEF Sons
<1>5. CASE p \in Sons /\ q \in Sons
  BY <1>5 DEF IInv, AnswersOK
<1> QED BY <1>4, <1>5 DEF Sons

\* The answers stay in order when packets move and no answer is made or used.
LEMMA AnswersMoved ==
  ASSUME IInv, NEW d \in [Link -> Nat],
         \A l \in Down : \A j \in DOMAIN queue'[l] : IsAnswer(l, j)' =>
            j + d[l] \in DOMAIN queue[l] /\ queue'[l][j] = queue[l][j + d[l]],
         QOK(queue'), Given \subseteq Given', \A g \in Given' : g >= FirstId,
         fe_local_id' \in [PE -> Nat],
         fe_local_id'[Root] \in {0, RootId}, \A p \in Sons : fe_local_id'[p] = fe_local_id[p]
  PROVE  AnswersOK'
<1>1. ASSUME NEW l \in Down, NEW j \in DOMAIN queue'[l], IsAnswer(l, j)'
      PROVE  /\ l \in Link /\ j \in Nat /\ d[l] \in Nat
             /\ j + d[l] \in DOMAIN queue[l] /\ IsAnswer(l, j + d[l])
             /\ queue'[l][j].id = queue[l][j + d[l]].id
  <2>1. l \in Link /\ queue'[l] \in Seq(Packet)
    BY DEF QOK, Link
  <2>2. j \in Nat
    BY <2>1, LenProperties
  <2> QED BY <1>1, <2>1, <2>2 DEF IsAnswer
<1>2. ASSUME NEW l \in Down, NEW j \in DOMAIN queue'[l], IsAnswer(l, j)'
      PROVE  /\ queue'[l][j].id \in Given'
             /\ \A p \in Sons : fe_local_id'[p] # queue'[l][j].id
  BY <1>1, <1>2 DEF IInv, AnswersOK
<1>3. ASSUME NEW l \in Down, NEW m \in Down,
             NEW j \in DOMAIN queue'[l], NEW k \in DOMAIN queue'[m],
             IsAnswer(l, j)', IsAnswer(m, k)', queue'[l][j].id = queue'[m][k].id
      PROVE  l = m /\ j = k
  <2>1. l = m /\ j + d[l] = k + d[m]
    BY <1>1, <1>3 DEF IInv, AnswersOK
  <2> QED BY <2>1, <1>1, <1>3
<1>4. \A p \in Sons : fe_local_id'[p] \in Given' \cup {0}
  BY DEF IInv, AnswersOK
<1>5. \A p, q \in Sons : p # q /\ fe_local_id'[p] # 0 => fe_local_id'[p] # fe_local_id'[q]
  BY DEF IInv, AnswersOK
<1> QED BY <1>2, <1>3, <1>4, <1>5 DEF AnswersOK

-----------------------------------------------------------------------------
(* The steps.                                                              *)

LEMMA InitOK == Init => IInv
<1> SUFFICES ASSUME Init PROVE IInv
  OBVIOUS
<1>1. TypeOK
  <2>1. queue \in [Link -> Seq(Packet)] /\ silent \in [Link -> Nat]
    BY DEF Init
  <2>2. \A l \in Link : silent[l] <= Len(queue[l])
    <3> TAKE l \in Link
    <3>1. silent[l] = 0 /\ queue[l] = <<>>
      BY DEF Init
    <3> QED BY <3>1
  <2>3. fe_local_id \in [PE -> Nat] /\ f_pedb \in [PE -> Seq(Entry)]
    BY DEF Init
  <2>4. inbox \in Seq(Nat) /\ cpus \in Seq(Nat)
    BY DEF Init
  <2> QED BY <2>1, <2>2, <2>3, <2>4 DEF Init, TypeOK
<1>2. QOK(queue)
  BY DEF Init, QOK
<1>3. AnswersOK
  <2>1. Given = {} /\ \A p \in PE : fe_local_id[p] = 0
    BY RootAssumption DEF Init, Given
  <2>2. \A l \in Down : DOMAIN queue[l] = {}
    BY DEF Init, Link
  <2> QED BY <2>1, <2>2, RootAssumption DEF AnswersOK, Sons
<1> QED BY <1>1, <1>2, <1>3 DEF IInv

\* What leaves the queues and the FRONT-ENDs' databases alone keeps the answers.
LEMMA Untouched ==
  ASSUME IInv, UNCHANGED <<queue, fe>>
  PROVE  QOK(queue') /\ AnswersOK'
<1>1. QOK(queue')
  BY DEF IInv
<1>2. AnswersOK'
  BY DEF IInv, AnswersOK, IsAnswer, Given, fe
<1> QED BY <1>1, <1>2

\* So does a packet that is no answer, put into any queue.
LEMMA SentAside ==
  ASSUME IInv, NEW m \in Link, NEW pkt \in LinkPacket(m) \cap Packet,
         pkt.cmd # "REGISTERACK", Send(m, pkt), UNCHANGED <<silent, f_pedb>>,
         fe_local_id' \in [PE -> Nat],
         fe_local_id'[Root] \in {0, RootId}, \A p \in Sons : fe_local_id'[p] = fe_local_id[p]
  PROVE  QOK(queue') /\ SilentOK' /\ AnswersOK'
<1> DEFINE d == [x \in Link |-> 0]
<1>1. TypeOK /\ QOK(queue)
  BY DEF IInv
<1>2. /\ QOK(queue') /\ SilentOK'
      /\ \A x \in Link : \A j \in DOMAIN queue'[x] :
           \/ x = m /\ j = Len(queue'[m]) /\ queue'[x][j] = pkt
           \/ j \in DOMAIN queue[x] /\ queue'[x][j] = queue[x][j]
  BY <1>1, SendStep
<1>3. d \in [Link -> Nat]
  OBVIOUS
<1>4. ASSUME NEW l \in Down, NEW j \in DOMAIN queue'[l], IsAnswer(l, j)'
      PROVE  j + d[l] \in DOMAIN queue[l] /\ queue'[l][j] = queue[l][j + d[l]]
  <2>1. l \in Link /\ d[l] = 0
    BY DEF Link
  <2>2. j \in DOMAIN queue[l] /\ queue'[l][j] = queue[l][j]
    BY <1>2, <1>4, <2>1 DEF IsAnswer
  <2>3. j \in Nat
    BY <1>2, <2>1, LenProperties DEF QOK
  <2> QED BY <2>1, <2>2, <2>3
<1>5. Given' = Given /\ \A g \in Given' : g >= FirstId
  BY DEF Given, IInv, AnswersOK
<1> HIDE DEF d
<1>6. AnswersOK'
  BY <1>2, <1>3, <1>4, <1>5, AnswersMoved
<1> QED BY <1>2, <1>6

LEMMA StartOK == ASSUME IInv, NEW p \in PE, Start(p) PROVE IInv'
<1>1. TypeOK /\ fe_local_id \in [PE -> Nat]
  BY DEF IInv, TypeOK
<1>2. CASE p = Root
  <2>1. /\ fe_local_id' = [fe_local_id EXCEPT ![Root] = RootId]
        /\ UNCHANGED <<tree, running, queue, silent, f_pedb, mgr, reported, ident, unheard>>
        /\ started' = started \cup {p}
    BY <1>2 DEF Start
  <2>2. TypeOK'
    BY <1>1, <2>1, RootAssumption DEF TypeOK, mgr, RootId
  <2>3. QOK(queue')
    BY <2>1 DEF IInv
  <2>4. fe_local_id'[Root] = RootId /\ \A q \in Sons : fe_local_id'[q] = fe_local_id[q]
    BY <1>1, <2>1, RootAssumption DEF Sons
  <2>5. AnswersOK'
    BY <2>1, <2>4 DEF IInv, AnswersOK, IsAnswer, Given
  <2> QED BY <2>2, <2>3, <2>5 DEF IInv
<1>3. CASE p # Root
  <2> DEFINE m == <<"up", p>>
             pkt == Register(FirstId, FirstId)
  <2>1. /\ Send(m, pkt) /\ started' = started \cup {p}
        /\ UNCHANGED <<tree, running, silent, fe_local_id, f_pedb, mgr, reported, ident, unheard>>
    BY <1>3 DEF Start
  <2>2. m \in Link /\ m \in Up /\ m \notin Down
    BY <1>1, <1>3, Links DEF Sons
  <2>3. pkt \in Request /\ pkt.cmd = "REGISTERSON"
    BY DEF Register, Request, FirstId
  <2>4. pkt \in LinkPacket(m) \cap Packet
    BY <2>2, <2>3, PacketsArePackets DEF LinkPacket
  <2>5. fe_local_id[Root] \in {0, RootId}
    BY DEF IInv, AnswersOK
  <2> HIDE DEF m, pkt
  <2>6. QOK(queue') /\ SilentOK' /\ AnswersOK'
    BY <1>1, <2>1, <2>2, <2>3, <2>4, <2>5, SentAside
  <2>7. TypeOK'
    BY <1>1, <2>1, <2>6 DEF TypeOK, SilentOK, QOK, mgr
  <2> QED BY <2>6, <2>7 DEF IInv
<1> QED BY <1>2, <1>3

LEMMA AddCallbacksOK == ASSUME IInv, NEW p \in PE, AddCallbacks(p) PROVE IInv'
<1>1. TypeOK'
  BY DEF IInv, TypeOK, AddCallbacks, fe, mgr
<1>2. QOK(queue') /\ AnswersOK'
  BY Untouched DEF AddCallbacks
<1> QED BY <1>1, <1>2 DEF IInv

LEMMA ArriveSilentlyOK == ASSUME IInv, NEW l \in Link, ArriveSilently(l) PROVE IInv'
<1>1. silent \in [Link -> Nat] /\ silent' = [silent EXCEPT ![l] = silent[l] + 1]
  BY DEF IInv, TypeOK, ArriveSilently
<1>2. silent' \in [Link -> Nat]
  BY <1>1
<1>3. ASSUME NEW x \in Link PROVE silent'[x] <= Len(queue[x])
  <2>1. silent[x] \in Nat /\ silent[x] <= Len(queue[x]) /\ Len(queue[x]) \in Nat
    BY LenProperties DEF IInv, TypeOK
  <2> QED BY <1>1, <2>1 DEF ArriveSilently
<1>4. TypeOK'
  BY <1>2, <1>3 DEF IInv, TypeOK, ArriveSilently, fe, mgr
<1>5. QOK(queue') /\ AnswersOK'
  BY Untouched DEF ArriveSilently
<1> QED BY <1>4, <1>5 DEF IInv

\* A packet taken that is not followed by another, with nothing else changed.
LEMMA DoneAside ==
  ASSUME IInv, NEW l \in Link, NEW cmd, Takes(l, cmd), Done(l), UNCHANGED fe
  PROVE  QOK(queue') /\ SilentOK' /\ AnswersOK'
<1> DEFINE d == [x \in Link |-> Off(l, x)]
<1>1. TypeOK /\ QOK(queue)
  BY DEF IInv
<1>2. /\ QOK(queue') /\ SilentOK'
      /\ \A x \in Link : \A j \in DOMAIN queue'[x] :
           j + Off(l, x) \in DOMAIN queue[x] /\ queue'[x][j] = queue[x][j + Off(l, x)]
  BY <1>1, DoneStep
<1>3. d \in [Link -> Nat] /\ \A x \in Link : d[x] = Off(l, x)
  BY DEF Off
<1> HIDE DEF d
<1>4. \A x \in Down : \A j \in DOMAIN queue'[x] :
        j + d[x] \in DOMAIN queue[x] /\ queue'[x][j] = queue[x][j + d[x]]
  BY <1>2, <1>3 DEF Link
<1>5. /\ Given' = Given /\ \A g \in Given' : g >= FirstId
      /\ fe_local_id' \in [PE -> Nat] /\ fe_local_id'[Root] \in {0, RootId}
      /\ \A p \in Sons : fe_local_id'[p] = fe_local_id[p]
  BY <1>1 DEF Given, IInv, AnswersOK, fe, TypeOK
<1>6. AnswersOK'
  BY <1>2, <1>3, <1>4, <1>5, AnswersMoved
<1> QED BY <1>2, <1>6

\* A packet taken, and one that is no answer sent on, with no id given.
LEMMA PassAside ==
  ASSUME IInv, NEW l \in Link, NEW cmd, Takes(l, cmd),
         NEW m \in Link, NEW pkt \in LinkPacket(m) \cap Packet, pkt.cmd # "REGISTERACK",
         Pass(l, m, pkt), UNCHANGED fe_local_id, f_pedb'[Root] = f_pedb[Root]
  PROVE  QOK(queue') /\ SilentOK' /\ AnswersOK'
<1> DEFINE d == [x \in Link |-> Off(l, x)]
<1>1. TypeOK /\ QOK(queue)
  BY DEF IInv
<1>2. /\ QOK(queue') /\ SilentOK'
      /\ \A x \in Link : \A j \in DOMAIN queue'[x] :
           \/ x = m /\ j = Len(queue'[m]) /\ queue'[x][j] = pkt
           \/ j + Off(l, x) \in DOMAIN queue[x] /\ queue'[x][j] = queue[x][j + Off(l, x)]
  BY <1>1, PassStep
<1>3. d \in [Link -> Nat] /\ \A x \in Link : d[x] = Off(l, x)
  BY DEF Off
<1> HIDE DEF d
<1>4. \A x \in Down : \A j \in DOMAIN queue'[x] : IsAnswer(x, j)' =>
        j + d[x] \in DOMAIN queue[x] /\ queue'[x][j] = queue[x][j + d[x]]
  BY <1>2, <1>3 DEF Link, IsAnswer
<1>5. /\ Given' = Given /\ \A g \in Given' : g >= FirstId
      /\ fe_local_id' \in [PE -> Nat] /\ fe_local_id'[Root] \in {0, RootId}
      /\ \A p \in Sons : fe_local_id'[p] = fe_local_id[p]
  BY <1>1 DEF Given, IInv, AnswersOK, TypeOK
<1>6. AnswersOK'
  BY <1>2, <1>3, <1>4, <1>5, AnswersMoved
<1> QED BY <1>2, <1>6

LEMMA CfgDaemonOK == ASSUME IInv, NEW l \in Link, CfgDaemon(l) PROVE IInv'
<1>1. QOK(queue') /\ SilentOK' /\ AnswersOK'
  BY DoneAside DEF CfgDaemon
<1>2. TypeOK'
  BY <1>1 DEF IInv, TypeOK, SilentOK, QOK, CfgDaemon, Takes, fe
<1> QED BY <1>1, <1>2 DEF IInv

LEMMA RouteUpOK == ASSUME IInv, NEW l \in Link, RouteUp(l) PROVE IInv'
<1> DEFINE p == Reader(l)
           pkt == Head(queue[l])
<1>1. Takes(l, "ADDCPU") /\ UNCHANGED <<fe, hwman, cpus, ident>>
  BY DEF RouteUp
<1>2. TypeOK /\ QOK(queue) /\ p \in PE
  BY Links DEF IInv
<1>3. pkt \in LinkPacket(l) /\ pkt.cmd = "ADDCPU"
  BY <1>1, <1>2, TakenIsFirst
<1>4. pkt \in Cpu
  BY <1>3 DEF LinkPacket, Answer, Hello, Request, Cpu, CfgItf
<1>5. CASE Done(l) /\ inbox' \in Seq(Nat) /\ unheard' \in BOOLEAN
  <2>1. QOK(queue') /\ SilentOK' /\ AnswersOK'
    BY <1>1, <1>5, DoneAside
  <2>2. TypeOK'
    BY <1>1, <1>2, <1>5, <2>1 DEF TypeOK, SilentOK, QOK, Takes, fe
  <2> QED BY <2>1, <2>2 DEF IInv
<1>6. CASE p # Root /\ Pass(l, <<"up", p>>, pkt) /\ UNCHANGED <<inbox, unheard>>
  <2> DEFINE m == <<"up", p>>
  <2>1. m \in Link /\ m \in Up /\ m \notin Down
    BY <1>2, <1>6, Links DEF Sons
  <2>2. pkt \in LinkPacket(m) \cap Packet
    BY <1>4, <2>1, PacketsArePackets DEF LinkPacket
  <2> HIDE DEF m
  <2>3. Pass(l, m, pkt)
    BY <1>6 DEF m
  <2>4. UNCHANGED fe_local_id /\ f_pedb'[Root] = f_pedb[Root]
    BY <1>1 DEF fe
  <2> HIDE DEF pkt
  <2>5. QOK(queue') /\ SilentOK' /\ AnswersOK'
    BY <1>1, <1>3, <2>1, <2>2, <2>3, <2>4, PassAside
  <2>6. TypeOK'
    BY <1>1, <1>2, <1>6, <2>5 DEF TypeOK, SilentOK, QOK, Takes, fe
  <2> QED BY <2>5, <2>6 DEF IInv
<1>7. inbox \in Seq(Nat) /\ unheard \in BOOLEAN /\ Append(inbox, pkt.id) \in Seq(Nat)
  BY <1>2, <1>4, AppendProperties DEF TypeOK, Cpu
<1> QED BY <1>5, <1>6, <1>7 DEF RouteUp

LEMMA RouteDownOK == ASSUME IInv, NEW l \in Link, RouteDown(l) PROVE IInv'
<1> DEFINE p == Reader(l)
           pkt == Head(queue[l])
           i == NextHop(p, pkt.id)
<1>1. Takes(l, "IDENT") /\ UNCHANGED <<fe, mgr, unheard>>
  BY DEF RouteDown
<1>2. TypeOK /\ QOK(queue) /\ p \in PE
  BY Links DEF IInv
<1>3. pkt \in LinkPacket(l) /\ pkt.cmd = "IDENT"
  BY <1>1, <1>2, TakenIsFirst
<1>4. pkt \in Hello
  BY <1>3 DEF LinkPacket, Answer, Hello, Request, Cpu, CfgItf
<1>5. CASE Done(l) /\ ident' \subseteq PE
  <2>1. QOK(queue') /\ SilentOK' /\ AnswersOK'
    BY <1>1, <1>5, DoneAside
  <2>2. TypeOK'
    BY <1>1, <1>2, <1>5, <2>1 DEF TypeOK, SilentOK, QOK, Takes, fe, mgr
  <2> QED BY <2>1, <2>2 DEF IInv
<1>6. CASE i # 0 /\ Pass(l, <<"down", f_pedb[p][i].son>>, pkt) /\ UNCHANGED ident
  <2> DEFINE m == <<"down", f_pedb[p][i].son>>
  <2>1. f_pedb[p][i].son \in Sons
    BY <1>2, <1>6, FindFinds DEF NextHop, TypeOK
  <2>2. m \in Link /\ m \in Down
    BY <1>2, <2>1, Links
  <2>3. pkt \in LinkPacket(m) \cap Packet
    BY <1>4, <2>2, PacketsArePackets DEF LinkPacket
  <2>4. Pass(l, m, pkt)
    BY <1>6
  <2>5. UNCHANGED fe_local_id /\ f_pedb'[Root] = f_pedb[Root] /\ UNCHANGED ident
    BY <1>1, <1>6 DEF fe
  <2> HIDE DEF pkt, m, i
  <2>6. QOK(queue') /\ SilentOK' /\ AnswersOK'
    BY <1>1, <1>3, <2>2, <2>3, <2>4, <2>5, PassAside
  <2>7. TypeOK'
    BY <1>1, <1>2, <2>5, <2>6 DEF TypeOK, SilentOK, QOK, Takes, fe, mgr
  <2> QED BY <2>6, <2>7 DEF IInv
<1>7. ident \subseteq PE /\ ident \cup {p} \subseteq PE
  BY <1>2 DEF TypeOK
<1> QED BY <1>5, <1>6, <1>7 DEF RouteDown

\* An entry put first in a database adds its id to those it had.
LEMMA PutFirst ==
  ASSUME NEW s \in Seq(Entry), NEW e \in Entry
  PROVE  LET t == <<e>> \o s IN
         /\ t \in Seq(Entry)
         /\ {t[i].id : i \in DOMAIN t} = {s[i].id : i \in DOMAIN s} \cup {e.id}
<1> DEFINE t == <<e>> \o s
<1>1. <<e>> \in Seq(Entry) /\ Len(<<e>>) = 1 /\ <<e>>[1] = e
  OBVIOUS
<1>2. /\ t \in Seq(Entry) /\ Len(t) = 1 + Len(s) /\ Len(s) \in Nat
      /\ DOMAIN t = 1..(1 + Len(s)) /\ DOMAIN s = 1..Len(s)
      /\ t[1] = e /\ \A i \in 1..Len(s) : t[i + 1] = s[i]
  <2>1. t \in Seq(Entry) /\ Len(t) = 1 + Len(s)
    BY <1>1, ConcatProperties
  <2>2. Len(s) \in Nat /\ DOMAIN s = 1..Len(s) /\ DOMAIN t = 1..Len(t)
    BY <2>1, LenProperties
  <2>3. \A i \in 1..(1 + Len(s)) : t[i] = IF i <= 1 THEN <<e>>[i] ELSE s[i - 1]
    BY <1>1, ConcatProperties
  <2> HIDE DEF t
  <2> QED BY <1>1, <2>1, <2>2, <2>3
<1> HIDE DEF t
<1>3. ASSUME NEW i \in DOMAIN t PROVE t[i].id \in {s[j].id : j \in DOMAIN s} \cup {e.id}
  <2>1. CASE i = 1
    BY <1>2, <2>1
  <2>2. CASE i # 1
    <3>1. i - 1 \in DOMAIN s /\ t[i] = s[i - 1]
      BY <1>2, <2>2
    <3> QED BY <3>1
  <2> QED BY <2>1, <2>2
<1>4. e.id \in {t[i].id : i \in DOMAIN t}
  <2>1. 1 \in DOMAIN t
    BY <1>2
  <2> QED BY <1>2, <2>1
<1>5. ASSUME NEW j \in DOMAIN s PROVE s[j].id \in {t[i].id : i \in DOMAIN t}
  <2>1. j + 1 \in DOMAIN t /\ t[j + 1] = s[j]
    BY <1>2
  <2> QED BY <2>1
<1> QED BY <1>2, <1>3, <1>4, <1>5 DEF t

\* The top FRONT-END answers a request with an id that nobody has: the answer is one
\* more, and no id already given is in it.
LEMMA GivenOnce ==
  ASSUME IInv, NEW l \in Up, Takes(l, "REGISTERSON"), NEW son \in Sons,
         NEW id \in Nat, id \notin Given, id >= FirstId, NEW req \in Nat,
         Pass(l, <<"down", son>>, Ack(id, req)), UNCHANGED fe_local_id,
         Given' = Given \cup {id}
  PROVE  QOK(queue') /\ SilentOK' /\ AnswersOK'
<1> DEFINE m == <<"down", son>>
           pkt == Ack(id, req)
<1>1. TypeOK /\ QOK(queue) /\ AnswersOK
  BY DEF IInv
<1>2. l \in Link /\ m \in Link /\ m \in Down /\ l \notin Down
  BY <1>1, Links
<1>3. pkt \in Answer /\ pkt.id = id /\ pkt.cmd = "REGISTERACK"
  BY DEF Ack, Answer
<1>4. pkt \in LinkPacket(m) \cap Packet
  BY <1>2, <1>3, PacketsArePackets DEF LinkPacket
<1>5. Pass(l, m, pkt)
  OBVIOUS
<1> HIDE DEF m, pkt
<1>6. /\ QOK(queue') /\ SilentOK'
      /\ \A x \in Link : \A j \in DOMAIN queue'[x] :
           \/ x = m /\ j = Len(queue'[m]) /\ queue'[x][j] = pkt
           \/ j + Off(l, x) \in DOMAIN queue[x] /\ queue'[x][j] = queue[x][j + Off(l, x)]
  BY <1>1, <1>2, <1>4, <1>5, PassStep
<1>7. ASSUME NEW x \in Down, NEW j \in DOMAIN queue'[x]
      PROVE  \/ x = m /\ j = Len(queue'[m]) /\ queue'[x][j] = pkt
             \/ j \in DOMAIN queue[x] /\ queue'[x][j] = queue[x][j]
  <2>1. x \in Link /\ Off(l, x) = 0
    BY <1>2 DEF Link, Off
  <2>2. j \in Nat
    BY <1>6, <2>1, LenProperties DEF QOK
  <2>3. j + Off(l, x) = j
    BY <2>1, <2>2
  <2> QED BY <1>6, <2>1, <2>3
<1>8. /\ \A g \in Given' : g >= FirstId
      /\ \A p \in Sons : fe_local_id'[p] \in Given' \cup {0}
      /\ \A p, q \in Sons : p # q /\ fe_local_id'[p] # 0 => fe_local_id'[p] # fe_local_id'[q]
      /\ \A p \in Sons : fe_local_id'[p] # id
  BY <1>1 DEF AnswersOK, FirstId
<1>9. ASSUME NEW x \in Down, NEW j \in DOMAIN queue'[x], IsAnswer(x, j)'
      PROVE  /\ queue'[x][j].id \in Given'
             /\ \A p \in Sons : fe_local_id'[p] # queue'[x][j].id
             /\ queue'[x][j].id = id => x = m /\ j = Len(queue'[m])
  BY <1>1, <1>3, <1>7, <1>8, <1>9 DEF AnswersOK, IsAnswer
<1>10. ASSUME NEW x \in Down, NEW y \in Down,
              NEW j \in DOMAIN queue'[x], NEW k \in DOMAIN queue'[y],
              IsAnswer(x, j)', IsAnswer(y, k)', queue'[x][j].id = queue'[y][k].id
       PROVE  x = y /\ j = k
  <2>1. CASE queue'[x][j].id = id
    BY <2>1, <1>9, <1>10
  <2>2. CASE queue'[x][j].id # id
    <3>1. /\ j \in DOMAIN queue[x] /\ queue'[x][j] = queue[x][j]
          /\ k \in DOMAIN queue[y] /\ queue'[y][k] = queue[y][k]
      BY <2>2, <1>3, <1>7, <1>10
    <3> QED BY <3>1, <1>1, <1>10 DEF AnswersOK, IsAnswer
  <2> QED BY <2>1, <2>2
<1>11. AnswersOK'
  BY <1>1, <1>8, <1>9, <1>10 DEF AnswersOK
<1> QED BY <1>6, <1>11

LEMMA RegisterSonOK == ASSUME IInv, NEW l \in Link, RegisterSon(l) PROVE IInv'
<1> DEFINE p == Reader(l)
           pkt == Head(queue[l])
           id == FreeId(p, pkt.id)
           e == [id |-> id, reqid |-> pkt.req, son |-> l[2]]
<1>1. /\ Takes(l, "REGISTERSON") /\ UNCHANGED <<fe_local_id, mgr, ident, unheard>>
      /\ f_pedb' = [f_pedb EXCEPT ![p] = <<e>> \o f_pedb[p]]
  BY DEF RegisterSon
<1>2. TypeOK /\ QOK(queue) /\ p \in PE
  BY Links DEF IInv
<1>3. pkt \in LinkPacket(l) /\ pkt.cmd = "REGISTERSON"
  BY <1>1, <1>2, TakenIsFirst
<1>4. pkt \in Request /\ l \in Up
  BY <1>3 DEF LinkPacket, Answer, Hello, Request, Cpu, CfgItf
<1>5. pkt.id \in Nat /\ pkt.id >= FirstId /\ pkt.req \in Nat /\ l[2] \in Sons
  BY <1>2, <1>4, Links DEF Request
<1>6. id \in Nat /\ id >= FirstId /\ id \notin UsedIds(p)
  <2>1. id \in Nat /\ id >= pkt.id /\ id \notin UsedIds(p)
    BY <1>2, <1>5, FreeIdIsFree
  <2> HIDE DEF id, pkt
  <2> QED BY <1>5, <2>1 DEF FirstId
<1> HIDE DEF id, pkt
<1>7. e \in Entry /\ e.id = id
  BY <1>5, <1>6 DEF Entry
<1>8. f_pedb[p] \in Seq(Entry) /\ f_pedb \in [PE -> Seq(Entry)]
  BY <1>2 DEF TypeOK
<1> HIDE DEF e
<1>9. <<e>> \o f_pedb[p] \in Seq(Entry)
  BY <1>7, <1>8, PutFirst
<1>10. f_pedb' \in [PE -> Seq(Entry)] /\ f_pedb'[p] = <<e>> \o f_pedb[p]
  BY <1>1, <1>2, <1>8, <1>9
<1>11. CASE p = Root
  <2>1. Pass(l, <<"down", l[2]>>, Ack(id, pkt.req))
    BY <1>11 DEF RegisterSon, id, pkt
  <2>2. Given = {f_pedb[p][i].id : i \in DOMAIN f_pedb[p]}
    BY <1>11 DEF Given
  <2>3. Given' = {f_pedb'[p][i].id : i \in DOMAIN f_pedb'[p]}
    BY <1>11 DEF Given
  <2>4. Given' = Given \cup {id} /\ id \notin Given
    <3> DEFINE t == <<e>> \o f_pedb[p]
    <3>1. {t[i].id : i \in DOMAIN t} = {f_pedb[p][i].id : i \in DOMAIN f_pedb[p]} \cup {e.id}
      BY <1>7, <1>8, PutFirst
    <3>2. f_pedb'[p] = t
      BY <1>10
    <3> HIDE DEF t, p
    <3>3. Given' = {t[i].id : i \in DOMAIN t}
      BY <2>3, <3>2
    <3> QED BY <3>1, <3>3, <2>2, <1>6, <1>7 DEF UsedIds
  <2>5. QOK(queue') /\ SilentOK' /\ AnswersOK'
    BY <1>1, <1>4, <1>5, <1>6, <2>1, <2>4, GivenOnce
  <2>6. TypeOK'
    BY <1>1, <1>2, <1>10, <2>5 DEF TypeOK, SilentOK, QOK, Takes, mgr
  <2> QED BY <2>5, <2>6 DEF IInv
<1>12. CASE p # Root
  <2> DEFINE m == <<"up", p>>
             req == Register(id, pkt.req)
  <2>1. Pass(l, m, req)
    BY <1>12 DEF RegisterSon, id, pkt
  <2>2. m \in Link /\ m \in Up /\ m \notin Down
    BY <1>2, <1>12, Links DEF Sons
  <2>3. req \in Request /\ req.cmd # "REGISTERACK"
    BY <1>5, <1>6 DEF Register, Request
  <2>4. req \in LinkPacket(m) \cap Packet
    BY <2>2, <2>3, PacketsArePackets DEF LinkPacket
  <2>5. f_pedb'[Root] = f_pedb[Root]
    BY <1>1, <1>8, <1>12, RootAssumption
  <2> HIDE DEF m, req
  <2>6. QOK(queue') /\ SilentOK' /\ AnswersOK'
    BY <1>1, <2>1, <2>2, <2>3, <2>4, <2>5, PassAside
  <2>7. TypeOK'
    BY <1>1, <1>2, <1>10, <2>6 DEF TypeOK, SilentOK, QOK, Takes, mgr
  <2> QED BY <2>6, <2>7 DEF IInv
<1> QED BY <1>11, <1>12

\* An answer is the only one with its id: of those that stay when it is taken, none
\* has it.
LEMMA OthersDiffer ==
  ASSUME IInv, NEW l \in Down, queue[l] # <<>>, IsAnswer(l, 1),
         NEW x \in Down, NEW j \in Nat, j >= 1,
         j + Off(l, x) \in DOMAIN queue[x], IsAnswer(x, j + Off(l, x))
  PROVE  queue[x][j + Off(l, x)].id # queue[l][1].id
<1>1. queue[l] \in Seq(Packet) /\ Len(queue[l]) \in Nat /\ DOMAIN queue[l] = 1..Len(queue[l])
  BY LenProperties DEF IInv, QOK, Link
<1>2. 1 \in DOMAIN queue[l]
  BY <1>1
<1>3. ~(x = l /\ j + Off(l, x) = 1)
  BY DEF Off
<1>4. /\ TypeOK /\ \A a, b \in Down : \A i \in DOMAIN queue[a] : \A k \in DOMAIN queue[b] :
           IsAnswer(a, i) /\ IsAnswer(b, k) /\ queue[a][i].id = queue[b][k].id => a = b /\ i = k
  BY DEF IInv, AnswersOK
<1> QED BY <1>2, <1>3, <1>4

\* A FRONT-END that takes an answer for its own id.
LEMMA AckMine ==
  ASSUME IInv, NEW l \in Down, Takes(l, "REGISTERACK"), Done(l), UNCHANGED f_pedb,
         fe_local_id' = [fe_local_id EXCEPT ![l[2]] = Head(queue[l]).id]
  PROVE  QOK(queue') /\ SilentOK' /\ AnswersOK' /\ fe_local_id' \in [PE -> Nat]
<1> DEFINE p == l[2]
           g == Head(queue[l]).id
<1>1. TypeOK /\ QOK(queue) /\ AnswersOK /\ fe_local_id \in [PE -> Nat]
  BY DEF IInv, TypeOK
<1>2. l \in Link /\ p \in Sons /\ p \in PE /\ p # Root
  BY <1>1, Links
<1>3. /\ queue[l] # <<>> /\ 1 \in DOMAIN queue[l] /\ Head(queue[l]) = queue[l][1]
      /\ Head(queue[l]) \in LinkPacket(l) /\ Head(queue[l]).cmd = "REGISTERACK"
  BY <1>1, <1>2, TakenIsFirst
<1>4. IsAnswer(l, 1) /\ g = queue[l][1].id
  BY <1>3 DEF IsAnswer
<1>5. g \in Given /\ (\A q \in Sons : fe_local_id[q] # g) /\ g \in Nat
  <2>1. Head(queue[l]) \in Answer
    BY <1>3 DEF LinkPacket, Answer, Hello
  <2> QED BY <2>1, <1>1, <1>3, <1>4 DEF AnswersOK, Answer
<1>6. /\ QOK(queue') /\ SilentOK'
      /\ \A x \in Link : \A j \in DOMAIN queue'[x] :
           j + Off(l, x) \in DOMAIN queue[x] /\ queue'[x][j] = queue[x][j + Off(l, x)]
  BY <1>1, <1>2, DoneStep
<1> HIDE DEF p, g
<1>7. ASSUME NEW x \in Down, NEW j \in DOMAIN queue'[x], IsAnswer(x, j)'
      PROVE  /\ j \in Nat /\ Off(l, x) \in Nat /\ j + Off(l, x) \in DOMAIN queue[x]
             /\ IsAnswer(x, j + Off(l, x)) /\ queue'[x][j].id = queue[x][j + Off(l, x)].id
             /\ queue'[x][j].id # g
  <2>1. x \in Link /\ Off(l, x) \in Nat /\ queue'[x] \in Seq(Packet)
    BY <1>6 DEF Link, Off, QOK
  <2>2. j \in Nat /\ j >= 1
    BY <2>1, LenProperties
  <2>3. /\ j + Off(l, x) \in DOMAIN queue[x] /\ IsAnswer(x, j + Off(l, x))
        /\ queue'[x][j].id = queue[x][j + Off(l, x)].id
    BY <1>6, <1>7, <2>1 DEF IsAnswer
  <2>4. queue[x][j + Off(l, x)].id # g
    BY <1>3, <1>4, <2>2, <2>3, OthersDiffer
  <2> QED BY <2>1, <2>2, <2>3, <2>4
<1>8. /\ fe_local_id' \in [PE -> Nat] /\ fe_local_id'[p] = g
      /\ \A q \in PE : q # p => fe_local_id'[q] = fe_local_id[q]
  BY <1>1, <1>2, <1>5 DEF p, g
<1>9. Given' = Given /\ fe_local_id'[Root] \in {0, RootId} /\ \A q \in Sons : q \in PE
  BY <1>1, <1>2, <1>8, RootAssumption DEF Given, AnswersOK, Sons
<1>10. ASSUME NEW x \in Down, NEW j \in DOMAIN queue'[x], IsAnswer(x, j)'
       PROVE  /\ queue'[x][j].id \in Given'
              /\ \A q \in Sons : fe_local_id'[q] # queue'[x][j].id
  <2>1. queue'[x][j].id \in Given /\ \A q \in Sons : fe_local_id[q] # queue'[x][j].id
    BY <1>1, <1>7, <1>10 DEF AnswersOK
  <2> QED BY <2>1, <1>7, <1>8, <1>9, <1>10
<1>11. ASSUME NEW x \in Down, NEW y \in Down,
              NEW j \in DOMAIN queue'[x], NEW k \in DOMAIN queue'[y],
              IsAnswer(x, j)', IsAnswer(y, k)', queue'[x][j].id = queue'[y][k].id
       PROVE  x = y /\ j = k
  <2>1. x = y /\ j + Off(l, x) = k + Off(l, y)
    BY <1>1, <1>7, <1>11 DEF AnswersOK
  <2> QED BY <2>1, <1>7, <1>11
<1>12. \A q \in Sons : fe_local_id'[q] \in Given' \cup {0}
  BY <1>1, <1>5, <1>8, <1>9 DEF AnswersOK
<1>13. \A q, r \in Sons : q # r /\ fe_local_id'[q] # 0 => fe_local_id'[q] # fe_local_id'[r]
  BY <1>1, <1>5, <1>8, <1>9 DEF AnswersOK
<1>14. \A i \in Given' : i >= FirstId
  BY <1>1, <1>9 DEF AnswersOK
<1> HIDE DEF Given
<1>15. AnswersOK'
  BY <1>9, <1>10, <1>11, <1>12, <1>13, <1>14 DEF AnswersOK
<1> QED BY <1>6, <1>8, <1>15

\* A FRONT-END that passes an answer on to a son.
LEMMA AckPassed ==
  ASSUME IInv, NEW l \in Down, Takes(l, "REGISTERACK"), NEW m \in Down, NEW pkt \in Answer,
         pkt.id = Head(queue[l]).id, Pass(l, m, pkt),
         UNCHANGED fe_local_id, f_pedb'[Root] = f_pedb[Root]
  PROVE  QOK(queue') /\ SilentOK' /\ AnswersOK'
<1> DEFINE g == Head(queue[l]).id
<1>1. TypeOK /\ QOK(queue) /\ AnswersOK
  BY DEF IInv
<1>2. l \in Link /\ m \in Link
  BY <1>1, Links
<1>3. /\ queue[l] # <<>> /\ 1 \in DOMAIN queue[l] /\ Head(queue[l]) = queue[l][1]
      /\ Head(queue[l]).cmd = "REGISTERACK"
  BY <1>1, <1>2, TakenIsFirst
<1>4. IsAnswer(l, 1) /\ g = queue[l][1].id
  BY <1>3 DEF IsAnswer
<1>5. g \in Given /\ \A q \in Sons : fe_local_id[q] # g
  BY <1>1, <1>3, <1>4 DEF AnswersOK
<1>6. pkt \in LinkPacket(m) \cap Packet
  BY PacketsArePackets DEF LinkPacket
<1>7. /\ QOK(queue') /\ SilentOK'
      /\ \A x \in Link : \A j \in DOMAIN queue'[x] :
           \/ x = m /\ j = Len(queue'[m]) /\ queue'[x][j] = pkt
           \/ j + Off(l, x) \in DOMAIN queue[x] /\ queue'[x][j] = queue[x][j + Off(l, x)]
  BY <1>1, <1>2, <1>6, PassStep
<1> HIDE DEF g
<1>8. ASSUME NEW x \in Down, NEW j \in DOMAIN queue'[x], IsAnswer(x, j)'
      PROVE  \/ x = m /\ j = Len(queue'[m]) /\ queue'[x][j].id = g
             \/ /\ j \in Nat /\ Off(l, x) \in Nat /\ j + Off(l, x) \in DOMAIN queue[x]
                /\ IsAnswer(x, j + Off(l, x)) /\ queue'[x][j].id = queue[x][j + Off(l, x)].id
                /\ queue'[x][j].id # g
  <2>1. x \in Link /\ Off(l, x) \in Nat /\ queue'[x] \in Seq(Packet)
    BY <1>7 DEF Link, Off, QOK
  <2>2. j \in Nat /\ j >= 1
    BY <2>1, LenProperties
  <2>3. CASE x = m /\ j = Len(queue'[m]) /\ queue'[x][j] = pkt
    BY <2>3 DEF g
  <2>4. CASE j + Off(l, x) \in DOMAIN queue[x] /\ queue'[x][j] = queue[x][j + Off(l, x)]
    <3>1. IsAnswer(x, j + Off(l, x)) /\ queue'[x][j].id = queue[x][j + Off(l, x)].id
      BY <1>8, <2>4 DEF IsAnswer
    <3>2. queue[x][j + Off(l, x)].id # g
      BY <1>3, <1>4, <2>2, <2>4, <3>1, OthersDiffer
    <3> QED BY <2>1, <2>2, <2>4, <3>1, <3>2
  <2> QED BY <1>7, <2>1, <2>3, <2>4
<1>9. Given' = Given
  BY DEF Given
<1>10. ASSUME NEW x \in Down, NEW j \in DOMAIN queue'[x], IsAnswer(x, j)'
       PROVE  /\ queue'[x][j].id \in Given'
              /\ \A q \in Sons : fe_local_id'[q] # queue'[x][j].id
  BY <1>1, <1>5, <1>8, <1>9, <1>10 DEF AnswersOK
<1>11. ASSUME NEW x \in Down, NEW y \in Down,
              NEW j \in DOMAIN queue'[x], NEW k \in DOMAIN queue'[y],
              IsAnswer(x, j)', IsAnswer(y, k)', queue'[x][j].id = queue'[y][k].id
       PROVE  x = y /\ j = k
  <2>1. CASE queue'[x][j].id = g
    BY <2>1, <1>8, <1>11
  <2>2. CASE queue'[x][j].id # g
    <3>1. x = y /\ j + Off(l, x) = k + Off(l, y)
      BY <2>2, <1>1, <1>8, <1>11 DEF AnswersOK
    <3>2. j \in Nat /\ k \in Nat /\ Off(l, x) \in Nat
      BY <2>2, <1>8, <1>11
    <3> QED BY <3>1, <3>2
  <2> QED BY <2>1, <2>2
<1> HIDE DEF Given
<1>12. AnswersOK'
  BY <1>1, <1>9, <1>10, <1>11 DEF AnswersOK
<1> QED BY <1>7, <1>12

LEMMA RegisterAckOK == ASSUME IInv, NEW l \in Link, RegisterAck(l) PROVE IInv'
<1> DEFINE p == Reader(l)
           pkt == Head(queue[l])
           i == Find(f_pedb[p], "reqid", pkt.req)
           e == f_pedb[p][i]
<1>1. Takes(l, "REGISTERACK") /\ UNCHANGED <<mgr, ident, unheard>>
  BY DEF RegisterAck
<1>2. TypeOK /\ QOK(queue) /\ p \in PE /\ f_pedb \in [PE -> Seq(Entry)]
  BY Links DEF IInv, TypeOK
<1>3. pkt \in LinkPacket(l) /\ pkt.cmd = "REGISTERACK"
  BY <1>1, <1>2, TakenIsFirst
<1>4. pkt \in Answer /\ l \in Down
  BY <1>3 DEF LinkPacket, Answer, Hello, Request, Cpu, CfgItf
<1>5. p = l[2] /\ p # Root /\ pkt.id \in Nat /\ pkt.req \in Nat
  BY <1>2, <1>4, Links DEF Answer, Sons
<1>6. CASE /\ Done(l) /\ UNCHANGED f_pedb
           /\ fe_local_id' = [fe_local_id EXCEPT ![p] = pkt.id]
  <2>1. QOK(queue') /\ SilentOK' /\ AnswersOK' /\ fe_local_id' \in [PE -> Nat]
    BY <1>1, <1>4, <1>5, <1>6, AckMine
  <2>2. TypeOK'
    BY <1>1, <1>2, <1>6, <2>1 DEF TypeOK, SilentOK, QOK, Takes, mgr
  <2> QED BY <2>1, <2>2 DEF IInv
<1>7. CASE Done(l) /\ UNCHANGED fe
  <2>1. QOK(queue') /\ SilentOK' /\ AnswersOK'
    BY <1>1, <1>7, DoneAside
  <2>2. TypeOK'
    BY <1>1, <1>2, <1>7, <2>1 DEF TypeOK, SilentOK, QOK, Takes, mgr, fe
  <2> QED BY <2>1, <2>2 DEF IInv
<1>8. CASE /\ i # 0 /\ f_pedb' = [f_pedb EXCEPT ![p][i] = Assigned(e, pkt.id)]
           /\ Pass(l, <<"down", e.son>>, Ack(pkt.id, pkt.req)) /\ UNCHANGED fe_local_id
  <2> DEFINE m == <<"down", e.son>>
             ack == Ack(pkt.id, pkt.req)
  <2>1. f_pedb[p] \in Seq(Entry) /\ i \in DOMAIN f_pedb[p] /\ e \in Entry /\ e.son \in Sons
    BY <1>2, <1>8, FindFinds
  <2>2. m \in Down /\ ack \in Answer /\ ack.id = pkt.id
    BY <1>2, <1>5, <2>1, Links DEF Ack, Answer
  <2>3. Assigned(e, pkt.id) \in Entry
    BY <1>5, <2>1 DEF Assigned, Entry
  <2>4. [f_pedb[p] EXCEPT ![i] = Assigned(e, pkt.id)] \in Seq(Entry)
    <3> HIDE DEF i, e
    <3> QED BY <2>1, <2>3, ExceptSeq
  <2>5. f_pedb' \in [PE -> Seq(Entry)] /\ f_pedb'[Root] = f_pedb[Root]
    <3>1. f_pedb' = [f_pedb EXCEPT ![p] = [f_pedb[p] EXCEPT ![i] = Assigned(e, pkt.id)]]
      BY <1>8
    <3> HIDE DEF i, e, p, pkt
    <3> QED BY <3>1, <1>2, <1>5, <2>4, RootAssumption
  <2>6. Pass(l, m, ack)
    BY <1>8
  <2> HIDE DEF m, ack, e, i
  <2>7. QOK(queue') /\ SilentOK' /\ AnswersOK'
    BY <1>1, <1>4, <1>8, <2>2, <2>5, <2>6, AckPassed
  <2>8. TypeOK'
    BY <1>1, <1>2, <1>8, <2>5, <2>7 DEF TypeOK, SilentOK, QOK, Takes, mgr
  <2> QED BY <2>7, <2>8 DEF IInv
<1> QED BY <1>6, <1>7, <1>8 DEF RegisterAck

LEMMA ReportOK == ASSUME IInv, NEW p \in PE, Report(p) PROVE IInv'
<1> DEFINE pkt == AddCpu(fe_local_id[p])
<1>1. TypeOK /\ fe_local_id \in [PE -> Nat] /\ fe_local_id[Root] \in {0, RootId}
  BY DEF IInv, TypeOK, AnswersOK
<1>2. /\ reported' = reported \cup {p} /\ p \in running
      /\ UNCHANGED <<tree, started, running, silent, fe, hwman, cpus, ident, unheard>>
  BY DEF Report
<1>3. pkt \in Cpu /\ pkt.cmd = "ADDCPU"
  BY <1>1 DEF AddCpu, Cpu
<1>4. CASE p # Root /\ Send(<<"up", p>>, pkt) /\ UNCHANGED inbox
  <2> DEFINE m == <<"up", p>>
  <2>1. m \in Link /\ m \in Up /\ m \notin Down
    BY <1>1, <1>4, Links DEF Sons
  <2>2. pkt \in LinkPacket(m) \cap Packet
    BY <1>3, <2>1, PacketsArePackets DEF LinkPacket
  <2>3. Send(m, pkt)
    BY <1>4
  <2> HIDE DEF m, pkt
  <2>4. QOK(queue') /\ SilentOK' /\ AnswersOK'
    <3>1. /\ UNCHANGED <<silent, f_pedb>> /\ fe_local_id' \in [PE -> Nat]
          /\ fe_local_id'[Root] \in {0, RootId}
          /\ \A q \in Sons : fe_local_id'[q] = fe_local_id[q]
      BY <1>1, <1>2 DEF fe
    <3> QED BY <1>3, <2>1, <2>2, <2>3, <3>1, SentAside
  <2>5. TypeOK'
    BY <1>1, <1>2, <1>4, <2>4 DEF TypeOK, SilentOK, QOK, fe
  <2> QED BY <2>4, <2>5 DEF IInv
<1>5. CASE inbox' = Append(inbox, fe_local_id[p]) /\ UNCHANGED queue
  <2>1. inbox' \in Seq(Nat)
    BY <1>1, <1>5, AppendProperties DEF TypeOK
  <2>2. TypeOK'
    BY <1>1, <1>2, <1>5, <2>1 DEF TypeOK, fe
  <2>3. QOK(queue') /\ AnswersOK'
    BY <1>2, <1>5, Untouched
  <2> QED BY <2>2, <2>3 DEF IInv
<1> QED BY <1>4, <1>5 DEF Report

LEMMA HwmanStartOK == ASSUME IInv, HwmanStart PROVE IInv'
<1>1. TypeOK /\ fe_local_id \in [PE -> Nat] /\ fe_local_id[Root] \in {0, RootId}
  BY DEF IInv, TypeOK, AnswersOK
<1>2. In \in Link /\ CfgItf \in LinkPacket(In) \cap Packet /\ CfgItf.cmd # "REGISTERACK"
  BY <1>1, Links, PacketsArePackets DEF LinkPacket, CfgItf
<1>3. Send(In, CfgItf) /\ UNCHANGED <<silent, fe_local_id, f_pedb>>
  BY DEF HwmanStart, fe
<1>4. /\ fe_local_id' \in [PE -> Nat] /\ fe_local_id'[Root] \in {0, RootId}
      /\ \A q \in Sons : fe_local_id'[q] = fe_local_id[q]
  BY <1>1, <1>3
<1>5. QOK(queue') /\ SilentOK' /\ AnswersOK'
  BY <1>2, <1>3, <1>4, SentAside
<1>6. TypeOK'
  BY <1>1, <1>5 DEF TypeOK, SilentOK, QOK, HwmanStart, fe
<1> QED BY <1>5, <1>6 DEF IInv

\* The pedb of HWMAN holds what it held and the new id.
LEMMA RemovedOrPut ==
  ASSUME NEW S, NEW s \in Seq(S), NEW id \in S,
         NEW i, i = CHOOSE j \in DOMAIN s : s[j] = id
  PROVE  (IF Contains(s, id) THEN RemoveAt(s, i) ELSE <<id>> \o s) \in Seq(S)
<1>1. CASE Contains(s, id)
  <2>1. i \in 1..Len(s) /\ Len(s) \in Nat
    BY <1>1, LenProperties DEF Contains
  <2>2. \A j \in 1..(i - 1) : s[j] \in S
    BY <2>1, ElementOfSeq
  <2>3. \A j \in (i + 1)..Len(s) : s[j] \in S
    BY <2>1, ElementOfSeq
  <2>4. SubSeq(s, 1, i - 1) \in Seq(S)
    BY <2>1, <2>2, SubSeqProperties
  <2>5. SubSeq(s, i + 1, Len(s)) \in Seq(S)
    BY <2>1, <2>3, SubSeqProperties
  <2>6. RemoveAt(s, i) \in Seq(S)
    BY <2>4, <2>5, ConcatProperties DEF RemoveAt
  <2> QED BY <1>1, <2>6
<1>2. CASE ~Contains(s, id)
  <2>1. <<id>> \in Seq(S)
    OBVIOUS
  <2>2. <<id>> \o s \in Seq(S)
    BY <2>1, ConcatProperties
  <2> QED BY <1>2, <2>2
<1> QED BY <1>1, <1>2

LEMMA HwmanAddCpuOK == ASSUME IInv, HwmanAddCpu PROVE IInv'
<1> DEFINE id == Head(inbox)
           i == CHOOSE j \in DOMAIN cpus : cpus[j] = id
           all == IF Contains(cpus, id) THEN RemoveAt(cpus, i) ELSE <<id>> \o cpus
           idents == [k \in DOMAIN all |-> Ident(all[k])]
<1>1. TypeOK /\ QOK(queue) /\ inbox \in Seq(Nat) /\ cpus \in Seq(Nat) /\ inbox # <<>>
  BY DEF IInv, TypeOK, HwmanAddCpu
<1>2. /\ inbox' = Tail(inbox) /\ cpus' = all
      /\ queue' = [queue EXCEPT ![In] = queue[In] \o idents]
      /\ UNCHANGED <<tree, started, running, silent, fe, hwman, reported, ident, unheard>>
  BY DEF HwmanAddCpu
<1>3. id \in Nat /\ Tail(inbox) \in Seq(Nat)
  BY <1>1, HeadTailProperties
<1>4. all \in Seq(Nat)
  <2> HIDE DEF id
  <2> QED BY <1>1, <1>3, RemovedOrPut
<1> HIDE DEF all, id, i
<1>5. DOMAIN all = 1..Len(all) /\ Len(all) \in Nat /\ \A k \in DOMAIN all : all[k] \in Nat
  BY <1>4, LenProperties, ElementOfSeq
<1>6. idents \in Seq(Hello)
  BY <1>5 DEF Ident, Hello
<1>7. In \in Link /\ In \notin Down /\ In \notin Up
  BY <1>1, Links
<1>8. queue[In] \in Seq(Hello \cup {CfgItf})
  <2>1. queue[In] \in Seq(Packet) /\ \A j \in DOMAIN queue[In] : queue[In][j] \in Hello \cup {CfgItf}
    BY <1>1, <1>7 DEF QOK, LinkPacket
  <2> QED BY <2>1, LenProperties, SeqDef
<1> DEFINE new == queue[In] \o idents
<1> HIDE DEF idents
<1>9. /\ new \in Seq(Hello \cup {CfgItf}) /\ Len(new) = Len(queue[In]) + Len(idents)
      /\ Len(idents) \in Nat /\ Len(queue[In]) \in Nat
  <2>1. idents \in Seq(Hello \cup {CfgItf})
    BY <1>6, LenProperties, ElementOfSeq, SeqDef
  <2> QED BY <2>1, <1>8, ConcatProperties, LenProperties
<1> HIDE DEF new
<1>10. queue' = [queue EXCEPT ![In] = new]
  BY <1>2 DEF new
<1>11. \A j \in DOMAIN new : new[j] \in LinkPacket(In) /\ new[j] \in Packet
  <2>1. \A j \in DOMAIN new : new[j] \in Hello \cup {CfgItf}
    BY <1>9, LenProperties, ElementOfSeq
  <2> QED BY <2>1, <1>7, PacketsArePackets DEF LinkPacket
<1>12. new \in Seq(Packet)
  BY <1>9, <1>11, LenProperties, SeqDef
<1>13. QOK(queue')
  BY <1>1, <1>7, <1>10, <1>11, <1>12 DEF QOK
<1>14. ASSUME NEW l \in Link PROVE silent[l] <= Len(queue'[l])
  <2>1. silent[l] \in Nat /\ silent[l] <= Len(queue[l]) /\ Len(queue[l]) \in Nat
    BY <1>1, LenProperties DEF TypeOK
  <2>2. queue'[l] = IF l = In THEN new ELSE queue[l]
    BY <1>1, <1>7, <1>10 DEF TypeOK
  <2> QED BY <2>1, <2>2, <1>9
<1>15. TypeOK'
  BY <1>1, <1>2, <1>3, <1>4, <1>13, <1>14 DEF TypeOK, QOK, fe
<1>16. AnswersOK'
  <2>1. \A l \in Down : queue'[l] = queue[l]
    BY <1>1, <1>7, <1>10 DEF QOK, Link
  <2>2. UNCHANGED <<fe_local_id, f_pedb>>
    BY <1>2 DEF fe
  <2>3. Given' = Given
    BY <2>2 DEF Given
  <2>4. \A l \in Down : \A j \in DOMAIN queue'[l] : IsAnswer(l, j)' = IsAnswer(l, j)
    BY <2>1 DEF IsAnswer
  <2> QED BY <2>1, <2>2, <2>3, <2>4, <1>1 DEF IInv, AnswersOK
<1> QED BY <1>13, <1>15, <1>16 DEF IInv

LEMMA StutterOK == ASSUME IInv, UNCHANGED vars PROVE IInv'
<1>1. TypeOK'
  BY DEF IInv, TypeOK, vars, fe, mgr
<1>2. QOK(queue') /\ AnswersOK'
  BY Untouched DEF vars
<1> QED BY <1>1, <1>2 DEF IInv

LEMMA NextOK == IInv /\ [Next]_vars => IInv'
<1> SUFFICES ASSUME IInv, [Next]_vars PROVE IInv'
  OBVIOUS
<1>1. ASSUME NEW p \in PE, Start(p) \/ AddCallbacks(p) \/ Report(p) PROVE IInv'
  BY <1>1, StartOK, AddCallbacksOK, ReportOK
<1>2. ASSUME NEW l \in Link, ArriveSilently(l) \/ Handle(l) PROVE IInv'
  BY <1>2, ArriveSilentlyOK, RegisterSonOK, RegisterAckOK, CfgDaemonOK, RouteUpOK,
     RouteDownOK DEF Handle
<1>3. CASE HwmanStart \/ HwmanAddCpu
  BY <1>3, HwmanStartOK, HwmanAddCpuOK
<1>4. CASE UNCHANGED vars
  BY <1>4, StutterOK
<1> QED BY <1>1, <1>2, <1>3, <1>4 DEF Next

-----------------------------------------------------------------------------
(* The ways to the PEs.  On a narrow platform a PE is under the top one or *)
(* under one that is, which has no other.                                  *)

\* The places of a sequence that hold one of P.
Places(s, P) == {j \in DOMAIN s : s[j] \in P}

LEMMA PlacesFinite ==
  ASSUME NEW S, NEW s \in Seq(S), NEW P
  PROVE  IsFiniteSet(Places(s, P)) /\ Cardinality(Places(s, P)) \in Nat
<1>1. Len(s) \in Nat /\ DOMAIN s = 1..Len(s)
  BY LenProperties
<1>2. IsFiniteSet(1..Len(s)) /\ Places(s, P) \subseteq 1..Len(s)
  BY <1>1, FS_Interval DEF Places
<1> QED BY <1>2, FS_Subset, FS_CardinalityType

\* When the first element is taken there is one place less if it was one of P.
LEMMA PlacesTail ==
  ASSUME NEW S, NEW s \in Seq(S), s # <<>>, NEW P
  PROVE  Cardinality(Places(s, P))
           = Cardinality(Places(Tail(s), P)) + (IF Head(s) \in P THEN 1 ELSE 0)
<1> DEFINE t == Tail(s)
           A == Places(t, P)
           B == Places(s, P) \ {1}
           f == [j \in A |-> j + 1]
<1>1. /\ t \in Seq(S) /\ Len(t) = Len(s) - 1 /\ Len(s) \in Nat /\ Len(t) \in Nat
      /\ DOMAIN t = 1..Len(t) /\ DOMAIN s = 1..Len(s) /\ 1 \in DOMAIN s /\ Head(s) = s[1]
      /\ \A j \in 1..Len(t) : t[j] = s[j + 1]
  <2>1. t \in Seq(S) /\ Len(t) = Len(s) - 1 /\ \A j \in 1..Len(t) : t[j] = s[j + 1]
    BY HeadTailProperties
  <2>2. Len(s) \in Nat /\ DOMAIN s = 1..Len(s) /\ Len(t) \in Nat /\ DOMAIN t = 1..Len(t)
    BY <2>1, LenProperties
  <2>3. Len(s) # 0
    BY EmptySeq
  <2> HIDE DEF t
  <2> QED BY <2>1, <2>2, <2>3
<1> HIDE DEF t
<1>2. \A j \in A : j \in Nat /\ j \in 1..Len(t) /\ j + 1 \in B
  BY <1>1 DEF Places
<1>3. \A k \in B : k - 1 \in A /\ (k - 1) + 1 = k
  BY <1>1 DEF Places
<1>4. f \in [A -> B]
  BY <1>2
<1>5. \A j, k \in A : f[j] = f[k] => j = k
  BY <1>2
<1>6. \A k \in B : \E j \in A : f[j] = k
  BY <1>3
<1>7. IsFiniteSet(A) /\ IsFiniteSet(Places(s, P)) /\ Cardinality(A) \in Nat
      /\ Cardinality(Places(s, P)) \in Nat
  BY <1>1, PlacesFinite
<1>8. Cardinality(B) = Cardinality(A)
  <2>1. ExistsBijection(A, B)
    <3> HIDE DEF A, B, f
    <3>1. f \in Bijection(A, B)
      BY <1>4, <1>5, <1>6 DEF Bijection, Injection, Surjection, IsInjective
    <3> QED BY <3>1 DEF ExistsBijection
  <2> HIDE DEF A, B, f
  <2> QED BY <1>7, <2>1, FS_Bijection
<1>9. Cardinality(B) = IF 1 \in Places(s, P) THEN Cardinality(Places(s, P)) - 1
                                             ELSE Cardinality(Places(s, P))
  BY <1>7, FS_RemoveElement
<1>10. 1 \in Places(s, P) <=> Head(s) \in P
  BY <1>1 DEF Places
<1> HIDE DEF A, B, f
<1> QED BY <1>7, <1>8, <1>9, <1>10 DEF A, t

\* When one is put first there is one place more if it is one of P.
LEMMA PlacesFirst ==
  ASSUME NEW S, NEW s \in Seq(S), NEW e \in S, NEW P
  PROVE  Cardinality(Places(<<e>> \o s, P))
           = Cardinality(Places(s, P)) + (IF e \in P THEN 1 ELSE 0)
<1> DEFINE t == <<e>> \o s
<1>1. t \in Seq(S) /\ t # <<>> /\ Head(t) = e /\ Tail(t) = s
  <2>1. <<e>> \in Seq(S) /\ Len(<<e>>) = 1 /\ <<e>>[1] = e
    OBVIOUS
  <2>2. t \in Seq(S) /\ Len(t) = 1 + Len(s) /\ Len(s) \in Nat
        /\ \A i \in 1..(1 + Len(s)) : t[i] = IF i <= 1 THEN <<e>>[i] ELSE s[i - 1]
    BY <2>1, ConcatProperties, LenProperties
  <2> HIDE DEF t
  <2>3. t # <<>>
    BY <2>2, EmptySeq
  <2>4. Tail(t) \in Seq(S) /\ Len(Tail(t)) = Len(s)
        /\ \A i \in 1..Len(Tail(t)) : Tail(t)[i] = t[i + 1]
    BY <2>2, <2>3, HeadTailProperties
  <2>5. \A i \in 1..Len(s) : Tail(t)[i] = s[i]
    BY <2>2, <2>4
  <2>6. Tail(t) = s
    BY <2>2, <2>4, <2>5, SeqEqual
  <2>7. Head(t) = t[1] /\ t[1] = e
    BY <2>1, <2>2, <2>3
  <2> QED BY <2>2, <2>3, <2>6, <2>7
<1> HIDE DEF t
<1>2. Cardinality(Places(t, P)) = Cardinality(Places(Tail(t), P)) + (IF Head(t) \in P THEN 1 ELSE 0)
  BY <1>1, PlacesTail
<1> QED BY <1>1, <1>2 DEF t

\* And likewise when one is put last.
LEMMA PlacesLast ==
  ASSUME NEW S, NEW s \in Seq(S), NEW e \in S, NEW P
  PROVE  Cardinality(Places(Append(s, e), P))
           = Cardinality(Places(s, P)) + (IF e \in P THEN 1 ELSE 0)
<1> DEFINE n == Len(s) + 1
<1>1. /\ Append(s, e) \in Seq(S) /\ Len(s) \in Nat /\ DOMAIN s = 1..Len(s)
      /\ DOMAIN Append(s, e) = 1..n /\ Append(s, e)[n] = e
      /\ \A j \in 1..Len(s) : Append(s, e)[j] = s[j]
  <2>1. Append(s, e) \in Seq(S) /\ Len(Append(s, e)) = n /\ Append(s, e)[n] = e
        /\ \A j \in 1..Len(s) : Append(s, e)[j] = s[j]
    BY AppendProperties
  <2> QED BY <2>1, LenProperties
<1>2. Places(Append(s, e), P) = IF e \in P THEN Places(s, P) \cup {n} ELSE Places(s, P)
  BY <1>1 DEF Places
<1>3. n \notin Places(s, P)
  BY <1>1 DEF Places
<1>4. IsFiniteSet(Places(s, P)) /\ Cardinality(Places(s, P)) \in Nat
  BY PlacesFinite
<1>5. Cardinality(Places(s, P) \cup {n}) = Cardinality(Places(s, P)) + 1
  BY <1>3, <1>4, FS_AddElement
<1> HIDE DEF n
<1> QED BY <1>2, <1>4, <1>5

-----------------------------------------------------------------------------
\* The requests on their way up from p, and the entries of the top FRONT-END that
\* lead to p.
Asks(q, p) == Places(q[<<"up", p>>], Request)
Ents(p)    == Places(f_pedb[Root], {e \in Entry : e.son = p})
Own(p)     == IF p \in started THEN 1 ELSE 0

\* q has the id g, or it is on its way to q.
Has(q, g) ==
  \/ fe_local_id[q] = g
  \/ \E j \in DOMAIN queue[<<"down", q>>] :
       IsAnswer(<<"down", q>>, j) /\ queue[<<"down", q>>][j].id = g
Top(p) == IF tree[p] = Root THEN p ELSE tree[p]

\* The first step of the way to a PE is right, the second is, and each FRONT-END has
\* asked for itself once and for those under it as often as they have asked.
FirstHop ==
  \A q \in Sons : \A g \in Given : Has(q, g) =>
    \A i \in DOMAIN f_pedb[Root] : f_pedb[Root][i].id = g => f_pedb[Root][i].son = Top(q)
SecondHop ==
  \A q \in Sons : \A g \in Given : Has(q, g) /\ tree[q] # Root =>
    /\ fe_local_id[tree[q]] # 0
    /\ \E i \in DOMAIN f_pedb[tree[q]] : f_pedb[tree[q]][i].id = g
AsksOK ==
  \A p \in Sons :
    IF tree[p] = Root
    THEN Cardinality(Asks(queue, p)) + Cardinality(Ents(p)) <= Own(p) + Len(f_pedb[p])
    ELSE Cardinality(Asks(queue, p)) + Len(f_pedb[tree[p]]) <= Own(p)

\* An entry is about a PE right below, and no PE without id is reported to HWMAN.
Below  == \A p \in PE : \A i \in DOMAIN f_pedb[p] : tree[f_pedb[p][i].son] = p
NoZero ==
  /\ \A k \in DOMAIN inbox : inbox[k] # 0
  /\ \A k \in DOMAIN cpus : cpus[k] # 0
  /\ \A l \in Link : \A j \in DOMAIN queue[l] : queue[l][j].cmd = "ADDCPU" => queue[l][j].id # 0

Ways == FirstHop /\ SecondHop /\ AsksOK
RInv == Below /\ NoZero /\ (Narrow => Ways)

\* On a narrow platform what is below a PE that is not the top one is a leaf.
LEMMA NarrowTwo ==
  ASSUME TypeOK, Narrow, NEW q \in Sons, tree[q] # Root
  PROVE  /\ tree[q] \in Sons /\ tree[tree[q]] = Root /\ tree[q] # q
         /\ \A s \in Sons : tree[s] = tree[q] => s = q
         /\ \A s \in Sons : tree[s] # q
<1>1. tree \in [Sons -> PE]
  BY TreeAssumption DEF TypeOK
<1>2. tree[q] \in Sons
  BY <1>1 DEF Sons
<1>3. \A s \in Sons : tree[s] # q
  BY DEF Narrow
<1>4. \A s \in Sons : tree[s] = tree[q] => s = q
  BY DEF Narrow
<1>5. ASSUME tree[tree[q]] # Root PROVE FALSE
  <2>1. \A s \in Sons : tree[s] # tree[q]
    BY <1>2, <1>5 DEF Narrow
  <2> QED BY <2>1
<1> QED BY <1>2, <1>3, <1>4, <1>5

\* How many requests are on their way from p when a packet is put into a queue and
\* when the first is taken.
LEMMA AsksAdded ==
  ASSUME TypeOK, NEW q, QOK(q), NEW m \in Link, NEW pkt \in Packet, NEW p \in Sons
  PROVE  /\ Cardinality(Asks(q, p)) \in Nat
         /\ Cardinality(Asks(Added(q, m, pkt), p))
              = Cardinality(Asks(q, p)) + (IF m = <<"up", p>> /\ pkt \in Request THEN 1 ELSE 0)
<1> DEFINE u == <<"up", p>>
<1>1. u \in Link /\ q \in [Link -> Seq(Packet)] /\ q[u] \in Seq(Packet)
  BY Links DEF QOK
<1>2. Cardinality(Asks(q, p)) \in Nat
  BY <1>1, PlacesFinite DEF Asks
<1>3. Added(q, m, pkt)[u] = IF m = u THEN Append(q[u], pkt) ELSE q[u]
  BY <1>1 DEF Added
<1>4. Cardinality(Places(Append(q[u], pkt), Request))
        = Cardinality(Places(q[u], Request)) + (IF pkt \in Request THEN 1 ELSE 0)
  BY <1>1, PlacesLast
<1> HIDE DEF u
<1>5. CASE m = u
  BY <1>2, <1>3, <1>4, <1>5 DEF Asks, u
<1>6. CASE m # u
  BY <1>2, <1>3, <1>6 DEF Asks, u
<1> QED BY <1>2, <1>5, <1>6 DEF u

LEMMA AsksRemoved ==
  ASSUME TypeOK, NEW q, QOK(q), NEW l \in Link, q[l] # <<>>, NEW p \in Sons
  PROVE  /\ Cardinality(Asks(q, p)) \in Nat /\ Cardinality(Asks(Removed(q, l), p)) \in Nat
         /\ Cardinality(Asks(q, p)) = Cardinality(Asks(Removed(q, l), p))
              + (IF l = <<"up", p>> /\ Head(q[l]) \in Request THEN 1 ELSE 0)
<1> DEFINE u == <<"up", p>>
<1>1. u \in Link /\ q \in [Link -> Seq(Packet)] /\ q[u] \in Seq(Packet)
  BY Links DEF QOK
<1>2. QOK(Removed(q, l))
  BY Taking
<1>3. Cardinality(Asks(q, p)) \in Nat /\ Cardinality(Asks(Removed(q, l), p)) \in Nat
  BY <1>1, <1>2, PlacesFinite DEF Asks, QOK
<1>4. Removed(q, l)[u] = IF l = u THEN Tail(q[u]) ELSE q[u]
  BY <1>1 DEF Removed
<1>5. CASE l = u
  <2>1. Cardinality(Places(q[u], Request))
        = Cardinality(Places(Tail(q[u]), Request)) + (IF Head(q[u]) \in Request THEN 1 ELSE 0)
    BY <1>1, <1>5, PlacesTail
  <2> HIDE DEF u
  <2> QED BY <1>3, <1>4, <1>5, <2>1 DEF Asks, u
<1>6. CASE l # u
  <2> HIDE DEF u
  <2> QED BY <1>3, <1>4, <1>6 DEF Asks, u
<1> QED BY <1>5, <1>6

\* Entries of a FRONT-END and requests are numbers that can be added up.
LEMMA AsksNat ==
  ASSUME TypeOK, QOK(queue), NEW p \in Sons
  PROVE  /\ Cardinality(Asks(queue, p)) \in Nat
         /\ IsFiniteSet(Ents(p)) /\ Cardinality(Ents(p)) \in Nat
         /\ \A x \in PE : Len(f_pedb[x]) \in Nat
         /\ Own(p) \in {0, 1}
<1>1. f_pedb \in [PE -> Seq(Entry)]
  BY DEF TypeOK
<1>2. \A x \in PE : Len(f_pedb[x]) \in Nat
  BY <1>1, LenProperties
<1>3. IsFiniteSet(Ents(p)) /\ Cardinality(Ents(p)) \in Nat
  BY <1>1, RootAssumption, PlacesFinite DEF Ents
<1>4. <<"up", p>> \in Link
  BY Links
<1>5. Cardinality(Asks(queue, p)) \in Nat
  BY <1>4, PlacesFinite DEF QOK, Asks
<1> QED BY <1>2, <1>3, <1>5 DEF Own

\* The ways stay as they are when no id gets anywhere and nothing is asked for.
LEMMA WaysKept ==
  ASSUME IInv, IInv', Narrow, Ways, UNCHANGED <<tree, f_pedb>>, started \subseteq started',
         \A q \in Sons : \A g \in Given : Has(q, g)' => Has(q, g),
         \A p \in Sons : fe_local_id[p] # 0 => fe_local_id'[p] # 0,
         \A p \in Sons : \/ Cardinality(Asks(queue', p)) <= Cardinality(Asks(queue, p))
                         \/ /\ p \notin started /\ p \in started'
                            /\ Cardinality(Asks(queue', p)) = Cardinality(Asks(queue, p)) + 1
  PROVE  Ways'
<1>1. Given' = Given /\ \A q : Top(q)' = Top(q) /\ Ents(q)' = Ents(q)
  BY DEF Given, Top, Ents
<1>2. FirstHop'
  BY <1>1 DEF FirstHop, Ways
<1>3. SecondHop'
  <2> SUFFICES ASSUME NEW q \in Sons, NEW g \in Given, Has(q, g)', tree[q] # Root
               PROVE  /\ fe_local_id'[tree[q]] # 0
                      /\ \E i \in DOMAIN f_pedb[tree[q]] : f_pedb[tree[q]][i].id = g
    BY <1>1 DEF SecondHop
  <2>1. tree[q] \in Sons
    BY NarrowTwo DEF IInv
  <2> QED BY <2>1 DEF SecondHop, Ways
<1>4. AsksOK'
  <2> SUFFICES ASSUME NEW p \in Sons
               PROVE  IF tree[p] = Root
                      THEN Cardinality(Asks(queue', p)) + Cardinality(Ents(p)) <= Own(p)' + Len(f_pedb[p])
                      ELSE Cardinality(Asks(queue', p)) + Len(f_pedb[tree[p]]) <= Own(p)'
    BY <1>1 DEF AsksOK, Asks
  <2> DEFINE a == Cardinality(Asks(queue, p))
             b == Cardinality(Asks(queue', p))
             e == Cardinality(Ents(p))
             n == Len(f_pedb[p])
             k == Len(f_pedb[tree[p]])
  <2>1. a \in Nat /\ e \in Nat /\ n \in Nat /\ Own(p) \in {0, 1}
    BY AsksNat DEF IInv, Sons
  <2>2. b \in Nat /\ Own(p)' \in {0, 1}
    <3>1. TypeOK' /\ QOK(queue') /\ <<"up", p>> \in Link
      BY Links DEF IInv
    <3>2. queue'[<<"up", p>>] \in Seq(Packet)
      BY <3>1 DEF QOK
    <3> QED BY <3>2, PlacesFinite DEF Asks, Own
  <2>3. k \in Nat
    <3>1. tree[p] \in PE
      BY TreeAssumption DEF IInv, TypeOK
    <3> QED BY <3>1, AsksNat DEF IInv
  <2>4. b + Own(p) <= a + Own(p)'
    <3>1. p \in started => p \in started'
      OBVIOUS
    <3>2. CASE b <= a
      BY <2>1, <2>2, <3>1, <3>2 DEF Own
    <3>3. CASE p \notin started /\ p \in started' /\ b = a + 1
      BY <2>1, <2>2, <3>3 DEF Own
    <3> QED BY <3>2, <3>3
  <2>5. IF tree[p] = Root THEN a + e <= Own(p) + n ELSE a + k <= Own(p)
    BY DEF Ways, AsksOK
  <2> DEFINE o == Own(p)
             o1 == Own(p)'
  <2> HIDE DEF a, b, e, n, k, o, o1
  <2>6. CASE tree[p] = Root
    <3>1. b + e <= o1 + n
      BY <2>1, <2>2, <2>4, <2>5, <2>6 DEF o, o1
    <3> QED BY <2>6, <3>1 DEF b, e, n, o1
  <2>7. CASE tree[p] # Root
    <3>1. b + k <= o1
      BY <2>1, <2>2, <2>3, <2>4, <2>5, <2>7 DEF o, o1
    <3> QED BY <2>7, <3>1 DEF b, k, o1
  <2> QED BY <2>6, <2>7
<1> QED BY <1>2, <1>3, <1>4 DEF Ways

\* No id gets anywhere when the answers only move.
LEMMA HasMoved ==
  ASSUME NEW d, NEW q \in Sons, NEW g, g # 0 , Has(q, g)',
         fe_local_id'[q] = fe_local_id[q] \/ Has(q, fe_local_id'[q]),
         \A x \in Down : \A j \in DOMAIN queue'[x] : IsAnswer(x, j)' =>
            j + d[x] \in DOMAIN queue[x] /\ queue'[x][j] = queue[x][j + d[x]]
  PROVE  Has(q, g)
<1> DEFINE x == <<"down", q>>
<1>1. x \in Down
  BY DEF Down
<1>2. CASE fe_local_id'[q] = g
  BY <1>2 DEF Has
<1>3. ASSUME NEW j \in DOMAIN queue'[x], IsAnswer(x, j)', queue'[x][j].id = g
      PROVE  Has(q, g)
  <2>1. j + d[x] \in DOMAIN queue[x] /\ queue'[x][j] = queue[x][j + d[x]]
    BY <1>1, <1>3
  <2>2. IsAnswer(x, j + d[x]) /\ queue[x][j + d[x]].id = g
    BY <1>3, <2>1 DEF IsAnswer
  <2> QED BY <2>1, <2>2 DEF Has
<1> QED BY <1>2, <1>3 DEF Has

\* A step that leaves the interfaces between FRONT-ENDs alone.
LEMMA StillWays ==
  ASSUME IInv, IInv', RInv, UNCHANGED <<tree, f_pedb>>, started \subseteq started',
         \A q \in Sons : fe_local_id'[q] = fe_local_id[q],
         \A l \in Down \cup Up : queue'[l] = queue[l]
  PROVE  Below' /\ (Narrow => Ways')
<1>1. Below'
  BY DEF RInv, Below
<1>2. ASSUME NEW q \in Sons, NEW g, Has(q, g)'
      PROVE  Has(q, g)
  BY <1>2, Links DEF IInv, Has, IsAnswer
<1>3. \A p \in Sons : Cardinality(Asks(queue', p)) <= Cardinality(Asks(queue, p))
  <2> SUFFICES ASSUME NEW p \in Sons
               PROVE  Cardinality(Asks(queue', p)) <= Cardinality(Asks(queue, p))
    OBVIOUS
  <2>1. Asks(queue', p) = Asks(queue, p)
    BY Links DEF IInv, Asks
  <2>2. Cardinality(Asks(queue, p)) \in Nat
    BY AsksNat DEF IInv
  <2> QED BY <2>1, <2>2
<1>4. Narrow => Ways'
  BY <1>2, <1>3, WaysKept DEF RInv
<1> QED BY <1>1, <1>4

\* A packet is taken and not passed on.
LEMMA DoneWays ==
  ASSUME IInv, IInv', RInv, UNCHANGED f_pedb, NEW l \in Link, NEW cmd, Takes(l, cmd), Done(l),
         \A q \in Sons : fe_local_id[q] # 0 => fe_local_id'[q] # 0,
         \A q \in Sons : fe_local_id'[q] = fe_local_id[q] \/ Has(q, fe_local_id'[q])
  PROVE  /\ Below' /\ (Narrow => Ways')
         /\ \A x \in Link : \A j \in DOMAIN queue'[x] :
              queue'[x][j].cmd = "ADDCPU" => queue'[x][j].id # 0
<1>1. TypeOK /\ QOK(queue) /\ UNCHANGED <<tree, started>>
  BY DEF IInv, Takes
<1>2. Below'
  BY <1>1 DEF RInv, Below
<1>3. \A x \in Link : \A j \in DOMAIN queue'[x] :
         j + Off(l, x) \in DOMAIN queue[x] /\ queue'[x][j] = queue[x][j + Off(l, x)]
  BY <1>1, DoneStep
<1> DEFINE d == [x \in Link |-> Off(l, x)]
<1>4. \A x \in Down : \A j \in DOMAIN queue'[x] :
         j + d[x] \in DOMAIN queue[x] /\ queue'[x][j] = queue[x][j + d[x]]
  BY <1>3 DEF Link
<1>5. ASSUME NEW q \in Sons, NEW g \in Given, Has(q, g)'
      PROVE  Has(q, g)
  <2>1. g # 0
    BY DEF IInv, AnswersOK, FirstId
  <2> HIDE DEF d
  <2> QED BY <1>4, <1>5, <2>1, HasMoved
<1>6. \A p \in Sons : Cardinality(Asks(queue', p)) <= Cardinality(Asks(queue, p))
  <2> SUFFICES ASSUME NEW p \in Sons
               PROVE  Cardinality(Asks(queue', p)) <= Cardinality(Asks(queue, p))
    OBVIOUS
  <2>1. queue[l] # <<>> /\ queue' = Removed(queue, l)
    BY <1>1, TakenIsFirst DEF Done
  <2> QED BY <1>1, <2>1, AsksRemoved
<1>7. Narrow => Ways'
  BY <1>1, <1>5, <1>6, WaysKept DEF RInv
<1>8. \A x \in Link : \A j \in DOMAIN queue'[x] :
         queue'[x][j].cmd = "ADDCPU" => queue'[x][j].id # 0
  BY <1>3 DEF RInv, NoZero
<1> QED BY <1>2, <1>7, <1>8

\* A packet that is no answer and no request is passed on.
LEMMA PassWays ==
  ASSUME IInv, IInv', RInv, UNCHANGED fe, NEW l \in Link, NEW cmd, Takes(l, cmd),
         NEW m \in Link, NEW pkt \in LinkPacket(m) \cap Packet, Pass(l, m, pkt),
         pkt.cmd # "REGISTERACK", pkt.cmd # "REGISTERSON", pkt.cmd = "ADDCPU" => pkt.id # 0
  PROVE  /\ Below' /\ (Narrow => Ways')
         /\ \A x \in Link : \A j \in DOMAIN queue'[x] :
              queue'[x][j].cmd = "ADDCPU" => queue'[x][j].id # 0
<1>1. TypeOK /\ QOK(queue) /\ UNCHANGED <<tree, started, fe_local_id, f_pedb>>
  BY DEF IInv, Takes, fe
<1>2. Below'
  BY <1>1 DEF RInv, Below
<1>3. \A x \in Link : \A j \in DOMAIN queue'[x] :
         \/ x = m /\ j = Len(queue'[m]) /\ queue'[x][j] = pkt
         \/ j + Off(l, x) \in DOMAIN queue[x] /\ queue'[x][j] = queue[x][j + Off(l, x)]
  BY <1>1, PassStep
<1> DEFINE d == [x \in Link |-> Off(l, x)]
<1>4. \A x \in Down : \A j \in DOMAIN queue'[x] : IsAnswer(x, j)' =>
         j + d[x] \in DOMAIN queue[x] /\ queue'[x][j] = queue[x][j + d[x]]
  BY <1>3 DEF Link, IsAnswer
<1>5. ASSUME NEW q \in Sons, NEW g \in Given, Has(q, g)'
      PROVE  Has(q, g)
  <2>1. g # 0
    BY DEF IInv, AnswersOK, FirstId
  <2> HIDE DEF d
  <2> QED BY <1>1, <1>4, <1>5, <2>1, HasMoved
<1>6. \A p \in Sons : Cardinality(Asks(queue', p)) <= Cardinality(Asks(queue, p))
  <2> SUFFICES ASSUME NEW p \in Sons
               PROVE  Cardinality(Asks(queue', p)) <= Cardinality(Asks(queue, p))
    OBVIOUS
  <2> DEFINE r == Removed(queue, l)
  <2>1. queue[l] # <<>> /\ queue' = Added(r, m, pkt) /\ QOK(r)
    BY <1>1, TakenIsFirst, Taking DEF Pass
  <2>2. pkt \notin Request
    BY DEF Request
  <2>3. Cardinality(Asks(r, p)) \in Nat /\ Cardinality(Asks(r, p)) <= Cardinality(Asks(queue, p))
    BY <1>1, <2>1, AsksRemoved
  <2> HIDE DEF r
  <2>4. Cardinality(Asks(queue', p)) = Cardinality(Asks(r, p))
    BY <1>1, <2>1, <2>2, <2>3, AsksAdded
  <2> QED BY <2>3, <2>4
<1>7. Narrow => Ways'
  BY <1>1, <1>5, <1>6, WaysKept DEF RInv
<1>8. \A x \in Link : \A j \in DOMAIN queue'[x] :
         queue'[x][j].cmd = "ADDCPU" => queue'[x][j].id # 0
  BY <1>3 DEF RInv, NoZero
<1> QED BY <1>2, <1>7, <1>8

\* A packet is sent: no answer, and a request only when a FRONT-END starts.
LEMMA SendWays ==
  ASSUME IInv, IInv', RInv, UNCHANGED <<tree, silent, f_pedb, fe_local_id>>,
         started \subseteq started',
         NEW m \in Link, NEW pkt \in LinkPacket(m) \cap Packet, Send(m, pkt),
         pkt.cmd # "REGISTERACK", pkt.cmd = "ADDCPU" => pkt.id # 0,
         \/ pkt.cmd # "REGISTERSON"
         \/ m[2] \notin started /\ m[2] \in started'
  PROVE  /\ Below' /\ (Narrow => Ways')
         /\ \A x \in Link : \A j \in DOMAIN queue'[x] :
              queue'[x][j].cmd = "ADDCPU" => queue'[x][j].id # 0
<1>1. TypeOK /\ QOK(queue)
  BY DEF IInv
<1>2. Below'
  BY DEF RInv, Below
<1>3. \A x \in Link : \A j \in DOMAIN queue'[x] :
         \/ x = m /\ j = Len(queue'[m]) /\ queue'[x][j] = pkt
         \/ j \in DOMAIN queue[x] /\ queue'[x][j] = queue[x][j]
  BY <1>1, SendStep
<1>4. ASSUME NEW q \in Sons, NEW g, Has(q, g)'
      PROVE  Has(q, g)
  <2>1. <<"down", q>> \in Link
    BY <1>1, Links
  <2> QED BY <1>3, <1>4, <2>1 DEF Has, IsAnswer
<1>5. ASSUME NEW p \in Sons
      PROVE  \/ Cardinality(Asks(queue', p)) <= Cardinality(Asks(queue, p))
             \/ /\ p \notin started /\ p \in started'
                /\ Cardinality(Asks(queue', p)) = Cardinality(Asks(queue, p)) + 1
  <2>1. /\ Cardinality(Asks(queue, p)) \in Nat
        /\ Cardinality(Asks(queue', p))
              = Cardinality(Asks(queue, p)) + (IF m = <<"up", p>> /\ pkt \in Request THEN 1 ELSE 0)
    BY <1>1, AsksAdded DEF Send
  <2>2. CASE m = <<"up", p>> /\ pkt \in Request
    BY <2>1, <2>2 DEF Request
  <2>3. CASE ~(m = <<"up", p>> /\ pkt \in Request)
    BY <2>1, <2>3
  <2> QED BY <2>2, <2>3
<1>6. Narrow => Ways'
  BY <1>4, <1>5, WaysKept DEF RInv
<1>7. \A x \in Link : \A j \in DOMAIN queue'[x] :
         queue'[x][j].cmd = "ADDCPU" => queue'[x][j].id # 0
  BY <1>3 DEF RInv, NoZero
<1> QED BY <1>2, <1>6, <1>7

-----------------------------------------------------------------------------
(* The steps keep the ways.                                                *)

LEMMA Together == ASSUME UNCHANGED tree, Below', NoZero', Narrow => Ways' PROVE RInv'
BY DEF RInv, Narrow

\* Set_put: the entry is the first, and the others follow it.
LEMMA PutFirstAt ==
  ASSUME NEW s \in Seq(Entry), NEW e \in Entry, NEW t, t = <<e>> \o s
  PROVE  /\ t \in Seq(Entry) /\ Len(s) \in Nat /\ Len(t) = Len(s) + 1 /\ 1 \in DOMAIN t /\ t[1] = e
         /\ \A i \in DOMAIN s : i + 1 \in DOMAIN t /\ t[i + 1] = s[i]
         /\ \A i \in DOMAIN t : i # 1 => i - 1 \in DOMAIN s /\ t[i] = s[i - 1]
<1>1. <<e>> \in Seq(Entry) /\ Len(<<e>>) = 1 /\ <<e>>[1] = e
  OBVIOUS
<1>2. t \in Seq(Entry) /\ Len(t) = 1 + Len(s)
      /\ \A i \in 1..(1 + Len(s)) : t[i] = IF i <= 1 THEN <<e>>[i] ELSE s[i - 1]
  BY <1>1, ConcatProperties
<1>3. Len(s) \in Nat /\ DOMAIN s = 1..Len(s) /\ DOMAIN t = 1..(1 + Len(s))
  BY <1>2, LenProperties
<1> QED BY <1>1, <1>2, <1>3

LEMMA StartWays == ASSUME IInv, IInv', RInv, NEW p \in PE, Start(p) PROVE RInv'
<1>1. /\ started' = started \cup {p} /\ p \notin started
      /\ UNCHANGED <<tree, silent, f_pedb, inbox, cpus>>
  BY DEF Start, mgr
<1>2. CASE p = Root
  <2>1. UNCHANGED queue /\ fe_local_id' = [fe_local_id EXCEPT ![Root] = RootId]
    BY <1>2 DEF Start
  <2>2. \A q \in Sons : fe_local_id'[q] = fe_local_id[q]
    BY <2>1 DEF Sons, IInv, TypeOK
  <2>3. Below' /\ (Narrow => Ways')
    BY <1>1, <2>1, <2>2, StillWays
  <2>4. NoZero'
    BY <1>1, <2>1 DEF RInv, NoZero
  <2> QED BY <1>1, <2>3, <2>4, Together
<1>3. CASE p # Root
  <2> DEFINE m == <<"up", p>>
             pkt == Register(FirstId, FirstId)
  <2>1. Send(m, pkt) /\ UNCHANGED fe_local_id
    BY <1>3 DEF Start
  <2>2. m \in Link /\ m \in Up /\ m \notin Down /\ m[2] = p
    BY <1>3, Links DEF Sons, IInv
  <2>3. pkt \in Request /\ pkt.cmd = "REGISTERSON"
    BY DEF Register, Request, FirstId
  <2>4. pkt \in LinkPacket(m) \cap Packet
    BY <2>2, <2>3, PacketsArePackets DEF LinkPacket
  <2> HIDE DEF m, pkt
  <2>5. /\ Below' /\ (Narrow => Ways')
        /\ \A x \in Link : \A j \in DOMAIN queue'[x] :
             queue'[x][j].cmd = "ADDCPU" => queue'[x][j].id # 0
    BY <1>1, <2>1, <2>2, <2>3, <2>4, SendWays
  <2>6. NoZero'
    BY <1>1, <2>5 DEF RInv, NoZero
  <2> QED BY <1>1, <2>5, <2>6, Together
<1> QED BY <1>2, <1>3

LEMMA AsideWays ==
  ASSUME IInv, IInv', RInv, UNCHANGED <<tree, started, fe, queue, inbox, cpus>>
  PROVE  RInv'
<1>1. Below' /\ (Narrow => Ways')
  BY StillWays DEF fe
<1>2. NoZero'
  BY DEF RInv, NoZero
<1> QED BY <1>1, <1>2, Together

LEMMA ReportWays == ASSUME IInv, IInv', RInv, NEW p \in PE, Report(p) PROVE RInv'
<1> DEFINE pkt == AddCpu(fe_local_id[p])
<1>1. /\ TypeOK /\ fe_local_id[p] \in Nat /\ fe_local_id[p] # 0
      /\ UNCHANGED <<tree, started, silent, fe_local_id, f_pedb, cpus>>
  BY DEF IInv, TypeOK, Report, fe
<1>2. CASE p # Root /\ Send(<<"up", p>>, pkt) /\ UNCHANGED inbox
  <2> DEFINE m == <<"up", p>>
  <2>1. m \in Link /\ m \in Up /\ m \notin Down
    BY <1>1, <1>2, Links DEF Sons
  <2>2. pkt \in Cpu /\ pkt.cmd = "ADDCPU" /\ pkt.id # 0
    BY <1>1 DEF AddCpu, Cpu
  <2>3. pkt \in LinkPacket(m) \cap Packet
    BY <2>1, <2>2, PacketsArePackets DEF LinkPacket
  <2>4. Send(m, pkt)
    BY <1>2
  <2> HIDE DEF m, pkt
  <2>5. /\ Below' /\ (Narrow => Ways')
        /\ \A x \in Link : \A j \in DOMAIN queue'[x] :
             queue'[x][j].cmd = "ADDCPU" => queue'[x][j].id # 0
    BY <1>1, <2>1, <2>2, <2>3, <2>4, SendWays
  <2>6. NoZero'
    BY <1>1, <1>2, <2>5 DEF RInv, NoZero
  <2> QED BY <1>1, <2>5, <2>6, Together
<1>3. CASE inbox' = Append(inbox, fe_local_id[p]) /\ UNCHANGED queue
  <2>1. Below' /\ (Narrow => Ways')
    BY <1>1, <1>3, StillWays
  <2>2. \A k \in DOMAIN inbox' : inbox'[k] # 0
    <3>1. inbox \in Seq(Nat)
      BY <1>1 DEF TypeOK
    <3>2. DOMAIN inbox = 1..Len(inbox) /\ Len(inbox) \in Nat /\ DOMAIN inbox' = 1..(Len(inbox) + 1)
          /\ inbox'[Len(inbox) + 1] = fe_local_id[p]
          /\ \A k \in 1..Len(inbox) : inbox'[k] = inbox[k]
      BY <1>1, <1>3, <3>1, AppendProperties, LenProperties
    <3> QED BY <1>1, <3>2 DEF RInv, NoZero
  <2>3. NoZero'
    BY <1>1, <1>3, <2>2 DEF RInv, NoZero
  <2> QED BY <1>1, <2>1, <2>3, Together
<1> QED BY <1>2, <1>3 DEF Report

LEMMA HwmanStartWays == ASSUME IInv, IInv', RInv, HwmanStart PROVE RInv'
<1>1. UNCHANGED <<tree, started, silent, fe_local_id, f_pedb, inbox, cpus>> /\ Send(In, CfgItf)
  BY DEF HwmanStart, fe
<1>2. In \in Link /\ CfgItf \in LinkPacket(In) \cap Packet /\ CfgItf.cmd = "CFGITF"
  BY Links, PacketsArePackets DEF IInv, LinkPacket, CfgItf
<1>3. /\ Below' /\ (Narrow => Ways')
      /\ \A x \in Link : \A j \in DOMAIN queue'[x] :
           queue'[x][j].cmd = "ADDCPU" => queue'[x][j].id # 0
  BY <1>1, <1>2, SendWays
<1>4. NoZero'
  BY <1>1, <1>3 DEF RInv, NoZero
<1> QED BY <1>1, <1>3, <1>4, Together

LEMMA HwmanAddCpuWays == ASSUME IInv, IInv', RInv, HwmanAddCpu PROVE RInv'
<1> DEFINE id == Head(inbox)
           P == Nat \ {0}
<1>1. /\ TypeOK /\ inbox \in Seq(Nat) /\ cpus \in Seq(Nat) /\ inbox # <<>>
      /\ inbox' = Tail(inbox) /\ UNCHANGED <<tree, started, fe_local_id, f_pedb>>
  BY DEF IInv, TypeOK, HwmanAddCpu, fe
<1>2. inbox \in Seq(P) /\ cpus \in Seq(P)
  <2>1. ASSUME NEW s \in Seq(Nat), \A k \in DOMAIN s : s[k] # 0
        PROVE  s \in Seq(P)
    <3>1. Len(s) \in Nat /\ DOMAIN s = 1..Len(s) /\ \A k \in 1..Len(s) : s[k] \in P
      BY <2>1, LenProperties, ElementOfSeq
    <3> QED BY <2>1, <3>1, SeqDef
  <2> QED BY <1>1, <2>1 DEF RInv, NoZero
<1>3. id \in P /\ inbox' \in Seq(P)
  BY <1>1, <1>2, HeadTailProperties
<1>4. cpus' \in Seq(P)
  <2> DEFINE i == CHOOSE j \in DOMAIN cpus : cpus[j] = id
  <2>1. cpus' = IF Contains(cpus, id) THEN RemoveAt(cpus, i) ELSE <<id>> \o cpus
    BY DEF HwmanAddCpu
  <2> HIDE DEF P, id
  <2> QED BY <1>2, <1>3, <2>1, RemovedOrPut
<1>5. \A x \in Down \cup Up : queue'[x] = queue[x]
  BY <1>1, Links DEF HwmanAddCpu, TypeOK
<1>6. Below' /\ (Narrow => Ways')
  BY <1>1, <1>5, StillWays
<1>7. ASSUME NEW x \in Link, NEW j \in DOMAIN queue'[x], queue'[x][j].cmd = "ADDCPU"
      PROVE  queue'[x][j].id # 0
  <2>1. CASE x \in Down \cup Up
    BY <1>5, <1>7, <2>1 DEF RInv, NoZero
  <2>2. CASE x \notin Down \cup Up
    <3>1. queue'[x][j] \in Hello \cup {CfgItf}
      BY <2>2 DEF IInv, QOK, LinkPacket
    <3> QED BY <1>7, <3>1 DEF Hello, CfgItf
  <2> QED BY <2>1, <2>2
<1>8. (\A k \in DOMAIN inbox' : inbox'[k] # 0) /\ \A k \in DOMAIN cpus' : cpus'[k] # 0
  BY <1>3, <1>4, LenProperties, ElementOfSeq
<1>9. NoZero'
  BY <1>7, <1>8 DEF NoZero
<1> QED BY <1>1, <1>6, <1>9, Together

LEMMA CfgDaemonWays == ASSUME IInv, IInv', RInv, NEW l \in Link, CfgDaemon(l) PROVE RInv'
<1>1. UNCHANGED <<tree, fe_local_id, f_pedb, inbox, cpus>> /\ Takes(l, "CFGITF") /\ Done(l)
  BY DEF CfgDaemon, fe, Takes
<1>2. /\ Below' /\ (Narrow => Ways')
      /\ \A x \in Link : \A j \in DOMAIN queue'[x] :
           queue'[x][j].cmd = "ADDCPU" => queue'[x][j].id # 0
  BY <1>1, DoneWays
<1>3. NoZero'
  BY <1>1, <1>2 DEF RInv, NoZero
<1> QED BY <1>1, <1>2, <1>3, Together

LEMMA RouteUpWays == ASSUME IInv, IInv', RInv, NEW l \in Link, RouteUp(l) PROVE RInv'
<1> DEFINE p == Reader(l)
           pkt == Head(queue[l])
<1>1. /\ Takes(l, "ADDCPU") /\ UNCHANGED <<tree, fe, fe_local_id, f_pedb, cpus>>
      /\ TypeOK /\ QOK(queue) /\ p \in PE
  BY Links DEF RouteUp, fe, Takes, IInv
<1>2. /\ pkt \in LinkPacket(l) /\ pkt.cmd = "ADDCPU"
      /\ 1 \in DOMAIN queue[l] /\ pkt = queue[l][1]
  BY <1>1, TakenIsFirst
<1>3. pkt \in Cpu /\ pkt.id \in Nat /\ pkt.id # 0
  <2>1. pkt \in Cpu
    BY <1>2 DEF LinkPacket, Answer, Hello, Request, Cpu, CfgItf
  <2> QED BY <1>2, <2>1 DEF Cpu, RInv, NoZero
<1>4. CASE Done(l) /\ (UNCHANGED inbox \/ inbox' = Append(inbox, pkt.id))
  <2>1. /\ Below' /\ (Narrow => Ways')
        /\ \A x \in Link : \A j \in DOMAIN queue'[x] :
             queue'[x][j].cmd = "ADDCPU" => queue'[x][j].id # 0
    BY <1>1, <1>4, DoneWays
  <2>2. \A k \in DOMAIN inbox' : inbox'[k] # 0
    <3> HIDE DEF pkt
    <3>1. inbox \in Seq(Nat) /\ Len(inbox) \in Nat /\ DOMAIN inbox = 1..Len(inbox)
      BY <1>1, LenProperties DEF TypeOK
    <3>2. CASE inbox' = Append(inbox, pkt.id)
      <4>1. DOMAIN inbox' = 1..(Len(inbox) + 1)
            /\ inbox'[Len(inbox) + 1] = pkt.id
            /\ \A k \in 1..Len(inbox) : inbox'[k] = inbox[k]
        BY <1>3, <3>1, <3>2, AppendProperties, LenProperties
      <4> QED BY <1>3, <3>1, <4>1 DEF RInv, NoZero
    <3> QED BY <1>4, <3>2 DEF RInv, NoZero
  <2>3. NoZero'
    BY <1>1, <2>1, <2>2 DEF RInv, NoZero
  <2> QED BY <1>1, <2>1, <2>3, Together
<1>5. CASE p # Root /\ Pass(l, <<"up", p>>, pkt) /\ UNCHANGED inbox
  <2> DEFINE m == <<"up", p>>
  <2>1. m \in Link /\ m \in Up /\ m \notin Down
    BY <1>1, <1>5, Links DEF Sons
  <2>2. pkt \in LinkPacket(m) \cap Packet
    BY <1>3, <2>1, PacketsArePackets DEF LinkPacket
  <2>3. Pass(l, m, pkt)
    BY <1>5
  <2> HIDE DEF m, pkt
  <2>4. /\ Below' /\ (Narrow => Ways')
        /\ \A x \in Link : \A j \in DOMAIN queue'[x] :
             queue'[x][j].cmd = "ADDCPU" => queue'[x][j].id # 0
    BY <1>1, <1>2, <1>3, <2>1, <2>2, <2>3, PassWays
  <2>5. NoZero'
    BY <1>1, <1>5, <2>4 DEF RInv, NoZero
  <2> QED BY <1>1, <2>4, <2>5, Together
<1> QED BY <1>4, <1>5 DEF RouteUp

LEMMA RouteDownWays == ASSUME IInv, IInv', RInv, NEW l \in Link, RouteDown(l) PROVE RInv'
<1> DEFINE p == Reader(l)
           pkt == Head(queue[l])
           i == NextHop(p, pkt.id)
<1>1. /\ Takes(l, "IDENT") /\ UNCHANGED <<tree, fe, fe_local_id, f_pedb, inbox, cpus>>
      /\ TypeOK /\ QOK(queue) /\ p \in PE
  BY Links DEF RouteDown, fe, mgr, Takes, IInv
<1>2. pkt \in LinkPacket(l) /\ pkt.cmd = "IDENT"
  BY <1>1, TakenIsFirst
<1>3. pkt \in Hello
  BY <1>2 DEF LinkPacket, Answer, Hello, Request, Cpu, CfgItf
<1>4. ASSUME \A x \in Link : \A j \in DOMAIN queue'[x] :
               queue'[x][j].cmd = "ADDCPU" => queue'[x][j].id # 0
      PROVE  NoZero'
  BY <1>1, <1>4 DEF RInv, NoZero
<1>5. CASE Done(l)
  BY <1>1, <1>4, <1>5, DoneWays, Together
<1>6. CASE i # 0 /\ Pass(l, <<"down", f_pedb[p][i].son>>, pkt)
  <2> DEFINE m == <<"down", f_pedb[p][i].son>>
  <2>1. f_pedb[p][i].son \in Sons
    BY <1>1, <1>6, FindFinds DEF NextHop, TypeOK
  <2>2. m \in Link /\ m \in Down
    BY <1>1, <2>1, Links
  <2>3. pkt \in LinkPacket(m) \cap Packet
    BY <1>3, <2>2, PacketsArePackets DEF LinkPacket
  <2>4. Pass(l, m, pkt)
    BY <1>6
  <2> HIDE DEF pkt, m, i
  <2>5. /\ Below' /\ (Narrow => Ways')
        /\ \A x \in Link : \A j \in DOMAIN queue'[x] :
             queue'[x][j].cmd = "ADDCPU" => queue'[x][j].id # 0
    BY <1>1, <1>2, <2>2, <2>3, <2>4, PassWays
  <2> QED BY <1>1, <1>4, <2>5, Together
<1> QED BY <1>5, <1>6 DEF RouteDown

\* The top FRONT-END answers a request: the new id goes to the son that asked, and the
\* entry for it leads there.
LEMMA GivenWays ==
  ASSUME IInv, IInv', RInv, Narrow, NEW l \in Up, Takes(l, "REGISTERSON"),
         NEW s \in Sons, l = <<"up", s>>, tree[s] = Root,
         NEW id \in Nat, id \notin Given, id # 0, NEW req \in Nat,
         NEW e \in Entry, e.id = id, e.son = s,
         Pass(l, <<"down", s>>, Ack(id, req)), UNCHANGED fe_local_id,
         f_pedb' = [f_pedb EXCEPT ![Root] = <<e>> \o @]
  PROVE  Ways'
<1> DEFINE m == <<"down", s>>
           pkt == Ack(id, req)
           old == f_pedb[Root]
           new == f_pedb'[Root]
           r == Removed(queue, l)
<1>1. /\ TypeOK /\ QOK(queue) /\ AnswersOK /\ UNCHANGED <<tree, started, fe_local_id>>
      /\ l \in Link /\ m \in Link /\ m \in Down /\ l \notin Down /\ Root \notin Sons
      /\ old \in Seq(Entry) /\ f_pedb \in [PE -> Seq(Entry)]
  BY Links, RootAssumption DEF IInv, Takes, TypeOK
<1>2. pkt \in Answer /\ pkt.id = id /\ pkt.cmd = "REGISTERACK"
  BY DEF Ack, Answer
<1>3. pkt \in LinkPacket(m) \cap Packet
  BY <1>1, <1>2, PacketsArePackets DEF LinkPacket
<1>4. new = <<e>> \o old /\ \A p \in Sons : f_pedb'[p] = f_pedb[p]
  BY <1>1, RootAssumption DEF Sons
<1>5. /\ 1 \in DOMAIN new /\ new[1] = e
      /\ \A i \in DOMAIN new : i # 1 => i - 1 \in DOMAIN old /\ new[i] = old[i - 1]
  <2> HIDE DEF old, new
  <2> QED BY <1>1, <1>4, PutFirstAt
<1>6. Given' \subseteq Given \cup {id}
  <2>1. \A i \in DOMAIN old : old[i].id \in Given
    BY DEF Given
  <2>2. \A i \in DOMAIN new : new[i].id \in Given \cup {id}
    <3> HIDE DEF old, new
    <3> QED BY <1>5, <2>1
  <2> QED BY <2>2 DEF Given
<1>7. \A x \in Link : \A j \in DOMAIN queue'[x] :
         \/ x = m /\ j = Len(queue'[m]) /\ queue'[x][j] = pkt
         \/ j + Off(l, x) \in DOMAIN queue[x] /\ queue'[x][j] = queue[x][j + Off(l, x)]
  BY <1>1, <1>3, PassStep
<1>8. ASSUME NEW q \in Sons, NEW g \in Given', Has(q, g)'
      PROVE  \/ g = id /\ q = s
             \/ g # id /\ g \in Given /\ Has(q, g)
  <2> DEFINE x == <<"down", q>>
  <2>1. x \in Link /\ x \in Down /\ Off(l, x) = 0 /\ (x = m => q = s)
    BY <1>1, Links DEF Off
  <2>2. CASE fe_local_id'[q] = g
    <3>1. fe_local_id[q] = g /\ g \in Given \cup {0}
      BY <1>1, <2>2 DEF AnswersOK
    <3> QED BY <1>6, <3>1 DEF Has
  <2>3. ASSUME NEW j \in DOMAIN queue'[x], IsAnswer(x, j)', queue'[x][j].id = g
        PROVE  \/ g = id /\ q = s
               \/ g # id /\ g \in Given /\ Has(q, g)
    <3>1. CASE x = m /\ queue'[x][j] = pkt
      BY <1>2, <2>1, <2>3, <3>1
    <3>2. CASE j + Off(l, x) \in DOMAIN queue[x] /\ queue'[x][j] = queue[x][j + Off(l, x)]
      <4>1. IsAnswer(x, j + Off(l, x)) /\ queue[x][j + Off(l, x)].id = g
        BY <2>3, <3>2 DEF IsAnswer
      <4>2. g \in Given
        BY <1>1, <2>1, <3>2, <4>1 DEF AnswersOK
      <4> QED BY <3>2, <4>1, <4>2 DEF Has
    <3> QED BY <1>7, <2>1, <3>1, <3>2
  <2> QED BY <1>8, <2>2, <2>3 DEF Has
<1>9. FirstHop'
  <2> SUFFICES ASSUME NEW q \in Sons, NEW g \in Given', Has(q, g)',
                      NEW i \in DOMAIN new, new[i].id = g
               PROVE  new[i].son = Top(q)'
    BY DEF FirstHop
  <2>1. Top(q)' = Top(q) /\ Top(s) = s
    BY <1>1 DEF Top
  <2>2. CASE i = 1
    BY <1>5, <1>8, <2>1, <2>2
  <2>3. CASE i # 1
    <3>1. i - 1 \in DOMAIN old /\ new[i] = old[i - 1]
      BY <1>5, <2>3
    <3>2. old[i - 1].id = g /\ g \in Given
      BY <3>1 DEF Given
    <3>3. Has(q, g)
      BY <1>8, <3>2
    <3>4. old[i - 1].son = Top(q)
      BY <3>1, <3>2, <3>3 DEF Ways, FirstHop, RInv
    <3> QED BY <2>1, <3>1, <3>4
  <2> QED BY <2>2, <2>3
<1>10. SecondHop'
  <2> SUFFICES ASSUME NEW q \in Sons, NEW g \in Given', Has(q, g)', tree[q] # Root
               PROVE  /\ fe_local_id[tree[q]] # 0
                      /\ \E i \in DOMAIN f_pedb'[tree[q]] : f_pedb'[tree[q]][i].id = g
    BY <1>1 DEF SecondHop
  <2>1. g \in Given /\ Has(q, g) /\ tree[q] \in Sons
    BY <1>1, <1>8, NarrowTwo
  <2> QED BY <1>4, <2>1 DEF RInv, Ways, SecondHop
<1>11. ASSUME NEW p \in Sons
       PROVE  IF tree[p] = Root
              THEN Cardinality(Asks(queue', p)) + Cardinality(Ents(p)') <= Own(p) + Len(f_pedb[p])
              ELSE Cardinality(Asks(queue', p)) + Len(f_pedb[tree[p]]) <= Own(p)
  <2> DEFINE a == Cardinality(Asks(queue, p))
             b == Cardinality(Asks(queue', p))
             c == Cardinality(Ents(p))
             d == Cardinality(Ents(p)')
             n == Len(f_pedb[p])
             k == Len(f_pedb[tree[p]])
             o == Own(p)
  <2>1. IF tree[p] = Root THEN a + c <= o + n ELSE a + k <= o
    BY DEF RInv, Ways, AsksOK
  <2>2. a \in Nat /\ c \in Nat /\ n \in Nat /\ o \in {0, 1} /\ k \in Nat
    <3>1. tree[p] \in PE
      BY <1>1, TreeAssumption DEF TypeOK
    <3> QED BY <1>1, <3>1, AsksNat DEF Sons
  <2>3. b \in Nat /\ a = b + (IF p = s THEN 1 ELSE 0)
    <3>1. queue[l] # <<>> /\ queue' = Added(r, m, pkt) /\ QOK(r) /\ Head(queue[l]) \in LinkPacket(l)
          /\ Head(queue[l]).cmd = "REGISTERSON"
      BY <1>1, TakenIsFirst, Taking DEF Pass
    <3>2. Head(queue[l]) \in Request /\ pkt \notin Request
      BY <1>1, <1>2, <3>1 DEF LinkPacket, Request, Cpu
    <3> HIDE DEF r, m, pkt
    <3>3. /\ Cardinality(Asks(r, p)) \in Nat
          /\ a = Cardinality(Asks(r, p)) + (IF l = <<"up", p>> /\ Head(queue[l]) \in Request THEN 1 ELSE 0)
      BY <1>1, <3>1, AsksRemoved DEF r
    <3>4. b = Cardinality(Asks(r, p))
      <4>1. b = Cardinality(Asks(r, p)) + (IF m = <<"up", p>> /\ pkt \in Request THEN 1 ELSE 0)
        BY <1>1, <1>3, <3>1, AsksAdded
      <4> QED BY <3>2, <3>3, <4>1
    <3>5. (l = <<"up", p>>) <=> p = s
      OBVIOUS
    <3> HIDE DEF a, b
    <3> QED BY <3>2, <3>3, <3>4, <3>5
  <2>4. d = c + (IF p = s THEN 1 ELSE 0)
    <3> DEFINE P == {x \in Entry : x.son = p}
    <3>1. e \in P <=> p = s
      OBVIOUS
    <3>2. c = Cardinality(Places(old, P)) /\ d = Cardinality(Places(new, P))
      BY DEF Ents
    <3> HIDE DEF P, c, d, old, new
    <3>3. d = c + (IF e \in P THEN 1 ELSE 0)
      BY <1>1, <1>4, <3>2, PlacesFirst
    <3> QED BY <3>1, <3>3
  <2> HIDE DEF a, b, c, d, n, k, o
  <2>5. CASE tree[p] = Root
    <3>1. b + d <= o + n
      BY <2>1, <2>2, <2>3, <2>4, <2>5
    <3> QED BY <2>5, <3>1 DEF b, d, o, n
  <2>6. CASE tree[p] # Root
    <3>1. b + k <= o
      BY <2>1, <2>2, <2>3, <2>6
    <3> QED BY <2>6, <3>1 DEF b, k, o
  <2> QED BY <2>5, <2>6
<1>12. AsksOK'
  <2> SUFFICES ASSUME NEW p \in Sons
               PROVE  IF tree[p] = Root
                      THEN Cardinality(Asks(queue', p)) + Cardinality(Ents(p)') <= Own(p) + Len(f_pedb'[p])
                      ELSE Cardinality(Asks(queue', p)) + Len(f_pedb'[tree[p]]) <= Own(p)
    BY <1>1 DEF AsksOK, Asks, Own
  <2>1. f_pedb'[p] = f_pedb[p] /\ (tree[p] # Root => f_pedb'[tree[p]] = f_pedb[tree[p]])
    <3>1. tree[p] \in PE
      BY <1>1, TreeAssumption DEF TypeOK
    <3> QED BY <1>4, <3>1 DEF Sons
  <2> QED BY <1>11, <2>1
<1> QED BY <1>9, <1>10, <1>12 DEF Ways

\* Another FRONT-END asks for the PE below it as well: one request less comes from
\* there, one more goes up, and the entry for it is there.
LEMMA AskedWays ==
  ASSUME IInv, IInv', RInv, Narrow, NEW l \in Up, Takes(l, "REGISTERSON"),
         NEW s \in Sons, l = <<"up", s>>, NEW p \in Sons, tree[s] = p,
         NEW pkt \in Request, Pass(l, <<"up", p>>, pkt), UNCHANGED fe_local_id,
         NEW e \in Entry, f_pedb' = [f_pedb EXCEPT ![p] = <<e>> \o @]
  PROVE  Ways'
<1> DEFINE m == <<"up", p>>
           old == f_pedb[p]
           new == f_pedb'[p]
           r == Removed(queue, l)
           d == [x \in Link |-> Off(l, x)]
<1>1. /\ TypeOK /\ QOK(queue) /\ UNCHANGED <<tree, started, fe_local_id>>
      /\ l \in Link /\ m \in Link /\ m \notin Down /\ m \in Up /\ p # Root /\ p \in PE
      /\ old \in Seq(Entry) /\ f_pedb \in [PE -> Seq(Entry)]
  BY Links, RootAssumption DEF IInv, Takes, TypeOK
<1>2. /\ tree[p] = Root /\ s # p /\ \A q \in Sons : tree[q] = p => q = s
  BY <1>1, NarrowTwo
<1>3. pkt \in LinkPacket(m) \cap Packet /\ pkt.cmd = "REGISTERSON"
  BY <1>1, PacketsArePackets DEF LinkPacket, Request
<1>4. new = <<e>> \o old /\ \A x \in PE : x # p => f_pedb'[x] = f_pedb[x]
  BY <1>1
<1>5. /\ Len(new) = Len(old) + 1 /\ Len(old) \in Nat
      /\ \A i \in DOMAIN old : i + 1 \in DOMAIN new /\ new[i + 1] = old[i]
  <2> HIDE DEF old, new
  <2> QED BY <1>1, <1>4, PutFirstAt
<1>6. Given' = Given /\ \A q : Top(q)' = Top(q) /\ Ents(q)' = Ents(q) /\ Own(q)' = Own(q)
  BY <1>1, <1>4, RootAssumption DEF Given, Top, Ents, Own
<1>7. \A x \in Link : \A j \in DOMAIN queue'[x] :
         \/ x = m /\ j = Len(queue'[m]) /\ queue'[x][j] = pkt
         \/ j + Off(l, x) \in DOMAIN queue[x] /\ queue'[x][j] = queue[x][j + Off(l, x)]
  BY <1>1, <1>3, PassStep
<1>8. ASSUME NEW q \in Sons, NEW g \in Given, Has(q, g)'
      PROVE  Has(q, g)
  <2>1. g # 0
    BY DEF IInv, AnswersOK, FirstId
  <2>2. \A x \in Down : \A j \in DOMAIN queue'[x] : IsAnswer(x, j)' =>
           j + d[x] \in DOMAIN queue[x] /\ queue'[x][j] = queue[x][j + d[x]]
    BY <1>1, <1>3, <1>7 DEF Link, IsAnswer
  <2> HIDE DEF d
  <2> QED BY <1>1, <1>8, <2>1, <2>2, HasMoved
<1>9. FirstHop'
  BY <1>4, <1>6, <1>8, <1>1, RootAssumption DEF RInv, Ways, FirstHop
<1>10. SecondHop'
  <2>0. tree' = tree /\ fe_local_id' = fe_local_id /\ Given' = Given
    BY <1>1, <1>6
  <2> SUFFICES ASSUME NEW q \in Sons, NEW g \in Given, Has(q, g)', tree[q] # Root
               PROVE  /\ fe_local_id[tree[q]] # 0
                      /\ \E i \in DOMAIN f_pedb'[tree[q]] : f_pedb'[tree[q]][i].id = g
    BY <2>0 DEF SecondHop
  <2>1. tree[q] \in Sons
    BY <1>1, NarrowTwo
  <2>2. fe_local_id[tree[q]] # 0
    BY <1>8 DEF RInv, Ways, SecondHop
  <2>3. PICK i \in DOMAIN f_pedb[tree[q]] : f_pedb[tree[q]][i].id = g
    BY <1>8 DEF RInv, Ways, SecondHop
  <2>4. CASE tree[q] = p
    <3>1. i + 1 \in DOMAIN new /\ new[i + 1].id = g
      BY <1>5, <2>3, <2>4
    <3> QED BY <2>2, <2>4, <3>1
  <2>5. CASE tree[q] # p
    BY <1>4, <2>1, <2>2, <2>3, <2>5 DEF Sons
  <2> QED BY <2>4, <2>5
<1>11. ASSUME NEW q \in Sons
       PROVE  IF tree[q] = Root
              THEN Cardinality(Asks(queue', q)) + Cardinality(Ents(q)) <= Own(q) + Len(f_pedb'[q])
              ELSE Cardinality(Asks(queue', q)) + Len(f_pedb'[tree[q]]) <= Own(q)
  <2> DEFINE a == Cardinality(Asks(queue, q))
             b == Cardinality(Asks(queue', q))
             c == Cardinality(Ents(q))
             n == Len(f_pedb[q])
             n1 == Len(f_pedb'[q])
             k == Len(f_pedb[tree[q]])
             k1 == Len(f_pedb'[tree[q]])
             o == Own(q)
  <2>1. IF tree[q] = Root THEN a + c <= o + n ELSE a + k <= o
    BY DEF RInv, Ways, AsksOK
  <2>2. tree[q] \in PE /\ q \in PE
    BY <1>1, TreeAssumption DEF TypeOK, Sons
  <2>3. a \in Nat /\ c \in Nat /\ n \in Nat /\ o \in {0, 1} /\ k \in Nat
    BY <1>1, <2>2, AsksNat
  <2>4. b \in Nat /\ b + (IF q = s THEN 1 ELSE 0) = a + (IF q = p THEN 1 ELSE 0)
    <3>1. queue[l] # <<>> /\ queue' = Added(r, m, pkt) /\ QOK(r) /\ Head(queue[l]) \in LinkPacket(l)
          /\ Head(queue[l]).cmd = "REGISTERSON"
      BY <1>1, TakenIsFirst, Taking DEF Pass
    <3>2. Head(queue[l]) \in Request
      BY <1>1, <3>1, Links DEF LinkPacket, Request, Cpu
    <3>3. (l = <<"up", q>>) <=> q = s
      OBVIOUS
    <3>4. (m = <<"up", q>>) <=> q = p
      OBVIOUS
    <3> HIDE DEF r, m
    <3>5. /\ Cardinality(Asks(r, q)) \in Nat
          /\ a = Cardinality(Asks(r, q)) + (IF l = <<"up", q>> /\ Head(queue[l]) \in Request THEN 1 ELSE 0)
      BY <1>1, <3>1, AsksRemoved DEF r
    <3>6. b = Cardinality(Asks(r, q)) + (IF m = <<"up", q>> /\ pkt \in Request THEN 1 ELSE 0)
      BY <1>1, <1>3, <3>1, AsksAdded
    <3> HIDE DEF a, b
    <3>7. a = Cardinality(Asks(r, q)) + (IF q = s THEN 1 ELSE 0)
      BY <3>2, <3>3, <3>5
    <3>8. b = Cardinality(Asks(r, q)) + (IF q = p THEN 1 ELSE 0)
      BY <3>4, <3>6
    <3> QED BY <3>5, <3>7, <3>8
  <2>5. \A x \in PE : Len(f_pedb'[x]) = IF x = p THEN Len(f_pedb[x]) + 1 ELSE Len(f_pedb[x])
    BY <1>4, <1>5
  <2>6. /\ n1 = IF q = p THEN n + 1 ELSE n
        /\ k1 = IF tree[q] = p THEN k + 1 ELSE k
    BY <2>2, <2>5
  <2>7. (tree[q] = p => q = s) /\ tree[p] = Root /\ tree[s] = p /\ p # Root
    BY <1>1, <1>2
  <2> HIDE DEF a, b, c, n, n1, k, k1, o
  <2>8. CASE tree[q] = Root
    <3>1. q # s
      BY <2>7, <2>8
    <3>2. b + c <= o + n1
      BY <2>1, <2>3, <2>4, <2>6, <2>8, <3>1, <2>7
    <3> QED BY <2>8, <3>2 DEF b, c, o, n1
  <2>9. CASE tree[q] # Root
    <3>1. q # p
      BY <2>7, <2>9
    <3>2. b + k1 <= o
      <4>1. CASE q = s
        <5>1. b + 1 = a /\ k1 = k + 1 /\ a + k <= o
          BY <2>1, <2>3, <2>4, <2>6, <2>7, <2>9, <3>1, <4>1
        <5> QED BY <2>3, <2>4, <5>1
      <4>2. CASE q # s
        <5>1. b = a /\ k1 = k /\ a + k <= o
          BY <2>1, <2>3, <2>4, <2>6, <2>7, <2>9, <3>1, <4>2
        <5> QED BY <5>1
      <4> QED BY <4>1, <4>2
    <3> QED BY <2>9, <3>2 DEF b, k1, o
  <2> QED BY <2>8, <2>9
<1>12. AsksOK'
  BY <1>1, <1>6, <1>11 DEF AsksOK, Asks
<1> QED BY <1>9, <1>10, <1>12 DEF Ways

LEMMA RegisterSonWays == ASSUME IInv, IInv', RInv, NEW l \in Link, RegisterSon(l) PROVE RInv'
<1> DEFINE p == Reader(l)
           pkt == Head(queue[l])
           id == FreeId(p, pkt.id)
           s == l[2]
           e == [id |-> id, reqid |-> pkt.req, son |-> s]
<1>1. /\ Takes(l, "REGISTERSON") /\ UNCHANGED <<tree, fe_local_id, inbox, cpus>>
      /\ f_pedb' = [f_pedb EXCEPT ![p] = <<e>> \o f_pedb[p]]
  BY DEF RegisterSon, mgr, Takes
<1>2. TypeOK /\ QOK(queue) /\ p \in PE
  BY Links DEF IInv
<1>3. pkt \in LinkPacket(l) /\ pkt.cmd = "REGISTERSON"
  BY <1>1, <1>2, TakenIsFirst
<1>4. pkt \in Request /\ l \in Up
  BY <1>3 DEF LinkPacket, Answer, Hello, Request, Cpu, CfgItf
<1>5. /\ pkt.id \in Nat /\ pkt.id >= FirstId /\ pkt.req \in Nat
      /\ s \in Sons /\ l = <<"up", s>> /\ tree[s] = p
  BY <1>2, <1>4, Links DEF Request, Up, Reader
<1>6. id \in Nat /\ id >= FirstId /\ id # 0 /\ id \notin UsedIds(p)
  <2>1. id \in Nat /\ id >= pkt.id /\ id \notin UsedIds(p)
    BY <1>2, <1>5, FreeIdIsFree
  <2> HIDE DEF id, pkt
  <2> QED BY <1>5, <2>1 DEF FirstId
<1> DEFINE req == pkt.req
<1>7. IF p = Root THEN Pass(l, <<"down", s>>, Ack(id, req)) ELSE Pass(l, <<"up", p>>, Register(id, req))
  BY DEF RegisterSon
<1> HIDE DEF id, pkt, req
<1>8. e \in Entry /\ e.id = id /\ e.son = s
  BY <1>5, <1>6 DEF Entry
<1>9. f_pedb[p] \in Seq(Entry) /\ f_pedb \in [PE -> Seq(Entry)]
  BY <1>2 DEF TypeOK
<1> HIDE DEF e
<1>10. Below'
  <2> SUFFICES ASSUME NEW x \in PE, NEW i \in DOMAIN f_pedb'[x]
               PROVE  tree[f_pedb'[x][i].son] = x
    BY <1>1 DEF Below
  <2>1. CASE x # p
    BY <1>1, <1>9, <2>1 DEF RInv, Below
  <2>2. CASE x = p
    <3> DEFINE t == f_pedb'[p]
    <3>1. t = <<e>> \o f_pedb[p]
      BY <1>1, <1>2, <1>9
    <3> HIDE DEF t
    <3>2. t[1] = e /\ \A j \in DOMAIN t : j # 1 => j - 1 \in DOMAIN f_pedb[p] /\ t[j] = f_pedb[p][j - 1]
      BY <1>8, <1>9, <3>1, PutFirstAt
    <3>3. i # 1 => i - 1 \in DOMAIN f_pedb[p] /\ t[i] = f_pedb[p][i - 1]
      BY <2>2, <3>2 DEF t
    <3> QED BY <1>2, <1>5, <1>8, <2>2, <3>2, <3>3 DEF t, RInv, Below
  <2> QED BY <2>1, <2>2
<1>11. CASE p = Root
  <2>1. id \notin Given
    BY <1>6, <1>11 DEF Given, UsedIds
  <2>2. Pass(l, <<"down", s>>, Ack(id, req)) /\ req \in Nat
    BY <1>5, <1>7, <1>11 DEF req
  <2>3. Narrow => Ways'
    BY <1>1, <1>4, <1>5, <1>6, <1>8, <1>11, <2>1, <2>2, GivenWays
  <2>4. <<"down", s>> \in Link /\ Ack(id, req) \in LinkPacket(<<"down", s>>) \cap Packet
        /\ Ack(id, req).cmd # "ADDCPU"
    BY <1>2, <1>5, <1>6, <2>2, Links, PacketsArePackets DEF LinkPacket, Ack, Answer
  <2>5. NoZero'
    <3> DEFINE m == <<"down", s>>
               ack == Ack(id, req)
    <3> HIDE DEF m, ack
    <3>1. m \in Link /\ ack \in LinkPacket(m) \cap Packet /\ ack.cmd # "ADDCPU" /\ Pass(l, m, ack)
      BY <2>2, <2>4 DEF m, ack
    <3>2. \A x \in Link : \A j \in DOMAIN queue'[x] :
             \/ x = m /\ j = Len(queue'[m]) /\ queue'[x][j] = ack
             \/ j + Off(l, x) \in DOMAIN queue[x] /\ queue'[x][j] = queue[x][j + Off(l, x)]
      BY <1>1, <1>2, <3>1, PassStep
    <3> QED BY <1>1, <3>1, <3>2 DEF RInv, NoZero
  <2> QED BY <1>1, <1>10, <2>3, <2>5, Together
<1>12. CASE p # Root
  <2> DEFINE m == <<"up", p>>
             ask == Register(id, req)
  <2>1. Pass(l, m, ask) /\ req \in Nat /\ p \in Sons
    BY <1>2, <1>5, <1>7, <1>12 DEF req, Sons
  <2>2. ask \in Request /\ ask.cmd = "REGISTERSON"
    BY <1>6, <2>1 DEF Register, Request
  <2>3. m \in Link /\ ask \in LinkPacket(m) \cap Packet
    BY <1>2, <2>1, <2>2, Links, PacketsArePackets DEF LinkPacket
  <2> HIDE DEF ask
  <2>4. Narrow => Ways'
    BY <1>1, <1>4, <1>5, <1>8, <2>1, <2>2, AskedWays
  <2>5. NoZero'
    <3> HIDE DEF m
    <3>2. \A x \in Link : \A j \in DOMAIN queue'[x] :
             \/ x = m /\ j = Len(queue'[m]) /\ queue'[x][j] = ask
             \/ j + Off(l, x) \in DOMAIN queue[x] /\ queue'[x][j] = queue[x][j + Off(l, x)]
      BY <1>1, <1>2, <2>1, <2>3, PassStep
    <3> QED BY <1>1, <2>2, <3>2 DEF RInv, NoZero
  <2> QED BY <1>1, <1>10, <2>4, <2>5, Together
<1> QED BY <1>11, <1>12

\* Three ids of three PEs that lead the same way are three entries of the top one.
LEMMA ThreeEntries ==
  ASSUME TypeOK, NEW p \in Sons, NEW g \in Given, NEW h \in Given, NEW k \in Given,
         g # h, g # k, h # k,
         \A i \in DOMAIN f_pedb[Root] : f_pedb[Root][i].id \in {g, h, k} => f_pedb[Root][i].son = p
  PROVE  Cardinality(Ents(p)) >= 3
<1>1. f_pedb[Root] \in Seq(Entry)
  BY RootAssumption DEF TypeOK
<1>2. IsFiniteSet(Ents(p)) /\ Cardinality(Ents(p)) \in Nat
  BY <1>1, PlacesFinite DEF Ents
<1>3. PICK x \in DOMAIN f_pedb[Root] : f_pedb[Root][x].id = g
  BY DEF Given
<1>4. PICK y \in DOMAIN f_pedb[Root] : f_pedb[Root][y].id = h
  BY DEF Given
<1>5. PICK z \in DOMAIN f_pedb[Root] : f_pedb[Root][z].id = k
  BY DEF Given
<1>6. x # y /\ x # z /\ y # z
  BY <1>3, <1>4, <1>5
<1>7. \A i \in DOMAIN f_pedb[Root] : f_pedb[Root][i] \in Entry
  BY <1>1, ElementOfSeq, LenProperties
<1>8. {x, y, z} \subseteq Ents(p)
  BY <1>3, <1>4, <1>5, <1>7 DEF Ents, Places
<1>9. Cardinality({x, y, z}) = 3
  <2> DEFINE A == {x}
             B == A \cup {y}
             C == B \cup {z}
  <2>1. IsFiniteSet(A) /\ Cardinality(A) = 1
    BY FS_Singleton
  <2>2. y \notin A /\ z \notin B /\ C = {x, y, z}
    BY <1>6
  <2> HIDE DEF A
  <2>3. IsFiniteSet(B) /\ Cardinality(B) = Cardinality(A) + 1
    BY <2>1, <2>2, FS_AddElement
  <2> HIDE DEF B
  <2>4. Cardinality(C) = Cardinality(B) + 1
    BY <2>2, <2>3, FS_AddElement
  <2> HIDE DEF C
  <2> QED BY <2>1, <2>2, <2>3, <2>4
<1>10. Cardinality({x, y, z}) <= Cardinality(Ents(p))
  BY <1>2, <1>8, FS_Subset
<1> QED BY <1>2, <1>9, <1>10

\* An answer passed on: the id has an entry in the FRONT-END that passes it.  The
\* son has no other id, or three would have been given for the two PEs there.
LEMMA AnswerWays ==
  ASSUME IInv, IInv', RInv, Narrow, NEW p \in Sons, NEW l \in Down, l = <<"down", p>>,
         Takes(l, "REGISTERACK"), NEW i \in DOMAIN f_pedb[p], NEW s \in Sons, tree[s] = p,
         fe_local_id[p] # 0, UNCHANGED fe_local_id,
         NEW g, g = Head(queue[l]).id, NEW pkt \in Answer, pkt.id = g,
         Pass(l, <<"down", s>>, pkt),
         NEW e \in Entry, e.id = g, f_pedb' = [f_pedb EXCEPT ![p] = [@ EXCEPT ![i] = e]]
  PROVE  Ways'
<1> DEFINE m == <<"down", s>>
           old == f_pedb[p]
           new == f_pedb'[p]
           r == Removed(queue, l)
<1>1. /\ TypeOK /\ QOK(queue) /\ AnswersOK /\ UNCHANGED <<tree, started>>
      /\ l \in Link /\ m \in Link /\ m \in Down /\ m \notin Up /\ p # Root /\ p \in PE
      /\ old \in Seq(Entry) /\ f_pedb \in [PE -> Seq(Entry)]
  BY Links, RootAssumption DEF IInv, Takes, TypeOK
<1>2. /\ tree[p] = Root /\ s # p /\ \A q \in Sons : tree[q] = p => q = s
  BY <1>1, NarrowTwo
<1>3. pkt \in LinkPacket(m) \cap Packet /\ pkt.cmd = "REGISTERACK"
  BY <1>1, PacketsArePackets DEF LinkPacket, Answer
<1>4. /\ new = [old EXCEPT ![i] = e] /\ \A x \in PE : x # p => f_pedb'[x] = f_pedb[x]
  BY <1>1
<1>5. /\ Len(new) = Len(old) /\ DOMAIN new = DOMAIN old /\ new[i].id = g
  <2> HIDE DEF old, new
  <2>1. i \in 1..Len(old) /\ Len(old) \in Nat /\ DOMAIN old = 1..Len(old)
    BY <1>1, LenProperties DEF old
  <2>2. new \in Seq(Entry) /\ Len(new) = Len(old)
    BY <1>1, <1>4, <2>1, ExceptSeq
  <2>3. new[i] = e /\ DOMAIN new = DOMAIN old
    BY <1>4, <2>1
  <2> QED BY <2>2, <2>3
<1>6. Given' = Given /\ f_pedb'[Root] = f_pedb[Root]
      /\ \A q : Top(q)' = Top(q) /\ Ents(q)' = Ents(q) /\ Own(q)' = Own(q)
  BY <1>1, <1>4, RootAssumption DEF Given, Top, Ents, Own
<1>7. \A x \in Link : \A j \in DOMAIN queue'[x] :
         \/ x = m /\ j = Len(queue'[m]) /\ queue'[x][j] = pkt
         \/ j + Off(l, x) \in DOMAIN queue[x] /\ queue'[x][j] = queue[x][j + Off(l, x)]
  BY <1>1, <1>3, PassStep
<1>8. Has(p, g) /\ g \in Given /\ \A q \in Sons : fe_local_id[q] # g
  <2>1. 1 \in DOMAIN queue[l] /\ Head(queue[l]) = queue[l][1] /\ Head(queue[l]).cmd = "REGISTERACK"
    BY <1>1, TakenIsFirst
  <2>2. IsAnswer(l, 1) /\ queue[l][1].id = g
    BY <2>1 DEF IsAnswer
  <2>3. Has(p, g)
    BY <2>1, <2>2 DEF Has
  <2>4. queue[l][1].id \in Given /\ \A q \in Sons : fe_local_id[q] # queue[l][1].id
    BY <1>1, <2>1, <2>2 DEF AnswersOK
  <2> QED BY <2>2, <2>3, <2>4
<1>9. ASSUME NEW q \in Sons, NEW h \in Given, Has(q, h)'
      PROVE  Has(q, h) \/ (q = s /\ h = g)
  <2> DEFINE x == <<"down", q>>
  <2>1. x \in Link /\ (x = m => q = s)
    BY <1>1, Links
  <2>2. CASE fe_local_id'[q] = h
    BY <2>2 DEF Has
  <2>3. ASSUME NEW j \in DOMAIN queue'[x], IsAnswer(x, j)', queue'[x][j].id = h
        PROVE  Has(q, h) \/ (q = s /\ h = g)
    <3>1. CASE x = m /\ queue'[x][j] = pkt
      BY <2>1, <2>3, <3>1
    <3>2. CASE j + Off(l, x) \in DOMAIN queue[x] /\ queue'[x][j] = queue[x][j + Off(l, x)]
      <4>1. IsAnswer(x, j + Off(l, x)) /\ queue[x][j + Off(l, x)].id = h
        BY <2>3, <3>2 DEF IsAnswer
      <4> QED BY <3>2, <4>1 DEF Has
    <3> QED BY <1>7, <2>1, <3>1, <3>2
  <2> QED BY <1>9, <2>2, <2>3 DEF Has
<1>10. FirstHop'
  <2> SUFFICES ASSUME NEW q \in Sons, NEW h \in Given, Has(q, h)',
                      NEW j \in DOMAIN f_pedb[Root], f_pedb[Root][j].id = h
               PROVE  f_pedb[Root][j].son = Top(q)
    BY <1>6 DEF FirstHop
  <2>1. CASE Has(q, h)
    BY <2>1 DEF RInv, Ways, FirstHop
  <2>2. CASE q = s /\ h = g
    <3>1. f_pedb[Root][j].son = Top(p)
      BY <1>8, <2>2 DEF RInv, Ways, FirstHop
    <3> QED BY <1>1, <1>2, <2>2, <3>1 DEF Top
  <2> QED BY <1>9, <2>1, <2>2
<1>11. ASSUME NEW h \in Given, Has(s, h), h # g PROVE FALSE
  <2> DEFINE k == fe_local_id[p]
             a == Cardinality(Asks(queue, p))
             b == Cardinality(Asks(queue, s))
             c == Cardinality(Ents(p))
             n == Len(old)
  <2>1. k \in Given /\ k # g /\ Has(p, k)
    BY <1>1, <1>8 DEF AnswersOK, Has
  <2>2. k # h
    <3>1. CASE fe_local_id[s] = h
      BY <1>1, <1>2, <2>1, <3>1 DEF AnswersOK
    <3>2. ASSUME NEW j \in DOMAIN queue[m], IsAnswer(m, j), queue[m][j].id = h
          PROVE  k # h
      BY <1>1, <3>2 DEF AnswersOK
    <3> QED BY <1>11, <3>1, <3>2 DEF Has
  <2>3. Top(p) = p /\ Top(s) = p
    BY <1>1, <1>2 DEF Top
  <2>4. \A j \in DOMAIN f_pedb[Root] : f_pedb[Root][j].id \in {g, h, k} => f_pedb[Root][j].son = p
    BY <1>8, <1>11, <2>1, <2>3 DEF RInv, Ways, FirstHop
  <2>5. c >= 3
    <3> HIDE DEF k
    <3> QED BY <1>1, <1>8, <1>11, <2>1, <2>2, <2>4, ThreeEntries
  <2>6. a + c <= Own(p) + n /\ b + n <= Own(s)
    BY <1>1, <1>2 DEF RInv, Ways, AsksOK
  <2>7. a \in Nat /\ b \in Nat /\ c \in Nat /\ n \in Nat /\ Own(p) \in {0, 1} /\ Own(s) \in {0, 1}
    BY <1>1, AsksNat
  <2> HIDE DEF a, b, c, n
  <2> QED BY <2>5, <2>6, <2>7
<1>12. SecondHop'
  <2>0. tree' = tree /\ fe_local_id' = fe_local_id /\ Given' = Given
    BY <1>1, <1>6
  <2> SUFFICES ASSUME NEW q \in Sons, NEW h \in Given, Has(q, h)', tree[q] # Root
               PROVE  /\ fe_local_id[tree[q]] # 0
                      /\ \E j \in DOMAIN f_pedb'[tree[q]] : f_pedb'[tree[q]][j].id = h
    BY <2>0 DEF SecondHop
  <2>1. tree[q] \in Sons
    BY <1>1, NarrowTwo
  <2>2. CASE q = s
    <3>1. h = g
      BY <1>9, <1>11, <2>2
    <3>2. i \in DOMAIN new /\ new[i].id = h
      BY <1>5, <3>1
    <3> QED BY <2>2, <3>2
  <2>3. CASE q # s
    <3>1. Has(q, h) /\ tree[q] # p
      BY <1>2, <1>9, <2>3
    <3>2. f_pedb'[tree[q]] = f_pedb[tree[q]]
      BY <1>4, <2>1, <3>1 DEF Sons
    <3> QED BY <3>1, <3>2 DEF RInv, Ways, SecondHop
  <2> QED BY <2>2, <2>3
<1>13. ASSUME NEW q \in Sons
       PROVE  IF tree[q] = Root
              THEN Cardinality(Asks(queue', q)) + Cardinality(Ents(q)) <= Own(q) + Len(f_pedb'[q])
              ELSE Cardinality(Asks(queue', q)) + Len(f_pedb'[tree[q]]) <= Own(q)
  <2> DEFINE a == Cardinality(Asks(queue, q))
             b == Cardinality(Asks(queue', q))
             c == Cardinality(Ents(q))
             n == Len(f_pedb[q])
             k == Len(f_pedb[tree[q]])
             o == Own(q)
  <2>1. IF tree[q] = Root THEN a + c <= o + n ELSE a + k <= o
    BY DEF RInv, Ways, AsksOK
  <2>2. tree[q] \in PE /\ q \in PE
    BY <1>1, TreeAssumption DEF TypeOK, Sons
  <2>3. a \in Nat /\ c \in Nat /\ n \in Nat /\ o \in {0, 1} /\ k \in Nat
    BY <1>1, <2>2, AsksNat
  <2>4. b \in Nat /\ b <= a
    <3>1. queue[l] # <<>> /\ queue' = Added(r, m, pkt) /\ QOK(r)
      BY <1>1, TakenIsFirst, Taking DEF Pass
    <3>2. pkt \notin Request
      BY <1>3 DEF Request
    <3> HIDE DEF r, m
    <3>3. Cardinality(Asks(r, q)) \in Nat /\ Cardinality(Asks(r, q)) <= a
      BY <1>1, <2>3, <3>1, AsksRemoved DEF r
    <3>4. b = Cardinality(Asks(r, q))
      BY <1>1, <1>3, <3>1, <3>2, <3>3, AsksAdded
    <3> HIDE DEF a, b
    <3> QED BY <3>3, <3>4
  <2>5. Len(f_pedb'[q]) = n /\ Len(f_pedb'[tree[q]]) = k
    BY <1>4, <1>5, <2>2
  <2> HIDE DEF a, b, c, n, k, o
  <2>6. IF tree[q] = Root THEN b + c <= o + n ELSE b + k <= o
    BY <2>1, <2>3, <2>4
  <2> QED BY <2>5, <2>6 DEF b, c, o
<1>14. AsksOK'
  BY <1>1, <1>6, <1>13 DEF AsksOK, Asks
<1> QED BY <1>10, <1>12, <1>14 DEF Ways

LEMMA RegisterAckWays == ASSUME IInv, IInv', RInv, NEW l \in Link, RegisterAck(l) PROVE RInv'
<1> DEFINE p == Reader(l)
           pkt == Head(queue[l])
           i == Find(f_pedb[p], "reqid", pkt.req)
           e == f_pedb[p][i]
<1>1. Takes(l, "REGISTERACK") /\ UNCHANGED <<tree, inbox, cpus>>
  BY DEF RegisterAck, mgr, Takes
<1>2. TypeOK /\ QOK(queue) /\ p \in PE /\ f_pedb \in [PE -> Seq(Entry)]
  BY Links DEF IInv, TypeOK
<1>3. pkt \in LinkPacket(l) /\ pkt.cmd = "REGISTERACK" /\ pkt = queue[l][1] /\ 1 \in DOMAIN queue[l]
  BY <1>1, <1>2, TakenIsFirst
<1>4. pkt \in Answer /\ l \in Down
  BY <1>3 DEF LinkPacket, Answer, Hello, Request, Cpu, CfgItf
<1>5. p = l[2] /\ p \in Sons /\ l = <<"down", p>> /\ pkt.id \in Nat /\ pkt.req \in Nat
  BY <1>2, <1>4, Links DEF Answer, Down
<1>6. ASSUME UNCHANGED f_pedb, Done(l),
             \A q \in Sons : fe_local_id[q] # 0 => fe_local_id'[q] # 0,
             \A q \in Sons : fe_local_id'[q] = fe_local_id[q] \/ Has(q, fe_local_id'[q])
      PROVE  RInv'
  <2>1. /\ Below' /\ (Narrow => Ways')
        /\ \A x \in Link : \A j \in DOMAIN queue'[x] :
             queue'[x][j].cmd = "ADDCPU" => queue'[x][j].id # 0
    BY <1>1, <1>6, DoneWays
  <2>2. NoZero'
    BY <1>1, <2>1 DEF RInv, NoZero
  <2> QED BY <1>1, <2>1, <2>2, Together
<1>7. CASE /\ fe_local_id[p] = 0 /\ Done(l) /\ UNCHANGED f_pedb
           /\ fe_local_id' = [fe_local_id EXCEPT ![p] = pkt.id]
  <2>1. fe_local_id'[p] = pkt.id /\ \A q \in Sons : q # p => fe_local_id'[q] = fe_local_id[q]
    BY <1>2, <1>7 DEF TypeOK
  <2>2. Has(p, pkt.id)
    <3>1. IsAnswer(l, 1) /\ queue[l][1].id = pkt.id
      BY <1>3 DEF IsAnswer
    <3> QED BY <1>3, <1>5, <3>1 DEF Has
  <2> QED BY <1>6, <1>7, <2>1, <2>2
<1>8. CASE Done(l) /\ UNCHANGED fe
  BY <1>6, <1>8 DEF fe
<1>9. CASE /\ fe_local_id[p] # 0 /\ i # 0 /\ UNCHANGED fe_local_id
           /\ f_pedb' = [f_pedb EXCEPT ![p][i] = Assigned(e, pkt.id)]
           /\ Pass(l, <<"down", e.son>>, Ack(pkt.id, pkt.req))
  <2> DEFINE s == e.son
             m == <<"down", s>>
             ack == Ack(pkt.id, pkt.req)
             g == pkt.id
             e1 == Assigned(e, g)
  <2>1. f_pedb[p] \in Seq(Entry) /\ i \in DOMAIN f_pedb[p] /\ e \in Entry /\ s \in Sons
    BY <1>2, <1>9, FindFinds
  <2>2. tree[s] = p
    BY <1>2, <2>1 DEF RInv, Below
  <2>3. ack \in Answer /\ ack.id = g /\ ack.cmd = "REGISTERACK"
    BY <1>5 DEF Ack, Answer
  <2>4. e1 \in Entry /\ e1.id = g /\ e1.son = s
    BY <1>5, <2>1 DEF Assigned, Entry
  <2>5. f_pedb' = [f_pedb EXCEPT ![p] = [@ EXCEPT ![i] = e1]] /\ Pass(l, m, ack)
    BY <1>9
  <2>6. Below'
    <3> SUFFICES ASSUME NEW x \in PE, NEW j \in DOMAIN f_pedb'[x]
                 PROVE  tree[f_pedb'[x][j].son] = x
      BY <1>1 DEF Below
    <3> HIDE DEF e1, s, p, i
    <3>1. CASE x # p
      BY <1>2, <2>5, <3>1 DEF RInv, Below
    <3>2. CASE x = p
      <4>1. f_pedb'[p] = [f_pedb[p] EXCEPT ![i] = e1]
        BY <1>2, <2>5
      <4>2. j \in DOMAIN f_pedb[p] /\ f_pedb'[p][j] = IF j = i THEN e1 ELSE f_pedb[p][j]
        BY <3>2, <4>1
      <4> QED BY <1>2, <2>2, <2>4, <3>2, <4>2 DEF RInv, Below
    <3> QED BY <3>1, <3>2
  <2>7. Narrow => Ways'
    <3>1. g = Head(queue[l]).id /\ Pass(l, <<"down", s>>, ack)
      BY <2>5
    <3>2. fe_local_id[p] # 0 /\ UNCHANGED fe_local_id
      BY <1>9
    <3> SUFFICES ASSUME Narrow PROVE Ways'
      OBVIOUS
    <3> HIDE DEF g, e1, s, m, ack, i, e, p, pkt
    <3> QED BY <1>1, <1>4, <1>5, <2>1, <2>2, <2>3, <2>4, <2>5, <3>1, <3>2, AnswerWays
  <2>8. NoZero'
    <3>1. m \in Link /\ ack \in LinkPacket(m) \cap Packet
      BY <1>2, <2>1, <2>3, Links, PacketsArePackets DEF LinkPacket
    <3> HIDE DEF m, ack
    <3>2. \A x \in Link : \A j \in DOMAIN queue'[x] :
             \/ x = m /\ j = Len(queue'[m]) /\ queue'[x][j] = ack
             \/ j + Off(l, x) \in DOMAIN queue[x] /\ queue'[x][j] = queue[x][j + Off(l, x)]
      BY <1>1, <1>2, <2>5, <3>1, PassStep
    <3> QED BY <1>1, <2>3, <3>2 DEF RInv, NoZero
  <2> QED BY <1>1, <2>6, <2>7, <2>8, Together
<1> QED BY <1>7, <1>8, <1>9 DEF RegisterAck

LEMMA InitWays == Init => RInv
<1> SUFFICES ASSUME Init PROVE RInv
  OBVIOUS
<1>1. TypeOK /\ QOK(queue) /\ Root \notin Sons
  BY InitOK, Links DEF IInv
<1>2. f_pedb = [p \in PE |-> <<>>] /\ queue = [l \in Link |-> <<>>] /\ tree \in [Sons -> PE]
      /\ inbox = <<>> /\ cpus = <<>>
  BY TreeAssumption DEF Init
<1>3. Given = {} /\ Below /\ NoZero
  BY <1>2, RootAssumption DEF Given, Below, NoZero
<1>4. FirstHop /\ SecondHop
  BY <1>3 DEF FirstHop, SecondHop
<1>5. ASSUME NEW p \in Sons
      PROVE  IF tree[p] = Root
             THEN Cardinality(Asks(queue, p)) + Cardinality(Ents(p)) <= Own(p) + Len(f_pedb[p])
             ELSE Cardinality(Asks(queue, p)) + Len(f_pedb[tree[p]]) <= Own(p)
  <2>1. Asks(queue, p) = {} /\ Ents(p) = {}
    <3>1. queue[<<"up", p>>] = <<>> /\ f_pedb[Root] = <<>>
      BY <1>1, <1>2, Links, RootAssumption
    <3> QED BY <3>1 DEF Asks, Ents, Places
  <2>2. f_pedb[p] = <<>> /\ f_pedb[tree[p]] = <<>>
    BY <1>2 DEF Sons
  <2>3. Cardinality({}) = 0 /\ Len(<<>>) = 0
    BY FS_EmptySet
  <2> QED BY <2>1, <2>2, <2>3 DEF Own
<1>6. AsksOK
  BY <1>5 DEF AsksOK
<1> QED BY <1>3, <1>4, <1>6 DEF RInv, Ways

LEMMA NextWays == IInv /\ RInv /\ [Next]_vars => RInv'
<1> SUFFICES ASSUME IInv, RInv, [Next]_vars PROVE RInv'
  OBVIOUS
<1>1. IInv'
  BY NextOK
<1>2. ASSUME NEW p \in PE, AddCallbacks(p) PROVE RInv'
  BY <1>1, <1>2, AsideWays DEF AddCallbacks, mgr
<1>3. ASSUME NEW l \in Link, ArriveSilently(l) PROVE RInv'
  BY <1>1, <1>3, AsideWays DEF ArriveSilently, mgr
<1>4. ASSUME NEW p \in PE, Start(p) \/ Report(p) PROVE RInv'
  BY <1>1, <1>4, StartWays, ReportWays
<1>5. ASSUME NEW l \in Link, Handle(l) PROVE RInv'
  BY <1>1, <1>5, RegisterSonWays, RegisterAckWays, CfgDaemonWays, RouteUpWays,
     RouteDownWays DEF Handle
<1>6. CASE HwmanStart \/ HwmanAddCpu
  BY <1>1, <1>6, HwmanStartWays, HwmanAddCpuWays
<1>7. CASE UNCHANGED vars
  BY <1>1, <1>7, AsideWays DEF vars, mgr
<1> QED BY <1>2, <1>3, <1>4, <1>5, <1>6, <1>7 DEF Next

\* search_slave_itf finds an entry for an id that is there.
LEMMA FindHits ==
  ASSUME NEW s \in Seq(Entry), NEW x, \E i \in DOMAIN s : s[i].id = x
  PROVE  /\ Find(s, "id", x) # 0 /\ Find(s, "id", x) \in DOMAIN s
         /\ s[Find(s, "id", x)].id = x
<1> DEFINE hits == {i \in DOMAIN s : s[i]["id"] = x}
<1>1. DOMAIN s = 1..Len(s) /\ Len(s) \in Nat
  BY LenProperties
<1>2. hits # {} /\ hits \in SUBSET Nat /\ 0 \notin hits
  BY <1>1
<1>3. Find(s, "id", x) = CHOOSE i \in hits : \A j \in hits : i <= j
  BY <1>2 DEF Find
<1> HIDE DEF hits
<1>4. \E i \in hits : \A j \in hits : i <= j
  BY <1>2, MinExists
<1>5. Find(s, "id", x) \in hits
  BY <1>3, <1>4
<1> QED BY <1>2, <1>5 DEF hits

LEMMA WaysAreEnough == IInv /\ RInv => Routable
<1> SUFFICES ASSUME IInv, RInv, Narrow, NEW p \in Sons, Contains(cpus, fe_local_id[p])
             PROVE  Routed(p)
  BY DEF Routable
<1> DEFINE g == fe_local_id[p]
           t == tree[p]
<1>1. /\ TypeOK /\ f_pedb \in [PE -> Seq(Entry)] /\ t \in PE
  BY TreeAssumption DEF IInv, TypeOK
<1>2. g \in Given /\ Has(p, g)
  <2>1. g # 0
    BY DEF RInv, NoZero, Contains
  <2> QED BY <2>1 DEF IInv, AnswersOK, Has
<1>3. NextHop(Root, g) # 0 /\ f_pedb[Root][NextHop(Root, g)].son = Top(p)
  <2>1. \E i \in DOMAIN f_pedb[Root] : f_pedb[Root][i].id = g
    BY <1>2 DEF Given
  <2> DEFINE i == NextHop(Root, g)
  <2>2. i # 0 /\ i \in DOMAIN f_pedb[Root] /\ f_pedb[Root][i].id = g
    BY <1>1, <2>1, RootAssumption, FindHits DEF NextHop
  <2> HIDE DEF i, g
  <2>3. f_pedb[Root][i].son = Top(p)
    BY <1>2, <2>2 DEF RInv, Ways, FirstHop
  <2> QED BY <2>2, <2>3 DEF i
<1>4. ASSUME t # Root
      PROVE  NextHop(t, g) # 0 /\ f_pedb[t][NextHop(t, g)].son = p
  <2>1. \E i \in DOMAIN f_pedb[t] : f_pedb[t][i].id = g
    BY <1>2, <1>4 DEF RInv, Ways, SecondHop
  <2> DEFINE i == NextHop(t, g)
  <2>2. i # 0 /\ i \in DOMAIN f_pedb[t] /\ f_pedb[t][i].id = g
    BY <1>1, <2>1, FindHits DEF NextHop
  <2>3. tree[f_pedb[t][i].son] = t
    BY <1>1, <2>2 DEF RInv, Below
  <2>4. f_pedb[t][i] \in Entry
    BY <1>1, <2>2, LenProperties, ElementOfSeq
  <2>5. f_pedb[t][i].son = p
    BY <1>1, <1>4, <2>3, <2>4, NarrowTwo DEF Entry
  <2> QED BY <2>2, <2>5
<1> HIDE DEF g
<1>5. CASE t = Root
  <2>1. Path(p) = <<Root, p>> /\ Top(p) = p
    BY <1>5 DEF Path, Top
  <2>2. \A k \in 1..(Len(Path(p)) - 1) : k = 1 /\ Path(p)[k] = Root /\ Path(p)[k + 1] = p
    BY <2>1
  <2> QED BY <1>3, <2>1, <2>2 DEF Routed, g
<1>6. CASE t # Root
  <2>1. Path(p) = <<Root, t, p>> /\ Top(p) = t
    BY <1>6 DEF Path, Top
  <2>2. \A k \in 1..(Len(Path(p)) - 1) :
           \/ k = 1 /\ Path(p)[k] = Root /\ Path(p)[k + 1] = t
           \/ k = 2 /\ Path(p)[k] = t /\ Path(p)[k + 1] = p
    BY <2>1
  <2> HIDE DEF t
  <2> QED BY <1>3, <1>4, <1>6, <2>1, <2>2 DEF Routed, g
<1> QED BY <1>5, <1>6

-----------------------------------------------------------------------------
(* The theorems.                                                           *)

LEMMA SpecIInv == Spec => []IInv
<1> QED BY InitOK, NextOK, PTL DEF Spec

\* Every reachable state has its type: on any platform, the packets have a place and a
\* reader, and each entry of f_pedb names a son.
THEOREM TypeCorrect == Spec => []TypeOK
<1>1. IInv => TypeOK
  BY DEF IInv
<1> QED BY <1>1, SpecIInv, PTL

\* No two PEs ever have the same id, on a platform of any size and shape, in whatever
\* order the FRONT-ENDs start, pass requests on and answer them.
THEOREM IdsAreUnique == Spec => []UniqueIds
<1> QED BY SpecIInv, IInvGivesUniqueIds, PTL

\* On a platform where no PE but the top one has more than one PE below it, and none of
\* those has any, a packet for the id of a PE that HWMAN knows is sent on, by each
\* FRONT-END it comes through, to the PE on its way: also between the moment an id is
\* corrected at the top and the moment the FRONT-END below learns of it.
THEOREM WaysAreRight == Spec => []Routable
<1>1. Spec => []RInv
  <2>1. Init => RInv
    BY InitWays
  <2>2. IInv /\ RInv /\ [Next]_vars => RInv'
    BY NextWays
  <2> QED BY <2>1, <2>2, SpecIInv, PTL DEF Spec
<1>2. IInv /\ RInv => Routable
  BY WaysAreEnough
<1> QED BY <1>1, <1>2, SpecIInv, PTL

=============================================================================
