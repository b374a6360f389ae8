---------------------------- MODULE Channel_proofs ----------------------------
(***************************************************************************)
(* Proofs about Channel, for queues of any length, any number of packets   *)
(* and any delay.                                                          *)
(***************************************************************************)
EXTENDS Channel, NatLemmas, SequenceTheorems

-----------------------------------------------------------------------------
(* Queues.                                                                 *)

\* msgsnd to a queue with room leaves a queue.
LEMMA SendToQueue ==
  ASSUME NEW q \in Queue, Room(q), NEW p \in Pkt
  PROVE  Append(q, p) \in Queue /\ Len(Append(q, p)) = Len(q) + 1
<1>1. q \in Seq(Pkt) /\ Len(q) \in Nat
  BY LenProperties DEF Queue
<1>2. Append(q, p) \in Seq(Pkt) /\ Len(Append(q, p)) = Len(q) + 1
  BY <1>1, AppendProperties
<1> QED BY <1>1, <1>2, BoundAssumption DEF Queue, Room

\* msgrcv of type 0 takes a packet and leaves a queue.
LEMMA ReceiveFromQueue ==
  ASSUME NEW q \in Queue, q # <<>>
  PROVE  Head(q) \in Pkt /\ Tail(q) \in Queue /\ Len(Tail(q)) = Len(q) - 1
<1>1. q \in Seq(Pkt) /\ Len(q) \in Nat
  BY LenProperties DEF Queue
<1>2. Head(q) \in Pkt /\ Tail(q) \in Seq(Pkt) /\ Len(Tail(q)) = Len(q) - 1
  BY <1>1, HeadTailProperties
<1> QED BY <1>1, <1>2, BoundAssumption DEF Queue

\* So does taking one from the middle.
LEMMA RemoveFromQueue ==
  ASSUME NEW q \in Queue, NEW i \in DOMAIN q
  PROVE  q[i] \in Pkt /\ RemoveAt(q, i) \in Queue
<1>1. q \in Seq(Pkt) /\ Len(q) \in Nat /\ i \in 1..Len(q) /\ Len(q) <= Cap
  BY LenProperties DEF Queue
<1>2. q[i] \in Pkt
  BY <1>1, ElementOfSeq
<1>3. /\ SubSeq(q, 1, i - 1) \in Seq(Pkt)
      /\ Len(SubSeq(q, 1, i - 1)) = i - 1
  BY <1>1, SubSeqProperties
<1>4. /\ SubSeq(q, i + 1, Len(q)) \in Seq(Pkt)
      /\ Len(SubSeq(q, i + 1, Len(q))) = Len(q) - i
  BY <1>1, SubSeqProperties
<1>5. /\ RemoveAt(q, i) \in Seq(Pkt)
      /\ Len(RemoveAt(q, i)) = (i - 1) + (Len(q) - i)
  BY <1>3, <1>4, ConcatProperties DEF RemoveAt
<1>6. Len(RemoveAt(q, i)) <= Cap
  BY <1>1, <1>5, BoundAssumption
<1> QED BY <1>2, <1>5, <1>6 DEF Queue

\* msgrcv by time stamp returns a packet of the queue, or none.
LEMMA SelectedInQueue ==
  ASSUME NEW q \in Queue, NEW ts, Selected(q, ts) # 0
  PROVE  Selected(q, ts) \in DOMAIN q
<1> DEFINE S == {i \in DOMAIN q : \/ ts = 0
                                  \/ /\ q[i].ts <= ts
                                     /\ \A j \in DOMAIN q : q[i].ts <= q[j].ts}
<1>1. S \in SUBSET Nat /\ S \subseteq DOMAIN q
  BY LenProperties DEF Queue
<1>2. Selected(q, ts) = FirstOf(S)
  BY DEF Selected
<1> HIDE DEF S
<1>3. S # {}
  BY <1>2 DEF FirstOf
<1>4. \E x \in S : \A y \in S : x <= y
  BY <1>1, <1>3, MinExists
<1>5. FirstOf(S) \in S
  BY <1>3, <1>4 DEF FirstOf
<1> QED BY <1>1, <1>2, <1>5

-----------------------------------------------------------------------------
(* Type correctness.                                                       *)

LEMMA InitType == Init => TypeOK
<1> SUFFICES ASSUME Init PROVE TypeOK
  OBVIOUS
<1>1. <<>> \in Queue /\ <<>> \in Seq(1..MaxPkts)
  BY EmptySeq, BoundAssumption DEF Queue
<1>2. path \in Paths /\ link \in {"up", "down"} /\ wpc = "idle" /\ npc = "idle"
  BY DEF Init
<1>3. wts \in 0..MaxTs /\ rts \in 0..(MaxTs + Delay) /\ nsent \in 0..MaxPkts
  BY BoundAssumption, DelayAssumption DEF Init
<1>4. /\ hascallback \in BOOLEAN /\ sigOut \in Nat /\ brOut \in BOOLEAN
      /\ known \in BOOLEAN /\ sigIn \in Nat /\ brIn \in BOOLEAN
      /\ early \in BOOLEAN
  BY DEF Init
<1>5. /\ out \in Queue /\ xout \in Queue /\ wire \in Queue
      /\ xin \in Queue /\ in \in Queue /\ got \in Seq(1..MaxPkts)
  BY <1>1 DEF Init
<1> QED BY <1>2, <1>3, <1>4, <1>5 DEF TypeOK

LEMMA NextType == TypeOK /\ [Next]_vars => TypeOK'
<1> SUFFICES ASSUME TypeOK, [Next]_vars PROVE TypeOK'
  OBVIOUS
<1> USE BoundAssumption, DelayAssumption
<1>1. CASE WTurn
  BY <1>1 DEF WTurn, TypeOK, outVars, inVars, queues
<1>2. CASE RTurn
  BY <1>2 DEF RTurn, TypeOK, outVars, inVars, queues
<1>3. CASE Write
  <2>1. Packet \in Pkt
    BY <1>3 DEF Write, Packet, Pkt, TypeOK
  <2>2. Room(in) => Append(in, Packet) \in Queue
    BY <2>1, SendToQueue DEF TypeOK
  <2>3. Room(out) => Append(out, Packet) \in Queue
    BY <2>1, SendToQueue DEF TypeOK
  <2>4. in' \in Queue /\ out' \in Queue
    BY <1>3, <2>2, <2>3 DEF Write, TypeOK
  <2> QED BY <1>3, <2>4 DEF Write, TypeOK, clocks, outVars, inVars
<1>4. CASE WSignal
  BY <1>4 DEF WSignal, Queued, TypeOK, clocks, inVars, queues
<1>5. CASE Read
  <2> DEFINE i == Selected(in, rts)
  <2>1. i \in DOMAIN in
    BY <1>5, SelectedInQueue DEF Read, TypeOK
  <2>2. in[i] \in Pkt /\ RemoveAt(in, i) \in Queue
    BY <2>1, RemoveFromQueue DEF TypeOK
  <2>3. in[i].no \in 1..MaxPkts
    BY <2>2 DEF Pkt
  <2>4. in' = RemoveAt(in, i) /\ got' = Append(got, in[i].no)
    BY <1>5 DEF Read
  <2>5. got' \in Seq(1..MaxPkts)
    BY <2>3, <2>4, AppendProperties DEF TypeOK
  <2> HIDE DEF i
  <2> QED BY <1>5, <2>2, <2>4, <2>5 DEF Read, TypeOK, clocks, outVars, inVars
<1>6. CASE AddOut
  BY <1>6 DEF AddOut, TypeOK, clocks, inVars, queues
<1>7. CASE WakeOut
  BY <1>7 DEF WakeOut, TypeOK, clocks, inVars, queues
<1>8. CASE BridgeOut
  <2>1. out # <<>> => Head(out) \in Pkt /\ Tail(out) \in Queue
    BY ReceiveFromQueue DEF TypeOK
  <2>2. out # <<>> /\ Room(xout) => Append(xout, Head(out)) \in Queue
    BY <2>1, SendToQueue DEF TypeOK
  <2>3. out' \in Queue /\ xout' \in Queue /\ brOut' \in BOOLEAN
    BY <1>8, <2>1, <2>2 DEF BridgeOut, TypeOK
  <2> QED BY <1>8, <2>3 DEF BridgeOut, TypeOK, clocks, inVars
<1>9. CASE NetSend
  <2>1. Head(xout) \in Pkt /\ Tail(xout) \in Queue
    BY <1>9, ReceiveFromQueue DEF NetSend, TypeOK
  <2>2. Append(wire, Head(xout)) \in Queue
    BY <1>9, <2>1, SendToQueue DEF NetSend, TypeOK
  <2> QED BY <1>9, <2>1, <2>2 DEF NetSend, TypeOK, clocks, outVars, inVars
<1>10. CASE NetReceive
  <2>1. PICK i \in DOMAIN wire : xin' = Append(xin, wire[i]) /\ wire' = RemoveAt(wire, i)
    BY <1>10 DEF NetReceive
  <2>2. wire[i] \in Pkt /\ RemoveAt(wire, i) \in Queue
    BY <2>1, RemoveFromQueue DEF TypeOK
  <2>3. Append(xin, wire[i]) \in Queue
    BY <1>10, <2>2, SendToQueue DEF NetReceive, TypeOK
  <2> QED BY <1>10, <2>1, <2>2, <2>3 DEF NetReceive, TypeOK, clocks, outVars, inVars
<1>11. CASE NetSignal
  BY <1>11 DEF NetSignal, Queued, TypeOK, clocks, outVars, queues
<1>12. CASE Lose
  <2>1. PICK i \in DOMAIN wire : wire' = RemoveAt(wire, i)
    BY <1>12 DEF Lose
  <2>2. wire' \in Queue
    BY <2>1, RemoveFromQueue DEF TypeOK
  <2> QED BY <1>12, <2>2 DEF Lose, TypeOK, clocks, outVars, inVars
<1>13. CASE Disconnect
  <2>1. <<>> \in Queue
    BY EmptySeq DEF Queue
  <2> QED BY <1>13, <2>1 DEF Disconnect, TypeOK, clocks, outVars, inVars
<1>14. CASE AddIn
  BY <1>14 DEF AddIn, TypeOK, clocks, outVars, queues
<1>15. CASE WakeIn
  BY <1>15 DEF WakeIn, TypeOK, clocks, outVars, queues
<1>16. CASE BridgeIn
  <2>1. xin # <<>> => Head(xin) \in Pkt /\ Tail(xin) \in Queue
    BY ReceiveFromQueue DEF TypeOK
  <2>2. xin # <<>> /\ Room(in) => Append(in, ForcedType(Head(xin))) \in Queue
    BY <2>1, SendToQueue DEF TypeOK, ForcedType
  <2>3. xin' \in Queue /\ in' \in Queue /\ brIn' \in BOOLEAN
    BY <1>16, <2>1, <2>2 DEF BridgeIn, TypeOK
  <2> QED BY <1>16, <2>3 DEF BridgeIn, TypeOK, clocks, outVars
<1>17. CASE UNCHANGED vars
  BY <1>17 DEF vars, TypeOK, clocks, outVars, inVars, queues
<1> QED
  BY <1>1, <1>2, <1>3, <1>4, <1>5, <1>6, <1>7, <1>8, <1>9, <1>10, <1>11, <1>12,
     <1>13, <1>14, <1>15, <1>16, <1>17 DEF Next

\* Every variable keeps its type and no queue overflows.
THEOREM TypeCorrect == Spec => []TypeOK
BY InitType, NextType, PTL DEF Spec

-----------------------------------------------------------------------------
(* No packet is left behind without a signal.                              *)

LEMMA InitStranded == Init => NoneStranded
BY EmptySeq DEF Init, NoneStranded, One

LEMMA NextStranded == TypeOK /\ NoneStranded /\ [Next]_vars => NoneStranded'
<1> SUFFICES ASSUME TypeOK, NoneStranded, [Next]_vars PROVE NoneStranded'
  OBVIOUS
<1>1. /\ Len(out) \in Nat /\ Len(xin) \in Nat
      /\ sigOut \in Nat /\ sigIn \in Nat
  BY LenProperties DEF TypeOK, Queue
<1>2. \A b \in BOOLEAN : One(b) \in {0, 1}
  BY DEF One
\* The writer's side: only a packet written, a signal sent, a signal taken and a
\* round of the loop concern it.
<1>3. ~early' => Len(out') <= sigOut' + One(wpc' = "sent") + One(brOut')
  <2>1. CASE Write
    <3>1. Packet \in Pkt
      BY <2>1, BoundAssumption, DelayAssumption DEF Write, Packet, Pkt, TypeOK
    <3>2. Room(out) => Len(Append(out, Packet)) = Len(out) + 1
      BY <3>1, SendToQueue DEF TypeOK
    <3>3. CASE UNCHANGED <<out, wpc>>
      BY <2>1, <3>3 DEF Write, outVars, NoneStranded
    <3>4. CASE Room(out) /\ out' = Append(out, Packet) /\ wpc' = "sent"
      <4>1. Len(out') = Len(out) + 1 /\ wpc = "idle"
        BY <2>1, <3>2, <3>4 DEF Write
      <4>2. ~early' => Len(out) <= sigOut' + One(brOut')
        BY <1>1, <1>2, <2>1, <4>1 DEF Write, outVars, NoneStranded, One, TypeOK
      <4>3. One(wpc' = "sent") = 1
        BY <3>4 DEF One
      <4>4. sigOut' \in Nat /\ One(brOut') \in {0, 1}
        BY <1>1, <2>1 DEF Write, outVars, One
      <4> QED BY <1>1, <4>1, <4>2, <4>3, <4>4
    <3> QED BY <2>1, <3>3, <3>4 DEF Write
  <2>2. CASE WSignal
    <3> SUFFICES ASSUME ~early' PROVE Len(out') <= sigOut' + One(wpc' = "sent") + One(brOut')
      OBVIOUS
    <3>1. ~early /\ hascallback
      BY <2>2 DEF WSignal
    <3>2. /\ sigOut' = sigOut + 1 /\ wpc = "sent" /\ wpc' = "idle"
          /\ UNCHANGED <<out, brOut>>
      BY <2>2, <3>1 DEF WSignal, Queued, queues
    <3>3. One(wpc = "sent") = 1 /\ One(wpc' = "sent") = 0 /\ One(brOut) \in {0, 1}
      BY <3>2 DEF One
    <3>4. Len(out) <= sigOut + One(wpc = "sent") + One(brOut)
      BY <3>1 DEF NoneStranded
    <3> QED BY <1>1, <3>2, <3>3, <3>4
  <2>3. CASE WakeOut
    BY <1>1, <2>3 DEF WakeOut, queues, NoneStranded, One
  <2>4. CASE BridgeOut
    <3>1. out # <<>> => Len(Tail(out)) = Len(out) - 1
      BY ReceiveFromQueue DEF TypeOK
    <3>2. Len(<<>>) = 0
      BY EmptySeq
    <3>3. UNCHANGED <<sigOut, wpc, early>> /\ brOut = TRUE
      BY <2>4 DEF BridgeOut
    <3>4. ~early => Len(out) <= sigOut + One(wpc = "sent") + 1
      BY <3>3 DEF NoneStranded, One
    <3>5. \/ out' = <<>>
          \/ out # <<>> /\ out' = Tail(out)
      BY <2>4 DEF BridgeOut
    <3>6. One(wpc = "sent") \in {0, 1} /\ One(brOut') \in {0, 1}
      BY DEF One
    <3> QED BY <1>1, <3>1, <3>2, <3>3, <3>4, <3>5, <3>6
  <2>5. CASE UNCHANGED <<out, sigOut, wpc, brOut, early>>
    BY <2>5 DEF NoneStranded
  <2> QED
    BY <2>1, <2>2, <2>3, <2>4, <2>5
    DEF Next, WTurn, RTurn, Read, AddOut, NetSend, NetReceive, NetSignal, Lose,
        Disconnect, AddIn, WakeIn, BridgeIn, vars, outVars, queues
\* The reader's side, likewise.
<1>4. Len(xin') <= sigIn' + One(npc' = "sent") + One(brIn')
  <2>1. CASE NetReceive
    <3>1. PICK i \in DOMAIN wire : xin' = Append(xin, wire[i])
      BY <2>1 DEF NetReceive
    <3>2. wire[i] \in Pkt
      BY <3>1, RemoveFromQueue DEF TypeOK
    <3>3. Len(xin') = Len(xin) + 1
      BY <2>1, <3>1, <3>2, SendToQueue DEF NetReceive, TypeOK
    <3> QED BY <1>1, <2>1, <3>3 DEF NetReceive, inVars, NoneStranded, One
  <2>2. CASE NetSignal
    BY <1>1, <2>2 DEF NetSignal, Queued, queues, NoneStranded, One
  <2>3. CASE WakeIn
    BY <1>1, <2>3 DEF WakeIn, queues, NoneStranded, One
  <2>4. CASE BridgeIn
    <3>1. xin # <<>> => Len(Tail(xin)) = Len(xin) - 1
      BY ReceiveFromQueue DEF TypeOK
    <3>2. Len(<<>>) = 0
      BY EmptySeq
    <3>3. UNCHANGED <<sigIn, npc>> /\ brIn = TRUE
      BY <2>4 DEF BridgeIn
    <3>4. Len(xin) <= sigIn + One(npc = "sent") + 1
      BY <3>3 DEF NoneStranded, One
    <3>5. \/ xin' = <<>>
          \/ xin # <<>> /\ xin' = Tail(xin)
      BY <2>4 DEF BridgeIn
    <3>6. One(npc = "sent") \in {0, 1} /\ One(brIn') \in {0, 1}
      BY DEF One
    <3> QED BY <1>1, <3>1, <3>2, <3>3, <3>4, <3>5, <3>6
  <2>5. CASE UNCHANGED <<xin, sigIn, npc, brIn>>
    BY <2>5 DEF NoneStranded
  <2> QED
    BY <2>1, <2>2, <2>3, <2>4, <2>5
    DEF Next, WTurn, RTurn, Write, WSignal, Read, AddOut, WakeOut, BridgeOut,
        NetSend, Lose, Disconnect, AddIn, vars, inVars, queues
<1> QED BY <1>3, <1>4 DEF NoneStranded

\* BRIDGE never sleeps on a packet it was told of, whatever it drops and however
\* its signals and the packets interleave.
THEOREM NoPacketStranded == Spec => []NoneStranded
BY InitType, NextType, InitStranded, NextStranded, PTL DEF Spec
-----------------------------------------------------------------------------
(***************************************************************************)
(* The five queues are one line of packets from the reader back to the     *)
(* writer.  Along the line numbers and time stamps rise, unless the        *)
(* network reorders datagrams, and then no number comes twice.  A packet   *)
(* leaves a queue at its head, but for datagrams and for the choice the    *)
(* reader makes by type; that this choice is the head too is what the      *)
(* rising time stamps are for.                                             *)
(***************************************************************************)
Before(p, r) == IF path = "udp" THEN p.no # r.no ELSE p.no < r.no /\ p.ts <= r.ts

Elems(q)       == {q[i] : i \in DOMAIN q}
Sorted(q)      == \A i, j \in DOMAIN q : i < j => Before(q[i], q[j])
Precedes(q, r) == \A p \in Elems(q), s \in Elems(r) : Before(p, s)

LineOf(q1, q2, q3, q4, q5) ==
  /\ Sorted(q1) /\ Sorted(q2) /\ Sorted(q3) /\ Sorted(q4) /\ Sorted(q5)
  /\ Precedes(q1, q2) /\ Precedes(q1, q3) /\ Precedes(q1, q4) /\ Precedes(q1, q5)
  /\ Precedes(q2, q3) /\ Precedes(q2, q4) /\ Precedes(q2, q5)
  /\ Precedes(q3, q4) /\ Precedes(q3, q5) /\ Precedes(q4, q5)
LineOK == LineOf(in, xin, wire, xout, out)

\* What is on its way was written, in this time slot or before.
WrittenOK == \A p \in Pending : p.no <= nsent /\ p.ts <= wts + Delay

LocalOK == path = "local" => out = <<>> /\ xout = <<>> /\ wire = <<>> /\ xin = <<>>

LInv == TypeOK /\ LineOK /\ WrittenOK /\ LocalOK

LEMMA PendingElems ==
  Pending = Elems(out) \cup Elems(xout) \cup Elems(wire) \cup Elems(xin) \cup Elems(in)
BY DEF Pending, Elems

LEMMA QueueElems ==
  ASSUME NEW q \in Queue
  PROVE  /\ Elems(q) \subseteq Pkt /\ q \in Seq(Pkt)
         /\ Len(q) \in Nat /\ DOMAIN q = 1..Len(q)
BY LenProperties, ElementOfSeq DEF Queue, Elems

LEMMA NoElems == Elems(<<>>) = {} /\ Sorted(<<>>)
<1>1. DOMAIN <<>> = {}
  BY EmptySeq, LenProperties
<1> QED BY <1>1 DEF Elems, Sorted

\* A packet put behind the others.
LEMMA SentLast ==
  ASSUME NEW q \in Queue, NEW p \in Pkt, Sorted(q), \A x \in Elems(q) : Before(x, p)
  PROVE  Elems(Append(q, p)) = Elems(q) \cup {p} /\ Sorted(Append(q, p))
<1> DEFINE r == Append(q, p)
<1>1. Len(q) \in Nat /\ q \in Seq(Pkt) /\ DOMAIN q = 1..Len(q)
  BY QueueElems
<1>2. /\ Len(r) = Len(q) + 1 /\ r \in Seq(Pkt)
      /\ \A i \in 1..Len(q) : r[i] = q[i]
      /\ r[Len(q) + 1] = p
  BY <1>1, AppendProperties
<1>3. DOMAIN r = 1..(Len(q) + 1)
  BY <1>2, LenProperties
<1> HIDE DEF r
<1>4. Elems(r) = Elems(q) \cup {p}
  <2>1. ASSUME NEW x \in Elems(r) PROVE x \in Elems(q) \cup {p}
    <3>1. PICK i \in 1..(Len(q) + 1) : x = r[i]
      BY <1>3, <2>1 DEF Elems
    <3>2. i \in 1..Len(q) \/ i = Len(q) + 1
      BY <1>1
    <3> QED BY <1>1, <1>2, <3>1, <3>2 DEF Elems
  <2>2. Elems(q) \subseteq Elems(r)
    BY <1>1, <1>2, <1>3 DEF Elems
  <2>3. p \in Elems(r)
    BY <1>1, <1>2, <1>3 DEF Elems
  <2> QED BY <2>1, <2>2, <2>3
<1>5. Sorted(r)
  <2> SUFFICES ASSUME NEW i \in 1..(Len(q) + 1), NEW j \in 1..(Len(q) + 1), i < j
               PROVE  Before(r[i], r[j])
    BY <1>3 DEF Sorted
  <2>1. i \in 1..Len(q) /\ r[i] = q[i]
    BY <1>1, <1>2
  <2>2. CASE j \in 1..Len(q)
    BY <1>1, <1>2, <2>1, <2>2 DEF Sorted
  <2>3. CASE j = Len(q) + 1
    BY <1>1, <1>2, <2>1, <2>3 DEF Elems
  <2> QED BY <1>1, <2>2, <2>3
<1> QED BY <1>4, <1>5 DEF r

\* A packet taken out, from anywhere.
LEMMA TakenOut ==
  ASSUME NEW q \in Queue, NEW i \in DOMAIN q, Sorted(q)
  PROVE  LET r == RemoveAt(q, i) IN
         /\ Elems(q) = {q[i]} \cup Elems(r) /\ q[i] \in Pkt
         /\ Sorted(r)
         /\ \A x \in Elems(r) : Before(q[i], x) \/ Before(x, q[i])
         /\ i = 1 => \A x \in Elems(r) : Before(q[i], x)
<1> DEFINE r == RemoveAt(q, i)
           a == SubSeq(q, 1, i - 1)
           b == SubSeq(q, i + 1, Len(q))
<1>1. Len(q) \in Nat /\ q \in Seq(Pkt) /\ DOMAIN q = 1..Len(q) /\ i \in 1..Len(q)
  BY QueueElems
<1>2. /\ a \in Seq(Pkt) /\ Len(a) = i - 1
      /\ \A k \in 1..(i - 1) : a[k] = q[k]
  <2>1. \A k \in 1..(i - 1) : q[k] \in Pkt
    BY <1>1, ElementOfSeq
  <2>2. /\ a \in Seq(Pkt) /\ Len(a) = IF 1 <= i - 1 THEN (i - 1) - 1 + 1 ELSE 0
        /\ \A k \in 1..((i - 1) - 1 + 1) : a[k] = q[1 + k - 1]
    BY <1>1, <2>1, SubSeqProperties
  <2> HIDE DEF a
  <2> QED BY <1>1, <2>2
<1>3. /\ b \in Seq(Pkt) /\ Len(b) = Len(q) - i
      /\ \A k \in 1..(Len(q) - i) : b[k] = q[i + k]
  <2>1. \A k \in (i + 1)..Len(q) : q[k] \in Pkt
    BY <1>1, ElementOfSeq
  <2>2. /\ b \in Seq(Pkt) /\ Len(b) = IF i + 1 <= Len(q) THEN Len(q) - (i + 1) + 1 ELSE 0
        /\ \A k \in 1..(Len(q) - (i + 1) + 1) : b[k] = q[(i + 1) + k - 1]
    BY <1>1, <2>1, SubSeqProperties
  <2> HIDE DEF b
  <2>3. Len(q) - (i + 1) + 1 = Len(q) - i /\ (i + 1 <= Len(q) \/ Len(q) - i = 0)
    BY <1>1
  <2>4. \A k \in 1..(Len(q) - i) : (i + 1) + k - 1 = i + k
    BY <1>1
  <2>5. \A k \in 1..(Len(q) - i) : b[k] = q[i + k]
    BY <2>2, <2>3, <2>4
  <2> QED BY <1>1, <2>2, <2>3, <2>5
<1>4. /\ r \in Seq(Pkt) /\ Len(r) = Len(a) + Len(b)
      /\ \A k \in 1..(Len(a) + Len(b)) :
           r[k] = IF k <= Len(a) THEN a[k] ELSE b[k - Len(a)]
  BY <1>2, <1>3, ConcatProperties DEF RemoveAt
<1>5. DOMAIN r = 1..(Len(q) - 1)
  BY <1>1, <1>2, <1>3, <1>4, LenProperties
<1> HIDE DEF r, a, b
<1>6. \A k \in 1..(Len(q) - 1) : r[k] = IF k < i THEN q[k] ELSE q[k + 1]
  <2> TAKE k \in 1..(Len(q) - 1)
  <2>1. r[k] = IF k <= i - 1 THEN a[k] ELSE b[k - (i - 1)]
    BY <1>1, <1>2, <1>3, <1>4
  <2>2. CASE k < i
    BY <1>1, <1>2, <2>1, <2>2
  <2>3. CASE ~(k < i)
    <3>1. k - (i - 1) \in 1..(Len(q) - i)
      BY <1>1, <2>3
    <3>2. b[k - (i - 1)] = q[i + (k - (i - 1))]
      BY <1>3, <3>1
    <3>3. i + (k - (i - 1)) = k + 1
      BY <1>1
    <3> QED BY <1>1, <2>1, <2>3, <3>2, <3>3
  <2> QED BY <2>2, <2>3
<1>7. Elems(q) = {q[i]} \cup Elems(r)
  <2>1. ASSUME NEW j \in 1..Len(q), j # i PROVE q[j] \in Elems(r)
    <3>1. CASE j < i
      <4>1. j \in 1..(Len(q) - 1) /\ r[j] = q[j]
        BY <1>1, <1>6, <3>1
      <4> QED BY <1>5, <4>1 DEF Elems
    <3>2. CASE i < j
      <4>1. j - 1 \in 1..(Len(q) - 1) /\ r[j - 1] = q[j]
        BY <1>1, <1>6, <3>2
      <4> QED BY <1>5, <4>1 DEF Elems
    <3> QED BY <1>1, <2>1, <3>1, <3>2
  <2>2. Elems(r) \subseteq Elems(q)
    <3> SUFFICES ASSUME NEW k \in 1..(Len(q) - 1) PROVE r[k] \in Elems(q)
      BY <1>5 DEF Elems
    <3>1. k \in 1..Len(q) /\ k + 1 \in 1..Len(q)
      BY <1>1
    <3> QED BY <1>1, <1>6, <3>1 DEF Elems
  <2> QED BY <1>1, <2>1, <2>2 DEF Elems
<1>8. Sorted(r)
  <2> SUFFICES ASSUME NEW k \in 1..(Len(q) - 1), NEW l \in 1..(Len(q) - 1), k < l
               PROVE  Before(r[k], r[l])
    BY <1>5 DEF Sorted
  <2> DEFINE m(n) == IF n < i THEN n ELSE n + 1
  <2>1. r[k] = q[m(k)] /\ r[l] = q[m(l)]
    BY <1>1, <1>6
  <2>2. m(k) \in 1..Len(q) /\ m(l) \in 1..Len(q) /\ m(k) < m(l)
    BY <1>1
  <2> HIDE DEF m
  <2> QED BY <1>1, <2>1, <2>2 DEF Sorted
<1>9. ASSUME NEW x \in Elems(r)
      PROVE  /\ Before(q[i], x) \/ Before(x, q[i])
             /\ i = 1 => Before(q[i], x)
  <2>1. PICK k \in 1..(Len(q) - 1) : x = r[k]
    BY <1>5, <1>9 DEF Elems
  <2>2. CASE k < i
    BY <1>1, <1>6, <2>1, <2>2 DEF Sorted
  <2>3. CASE ~(k < i)
    <3>1. x = q[k + 1] /\ k + 1 \in 1..Len(q) /\ i < k + 1
      BY <1>1, <1>6, <2>1, <2>3
    <3> QED BY <1>1, <3>1 DEF Sorted
  <2> QED BY <2>2, <2>3
<1>10. q[i] \in Pkt
  BY <1>1, ElementOfSeq
<1> QED BY <1>7, <1>8, <1>9, <1>10 DEF r

\* A packet taken from the head.
LEMMA TakenFirst ==
  ASSUME NEW q \in Queue, q # <<>>, Sorted(q)
  PROVE  /\ Elems(q) = {Head(q)} \cup Elems(Tail(q)) /\ Head(q) \in Pkt
         /\ Sorted(Tail(q))
         /\ \A x \in Elems(Tail(q)) : Before(Head(q), x)
<1>1. q \in Seq(Pkt) /\ Len(q) \in Nat /\ DOMAIN q = 1..Len(q) /\ Len(q) # 0
  BY QueueElems, EmptySeq
<1>2. 1 \in DOMAIN q /\ Head(q) = q[1]
  BY <1>1
<1>3. RemoveAt(q, 1) = Tail(q)
  <2>1. SubSeq(q, 1, 1 - 1) = <<>>
    BY SubSeqEmpty
  <2>2. SubSeq(q, 1 + 1, Len(q)) = Tail(q)
    BY <1>1, TailIsSubSeq
  <2>3. Tail(q) \in Seq(Pkt)
    BY <1>1, HeadTailProperties
  <2> QED BY <2>1, <2>2, <2>3, ConcatEmptySeq DEF RemoveAt
<1>4. /\ Elems(q) = {q[1]} \cup Elems(RemoveAt(q, 1)) /\ q[1] \in Pkt
      /\ Sorted(RemoveAt(q, 1))
      /\ \A x \in Elems(RemoveAt(q, 1)) : Before(q[1], x)
  BY <1>2, TakenOut
<1> QED BY <1>2, <1>3, <1>4
\* A step that takes packets away and puts none keeps the line.
LEMMA FewerInLine ==
  ASSUME LineOK,
         Elems(in') \subseteq Elems(in) /\ Sorted(in'),
         Elems(xin') \subseteq Elems(xin) /\ Sorted(xin'),
         Elems(wire') \subseteq Elems(wire) /\ Sorted(wire'),
         Elems(xout') \subseteq Elems(xout) /\ Sorted(xout'),
         Elems(out') \subseteq Elems(out) /\ Sorted(out')
  PROVE  LineOf(in', xin', wire', xout', out')
BY DEF LineOK, LineOf, Precedes

LEMMA LineStep ==
  ASSUME path' = path, LineOf(in', xin', wire', xout', out')
  PROVE  LineOK'
BY DEF LineOK, LineOf, Sorted, Precedes, Before

LEMMA PendingNext ==
  Pending' = Elems(out') \cup Elems(xout') \cup Elems(wire') \cup Elems(xin') \cup Elems(in')
BY DEF Pending, Elems

-----------------------------------------------------------------------------
(* What each step that moves a packet does to the line and to what is on   *)
(* its way.                                                                *)

LEMMA WriteLine ==
  ASSUME LInv, Write
  PROVE  /\ LineOf(in', xin', wire', xout', out')
         /\ Packet \in Pkt /\ Pending' = Pending \cup {Packet}
<1>1. Packet \in Pkt /\ Packet.no = nsent + 1 /\ Packet.ts = wts + Delay
  BY BoundAssumption, DelayAssumption DEF Write, Packet, Pkt, LInv, TypeOK
<1>2. \A x \in Pending : x \in Pkt
  BY PendingElems, QueueElems DEF LInv, TypeOK
<1>3. \A x \in Pending : Before(x, Packet)
  <2> SUFFICES ASSUME NEW x \in Pending PROVE Before(x, Packet)
    OBVIOUS
  <2>1. x.no <= nsent /\ x.ts <= wts + Delay /\ x.no \in Int
    BY <1>2 DEF LInv, WrittenOK, Pkt
  <2>2. nsent \in Int
    BY DEF LInv, TypeOK
  <2> QED BY <1>1, <2>1, <2>2 DEF Before
<1>4. UNCHANGED <<xin, wire, xout>>
  BY DEF Write
<1>5. CASE path = "local"
  <2>1. in' = Append(in, Packet) /\ out' = out
    BY <1>5 DEF Write
  <2>2. Elems(in') = Elems(in) \cup {Packet} /\ Sorted(in')
    BY <1>1, <1>3, <2>1, PendingElems, SentLast DEF LInv, TypeOK, LineOK, LineOf
  <2>3. \A q \in {xin, wire, xout, out} : q = <<>>
    BY <1>5 DEF LInv, LocalOK
  <2> QED BY <1>1, <1>4, <2>1, <2>2, <2>3, NoElems, PendingElems, PendingNext
       DEF LInv, LineOK, LineOf, Precedes
<1>6. CASE path # "local"
  <2>1. out' = Append(out, Packet) /\ in' = in
    BY <1>6 DEF Write
  <2>2. Elems(out') = Elems(out) \cup {Packet} /\ Sorted(out')
    BY <1>1, <1>3, <2>1, PendingElems, SentLast DEF LInv, TypeOK, LineOK, LineOf
  <2>3. LineOf(in', xin', wire', xout', out')
    BY <1>3, <1>4, <2>1, <2>2, PendingElems DEF LInv, LineOK, LineOf, Precedes
  <2> QED BY <1>1, <1>4, <2>1, <2>2, <2>3, PendingElems, PendingNext
<1> QED BY <1>5, <1>6

\* A packet goes from the head of one queue to the end of the next one.
LEMMA MoveOn ==
  ASSUME NEW q \in Queue, NEW r \in Queue, q # <<>>, Sorted(q), Sorted(r), Precedes(r, q)
  PROVE  /\ Elems(Append(r, Head(q))) = Elems(r) \cup {Head(q)}
         /\ Elems(q) = {Head(q)} \cup Elems(Tail(q))
         /\ Sorted(Tail(q)) /\ Sorted(Append(r, Head(q)))
         /\ Precedes(Append(r, Head(q)), Tail(q))
<1>1. /\ Elems(q) = {Head(q)} \cup Elems(Tail(q)) /\ Head(q) \in Pkt
      /\ Sorted(Tail(q)) /\ \A x \in Elems(Tail(q)) : Before(Head(q), x)
  BY TakenFirst
<1>2. \A x \in Elems(r) : Before(x, Head(q))
  BY <1>1 DEF Precedes
<1>3. Elems(Append(r, Head(q))) = Elems(r) \cup {Head(q)} /\ Sorted(Append(r, Head(q)))
  BY <1>1, <1>2, SentLast
<1> QED BY <1>1, <1>3 DEF Precedes

LEMMA BridgeOutLine ==
  ASSUME LInv, BridgeOut
  PROVE  /\ LineOf(in', xin', wire', xout', out')
         /\ Pending' \subseteq Pending /\ (path = "local" => Pending' = Pending)
<1>1. UNCHANGED <<in, xin, wire>>
  BY DEF BridgeOut
<1>2. CASE out = <<>>
  <2>1. UNCHANGED <<out, xout>>
    BY <1>2 DEF BridgeOut
  <2> QED BY <1>1, <2>1, PendingElems, PendingNext DEF LInv, LineOK
<1>3. CASE out # <<>> /\ ~Room(xout)
  <2>1. out' = Tail(out) /\ xout' = xout /\ path # "local"
    BY <1>3 DEF BridgeOut, LInv, LocalOK
  <2>2. Elems(out') \subseteq Elems(out) /\ Sorted(out')
    BY <1>3, <2>1, TakenFirst DEF LInv, TypeOK, LineOK, LineOf
  <2>3. LineOf(in', xin', wire', xout', out')
    BY <1>1, <2>1, <2>2, FewerInLine DEF LInv, LineOK, LineOf
  <2> QED BY <1>1, <2>1, <2>2, <2>3, PendingElems, PendingNext
<1>4. CASE out # <<>> /\ Room(xout)
  <2>1. out' = Tail(out) /\ xout' = Append(xout, Head(out))
    BY <1>4 DEF BridgeOut
  <2>2. /\ Elems(xout') = Elems(xout) \cup {Head(out)}
        /\ Elems(out) = {Head(out)} \cup Elems(out')
        /\ Sorted(out') /\ Sorted(xout') /\ Precedes(xout', out')
    BY <1>4, <2>1, MoveOn DEF LInv, TypeOK, LineOK, LineOf
  <2>3. LineOf(in', xin', wire', xout', out')
    BY <1>1, <2>2 DEF LInv, LineOK, LineOf, Precedes
  <2> QED BY <1>1, <2>2, <2>3, PendingElems, PendingNext
<1> QED BY <1>2, <1>3, <1>4

LEMMA NetSendLine ==
  ASSUME LInv, NetSend
  PROVE  LineOf(in', xin', wire', xout', out') /\ Pending' = Pending
<1>1. /\ UNCHANGED <<in, xin, out>> /\ xout # <<>>
      /\ wire' = Append(wire, Head(xout)) /\ xout' = Tail(xout)
  BY DEF NetSend
<1>2. /\ Elems(wire') = Elems(wire) \cup {Head(xout)}
      /\ Elems(xout) = {Head(xout)} \cup Elems(xout')
      /\ Sorted(xout') /\ Sorted(wire') /\ Precedes(wire', xout')
  BY <1>1, MoveOn DEF LInv, TypeOK, LineOK, LineOf
<1>3. LineOf(in', xin', wire', xout', out')
  BY <1>1, <1>2 DEF LInv, LineOK, LineOf, Precedes
<1> QED BY <1>1, <1>2, <1>3, PendingElems, PendingNext

\* Only datagrams overtake each other on the wire, and of these only the numbers
\* differ.
LEMMA NetReceiveLine ==
  ASSUME LInv, NetReceive
  PROVE  LineOf(in', xin', wire', xout', out') /\ Pending' = Pending
<1>1. UNCHANGED <<in, xout, out>>
  BY DEF NetReceive
<1>2. PICK i \in DOMAIN wire : /\ path = "tcp" => i = 1
                               /\ xin' = Append(xin, wire[i]) /\ wire' = RemoveAt(wire, i)
  BY DEF NetReceive
<1>3. /\ Elems(wire) = {wire[i]} \cup Elems(wire') /\ wire[i] \in Pkt
      /\ Sorted(wire')
      /\ \A x \in Elems(wire') : Before(wire[i], x) \/ Before(x, wire[i])
      /\ i = 1 => \A x \in Elems(wire') : Before(wire[i], x)
  BY <1>2, TakenOut DEF LInv, TypeOK, LineOK, LineOf
<1>4. path = "udp" \/ i = 1
  <2>1. wire # <<>>
    BY <1>2, QueueElems, EmptySeq DEF LInv, TypeOK
  <2> QED BY <1>2, <2>1, PathAssumption DEF LInv, TypeOK, LocalOK
<1>5. \A x \in Elems(wire') : Before(wire[i], x)
  BY <1>3, <1>4 DEF Before
<1>6. \A x \in Elems(xin) : Before(x, wire[i])
  BY <1>3 DEF LInv, LineOK, LineOf, Precedes
<1>7. Elems(xin') = Elems(xin) \cup {wire[i]} /\ Sorted(xin')
  BY <1>2, <1>3, <1>6, SentLast DEF LInv, TypeOK, LineOK, LineOf
<1>8. LineOf(in', xin', wire', xout', out')
  BY <1>1, <1>3, <1>5, <1>7 DEF LInv, LineOK, LineOf, Precedes
<1> QED BY <1>1, <1>3, <1>7, <1>8, PendingElems, PendingNext

LEMMA BridgeInLine ==
  ASSUME LInv, BridgeIn
  PROVE  /\ LineOf(in', xin', wire', xout', out')
         /\ Pending' \subseteq Pending /\ (path = "local" => Pending' = Pending)
<1>1. UNCHANGED <<out, xout, wire>>
  BY DEF BridgeIn
<1>2. CASE xin = <<>>
  <2>1. UNCHANGED <<xin, in>>
    BY <1>2 DEF BridgeIn
  <2> QED BY <1>1, <2>1, PendingElems, PendingNext DEF LInv, LineOK
<1>3. CASE xin # <<>> /\ in' = in
  <2>1. xin' = Tail(xin) /\ path # "local"
    BY <1>3 DEF BridgeIn, LInv, LocalOK
  <2>2. Elems(xin') \subseteq Elems(xin) /\ Sorted(xin')
    BY <1>3, <2>1, TakenFirst DEF LInv, TypeOK, LineOK, LineOf
  <2>3. LineOf(in', xin', wire', xout', out')
    BY <1>1, <1>3, <2>1, <2>2, FewerInLine DEF LInv, LineOK, LineOf
  <2> QED BY <1>1, <1>3, <2>1, <2>2, <2>3, PendingElems, PendingNext
<1>4. CASE xin # <<>> /\ in' # in
  <2>1. xin' = Tail(xin) /\ in' = Append(in, Head(xin))
    BY <1>4 DEF BridgeIn, ForcedType
  <2>2. /\ Elems(in') = Elems(in) \cup {Head(xin)}
        /\ Elems(xin) = {Head(xin)} \cup Elems(xin')
        /\ Sorted(xin') /\ Sorted(in') /\ Precedes(in', xin')
    BY <1>4, <2>1, MoveOn DEF LInv, TypeOK, LineOK, LineOf
  <2>3. LineOf(in', xin', wire', xout', out')
    BY <1>1, <2>2 DEF LInv, LineOK, LineOf, Precedes
  <2>4. path # "local"
    BY <1>4 DEF LInv, LocalOK
  <2> QED BY <1>1, <2>2, <2>3, PendingElems, PendingNext
<1> QED BY <1>2, <1>3, <1>4

LEMMA LossLine ==
  ASSUME LInv, Lose \/ Disconnect
  PROVE  /\ LineOf(in', xin', wire', xout', out')
         /\ Pending' \subseteq Pending /\ path # "local"
<1>1. UNCHANGED <<out, xout, xin, in>> /\ path # "local"
  BY DEF Lose, Disconnect
<1>2. Elems(wire') \subseteq Elems(wire) /\ Sorted(wire')
  <2>1. CASE Lose
    <3>1. PICK i \in DOMAIN wire : wire' = RemoveAt(wire, i)
      BY <2>1 DEF Lose
    <3> QED BY <3>1, TakenOut DEF LInv, TypeOK, LineOK, LineOf
  <2>2. CASE Disconnect
    BY <2>2, NoElems DEF Disconnect
  <2> QED BY <2>1, <2>2
<1>3. LineOf(in', xin', wire', xout', out')
  BY <1>1, <1>2, FewerInLine DEF LInv, LineOK, LineOf
<1> QED BY <1>1, <1>2, <1>3, PendingElems, PendingNext

\* The packet msgrcv selects: it is due, and unless datagrams are reordered it is
\* the first of all that are on their way.
LEMMA ReadLine ==
  ASSUME LInv, Read
  PROVE  LET p == in[Selected(in, rts)] IN
         /\ LineOf(in', xin', wire', xout', out')
         /\ p \in Pending /\ Pending' = Pending \ {p}
         /\ p.ts <= rts \/ rts = 0
         /\ path # "udp" => \A x \in Pending : p.no <= x.no
<1> DEFINE i == Selected(in, rts)
           S == {j \in DOMAIN in : \/ rts = 0
                                   \/ /\ in[j].ts <= rts
                                      /\ \A k \in DOMAIN in : in[j].ts <= in[k].ts}
<1>1. UNCHANGED <<out, xout, wire, xin>> /\ in' = RemoveAt(in, i) /\ i # 0
  BY DEF Read
<1>2. /\ in \in Seq(Pkt) /\ Len(in) \in Nat /\ DOMAIN in = 1..Len(in)
      /\ Elems(in) \subseteq Pkt /\ rts \in Nat
  BY QueueElems, DelayAssumption, BoundAssumption DEF LInv, TypeOK
<1>3. i \in S /\ \A j \in S : i <= j
  <2>1. i = FirstOf(S)
    BY DEF Selected
  <2>2. S \in SUBSET Nat
    BY <1>2
  <2> HIDE DEF S, i
  <2>3. S # {}
    BY <1>1, <2>1 DEF FirstOf
  <2>4. \E x \in S : \A y \in S : x <= y
    BY <2>2, <2>3, MinExists
  <2> QED BY <2>1, <2>3, <2>4 DEF FirstOf
<1>4. i \in DOMAIN in /\ (in[i].ts <= rts \/ rts = 0)
  BY <1>3
<1>5. path # "udp" => i = 1
  <2> SUFFICES ASSUME path # "udp" PROVE i = 1
    OBVIOUS
  <2>1. 1 \in DOMAIN in
    BY <1>2, <1>4
  <2>2. \A j \in DOMAIN in : in[j] \in Pkt /\ in[j].ts \in Int
    <3>1. \A j \in DOMAIN in : in[j] \in Pkt
      BY <1>2, ElementOfSeq
    <3>2. \A x \in Pkt : x.ts \in Int
      BY DelayAssumption, BoundAssumption DEF Pkt
    <3> QED BY <3>1, <3>2
  <2>3. \A j \in DOMAIN in : in[1].ts <= in[j].ts
    <3> SUFFICES ASSUME NEW j \in DOMAIN in PROVE in[1].ts <= in[j].ts
      OBVIOUS
    <3>1. CASE j = 1
      BY <2>2, <3>1
    <3>2. CASE j # 1
      <4>1. 1 < j
        BY <1>2, <3>2
      <4> QED BY <2>1, <4>1 DEF LInv, LineOK, LineOf, Sorted, Before
    <3> QED BY <3>1, <3>2
  <2>4. rts = 0 \/ in[1].ts <= rts
    BY <1>2, <1>4, <2>1, <2>2, <2>3
  <2>5. 1 \in S
    BY <2>1, <2>3, <2>4
  <2> HIDE DEF S, i
  <2> QED BY <1>2, <1>3, <1>4, <2>5
<1> HIDE DEF S, i
<1>6. /\ Elems(in) = {in[i]} \cup Elems(in') /\ in[i] \in Pkt /\ Sorted(in')
      /\ \A x \in Elems(in') : Before(in[i], x) \/ Before(x, in[i])
      /\ i = 1 => \A x \in Elems(in') : Before(in[i], x)
  BY <1>1, <1>4, TakenOut DEF LInv, TypeOK, LineOK, LineOf
<1>7. LineOf(in', xin', wire', xout', out')
  BY <1>1, <1>6, FewerInLine DEF LInv, LineOK, LineOf
<1>8. \A x \in Pending' : x \in Elems(in') \/ Before(in[i], x)
  BY <1>1, <1>6, PendingNext DEF LInv, LineOK, LineOf, Precedes
<1>9. \A x \in Pending : x = in[i] \/ x \in Pending'
  BY <1>1, <1>6, PendingElems, PendingNext
<1>10. \A x \in Pending : x \in Pkt
  BY PendingElems, QueueElems DEF LInv, TypeOK
<1>11. Pending' \subseteq Pending /\ in[i] \in Pending
  BY <1>1, <1>6, PendingElems, PendingNext
<1>12. in[i] \notin Pending'
  <2>1. in[i].no \in Int
    BY <1>6 DEF Pkt
  <2>2. ~Before(in[i], in[i])
    BY <2>1 DEF Before
  <2> QED BY <1>6, <1>8, <2>2
<1>13. path # "udp" => \A x \in Pending : in[i].no <= x.no
  <2> SUFFICES ASSUME path # "udp", NEW x \in Pending PROVE in[i].no <= x.no
    OBVIOUS
  <2>1. in[i].no \in Int /\ x.no \in Int
    BY <1>6, <1>10 DEF Pkt
  <2>2. x = in[i] \/ Before(in[i], x)
    BY <1>5, <1>6, <1>8, <1>9
  <2> QED BY <2>1, <2>2 DEF Before
<1> QED BY <1>4, <1>7, <1>9, <1>11, <1>12, <1>13 DEF i
-----------------------------------------------------------------------------
(* The line is kept, and each step is one of TimedChannel.                 *)

LEMMA InitLine == Init => LInv
<1> SUFFICES ASSUME Init PROVE LInv
  OBVIOUS
<1>1. out = <<>> /\ xout = <<>> /\ wire = <<>> /\ xin = <<>> /\ in = <<>>
  BY DEF Init
<1>2. LineOK
  BY <1>1, NoElems DEF LineOK, LineOf, Precedes
<1>3. WrittenOK
  BY <1>1, NoElems, PendingElems DEF WrittenOK
<1> QED BY <1>1, <1>2, <1>3, InitType DEF LInv, LocalOK

\* The steps that move no packet.
Still == WTurn \/ RTurn \/ WSignal \/ AddOut \/ WakeOut \/ NetSignal \/ AddIn \/ WakeIn

LEMMA StillLine ==
  ASSUME LInv, Still \/ UNCHANGED vars
  PROVE  LineOf(in', xin', wire', xout', out') /\ Pending' = Pending /\ UNCHANGED <<path, queues>>
<1>1. UNCHANGED <<path, queues>>
  BY DEF Still, vars, WTurn, RTurn, WSignal, AddOut, WakeOut, NetSignal, AddIn, WakeIn, queues
<1> QED BY <1>1, PendingElems, PendingNext DEF queues, LInv, LineOK

LEMMA NextLine == LInv /\ [Next]_vars => LInv'
<1> SUFFICES ASSUME LInv, [Next]_vars PROVE LInv'
  OBVIOUS
<1>1. TypeOK'
  BY NextType DEF LInv
<1>2. path' = path /\ wts <= wts' /\ nsent <= nsent'
  <2>1. wts \in Int /\ nsent \in Int
    BY DEF LInv, TypeOK
  <2> QED BY <2>1 DEF Next, WTurn, RTurn, Write, WSignal, Read, AddOut, WakeOut, BridgeOut,
       NetSend, NetReceive, NetSignal, Lose, Disconnect, AddIn, WakeIn, BridgeIn, vars, clocks
<1>3. \/ Still \/ UNCHANGED vars \/ Write \/ Read \/ BridgeOut \/ BridgeIn
      \/ NetSend \/ NetReceive \/ Lose \/ Disconnect
  BY DEF Next, Still
<1>4. LineOK'
  BY <1>2, <1>3, LineStep, StillLine, WriteLine, ReadLine, BridgeOutLine, BridgeInLine,
     NetSendLine, NetReceiveLine, LossLine
<1>5. WrittenOK'
  <2> SUFFICES ASSUME NEW x \in Pending' PROVE x.no <= nsent' /\ x.ts <= wts' + Delay
    BY DEF WrittenOK
  <2>1. /\ wts \in Int /\ wts' \in Int /\ nsent \in Int /\ nsent' \in Int /\ Delay \in Int
    BY <1>1, DelayAssumption DEF LInv, TypeOK
  <2>2. CASE x \in Pending
    <3>1. x \in Pkt
      BY <2>2, PendingElems, QueueElems DEF LInv, TypeOK
    <3>2. x.no \in Int /\ x.ts \in Int
      BY <3>1, DelayAssumption, BoundAssumption DEF Pkt
    <3>3. x.no <= nsent /\ x.ts <= wts + Delay
      BY <2>2 DEF LInv, WrittenOK
    <3> QED BY <1>2, <2>1, <3>2, <3>3
  <2>3. CASE x \notin Pending
    <3>1. Write
      BY <1>3, <2>3, StillLine, ReadLine, BridgeOutLine, BridgeInLine, NetSendLine,
         NetReceiveLine, LossLine
    <3>2. x = Packet
      BY <2>3, <3>1, WriteLine
    <3> QED BY <2>1, <3>1, <3>2 DEF Write, Packet, clocks
  <2> QED BY <2>2, <2>3
<1>6. LocalOK'
  <2> SUFFICES ASSUME path = "local"
               PROVE  out' = <<>> /\ xout' = <<>> /\ wire' = <<>> /\ xin' = <<>>
    BY <1>2 DEF LocalOK
  <2>1. out = <<>> /\ xout = <<>> /\ wire = <<>> /\ xin = <<>>
    BY DEF LInv, LocalOK
  <2>2. ~NetSend /\ ~Lose /\ ~Disconnect
    BY <2>1 DEF NetSend, Lose, Disconnect
  <2>3. ~NetReceive
    <3>1. DOMAIN wire = {}
      BY <2>1, EmptySeq, LenProperties
    <3> QED BY <3>1 DEF NetReceive
  <2>4. UNCHANGED <<out, xout, wire, xin>>
    <3>1. CASE Still \/ UNCHANGED vars
      BY <3>1, StillLine DEF queues
    <3>2. CASE Write \/ Read \/ BridgeOut \/ BridgeIn
      BY <2>1, <3>2 DEF Write, Read, BridgeOut, BridgeIn
    <3> QED BY <1>3, <2>2, <2>3, <3>1, <3>2
  <2> QED BY <2>1, <2>4
<1> QED BY <1>1, <1>4, <1>5, <1>6 DEF LInv

\* A packet lost is a step of TimedChannel, whichever packets it concerns.
LEMMA LossSimulated ==
  ASSUME Pending' \subseteq Pending, path # "local" \/ Pending' = Pending,
         UNCHANGED <<nsent, rts, got, path>>
  PROVE  [TC!Next]_TC!vars
<1>1. CASE Pending' = Pending
  BY <1>1 DEF TC!vars
<1>2. CASE path # "local"
  <2>1. Pending' = Pending \ (Pending \ Pending')
    OBVIOUS
  <2>2. TC!Lose(Pending \ Pending')
    BY <1>2, <2>1 DEF TC!Lose
  <2> QED BY <2>2 DEF TC!Next
<1> QED BY <1>1, <1>2

LEMMA StepSimulated == LInv /\ [Next]_vars => [TC!Next]_TC!vars
<1> SUFFICES ASSUME LInv, [Next]_vars PROVE [TC!Next]_TC!vars
  OBVIOUS
<1>1. CASE Write
  <2>1. Packet \in Pkt /\ Pending' = Pending \cup {Packet}
    BY <1>1, WriteLine
  <2>2. Packet = [no |-> nsent + 1, ts |-> wts + Delay] /\ wts + Delay \in 1..(MaxTs + Delay)
    BY <2>1 DEF Packet, Pkt
  <2>3. nsent' = nsent + 1 /\ UNCHANGED <<path, rts, got>>
    BY <1>1 DEF Write, clocks
  <2>4. TC!Put
    BY <2>1, <2>2, <2>3 DEF TC!Put
  <2> QED BY <2>4 DEF TC!Next
<1>2. CASE Read
  <2> DEFINE p == in[Selected(in, rts)]
  <2>1. /\ p \in Pending /\ Pending' = Pending \ {p}
        /\ p.ts <= rts \/ rts = 0
        /\ path # "udp" => \A x \in Pending : p.no <= x.no
    BY <1>2, ReadLine
  <2>2. got' = Append(got, p.no) /\ UNCHANGED <<path, nsent, rts>>
    BY <1>2 DEF Read, clocks
  <2> HIDE DEF p
  <2>3. TC!Take(p)
    BY <2>1, <2>2 DEF TC!Take
  <2> QED BY <2>1, <2>3 DEF TC!Next
<1>3. CASE RTurn
  <2>1. Pending' = Pending
    BY <1>3, StillLine DEF Still
  <2>2. TC!Advance
    BY <1>3, <2>1 DEF RTurn, TC!Advance
  <2> QED BY <2>2 DEF TC!Next
<1>4. CASE (Still /\ ~RTurn) \/ UNCHANGED vars
  <2>1. Pending' = Pending
    BY <1>4, StillLine
  <2>2. UNCHANGED <<nsent, rts, got, path>>
    BY <1>4 DEF Still, vars, WTurn, WSignal, AddOut, WakeOut, NetSignal, AddIn, WakeIn, clocks
  <2> QED BY <2>1, <2>2, LossSimulated
<1>5. CASE BridgeOut \/ BridgeIn \/ NetSend \/ NetReceive \/ Lose \/ Disconnect
  <2>1. UNCHANGED <<nsent, rts, got, path>>
    BY <1>5 DEF BridgeOut, BridgeIn, NetSend, NetReceive, Lose, Disconnect, clocks
  <2>2. Pending' \subseteq Pending /\ (path # "local" \/ Pending' = Pending)
    BY <1>5, BridgeOutLine, BridgeInLine, NetSendLine, NetReceiveLine, LossLine
  <2> QED BY <2>1, <2>2, LossSimulated
<1> QED BY <1>1, <1>2, <1>3, <1>4, <1>5 DEF Next, Still

LEMMA InitSimulated == Init => TC!Init
<1> SUFFICES ASSUME Init PROVE TC!Init
  OBVIOUS
<1>1. Pending = {}
  BY NoElems, PendingElems DEF Init
<1> QED BY <1>1 DEF Init, TC!Init

\* Whatever carries the packets of a data interface, the two objects see a
\* TimedChannel, for any length of the queues, any delay and any number of packets:
\* none is read before its time stamp, twice, or (but for UDP) out of order, and
\* none is lost between objects of one PE.
THEOREM ChannelIsTimed == Spec => IsTimedChannel
<1>1. Spec => []LInv
  BY InitLine, NextLine, PTL DEF Spec
<1>2. Spec => TC!Init /\ [][TC!Next]_TC!vars
  BY <1>1, InitSimulated, StepSimulated, PTL DEF Spec
<1> QED BY <1>2 DEF IsTimedChannel, TC!Spec
=============================================================================
