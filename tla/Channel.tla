------------------------------- MODULE Channel -------------------------------
(***************************************************************************)
(* A data interface from one waveform object to another.                   *)
(*                                                                         *)
(* Two objects of one PE share a message queue.  Between PEs there are     *)
(* five queues in a row: the writer's interface, which the BRIDGE daemon   *)
(* of its PE reads; that PE's external interface, which a process of netd  *)
(* sends through a socket; the socket; the external interface of the other *)
(* PE, filled by its netd; and the reader's interface, filled by the       *)
(* BRIDGE of its PE.  BRIDGE sleeps until a signal tells it that there is  *)
(* a packet, then reads until it finds none, or fails to pass one on.      *)
(*                                                                         *)
(* A packet carries the time stamp from which it can be read as the type   *)
(* of its message, and the reader asks for the lowest type up to its own   *)
(* time stamp.  Here a packet is its number and that time stamp.           *)
(***************************************************************************)
EXTENDS Integers, Sequences, SequencesExt

CONSTANTS
  Paths,     \* the ways from writer to reader that are considered
  Delay,     \* delay of the interface, hw_api_db->default_delay if it has none
  Cap,       \* how many packets a queue holds (MSG_QBYTES)
  ItfId,     \* the id of the reader's side, in the header BRIDGE puts
  MaxPkts,   \* bound: the packets that are written
  MaxTs      \* bound: the time stamps of the writer

ASSUME PathAssumption  == Paths \subseteq {"local", "tcp", "udp"}
ASSUME DelayAssumption == Delay \in Nat \ {0}
ASSUME ItfAssumption   == ItfId \in 1..(2^16 - 1)
ASSUME BoundAssumption == Cap \in Nat \ {0} /\ MaxPkts \in Nat /\ MaxTs \in Nat

VARIABLES
  path,      \* one of Paths, chosen at mapping
  wts, rts,  \* obj_tstamp of the writer and of the reader
  nsent,     \* packets written so far
  wpc,       \* "sent": the writer is between msgsnd and the signal
  hascallback, sigOut, brOut,  \* BRIDGE of the writer's PE: the interface is in
             \* its table; signals queued for it; in the loop of itf_rcv
  npc,       \* the same as wpc, of the netd process that receives
  known, sigIn, brIn,          \* BRIDGE of the reader's PE, likewise
  link,      \* the connection of the external interface
  out, xout, wire, xin, in,    \* the queues, in the order a packet goes
  got,       \* history: the numbers of the packets read
  early      \* history: a packet was written before BRIDGE had its callback

clocks   == <<wts, rts>>
outVars  == <<hascallback, sigOut, brOut>>
inVars   == <<known, sigIn, brIn>>
queues   == <<out, xout, wire, xin, in>>
vars == <<path, clocks, nsent, wpc, outVars, npc, inVars, link, queues, got, early>>

\* msgsnd with IPC_NOWAIT fails when there is no room.
\* (mutant: one packet too many)
RoomForOneMore(q) == Len(q) <= Cap
Room(q) == Len(q) < Cap

\* sigqueue of a real-time signal: each one is queued.
\* (mutant: an ordinary signal, which is pending or not)
QueuedOnce(n) == 1
Queued(n) == n + 1

-----------------------------------------------------------------------------
(* The two objects.                                                        *)

\* Status() returns in a new time slot.
WTurn == /\ wpc = "idle" /\ wts < MaxTs /\ wts' = wts + 1
         /\ UNCHANGED <<path, rts, nsent, wpc, outVars, npc, inVars, link, queues,
                        got, early>>
RTurn == /\ rts < MaxTs + Delay /\ rts' = rts + 1
         /\ UNCHANGED <<path, wts, nsent, wpc, outVars, npc, inVars, link, queues,
                        got, early>>

\* hwapi_itf_snd_.  A full queue drops the packet and changes nothing.
Packet == [no |-> nsent + 1, ts |-> wts + Delay]
Write ==
  /\ wpc = "idle" /\ nsent < MaxPkts /\ nsent' = nsent + 1
  /\ \/ /\ path = "local" /\ Room(in) /\ in' = Append(in, Packet)
        /\ UNCHANGED <<out, wpc>>
     \/ /\ path # "local" /\ Room(out) /\ out' = Append(out, Packet)
        /\ wpc' = "sent" /\ UNCHANGED in
  /\ UNCHANGED <<path, clocks, outVars, npc, inVars, link, xout, wire, xin, got, early>>

\* The rest of msgsndcallback.
WSignal ==
  /\ wpc = "sent" /\ wpc' = "idle"
  /\ sigOut' = IF hascallback THEN Queued(sigOut) ELSE sigOut
  /\ early' = (early \/ ~hascallback)
  /\ UNCHANGED <<path, clocks, nsent, hascallback, brOut, npc, inVars, link, queues, got>>

\* The message msgrcv returns for type -obj_tstamp: the first of the lowest type
\* up to it, or the first of all when obj_tstamp is 0.  0: ENOMSG.
\* (mutants: the type is not negated; the type is left 0, as for a daemon)
FirstOf(S) == IF S = {} THEN 0 ELSE CHOOSE i \in S : \A j \in S : i <= j
SelectedEqual(q, ts) == FirstOf({i \in DOMAIN q : ts \in {0, q[i].ts}})
SelectedAny(q, ts) == FirstOf(DOMAIN q)
Selected(q, ts) ==
  FirstOf({i \in DOMAIN q : \/ ts = 0
                            \/ /\ q[i].ts <= ts
                               /\ \A j \in DOMAIN q : q[i].ts <= q[j].ts})

\* hwapi_itf_rcv__ of an object.
Read ==
  /\ Selected(in, rts) # 0
  /\ in' = RemoveAt(in, Selected(in, rts))
  /\ got' = Append(got, in[Selected(in, rts)].no)
  /\ UNCHANGED <<path, clocks, nsent, wpc, outVars, npc, inVars, link,
                 out, xout, wire, xin, early>>

-----------------------------------------------------------------------------
(* BRIDGE on the writer's PE.                                              *)

\* bridge_incmd_additf for an interface that is written.
AddOut ==
  /\ path # "local" /\ ~hascallback /\ hascallback' = TRUE
  /\ UNCHANGED <<path, clocks, nsent, wpc, sigOut, brOut, npc, inVars, link, queues,
                 got, early>>

\* hwapi_idle takes a signal and itf_rcv is called.
WakeOut ==
  /\ ~brOut /\ sigOut > 0 /\ brOut' = TRUE /\ sigOut' = sigOut - 1
  /\ UNCHANGED <<path, clocks, nsent, wpc, hascallback, npc, inVars, link, queues,
                 got, early>>

\* One round of its loop, which ends when there is no packet or packet_out could
\* not send it.
BridgeOut ==
  /\ brOut
  /\ \/ out = <<>> /\ brOut' = FALSE /\ UNCHANGED <<out, xout>>
     \/ /\ out # <<>> /\ out' = Tail(out)
        /\ IF Room(xout) THEN xout' = Append(xout, Head(out)) /\ UNCHANGED brOut
                         ELSE brOut' = FALSE /\ UNCHANGED xout
  /\ UNCHANGED <<path, clocks, nsent, wpc, hascallback, sigOut, npc, inVars, link,
                 wire, xin, in, got, early>>

-----------------------------------------------------------------------------
(* netd and the network.                                                   *)

\* net_packet_snd.
NetSend ==
  /\ link = "up" /\ xout # <<>> /\ Room(wire)
  /\ wire' = Append(wire, Head(xout)) /\ xout' = Tail(xout)
  /\ UNCHANGED <<path, clocks, nsent, wpc, outVars, npc, inVars, link, out, xin, in,
                 got, early>>

\* net_packet_rcv_tcp and net_packet_rcv_udp, which wait for room in the queue.
NetReceive ==
  /\ npc = "idle" /\ Room(xin)
  /\ \E i \in DOMAIN wire :
       /\ path = "tcp" => i = 1
       /\ xin' = Append(xin, wire[i]) /\ wire' = RemoveAt(wire, i)
  /\ npc' = "sent"
  /\ UNCHANGED <<path, clocks, nsent, wpc, outVars, inVars, link, out, xout, in,
                 got, early>>

\* The rest of msgsndcallback.
NetSignal ==
  /\ npc = "sent" /\ npc' = "idle" /\ sigIn' = Queued(sigIn)
  /\ UNCHANGED <<path, clocks, nsent, wpc, outVars, known, brIn, link, queues,
                 got, early>>

\* The network loses a datagram.
Lose ==
  /\ path = "udp"
  /\ \E i \in DOMAIN wire : wire' = RemoveAt(wire, i)
  /\ UNCHANGED <<path, clocks, nsent, wpc, outVars, npc, inVars, link, out, xout,
                 xin, in, got, early>>

\* The connection is lost, with what it held.  do_net_chld of the sender clears
\* out_mbox_id and waits for another, which BRIDGE sets only when it starts.
Disconnect ==
  /\ path = "tcp" /\ link = "up" /\ link' = "down" /\ wire' = <<>>
  /\ UNCHANGED <<path, clocks, nsent, wpc, outVars, npc, inVars, out, xout, xin, in,
                 got, early>>

-----------------------------------------------------------------------------
(* BRIDGE on the reader's PE.                                              *)

\* bridge_incmd_additf for an interface that is read.
AddIn ==
  /\ path # "local" /\ ~known /\ known' = TRUE
  /\ UNCHANGED <<path, clocks, nsent, wpc, outVars, npc, sigIn, brIn, link, queues,
                 got, early>>

WakeIn ==
  /\ ~brIn /\ sigIn > 0 /\ brIn' = TRUE /\ sigIn' = sigIn - 1
  /\ UNCHANGED <<path, clocks, nsent, wpc, outVars, npc, known, link, queues,
                 got, early>>

\* Only the first byte is compared with BRIDGE_IDENT_MAGIC; it is the low byte of
\* the interface's id.
IsIdent == ItfId % 256 = 0

\* The time stamp packet_in forces: the one in the header BRIDGE put.
\* (mutant: the one a daemon gives to its own packets)
UnstampedType(p) == [p EXCEPT !.ts = 1]
ForcedType(p) == p

\* packet_in passes the packet on, or fails: no such destination, or no room.
BridgeIn ==
  /\ brIn
  /\ \/ xin = <<>> /\ brIn' = FALSE /\ UNCHANGED <<xin, in>>
     \/ /\ xin # <<>> /\ xin' = Tail(xin)
        /\ IF ~IsIdent /\ known /\ Room(in)
           THEN in' = Append(in, ForcedType(Head(xin))) /\ UNCHANGED brIn
           ELSE brIn' = FALSE /\ UNCHANGED in
  /\ UNCHANGED <<path, clocks, nsent, wpc, outVars, npc, known, sigIn, link,
                 out, xout, wire, got, early>>

-----------------------------------------------------------------------------
Init ==
  /\ path \in Paths
  /\ wts = 0 /\ rts = 0 /\ nsent = 0 /\ wpc = "idle" /\ npc = "idle"
  /\ hascallback = FALSE /\ sigOut = 0 /\ brOut = FALSE
  /\ known = FALSE /\ sigIn = 0 /\ brIn = FALSE
  /\ link = "up" /\ out = <<>> /\ xout = <<>> /\ wire = <<>> /\ xin = <<>>
  /\ in = <<>> /\ got = <<>> /\ early = FALSE

Next ==
  \/ WTurn \/ RTurn \/ Write \/ WSignal \/ Read
  \/ AddOut \/ WakeOut \/ BridgeOut
  \/ NetSend \/ NetReceive \/ NetSignal \/ Lose \/ Disconnect
  \/ AddIn \/ WakeIn \/ BridgeIn

Spec == Init /\ [][Next]_vars

\* The daemons are event loops and a call once begun ends.  The reader is run
\* in every time slot and reads its inputs in each, as the skeleton does.
Fairness ==
  /\ WF_vars(WSignal) /\ WF_vars(WakeOut) /\ WF_vars(BridgeOut)
  /\ WF_vars(NetSignal) /\ WF_vars(WakeIn) /\ WF_vars(BridgeIn)
  /\ WF_vars(RTurn) /\ WF_vars(Read)

FairSpec == Spec /\ Fairness

-----------------------------------------------------------------------------
(* Properties.                                                             *)

Pkt == [no : 1..MaxPkts, ts : 1..(MaxTs + Delay)]
Queue == {q \in Seq(Pkt) : Len(q) <= Cap}

\* Every variable has its type and no queue holds more than it can.
TypeOK ==
  /\ path \in Paths /\ link \in {"up", "down"}
  /\ wts \in 0..MaxTs /\ rts \in 0..(MaxTs + Delay) /\ nsent \in 0..MaxPkts
  /\ wpc \in {"idle", "sent"} /\ npc \in {"idle", "sent"}
  /\ hascallback \in BOOLEAN /\ sigOut \in Nat /\ brOut \in BOOLEAN
  /\ known \in BOOLEAN /\ sigIn \in Nat /\ brIn \in BOOLEAN
  /\ out \in Queue /\ xout \in Queue /\ wire \in Queue
  /\ xin \in Queue /\ in \in Queue
  /\ got \in Seq(1..MaxPkts) /\ early \in BOOLEAN

\* BRIDGE never goes to sleep on a packet: each packet in a queue it reads has a
\* signal of its own, queued or about to be, but for one that the loop BRIDGE is in
\* is sure to reach, however many it took in one go and wherever it stopped.  (A
\* packet written before the callback was installed has no signal.)
One(b) == IF b THEN 1 ELSE 0
NoneStranded ==
  /\ ~early => Len(out) <= sigOut + One(wpc = "sent") + One(brOut)
  /\ Len(xin) <= sigIn + One(npc = "sent") + One(brIn)

\* Once the writer has written its last packet BRIDGE empties both queues it
\* reads, however many packets it could not pass on.
Drained == []<>(out = <<>> \/ early) /\ []<>(xin = <<>>)

\* And so does the reader its own queue: the time stamp of each packet comes, and
\* no packet of another time stamp keeps it back.
ReadInTime == []<>(in = <<>>)

\* Whatever the path, the two objects see a TimedChannel: the time stamps forced
\* by BRIDGE, the choice by lowest type and the packets dropped on the way let no
\* packet be read before it is due, out of order (but for UDP) or twice, and none
\* is lost between objects of one PE.
Pending == UNION {{q[i] : i \in DOMAIN q} : q \in {out, xout, wire, xin, in}}
TC == INSTANCE TimedChannel WITH
        Dues <- 1..(MaxTs + Delay), pending <- Pending, written <- nsent, now <- rts,
        ordered <- path # "udp", reliable <- path = "local"
IsTimedChannel == TC!Spec

\* "[The magic] replaces header, can't be any combination of possible obj_id or
\* itf_id": a packet of data is never taken for an identification.
NotTakenForIdent == brIn /\ xin # <<>> => ~IsIdent
=============================================================================
