----------------------------- MODULE TimedChannel -----------------------------
(***************************************************************************)
(* What a data interface promises to the two objects it joins, whatever    *)
(* carries the packets: a packet is read in the time stamp it is due or in *)
(* a later one, the packets are read in the order they were written unless *)
(* the network reorders them, and none is lost between objects of one PE.  *)
(***************************************************************************)
EXTENDS Naturals, Sequences

CONSTANT Dues   \* the time stamps a packet can be due in, 0 not among them

VARIABLES
  pending,   \* the packets written and neither read nor lost
  written,   \* how many packets have been written: they are numbered from 1
  now,       \* the time stamp of the reader
  got,       \* the numbers of the packets read, in the order they were read
  ordered,   \* the packets are read in the order they were written
  reliable   \* no packet is lost

vars == <<pending, written, now, got, ordered, reliable>>

Init ==
  /\ pending = {} /\ written = 0 /\ now = 0 /\ got = <<>>
  /\ ordered \in BOOLEAN /\ reliable \in BOOLEAN

\* A packet is written, due in some time stamp after the first.
Put ==
  /\ \E due \in Dues :
       pending' = pending \cup {[no |-> written + 1, ts |-> due]}
  /\ written' = written + 1
  /\ UNCHANGED <<now, got, ordered, reliable>>

Advance == now' = now + 1 /\ UNCHANGED <<pending, written, got, ordered, reliable>>

Lose(S) ==
  /\ ~reliable
  /\ pending' = pending \ S
  /\ UNCHANGED <<written, now, got, ordered, reliable>>

\* The reader takes a packet.  Before its first time slot it has no time stamp
\* to hold a packet back with.
Take(p) ==
  /\ p.ts <= now \/ now = 0
  /\ ordered => \A q \in pending : p.no <= q.no
  /\ pending' = pending \ {p} /\ got' = Append(got, p.no)
  /\ UNCHANGED <<written, now, ordered, reliable>>

Next ==
  \/ Put \/ Advance
  \/ \E S \in SUBSET pending : Lose(S)
  \/ \E p \in pending : Take(p)

Spec == Init /\ [][Next]_vars
=============================================================================
