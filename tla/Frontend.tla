------------------------------ MODULE Frontend ------------------------------
(***************************************************************************)
(* The FRONT-END daemons of a platform, one per PE.                        *)
(*                                                                         *)
(* The PEs form a tree of control interfaces: each PE but the one of the   *)
(* managers has a master interface, to its parent, and any PE may have     *)
(* slave interfaces, to its sons.  When it starts, a FRONT-END asks its    *)
(* parent for an id; the request climbs to the top, which gives the id,    *)
(* and the answer comes down through the FRONT-ENDs that passed the        *)
(* request on.  Then it reports its PE to HWMAN, which has all the BRIDGE  *)
(* daemons it knows of identified again, with packets the FRONT-ENDs route *)
(* down by PE id.                                                          *)
(*                                                                         *)
(* A FRONT-END sleeps until the signal of a packet, and then reads its     *)
(* interface until there is none.  A packet that comes before the callback *)
(* is added has no signal, and waits for the next one to be noticed.       *)
(***************************************************************************)
EXTENDS Naturals, Sequences, SequencesExt

CONSTANTS
  PE,        \* the processing elements
  Root,      \* the one with the managers, which has no master interface
  Trees      \* the platforms considered: the parent of each other PE

Sons == PE \ {Root}

ASSUME RootAssumption == Root \in PE
ASSUME TreeAssumption == Trees \subseteq [Sons -> PE]

RootId  == 2   \* fe_local_id of a local master
FirstId == 4   \* what register_to_parent asks for

\* The interfaces a FRONT-END reads: the master interface of a son, the slave
\* interface its parent has for it, and the internal one of the daemons.
Down == {"down"} \X Sons
Up   == {"up"} \X Sons
In   == <<"in", Root>>
Link == Down \cup Up \cup {In}

VARIABLES
  tree,      \* the platform, one of Trees
  started,   \* the PEs whose FRONT-END has done frontend_init_p
  running,   \* those whose FRONT-END has added its callbacks, in frontend_run
  queue,     \* the packets on their way to, and in, each interface
  silent,    \* how many of them have come without a signal
  fe_local_id,
  f_pedb,    \* the entries of each FRONT-END, the last one put first
  hwman,     \* "off"; "started" once it has sent its CFGITF; "on" in daemon_cfg
  reported,  \* first_monitor: the PEs that have sent ADDCPU
  inbox,     \* the ids in the ADDCPUs HWMAN has not read yet
  cpus,      \* the ids in the pedb of HWMAN, the last one put first
  ident,     \* history: the PEs whose BRIDGE was told to identify itself
  unheard       \* history: an ADDCPU came before HWMAN could be reached

fe     == <<fe_local_id, f_pedb>>
mgr    == <<hwman, inbox, cpus>>
vars == <<tree, started, running, queue, silent, fe, mgr, reported, ident, unheard>>

Reader(l) == IF l[1] = "up" THEN tree[l[2]] ELSE l[2]

Register(id, req) == [cmd |-> "REGISTERSON", id |-> id, req |-> req]
Ack(id, req)      == [cmd |-> "REGISTERACK", id |-> id, req |-> req]
AddCpu(id)        == [cmd |-> "ADDCPU", id |-> id]
Ident(id)         == [cmd |-> "IDENT", id |-> id]
CfgItf            == [cmd |-> "CFGITF"]

\* The queues with one packet more, and with one less.
Added(q, l, pkt) == [q EXCEPT ![l] = Append(@, pkt)]
Removed(q, l)    == [q EXCEPT ![l] = Tail(@)]

\* hwapi_itf_snd to the FRONT-END at the other side of a control interface.
Send(l, pkt) == queue' = Added(queue, l, pkt)

-----------------------------------------------------------------------------
(* Start of a FRONT-END and arrival of packets.                            *)

\* frontend_init_p, with register_to_parent.
Start(p) ==
  /\ p \notin started /\ started' = started \cup {p}
  /\ IF p = Root
     THEN fe_local_id' = [fe_local_id EXCEPT ![p] = RootId] /\ UNCHANGED queue
     ELSE Send(<<"up", p>>, Register(FirstId, FirstId)) /\ UNCHANGED fe_local_id
  /\ UNCHANGED <<tree, running, silent, f_pedb, mgr, reported, ident, unheard>>

\* The calls of hwapi_itf_addcallback and hwapi_addperiodfunc at the start of
\* frontend_run.  They are one step: the signals are blocked until hwapi_idle, so
\* only the order of each call and the packets of its own interface matters.
\* (mutant: also when frontend_init_p failed, which main does check)
RunAnyway(p) ==
  /\ p \notin running /\ running' = running \cup {p}
  /\ UNCHANGED <<tree, started, queue, silent, fe, mgr, reported, ident, unheard>>
AddCallbacks(p) ==
  /\ p \in started \ running /\ running' = running \cup {p}
  /\ UNCHANGED <<tree, started, queue, silent, fe, mgr, reported, ident, unheard>>

\* msgsndcallback when there is no callback.
ArriveSilently(l) ==
  /\ Reader(l) \notin running /\ silent[l] < Len(queue[l])
  /\ silent' = [silent EXCEPT ![l] = @ + 1]
  /\ UNCHANGED <<tree, started, running, queue, fe, mgr, reported, ident, unheard>>

\* itf_rcv takes a packet with this command.  It is called for the signal of one
\* packet, and reads those before it as well.
Takes(l, cmd) ==
  /\ Reader(l) \in running /\ Len(queue[l]) > silent[l] /\ Head(queue[l]).cmd = cmd
  /\ silent' = [silent EXCEPT ![l] = IF @ = 0 THEN 0 ELSE @ - 1]
  /\ UNCHANGED <<tree, started, running, reported>>

\* It is done with it, or sends another one, or the same, on.
Done(l)         == queue' = Removed(queue, l)
Pass(l, m, pkt) == queue' = Added(Removed(queue, l), m, pkt)

-----------------------------------------------------------------------------
(* The database of the PEs under this one.                                 *)

\* Set_find: the member put last, of those with this value; 0 if none.
Find(s, field, x) ==
  LET hits == {i \in DOMAIN s : s[i][field] = x}
  IN  IF hits = {} THEN 0 ELSE CHOOSE i \in hits : \A j \in hits : i <= j

\* The first id from the one asked for that is neither mine nor in f_pedb.
\* (mutant: f_pedb is not searched)
NotMine(p, id) ==
  CHOOSE n \in id..(id + 1) : n # fe_local_id[p] /\ \A m \in id..(n - 1) : m = fe_local_id[p]
FreeId(p, id) ==
  LET used == {f_pedb[p][i].id : i \in DOMAIN f_pedb[p]} \cup {fe_local_id[p]}
  IN  CHOOSE n \in id..(id + Len(f_pedb[p]) + 1) : n \notin used /\ id..(n - 1) \subseteq used

\* search_slave_itf.
\* (mutant: it looks for the id that was asked for)
NextHopByReq(p, id) == Find(f_pedb[p], "reqid", id)
NextHop(p, id) == Find(f_pedb[p], "id", id)

-----------------------------------------------------------------------------
(* What a FRONT-END does with a packet.                                    *)

\* register_son.
RegisterSon(l) ==
  LET p   == Reader(l)
      req == Head(queue[l]).req
      id  == FreeId(p, Head(queue[l]).id)
  IN  /\ Takes(l, "REGISTERSON")
      /\ f_pedb' = [f_pedb EXCEPT ![p] = <<[id |-> id, reqid |-> req, son |-> l[2]]>> \o @]
      /\ IF p = Root THEN Pass(l, <<"down", l[2]>>, Ack(id, req))
                     ELSE Pass(l, <<"up", p>>, Register(id, req))
      /\ UNCHANGED <<fe_local_id, mgr, ident, unheard>>

\* register_ack: the first answer is mine, the others are for my sons.
\* (mutant: the entry of the son keeps the id this FRONT-END had proposed)
KeptId(pe, id) == pe
Assigned(pe, id) == [pe EXCEPT !.id = id]
RegisterAck(l) ==
  LET p   == Reader(l)
      pkt == Head(queue[l])
      i   == Find(f_pedb[p], "reqid", pkt.req)
  IN  /\ Takes(l, "REGISTERACK")
      /\ \/ /\ fe_local_id[p] = 0 /\ Done(l)
            /\ fe_local_id' = [fe_local_id EXCEPT ![p] = pkt.id] /\ UNCHANGED f_pedb
         \/ /\ fe_local_id[p] # 0 /\ i = 0 /\ Done(l) /\ UNCHANGED fe
         \/ /\ fe_local_id[p] # 0 /\ i # 0
            /\ f_pedb' = [f_pedb EXCEPT ![p][i] = Assigned(@, pkt.id)]
            /\ Pass(l, <<"down", f_pedb[p][i].son>>, Ack(pkt.id, pkt.req))
            /\ UNCHANGED fe_local_id
      /\ UNCHANGED <<mgr, ident, unheard>>

\* process_frontend_pkt for FRONTEND_CFGITF: HWMAN can be reached from now on.
CfgDaemon(l) ==
  /\ Takes(l, "CFGITF") /\ Done(l) /\ hwman' = "on"
  /\ UNCHANGED <<fe, inbox, cpus, ident, unheard>>

\* route for a packet to PE 0, which goes up until it finds its daemon.  0 is also
\* the id of a PE that has none yet, which takes the packet for its own.
RouteUp(l) ==
  LET p    == Reader(l)
      pkt  == Head(queue[l])
      stop == IF p = Root THEN hwman # "on" ELSE fe_local_id[p] = 0
  IN  /\ Takes(l, "ADDCPU")
      /\ \/ stop /\ Done(l) /\ unheard' = TRUE /\ UNCHANGED inbox
         \/ ~stop /\ p # Root /\ Pass(l, <<"up", p>>, pkt) /\ UNCHANGED <<inbox, unheard>>
         \/ /\ ~stop /\ p = Root /\ Done(l)
            /\ inbox' = Append(inbox, pkt.id) /\ UNCHANGED unheard
      /\ UNCHANGED <<fe, hwman, cpus, ident>>

\* route for a packet to a PE, which is for a daemon here or goes down.
RouteDown(l) ==
  LET p   == Reader(l)
      pkt == Head(queue[l])
      i   == NextHop(p, pkt.id)
  IN  /\ Takes(l, "IDENT")
      /\ \/ /\ pkt.id = fe_local_id[p] /\ Done(l)
            /\ ident' = ident \cup {p}
         \/ /\ pkt.id # fe_local_id[p] /\ i # 0
            /\ Pass(l, <<"down", f_pedb[p][i].son>>, pkt) /\ UNCHANGED ident
         \/ pkt.id # fe_local_id[p] /\ i = 0 /\ Done(l) /\ UNCHANGED ident
      /\ UNCHANGED <<fe, mgr, unheard>>

\* report_hwstatus, a period function.  It sends UPDCPU later, which only refreshes
\* a time stamp.
Report(p) ==
  /\ p \in running /\ fe_local_id[p] > 1 /\ p \notin reported
  /\ \/ p # Root /\ Send(<<"up", p>>, AddCpu(fe_local_id[p])) /\ UNCHANGED inbox
     \/ /\ p = Root /\ hwman = "on"
        /\ inbox' = Append(inbox, fe_local_id[p]) /\ UNCHANGED queue
  /\ reported' = reported \cup {p}
  /\ UNCHANGED <<tree, started, running, silent, fe, hwman, cpus, ident, unheard>>

-----------------------------------------------------------------------------
(* HWMAN.                                                                  *)

\* daemon_new, which waits until it can attach to the FRONT-END.
HwmanStart ==
  /\ Root \in started /\ hwman = "off" /\ hwman' = "started"
  /\ Send(In, CfgItf)
  /\ UNCHANGED <<tree, started, running, silent, fe, inbox, cpus, reported, ident, unheard>>

\* hwman_incmd_addcpu, with send_sons_ident.
\* (A second ADDCPU for an id is meant to overwrite the first and removes it.)
HwmanAddCpu ==
  LET id  == Head(inbox)
      i   == CHOOSE j \in DOMAIN cpus : cpus[j] = id
      all == IF Contains(cpus, id) THEN RemoveAt(cpus, i) ELSE <<id>> \o cpus
  IN  /\ inbox # <<>> /\ inbox' = Tail(inbox) /\ cpus' = all
      /\ queue' = [queue EXCEPT ![In] = @ \o [k \in DOMAIN all |-> Ident(all[k])]]
      /\ UNCHANGED <<tree, started, running, silent, fe, hwman, reported, ident, unheard>>

-----------------------------------------------------------------------------
Init ==
  /\ tree \in Trees
  /\ started = {} /\ running = {}
  /\ queue = [l \in Link |-> <<>>] /\ silent = [l \in Link |-> 0]
  /\ fe_local_id = [p \in PE |-> 0] /\ f_pedb = [p \in PE |-> <<>>]
  /\ hwman = "off" /\ inbox = <<>> /\ cpus = <<>>
  /\ reported = {} /\ ident = {} /\ unheard = FALSE

Handle(l) == \/ RegisterSon(l) \/ RegisterAck(l) \/ CfgDaemon(l)
             \/ RouteUp(l) \/ RouteDown(l)

Next ==
  \/ \E p \in PE : Start(p) \/ AddCallbacks(p) \/ Report(p)
  \/ \E l \in Link : ArriveSilently(l) \/ Handle(l)
  \/ HwmanStart \/ HwmanAddCpu

Spec == Init /\ [][Next]_vars

\* The FRONT-ENDs and HWMAN are started by the run-time and are event loops, the
\* period function is called in every time slot, and the control interfaces lose
\* nothing: the platform does not rest while one of them has something to do.
FairSpec == Spec /\ WF_vars(Next)

-----------------------------------------------------------------------------
(* Properties.                                                             *)

Packet == [cmd : {"REGISTERSON", "REGISTERACK"}, id : Nat, req : Nat]
          \cup [cmd : {"ADDCPU", "IDENT"}, id : Nat] \cup {CfgItf}
Entry  == [id : Nat, reqid : Nat, son : Sons]

\* Every variable has its type, and only packets that are there came silently.
TypeOK ==
  /\ tree \in Trees /\ started \subseteq PE /\ running \subseteq started
  /\ queue \in [Link -> Seq(Packet)] /\ silent \in [Link -> Nat]
  /\ \A l \in Link : silent[l] <= Len(queue[l])
  /\ fe_local_id \in [PE -> Nat] /\ f_pedb \in [PE -> Seq(Entry)]
  /\ hwman \in {"off", "started", "on"} /\ inbox \in Seq(Nat) /\ cpus \in Seq(Nat)
  /\ reported \subseteq running /\ ident \subseteq PE /\ unheard \in BOOLEAN

\* No two PEs ever have the same id, on any platform: every id is the choice of the
\* top FRONT-END, made once, and no answer is used by two PEs, even where
\* register_ack passes it to another son than the one that asked.
UniqueIds == \A p, q \in PE : p # q /\ fe_local_id[p] # 0 => fe_local_id[p] # fe_local_id[q]

\* No PE has more than one PE under it, but for the top one.
Narrow == \A p, q \in Sons : tree[p] = tree[q] /\ tree[p] # Root =>
                             /\ p = q
                             /\ \A s \in Sons : tree[s] # p

\* On a narrow platform the way search_slave_itf gives from the top to the id of a
\* PE that HWMAN knows leads to that PE, through every FRONT-END on it, while other
\* PEs still register and ids are corrected.
Path(p) == IF tree[p] = Root THEN <<Root, p>> ELSE <<Root, tree[p], p>>
Routed(p) == \A k \in 1..(Len(Path(p)) - 1) :
               LET i == NextHop(Path(p)[k], fe_local_id[p])
               IN  i # 0 /\ f_pedb[Path(p)[k]][i].son = Path(p)[k + 1]
Routable == Narrow => \A p \in Sons : Contains(cpus, fe_local_id[p]) => Routed(p)

\* On a narrow platform every PE gets an id, HWMAN comes to know it, and its BRIDGE
\* is told to identify itself, unless an ADDCPU found no HWMAN or a packet that came
\* before the callback is never noticed.
Identified == ident = PE /\ \A p \in PE : Contains(cpus, fe_local_id[p])
AllKnown == <>[](unheard \/ ~Narrow \/ Identified \/ \E l \in Link : silent[l] # 0)

\* "Assigned PE Id": when there is nothing left to do, the id in each entry of f_pedb
\* is that of a PE.
Quiet == running = PE /\ \A l \in Link : queue[l] = <<>>
AssignedIds == Quiet => \A p \in PE : \A i \in DOMAIN f_pedb[p] :
                          \E q \in PE : fe_local_id[q] = f_pedb[p][i].id
=============================================================================
