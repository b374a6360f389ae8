------------------------------- MODULE SwLoad -------------------------------
(***************************************************************************)
(* The SWLOAD of each PE: it queues the executables that the objects       *)
(* mapped to its PE need, asks SWMAN for one after the other, and launches *)
(* all the objects that wait for an executable when it has come.           *)
(***************************************************************************)
EXTENDS ExecObjs

VARIABLES
  down_q,   \* the executables being downloaded, first in the order of Set_get
  exeid     \* the next id of an executable

swload == <<down_q, exeid>>

LdInit == /\ down_q = [p \in PEs |-> <<>>]
          /\ exeid = [p \in PEs |-> 1]

\* request_exec, for the executable Set_get finds first, if there is any.
\* (mutant: only while no other is in the queue)
RequestAlone(c, p, q) ==
  IF Len(q) # 1 THEN c
  ELSE Post(c, SWLOAD(p), SWMAN, [cmd |-> "EXECREQ", exe |-> q[1].exe, id |-> q[1].id])

Request(c, p, q) ==
  IF q = <<>> THEN c
  ELSE Post(c, SWLOAD(p), SWMAN, [cmd |-> "EXECREQ", exe |-> Head(q).exe, id |-> Head(q).id])

\* (mutant: a new executable is queued without the object)
EnqueueBare(q, a, i, k, id) == <<[exe |-> File[a][k].exe, id |-> id, objs |-> <<>>]>> \o q

\* An object waits with the others of its executable, or for a new one.
Enqueue(q, a, i, k, id) ==
  LET x == File[a][k].exe
      me == [obj |-> <<i, k>>, app |-> a]
      n == SelectInSeq(q, LAMBDA d : d.exe = x)
  IN IF n # 0 THEN [q EXCEPT ![n].objs = <<me>> \o @]
     ELSE <<[exe |-> x, id |-> id, objs |-> <<me>>]>> \o q

\* swload_incmd_loadobj.
LoadObj(p) ==
  LET m == Packet(HWMAN, SWLOAD(p))
      new(q, k) == Enqueue(q, m.app, m.inst, k, exeid[p] + Len(q) - Len(down_q[p]))
      q == FoldLeft(new, down_q[p], m.objs)
  IN /\ Waits(HWMAN, SWLOAD(p), "LOADOBJ")
     /\ down_q' = [down_q EXCEPT ![p] = q]
     /\ exeid' = [exeid EXCEPT ![p] = @ + Len(q) - Len(down_q[p])]
     /\ ch' = Request(Taken(HWMAN, SWLOAD(p)), p, q)
     /\ UNCHANGED proc /\ NoFault

\* load_error, for the nth executable of the queue.
LoadError(c, p, n) ==
  /\ ch' = Post(c, SWLOAD(p), SWMAN, [cmd |-> "EXECERR", app |-> down_q[p][n].objs[1].app])
  /\ down_q' = [down_q EXCEPT ![p] = RemoveAt(@, n)]

\* swload_incmd_execerr.
ExecErr(p) ==
  LET c == Taken(SWMAN, SWLOAD(p))
      n == SelectInSeq(down_q[p], LAMBDA d : d.exe = Packet(SWMAN, SWLOAD(p)).exe)
  IN /\ Waits(SWMAN, SWLOAD(p), "EXECERR")
     /\ IF n = 0 THEN ch' = c /\ UNCHANGED down_q ELSE LoadError(c, p, n)
     /\ UNCHANGED <<exeid, proc>> /\ NoFault

\* launchall, up to its nth object.
Processes(d, n) == {d.objs[j].obj : j \in 1..n}

\* swload_incmd_loadstart, _loading and _loadend.  Something may go wrong with
\* the data, with the nth process or with an interface, and then the next
\* executable of the queue is not asked for.
LoadEnd(p) ==
  LET c == Taken(SWMAN, SWLOAD(p))
      n == SelectInSeq(down_q[p], LAMBDA d : d.id = Packet(SWMAN, SWLOAD(p)).id)
      d == down_q[p][n]
      q == RemoveAt(down_q[p], n)
  IN /\ Waits(SWMAN, SWLOAD(p), "LOAD")
     /\ \/ /\ n = 0 /\ NoFault
           /\ ch' = Post(c, SWLOAD(p), SWMAN, [cmd |-> "EXECERR"])
           /\ UNCHANGED <<down_q, proc>>
        \/ /\ n # 0 /\ NoFault
           /\ Launch(p, Processes(d, Len(d.objs)))
           /\ down_q' = [down_q EXCEPT ![p] = q]
           /\ ch' = Request(c, p, q)
        \/ /\ n # 0 /\ Fault
           /\ \E j \in 0..Len(d.objs) : Launch(p, Processes(d, j))
           /\ LoadError(c, p, n)
     /\ UNCHANGED exeid

LdNext == \E p \in PEs : LoadObj(p) \/ ExecErr(p) \/ LoadEnd(p)
=============================================================================
