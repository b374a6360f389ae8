------------------------------ MODULE ExecObjs ------------------------------
(***************************************************************************)
(* The objects of the loaded waveforms and the EXEC of each PE, as far as  *)
(* the other daemons see them: ObjStatus at the level of whole hand-overs. *)
(* EXEC's copy of the process table is taken as up to date, positions and  *)
(* time slots are left out, and what the library does in one status change *)
(* is one step.                                                            *)
(***************************************************************************)
EXTENDS Daemons

VARIABLES
  proc   \* the entry of each object in the process table of its PE

\* at: "none" not launched; "up" with a process; "dead" without; "gone" removed
\* by EXEC; "lost" when another launch took the entry of the dead.
NoEntry == [at |-> "none", pe |-> Root, cur |-> "NONE", next |-> "NONE", prog |-> 0]
Fresh(p) == [at |-> "up", pe |-> p, cur |-> "NONE", next |-> "STARTED", prog |-> 1]

ExInit == proc = [o \in Objects |-> NoEntry]

Known(o, p) == proc[o].at \in {"up", "dead"} /\ proc[o].pe = p
Dead(p)     == {o \in Objects : proc[o].at = "dead" /\ proc[o].pe = p}

\* hwapi_proc_create for the objects os: some take the entries of dead ones.
Launch(p, os) ==
  \E ls \in SUBSET Dead(p) :
    /\ Cardinality(ls) <= Cardinality(os)
    /\ proc' = [o \in Objects |->
                  IF o \in os THEN Fresh(p)
                  ELSE IF o \in ls THEN [proc[o] EXCEPT !.at = "lost"] ELSE proc[o]]

-----------------------------------------------------------------------------
(* The library and the object's own code.                                  *)

Becomes(o, e) == proc' = [proc EXCEPT ![o] = e]
Quietly       == UNCHANGED ch /\ NoFault

\* hwapi_proc_status_get takes the new status up, in the two calls it needs.
\* After STEP the object acknowledges by itself and asks itself for PAUSE.  An
\* object that has stopped waits in ClosePHAL and takes up nothing.
Adopted(e) ==
  IF e.next = "STEP" THEN [e EXCEPT !.cur = "STEP", !.next = "PAUSE"]
  ELSE [e EXCEPT !.cur = e.next, !.prog = 2]

Adopt(o) ==
  LET e == proc[o] IN
  /\ e.at = "up" /\ e.prog = 1 /\ e.cur # e.next /\ e.cur \notin Stopped
  /\ Becomes(o, Adopted(e)) /\ Quietly

\* The end of ClosePHAL: the stop has been acknowledged, and the process ends.
Close(o) ==
  LET e == proc[o] IN
  /\ e.at = "up" /\ e.prog = 0 /\ e.cur \in Stopped
  /\ Becomes(o, [e EXCEPT !.at = "dead", !.next = "STOP", !.prog = 1]) /\ Quietly

\* Init() or Run() returns false and the object aborts itself; or it dies.
Fails(o) ==
  LET e == proc[o] IN
  /\ e.at = "up" /\ e.cur \in {"INIT", "RUN"} /\ Fault /\ UNCHANGED ch
  /\ Becomes(o, [e EXCEPT !.cur = "ABNSTOP", !.next = "ABNSTOP", !.prog = 2])

Crash(o) ==
  /\ proc[o].at = "up" /\ Fault /\ UNCHANGED ch
  /\ Becomes(o, [proc[o] EXCEPT !.at = "dead"])

-----------------------------------------------------------------------------
(* EXEC.                                                                   *)

Report(c, o, cmd, st) ==
  Post(c, EXEC(proc[o].pe), SWMAN, [cmd |-> cmd, obj |-> o, st |-> st])

\* hwapi_proc_kill: the process may take up a change on its way out.
Killed(e) ==
  {[e EXCEPT !.at = "dead", !.cur = st] : st \in {e.cur, IF e.prog > 0 THEN e.next ELSE e.cur}}

\* exec_incmd_setstatus.  (mutant: the change is refused, the object lives on)
RefuseOnly(e) == {e}
RefuseKills(e) == Killed(e)

SetStatus(p) ==
  LET m == Packet(SWMAN, EXEC(p))
      o == m.obj
      c == Taken(SWMAN, EXEC(p))
  IN /\ Waits(SWMAN, EXEC(p), "SETSTATUS") /\ NoFault
     /\ \/ ~Known(o, p) /\ ch' = c /\ UNCHANGED proc
        \/ /\ Known(o, p) /\ proc[o].prog = 0
           /\ Becomes(o, [proc[o] EXCEPT !.next = m.st, !.prog = 1]) /\ ch' = c
        \/ /\ Known(o, p) /\ proc[o].prog # 0
           /\ \E e \in RefuseKills(proc[o]) : Becomes(o, e)
           /\ ch' = Report(c, o, "STATUSERR", proc[o].cur)

\* exec_background, for the entry of o: it died ...
Died(o) ==
  LET e == proc[o] IN
  /\ e.at = "dead" /\ e.cur # "NONE"
  /\ ch' = IF e.cur \in Stopped THEN ch ELSE Report(ch, o, "STATUSERR", e.cur)
  /\ Becomes(o, [e EXCEPT !.at = "gone"]) /\ NoFault

\* ... it has completed its change ...
Complete(e) == e.prog = 2 /\ e.cur = e.next

Ack(o) ==
  LET e == proc[o] IN
  /\ e.at = "up" /\ Complete(e)
  /\ ch' = Report(ch, o, "STATUSOK", e.cur)
  /\ Becomes(o, [e EXCEPT !.prog = 0]) /\ NoFault

\* ... or it has not, within its time.  Some changes never complete: one to the
\* status the object is in, one that came in between the acknowledgement of a
\* stop and its end, and the first change of an object that is dead.  The first
\* report of a dead object stands for all its repetitions.
Stuck(e) ==
  \/ e.at = "up" /\ e.prog = 1 /\ (e.cur = e.next \/ e.cur \in Stopped)
  \/ e.at = "dead" /\ e.cur = "NONE"

Late(o) ==
  LET e == proc[o] IN
  /\ e.at \in {"up", "dead"} /\ e.prog # 0 /\ e.cur # "STEP" /\ ~Complete(e)
  /\ e.at = "dead" => e.cur = "NONE"
  /\ IF Stuck(e) THEN NoFault ELSE Fault
  /\ ch' = Report(ch, o, "STATUSERR", "ABNSTOP")
  /\ IF e.at = "dead" THEN Becomes(o, [e EXCEPT !.at = "gone"])
     ELSE \E d \in Killed(e) : Becomes(o, d)

Watch(o) == Died(o) \/ Ack(o) \/ Late(o)

ExNext ==
  \/ \E p \in PEs : SetStatus(p)
  \/ \E o \in Objects : Adopt(o) \/ Close(o) \/ Fails(o) \/ Crash(o) \/ Watch(o)
=============================================================================
