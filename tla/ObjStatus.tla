------------------------------ MODULE ObjStatus ------------------------------
(***************************************************************************)
(* The status-change protocol between the EXEC daemon and the waveform     *)
(* objects of one ALOE processor.                                          *)
(*                                                                         *)
(* The kernel's process table (proc_db, in shared memory) is the meeting   *)
(* point of four kinds of actor that take no common lock but sem_status:   *)
(*   - SWLOAD creates entries and launches objects (hwapi_proc_create);    *)
(*   - every object polls its own entry (hwapi_proc_status_get, called     *)
(*     from Status) and takes the new status at the time slot asked for;   *)
(*   - EXEC requests changes (exec_incmd_setstatus), copies the table      *)
(*     without a lock and works on the copy (exec_background): it          *)
(*     acknowledges, times out, kills, removes and reports to SWMAN;       *)
(*   - the kernel reaps dead children and clears their pid (sig_chld).     *)
(*                                                                         *)
(* sem_status makes each of status_get, status_new and status_ack one      *)
(* atomic step; everything else interleaves.                               *)
(***************************************************************************)
EXTENDS Integers, FiniteSets

CONSTANTS
  Ids,          \* object ids SWMAN may ask to load; each is loaded at most once
  None,         \* no object: obj_id = 0 or pid = 0
  NSlots,       \* MAX_PROCS, the entries of proc_db
  Limit,        \* max_ts of st_db, one value for every status
  MaxAhead,     \* how many slots ahead SWMAN may place a change
  CmdStatuses,  \* the statuses SWMAN asks for
  Tears,        \* the sets of fields a copy of proc_db may read late
  SlowStart     \* may a child need longer than the creator's poll (500 ms)?

ASSUME NoneAssumption == None \notin Ids
ASSUME SizeAssumption == NSlots \in Nat \ {0} /\ Limit \in Nat /\ MaxAhead \in Nat

PHAL_STATUS_0       == 0
PHAL_STATUS_STARTED == 1
PHAL_STATUS_INIT    == 2
PHAL_STATUS_RUN     == 3
PHAL_STATUS_PAUSE   == 4
PHAL_STATUS_STEP    == 5
PHAL_STATUS_STOP    == 6
PHAL_STATUS_ABNSTOP == 7

Status  == 0..7
Stopped == {PHAL_STATUS_STOP, PHAL_STATUS_ABNSTOP}
Fields  == {"pid", "id", "cur", "next", "progress"}

ASSUME CmdAssumption == CmdStatuses \subseteq Status
ASSUME TearsAssumption == Tears \subseteq SUBSET Fields
\* memcpy reads upwards and obj_id is the first of these fields in the structure:
\* a copy that reads it late reads everything late.
ASSUME IdFirstAssumption == \A f \in Tears : "id" \notin f
ASSUME SlowAssumption == SlowStart \in BOOLEAN

Slots  == 1..NSlots
IdOrNo == Ids \cup {None}

(***************************************************************************)
(* Times are kept relative to the current time slot: due[s] is next_tstamp *)
(* minus get_tstamp(), no lower than Expired, the first value past the     *)
(* limit.  The clock itself then needs no bound.                           *)
(***************************************************************************)
Expired == -(Limit + 1)
Due     == Expired..MaxAhead
\* (mutant: the limit never expires)
NeverLate(d) == FALSE
Late(d) == d < -Limit

VARIABLES
  \* struct hwapi_proc_i, one function per field over the slots of proc_db
  pid, oid, cur, next, progress, due,
  max_proc_id,
  \* the objects' processes
  pc,         \* where each object's process is
  my,         \* the slot the process was forked for, then its my_proc (0: none)
  isterming,  \* the library is terminating the process
  init_done,  \* Relinquish was called in INIT
  sigterm,    \* a SIGTERM is pending for the process
  creating,   \* the object and slot hwapi_proc_create is working on
  shared,     \* history: the entries that were taken while a process still had them
  \* EXEC
  epc, ei, en, eid, eslot, eret, snap,
  \* the report EXEC sends to SWMAN in this step, NoReport otherwise
  report

entryVars == <<oid, cur, next, due, progress>>
dbVars    == <<pid, entryVars, max_proc_id>>
objVars   == <<pc, my, isterming, init_done, sigterm>>
execVars  == <<epc, ei, en, eid, eslot, eret, snap>>
vars      == <<dbVars, objVars, creating, shared, execVars, report>>

\* An entry after memset(&proc_db[i], 0, ...), and a copy not taken yet.
Blank    == [pid |-> None, id |-> None, cur |-> 0, next |-> 0, progress |-> 0, late |-> FALSE]
NoReport == [kind |-> "none", id |-> None, st |-> 0]
Idle     == [id |-> None, slot |-> 0]

NoReportSent == report' = NoReport

-----------------------------------------------------------------------------
(* The process table, hwapi_linux_proc.c.                                  *)

\* The linear search for obj_id that every call by id begins with: the first
\* slot below max_proc_id that carries the id, 0 if there is none.
Find(o) ==
  IF \E s \in Slots : s <= max_proc_id /\ oid[s] = o
  THEN CHOOSE s \in Slots : /\ s <= max_proc_id /\ oid[s] = o
                            /\ \A t \in 1..(s - 1) : oid[t] # o
  ELSE 0

\* hwapi_proc_status_get: what the caller reads, and what the call changes.
GetResult(s) ==
  IF next[s] # cur[s] /\ (progress[s] = 2 \/ due[s] <= 0) THEN next[s] ELSE cur[s]

\* (mutant: the change is taken up one slot early)
StatusGetEarly(s) ==
  /\ progress' = IF next[s] # cur[s] /\ progress[s] < 2 /\ due[s] <= 1
                 THEN [progress EXCEPT ![s] = 2] ELSE progress
  /\ cur' = IF next[s] # cur[s] /\ progress[s] = 2
            THEN [cur EXCEPT ![s] = next[s]] ELSE cur
  /\ UNCHANGED <<oid, next, due>>

StatusGet(s) ==
  /\ progress' = IF next[s] # cur[s] /\ progress[s] < 2 /\ due[s] <= 0
                 THEN [progress EXCEPT ![s] = 2] ELSE progress
  /\ cur' = IF next[s] # cur[s] /\ progress[s] = 2
            THEN [cur EXCEPT ![s] = next[s]] ELSE cur
  /\ UNCHANGED <<oid, next, due>>

\* hwapi_proc_status_new: the double guard, and the -1 time stamp that
\* overrides it.
\* (mutant: an unacknowledged change does not stand in the way of the next)
CanChangeUnacked(s) == next[s] = cur[s]
CanChange(s) == progress[s] = 0 /\ next[s] = cur[s]

StatusNew(s, st, d) ==
  /\ next' = [next EXCEPT ![s] = st]
  /\ due' = [due EXCEPT ![s] = d]
  /\ progress' = [progress EXCEPT ![s] = 1]
  /\ UNCHANGED <<oid, cur>>

\* hwapi_proc_status_ack: the change is complete, so it can be closed.
\* (mutant: the object need not have taken the status over)
CompleteUnchecked(s) == progress[s] = 2
Complete(s) == cur[s] = next[s] /\ progress[s] = 2

StatusAck(s) ==
  /\ progress' = [progress EXCEPT ![s] = 0]
  /\ UNCHANGED <<oid, cur, next, due>>

\* The shrinking of max_proc_id at the end of hwapi_proc_remove.  The search
\* starts one entry past the last visible one.
\* (mutant: the last entry is assumed to be preceded by a used one)
MaxAfterRemoveLast(s) == IF s = max_proc_id THEN s - 1 ELSE max_proc_id
MaxAfterRemove(s) ==
  LET left == {t \in Slots : t <= max_proc_id + 1 /\ oid[t] # None}
  IN IF s = max_proc_id /\ left # {}
     THEN CHOOSE t \in left : \A u \in left : u <= t
     ELSE max_proc_id

-----------------------------------------------------------------------------
(* SWLOAD and the kernel: hwapi_proc_create, create_process, sig_chld.     *)

\* The first entry that is not both in use and alive is taken, so the entry of
\* an object that died and was not removed yet is taken too.
FreeSlot(s) ==
  /\ pid[s] = None \/ oid[s] = None
  /\ \A t \in 1..(s - 1) : pid[t] # None /\ oid[t] # None

\* A process whose entry was cleared while it lives goes on working on it.
Had(s) == \E p \in Ids : pc[p] \notin {"none", "dead"} /\ my[p] = s

CreateFill(o, s) ==
  /\ creating = Idle /\ pc[o] = "none" /\ FreeSlot(s)
  /\ pid' = [pid EXCEPT ![s] = None]
  /\ oid' = [oid EXCEPT ![s] = o]
  /\ cur' = [cur EXCEPT ![s] = PHAL_STATUS_0]
  /\ next' = [next EXCEPT ![s] = PHAL_STATUS_STARTED]
  /\ due' = [due EXCEPT ![s] = 0]
  /\ progress' = [progress EXCEPT ![s] = 1]
  /\ pc' = [pc EXCEPT ![o] = "forked"]
  /\ my' = [my EXCEPT ![o] = s]
  /\ creating' = [id |-> o, slot |-> s]
  /\ shared' = IF Had(s) THEN shared \cup {s} ELSE shared \ {s}
  /\ UNCHANGED <<max_proc_id, isterming, init_done, sigterm, execVars>>
  /\ NoReportSent

\* The child writes its own pid: "this indicates a successful creation".
ChildPid(o) ==
  /\ pc[o] = "forked"
  /\ pid' = [pid EXCEPT ![my[o]] = o]
  /\ pc' = [pc EXCEPT ![o] = "boot"]
  /\ UNCHANGED <<entryVars, max_proc_id, my, isterming, init_done, sigterm,
                 creating, shared, execVars>>
  /\ NoReportSent

\* The creator polls for that pid.  It publishes the entry by raising
\* max_proc_id, or clears it when the poll runs out: the child has already died
\* or, with SlowStart, has not come so far yet.
\* (the mutant confuses the index of the entry with the number of entries)
PublishPastEnd(s) == IF s + 1 > max_proc_id THEN s + 1 ELSE max_proc_id
Publish(s) == IF s > max_proc_id THEN s ELSE max_proc_id

CreateDone ==
  LET s == creating.slot IN
  /\ creating # Idle
  /\ SlowStart \/ pc[creating.id] # "forked"
  /\ IF pid[s] = creating.id
     THEN /\ max_proc_id' = Publish(s)
          /\ UNCHANGED <<pid, entryVars>>
     ELSE /\ pid' = [pid EXCEPT ![s] = None]
          /\ oid' = [oid EXCEPT ![s] = None]
          /\ cur' = [cur EXCEPT ![s] = 0]
          /\ next' = [next EXCEPT ![s] = 0]
          /\ due' = [due EXCEPT ![s] = 0]
          /\ progress' = [progress EXCEPT ![s] = 0]
          /\ UNCHANGED max_proc_id
  /\ creating' = Idle
  /\ UNCHANGED <<objVars, shared, execVars>>
  /\ NoReportSent

\* sig_chld waits for the dead child and clears the pid of its entry.
SigChld(s) ==
  /\ pid[s] # None /\ pc[pid[s]] = "dead"
  /\ pid' = [pid EXCEPT ![s] = None]
  /\ UNCHANGED <<entryVars, max_proc_id, objVars, creating, shared, execVars>>
  /\ NoReportSent

\* A time slot passes (get_tstamp() grows by one).
Tick ==
  /\ \E s \in Slots : due[s] > Expired
  /\ due' = [s \in Slots |-> IF due[s] > Expired THEN due[s] - 1 ELSE Expired]
  /\ UNCHANGED <<pid, oid, cur, next, progress, max_proc_id, objVars, creating, shared,
                 execVars>>
  /\ NoReportSent

-----------------------------------------------------------------------------
(* The objects: hwapi_init, InitPHAL, Status, Relinquish and ClosePHAL.    *)

Alive(o) == pc[o] \notin {"none", "forked", "dead"}

Goto(o, l) == pc' = [pc EXCEPT ![o] = l]

\* The process ends, and its memory and its pending signals with it.
Die(o) ==
  /\ pc' = [pc EXCEPT ![o] = "dead"]
  /\ my' = [my EXCEPT ![o] = 0]
  /\ isterming' = [isterming EXCEPT ![o] = FALSE]
  /\ init_done' = [init_done EXCEPT ![o] = FALSE]
  /\ sigterm' = [sigterm EXCEPT ![o] = FALSE]

\* What an object's step leaves alone when it only works on its entry.
OwnStep == UNCHANGED <<pid, max_proc_id, my, isterming, init_done, sigterm, creating, shared,
                       execVars>>
  /\ NoReportSent

\* hwapi_init: find my_proc by pid and restart the time stamp of the change.
Boot(o) ==
  /\ pc[o] = "boot"
  /\ \/ \E s \in Slots :
          /\ pid[s] = o /\ \A t \in 1..(s - 1) : pid[t] # o
          /\ my' = [my EXCEPT ![o] = s]
          /\ due' = [due EXCEPT ![s] = 0]
          /\ Goto(o, "started") /\ UNCHANGED <<isterming, init_done, sigterm>>
     \/ (\A s \in Slots : pid[s] # o) /\ Die(o) /\ UNCHANGED due
  /\ UNCHANGED <<pid, oid, cur, next, progress, max_proc_id, creating, shared, execVars>>
  /\ NoReportSent

\* InitPHAL ends with a status_get.
Started(o) ==
  /\ pc[o] = "started" /\ StatusGet(my[o]) /\ Goto(o, "status") /\ OwnStep

\* One turn of the loop of Status.  A turn that returns nothing relinquishes
\* the processor and comes back here.
StatusLoop(o) ==
  LET r == GetResult(my[o]) IN
  /\ pc[o] = "status" /\ StatusGet(my[o])
  /\ \/ r = PHAL_STATUS_RUN /\ Goto(o, "run")
     \/ r = PHAL_STATUS_INIT /\ ~init_done[o] /\ Goto(o, "init")
     \/ r \in Stopped /\ Goto(o, "close")
     \/ r = PHAL_STATUS_STEP /\ Goto(o, "stepget")
     \/ /\ r \notin {PHAL_STATUS_RUN, PHAL_STATUS_STEP} \cup Stopped
        /\ r = PHAL_STATUS_INIT => init_done[o]
        /\ UNCHANGED pc
  /\ OwnStep

\* The STEP status: the object closes the change itself and asks itself for
\* PAUSE, then runs once.
StepGet(o) ==
  /\ pc[o] = "stepget" /\ StatusGet(my[o]) /\ Goto(o, "stepack") /\ OwnStep

StepAck(o) ==
  LET s == Find(o) IN
  /\ pc[o] = "stepack"
  /\ IF s # 0 /\ Complete(s) THEN StatusAck(s) ELSE UNCHANGED entryVars
  /\ Goto(o, "stepnew") /\ OwnStep

StepNew(o) ==
  LET s == Find(o) IN
  /\ pc[o] = "stepnew"
  /\ IF s # 0 /\ ~isterming[o] /\ CanChange(s)
     THEN StatusNew(s, PHAL_STATUS_PAUSE, 0) ELSE UNCHANGED entryVars
  /\ Goto(o, "stepend") /\ OwnStep

StepEnd(o) ==
  /\ pc[o] = "stepend" /\ StatusGet(my[o]) /\ Goto(o, "run") /\ OwnStep

\* Init() or Run() returns true and the object relinquishes; what Relinquish
\* records is that INIT has been done.
WorkDone(o) ==
  /\ pc[o] \in {"init", "run"}
  /\ init_done' = IF pc[o] = "init" THEN [init_done EXCEPT ![o] = TRUE] ELSE init_done
  /\ Goto(o, "status")
  /\ UNCHANGED <<dbVars, my, isterming, sigterm, creating, shared, execVars>>
  /\ NoReportSent

\* Init() or Run() returns false and the object closes by its own decision.
WorkFails(o) ==
  /\ pc[o] \in {"init", "run"} /\ Goto(o, "close")
  /\ UNCHANGED entryVars /\ OwnStep

\* ClosePHAL: an object that was not asked to stop forces ABNSTOP (the -1 time
\* stamp, of any age relative to now) and adopts it with two status_get.
Close(o) ==
  /\ pc[o] = "close" /\ StatusGet(my[o])
  /\ Goto(o, IF GetResult(my[o]) \in Stopped THEN "wait" ELSE "abnstop")
  /\ OwnStep

CloseAbnstop(o) ==
  LET s == Find(o) IN
  /\ pc[o] = "abnstop"
  /\ IF s # 0 /\ ~isterming[o]
     THEN \E d \in Expired..(-1) : StatusNew(s, PHAL_STATUS_ABNSTOP, d)
     ELSE UNCHANGED entryVars
  /\ Goto(o, "abnget1") /\ OwnStep

CloseGet(o) ==
  /\ pc[o] \in {"abnget1", "abnget2"} /\ StatusGet(my[o])
  /\ Goto(o, IF pc[o] = "abnget1" THEN "abnget2" ELSE "wait")
  /\ OwnStep

\* The wait for EXEC: status_new(STOP) fails until the stop has been
\* acknowledged.  It answers at once when the library is terminating the
\* process, and it answers -1 when the id is not in the table.
CloseWait(o) ==
  LET s == Find(o) IN
  /\ pc[o] = "wait"
  /\ IF isterming[o] \/ s = 0 THEN UNCHANGED entryVars
     ELSE CanChange(s) /\ StatusNew(s, PHAL_STATUS_STOP, 0)
  /\ Goto(o, "exit") /\ OwnStep

Exit(o) ==
  /\ pc[o] = "exit" /\ Die(o)
  /\ UNCHANGED <<dbVars, creating, shared, execVars>> /\ NoReportSent

\* exit_fnc handles SIGTERM: ClosePHAL runs again with isterming set.  Before
\* ClosePHAL is registered, once hwapi_exit is reached, and a second time, the
\* process ends.
Terminated(o) ==
  /\ sigterm[o] /\ Alive(o)
  /\ IF isterming[o] \/ pc[o] \in {"boot", "started", "exit"} THEN Die(o)
     ELSE /\ Goto(o, "close")
          /\ isterming' = [isterming EXCEPT ![o] = TRUE]
          /\ sigterm' = [sigterm EXCEPT ![o] = FALSE]
          /\ UNCHANGED <<my, init_done>>
  /\ UNCHANGED <<dbVars, creating, shared, execVars>> /\ NoReportSent

\* The object dies by itself: either in one step, or, when its own code faults,
\* through bt_sighandler and atexit, which run ClosePHAL with isterming set.
Crash(o) ==
  /\ Alive(o)
  /\ \/ Die(o)
     \/ /\ pc[o] \in {"init", "run"} /\ Goto(o, "close")
        /\ isterming' = [isterming EXCEPT ![o] = TRUE]
        /\ UNCHANGED <<my, init_done, sigterm>>
  /\ UNCHANGED <<dbVars, creating, shared, execVars>> /\ NoReportSent

-----------------------------------------------------------------------------
(* EXEC: exec_run processes its commands, then exec_background.            *)

Report(o, k, st) == report' = [kind |-> k, id |-> o, st |-> st]

\* exec_incmd_setstatus.  An abnormal stop is placed one slot in the past.
SetStatus(o, st, d) ==
  LET s == Find(o) IN
  /\ epc = "cmds"
  /\ IF s # 0 /\ CanChange(s)
     THEN /\ StatusNew(s, st, IF st = PHAL_STATUS_ABNSTOP THEN -1 ELSE d)
          /\ UNCHANGED <<epc, eid>>
     ELSE epc' = "refuse" /\ eid' = o /\ UNCHANGED entryVars
  /\ UNCHANGED <<pid, max_proc_id, objVars, creating, shared, ei, en, eslot, eret, snap>>
  /\ NoReportSent

\* hwapi_proc_kill, called with EXEC at label l: a SIGTERM to the process, and
\* a poll until its pid is cleared.
ProcKill(o, l) ==
  LET s == Find(o) IN
  IF s # 0 /\ pid[s] # None
  THEN /\ sigterm' = [sigterm EXCEPT ![pid[s]] = TRUE]
       /\ epc' = "killwait" /\ eslot' = s /\ eret' = l /\ eid' = o
  ELSE /\ epc' = l /\ eid' = IF l = "cmds" THEN None ELSE o
       /\ UNCHANGED <<sigterm, eslot, eret>>

\* The change was refused: report the error with what the entry says now and
\* kill the process; an unknown object is ignored.
Refuse ==
  LET s == Find(eid) IN
  /\ epc = "refuse"
  /\ IF s = 0
     THEN /\ epc' = "cmds" /\ eid' = None
          /\ UNCHANGED <<sigterm, eslot, eret>> /\ NoReportSent
     ELSE Report(eid, "err", cur[s]) /\ ProcKill(eid, "cmds")
  /\ UNCHANGED <<dbVars, pc, my, isterming, init_done, creating, shared, ei, en, snap>>

\* The poll of hwapi_proc_kill ends: the pid is cleared, or after ten tries the
\* process is sent SIGKILL.
KillWait ==
  LET p == pid[eslot] IN
  /\ epc = "killwait"
  /\ IF p # None THEN Die(p) ELSE UNCHANGED objVars
  /\ epc' = eret /\ eslot' = 0 /\ eret' = "cmds"
  /\ eid' = IF eret = "cmds" THEN None ELSE eid
  /\ UNCHANGED <<dbVars, creating, shared, ei, en, snap>> /\ NoReportSent

\* hwapi_proc_get copies the first max_proc_id entries with no lock, so fields
\* of one entry may be read at different moments: all are read in one step, and
\* a later step reads the ones of some set f again.
Copied(f, s, old) ==
  [pid      |-> IF "pid" \in f THEN pid[s] ELSE old.pid,
   id       |-> IF "id" \in f THEN oid[s] ELSE old.id,
   cur      |-> IF "cur" \in f THEN cur[s] ELSE old.cur,
   next     |-> IF "next" \in f THEN next[s] ELSE old.next,
   progress |-> IF "progress" \in f THEN progress[s] ELSE old.progress,
   late     |-> IF "next" \in f THEN Late(due[s]) ELSE old.late]

Copy(f, n) == snap' = [s \in Slots |-> IF s <= n THEN Copied(f, s, snap[s]) ELSE snap[s]]

CopyFirst ==
  /\ epc = "cmds" /\ epc' = "copy"
  /\ Copy(Fields, max_proc_id) /\ en' = max_proc_id /\ ei' = 1
  /\ UNCHANGED <<dbVars, objVars, creating, shared, eid, eslot, eret>>
  /\ NoReportSent

CopyRest ==
  /\ epc = "copy" /\ epc' = "scan"
  /\ \E f \in Tears : Copy(f, en)
  /\ UNCHANGED <<dbVars, objVars, creating, shared, ei, en, eid, eslot, eret>>
  /\ NoReportSent

\* The loop of exec_background works on the copy.
Scanning == epc = "scan" /\ ei <= en
NextSlot == ei' = ei + 1 /\ UNCHANGED <<en, snap>>
LeaveLoop == epc' = "cmds" /\ ei' = 0 /\ en' = 0 /\ snap' = [s \in Slots |-> Blank]

\* (mutant: only running objects are looked after)
SnapDiedRunning(e) == e.id # None /\ e.pid = None /\ e.cur = PHAL_STATUS_RUN
SnapDied(e) == e.id # None /\ e.pid = None /\ e.cur # PHAL_STATUS_0
SnapBusy(e) ==
  /\ e.id # None /\ ~SnapDied(e)
  /\ e.progress # 0 /\ e.cur # PHAL_STATUS_STEP
SnapComplete(e) == e.cur = e.next /\ e.progress = 2

ScanEnd ==
  /\ epc = "scan" /\ ei > en /\ LeaveLoop
  /\ UNCHANGED <<dbVars, objVars, creating, shared, eid, eslot, eret>>
  /\ NoReportSent

\* An entry with no id, a quiet one, or a change still within its limit.
ScanSkip ==
  LET e == snap[ei] IN
  /\ Scanning /\ ~SnapDied(e)
  /\ SnapBusy(e) => ~SnapComplete(e) /\ ~e.late
  /\ NextSlot
  /\ UNCHANGED <<dbVars, objVars, creating, shared, epc, eid, eslot, eret>>
  /\ NoReportSent

\* "if object died, report and remove it".  hwapi_proc_remove looks the id up,
\* then clears the entry it found, then shrinks the visible table.
ScanDied ==
  LET e == snap[ei]
      s == Find(e.id)
  IN /\ Scanning /\ SnapDied(e)
     /\ IF e.cur \in Stopped THEN NoReportSent ELSE Report(e.id, "err", e.cur)
     /\ IF s = 0 THEN NextSlot /\ UNCHANGED <<epc, eslot, eid>>
        ELSE /\ epc' = "remove" /\ eslot' = s /\ eid' = e.id
             /\ UNCHANGED <<ei, en, snap>>
     /\ UNCHANGED <<dbVars, objVars, creating, shared, eret>>

RemoveClear ==
  /\ epc = "remove" /\ epc' = "shrink"
  /\ oid' = [oid EXCEPT ![eslot] = None]
  /\ UNCHANGED <<pid, cur, next, due, progress, max_proc_id, objVars, creating, shared,
                 ei, en, eid, eslot, eret, snap>>
  /\ NoReportSent

RemoveShrink ==
  /\ epc = "shrink" /\ epc' = "scan"
  /\ max_proc_id' = MaxAfterRemove(eslot)
  /\ eslot' = 0 /\ eid' = None /\ NextSlot
  /\ UNCHANGED <<pid, entryVars, objVars, creating, shared, eret>> /\ NoReportSent

\* The copy shows a complete change: acknowledge it in the table and report the
\* status of the copy.  If the table disagrees, the copy is "old data" and the
\* rest of it is dropped.
\* (mutant: the answer of status_ack is ignored)
ScanAckIgnored ==
  LET e == snap[ei]
      s == Find(e.id)
  IN /\ Scanning /\ SnapBusy(e) /\ SnapComplete(e)
     /\ IF s # 0 /\ Complete(s) THEN StatusAck(s) ELSE UNCHANGED entryVars
     /\ Report(e.id, "ok", e.cur) /\ NextSlot
     /\ UNCHANGED <<pid, max_proc_id, objVars, creating, shared, epc, eid, eslot, eret>>

ScanAck ==
  LET e == snap[ei]
      s == Find(e.id)
  IN /\ Scanning /\ SnapBusy(e) /\ SnapComplete(e)
     /\ IF s # 0 /\ Complete(s)
        THEN StatusAck(s) /\ Report(e.id, "ok", e.cur) /\ NextSlot /\ UNCHANGED epc
        ELSE LeaveLoop /\ UNCHANGED entryVars /\ NoReportSent
     /\ UNCHANGED <<pid, max_proc_id, objVars, creating, shared, eid, eslot, eret>>

\* The copy shows a change past its limit: kill the process, then report.
\* (mutant: the process is not killed)
ScanLateSpared ==
  LET e == snap[ei] IN
  /\ Scanning /\ SnapBusy(e) /\ ~SnapComplete(e) /\ e.late
  /\ epc' = "timeout" /\ eid' = e.id
  /\ UNCHANGED <<dbVars, objVars, creating, shared, ei, en, eslot, eret, snap>> /\ NoReportSent

ScanLate ==
  LET e == snap[ei] IN
  /\ Scanning /\ SnapBusy(e) /\ ~SnapComplete(e) /\ e.late
  /\ ProcKill(e.id, "timeout")
  /\ UNCHANGED <<dbVars, pc, my, isterming, init_done, creating, shared, ei, en, snap>>
  /\ NoReportSent

LateReport ==
  /\ epc = "timeout"
  /\ Report(eid, "err", PHAL_STATUS_ABNSTOP)
  /\ epc' = "scan" /\ eid' = None /\ NextSlot
  /\ UNCHANGED <<dbVars, objVars, creating, shared, eslot, eret>>

-----------------------------------------------------------------------------
Init ==
  /\ pid  = [s \in Slots |-> None] /\ oid = [s \in Slots |-> None]
  /\ cur  = [s \in Slots |-> 0] /\ next = [s \in Slots |-> 0]
  /\ progress = [s \in Slots |-> 0] /\ due = [s \in Slots |-> 0]
  /\ max_proc_id = 0
  /\ pc = [o \in Ids |-> "none"] /\ my = [o \in Ids |-> 0]
  /\ isterming = [o \in Ids |-> FALSE] /\ init_done = [o \in Ids |-> FALSE]
  /\ sigterm = [o \in Ids |-> FALSE]
  /\ creating = Idle /\ shared = {}
  /\ epc = "cmds" /\ ei = 0 /\ en = 0 /\ eid = None /\ eslot = 0 /\ eret = "cmds"
  /\ snap = [s \in Slots |-> Blank]
  /\ report = NoReport

Load == \/ \E o \in Ids, s \in Slots : CreateFill(o, s)
        \/ \E o \in Ids : ChildPid(o)
        \/ CreateDone

Reap == \E s \in Slots : SigChld(s)

\* The steps of the library on the object's behalf, which its own code cannot
\* hold up, and the steps of the object's own code.
Library(o) ==
  \/ Boot(o) \/ Started(o) \/ StatusLoop(o)
  \/ StepGet(o) \/ StepAck(o) \/ StepNew(o) \/ StepEnd(o)
  \/ Close(o) \/ CloseAbnstop(o) \/ CloseGet(o) \/ CloseWait(o) \/ Exit(o)

Object(o) == Library(o) \/ WorkDone(o) \/ WorkFails(o) \/ Terminated(o) \/ Crash(o)

Command == \E o \in Ids, st \in CmdStatuses, d \in 0..MaxAhead : SetStatus(o, st, d)

Background ==
  \/ Refuse \/ KillWait \/ CopyFirst \/ CopyRest
  \/ ScanEnd \/ ScanSkip \/ ScanDied \/ RemoveClear \/ RemoveShrink
  \/ ScanAck \/ ScanLate \/ LateReport

Next ==
  \/ Load \/ Reap \/ Tick
  \/ \E o \in Ids : Object(o)
  \/ Command \/ Background

Spec == Init /\ [][Next]_vars

(***************************************************************************)
(* Fairness.  The kernel's timer, its signal handler and the daemons' loops *)
(* keep running; an object's process is scheduled, but nothing says that   *)
(* the object's own Init() or Run() returns, that it fails, or that it     *)
(* crashes; and SWMAN need not ask for anything.  Commands arrive at a     *)
(* finite rate, so EXEC gets to its background work again and again.       *)
(***************************************************************************)
Fairness ==
  /\ WF_vars(Tick) /\ WF_vars(Reap) /\ WF_vars(CreateDone)
  /\ WF_vars(Background) /\ SF_vars(CopyFirst)
  /\ \A o \in Ids : /\ WF_vars(ChildPid(o))
                    /\ WF_vars(Library(o))
                    /\ WF_vars(Terminated(o))

FairSpec == Spec /\ Fairness

-----------------------------------------------------------------------------
(* Properties.                                                             *)

Labels == {"none", "forked", "boot", "started", "status", "init", "run",
           "stepget", "stepack", "stepnew", "stepend",
           "close", "abnstop", "abnget1", "abnget2", "wait", "exit", "dead"}

\* The type of every variable.
TypeOK ==
  /\ pid \in [Slots -> IdOrNo] /\ oid \in [Slots -> IdOrNo]
  /\ cur \in [Slots -> Status] /\ next \in [Slots -> Status]
  /\ progress \in [Slots -> 0..2] /\ due \in [Slots -> Due]
  /\ max_proc_id \in 0..NSlots
  /\ pc \in [Ids -> Labels] /\ my \in [Ids -> 0..NSlots]
  /\ isterming \in [Ids -> BOOLEAN] /\ init_done \in [Ids -> BOOLEAN]
  /\ sigterm \in [Ids -> BOOLEAN]
  /\ creating \in [id : IdOrNo, slot : 0..NSlots] /\ shared \subseteq Slots
  /\ epc \in {"cmds", "refuse", "killwait", "copy", "scan", "remove", "shrink",
              "timeout"}
  /\ ei \in 0..(NSlots + 1) /\ en \in 0..NSlots
  /\ eid \in IdOrNo /\ eslot \in 0..NSlots /\ eret \in {"cmds", "timeout"}
  /\ snap \in [Slots -> [pid : IdOrNo, id : IdOrNo, cur : Status, next : Status,
                         progress : 0..2, late : BOOLEAN]]
  /\ report \in [kind : {"none", "ok", "err"}, id : IdOrNo, st : Status]

\* A change that is closed is a change that was made: no entry is quiet with a
\* status still to take, whoever closed it and whatever copy it worked on
\* (status_ack called by EXEC on a stale copy and by the object in STEP).
SettledIsQuiet == \A s \in Slots : progress[s] = 0 => cur[s] = next[s]

\* An object that has begun to take up a status is not ahead of its time slot,
\* whatever was requested in between.
AdoptionIsDue ==
  \A s \in Slots : progress[s] = 2 /\ cur[s] # next[s] => due[s] <= 0

\* An object enters a new status only by its own status_get, in or after the
\* time slot SWMAN asked for, and it enters the status asked for last ("the new
\* status won't be returned" earlier, hwapi_proc_status_get).
EntersInTime ==
  \A s \in Slots :
    cur'[s] # cur[s] /\ oid'[s] = oid[s] /\ oid[s] # None /\ creating' = creating
      => due[s] <= 0 /\ cur'[s] = next[s]
NotBeforeTslot == [][EntersInTime]_vars

\* A STATUSOK tells SWMAN the status the object has when its change is closed,
\* although EXEC takes it from a copy made earlier and without a lock: the entry
\* that is closed is there, and its status is the one of the copy unless the
\* object aborted itself in between.  In an entry that a launch has taken from a
\* living process (see ExitIsConfirmed) that process may take up the next status
\* first, and then the report is of a status already left.
OkIsTrue ==
  [][report'.kind = "ok" =>
       LET s == Find(report'.id) IN
       /\ s # 0 /\ progress'[s] = 0
       /\ s \notin shared => cur[s] \in {report'.st, PHAL_STATUS_ABNSTOP}]_vars

\* An object that ends by its own decision ends after EXEC has acknowledged its
\* stop (the wait at the end of ClosePHAL), so long as it is in the table and the
\* entry is its own: hwapi_proc_remove may clear an entry that a launch has taken
\* since it was found, the next launch takes it again, and then two processes
\* take up each other's statuses.
ExitIsConfirmed ==
  [][\A o \in Ids :
       pc[o] = "wait" /\ pc'[o] = "exit" /\ ~isterming[o]
         /\ Find(o) # 0 /\ Find(o) \notin shared
       => cur[Find(o)] \in Stopped /\ progress[Find(o)] = 0]_vars

\* Once ClosePHAL has begun the process ends, whatever SWMAN asks of the object
\* meanwhile: EXEC confirms the stop or times the other request out and kills.
\* EXEC does not watch an object in STEP.
ClosingEnds ==
  \A o \in Ids :
    pc[o] \in {"close", "abnstop", "abnget1", "abnget2", "wait"}
      ~> pc[o] = "dead" \/ \E s \in Slots : my[o] = s /\ cur[s] = PHAL_STATUS_STEP

\* A requested change does not stay open: the object takes it up and EXEC closes
\* it, or EXEC kills the object.  EXEC does not watch an object in STEP.
ChangeEnds ==
  \A s \in Slots :
    progress[s] # 0 /\ oid[s] # None /\ cur[s] # PHAL_STATUS_STEP
      ~> progress[s] = 0 \/ pid[s] = None \/ cur[s] = PHAL_STATUS_STEP

\* SWMAN hears of the death of an object that had started and was not stopped.
DiedRunning(s, o) ==
  /\ s <= max_proc_id /\ oid[s] = o /\ pid[s] = None /\ cur[s] \notin Stopped \cup {0}
  /\ epc # "remove"
DeathIsReported ==
  \A s \in Slots, o \in Ids :
    DiedRunning(s, o) ~> report.kind = "err" /\ report.id = o

\* The entry of an object that had started is given up after its death.
DeadIsRemoved ==
  \A s \in Slots, o \in Ids :
    s <= max_proc_id /\ oid[s] = o /\ pid[s] = None /\ cur[s] # 0 ~> oid[s] # o

\* hwapi_proc_remove never hides the entry of another object: an entry that was
\* published stays below max_proc_id.
PublishedIsVisible ==
  \A s \in Slots : oid[s] # None /\ creating.slot # s => s <= max_proc_id

-----------------------------------------------------------------------------
(* What the source says and the code does not do.                          *)

\* "a successful change will be reported by exec_run() function when it detects
\* it has been correctly realized": the status reported is the one acknowledged.
AckedIsReported ==
  [][report'.kind = "ok" => cur[Find(report'.id)] = report'.st]_vars

\* "if object died, report and remove it": the entry of an object that died
\* without being stopped is given up only by that removal.
DiedIsNotForgotten ==
  [][\A s \in Slots :
       s <= max_proc_id /\ oid[s] # None /\ oid'[s] # oid[s] /\ cur[s] \notin Stopped \cup {0}
       => epc = "remove"]_vars
=============================================================================
