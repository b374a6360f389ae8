--------------------------- MODULE ObjStatus_proofs ---------------------------
(***************************************************************************)
(* Proofs about ObjStatus for any number of objects and entries, any time  *)
(* limit, any set of commands and any way in which a copy may be torn.     *)
(***************************************************************************)
EXTENDS ObjStatus, NatLemmas

-----------------------------------------------------------------------------
(* The searches of the process table.                                      *)

\* The search by id returns an entry with that id, or 0 when there is none.
LEMMA FindType ==
  ASSUME NEW o, max_proc_id \in 0..NSlots
  PROVE  /\ Find(o) \in 0..NSlots
         /\ Find(o) # 0 => Find(o) \in Slots /\ Find(o) <= max_proc_id
                           /\ oid[Find(o)] = o
<1>1. NSlots \in Nat
  BY SizeAssumption
<1>2. CASE \E s \in Slots : s <= max_proc_id /\ oid[s] = o
  <2> DEFINE S == {s \in Slots : s <= max_proc_id /\ oid[s] = o}
  <2>1. S \in SUBSET Nat /\ S # {}
    BY <1>1, <1>2 DEF Slots
  <2>2. PICK s \in S : \A y \in S : s <= y
    <3> HIDE DEF S
    <3> QED BY <2>1, MinExists
  <2>3. \A t \in 1..(s - 1) : oid[t] # o
    <3> SUFFICES ASSUME NEW t \in 1..(s - 1), oid[t] = o PROVE FALSE
      OBVIOUS
    <3>1. s \in Nat /\ s <= NSlots /\ s <= max_proc_id
      BY <1>1 DEF Slots
    <3>2. t \in S
      BY <1>1, <3>1 DEF Slots
    <3> QED BY <2>2, <3>1, <3>2
  <2>4. \E x \in Slots : /\ x <= max_proc_id /\ oid[x] = o
                         /\ \A t \in 1..(x - 1) : oid[t] # o
    BY <2>2, <2>3
  <2>5. /\ Find(o) \in Slots /\ Find(o) <= max_proc_id /\ oid[Find(o)] = o
    <3>1. Find(o) = CHOOSE x \in Slots : /\ x <= max_proc_id /\ oid[x] = o
                                         /\ \A t \in 1..(x - 1) : oid[t] # o
      BY <1>2 DEF Find
    <3> QED BY <2>4, <3>1
  <2> QED BY <1>1, <2>5 DEF Slots
<1>3. CASE ~ \E s \in Slots : s <= max_proc_id /\ oid[s] = o
  BY <1>1, <1>3 DEF Find
<1> QED BY <1>2, <1>3

\* What hwapi_proc_remove leaves as the last visible entry is an entry.
LEMMA MaxAfterRemoveType ==
  ASSUME NEW s, max_proc_id \in 0..NSlots
  PROVE  MaxAfterRemove(s) \in 0..NSlots
<1>1. NSlots \in Nat
  BY SizeAssumption
<1> DEFINE L == {t \in Slots : t <= max_proc_id + 1 /\ oid[t] # None}
<1>2. CASE s = max_proc_id /\ L # {}
  <2>1. L \in SUBSET (0..NSlots)
    BY <1>1 DEF Slots
  <2>2. \E t \in L : \A u \in L : u <= t
    <3> HIDE DEF L
    <3> QED BY <1>1, <1>2, <2>1, MaxExists
  <2>3. MaxAfterRemove(s) = CHOOSE t \in L : \A u \in L : u <= t
    BY <1>2 DEF MaxAfterRemove
  <2>4. MaxAfterRemove(s) \in L
    <3> HIDE DEF L
    <3> QED BY <2>2, <2>3
  <2> QED BY <2>1, <2>4
<1>3. CASE ~(s = max_proc_id /\ L # {})
  BY <1>3 DEF MaxAfterRemove
<1> QED BY <1>2, <1>3

-----------------------------------------------------------------------------
(* The inductive invariant.                                                *)

\* What EXEC works on is an entry of its copy, and an entry of the table while
\* it waits for a process to end or removes an entry.
ExecInRange ==
  /\ epc \in {"copy", "scan"} => ei >= 1
  /\ (epc \in {"remove", "shrink", "timeout"} \/ (epc = "killwait" /\ eret = "timeout"))
       => 1 <= ei /\ ei <= en
  /\ epc \in {"killwait", "remove", "shrink"} => eslot \in Slots

\* A process works on an entry of the table, and so does hwapi_proc_create.
ObjectInRange == \A o \in Ids : pc[o] \notin {"none", "dead"} => my[o] \in Slots
CreatingInRange == creating # Idle => creating.slot \in Slots /\ creating.id \in Ids

(***************************************************************************)
(* The invariant is grouped by who writes the variables, so that a step is *)
(* shown to keep each group at the price of what it changes in that group. *)
(***************************************************************************)
EntryOK ==
  /\ oid \in [Slots -> IdOrNo]
  /\ cur \in [Slots -> Status] /\ next \in [Slots -> Status]
  /\ progress \in [Slots -> 0..2] /\ due \in [Slots -> Due]
  /\ SettledIsQuiet /\ AdoptionIsDue

TableOK == pid \in [Slots -> IdOrNo] /\ max_proc_id \in 0..NSlots

ObjectOK ==
  /\ pc \in [Ids -> Labels] /\ my \in [Ids -> 0..NSlots]
  /\ isterming \in [Ids -> BOOLEAN] /\ init_done \in [Ids -> BOOLEAN]
  /\ sigterm \in [Ids -> BOOLEAN]
  /\ ObjectInRange

CreatingOK ==
  /\ creating \in [id : IdOrNo, slot : 0..NSlots] /\ shared \subseteq Slots
  /\ CreatingInRange

CopyEntry == [pid : IdOrNo, id : IdOrNo, cur : Status, next : Status,
              progress : 0..2, late : BOOLEAN]

ExecOK ==
  /\ epc \in {"cmds", "refuse", "killwait", "copy", "scan", "remove", "shrink",
              "timeout"}
  /\ ei \in 0..(NSlots + 1) /\ en \in 0..NSlots
  /\ eid \in IdOrNo /\ eslot \in 0..NSlots /\ eret \in {"cmds", "timeout"}
  /\ ExecInRange

CopyOK == snap \in [Slots -> CopyEntry]

ReportOK == report \in [kind : {"none", "ok", "err"}, id : IdOrNo, st : Status]

IInv == EntryOK /\ TableOK /\ ObjectOK /\ CreatingOK /\ ExecOK /\ CopyOK /\ ReportOK

\* The arithmetic of relative time stamps.
LEMMA Numbers ==
  /\ NSlots \in Nat \ {0} /\ Limit \in Nat /\ MaxAhead \in Nat
  /\ Expired \in Int /\ Expired < 0
  /\ Due \subseteq Int /\ -1 \in Due /\ 0 \in Due /\ 0..MaxAhead \subseteq Due
BY SizeAssumption DEF Expired, Due

-----------------------------------------------------------------------------
(* What the three calls on an entry do to the entries.                     *)

\* hwapi_proc_status_get takes a status over in two calls, the first of them
\* not before its time slot.
LEMMA StatusGetKeeps ==
  ASSUME EntryOK, NEW s \in Slots, StatusGet(s)
  PROVE  EntryOK'
<1>1. /\ oid' = oid /\ next' = next /\ due' = due
      /\ progress' \in [Slots -> 0..2] /\ cur' \in [Slots -> Status]
  BY DEF EntryOK, StatusGet
<1>2. SettledIsQuiet'
  BY <1>1 DEF EntryOK, StatusGet, SettledIsQuiet
<1>3. AdoptionIsDue'
  BY <1>1 DEF EntryOK, StatusGet, AdoptionIsDue
<1> QED BY <1>1, <1>2, <1>3 DEF EntryOK

\* hwapi_proc_status_new opens a change.
LEMMA StatusNewKeeps ==
  ASSUME EntryOK, NEW s \in Slots, NEW st \in Status, NEW d \in Due, StatusNew(s, st, d)
  PROVE  EntryOK'
<1>1. /\ oid' = oid /\ cur' = cur
      /\ next' \in [Slots -> Status] /\ due' \in [Slots -> Due]
      /\ progress' \in [Slots -> 0..2]
  BY DEF EntryOK, StatusNew
<1>2. SettledIsQuiet'
  BY <1>1 DEF EntryOK, StatusNew, SettledIsQuiet
<1>3. AdoptionIsDue'
  BY <1>1 DEF EntryOK, StatusNew, AdoptionIsDue
<1> QED BY <1>1, <1>2, <1>3 DEF EntryOK

\* hwapi_proc_status_ack closes a complete change.
LEMMA StatusAckKeeps ==
  ASSUME EntryOK, NEW s \in Slots, Complete(s), StatusAck(s)
  PROVE  EntryOK'
<1>1. /\ oid' = oid /\ cur' = cur /\ next' = next /\ due' = due
      /\ progress' \in [Slots -> 0..2]
  BY DEF EntryOK, StatusAck
<1>2. SettledIsQuiet'
  BY <1>1 DEF EntryOK, StatusAck, Complete, SettledIsQuiet
<1>3. AdoptionIsDue'
  BY <1>1 DEF EntryOK, StatusAck, AdoptionIsDue
<1> QED BY <1>1, <1>2, <1>3 DEF EntryOK

LEMMA EntriesUnchanged ==
  ASSUME EntryOK, UNCHANGED entryVars
  PROVE  EntryOK'
BY DEF EntryOK, entryVars, SettledIsQuiet, AdoptionIsDue

\* The end of a process disturbs nothing but what is known of that process.
LEMMA DieKeeps ==
  ASSUME ObjectOK, NEW o \in Ids, Die(o)
  PROVE  ObjectOK'
<1>1. pc' \in [Ids -> Labels] /\ my' \in [Ids -> 0..NSlots]
  BY Numbers DEF ObjectOK, Die, Labels
<1>2. /\ isterming' \in [Ids -> BOOLEAN] /\ init_done' \in [Ids -> BOOLEAN]
      /\ sigterm' \in [Ids -> BOOLEAN]
  BY DEF ObjectOK, Die
<1>3. ObjectInRange'
  BY DEF ObjectOK, Die, ObjectInRange
<1> QED BY <1>1, <1>2, <1>3 DEF ObjectOK

\* A step of a living process to another label of its program.
LEMMA GotoKeeps ==
  ASSUME ObjectOK, NEW o \in Ids, NEW l \in Labels, Goto(o, l),
         pc[o] \notin {"none", "dead"},
         UNCHANGED <<my, isterming, init_done, sigterm>>
  PROVE  ObjectOK'
<1>1. pc' \in [Ids -> Labels]
  BY DEF ObjectOK, Goto
<1>2. ObjectInRange'
  BY DEF ObjectOK, Goto, ObjectInRange
<1> QED BY <1>1, <1>2 DEF ObjectOK

LEMMA ObjectsUnchanged ==
  ASSUME ObjectOK, UNCHANGED objVars
  PROVE  ObjectOK'
BY DEF ObjectOK, objVars, ObjectInRange

LEMMA TableUnchanged ==
  ASSUME TableOK, UNCHANGED <<pid, max_proc_id>>
  PROVE  TableOK'
BY DEF TableOK

LEMMA CreatingUnchanged ==
  ASSUME CreatingOK, UNCHANGED <<creating, shared>>
  PROVE  CreatingOK'
BY DEF CreatingOK, CreatingInRange

LEMMA ExecUnchanged ==
  ASSUME ExecOK, CopyOK, UNCHANGED execVars
  PROVE  ExecOK' /\ CopyOK'
BY DEF ExecOK, CopyOK, execVars, ExecInRange

LEMMA NothingReported ==
  ASSUME NoReportSent
  PROVE  ReportOK'
BY DEF NoReportSent, NoReport, ReportOK, IdOrNo, Status

LEMMA ReportKeeps ==
  ASSUME NEW o \in IdOrNo, NEW k \in {"ok", "err"}, NEW st \in Status, Report(o, k, st)
  PROVE  ReportOK'
BY DEF Report, ReportOK

-----------------------------------------------------------------------------
(* SWLOAD, the kernel and the clock.                                       *)

\* A new entry opens with the change to STARTED.
LEMMA CreateFillKeeps ==
  ASSUME IInv, NEW o \in Ids, NEW s \in Slots, CreateFill(o, s)
  PROVE  IInv'
<1>1. EntryOK'
  <2>1. /\ oid' \in [Slots -> IdOrNo] /\ cur' \in [Slots -> Status]
        /\ next' \in [Slots -> Status]
    BY DEF IInv, EntryOK, CreateFill, IdOrNo, Status, PHAL_STATUS_0, PHAL_STATUS_STARTED
  <2>2. progress' \in [Slots -> 0..2] /\ due' \in [Slots -> Due]
    BY Numbers DEF IInv, EntryOK, CreateFill
  <2>3. SettledIsQuiet' /\ AdoptionIsDue'
    BY DEF IInv, EntryOK, CreateFill, SettledIsQuiet, AdoptionIsDue
  <2> QED BY <2>1, <2>2, <2>3 DEF EntryOK
<1>2. TableOK'
  BY DEF IInv, TableOK, CreateFill, IdOrNo
<1>3. ObjectOK'
  <2>1. pc' \in [Ids -> Labels] /\ my' \in [Ids -> 0..NSlots]
    BY Numbers DEF IInv, ObjectOK, CreateFill, Labels, Slots
  <2>2. ObjectInRange'
    BY DEF IInv, ObjectOK, ObjectInRange, CreateFill
  <2> QED BY <2>1, <2>2 DEF IInv, ObjectOK, CreateFill
<1>4. CreatingOK'
  <2>1. shared' \subseteq Slots
    BY DEF IInv, CreatingOK, CreateFill
  <2> QED BY <2>1, Numbers DEF CreatingOK, CreatingInRange, CreateFill, IdOrNo, Slots
<1>5. ExecOK' /\ CopyOK' /\ ReportOK'
  BY ExecUnchanged, NothingReported DEF IInv, CreateFill
<1> QED BY <1>1, <1>2, <1>3, <1>4, <1>5 DEF IInv

LEMMA ChildPidKeeps ==
  ASSUME IInv, NEW o \in Ids, ChildPid(o)
  PROVE  IInv'
<1>1. TableOK'
  BY DEF IInv, TableOK, ChildPid, IdOrNo
<1>2. ObjectOK'
  <2>1. Goto(o, "boot") /\ "boot" \in Labels
    BY DEF ChildPid, Goto, Labels
  <2> QED BY <2>1, GotoKeeps DEF IInv, ChildPid
<1> QED BY <1>1, <1>2, EntriesUnchanged, CreatingUnchanged, ExecUnchanged,
           NothingReported DEF IInv, ChildPid

\* The entry is published, or cleared to a closed one.
LEMMA CreateDoneKeeps ==
  ASSUME IInv, CreateDone
  PROVE  IInv'
<1> DEFINE s == creating.slot
<1>1. s \in Slots
  BY DEF IInv, CreatingOK, CreatingInRange, CreateDone
<1>2. EntryOK' /\ TableOK'
  <2>1. CASE pid[s] = creating.id
    <3>1. UNCHANGED entryVars /\ pid' = pid /\ max_proc_id' = Publish(s)
      BY <2>1 DEF CreateDone
    <3>2. max_proc_id' \in 0..NSlots
      BY <1>1, <3>1, Numbers DEF IInv, TableOK, Publish, Slots
    <3> QED BY <3>1, <3>2, EntriesUnchanged DEF IInv, TableOK
  <2>2. CASE pid[s] # creating.id
    <3>1. /\ pid' \in [Slots -> IdOrNo] /\ oid' \in [Slots -> IdOrNo]
          /\ max_proc_id' = max_proc_id
      BY <2>2 DEF IInv, EntryOK, TableOK, CreateDone, IdOrNo
    <3>2. /\ cur' \in [Slots -> Status] /\ next' \in [Slots -> Status]
          /\ progress' \in [Slots -> 0..2] /\ due' \in [Slots -> Due]
      BY <2>2, Numbers DEF IInv, EntryOK, CreateDone, Status
    <3>3. SettledIsQuiet' /\ AdoptionIsDue'
      BY <1>1, <2>2 DEF IInv, EntryOK, CreateDone, SettledIsQuiet, AdoptionIsDue
    <3> QED BY <3>1, <3>2, <3>3 DEF IInv, EntryOK, TableOK
  <2> QED BY <2>1, <2>2
<1>3. CreatingOK'
  BY Numbers DEF IInv, CreateDone, CreatingOK, CreatingInRange, Idle, IdOrNo
<1> QED BY <1>2, <1>3, ObjectsUnchanged, ExecUnchanged, NothingReported
        DEF IInv, CreateDone

LEMMA SigChldKeeps ==
  ASSUME IInv, NEW s \in Slots, SigChld(s)
  PROVE  IInv'
<1>1. TableOK'
  BY DEF IInv, TableOK, SigChld, IdOrNo
<1> QED BY <1>1, EntriesUnchanged, ObjectsUnchanged, CreatingUnchanged,
           ExecUnchanged, NothingReported DEF IInv, SigChld

\* Time only brings what is due closer.
LEMMA TickKeeps ==
  ASSUME IInv, Tick
  PROVE  IInv'
<1>1. EntryOK'
  <2>1. due' \in [Slots -> Due]
    BY Numbers DEF IInv, EntryOK, Tick, Due, Expired
  <2>2. ASSUME NEW s \in Slots PROVE due[s] <= 0 => due'[s] <= 0
    BY Numbers DEF IInv, EntryOK, Tick, Due
  <2>3. SettledIsQuiet' /\ AdoptionIsDue'
    BY <2>2 DEF IInv, EntryOK, Tick, SettledIsQuiet, AdoptionIsDue
  <2> QED BY <2>1, <2>3 DEF IInv, EntryOK, Tick
<1> QED BY <1>1, TableUnchanged, ObjectsUnchanged, CreatingUnchanged,
           ExecUnchanged, NothingReported DEF IInv, Tick

-----------------------------------------------------------------------------
(* The objects.                                                            *)

\* A step of the library on an object's own entry: it keeps the invariant when
\* it keeps the entries and goes to a label of the program.
LEMMA OwnStepKeeps ==
  ASSUME IInv, EntryOK', NEW o \in Ids, NEW l \in Labels, Goto(o, l), OwnStep,
         pc[o] \notin {"none", "dead"}
  PROVE  IInv'
<1>1. TableOK' /\ CreatingOK' /\ ExecOK' /\ CopyOK' /\ ReportOK'
  BY TableUnchanged, CreatingUnchanged, ExecUnchanged, NothingReported DEF IInv, OwnStep
<1>2. ObjectOK'
  BY GotoKeeps DEF IInv, OwnStep
<1> QED BY <1>1, <1>2 DEF IInv

\* A process that is not running has no entry of its own to work on.
LEMMA MySlot ==
  ASSUME IInv, NEW o \in Ids, pc[o] \notin {"none", "dead"}
  PROVE  my[o] \in Slots /\ my[o] \in 0..NSlots
BY DEF IInv, ObjectOK, ObjectInRange

\* Steps that read the status: InitPHAL, Status, the two reads in STEP and the
\* two that adopt an abnormal stop.
LEMMA StatusReadKeeps ==
  ASSUME IInv, NEW o \in Ids, NEW l \in Labels, pc[o] \notin {"none", "dead"},
         StatusGet(my[o]), Goto(o, l), OwnStep
  PROVE  IInv'
<1>1. EntryOK'
  BY MySlot, StatusGetKeeps DEF IInv
<1> QED BY <1>1, OwnStepKeeps

LEMMA BootKeeps ==
  ASSUME IInv, NEW o \in Ids, Boot(o)
  PROVE  IInv'
<1>1. /\ UNCHANGED <<pid, max_proc_id>> /\ UNCHANGED <<creating, shared>> /\ UNCHANGED execVars
      /\ UNCHANGED <<oid, cur, next, progress>> /\ NoReportSent
  BY DEF Boot
<1>2. TableOK' /\ CreatingOK' /\ ExecOK' /\ CopyOK' /\ ReportOK'
  BY <1>1, TableUnchanged, CreatingUnchanged, ExecUnchanged, NothingReported DEF IInv
<1>3. CASE \E s \in Slots : /\ my' = [my EXCEPT ![o] = s]
                            /\ due' = [due EXCEPT ![s] = 0]
                            /\ Goto(o, "started")
                            /\ UNCHANGED <<isterming, init_done, sigterm>>
  <2>1. PICK s \in Slots : /\ my' = [my EXCEPT ![o] = s]
                           /\ due' = [due EXCEPT ![s] = 0]
                           /\ Goto(o, "started")
                           /\ UNCHANGED <<isterming, init_done, sigterm>>
    BY <1>3
  <2>2. EntryOK'
    <3>1. due' \in [Slots -> Due]
      BY <2>1, Numbers DEF IInv, EntryOK
    <3>2. AdoptionIsDue'
      BY <1>1, <2>1 DEF IInv, EntryOK, AdoptionIsDue
    <3>3. SettledIsQuiet'
      BY <1>1 DEF IInv, EntryOK, SettledIsQuiet
    <3> QED BY <1>1, <3>1, <3>2, <3>3 DEF IInv, EntryOK
  <2>3. ObjectOK'
    <3>1. pc' \in [Ids -> Labels] /\ my' \in [Ids -> 0..NSlots]
      BY <2>1, Numbers DEF IInv, ObjectOK, Goto, Labels, Slots
    <3>2. ObjectInRange'
      BY <2>1 DEF IInv, ObjectOK, ObjectInRange, Goto
    <3> QED BY <2>1, <3>1, <3>2 DEF IInv, ObjectOK
  <2> QED BY <1>2, <2>2, <2>3 DEF IInv
<1>4. CASE Die(o) /\ UNCHANGED due
  BY <1>1, <1>2, <1>4, DieKeeps, EntriesUnchanged DEF IInv, entryVars
<1> QED BY <1>3, <1>4 DEF Boot

LEMMA StatusLoopKeeps ==
  ASSUME IInv, NEW o \in Ids, StatusLoop(o)
  PROVE  IInv'
<1>1. pc[o] = "status" /\ StatusGet(my[o]) /\ OwnStep
  BY DEF StatusLoop
<1>2. \/ Goto(o, "run") \/ Goto(o, "init") \/ Goto(o, "close") \/ Goto(o, "stepget")
      \/ UNCHANGED pc
  BY DEF StatusLoop
<1>3. CASE UNCHANGED pc
  <2>1. Goto(o, "status")
    BY <1>1, <1>3 DEF IInv, ObjectOK, Goto
  <2> QED BY <1>1, <2>1, StatusReadKeeps DEF Labels
<1> QED BY <1>1, <1>2, <1>3, StatusReadKeeps DEF Labels

\* In STEP the object acknowledges its own change and asks itself for PAUSE.
LEMMA StepAckKeeps ==
  ASSUME IInv, NEW o \in Ids, StepAck(o)
  PROVE  IInv'
<1>1. Find(o) # 0 => Find(o) \in Slots
  BY FindType DEF IInv, TableOK
<1>2. EntryOK'
  BY <1>1, StatusAckKeeps, EntriesUnchanged DEF IInv, StepAck
<1> QED BY <1>2, OwnStepKeeps DEF StepAck, Labels

LEMMA StepNewKeeps ==
  ASSUME IInv, NEW o \in Ids, StepNew(o)
  PROVE  IInv'
<1>1. Find(o) # 0 => Find(o) \in Slots
  BY FindType DEF IInv, TableOK
<1>2. EntryOK'
  BY <1>1, Numbers, StatusNewKeeps, EntriesUnchanged
     DEF IInv, StepNew, Status, PHAL_STATUS_PAUSE
<1> QED BY <1>2, OwnStepKeeps DEF StepNew, Labels

\* The forced stop of ClosePHAL opens a change whatever the entry said.
LEMMA CloseAbnstopKeeps ==
  ASSUME IInv, NEW o \in Ids, CloseAbnstop(o)
  PROVE  IInv'
<1>1. Find(o) # 0 => Find(o) \in Slots
  BY FindType DEF IInv, TableOK
<1>2. Expired..(-1) \subseteq Due
  BY Numbers DEF Due
<1>3. EntryOK'
  BY <1>1, <1>2, StatusNewKeeps, EntriesUnchanged
     DEF IInv, CloseAbnstop, Status, PHAL_STATUS_ABNSTOP
<1> QED BY <1>3, OwnStepKeeps DEF CloseAbnstop, Labels

LEMMA CloseWaitKeeps ==
  ASSUME IInv, NEW o \in Ids, CloseWait(o)
  PROVE  IInv'
<1>1. Find(o) # 0 => Find(o) \in Slots
  BY FindType DEF IInv, TableOK
<1>2. EntryOK'
  BY <1>1, Numbers, StatusNewKeeps, EntriesUnchanged
     DEF IInv, CloseWait, Status, PHAL_STATUS_STOP
<1> QED BY <1>2, OwnStepKeeps DEF CloseWait, Labels

LEMMA WorkDoneKeeps ==
  ASSUME IInv, NEW o \in Ids, WorkDone(o)
  PROVE  IInv'
<1>1. EntryOK' /\ TableOK' /\ CreatingOK' /\ ExecOK' /\ CopyOK' /\ ReportOK'
  BY EntriesUnchanged, TableUnchanged, CreatingUnchanged, ExecUnchanged, NothingReported
     DEF IInv, WorkDone, dbVars
<1>2. init_done' \in [Ids -> BOOLEAN]
  BY DEF IInv, ObjectOK, WorkDone
<1>3. pc' \in [Ids -> Labels] /\ ObjectInRange'
  BY DEF IInv, ObjectOK, ObjectInRange, WorkDone, Goto, Labels
<1>4. ObjectOK'
  BY <1>2, <1>3 DEF IInv, ObjectOK, WorkDone
<1> QED BY <1>1, <1>4 DEF IInv

\* A step that leaves the table alone and ends the process or sends it to
\* ClosePHAL: Exit, SIGTERM and a crash.
LEMMA ProcessEndKeeps ==
  ASSUME IInv, NEW o \in Ids, UNCHANGED <<dbVars, creating, shared, execVars>>, NoReportSent,
         ObjectOK'
  PROVE  IInv'
BY EntriesUnchanged, TableUnchanged, CreatingUnchanged, ExecUnchanged, NothingReported
   DEF IInv, dbVars

\* ClosePHAL run by a signal handler.
LEMMA TermingKeeps ==
  ASSUME IInv, NEW o \in Ids, pc[o] \notin {"none", "dead"}, Goto(o, "close"),
         isterming' = [isterming EXCEPT ![o] = TRUE],
         sigterm' \in [Ids -> BOOLEAN], UNCHANGED <<my, init_done>>
  PROVE  ObjectOK'
<1>1. isterming' \in [Ids -> BOOLEAN]
  BY DEF IInv, ObjectOK
<1>2. pc' \in [Ids -> Labels] /\ ObjectInRange'
  BY DEF IInv, ObjectOK, ObjectInRange, Goto, Labels
<1> QED BY <1>1, <1>2 DEF IInv, ObjectOK

LEMMA TerminatedKeeps ==
  ASSUME IInv, NEW o \in Ids, Terminated(o)
  PROVE  IInv'
<1>1. ObjectOK'
  <2>1. CASE isterming[o] \/ pc[o] \in {"boot", "started", "exit"}
    BY <2>1, DieKeeps DEF IInv, Terminated
  <2>2. CASE ~(isterming[o] \/ pc[o] \in {"boot", "started", "exit"})
    <3>1. sigterm' \in [Ids -> BOOLEAN]
      BY <2>2 DEF IInv, ObjectOK, Terminated
    <3> QED BY <2>2, <3>1, TermingKeeps DEF Terminated, Alive
  <2> QED BY <2>1, <2>2
<1> QED BY <1>1, ProcessEndKeeps DEF Terminated

LEMMA CrashKeeps ==
  ASSUME IInv, NEW o \in Ids, Crash(o)
  PROVE  IInv'
<1>1. ObjectOK'
  <2>1. CASE Die(o)
    BY <2>1, DieKeeps DEF IInv
  <2>2. CASE ~Die(o)
    <3>1. sigterm' \in [Ids -> BOOLEAN]
      BY <2>2 DEF IInv, ObjectOK, Crash
    <3> QED BY <2>2, <3>1, TermingKeeps DEF Crash, Alive
  <2> QED BY <2>1, <2>2
<1> QED BY <1>1, ProcessEndKeeps DEF Crash

LEMMA ObjectKeeps ==
  ASSUME IInv, NEW o \in Ids, Object(o)
  PROVE  IInv'
<1>1. CASE Boot(o) BY <1>1, BootKeeps
<1>2. CASE Started(o) BY <1>2, StatusReadKeeps DEF Started, Labels
<1>3. CASE StatusLoop(o) BY <1>3, StatusLoopKeeps
<1>4. CASE StepGet(o) BY <1>4, StatusReadKeeps DEF StepGet, Labels
<1>5. CASE StepAck(o) BY <1>5, StepAckKeeps
<1>6. CASE StepNew(o) BY <1>6, StepNewKeeps
<1>7. CASE StepEnd(o) BY <1>7, StatusReadKeeps DEF StepEnd, Labels
<1>8. CASE WorkDone(o) BY <1>8, WorkDoneKeeps
<1>9. CASE WorkFails(o)
  <2>1. EntryOK'
    BY <1>9, EntriesUnchanged DEF IInv, WorkFails
  <2> QED BY <1>9, <2>1, OwnStepKeeps DEF WorkFails, Labels
<1>10. CASE Close(o) BY <1>10, StatusReadKeeps DEF Close, Labels
<1>11. CASE CloseAbnstop(o) BY <1>11, CloseAbnstopKeeps
<1>12. CASE CloseGet(o) BY <1>12, StatusReadKeeps DEF CloseGet, Labels
<1>13. CASE CloseWait(o) BY <1>13, CloseWaitKeeps
<1>14. CASE Exit(o)
  <2>1. ObjectOK'
    BY <1>14, DieKeeps DEF IInv, Exit
  <2> QED BY <1>14, <2>1, ProcessEndKeeps DEF Exit
<1>15. CASE Terminated(o) BY <1>15, TerminatedKeeps
<1>16. CASE Crash(o) BY <1>16, CrashKeeps
<1> QED BY <1>1, <1>2, <1>3, <1>4, <1>5, <1>6, <1>7, <1>8, <1>9, <1>10, <1>11, <1>12,
           <1>13, <1>14, <1>15, <1>16 DEF Object, Library

-----------------------------------------------------------------------------
(* EXEC.                                                                   *)

\* hwapi_proc_kill, called for the object the loop is at or for the one whose
\* change was refused: EXEC then waits on an entry of the table.
LEMMA ProcKillKeeps ==
  ASSUME IInv, NEW o \in IdOrNo, NEW l \in {"cmds", "timeout"}, ProcKill(o, l),
         UNCHANGED <<pc, my, isterming, init_done>>, UNCHANGED <<ei, en>>,
         l = "timeout" => 1 <= ei /\ ei <= en
  PROVE  ObjectOK' /\ ExecOK'
<1>1. Find(o) \in 0..NSlots /\ (Find(o) # 0 => Find(o) \in Slots)
  BY FindType DEF IInv, TableOK
<1>2. sigterm' \in [Ids -> BOOLEAN]
  BY DEF IInv, ObjectOK, ProcKill
<1>3. ObjectOK'
  BY <1>2 DEF IInv, ObjectOK, ObjectInRange
<1>4. CASE Find(o) # 0 /\ pid[Find(o)] # None
  <2>1. epc' = "killwait" /\ eslot' = Find(o) /\ eret' = l /\ eid' = o
    BY <1>4 DEF ProcKill
  <2> QED BY <1>1, <1>3, <1>4, <2>1 DEF IInv, ExecOK, ExecInRange
<1>5. CASE ~(Find(o) # 0 /\ pid[Find(o)] # None)
  <2>1. epc' = l /\ eid' \in {None, o} /\ eslot' = eslot /\ eret' = eret
    BY <1>5 DEF ProcKill
  <2> QED BY <1>3, <1>5, <2>1 DEF IInv, ExecOK, ExecInRange, IdOrNo
<1> QED BY <1>3, <1>4, <1>5

LEMMA SetStatusKeeps ==
  ASSUME IInv, NEW o \in Ids, NEW st \in CmdStatuses, NEW d \in 0..MaxAhead,
         SetStatus(o, st, d)
  PROVE  IInv'
<1> DEFINE t == IF st = PHAL_STATUS_ABNSTOP THEN -1 ELSE d
<1>1. st \in Status /\ t \in Due
  BY CmdAssumption, Numbers
<1>2. Find(o) # 0 => Find(o) \in Slots
  BY FindType DEF IInv, TableOK
<1>3. EntryOK'
  <2>1. CASE Find(o) # 0 /\ CanChange(Find(o))
    <3>1. StatusNew(Find(o), st, t)
      BY <2>1 DEF SetStatus
    <3> HIDE DEF t
    <3> QED BY <1>1, <1>2, <2>1, <3>1, StatusNewKeeps DEF IInv
  <2>2. CASE ~(Find(o) # 0 /\ CanChange(Find(o)))
    BY <2>2, EntriesUnchanged DEF IInv, SetStatus
  <2> QED BY <2>1, <2>2
<1>4. ExecOK' /\ CopyOK'
  BY DEF IInv, ExecOK, ExecInRange, CopyOK, SetStatus, IdOrNo
<1> QED BY <1>3, <1>4, TableUnchanged, ObjectsUnchanged, CreatingUnchanged, NothingReported
        DEF IInv, SetStatus

LEMMA RefuseKeeps ==
  ASSUME IInv, Refuse
  PROVE  IInv'
<1>1. eid \in IdOrNo
  BY DEF IInv, ExecOK
<1>2. Find(eid) # 0 => Find(eid) \in Slots
  BY FindType DEF IInv, TableOK
<1>3. ObjectOK' /\ ExecOK' /\ ReportOK'
  <2>1. CASE Find(eid) = 0
    <3>1. ObjectOK'
      BY <2>1, ObjectsUnchanged DEF IInv, Refuse, objVars
    <3>2. ExecOK' /\ ReportOK'
      BY <2>1, NothingReported DEF IInv, ExecOK, ExecInRange, Refuse, IdOrNo
    <3> QED BY <3>1, <3>2
  <2>2. CASE Find(eid) # 0
    <3>1. cur[Find(eid)] \in Status
      BY <1>2, <2>2 DEF IInv, EntryOK
    <3>2. ReportOK'
      BY <1>1, <2>2, <3>1, ReportKeeps DEF Refuse
    <3>3. ProcKill(eid, "cmds")
      BY <2>2 DEF Refuse
    <3> QED BY <1>1, <3>2, <3>3, ProcKillKeeps DEF Refuse
  <2> QED BY <2>1, <2>2
<1>4. CopyOK'
  BY DEF IInv, CopyOK, Refuse
<1> QED BY <1>3, <1>4, EntriesUnchanged, TableUnchanged, CreatingUnchanged
        DEF IInv, Refuse, dbVars

\* The wait ends with the process, killed if need be.
LEMMA KillWaitKeeps ==
  ASSUME IInv, KillWait
  PROVE  IInv'
<1>1. eslot \in Slots
  BY DEF IInv, ExecOK, ExecInRange, KillWait
<1>2. ObjectOK'
  <2>1. CASE pid[eslot] # None
    <3>1. pid[eslot] \in Ids
      BY <1>1, <2>1 DEF IInv, TableOK, IdOrNo
    <3> QED BY <2>1, <3>1, DieKeeps DEF IInv, KillWait
  <2>2. CASE pid[eslot] = None
    BY <2>2, ObjectsUnchanged DEF IInv, KillWait
  <2> QED BY <2>1, <2>2
<1>3. ExecOK' /\ CopyOK'
  BY Numbers DEF IInv, ExecOK, ExecInRange, CopyOK, KillWait, IdOrNo
<1> QED BY <1>2, <1>3, EntriesUnchanged, TableUnchanged, CreatingUnchanged, NothingReported
        DEF IInv, KillWait, dbVars

\* An unlocked copy, of all fields or of some, holds values of the right types.
LEMMA CopyKeeps ==
  ASSUME IInv, NEW f, NEW n, Copy(f, n)
  PROVE  CopyOK'
<1>1. ASSUME NEW s \in Slots PROVE Copied(f, s, snap[s]) \in CopyEntry
  <2>1. Late(due[s]) \in BOOLEAN
    BY DEF Late
  <2>2. snap[s] \in CopyEntry
    BY DEF IInv, CopyOK
  <2>3. /\ pid[s] \in IdOrNo /\ oid[s] \in IdOrNo /\ cur[s] \in Status
        /\ next[s] \in Status /\ progress[s] \in 0..2
    BY DEF IInv, EntryOK, TableOK
  <2> QED BY <2>1, <2>2, <2>3 DEF Copied, CopyEntry
<1> QED BY <1>1 DEF IInv, CopyOK, Copy

LEMMA CopyStepsKeep ==
  ASSUME IInv, CopyFirst \/ CopyRest
  PROVE  IInv'
<1>1. CopyOK'
  BY CopyKeeps DEF CopyFirst, CopyRest
<1>2. ExecOK'
  BY Numbers DEF IInv, ExecOK, ExecInRange, TableOK, CopyFirst, CopyRest
<1> QED BY <1>1, <1>2, EntriesUnchanged, TableUnchanged, ObjectsUnchanged,
           CreatingUnchanged, NothingReported DEF IInv, CopyFirst, CopyRest, dbVars

\* The entry of the copy the loop is at.
LEMMA AtEntry ==
  ASSUME IInv, Scanning
  PROVE  /\ 1 <= ei /\ ei <= en /\ ei \in Slots
         /\ snap[ei].id \in IdOrNo /\ snap[ei].cur \in Status
<1>1. 1 <= ei /\ ei <= en /\ ei \in Slots
  BY Numbers DEF IInv, ExecOK, ExecInRange, Scanning, Slots
<1>2. snap[ei] \in CopyEntry
  BY <1>1 DEF IInv, CopyOK
<1> QED BY <1>1, <1>2 DEF CopyEntry

\* The loop goes on to the next entry, or is left.
LEMMA LoopMoves ==
  ASSUME IInv,
         \/ /\ 1 <= ei /\ ei <= en /\ NextSlot /\ epc' = "scan"
            /\ eslot' \in 0..NSlots /\ eid' \in IdOrNo /\ UNCHANGED eret
         \/ LeaveLoop /\ UNCHANGED <<eid, eslot, eret>>
  PROVE  ExecOK' /\ CopyOK'
<1>1. CASE LeaveLoop /\ UNCHANGED <<eid, eslot, eret>>
  <2>1. Blank \in CopyEntry
    BY DEF Blank, CopyEntry, IdOrNo, Status
  <2> QED BY <1>1, <2>1, Numbers DEF IInv, ExecOK, ExecInRange, CopyOK, LeaveLoop
<1>2. CASE /\ 1 <= ei /\ ei <= en /\ NextSlot /\ epc' = "scan"
           /\ eslot' \in 0..NSlots /\ eid' \in IdOrNo /\ UNCHANGED eret
  BY <1>2, Numbers DEF IInv, ExecOK, ExecInRange, CopyOK, NextSlot
<1> QED BY <1>1, <1>2

\* A step of EXEC that leaves the table and the objects alone.
LEMMA LooksOnly ==
  ASSUME IInv, UNCHANGED <<dbVars, objVars, creating, shared>>, ExecOK', CopyOK', ReportOK'
  PROVE  IInv'
BY EntriesUnchanged, TableUnchanged, ObjectsUnchanged, CreatingUnchanged
   DEF IInv, dbVars

LEMMA ScanDiedKeeps ==
  ASSUME IInv, ScanDied
  PROVE  IInv'
<1> DEFINE e == snap[ei]
<1>1. e.id \in IdOrNo /\ e.cur \in Status /\ 1 <= ei /\ ei <= en
  BY AtEntry DEF ScanDied
<1>2. Find(e.id) \in 0..NSlots /\ (Find(e.id) # 0 => Find(e.id) \in Slots)
  BY FindType DEF IInv, TableOK
<1>3. ReportOK'
  BY <1>1, ReportKeeps, NothingReported DEF ScanDied
<1>4. ExecOK' /\ CopyOK'
  <2>1. CASE Find(e.id) = 0
    <3>1. NextSlot /\ UNCHANGED <<epc, eslot, eid, eret>> /\ epc = "scan"
      BY <2>1 DEF ScanDied, Scanning
    <3> QED BY <1>1, <3>1, LoopMoves DEF IInv, ExecOK
  <2>2. CASE Find(e.id) # 0
    <3>1. /\ epc' = "remove" /\ eslot' = Find(e.id) /\ eid' = e.id
          /\ UNCHANGED <<ei, en, snap, eret>>
      BY <2>2 DEF ScanDied
    <3> HIDE DEF e
    <3> QED BY <1>1, <1>2, <2>2, <3>1 DEF IInv, ExecOK, ExecInRange, CopyOK
  <2> QED BY <2>1, <2>2
<1> QED BY <1>3, <1>4, LooksOnly DEF ScanDied

LEMMA RemoveClearKeeps ==
  ASSUME IInv, RemoveClear
  PROVE  IInv'
<1>1. EntryOK'
  BY DEF IInv, EntryOK, RemoveClear, SettledIsQuiet, AdoptionIsDue, IdOrNo
<1>2. ExecOK' /\ CopyOK'
  BY DEF IInv, ExecOK, ExecInRange, CopyOK, RemoveClear
<1> QED BY <1>1, <1>2, TableUnchanged, ObjectsUnchanged, CreatingUnchanged, NothingReported
        DEF IInv, RemoveClear

LEMMA RemoveShrinkKeeps ==
  ASSUME IInv, RemoveShrink
  PROVE  IInv'
<1>1. TableOK'
  BY MaxAfterRemoveType DEF IInv, TableOK, RemoveShrink
<1>2. ExecOK' /\ CopyOK'
  <2>1. 1 <= ei /\ ei <= en
    <3>1. epc = "shrink"
      BY DEF RemoveShrink
    <3> QED BY <3>1 DEF IInv, ExecOK, ExecInRange
  <2>2. NextSlot /\ epc' = "scan" /\ eslot' \in 0..NSlots /\ eid' \in IdOrNo /\ eret' = eret
    BY Numbers DEF RemoveShrink, IdOrNo
  <2> QED BY <2>1, <2>2, LoopMoves
<1> QED BY <1>1, <1>2, EntriesUnchanged, ObjectsUnchanged, CreatingUnchanged,
           NothingReported DEF IInv, RemoveShrink

LEMMA ScanAckKeeps ==
  ASSUME IInv, ScanAck
  PROVE  IInv'
<1> DEFINE e == snap[ei]
<1>1. e.id \in IdOrNo /\ e.cur \in Status /\ 1 <= ei /\ ei <= en
  BY AtEntry DEF ScanAck
<1>2. Find(e.id) # 0 => Find(e.id) \in Slots
  BY FindType DEF IInv, TableOK
<1>3. CASE Find(e.id) # 0 /\ Complete(Find(e.id))
  <2>1. /\ StatusAck(Find(e.id)) /\ Report(e.id, "ok", e.cur) /\ NextSlot
        /\ UNCHANGED <<epc, eid, eslot, eret>> /\ epc = "scan"
    BY <1>3 DEF ScanAck, Scanning
  <2> HIDE DEF e
  <2>2. EntryOK' /\ ReportOK'
    BY <1>1, <1>2, <1>3, <2>1, StatusAckKeeps, ReportKeeps DEF IInv
  <2>3. ExecOK' /\ CopyOK'
    BY <1>1, <2>1, LoopMoves DEF IInv, ExecOK
  <2> QED BY <2>2, <2>3, TableUnchanged, ObjectsUnchanged, CreatingUnchanged
          DEF IInv, ScanAck
<1>4. CASE ~(Find(e.id) # 0 /\ Complete(Find(e.id)))
  <2>1. /\ LeaveLoop /\ NoReportSent /\ UNCHANGED <<eid, eslot, eret>>
        /\ UNCHANGED <<dbVars, objVars, creating, shared>>
    BY <1>4 DEF ScanAck, dbVars
  <2> QED BY <2>1, LoopMoves, LooksOnly, NothingReported
<1> QED BY <1>3, <1>4

LEMMA ScanLateKeeps ==
  ASSUME IInv, ScanLate
  PROVE  IInv'
<1> DEFINE e == snap[ei]
<1>1. e.id \in IdOrNo /\ 1 <= ei /\ ei <= en
  BY AtEntry DEF ScanLate
<1>2. ObjectOK' /\ ExecOK'
  <2>1. ProcKill(e.id, "timeout")
    BY DEF ScanLate
  <2> HIDE DEF e
  <2> QED BY <1>1, <2>1, ProcKillKeeps DEF ScanLate
<1>3. CopyOK'
  BY DEF IInv, CopyOK, ScanLate
<1> QED BY <1>2, <1>3, EntriesUnchanged, TableUnchanged, CreatingUnchanged, NothingReported
        DEF IInv, ScanLate, dbVars

LEMMA LateReportKeeps ==
  ASSUME IInv, LateReport
  PROVE  IInv'
<1>1. eid \in IdOrNo /\ 1 <= ei /\ ei <= en
  <2>1. epc = "timeout"
    BY DEF LateReport
  <2> QED BY <2>1 DEF IInv, ExecOK, ExecInRange
<1>2. ReportOK'
  BY <1>1, ReportKeeps DEF LateReport, Status, PHAL_STATUS_ABNSTOP
<1>3. NextSlot /\ epc' = "scan" /\ eslot' \in 0..NSlots /\ eid' \in IdOrNo /\ eret' = eret
  BY DEF IInv, ExecOK, LateReport, IdOrNo
<1> QED BY <1>1, <1>2, <1>3, LoopMoves, LooksOnly DEF LateReport

LEMMA BackgroundKeeps ==
  ASSUME IInv, Background
  PROVE  IInv'
<1>1. CASE Refuse BY <1>1, RefuseKeeps
<1>2. CASE KillWait BY <1>2, KillWaitKeeps
<1>3. CASE CopyFirst \/ CopyRest BY <1>3, CopyStepsKeep
<1>4. CASE ScanEnd
  BY <1>4, LoopMoves, LooksOnly, NothingReported DEF ScanEnd
<1>5. CASE ScanSkip
  <2>1. /\ NextSlot /\ epc' = "scan" /\ UNCHANGED <<eslot, eid, eret>>
        /\ 1 <= ei /\ ei <= en
    BY <1>5, AtEntry DEF ScanSkip, Scanning
  <2> QED BY <1>5, <2>1, LoopMoves, LooksOnly, NothingReported DEF ScanSkip, IInv, ExecOK
<1>6. CASE ScanDied BY <1>6, ScanDiedKeeps
<1>7. CASE RemoveClear BY <1>7, RemoveClearKeeps
<1>8. CASE RemoveShrink BY <1>8, RemoveShrinkKeeps
<1>9. CASE ScanAck BY <1>9, ScanAckKeeps
<1>10. CASE ScanLate BY <1>10, ScanLateKeeps
<1>11. CASE LateReport BY <1>11, LateReportKeeps
<1> QED BY <1>1, <1>2, <1>3, <1>4, <1>5, <1>6, <1>7, <1>8, <1>9, <1>10, <1>11
        DEF Background

-----------------------------------------------------------------------------
(* The theorems.                                                           *)

LEMMA InitIInv == Init => IInv
<1> SUFFICES ASSUME Init PROVE IInv
  OBVIOUS
<1>1. EntryOK /\ TableOK
  BY Numbers DEF Init, EntryOK, TableOK, IdOrNo, Status, SettledIsQuiet, AdoptionIsDue
<1>2. ObjectOK /\ CreatingOK
  BY Numbers DEF Init, ObjectOK, ObjectInRange, CreatingOK, CreatingInRange, Idle, IdOrNo,
                 Labels
<1>3. ExecOK /\ CopyOK /\ ReportOK
  <2>1. ExecOK
    BY Numbers DEF Init, ExecOK, ExecInRange, IdOrNo
  <2>2. CopyOK /\ ReportOK
    BY DEF Init, CopyOK, CopyEntry, Blank, ReportOK, NoReport, IdOrNo, Status
  <2> QED BY <2>1, <2>2
<1> QED BY <1>1, <1>2, <1>3 DEF IInv

LEMMA NextIInv == IInv /\ [Next]_vars => IInv'
<1> SUFFICES ASSUME IInv, [Next]_vars PROVE IInv'
  OBVIOUS
<1>1. CASE Load BY <1>1, CreateFillKeeps, ChildPidKeeps, CreateDoneKeeps DEF Load
<1>2. CASE Reap BY <1>2, SigChldKeeps DEF Reap
<1>3. CASE Tick BY <1>3, TickKeeps
<1>4. CASE \E o \in Ids : Object(o) BY <1>4, ObjectKeeps
<1>5. CASE Command BY <1>5, SetStatusKeeps DEF Command
<1>6. CASE Background BY <1>6, BackgroundKeeps
<1>7. CASE UNCHANGED vars
  <2>1. ReportOK' /\ ExecOK' /\ CopyOK'
    BY <1>7, ExecUnchanged DEF IInv, ReportOK, vars
  <2> QED BY <1>7, <2>1, LooksOnly DEF vars
<1> QED BY <1>1, <1>2, <1>3, <1>4, <1>5, <1>6, <1>7 DEF Next

THEOREM SpecIInv == Spec => []IInv
BY InitIInv, NextIInv, PTL DEF Spec

\* The types hold in every reachable state: the copy, the search and the
\* shrinking of the table stay within its bounds.
THEOREM TypeCorrect == Spec => []TypeOK
<1>1. IInv => TypeOK
  BY DEF IInv, TypeOK, EntryOK, TableOK, ObjectOK, CreatingOK, ExecOK, CopyOK, CopyEntry,
         ReportOK
<1> QED BY <1>1, SpecIInv, PTL

\* A closed change is a change that was made, whoever closed it.
THEOREM ClosedChangesAreMade == Spec => []SettledIsQuiet
<1>1. IInv => SettledIsQuiet
  BY DEF IInv, EntryOK
<1> QED BY <1>1, SpecIInv, PTL

\* A status being taken up is not ahead of its time slot.
THEOREM AdoptionsAreDue == Spec => []AdoptionIsDue
<1>1. IInv => AdoptionIsDue
  BY DEF IInv, EntryOK
<1> QED BY <1>1, SpecIInv, PTL

\* The status of an entry that is not being created or cleared changes by
\* status_get alone.
LEMMA OnlyStatusGet ==
  ASSUME IInv, Next, UNCHANGED creating
  PROVE  UNCHANGED cur \/ \E s \in Slots : StatusGet(s)
<1>1. CASE Load
  <2>1. ASSUME NEW o \in Ids, NEW s \in Slots, CreateFill(o, s) PROVE FALSE
    <3>1. creating.slot = 0 /\ creating'.slot = s
      BY <2>1 DEF CreateFill, Idle
    <3> QED BY <3>1, Numbers DEF Slots
  <2>2. CASE \E o \in Ids : ChildPid(o)
    BY <2>2 DEF ChildPid, entryVars
  <2>3. CASE CreateDone
    BY <2>3 DEF CreateDone
  <2> QED BY <1>1, <2>1, <2>2, <2>3 DEF Load
<1>2. CASE Reap \/ Tick
  BY <1>2 DEF Reap, SigChld, Tick, entryVars
<1>3. ASSUME NEW o \in Ids, Object(o) PROVE UNCHANGED cur \/ \E s \in Slots : StatusGet(s)
  <2>1. CASE Boot(o) BY <2>1 DEF Boot
  <2>2. CASE \/ Started(o) \/ StatusLoop(o) \/ StepGet(o) \/ StepEnd(o)
             \/ Close(o) \/ CloseGet(o)
    <3>1. pc[o] \notin {"none", "dead"} /\ StatusGet(my[o])
      BY <2>2 DEF Started, StatusLoop, StepGet, StepEnd, Close, CloseGet
    <3> QED BY <3>1, MySlot
  <2>3. CASE StepAck(o) \/ StepNew(o) \/ CloseAbnstop(o) \/ CloseWait(o)
    BY <2>3 DEF StepAck, StepNew, CloseAbnstop, CloseWait, StatusAck, StatusNew, entryVars
  <2>4. CASE WorkDone(o) \/ WorkFails(o) \/ Exit(o) \/ Terminated(o) \/ Crash(o)
    BY <2>4 DEF WorkDone, WorkFails, Exit, Terminated, Crash, dbVars, entryVars
  <2> QED BY <1>3, <2>1, <2>2, <2>3, <2>4 DEF Object, Library
<1>4. CASE Command
  BY <1>4 DEF Command, SetStatus, StatusNew, entryVars
<1>5. CASE Background
  <2>1. CASE Refuse \/ KillWait \/ CopyFirst \/ CopyRest
    BY <2>1 DEF Refuse, KillWait, CopyFirst, CopyRest, dbVars, entryVars
  <2>2. CASE ScanEnd \/ ScanSkip \/ ScanDied \/ ScanLate \/ LateReport
    BY <2>2 DEF ScanEnd, ScanSkip, ScanDied, ScanLate, LateReport, dbVars, entryVars
  <2>3. CASE RemoveClear \/ RemoveShrink \/ ScanAck
    BY <2>3 DEF RemoveClear, RemoveShrink, ScanAck, StatusAck, entryVars
  <2> QED BY <1>5, <2>1, <2>2, <2>3 DEF Background
<1> QED BY <1>1, <1>2, <1>3, <1>4, <1>5 DEF Next

\* An object enters a status in or after the time slot asked for, and enters the
\* status asked for last: between the two calls of status_get that take a status
\* over, nobody can put another change, with a later time slot, in its place.
THEOREM StatusesAreEnteredInTime == Spec => NotBeforeTslot
<1>1. IInv /\ [Next]_vars => [EntersInTime]_vars
  <2> SUFFICES ASSUME IInv, Next, NEW s \in Slots, cur'[s] # cur[s], UNCHANGED creating
               PROVE  due[s] <= 0 /\ cur'[s] = next[s]
    BY DEF EntersInTime
  <2>1. PICK t \in Slots : StatusGet(t)
    BY OnlyStatusGet
  <2>2. s = t /\ progress[t] = 2 /\ next[t] # cur[t] /\ cur'[t] = next[t]
    BY <2>1 DEF IInv, EntryOK, StatusGet
  <2>3. due[t] <= 0
    BY <2>2 DEF IInv, EntryOK, AdoptionIsDue
  <2> QED BY <2>2, <2>3
<1> QED BY <1>1, SpecIInv, PTL DEF Spec, NotBeforeTslot

-----------------------------------------------------------------------------
(* No entry is hidden by a removal.                                        *)

\* Only a launch and hwapi_proc_remove change what is in the table.
TableStays == UNCHANGED <<oid, max_proc_id, creating>>

LEMMA OthersLeaveTable ==
  ASSUME Next, ~Load, ~RemoveClear, ~RemoveShrink
  PROVE  TableStays
<1>1. CASE Reap \/ Tick
  BY <1>1 DEF Reap, SigChld, Tick, entryVars, TableStays
<1>2. ASSUME NEW o \in Ids, Object(o) PROVE TableStays
  <2>1. CASE Boot(o) BY <2>1 DEF Boot, TableStays
  <2>2. CASE \/ Started(o) \/ StatusLoop(o) \/ StepGet(o) \/ StepEnd(o)
             \/ Close(o) \/ CloseGet(o)
    BY <2>2 DEF Started, StatusLoop, StepGet, StepEnd, Close, CloseGet, StatusGet, OwnStep,
                TableStays
  <2>3. CASE StepAck(o) \/ StepNew(o) \/ CloseAbnstop(o) \/ CloseWait(o)
    BY <2>3 DEF StepAck, StepNew, CloseAbnstop, CloseWait, StatusAck, StatusNew, entryVars,
                OwnStep, TableStays
  <2>4. CASE WorkDone(o) \/ WorkFails(o) \/ Exit(o) \/ Terminated(o) \/ Crash(o)
    BY <2>4 DEF WorkDone, WorkFails, Exit, Terminated, Crash, dbVars, entryVars, OwnStep,
                TableStays
  <2> QED BY <1>2, <2>1, <2>2, <2>3, <2>4 DEF Object, Library
<1>3. CASE Command
  BY <1>3 DEF Command, SetStatus, StatusNew, entryVars, TableStays
<1>4. CASE Background
  <2>1. CASE Refuse \/ KillWait \/ CopyFirst \/ CopyRest
    BY <2>1 DEF Refuse, KillWait, CopyFirst, CopyRest, dbVars, entryVars, TableStays
  <2>2. CASE ScanEnd \/ ScanSkip \/ ScanDied \/ ScanLate \/ LateReport
    BY <2>2 DEF ScanEnd, ScanSkip, ScanDied, ScanLate, LateReport, dbVars, entryVars, TableStays
  <2>3. CASE ScanAck
    BY <2>3 DEF ScanAck, StatusAck, entryVars, TableStays
  <2> QED BY <1>4, <2>1, <2>2, <2>3 DEF Background
<1> QED BY <1>1, <1>2, <1>3, <1>4 DEF Next

\* After the shrinking every entry in use that could be seen can still be seen.
LEMMA ShrinkHidesNone ==
  ASSUME NEW r, max_proc_id \in 0..NSlots,
         NEW s \in Slots, oid[s] # None, s <= max_proc_id
  PROVE  s <= MaxAfterRemove(r)
<1>1. NSlots \in Nat
  BY SizeAssumption
<1> DEFINE L == {t \in Slots : t <= max_proc_id + 1 /\ oid[t] # None}
<1>2. L \in SUBSET (0..NSlots) /\ s \in L
  BY <1>1 DEF Slots
<1>3. \E t \in L : \A u \in L : u <= t
  <2> HIDE DEF L
  <2> QED BY <1>1, <1>2, MaxExists
<1>4. CASE r = max_proc_id
  <2>1. MaxAfterRemove(r) = CHOOSE t \in L : \A u \in L : u <= t
    BY <1>2, <1>4 DEF MaxAfterRemove
  <2>2. \A u \in L : u <= MaxAfterRemove(r)
    <3> HIDE DEF L
    <3> QED BY <1>3, <2>1
  <2> QED BY <1>2, <2>2
<1>5. CASE r # max_proc_id
  BY <1>5 DEF MaxAfterRemove
<1> QED BY <1>4, <1>5

LEMMA LaunchPublishes ==
  ASSUME IInv, PublishedIsVisible, Load
  PROVE  PublishedIsVisible'
<1>1. ASSUME NEW o \in Ids, NEW s \in Slots, CreateFill(o, s) PROVE PublishedIsVisible'
  <2>1. creating.slot = 0 /\ creating'.slot = s /\ max_proc_id' = max_proc_id
    BY <1>1 DEF CreateFill, Idle
  <2>2. \A t \in Slots : t # s => oid'[t] = oid[t]
    BY <1>1 DEF CreateFill, IInv, EntryOK
  <2>3. 0 \notin Slots
    BY Numbers DEF Slots
  <2> QED BY <2>1, <2>2, <2>3 DEF PublishedIsVisible
<1>2. CASE \E o \in Ids : ChildPid(o)
  BY <1>2 DEF ChildPid, entryVars, PublishedIsVisible
<1>3. CASE CreateDone
  <2> DEFINE s == creating.slot
  <2>1. s \in Slots /\ max_proc_id \in 0..NSlots
    BY <1>3 DEF IInv, CreatingOK, CreatingInRange, TableOK, CreateDone
  <2>2. CASE pid[s] = creating.id
    <3>1. oid' = oid /\ max_proc_id' = Publish(s)
      BY <1>3, <2>2 DEF CreateDone, entryVars
    <3>2. s <= Publish(s) /\ max_proc_id <= Publish(s) /\ Publish(s) \in Int
      BY <2>1, Numbers DEF Publish, Slots
    <3>3. ASSUME NEW t \in Slots, oid[t] # None PROVE t <= Publish(s)
      <4>1. t = s \/ t <= max_proc_id
        BY <3>3 DEF PublishedIsVisible
      <4> QED BY <4>1, <2>1, <3>2, Numbers DEF Slots
    <3> QED BY <3>1, <3>3 DEF PublishedIsVisible
  <2>3. CASE pid[s] # creating.id
    <3>1. max_proc_id' = max_proc_id /\ oid' = [oid EXCEPT ![s] = None]
      BY <1>3, <2>3 DEF CreateDone
    <3>2. \A t \in Slots : oid'[t] # None => oid[t] # None /\ t # s
      BY <2>1, <3>1 DEF IInv, EntryOK
    <3> QED BY <3>1, <3>2 DEF PublishedIsVisible
  <2> QED BY <2>2, <2>3
<1> QED BY <1>1, <1>2, <1>3 DEF Load

LEMMA NextPublished == IInv /\ PublishedIsVisible /\ [Next]_vars => PublishedIsVisible'
<1> SUFFICES ASSUME IInv, PublishedIsVisible, [Next]_vars PROVE PublishedIsVisible'
  OBVIOUS
<1>1. CASE Load BY <1>1, LaunchPublishes
<1>2. CASE RemoveClear
  BY <1>2 DEF RemoveClear, PublishedIsVisible, IInv, EntryOK
<1>3. CASE RemoveShrink
  <2>1. max_proc_id' = MaxAfterRemove(eslot) /\ oid' = oid /\ creating' = creating
    BY <1>3 DEF RemoveShrink, entryVars
  <2>2. max_proc_id \in 0..NSlots
    BY DEF IInv, TableOK
  <2>3. ASSUME NEW s \in Slots, oid[s] # None, creating.slot # s
        PROVE  s <= MaxAfterRemove(eslot)
    <3>1. s <= max_proc_id
      BY <2>3 DEF PublishedIsVisible
    <3> QED BY <2>2, <2>3, <3>1, ShrinkHidesNone
  <2> QED BY <2>1, <2>3 DEF PublishedIsVisible
<1>4. CASE Next /\ ~Load /\ ~RemoveClear /\ ~RemoveShrink
  BY <1>4, OthersLeaveTable DEF TableStays, PublishedIsVisible
<1>5. CASE UNCHANGED vars
  BY <1>5 DEF vars, dbVars, entryVars, PublishedIsVisible
<1> QED BY <1>1, <1>2, <1>3, <1>4, <1>5

\* hwapi_proc_remove searches for the last entry in use in a table that launches
\* change at the same time: it never puts max_proc_id below an entry that was
\* published.
THEOREM NoEntryIsHidden == Spec => []PublishedIsVisible
<1>1. Init => PublishedIsVisible
  BY DEF Init, PublishedIsVisible
<1> QED BY <1>1, NextPublished, SpecIInv, PTL DEF Spec
-----------------------------------------------------------------------------
(* Who ends has been confirmed.                                            *)

(***************************************************************************)
(* ClosePHAL waits until a change is accepted, and EXEC must have closed   *)
(* the stop by then.  That is so because of what the entry says from the   *)
(* moment the object aborts itself (Closing), which only lasts if nobody   *)
(* else takes up statuses in that entry (Alone) and if the abort finds the *)
(* entry by the object's id (Early: before it can be found, nothing makes  *)
(* the object close).                                                      *)
(***************************************************************************)
Live(o) == pc[o] \notin {"none", "dead"}

\* The table says of a process only the entry it was launched for.
OwnEntry == \A o \in Ids, s \in Slots :
  /\ pc[o] = "none" => oid[s] # o /\ pid[s] # o
  /\ Live(o) /\ (oid[s] = o \/ pid[s] = o) => my[o] = s

\* No two processes have one entry, unless it was taken from one of them.
Alone == \A s \in Slots : s \notin shared =>
  \A o, p \in Ids : Live(o) /\ Live(p) /\ my[o] = s /\ my[p] = s => o = p

\* What the entry of an object says while the object cannot be found by its id
\* yet: nothing but STARTED was asked of it.
Early(o, s) ==
  pc[o] \in {"forked", "boot", "started", "status"} /\ next[s] = 1 /\ cur[s] \in {0, 1}

\* What it says once the object aborts itself, and while it waits for EXEC: it
\* has stopped, or a change is open that cannot be closed any more.
Closing(o, s) ==
  /\ pc[o] = "abnget1" => next[s] = PHAL_STATUS_ABNSTOP /\ progress[s] = 1
  /\ pc[o] = "abnget2" => /\ next[s] = PHAL_STATUS_ABNSTOP
                          /\ progress[s] = 1 \/ (progress[s] = 2 /\ cur[s] # next[s])
  /\ pc[o] = "wait" => cur[s] \in Stopped \/ (progress[s] # 0 /\ cur[s] # next[s])

Mine(o, s) == Live(o) /\ oid[s] = o /\ s \notin shared /\ ~isterming[o]

EarlyOK   == \A o \in Ids, s \in Slots : Mine(o, s) /\ max_proc_id < s => Early(o, s)
ClosingOK == \A o \in Ids, s \in Slots : Mine(o, s) => Closing(o, s)

CInv == IInv /\ OwnEntry /\ Alone /\ EarlyOK /\ ClosingOK

Same(s) == cur'[s] = cur[s] /\ next'[s] = next[s] /\ progress'[s] = progress[s]

\* A step that launches no process and takes no entry.
Calm ==
  /\ \A p \in Ids : Live(p)' => Live(p) /\ my'[p] = my[p]
  /\ \A p \in Ids : pc'[p] = "none" => pc[p] = "none"
  /\ \A s \in Slots : oid'[s] \in {oid[s], None} /\ pid'[s] \in {pid[s], None}
  /\ shared' = shared

LEMMA CalmKeeps ==
  ASSUME OwnEntry, Alone, Calm
  PROVE  OwnEntry' /\ Alone'
<1>1. OwnEntry'
  <2> SUFFICES ASSUME NEW o \in Ids, NEW s \in Slots
               PROVE  /\ pc'[o] = "none" => oid'[s] # o /\ pid'[s] # o
                      /\ Live(o)' /\ (oid'[s] = o \/ pid'[s] = o) => my'[o] = s
    BY DEF OwnEntry
  <2>1. o # None
    BY NoneAssumption
  <2> QED BY <2>1 DEF Calm, OwnEntry
<1>2. Alone'
  BY DEF Calm, Alone
<1> QED BY <1>1, <1>2

LEMMA GotoCalm ==
  ASSUME ObjectOK, NEW o \in Ids, Live(o), NEW l, l # "none", Goto(o, l),
         UNCHANGED <<my, pid, oid, shared>>
  PROVE  Calm
BY DEF ObjectOK, Live, Goto, Calm

LEMMA DieCalm ==
  ASSUME ObjectOK, NEW o \in Ids, Die(o), UNCHANGED <<pid, oid, shared>>
  PROVE  Calm
BY DEF ObjectOK, Live, Die, Calm

LEMMA StillCalm ==
  ASSUME UNCHANGED <<pc, my, shared>>,
         \A s \in Slots : oid'[s] \in {oid[s], None} /\ pid'[s] \in {pid[s], None}
  PROVE  Calm
BY DEF Live, Calm

LEMMA ObjectCalm ==
  ASSUME IInv, OwnEntry, NEW o \in Ids, Object(o)
  PROVE  Calm
<1>1. ObjectOK
  BY DEF IInv
<1>2. CASE Boot(o)
  <2>1. UNCHANGED <<pid, oid, shared>> /\ Live(o)
    BY <1>2 DEF Boot, Live
  <2>2. CASE Die(o)
    BY <1>1, <2>1, <2>2, DieCalm
  <2>3. CASE ~Die(o)
    <3>1. PICK s \in Slots : pid[s] = o /\ my' = [my EXCEPT ![o] = s] /\ Goto(o, "started")
      BY <1>2, <2>3 DEF Boot
    <3>2. my[o] = s
      BY <2>1, <3>1 DEF OwnEntry
    <3>3. my' = my
      BY <1>1, <3>1, <3>2 DEF ObjectOK
    <3> QED BY <1>1, <2>1, <3>1, <3>3, GotoCalm
  <2> QED BY <2>2, <2>3
<1>3. CASE Started(o) \/ StepGet(o) \/ StepEnd(o) \/ Close(o) \/ CloseGet(o)
  <2>1. UNCHANGED <<pid, oid, my, shared>> /\ Live(o)
    BY <1>3 DEF Started, StepGet, StepEnd, Close, CloseGet, StatusGet, OwnStep, Live
  <2>2. \E l : l # "none" /\ Goto(o, l)
    BY <1>3 DEF Started, StepGet, StepEnd, Close, CloseGet
  <2> QED BY <1>1, <2>1, <2>2, GotoCalm
<1>4. CASE StatusLoop(o)
  <2>1. UNCHANGED <<pid, oid, my, shared>> /\ Live(o)
    BY <1>4 DEF StatusLoop, StatusGet, OwnStep, Live
  <2>2. UNCHANGED pc \/ \E l : l # "none" /\ Goto(o, l)
    BY <1>4 DEF StatusLoop
  <2> QED BY <1>1, <2>1, <2>2, GotoCalm, StillCalm
<1>5. CASE StepAck(o) \/ StepNew(o) \/ CloseAbnstop(o) \/ CloseWait(o)
  <2>1. UNCHANGED <<pid, oid, my, shared>> /\ Live(o)
    BY <1>5 DEF StepAck, StepNew, CloseAbnstop, CloseWait, StatusNew, StatusAck, entryVars,
                OwnStep, Live
  <2>2. \E l : l # "none" /\ Goto(o, l)
    BY <1>5 DEF StepAck, StepNew, CloseAbnstop, CloseWait
  <2> QED BY <1>1, <2>1, <2>2, GotoCalm
<1>6. CASE WorkDone(o) \/ WorkFails(o)
  <2>1. UNCHANGED <<pid, oid, my, shared>> /\ Live(o)
    BY <1>6 DEF WorkDone, WorkFails, dbVars, entryVars, OwnStep, Live
  <2>2. \E l : l # "none" /\ Goto(o, l)
    BY <1>6 DEF WorkDone, WorkFails
  <2> QED BY <1>1, <2>1, <2>2, GotoCalm
<1>7. CASE Exit(o) \/ Terminated(o) \/ Crash(o)
  <2>1. UNCHANGED <<pid, oid, shared>> /\ Live(o)
    BY <1>7 DEF Exit, Terminated, Crash, dbVars, entryVars, Alive, Live
  <2>2. Die(o) \/ (Goto(o, "close") /\ UNCHANGED my)
    BY <1>7 DEF Exit, Terminated, Crash
  <2> QED BY <1>1, <2>1, <2>2, DieCalm, GotoCalm
<1> QED BY <1>2, <1>3, <1>4, <1>5, <1>6, <1>7 DEF Object, Library

LEMMA NextCalm ==
  ASSUME IInv, OwnEntry, Next,
         ~(\E o \in Ids, s \in Slots : CreateFill(o, s)), ~(\E o \in Ids : ChildPid(o))
  PROVE  Calm
<1>1. CASE CreateDone
  BY <1>1, StillCalm DEF CreateDone, objVars, entryVars, IInv, EntryOK, TableOK
<1>2. CASE Reap
  BY <1>2, StillCalm DEF Reap, SigChld, objVars, entryVars, IInv, TableOK
<1>3. CASE Tick
  BY <1>3, StillCalm DEF Tick, objVars
<1>4. CASE \E o \in Ids : Object(o)
  BY <1>4, ObjectCalm
<1>5. CASE Command
  BY <1>5, StillCalm DEF Command, SetStatus, StatusNew, entryVars, objVars
<1>6. CASE Background
  <2>1. CASE KillWait
    <3>1. UNCHANGED <<pid, oid, shared>>
      BY <2>1 DEF KillWait, dbVars, entryVars
    <3>2. CASE pid[eslot] # None
      <4>1. pid[eslot] \in Ids /\ Die(pid[eslot])
        BY <2>1, <3>2 DEF KillWait, IInv, TableOK, ExecOK, ExecInRange, IdOrNo
      <4> QED BY <3>1, <4>1, DieCalm DEF IInv
    <3>3. CASE pid[eslot] = None
      BY <2>1, <3>1, <3>3, StillCalm DEF KillWait, objVars
    <3> QED BY <3>2, <3>3
  <2>2. CASE Refuse \/ CopyFirst \/ CopyRest \/ ScanEnd
    BY <2>2, StillCalm DEF Refuse, CopyFirst, CopyRest, ScanEnd, dbVars, entryVars, objVars
  <2>3. CASE ScanSkip \/ ScanDied \/ ScanLate \/ LateReport
    BY <2>3, StillCalm DEF ScanSkip, ScanDied, ScanLate, LateReport, dbVars, entryVars, objVars
  <2>4. CASE RemoveClear
    BY <2>4, StillCalm DEF RemoveClear, objVars, IInv, EntryOK
  <2>5. CASE RemoveShrink \/ ScanAck
    BY <2>5, StillCalm DEF RemoveShrink, ScanAck, StatusAck, entryVars, objVars
  <2> QED BY <1>6, <2>1, <2>2, <2>3, <2>4, <2>5 DEF Background
<1> QED BY <1>1, <1>2, <1>3, <1>4, <1>5, <1>6 DEF Next, Load

\* A launch takes an entry that no process has, or the entry counts as shared.
LEMMA NextAlone ==
  ASSUME IInv, OwnEntry, Alone, Next
  PROVE  OwnEntry' /\ Alone'
<1>1. ASSUME NEW o \in Ids, NEW s \in Slots, CreateFill(o, s) PROVE OwnEntry' /\ Alone'
  <2>1. /\ pc[o] = "none" /\ pc'[o] = "forked" /\ my'[o] = s
        /\ \A q \in Ids : q # o => pc'[q] = pc[q] /\ my'[q] = my[q]
    BY <1>1 DEF CreateFill, IInv, ObjectOK
  <2>2. /\ oid'[s] = o /\ pid'[s] = None
        /\ \A t \in Slots : t # s => oid'[t] = oid[t] /\ pid'[t] = pid[t]
    BY <1>1 DEF CreateFill, IInv, EntryOK, TableOK
  <2>3. OwnEntry'
    <3> SUFFICES ASSUME NEW q \in Ids, NEW t \in Slots
                 PROVE  /\ pc'[q] = "none" => oid'[t] # q /\ pid'[t] # q
                        /\ Live(q)' /\ (oid'[t] = q \/ pid'[t] = q) => my'[q] = t
      BY DEF OwnEntry
    <3>1. q # None
      BY NoneAssumption
    <3>2. CASE q = o
      BY <2>1, <2>2, <3>1, <3>2 DEF OwnEntry
    <3>3. CASE q # o
      BY <2>1, <2>2, <3>1, <3>3 DEF OwnEntry, Live
    <3> QED BY <3>2, <3>3
  <2>4. Alone'
    <3> SUFFICES ASSUME NEW t \in Slots, t \notin shared', NEW p \in Ids, NEW q \in Ids,
                        Live(p)', Live(q)', my'[p] = t, my'[q] = t
                 PROVE  p = q
      BY DEF Alone
    <3>1. shared' = IF Had(s) THEN shared \cup {s} ELSE shared \ {s}
      BY <1>1 DEF CreateFill
    <3>2. CASE t = s
      <4>1. ~Had(s)
        BY <3>1, <3>2
      <4>2. ASSUME NEW r \in Ids, Live(r)', my'[r] = s PROVE r = o
        BY <2>1, <4>1, <4>2 DEF Had, Live
      <4> QED BY <3>2, <4>2
    <3>3. CASE t # s
      <4>1. t \notin shared /\ p # o /\ q # o
        BY <2>1, <3>1, <3>3
      <4> QED BY <2>1, <4>1 DEF Alone, Live
    <3> QED BY <3>2, <3>3
  <2> QED BY <2>3, <2>4
<1>2. ASSUME NEW o \in Ids, ChildPid(o) PROVE OwnEntry' /\ Alone'
  <2>1. /\ pc[o] = "forked" /\ pc'[o] = "boot" /\ UNCHANGED <<my, oid, shared>>
        /\ \A q \in Ids : q # o => pc'[q] = pc[q]
    BY <1>2 DEF ChildPid, entryVars, IInv, ObjectOK
  <2>2. \A t \in Slots : pid'[t] = IF t = my[o] THEN o ELSE pid[t]
    BY <1>2 DEF ChildPid, IInv, TableOK
  <2>3. OwnEntry'
    BY <2>1, <2>2 DEF OwnEntry, Live
  <2>4. Alone'
    BY <2>1 DEF Alone, Live
  <2> QED BY <2>3, <2>4
<1>3. CASE ~(\E o \in Ids, s \in Slots : CreateFill(o, s)) /\ ~(\E o \in Ids : ChildPid(o))
  BY <1>3, NextCalm, CalmKeeps
<1> QED BY <1>1, <1>2, <1>3

\* What an object finds in its entry after a step of somebody else: the same, or
\* a change that has been asked for or closed, if it can be found by its id.
Asked(s)  == /\ progress[s] = 0 /\ next[s] = cur[s]
             /\ progress'[s] = 1 /\ cur'[s] = cur[s]
Acked(s)  == Complete(s) /\ cur'[s] = cur[s] /\ next'[s] = next[s]
Framed(o, s) ==
  /\ Mine(o, s)
  /\ pc'[o] = pc[o] \/ pc'[o] = "boot"
  /\ max_proc_id' < s => max_proc_id < s
  /\ Same(s) \/ (s <= max_proc_id /\ (Asked(s) \/ Acked(s)))

\* The search by id finds the object's own entry, and no entry of another.
LEMMA FindMine ==
  ASSUME IInv, OwnEntry, NEW o \in Ids, NEW s \in Slots, Live(o), oid[s] = o
  PROVE  /\ \A p \in Ids : Find(p) = s => p = o /\ s <= max_proc_id
         /\ s <= max_proc_id => Find(o) = s
         /\ Find(o) # 0 => Find(o) = s
<1>1. max_proc_id \in 0..NSlots
  BY DEF IInv, TableOK
<1>2. ASSUME Find(o) # 0 PROVE Find(o) = s
  <2>1. Find(o) \in Slots /\ oid[Find(o)] = o
    BY <1>1, <1>2, FindType
  <2> QED BY <2>1 DEF OwnEntry
<1>3. ASSUME NEW p \in Ids, Find(p) = s PROVE p = o /\ s <= max_proc_id
  <2>1. s # 0
    BY Numbers DEF Slots
  <2> QED BY <1>1, <1>3, <2>1, FindType
<1>4. ASSUME s <= max_proc_id PROVE Find(o) = s
  <2>1. Find(o) # 0
    <3>1. Find(o) = CHOOSE x \in Slots : /\ x <= max_proc_id /\ oid[x] = o
                                         /\ \A t \in 1..(x - 1) : oid[t] # o
      BY <1>4 DEF Find
    <3>2. \A t \in 1..(s - 1) : oid[t] # o
      <4> SUFFICES ASSUME NEW t \in 1..(s - 1), oid[t] = o PROVE FALSE
        OBVIOUS
      <4>1. t \in Slots /\ t # s
        BY Numbers DEF Slots
      <4> QED BY <4>1 DEF OwnEntry
    <3>3. \E x \in Slots : /\ x <= max_proc_id /\ oid[x] = o
                           /\ \A t \in 1..(x - 1) : oid[t] # o
      BY <1>4, <3>2
    <3>4. Find(o) \in Slots
      BY <3>1, <3>3
    <3> QED BY <3>4, Numbers DEF Slots
  <2> QED BY <1>2, <2>1
<1> QED BY <1>2, <1>3, <1>4

LEMMA LaunchFrames ==
  ASSUME IInv, NEW o \in Ids, NEW s \in Slots, Mine(o, s)', Load,
         ~(\E t \in Slots : CreateFill(o, t))
  PROVE  Framed(o, s)
<1>1. o # None
  BY NoneAssumption
<1>2. ASSUME NEW p \in Ids, NEW t \in Slots, CreateFill(p, t) PROVE Framed(o, s)
  <2>1. p # o /\ pc'[o] = pc[o] /\ isterming' = isterming /\ max_proc_id' = max_proc_id
    BY <1>2 DEF CreateFill, IInv, ObjectOK
  <2>2. t # s
    BY <1>2, <2>1 DEF CreateFill, IInv, EntryOK, Mine
  <2>3. oid'[s] = oid[s] /\ Same(s) /\ (s \notin shared' => s \notin shared)
    BY <1>2, <2>2 DEF CreateFill, IInv, EntryOK, Same
  <2> QED BY <2>1, <2>3 DEF Mine, Live, Framed
<1>3. ASSUME NEW p \in Ids, ChildPid(p) PROVE Framed(o, s)
  BY <1>3 DEF ChildPid, entryVars, IInv, ObjectOK, Mine, Live, Framed, Same
<1>4. CASE CreateDone
  <2> DEFINE t == creating.slot
  <2>1. UNCHANGED <<pc, isterming, shared>>
    BY <1>4 DEF CreateDone, objVars
  <2>2. CASE pid[t] = creating.id
    <3>1. UNCHANGED <<oid, cur, next, progress>> /\ max_proc_id' = Publish(t)
      BY <1>4, <2>2 DEF CreateDone, entryVars
    <3>2. t \in Slots /\ max_proc_id \in 0..NSlots
      BY <1>4 DEF IInv, CreatingOK, CreatingInRange, TableOK, CreateDone
    <3>3. max_proc_id' < s => max_proc_id < s
      BY <3>1, <3>2, Numbers DEF Publish, Slots
    <3> QED BY <2>1, <3>1, <3>3 DEF Mine, Live, Framed, Same
  <2>3. CASE pid[t] # creating.id
    <3>1. max_proc_id' = max_proc_id /\ oid' = [oid EXCEPT ![t] = None]
      BY <1>4, <2>3 DEF CreateDone
    <3>2. t # s
      BY <1>1, <3>1 DEF Mine, IInv, EntryOK
    <3>3. oid'[s] = oid[s] /\ Same(s)
      BY <1>4, <2>3, <3>2 DEF CreateDone, IInv, EntryOK, Same
    <3> QED BY <2>1, <3>1, <3>3 DEF Mine, Live, Framed
  <2> QED BY <2>2, <2>3
<1> QED BY <1>2, <1>3, <1>4 DEF Load

\* An object's step leaves the other processes as they are.
LEMMA OnlyMyself ==
  ASSUME IInv, NEW o \in Ids, NEW p \in Ids, p # o, Object(p)
  PROVE  /\ UNCHANGED <<oid, max_proc_id, shared>> /\ Live(p)
         /\ pc'[o] = pc[o] /\ isterming'[o] = isterming[o]
<1>1. ObjectOK
  BY DEF IInv
<1>2. CASE Boot(p)
  BY <1>1, <1>2 DEF Boot, Goto, Die, ObjectOK, Live
<1>3. CASE \/ Started(p) \/ StatusLoop(p) \/ StepGet(p) \/ StepEnd(p)
           \/ Close(p) \/ CloseGet(p)
  BY <1>1, <1>3 DEF Started, StatusLoop, StepGet, StepEnd, Close, CloseGet, StatusGet, Goto,
                    OwnStep, ObjectOK, Live
<1>4. CASE StepAck(p) \/ StepNew(p) \/ CloseAbnstop(p) \/ CloseWait(p)
  BY <1>1, <1>4 DEF StepAck, StepNew, CloseAbnstop, CloseWait, StatusAck, StatusNew, entryVars,
                    Goto, OwnStep, ObjectOK, Live
<1>5. CASE WorkDone(p) \/ WorkFails(p)
  BY <1>1, <1>5 DEF WorkDone, WorkFails, dbVars, entryVars, Goto, OwnStep, ObjectOK, Live
<1>6. CASE Exit(p) \/ Terminated(p) \/ Crash(p)
  BY <1>1, <1>6 DEF Exit, Terminated, Crash, dbVars, entryVars, Goto, Die, Alive, ObjectOK, Live
<1> QED BY <1>2, <1>3, <1>4, <1>5, <1>6 DEF Object, Library

\* An object works on its own entry, or on the one it finds by its id.
LEMMA ElsewhereSame ==
  ASSUME IInv, NEW s \in Slots, NEW p \in Ids, Object(p), Live(p), my[p] # s, Find(p) # s
  PROVE  Same(s)
<1>1. my[p] \in Slots /\ Find(p) \in 0..NSlots
  BY MySlot, FindType DEF Live, IInv, TableOK
<1>2. ASSUME NEW t \in 0..NSlots, t # s, t # 0,
             StatusGet(t) \/ StatusAck(t) \/ \E st, d : StatusNew(t, st, d)
      PROVE  Same(s)
  BY <1>2 DEF StatusGet, StatusAck, StatusNew, IInv, EntryOK, Same
<1>3. CASE Boot(p) BY <1>3 DEF Boot, Same
<1>4. CASE \/ Started(p) \/ StatusLoop(p) \/ StepGet(p) \/ StepEnd(p)
           \/ Close(p) \/ CloseGet(p)
  <2>1. StatusGet(my[p])
    BY <1>4 DEF Started, StatusLoop, StepGet, StepEnd, Close, CloseGet
  <2> QED BY <1>1, <1>2, <2>1, Numbers DEF Slots
<1>5. CASE StepAck(p) \/ StepNew(p) \/ CloseAbnstop(p) \/ CloseWait(p)
  <2>1. \/ UNCHANGED entryVars
        \/ /\ Find(p) # 0
           /\ StatusAck(Find(p)) \/ \E st, d : StatusNew(Find(p), st, d)
    BY <1>5 DEF StepAck, StepNew, CloseAbnstop, CloseWait
  <2> QED BY <1>1, <1>2, <2>1 DEF entryVars, Same
<1>6. CASE WorkDone(p) \/ WorkFails(p) \/ Exit(p) \/ Terminated(p) \/ Crash(p)
  BY <1>6 DEF WorkDone, WorkFails, Exit, Terminated, Crash, dbVars, entryVars, Same
<1> QED BY <1>3, <1>4, <1>5, <1>6 DEF Object, Library

LEMMA OtherObjectFrames ==
  ASSUME IInv, OwnEntry, Alone, NEW o \in Ids, NEW s \in Slots, Mine(o, s)',
         NEW p \in Ids, p # o, Object(p)
  PROVE  Framed(o, s)
<1>1. /\ UNCHANGED <<oid, max_proc_id, shared>> /\ Live(p)
      /\ pc'[o] = pc[o] /\ isterming'[o] = isterming[o]
  BY OnlyMyself
<1>2. Mine(o, s)
  BY <1>1 DEF Mine, Live
<1>3. my[p] # s
  <2>1. my[o] = s
    BY <1>2 DEF Mine, OwnEntry
  <2> QED BY <1>1, <1>2, <2>1 DEF Mine, Alone, Live
<1>4. Find(p) # s
  BY <1>2, FindMine DEF Mine
<1>5. Same(s)
  BY <1>1, <1>3, <1>4, ElsewhereSame
<1> QED BY <1>1, <1>2, <1>5 DEF Framed

LEMMA CommandFrames ==
  ASSUME IInv, OwnEntry, NEW o \in Ids, NEW s \in Slots, Mine(o, s)', Command
  PROVE  Framed(o, s)
<1>1. PICK p \in Ids, st \in CmdStatuses, d \in 0..MaxAhead : SetStatus(p, st, d)
  BY DEF Command
<1>2. UNCHANGED <<pc, isterming, shared, max_proc_id, oid>>
  BY <1>1 DEF SetStatus, StatusNew, entryVars, objVars
<1>3. Mine(o, s)
  BY <1>2 DEF Mine, Live
<1>4. CASE UNCHANGED entryVars
  BY <1>2, <1>3, <1>4 DEF entryVars, Framed, Same
<1>5. CASE ~UNCHANGED entryVars
  <2>1. Find(p) # 0 /\ CanChange(Find(p)) /\ \E v, t : StatusNew(Find(p), v, t)
    BY <1>1, <1>5 DEF SetStatus
  <2>2. Find(p) \in Slots
    BY <2>1, FindType DEF IInv, TableOK
  <2>3. CASE Find(p) = s
    <3>1. s <= max_proc_id
      BY <1>3, <2>3, FindMine DEF Mine
    <3>2. Asked(s)
      BY <2>1, <2>3 DEF CanChange, StatusNew, IInv, EntryOK, Asked
    <3> QED BY <1>2, <1>3, <3>1, <3>2 DEF Framed
  <2>4. CASE Find(p) # s
    <3>1. Same(s)
      BY <2>1, <2>2, <2>4 DEF StatusNew, IInv, EntryOK, Same
    <3> QED BY <1>2, <1>3, <3>1 DEF Framed
  <2> QED BY <2>3, <2>4
<1> QED BY <1>4, <1>5

LEMMA BackgroundFrames ==
  ASSUME IInv, OwnEntry, NEW o \in Ids, NEW s \in Slots, Mine(o, s)', Background
  PROVE  Framed(o, s)
<1>1. CASE KillWait
  <2>1. UNCHANGED <<oid, cur, next, progress, max_proc_id, shared>>
    BY <1>1 DEF KillWait, dbVars, entryVars
  <2>2. pc'[o] = pc[o] /\ isterming'[o] = isterming[o]
    <3>1. CASE UNCHANGED objVars
      BY <3>1 DEF objVars
    <3>2. CASE Die(pid[eslot])
      BY <3>2 DEF Die, IInv, ObjectOK, Mine, Live
    <3> QED BY <1>1, <3>1, <3>2 DEF KillWait
  <2> QED BY <2>1, <2>2 DEF Mine, Live, Framed, Same
<1>2. CASE \/ Refuse \/ CopyFirst \/ CopyRest \/ ScanEnd
           \/ ScanSkip \/ ScanDied \/ ScanLate \/ LateReport
  <2>1. UNCHANGED <<dbVars, pc, isterming, shared>>
    BY <1>2 DEF Refuse, CopyFirst, CopyRest, ScanEnd, ScanSkip, ScanDied, ScanLate, LateReport,
                objVars
  <2> QED BY <2>1 DEF dbVars, entryVars, Mine, Live, Framed, Same
<1>3. CASE RemoveClear
  <2>1. oid'[s] \in {oid[s], None}
    BY <1>3 DEF RemoveClear, IInv, EntryOK
  <2> QED BY <1>3, <2>1, NoneAssumption DEF RemoveClear, objVars, Mine, Live, Framed, Same
<1>4. CASE RemoveShrink
  <2>1. max_proc_id' = MaxAfterRemove(eslot) /\ UNCHANGED <<entryVars, objVars, shared>>
    BY <1>4 DEF RemoveShrink
  <2>2. max_proc_id \in 0..NSlots /\ MaxAfterRemove(eslot) \in 0..NSlots
    BY MaxAfterRemoveType DEF IInv, TableOK
  <2>3. Mine(o, s)
    BY <2>1 DEF entryVars, objVars, Mine, Live
  <2>4. s <= max_proc_id => s <= MaxAfterRemove(eslot)
    BY <2>2, <2>3, ShrinkHidesNone, NoneAssumption DEF Mine
  <2>5. max_proc_id' < s => max_proc_id < s
    BY <2>1, <2>2, <2>4, Numbers DEF Slots
  <2> QED BY <2>1, <2>3, <2>5 DEF entryVars, objVars, Framed, Same
<1>5. CASE ScanAck
  <2> DEFINE t == Find(snap[ei].id)
  <2>1. /\ UNCHANGED <<objVars, shared, max_proc_id, oid>>
        /\ UNCHANGED entryVars \/ (t # 0 /\ Complete(t) /\ StatusAck(t))
    BY <1>5 DEF ScanAck, StatusAck, entryVars
  <2>2. Mine(o, s)
    BY <2>1 DEF objVars, Mine, Live
  <2>3. CASE UNCHANGED entryVars
    BY <2>1, <2>2, <2>3 DEF entryVars, objVars, Framed, Same
  <2>4. CASE t # 0 /\ Complete(t) /\ StatusAck(t)
    <3>1. t \in Slots /\ t <= max_proc_id
      BY <2>4, FindType DEF IInv, TableOK
    <3>2. CASE t = s
      BY <2>1, <2>2, <2>4, <3>1, <3>2 DEF StatusAck, objVars, Framed, Acked
    <3>3. CASE t # s
      <4>1. Same(s)
        BY <2>4, <3>1, <3>3 DEF StatusAck, IInv, EntryOK, Same
      <4> QED BY <2>1, <2>2, <4>1 DEF objVars, Framed
    <3> QED BY <3>2, <3>3
  <2> QED BY <2>1, <2>3, <2>4
<1> QED BY <1>1, <1>2, <1>3, <1>4, <1>5 DEF Background

LEMMA OthersFrame ==
  ASSUME IInv, OwnEntry, Alone, Next, NEW o \in Ids, NEW s \in Slots, Mine(o, s)',
         ~Object(o), ~(\E t \in Slots : CreateFill(o, t))
  PROVE  Framed(o, s)
<1>1. CASE Load BY <1>1, LaunchFrames
<1>2. CASE Reap \/ Tick
  <2>1. UNCHANGED <<oid, cur, next, progress, max_proc_id, pc, isterming, shared>>
    BY <1>2 DEF Reap, SigChld, Tick, entryVars, objVars
  <2> QED BY <2>1 DEF Mine, Live, Framed, Same
<1>3. CASE \E p \in Ids : Object(p) BY <1>3, OtherObjectFrames
<1>4. CASE Command BY <1>4, CommandFrames
<1>5. CASE Background BY <1>5, BackgroundFrames
<1> QED BY <1>1, <1>2, <1>3, <1>4, <1>5 DEF Next
\* An object's own step neither moves it to another entry nor republishes it.
LEMMA OwnStays ==
  ASSUME IInv, OwnEntry, NEW o \in Ids, NEW s \in Slots, Object(o), Mine(o, s)'
  PROVE  /\ Mine(o, s) /\ my[o] = s /\ UNCHANGED <<oid, max_proc_id, shared>>
         /\ ~Die(o) /\ ~Terminated(o) /\ ~Crash(o)
<1>1. ~Die(o)
  BY DEF Die, IInv, ObjectOK, Mine, Live
<1>2. ~Terminated(o) /\ ~Crash(o)
  BY <1>1 DEF Terminated, Crash, IInv, ObjectOK, Mine
<1>3. UNCHANGED <<oid, max_proc_id, shared, isterming>> /\ Live(o)
  <2>1. CASE Boot(o)
    BY <1>1, <2>1 DEF Boot, Live
  <2>2. CASE \/ Started(o) \/ StatusLoop(o) \/ StepGet(o) \/ StepEnd(o)
             \/ Close(o) \/ CloseGet(o)
    BY <2>2 DEF Started, StatusLoop, StepGet, StepEnd, Close, CloseGet, StatusGet, OwnStep, Live
  <2>3. CASE StepAck(o) \/ StepNew(o) \/ CloseAbnstop(o) \/ CloseWait(o)
    BY <2>3 DEF StepAck, StepNew, CloseAbnstop, CloseWait, StatusAck, StatusNew, entryVars,
                OwnStep, Live
  <2>4. CASE WorkDone(o) \/ WorkFails(o)
    BY <2>4 DEF WorkDone, WorkFails, dbVars, entryVars, OwnStep, Live
  <2>5. CASE Exit(o)
    BY <1>1, <2>5 DEF Exit
  <2> QED BY <1>2, <2>1, <2>2, <2>3, <2>4, <2>5 DEF Object, Library
<1>4. Mine(o, s)
  BY <1>3 DEF Mine
<1> QED BY <1>1, <1>2, <1>3, <1>4 DEF Mine, OwnEntry

LEMMA OwnEarly ==
  ASSUME IInv, OwnEntry, EarlyOK, NEW o \in Ids, NEW s \in Slots, Object(o), Mine(o, s)',
         max_proc_id' < s
  PROVE  Early(o, s)'
<1>1. Mine(o, s) /\ my[o] = s /\ max_proc_id' = max_proc_id
      /\ ~Die(o) /\ ~Terminated(o) /\ ~Crash(o) /\ ~Crash(o)
  BY OwnStays
<1>2. pc[o] \in {"forked", "boot", "started", "status"} /\ next[s] = 1 /\ cur[s] \in {0, 1}
  BY <1>1 DEF EarlyOK, Early
<1>3. Boot(o) \/ Started(o) \/ StatusLoop(o)
  BY <1>1, <1>2 DEF Object, Library, StepGet, StepAck, StepNew, StepEnd, Close, CloseAbnstop,
                    CloseGet, CloseWait, Exit, WorkDone, WorkFails
<1>4. CASE Boot(o)
  BY <1>1, <1>2, <1>4 DEF Boot, Goto, IInv, ObjectOK, Early
<1>5. ASSUME StatusGet(s) PROVE next'[s] = 1 /\ cur'[s] \in {0, 1}
  BY <1>2, <1>5 DEF StatusGet, IInv, EntryOK
<1>6. CASE Started(o)
  BY <1>1, <1>5, <1>6 DEF Started, Goto, IInv, ObjectOK, Early
<1>7. CASE StatusLoop(o)
  <2>1. GetResult(s) \in {0, 1}
    BY <1>2 DEF GetResult
  <2>2. pc' = pc
    BY <1>1, <1>7, <2>1 DEF StatusLoop, Stopped, PHAL_STATUS_RUN, PHAL_STATUS_INIT,
                            PHAL_STATUS_STEP, PHAL_STATUS_STOP, PHAL_STATUS_ABNSTOP
  <2> QED BY <1>1, <1>2, <1>5, <1>7, <2>2 DEF StatusLoop, Early
<1> QED BY <1>3, <1>4, <1>6, <1>7

\* ClosePHAL: the abnormal stop is written over whatever was open, and the two
\* status_get that follow begin to take it up.
LEMMA OwnClosing ==
  ASSUME CInv, NEW o \in Ids, NEW s \in Slots, Object(o), Mine(o, s)'
  PROVE  Closing(o, s)'
<1>1. /\ Mine(o, s) /\ my[o] = s /\ UNCHANGED <<oid, max_proc_id, shared>>
      /\ ~Die(o) /\ ~Terminated(o) /\ ~Crash(o)
  BY OwnStays DEF CInv
<1>2. EntryOK /\ ObjectOK /\ max_proc_id \in 0..NSlots
  BY DEF CInv, IInv, TableOK
<1>3. CASE CloseAbnstop(o)
  <2>1. ~(max_proc_id < s)
    BY <1>1, <1>3 DEF CloseAbnstop, CInv, EarlyOK, Early
  <2>2. Find(o) = s /\ s # 0
    BY <1>1, <1>2, <2>1, FindMine, Numbers DEF CInv, Mine, Slots
  <2>3. \E d : StatusNew(s, PHAL_STATUS_ABNSTOP, d)
    BY <1>1, <1>3, <2>2 DEF CloseAbnstop, Mine
  <2>4. next'[s] = PHAL_STATUS_ABNSTOP /\ progress'[s] = 1
    BY <1>2, <2>3 DEF StatusNew, EntryOK
  <2>5. pc'[o] = "abnget1"
    BY <1>2, <1>3 DEF CloseAbnstop, Goto, ObjectOK
  <2> QED BY <2>4, <2>5 DEF Closing
<1>4. ASSUME StatusGet(s)
      PROVE  /\ next'[s] = next[s]
             /\ progress'[s] = IF next[s] # cur[s] /\ progress[s] < 2 /\ due[s] <= 0
                               THEN 2 ELSE progress[s]
             /\ cur'[s] = IF next[s] # cur[s] /\ progress[s] = 2 THEN next[s] ELSE cur[s]
  BY <1>2, <1>4 DEF StatusGet, EntryOK
<1>5. CASE CloseGet(o)
  <2>1. StatusGet(s) /\ pc[o] \in {"abnget1", "abnget2"}
        /\ pc'[o] = IF pc[o] = "abnget1" THEN "abnget2" ELSE "wait"
    BY <1>1, <1>2, <1>5 DEF CloseGet, Goto, ObjectOK
  <2>2. Closing(o, s)
    BY <1>1 DEF CInv, ClosingOK
  <2>3. CASE pc[o] = "abnget1"
    <3>1. next[s] = PHAL_STATUS_ABNSTOP /\ progress[s] = 1
      BY <2>2, <2>3 DEF Closing
    <3> QED BY <1>4, <2>1, <2>3, <3>1 DEF Closing
  <2>4. CASE pc[o] = "abnget2"
    <3>1. /\ next[s] = PHAL_STATUS_ABNSTOP
          /\ progress[s] = 1 \/ (progress[s] = 2 /\ cur[s] # next[s])
      BY <2>2, <2>4 DEF Closing
    <3>2. cur'[s] \in Stopped \/ (progress'[s] # 0 /\ cur'[s] # next'[s])
      BY <1>4, <2>1, <3>1 DEF Stopped
    <3>3. pc'[o] = "wait"
      BY <2>1, <2>4
    <3> QED BY <3>2, <3>3 DEF Closing
  <2> QED BY <2>1, <2>3, <2>4
<1>6. CASE Close(o)
  <2>1. StatusGet(s) /\ pc'[o] = IF GetResult(s) \in Stopped THEN "wait" ELSE "abnstop"
    BY <1>1, <1>2, <1>6 DEF Close, Goto, ObjectOK
  <2>2. CASE GetResult(s) \in Stopped
    <3>1. progress[s] \in 0..2
      BY <1>2 DEF EntryOK
    <3>2. cur'[s] \in Stopped \/ (progress'[s] # 0 /\ cur'[s] # next'[s])
      BY <1>4, <2>1, <2>2, <3>1 DEF GetResult
    <3>3. pc'[o] = "wait"
      BY <2>1, <2>2
    <3> QED BY <3>2, <3>3 DEF Closing
  <2>3. CASE GetResult(s) \notin Stopped
    BY <2>1, <2>3 DEF Closing
  <2> QED BY <2>2, <2>3
<1>7. CASE ~CloseAbnstop(o) /\ ~CloseGet(o) /\ ~Close(o)
  <2>1. pc'[o] \notin {"abnget1", "abnget2", "wait"}
    BY <1>1, <1>2, <1>7 DEF Object, Library, Boot, Started, StatusLoop, StepGet, StepAck,
       StepNew, StepEnd, CloseWait, Exit, WorkDone, WorkFails, Goto, ObjectOK
  <2> QED BY <2>1 DEF Closing
<1> QED BY <1>3, <1>5, <1>6, <1>7
\* The frame keeps both promises: nobody else can close a change that has not been
\* taken up, and nobody at all can find an object that has not been published.
LEMMA FramedStays ==
  ASSUME CInv, NEW o \in Ids, NEW s \in Slots, Framed(o, s)
  PROVE  /\ max_proc_id' < s => Early(o, s)'
         /\ Closing(o, s)'
<1>1. /\ Mine(o, s) /\ (pc'[o] = pc[o] \/ pc'[o] = "boot")
      /\ max_proc_id' < s => max_proc_id < s
      /\ Same(s) \/ (s <= max_proc_id /\ (Asked(s) \/ Acked(s)))
  BY DEF Framed
<1>2. Closing(o, s) /\ (max_proc_id < s => Early(o, s))
  BY <1>1 DEF CInv, EarlyOK, ClosingOK, Framed
<1>3. ASSUME max_proc_id' < s PROVE Early(o, s)'
  <2>1. max_proc_id < s /\ Same(s)
    BY <1>1, <1>3, Numbers DEF Slots, CInv, IInv, TableOK
  <2> QED BY <1>1, <1>2, <2>1 DEF Early, Same
<1>4. Closing(o, s)'
  <2>1. CASE pc'[o] = "boot"
    BY <2>1 DEF Closing
  <2>2. CASE pc'[o] = pc[o] /\ Same(s)
    BY <1>2, <2>2 DEF Closing, Same
  <2>3. CASE pc'[o] = pc[o] /\ (Asked(s) \/ Acked(s))
    BY <1>2, <2>3 DEF Closing, Asked, Acked, Complete
  <2> QED BY <1>1, <2>1, <2>2, <2>3
<1> QED BY <1>3, <1>4

LEMMA InitCInv == Init => CInv
<1> SUFFICES ASSUME Init PROVE CInv
  OBVIOUS
<1>1. IInv
  BY InitIInv
<1>2. OwnEntry /\ Alone /\ EarlyOK /\ ClosingOK
  BY NoneAssumption DEF Init, OwnEntry, Alone, EarlyOK, ClosingOK, Mine, Live
<1> QED BY <1>1, <1>2 DEF CInv

LEMMA NextCInv == CInv /\ [Next]_vars => CInv'
<1> SUFFICES ASSUME CInv, [Next]_vars PROVE CInv'
  OBVIOUS
<1>1. IInv'
  BY NextIInv DEF CInv
<1>2. CASE Next
  <2>1. OwnEntry' /\ Alone'
    BY <1>2, NextAlone DEF CInv
  <2>2. ASSUME NEW o \in Ids, NEW s \in Slots, Mine(o, s)'
        PROVE  (max_proc_id' < s => Early(o, s)') /\ Closing(o, s)'
    <3>1. CASE Object(o)
      BY <2>2, <3>1, OwnEarly, OwnClosing DEF CInv
    <3>2. ASSUME NEW t \in Slots, CreateFill(o, t)
          PROVE  (max_proc_id' < s => Early(o, s)') /\ Closing(o, s)'
      <4>1. pc[o] = "none" /\ pc'[o] = "forked"
        BY <3>2 DEF CreateFill, CInv, IInv, ObjectOK
      <4>2. t = s
        BY <2>2, <3>2, <4>1 DEF CreateFill, CInv, OwnEntry, IInv, EntryOK, Mine
      <4>3. next'[s] = 1 /\ cur'[s] = 0
        BY <3>2, <4>2 DEF CreateFill, CInv, IInv, EntryOK, PHAL_STATUS_0, PHAL_STATUS_STARTED
      <4> QED BY <4>1, <4>3 DEF Early, Closing
    <3>3. CASE ~Object(o) /\ ~(\E t \in Slots : CreateFill(o, t))
      <4>1. Framed(o, s)
        BY <1>2, <2>2, <3>3, OthersFrame DEF CInv
      <4> QED BY <4>1, FramedStays
    <3> QED BY <3>1, <3>2, <3>3
  <2>3. EarlyOK' /\ ClosingOK'
    BY <2>2 DEF EarlyOK, ClosingOK
  <2> QED BY <1>1, <2>1, <2>3 DEF CInv
<1>3. CASE UNCHANGED vars
  <2>1. UNCHANGED <<pid, oid, cur, next, progress, max_proc_id, pc, my, isterming, shared>>
    BY <1>3 DEF vars, dbVars, entryVars, objVars
  <2>2. OwnEntry' /\ Alone'
    BY <2>1 DEF CInv, OwnEntry, Alone, Live
  <2>3. EarlyOK' /\ ClosingOK'
    BY <2>1 DEF CInv, EarlyOK, ClosingOK, Mine, Live, Early, Closing
  <2> QED BY <1>1, <2>2, <2>3 DEF CInv
<1> QED BY <1>2, <1>3

\* Nobody but the object itself ends its wait.
LEMMA WhoExits ==
  ASSUME IInv, Next, NEW o \in Ids, pc[o] = "wait", pc'[o] = "exit"
  PROVE  CloseWait(o)
<1>1. ObjectOK
  BY DEF IInv
<1>2. CASE Object(o)
  BY <1>1, <1>2 DEF Object, Library, Boot, Started, StatusLoop, StepGet, StepAck, StepNew,
     StepEnd, Close, CloseAbnstop, CloseGet, Exit, WorkDone, WorkFails, Terminated, Crash, Goto,
     Die, ObjectOK
<1>3. ASSUME NEW p \in Ids, p # o, Object(p) PROVE FALSE
  BY <1>3, OnlyMyself
<1>4. CASE Load
  BY <1>1, <1>4 DEF Load, CreateFill, ChildPid, CreateDone, objVars, ObjectOK
<1>5. CASE Reap \/ Tick \/ Command
  BY <1>5 DEF Reap, SigChld, Tick, Command, SetStatus, objVars
<1>6. CASE Background
  BY <1>1, <1>6 DEF Background, Refuse, KillWait, CopyFirst, CopyRest, ScanEnd, ScanSkip,
     ScanDied, RemoveClear, RemoveShrink, ScanAck, ScanLate, LateReport, objVars, Die, ObjectOK
<1> QED BY <1>2, <1>3, <1>4, <1>5, <1>6 DEF Next

\* The wait at the end of ClosePHAL does what it is for: an object that ends by
\* its own decision has stopped, and EXEC has closed the change, for any number
\* of objects and entries; status_new(STOP) cannot slip in before the object's
\* own abnormal stop is open, nor between that stop and its acknowledgement.
THEOREM EndsAreConfirmed == Spec => ExitIsConfirmed
<1> DEFINE Confirmed ==
      \A o \in Ids :
        pc[o] = "wait" /\ pc'[o] = "exit" /\ ~isterming[o]
          /\ Find(o) # 0 /\ Find(o) \notin shared
        => cur[Find(o)] \in Stopped /\ progress[Find(o)] = 0
<1>1. CInv /\ [Next]_vars => [Confirmed]_vars
  <2> SUFFICES ASSUME CInv, Next, NEW o \in Ids, pc[o] = "wait", pc'[o] = "exit",
                      ~isterming[o], Find(o) # 0, Find(o) \notin shared
               PROVE  cur[Find(o)] \in Stopped /\ progress[Find(o)] = 0
    OBVIOUS
  <2> DEFINE s == Find(o)
  <2>1. CloseWait(o)
    BY WhoExits DEF CInv
  <2>2. progress[s] = 0 /\ next[s] = cur[s]
    BY <2>1 DEF CloseWait, CanChange
  <2>3. s \in Slots /\ oid[s] = o
    BY FindType DEF CInv, IInv, TableOK
  <2>4. Mine(o, s)
    BY <2>3 DEF Mine, Live
  <2>5. Closing(o, s)
    BY <2>3, <2>4 DEF CInv, ClosingOK
  <2> QED BY <2>2, <2>5 DEF Closing
<1>2. Spec => []CInv
  BY InitCInv, NextCInv, PTL DEF Spec
<1>3. ExitIsConfirmed <=> [][Confirmed]_vars
  BY DEF ExitIsConfirmed
<1> HIDE DEF Confirmed
<1> QED BY <1>1, <1>2, <1>3, PTL DEF Spec

-----------------------------------------------------------------------------
(* What EXEC reports is so.                                                *)

(***************************************************************************)
(* EXEC closes a change in the table and reports the status of its copy.   *)
(* From the copy to the report only the object itself can ask for another  *)
(* status (CopiesOK): EXEC processes no command, and the two statuses that *)
(* an object asks of itself are PAUSE, in STEP, which EXEC leaves alone,   *)
(* and STOP, on its way out, when nobody takes it up any more.             *)
(***************************************************************************)

\* EXEC has no copy of the table while it processes commands.
Unwatched    == epc \in {"cmds", "refuse"} \/ (epc = "killwait" /\ eret = "cmds")
CopyGivenUp  == Unwatched => \A s \in Slots : snap[s].id = None

\* The entry a process works on is its own or nobody's, unless it was taken from it.
KeeperOK == \A p \in Ids, s \in Slots :
  Live(p) /\ my[p] = s /\ s \notin shared => oid[s] \in {p, None}

\* An object has one entry, and the copy has its id where the table has or had it.
OneEntry   == \A o \in Ids, s, t \in Slots : oid[s] = o /\ oid[t] = o => s = t
CopiedOnce == \A o \in Ids, s \in Slots :
  snap[s].id = o => pc[o] # "none" /\ \A t \in Slots : oid[t] = o => t = s

\* An object that closes its own change is in STEP, or about to be.
Stepping(o, s) ==
  /\ pc[o] = "stepget" => \/ /\ cur[s] = PHAL_STATUS_STEP
                             /\ next[s] = PHAL_STATUS_STEP \/ progress[s] # 2
                          \/ next[s] = PHAL_STATUS_STEP /\ progress[s] = 2
  /\ pc[o] \in {"stepack", "stepnew"} => cur[s] = PHAL_STATUS_STEP
SteppingOK == \A o \in Ids, s \in Slots : Mine(o, s) => Stepping(o, s)

\* What was asked of an object when it was copied is asked of it still, or the
\* object has aborted itself or has left.
StillAsked(o, s) ==
  \/ next[s] \in {snap[s].next, PHAL_STATUS_ABNSTOP}
  \/ next[s] = PHAL_STATUS_STOP /\ progress[s] = 1 /\ pc[o] \in {"exit", "dead"}
Copied1(o, s) ==
  snap[s].id = o /\ oid[s] = o /\ s \notin shared /\ snap[s].next # PHAL_STATUS_STEP
CopiesOK == \A o \in Ids, s \in Slots : Copied1(o, s) => StillAsked(o, s)

RInv == /\ CInv /\ CopyGivenUp /\ KeeperOK /\ OneEntry /\ CopiedOnce
        /\ SteppingOK /\ CopiesOK

\* The copy is made by CopyFirst and CopyRest, and given up at the end of the loop.
LEMMA CopyMoves ==
  ASSUME Next
  PROVE  CopyFirst \/ CopyRest \/ UNCHANGED snap \/ snap' = [s \in Slots |-> Blank]
<1>1. CASE Load \/ Reap \/ Tick
  BY <1>1 DEF Load, CreateFill, ChildPid, CreateDone, Reap, SigChld, Tick, execVars
<1>2. ASSUME NEW p \in Ids, Object(p) PROVE UNCHANGED snap
  BY <1>2 DEF Object, Library, Boot, Started, StatusLoop, StepGet, StepAck, StepNew, StepEnd,
     Close, CloseAbnstop, CloseGet, CloseWait, Exit, WorkDone, WorkFails, Terminated, Crash,
     OwnStep, execVars
<1>3. CASE Command
  BY <1>3 DEF Command, SetStatus
<1>4. CASE Background
  BY <1>4 DEF Background, Refuse, KillWait, ScanEnd, ScanSkip, ScanDied, RemoveClear,
     RemoveShrink, ScanAck, ScanLate, LateReport, NextSlot, LeaveLoop
<1> QED BY <1>1, <1>2, <1>3, <1>4 DEF Next

LEMMA NextCopyGivenUp ==
  ASSUME IInv, CopyGivenUp, Next
  PROVE  CopyGivenUp'
<1> SUFFICES ASSUME Unwatched' PROVE \A s \in Slots : snap'[s].id = None
  BY DEF CopyGivenUp
<1>1. ASSUME UNCHANGED snap, Unwatched PROVE \A s \in Slots : snap'[s].id = None
  BY <1>1 DEF CopyGivenUp
<1>2. CASE Load \/ Reap \/ Tick
  <2>1. UNCHANGED execVars
    BY <1>2 DEF Load, CreateFill, ChildPid, CreateDone, Reap, SigChld, Tick
  <2> QED BY <1>1, <2>1 DEF execVars, Unwatched
<1>3. ASSUME NEW p \in Ids, Object(p) PROVE \A s \in Slots : snap'[s].id = None
  <2>1. UNCHANGED execVars
    BY <1>3 DEF Object, Library, Boot, Started, StatusLoop, StepGet, StepAck, StepNew, StepEnd,
       Close, CloseAbnstop, CloseGet, CloseWait, Exit, WorkDone, WorkFails, Terminated, Crash,
       OwnStep
  <2> QED BY <1>1, <2>1 DEF execVars, Unwatched
<1>4. CASE Command
  BY <1>1, <1>4 DEF Command, SetStatus, Unwatched
<1>5. CASE Refuse \/ KillWait
  <2>1. UNCHANGED snap /\ (Refuse => epc = "refuse") /\ (KillWait => epc' = eret)
    BY <1>5 DEF Refuse, KillWait
  <2>2. KillWait => epc = "killwait" /\ eret \in {"cmds", "timeout"}
    BY DEF KillWait, IInv, ExecOK
  <2> QED BY <1>1, <1>5, <2>1, <2>2 DEF Unwatched
<1>6. CASE CopyFirst \/ CopyRest \/ RemoveClear \/ RemoveShrink \/ LateReport \/ ScanSkip
  BY <1>6 DEF CopyFirst, CopyRest, RemoveClear, RemoveShrink, LateReport, ScanSkip, Scanning,
              Unwatched
<1>7. CASE ScanDied \/ ScanLate
  BY <1>7 DEF ScanDied, ScanLate, ProcKill, Scanning, Unwatched
<1>8. CASE ScanEnd \/ ScanAck
  <2>1. LeaveLoop \/ epc' = "scan"
    BY <1>8 DEF ScanEnd, ScanAck, Scanning
  <2> QED BY <2>1 DEF LeaveLoop, Blank, Unwatched
<1> QED BY <1>2, <1>3, <1>4, <1>5, <1>6, <1>7, <1>8 DEF Next, Background

\* Entries and processes only part: what is new is the entry of a launch.
LEMMA LaunchOrCalm ==
  ASSUME IInv, OwnEntry, Next
  PROVE  \/ Calm
         \/ \E o \in Ids : ChildPid(o)
         \/ \E o \in Ids, s \in Slots : CreateFill(o, s)
BY NextCalm

LEMMA NextEntries ==
  ASSUME IInv, OwnEntry, Next, KeeperOK, OneEntry
  PROVE  /\ KeeperOK' /\ OneEntry'
         /\ \A o \in Ids : pc[o] # "none" =>
              /\ pc'[o] # "none"
              /\ \A t \in Slots : oid'[t] = o => oid[t] = o
<1>1. \A o \in Ids : o # None
  BY NoneAssumption
<1>2. CASE Calm
  BY <1>1, <1>2 DEF Calm, KeeperOK, OneEntry
<1>3. ASSUME NEW o \in Ids, ChildPid(o)
      PROVE  /\ KeeperOK' /\ OneEntry'
             /\ \A q \in Ids : pc[q] # "none" =>
                  /\ pc'[q] # "none"
                  /\ \A t \in Slots : oid'[t] = q => oid[t] = q
  <2>1. /\ pc[o] = "forked" /\ UNCHANGED <<my, oid, shared>>
        /\ pc'[o] = "boot" /\ \A q \in Ids : q # o => pc'[q] = pc[q]
    BY <1>3 DEF ChildPid, entryVars, IInv, ObjectOK
  <2> QED BY <2>1 DEF KeeperOK, OneEntry, Live
<1>4. ASSUME NEW o \in Ids, NEW s \in Slots, CreateFill(o, s)
      PROVE  /\ KeeperOK' /\ OneEntry'
             /\ \A q \in Ids : pc[q] # "none" =>
                  /\ pc'[q] # "none"
                  /\ \A t \in Slots : oid'[t] = q => oid[t] = q
  <2>1. /\ pc[o] = "none" /\ pc'[o] = "forked" /\ my'[o] = s
        /\ \A q \in Ids : q # o => pc'[q] = pc[q] /\ my'[q] = my[q]
    BY <1>4 DEF CreateFill, IInv, ObjectOK
  <2>2. oid'[s] = o /\ \A t \in Slots : t # s => oid'[t] = oid[t] /\ oid[t] # o
    BY <1>4, <2>1 DEF CreateFill, IInv, EntryOK, OwnEntry
  <2>3. shared' = IF Had(s) THEN shared \cup {s} ELSE shared \ {s}
    BY <1>4 DEF CreateFill
  <2>4. KeeperOK'
    <3> SUFFICES ASSUME NEW p \in Ids, NEW t \in Slots, Live(p)', my'[p] = t, t \notin shared'
                 PROVE  oid'[t] \in {p, None}
      BY DEF KeeperOK
    <3>1. CASE t = s
      BY <2>1, <2>2, <2>3, <3>1 DEF Had, Live
    <3>2. CASE t # s
      BY <2>1, <2>2, <2>3, <3>2 DEF KeeperOK, Live
    <3> QED BY <3>1, <3>2
  <2>5. OneEntry'
    BY <2>2 DEF OneEntry
  <2> QED BY <2>1, <2>2, <2>4, <2>5
<1> QED BY <1>2, <1>3, <1>4, LaunchOrCalm

\* memcpy reads the id of an entry before the rest.
LEMMA NextCopiedOnce ==
  ASSUME IInv, OwnEntry, Next, KeeperOK, OneEntry, CopyGivenUp, CopiedOnce
  PROVE  CopiedOnce'
<1> SUFFICES ASSUME NEW o \in Ids, NEW s \in Slots, snap'[s].id = o
             PROVE  pc'[o] # "none" /\ \A t \in Slots : oid'[t] = o => t = s
  BY DEF CopiedOnce
<1>1. snap[s].id = o \/ oid[s] = o
  <2>1. o # None
    BY NoneAssumption
  <2>2. CASE CopyFirst
    <3>1. snap'[s] = IF s <= max_proc_id THEN Copied(Fields, s, snap[s]) ELSE snap[s]
      BY <2>2 DEF CopyFirst, Copy
    <3> QED BY <3>1 DEF Copied, Fields
  <2>3. CASE CopyRest
    <3>1. PICK f \in Tears : snap'[s] = IF s <= en THEN Copied(f, s, snap[s]) ELSE snap[s]
      BY <2>3 DEF CopyRest, Copy
    <3> QED BY <3>1 DEF Copied
  <2>4. CASE UNCHANGED snap BY <2>4
  <2>5. CASE snap' = [t \in Slots |-> Blank]
    BY <2>1, <2>5 DEF Blank
  <2> QED BY <2>2, <2>3, <2>4, <2>5, CopyMoves
<1>2. pc[o] # "none" /\ \A t \in Slots : oid[t] = o => t = s
  BY <1>1 DEF CopiedOnce, OwnEntry, OneEntry
<1> QED BY <1>2, NextEntries

\* An object comes to its STEP when STEP is what it was asked for or is in, and
\* its second read of the status leaves it there.
LEMMA OwnStepping ==
  ASSUME CInv, SteppingOK, NEW o \in Ids, NEW s \in Slots, Object(o), Mine(o, s)'
  PROVE  Stepping(o, s)'
<1>1. /\ Mine(o, s) /\ my[o] = s /\ ~Die(o) /\ ~Terminated(o) /\ ~Crash(o)
  BY OwnStays DEF CInv
<1>2. EntryOK /\ ObjectOK /\ Stepping(o, s)
  BY <1>1 DEF CInv, IInv, SteppingOK
<1>3. ASSUME StatusGet(s)
      PROVE  /\ next'[s] = next[s]
             /\ progress'[s] = IF next[s] # cur[s] /\ progress[s] < 2 /\ due[s] <= 0
                               THEN 2 ELSE progress[s]
             /\ cur'[s] = IF next[s] # cur[s] /\ progress[s] = 2 THEN next[s] ELSE cur[s]
             /\ progress[s] \in 0..2
  BY <1>2, <1>3 DEF StatusGet, EntryOK
<1>4. CASE StatusLoop(o)
  <2>1. StatusGet(s)
    BY <1>1, <1>4 DEF StatusLoop
  <2>2. pc'[o] = "stepget" => GetResult(s) = PHAL_STATUS_STEP
    BY <1>1, <1>2, <1>4 DEF StatusLoop, Goto, ObjectOK
  <2>3. pc'[o] \notin {"stepack", "stepnew"}
    BY <1>1, <1>2, <1>4 DEF StatusLoop, Goto, ObjectOK
  <2>4. ASSUME GetResult(s) = PHAL_STATUS_STEP
        PROVE  \/ /\ cur'[s] = PHAL_STATUS_STEP
                  /\ next'[s] = PHAL_STATUS_STEP \/ progress'[s] # 2
               \/ next'[s] = PHAL_STATUS_STEP /\ progress'[s] = 2
    BY <1>3, <2>1, <2>4 DEF GetResult
  <2> QED BY <2>2, <2>3, <2>4 DEF Stepping
<1>5. CASE StepGet(o)
  <2>1. StatusGet(s) /\ pc[o] = "stepget" /\ pc'[o] = "stepack"
    BY <1>1, <1>2, <1>5 DEF StepGet, Goto, ObjectOK
  <2>2. cur'[s] = PHAL_STATUS_STEP
    BY <1>2, <1>3, <2>1 DEF Stepping
  <2> QED BY <2>1, <2>2 DEF Stepping
<1>6. CASE StepAck(o)
  <2>1. pc[o] = "stepack" /\ pc'[o] = "stepnew" /\ cur' = cur
    BY <1>2, <1>6 DEF StepAck, StatusAck, entryVars, Goto, ObjectOK
  <2> QED BY <1>2, <2>1 DEF Stepping
<1>7. CASE ~StatusLoop(o) /\ ~StepGet(o) /\ ~StepAck(o)
  <2>1. pc'[o] \notin {"stepget", "stepack", "stepnew"}
    BY <1>1, <1>2, <1>7 DEF Object, Library, Boot, Started, StepNew, StepEnd, Close, CloseAbnstop,
       CloseGet, CloseWait, Exit, WorkDone, WorkFails, Goto, ObjectOK
  <2> QED BY <2>1 DEF Stepping
<1> QED BY <1>4, <1>5, <1>6, <1>7

LEMMA NextStepping ==
  ASSUME CInv, SteppingOK, Next
  PROVE  SteppingOK'
<1> SUFFICES ASSUME NEW o \in Ids, NEW s \in Slots, Mine(o, s)' PROVE Stepping(o, s)'
  BY DEF SteppingOK
<1>1. CASE Object(o)
  BY <1>1, OwnStepping
<1>2. CASE \E t \in Slots : CreateFill(o, t)
  <2>1. pc'[o] = "forked"
    BY <1>2 DEF CreateFill, CInv, IInv, ObjectOK
  <2> QED BY <2>1 DEF Stepping
<1>3. CASE ~Object(o) /\ ~(\E t \in Slots : CreateFill(o, t))
  <2>1. Framed(o, s)
    BY <1>3, OthersFrame DEF CInv
  <2>2. Stepping(o, s) /\ (pc'[o] = pc[o] \/ pc'[o] = "boot")
    BY <2>1 DEF Framed, SteppingOK
  <2>3. Same(s) \/ Asked(s) \/ Acked(s)
    BY <2>1 DEF Framed
  <2> QED BY <2>2, <2>3 DEF Stepping, Same, Asked, Acked, Complete
<1> QED BY <1>1, <1>2, <1>3

\* What a step may do to the entry of an object, dead or alive: EXEC asks while it
\* has no copy, the object asks itself, and what nobody is left to take up stays.
Left(o)        == pc[o] \in {"exit", "dead"}
Untouched(o, s) == next'[s] = next[s] /\ (Left(o) /\ progress[s] = 1 => progress'[s] = 1)
AsksItself(o)  == StepNew(o) \/ CloseAbnstop(o) \/ CloseWait(o)

LEMMA LeftStays ==
  ASSUME IInv, Next, NEW o \in Ids, Left(o)
  PROVE  Left(o)'
<1>1. ObjectOK
  BY DEF IInv
<1>2. CASE Object(o)
  BY <1>1, <1>2 DEF Left, Object, Library, Boot, Started, StatusLoop, StepGet, StepAck, StepNew,
     StepEnd, Close, CloseAbnstop, CloseGet, CloseWait, Exit, WorkDone, WorkFails, Terminated,
     Crash, Goto, Die, Alive, ObjectOK
<1>3. ASSUME NEW p \in Ids, p # o, Object(p) PROVE pc'[o] = pc[o]
  BY <1>3, OnlyMyself
<1>4. CASE Load
  BY <1>1, <1>4 DEF Left, Load, CreateFill, ChildPid, CreateDone, objVars, ObjectOK
<1>5. CASE Reap \/ Tick \/ Command
  BY <1>5 DEF Left, Reap, SigChld, Tick, Command, SetStatus, objVars
<1>6. CASE Background
  <2>1. pc'[o] \in {pc[o], "dead"}
    BY <1>1, <1>6 DEF Background, Refuse, KillWait, CopyFirst, CopyRest, ScanEnd, ScanSkip,
       ScanDied, RemoveClear, RemoveShrink, ScanAck, ScanLate, LateReport, objVars, Die, ObjectOK
  <2> QED BY <2>1 DEF Left
<1> QED BY <1>2, <1>3, <1>4, <1>5, <1>6 DEF Next, Left

LEMMA ObjectTouches ==
  ASSUME IInv, OwnEntry, KeeperOK, NEW o \in Ids, NEW s \in Slots, oid[s] = o, s \notin shared,
         NEW p \in Ids, Object(p)
  PROVE  Untouched(o, s) \/ (AsksItself(o) /\ Find(o) = s)
<1>1. CASE p # o
  <2>1. Live(p)
    BY <1>1, OnlyMyself
  <2>2. my[p] # s
    BY <1>1, <2>1, NoneAssumption DEF KeeperOK
  <2>3. Find(p) # s
    <3>1. s # 0
      BY Numbers DEF Slots
    <3> QED BY <1>1, <3>1, FindType DEF IInv, TableOK
  <2> QED BY <2>1, <2>2, <2>3, ElsewhereSame DEF Same, Untouched
<1>2. CASE p = o
  <2>1. CASE \/ Started(o) \/ StatusLoop(o) \/ StepGet(o) \/ StepEnd(o)
             \/ Close(o) \/ CloseGet(o)
    BY <2>1 DEF Started, StatusLoop, StepGet, StepEnd, Close, CloseGet, StatusGet, Left, Untouched
  <2>2. CASE StepAck(o)
    BY <2>2 DEF StepAck, StatusAck, entryVars, Left, Untouched
  <2>3. CASE AsksItself(o)
    <3>1. Live(o)
      BY <2>3 DEF AsksItself, StepNew, CloseAbnstop, CloseWait, Live
    <3>2. UNCHANGED entryVars \/ Find(o) # 0
      BY <2>3 DEF AsksItself, StepNew, CloseAbnstop, CloseWait
    <3> QED BY <2>3, <3>1, <3>2, FindMine DEF entryVars, Untouched
  <2>4. CASE Boot(o) \/ WorkDone(o) \/ WorkFails(o) \/ Exit(o) \/ Terminated(o) \/ Crash(o)
    BY <2>4 DEF Boot, WorkDone, WorkFails, Exit, Terminated, Crash, dbVars, entryVars, Untouched
  <2> QED BY <1>2, <2>1, <2>2, <2>3, <2>4 DEF Object, Library, AsksItself
<1> QED BY <1>1, <1>2

\* While EXEC has a copy, the steps of the others leave an entry of it as it is.
LEMMA EntryTouches ==
  ASSUME IInv, OwnEntry, KeeperOK, Next, UNCHANGED snap, NEW o \in Ids, NEW s \in Slots,
         ~Unwatched, pc[o] # "none", oid[s] = o, s \notin shared, oid'[s] = o
  PROVE  Untouched(o, s) \/ (AsksItself(o) /\ Find(o) = s /\ Object(o))
<1>1. CASE Load
  <2>1. ASSUME NEW q \in Ids, NEW t \in Slots, CreateFill(q, t) PROVE Untouched(o, s)
    <3>1. pc[q] = "none" /\ oid'[t] = q
      BY <2>1 DEF CreateFill, IInv, EntryOK
    <3>2. t # s
      BY <3>1
    <3> QED BY <2>1, <3>2 DEF CreateFill, IInv, EntryOK, Untouched
  <2>2. ASSUME NEW q \in Ids, ChildPid(q) PROVE Untouched(o, s)
    BY <2>2 DEF ChildPid, entryVars, Untouched
  <2>3. CASE CreateDone
    <3>1. CASE UNCHANGED entryVars
      BY <3>1 DEF entryVars, Untouched
    <3>2. CASE ~UNCHANGED entryVars
      <4>1. creating.slot # s
        BY <2>3, <3>2, NoneAssumption DEF CreateDone, IInv, EntryOK
      <4> QED BY <2>3, <4>1 DEF CreateDone, entryVars, IInv, EntryOK, Untouched
    <3> QED BY <3>1, <3>2
  <2> QED BY <1>1, <2>1, <2>2, <2>3 DEF Load
<1>2. CASE Reap \/ Tick
  BY <1>2 DEF Reap, SigChld, Tick, entryVars, Untouched
<1>3. ASSUME NEW p \in Ids, Object(p)
      PROVE  Untouched(o, s) \/ (AsksItself(o) /\ Find(o) = s /\ Object(o))
  BY <1>3, ObjectTouches DEF AsksItself, Object, Library
<1>4. CASE Command
  BY <1>4 DEF Command, SetStatus, Unwatched
<1>5. CASE Background
  <2>1. CASE ScanAck
    <3> DEFINE t == Find(snap[ei].id)
    <3>1. UNCHANGED entryVars \/ (t # 0 /\ Complete(t) /\ StatusAck(t))
      BY <2>1 DEF ScanAck
    <3>2. CASE UNCHANGED entryVars
      BY <3>2 DEF entryVars, Untouched
    <3>3. CASE t # 0 /\ Complete(t) /\ StatusAck(t)
      <4>1. CASE t = s
        BY <3>3, <4>1 DEF Complete, StatusAck, Untouched
      <4>2. CASE t # s
        BY <3>3, <4>2 DEF StatusAck, IInv, EntryOK, Untouched
      <4> QED BY <4>1, <4>2
    <3> QED BY <3>1, <3>2, <3>3
  <2>2. CASE ~ScanAck
    BY <1>5, <2>2 DEF Background, Refuse, KillWait, CopyFirst, CopyRest, ScanEnd, ScanSkip,
       ScanDied, RemoveClear, RemoveShrink, ScanLate, LateReport, dbVars, entryVars, Untouched
  <2> QED BY <2>1, <2>2
<1> QED BY <1>1, <1>2, <1>3, <1>4, <1>5 DEF Next

\* The object itself asks for PAUSE in STEP only, which the copy does not show, for
\* ABNSTOP, or for STOP on its way out.
LEMMA AsksItselfKeeps ==
  ASSUME CInv, SteppingOK, NEW o \in Ids, NEW s \in Slots, Object(o), AsksItself(o),
         Find(o) = s, Copied1(o, s), StillAsked(o, s), UNCHANGED snap, Left(o) => Left(o)'
  PROVE  StillAsked(o, s)'
<1>1. EntryOK /\ ObjectOK /\ Live(o) /\ oid[s] = o /\ s \notin shared
  BY DEF CInv, IInv, Copied1, AsksItself, StepNew, CloseAbnstop, CloseWait, Live
<1>2. CASE UNCHANGED entryVars
  BY <1>2 DEF entryVars, StillAsked, Left
<1>3. CASE ~UNCHANGED entryVars
  <2>1. CASE StepNew(o)
    <3>1. ~isterming[o] /\ next[s] = cur[s] /\ pc[o] = "stepnew"
      BY <1>3, <2>1 DEF StepNew, CanChange
    <3>2. cur[s] = PHAL_STATUS_STEP
      BY <1>1, <3>1 DEF SteppingOK, Stepping, Mine
    <3> QED BY <3>1, <3>2 DEF StillAsked, Copied1, PHAL_STATUS_STEP, PHAL_STATUS_STOP,
                              PHAL_STATUS_ABNSTOP
  <2>2. CASE CloseAbnstop(o)
    <3>1. \E d : StatusNew(s, PHAL_STATUS_ABNSTOP, d)
      BY <1>3, <2>2 DEF CloseAbnstop
    <3>2. next'[s] = PHAL_STATUS_ABNSTOP
      BY <1>1, <3>1 DEF StatusNew, EntryOK
    <3> QED BY <3>2 DEF StillAsked
  <2>3. CASE CloseWait(o)
    <3>1. StatusNew(s, PHAL_STATUS_STOP, 0) /\ pc'[o] = "exit"
      BY <1>1, <1>3, <2>3 DEF CloseWait, Goto, ObjectOK
    <3>2. next'[s] = PHAL_STATUS_STOP /\ progress'[s] = 1
      BY <1>1, <3>1 DEF StatusNew, EntryOK
    <3> QED BY <3>1, <3>2 DEF StillAsked
  <2> QED BY <2>1, <2>2, <2>3 DEF AsksItself
<1> QED BY <1>2, <1>3

LEMMA NextCopies ==
  ASSUME RInv, Next
  PROVE  CopiesOK'
<1> SUFFICES ASSUME NEW o \in Ids, NEW s \in Slots, Copied1(o, s)'
             PROVE  StillAsked(o, s)'
  BY DEF CopiesOK
<1>1. o # None
  BY NoneAssumption
<1>2. CASE CopyFirst
  <2>1. /\ snap'[s] = IF s <= max_proc_id THEN Copied(Fields, s, snap[s]) ELSE snap[s]
        /\ next' = next /\ snap[s].id = None
    BY <1>2 DEF CopyFirst, Copy, dbVars, entryVars, RInv, CopyGivenUp, Unwatched
  <2> QED BY <1>1, <2>1 DEF Copied, Fields, Copied1, StillAsked
<1>3. CASE CopyRest
  <2>1. PICK f \in Tears : snap'[s] = IF s <= en THEN Copied(f, s, snap[s]) ELSE snap[s]
    BY <1>3 DEF CopyRest, Copy
  <2>2. UNCHANGED <<oid, next, progress, pc, shared>>
    BY <1>3 DEF CopyRest, dbVars, entryVars, objVars
  <2>3. snap'[s].id = snap[s].id /\ snap'[s].next \in {snap[s].next, next[s]}
    BY <2>1, IdFirstAssumption DEF Copied
  <2>4. CASE snap'[s].next = next[s]
    BY <2>2, <2>4 DEF StillAsked
  <2>5. CASE snap'[s].next = snap[s].next
    BY <2>2, <2>3, <2>5 DEF RInv, CopiesOK, Copied1, StillAsked
  <2> QED BY <2>3, <2>4, <2>5
<1>4. CASE snap' = [t \in Slots |-> Blank]
  BY <1>1, <1>4 DEF Blank, Copied1
<1>5. CASE UNCHANGED snap
  <2>1. snap[s].id = o /\ pc[o] # "none" /\ ~Unwatched
    BY <1>1, <1>5 DEF Copied1, RInv, CopiedOnce, CopyGivenUp
  <2>2. oid[s] = o /\ oid'[s] = o
    BY <2>1, NextEntries DEF Copied1, RInv, CInv
  <2>3. s \notin shared
    <3>1. CASE Calm
      BY <3>1 DEF Calm, Copied1
    <3>2. ASSUME NEW q \in Ids, ChildPid(q) PROVE s \notin shared
      BY <3>2 DEF ChildPid, Copied1
    <3>3. ASSUME NEW q \in Ids, NEW t \in Slots, CreateFill(q, t) PROVE s \notin shared
      <4>1. pc[q] = "none" /\ oid'[t] = q
        BY <3>3 DEF CreateFill, RInv, CInv, IInv, EntryOK
      <4>2. t # s
        BY <2>1, <2>2, <4>1
      <4> QED BY <3>3, <4>2 DEF CreateFill, Copied1
    <3> QED BY <3>1, <3>2, <3>3, LaunchOrCalm DEF RInv, CInv
  <2>4. Copied1(o, s) /\ StillAsked(o, s)
    BY <1>5, <2>1, <2>2, <2>3 DEF Copied1, RInv, CopiesOK
  <2>5. Left(o) => Left(o)'
    BY LeftStays DEF RInv, CInv
  <2>6. CASE Untouched(o, s)
    BY <1>5, <2>4, <2>5, <2>6 DEF StillAsked, Untouched, Left
  <2>7. CASE AsksItself(o) /\ Find(o) = s /\ Object(o)
    BY <1>5, <2>4, <2>5, <2>7, AsksItselfKeeps DEF RInv
  <2> QED BY <1>5, <2>1, <2>2, <2>3, <2>6, <2>7, EntryTouches DEF RInv, CInv
<1> QED BY <1>2, <1>3, <1>4, <1>5, CopyMoves

LEMMA InitRInv == Init => RInv
<1> SUFFICES ASSUME Init PROVE RInv
  OBVIOUS
<1>1. CInv
  BY InitCInv
<1>2. /\ \A o \in Ids : pc[o] = "none"
      /\ \A s \in Slots : snap[s].id = None /\ oid[s] = None
  BY DEF Init, Blank
<1>3. CopyGivenUp /\ KeeperOK /\ OneEntry /\ CopiedOnce /\ SteppingOK /\ CopiesOK
  BY <1>2, NoneAssumption DEF CopyGivenUp, KeeperOK, OneEntry, CopiedOnce, SteppingOK, CopiesOK,
     Mine, Live, Copied1
<1> QED BY <1>1, <1>3 DEF RInv

LEMMA NextRInv == RInv /\ [Next]_vars => RInv'
<1> SUFFICES ASSUME RInv, [Next]_vars PROVE RInv'
  OBVIOUS
<1>1. CInv'
  BY NextCInv DEF RInv
<1>2. CASE Next
  <2>1. IInv /\ OwnEntry
    BY DEF RInv, CInv
  <2>2. CopyGivenUp' /\ KeeperOK' /\ OneEntry'
    BY <1>2, <2>1, NextCopyGivenUp, NextEntries DEF RInv
  <2>3. CopiedOnce' /\ SteppingOK' /\ CopiesOK'
    BY <1>2, <2>1, NextCopiedOnce, NextStepping, NextCopies DEF RInv
  <2> QED BY <1>1, <2>2, <2>3 DEF RInv
<1>3. CASE UNCHANGED vars
  <2>1. /\ UNCHANGED <<oid, cur, next, progress, pc, my, isterming, shared>>
        /\ UNCHANGED <<epc, eret, snap>>
    BY <1>3 DEF vars, dbVars, entryVars, objVars, execVars
  <2>2. CopyGivenUp' /\ KeeperOK' /\ OneEntry' /\ CopiedOnce'
    BY <2>1 DEF RInv, CopyGivenUp, Unwatched, KeeperOK, Live, OneEntry, CopiedOnce
  <2>3. SteppingOK' /\ CopiesOK'
    BY <2>1 DEF RInv, SteppingOK, Mine, Live, Stepping, CopiesOK, Copied1, StillAsked
  <2> QED BY <1>1, <2>2, <2>3 DEF RInv
<1> QED BY <1>2, <1>3

\* Only an acknowledged change is reported as done.
LEMMA OnlyAcksReport ==
  ASSUME Next, report'.kind = "ok"
  PROVE  ScanAck
<1>1. CASE Load \/ Reap \/ Tick \/ Command
  BY <1>1 DEF Load, CreateFill, ChildPid, CreateDone, Reap, SigChld, Tick, Command, SetStatus,
     NoReportSent, NoReport
<1>2. ASSUME NEW p \in Ids, Object(p) PROVE NoReportSent
  BY <1>2 DEF Object, Library, Boot, Started, StatusLoop, StepGet, StepAck, StepNew, StepEnd,
     Close, CloseAbnstop, CloseGet, CloseWait, Exit, WorkDone, WorkFails, Terminated, Crash,
     OwnStep
<1>3. CASE Background
  BY <1>3 DEF Background, Refuse, KillWait, CopyFirst, CopyRest, ScanEnd, ScanSkip, ScanDied,
     RemoveClear, RemoveShrink, ScanLate, LateReport, Report, NoReportSent, NoReport
<1> QED BY <1>1, <1>2, <1>3 DEF Next, NoReportSent, NoReport

\* A STATUSOK is true when it is sent, for any number of objects and entries and
\* however late the fields behind obj_id are copied: what EXEC closes is the
\* change it saw, and the status it reports is the one the object is in.
THEOREM ReportsAreTrue == Spec => OkIsTrue
<1> DEFINE True ==
      report'.kind = "ok" =>
        LET s == Find(report'.id) IN
        /\ s # 0 /\ progress'[s] = 0
        /\ s \notin shared => cur[s] \in {report'.st, PHAL_STATUS_ABNSTOP}
<1>1. RInv /\ [Next]_vars => [True]_vars
  <2> SUFFICES ASSUME RInv, Next, report'.kind = "ok"
               PROVE  LET s == Find(report'.id) IN
                      /\ s # 0 /\ progress'[s] = 0
                      /\ s \notin shared => cur[s] \in {report'.st, PHAL_STATUS_ABNSTOP}
    OBVIOUS
  <2> DEFINE e == snap[ei]
             s == Find(e.id)
  <2>1. ScanAck
    BY OnlyAcksReport
  <2>2. /\ SnapBusy(e) /\ SnapComplete(e)
        /\ s # 0 /\ Complete(s) /\ StatusAck(s) /\ Report(e.id, "ok", e.cur)
    BY <2>1 DEF ScanAck, NoReportSent, NoReport
  <2>3. report'.id = e.id /\ report'.st = e.cur
    BY <2>2 DEF Report
  <2>4. s \in Slots /\ oid[s] = e.id
    BY <2>2, FindType DEF RInv, CInv, IInv, TableOK
  <2>5. progress'[s] = 0
    BY <2>2, <2>4 DEF StatusAck, RInv, CInv, IInv, EntryOK
  <2>6. ASSUME s \notin shared PROVE cur[s] \in {e.cur, PHAL_STATUS_ABNSTOP}
    <3>1. ei \in Slots /\ e.id \in Ids
      <4>1. ei \in Slots
        BY <2>1, Numbers DEF ScanAck, Scanning, RInv, CInv, IInv, ExecOK, ExecInRange, Slots
      <4>2. e.id \in IdOrNo /\ e.id # None
        BY <2>2, <4>1 DEF SnapBusy, RInv, CInv, IInv, CopyOK, CopyEntry
      <4> QED BY <4>1, <4>2 DEF IdOrNo
    <3>2. s = ei
      BY <2>4, <3>1 DEF RInv, CopiedOnce
    <3>3. e.next # PHAL_STATUS_STEP
      BY <2>2 DEF SnapBusy, SnapComplete
    <3>4. StillAsked(e.id, ei)
      BY <2>4, <2>6, <3>1, <3>2, <3>3 DEF RInv, CopiesOK, Copied1
    <3> QED BY <2>2, <3>2, <3>4 DEF StillAsked, Complete, SnapComplete
  <2> QED BY <2>2, <2>3, <2>5, <2>6
<1>2. Spec => []RInv
  BY InitRInv, NextRInv, PTL DEF Spec
<1>3. OkIsTrue <=> [][True]_vars
  BY DEF OkIsTrue
<1> HIDE DEF True
<1> QED BY <1>1, <1>2, <1>3, PTL DEF Spec
=============================================================================
