------------------------------- MODULE Deploy -------------------------------
(***************************************************************************)
(* The daemons together: a user loads waveforms and changes their status   *)
(* through CMDMAN; SWMAN, HWMAN, and a SWLOAD and an EXEC on every PE      *)
(* carry it out.                                                           *)
(***************************************************************************)
EXTENDS CmdMan, SwMan, HwMan, SwLoad

vars == <<setup, ch, faults, user, swman, hwman, swload, proc>>

Init ==
  /\ setup \in Setups
  /\ ch = [r \in Routes |-> <<>>] /\ faults = 0
  /\ CmInit /\ SwInit /\ HwInit /\ LdInit /\ ExInit

User == CmNext /\ UNCHANGED <<swman, hwman, swload, proc>>

\* The handlers of each daemon, by the daemon they take a packet from.
SwmanFromUser    == (LoadApp \/ AppStatus) /\ UNCHANGED <<user, hwman, swload, proc>>
SwmanFromHwman   == AppError(HWMAN) /\ UNCHANGED <<user, hwman, swload, proc>>
SwmanFromSwload(p) ==
  (AppError(SWLOAD(p)) \/ ExecReq(p)) /\ UNCHANGED <<user, hwman, swload, proc>>
SwmanFromExec(p) == StatusRep(p) /\ UNCHANGED <<user, hwman, swload, proc>>
Hwman            == HwNext /\ UNCHANGED <<user, swman, swload, proc>>
SwloadFromHwman(p) == LoadObj(p) /\ UNCHANGED <<user, swman, hwman>>
SwloadFromSwman(p) == (ExecErr(p) \/ LoadEnd(p)) /\ UNCHANGED <<user, swman, hwman>>
Exec(p) == SetStatus(p) /\ UNCHANGED <<user, swman, hwman, swload>>

\* What happens to an object by itself, and what its EXEC sees of it.
Others == UNCHANGED <<user, swman, hwman, swload>>
Library(o) == (Adopt(o) \/ Close(o)) /\ Others
Trouble(o) == (Fails(o) \/ Crash(o)) /\ Others
Watched(o) == Watch(o) /\ Others

Step ==
  \/ User \/ SwmanFromUser \/ SwmanFromHwman \/ Hwman
  \/ \E p \in PEs : \/ SwmanFromSwload(p) \/ SwmanFromExec(p)
                    \/ SwloadFromHwman(p) \/ SwloadFromSwman(p) \/ Exec(p)
  \/ \E o \in Objects : Library(o) \/ Trouble(o) \/ Watched(o)

Next == Step /\ UNCHANGED setup

Spec == Init /\ [][Next]_vars

\* What goes on without the user's doing and with nothing going wrong.
System == UNCHANGED <<faults, calls>> /\ Next

(***************************************************************************)
(* Fairness.  Every daemon goes on reading its packets, and the objects'   *)
(* library and the loops of the EXECs go on; nothing makes the user call   *)
(* or lose patience, and nothing has to go wrong.  It is enough that some  *)
(* of them moves while any can: none has work without end unless the user  *)
(* gives it, so none can hold the others up for ever.                      *)
(***************************************************************************)
FairSpec == Spec /\ WF_vars(System)

-----------------------------------------------------------------------------
(* Properties.                                                             *)

Entry == [at : {"none", "up", "dead", "gone", "lost"}, pe : PEs,
          cur : Status, next : Status, prog : 0..2]

\* The type of every variable.
TypeOK ==
  /\ DOMAIN ch = Routes
  /\ setup \in Setups /\ faults \in 0..setup.faults /\ calls \in 0..setup.calls
  /\ mixed \in BOOLEAN
  /\ call = Idle \/ call \in [app : Apps, st : Status \cup {"load"}, two : BOOLEAN]
  /\ app_id \in 1..(MaxCalls + 1) /\ dropped \subseteq Insts
  /\ DOMAIN apps \subseteq Insts
  /\ \A i \in DOMAIN apps :
       /\ apps[i].name \in Apps
       /\ apps[i].cur \in Status /\ apps[i].pend \in Status
       /\ apps[i].obj \in [Keys(apps[i].name) -> [st : Status, pe : PEs \cup {NoPE}]]
  /\ DOMAIN loaded \subseteq Insts
  /\ \A i \in DOMAIN loaded :
       loaded[i].name \in Apps /\ loaded[i].at \in [Keys(loaded[i].name) -> PEs]
  /\ nof_objects \in [PEs -> Nat] /\ C \in [PEs -> Int] /\ intBW \in [PEs -> Int]
  /\ proc \in [Objects -> Entry]
  /\ \A p \in PEs, n \in 1..MaxKey :
       n <= Len(down_q[p]) => down_q[p][n].objs # <<>> /\ down_q[p][n].id < exeid[p]

\* What SWMAN and HWMAN each hold to be loaded agrees whenever nothing is on its
\* way between the two: HWMAN keeps no resources for a waveform SWMAN has given
\* up, and SWMAN holds none HWMAN could not map, although errors and removals
\* carry the name of a waveform and not which of its loadings they are about.
Agree ==
  ch[<<SWMAN, HWMAN>>] = <<>> /\ ch[<<HWMAN, SWMAN>>] = <<>> =>
    /\ DOMAIN apps = DOMAIN loaded
    /\ \A i \in DOMAIN apps : apps[i].name = loaded[i].name

\* SWMAN tells the user that a waveform is in a status only if all its objects
\* have taken it up, but for those that have aborted themselves or died since.
Sends(cmd) ==
  /\ Len(ch'[<<SWMAN, CMDMAN>>]) > Len(ch[<<SWMAN, CMDMAN>>])
  /\ Last(ch'[<<SWMAN, CMDMAN>>]).cmd = cmd
ToldIsTrue ==
  [][Sends("SWSTATUSOK") \/ Sends("SWLOADAPPOK") =>
       LET m == Last(ch'[<<SWMAN, CMDMAN>>]) IN
       \A k \in Keys(m.app) :
         \/ proc[<<m.inst, k>>].cur \in {m.st, "ABNSTOP"}
         \/ proc[<<m.inst, k>>].at \in {"dead", "gone", "lost"}]_vars

\* A call that returns success has had an answer about its own waveform and the
\* status it asked for, so long as nothing went wrong and no call ordered PAUSE
\* in advance: the answers do not say what they are about.
AnswerIsOwn ==
  [][Answered /\ Succeeds(Packet(SWMAN, CMDMAN)) /\ faults = 0 /\ ~mixed =>
       LET m == Packet(SWMAN, CMDMAN) IN
       /\ m.app = call.app
       /\ m.st = IF call.st = "load" THEN "STARTED" ELSE Goal(call.st)]_vars

\* Every call is answered, without the user's patience running out, also when an
\* object fails, dies or hangs under way.  After a fault there are exceptions: a
\* waveform that is still being loaded or is being stopped, answers that belong to
\* earlier calls, an object EXEC never looks at again, and a waveform whose
\* objects have all stopped but which a status ordered during its abort has kept
\* in apps_db.
Forgotten == \E o \in Objects : proc[o].at = "lost"
Undead(i) == apps[i].cur \notin Stopped /\ \A k \in DOMAIN apps[i].obj : apps[i].obj[k].st \in Stopped
Excused == \/ call.st \in {"load", "STOP"} \/ mixed \/ Forgotten
           \/ \E i \in DOMAIN apps : Undead(i)
CallAnswered ==
  Waiting ~> ~Waiting \/ (faults > 0 /\ Excused)

\* When SWMAN has removed a waveform that was loaded, its objects end and its
\* resources come back.
Removed(i) == i < app_id /\ i \notin DOMAIN apps /\ i \notin dropped
Ended(i) ==
  /\ i \notin DOMAIN loaded
  /\ \A k \in 1..MaxKey : proc[<<i, k>>].at # "up"
RemovedIsGone ==
  (\E i \in Insts : Removed(i) /\ ~Ended(i)) ~> (\A i \in Insts : Removed(i) => Ended(i))
=============================================================================
