------------------------------- MODULE Pipeline -------------------------------
(***************************************************************************)
(* The execution pipeline of one core: how the waveform objects mapped to  *)
(* a core take turns within a time slot.                                   *)
(*                                                                         *)
(* Each object has a position and sleeps on the semaphore of that position *)
(* (hw_api_db->sem_objects[core]).  The kernel's timer posts position 0 in *)
(* every time slot, and an object that relinquishes the core posts the     *)
(* position after its own.  When an object dies, the kernel's command      *)
(* process moves every later object one position down (remove_process):    *)
(* it rewrites their positions in shared memory and posts the semaphore an *)
(* object may be sleeping on, so that it comes round and sleeps on the new *)
(* one.  The objects take no lock and are not stopped while this goes on.  *)
(***************************************************************************)
EXTENDS Integers, FiniteSets

CONSTANTS
  N,          \* the objects HWMAN has mapped to the core
  MaxTokens,  \* SEM_VALUE_MAX: a post beyond it fails
  LateLoad    \* may an object die before every object has been launched?

ASSUME SizeAssumption == N \in Nat \ {0} /\ MaxTokens \in Nat \ {0}
ASSUME LateAssumption == LateLoad \in BOOLEAN

\* The objects, numbered in the order of the positions HWMAN gives them: an
\* object takes the number of objects mapped before it.
Objs == 1..N
exec_position(o) == o - 1
Sems == 0..N

VARIABLES
  pid,          \* the entry in proc_db holds the pid of a process
  sem_idx,      \* the object's position in shared memory
  last_semidx,  \* the last position in use
  sem,          \* the value of each semaphore
  pc,           \* where the object's process is
  at,           \* the semaphore its sem_wait is called with
  dead,         \* the object remove_process was called for, 0: none
  sem_i,        \* the position remove_process looks at
  late          \* history: an object was launched after another had died

schedVars == <<pid, sem_idx, last_semidx>>
objVars   == <<pc, at>>
moveVars  == <<dead, sem_i>>
vars      == <<schedVars, sem, objVars, moveVars, late>>

Moving   == dead # 0
Launched == \A o \in Objs : pc[o] # "none"
Live(o)  == pc[o] \in {"run", "posted", "waiting"}

\* sem_post, n times over.
Posted(v, n) == IF v + n > MaxTokens THEN MaxTokens ELSE v + n
Post(p) == sem' = [sem EXCEPT ![p] = Posted(@, 1)]

-----------------------------------------------------------------------------
(* The kernel.                                                             *)

\* syncTslot: a new time slot begins with position 0.
Tick == Post(0) /\ UNCHANGED <<schedVars, objVars, moveVars, late>>

\* create_process, called by the command process while it is not in its signal
\* handler.  SWLOAD launches objects by executable, in any order of position.
Launch(o) ==
  /\ ~Moving /\ pc[o] = "none"
  /\ pid' = [pid EXCEPT ![o] = TRUE]
  /\ sem_idx' = [sem_idx EXCEPT ![o] = exec_position(o)]
  /\ last_semidx' = IF exec_position(o) > last_semidx THEN exec_position(o)
                    ELSE last_semidx
  /\ pc' = [pc EXCEPT ![o] = "run"]
  /\ late' = (late \/ \E q \in Objs : pc[q] = "dead")
  /\ UNCHANGED <<sem, at, moveVars>>

\* sig_chld: the pid is cleared and remove_process is called, which begins at
\* the position after the object's.
\* (mutants: at the object's own position; at the one after its follower's)
FirstOwn(o) == sem_idx[o]
FirstSkipped(o) == sem_idx[o] + 2
FirstMoved(o) == sem_idx[o] + 1

SigChld(o) ==
  /\ ~Moving /\ pid[o] /\ pc[o] = "dead"
  /\ pid' = [pid EXCEPT ![o] = FALSE]
  /\ dead' = o /\ sem_i' = FirstMoved(o)
  /\ UNCHANGED <<sem_idx, last_semidx, sem, objVars, late>>

\* The body of remove_process's loop for one position.  It moves every entry
\* with that position, the ones of dead objects too, and posts for each.
AtPosition(p) == {o \in Objs : sem_idx[o] = p}

\* (mutant: the last position is taken for the number of positions)
ToMoveShort == sem_i < last_semidx
ToMove == sem_i <= last_semidx

Move ==
  /\ Moving /\ ToMove
  /\ sem_idx' = [o \in Objs |-> IF sem_idx[o] = sem_i THEN sem_i - 1 ELSE sem_idx[o]]
  /\ sem' = [sem EXCEPT ![sem_i] = Posted(@, Cardinality(AtPosition(sem_i)))]
  /\ sem_i' = sem_i + 1
  /\ UNCHANGED <<pid, last_semidx, objVars, dead, late>>

MoveEnd ==
  /\ Moving /\ ~ToMove
  /\ last_semidx' = last_semidx - 1
  /\ dead' = 0 /\ sem_i' = 0
  /\ UNCHANGED <<pid, sem_idx, sem, objVars, late>>

-----------------------------------------------------------------------------
(* The objects: hwapi_relinquish.                                          *)

\* The position is read from shared memory once for the post and once for the
\* wait.
\* (mutant: the core is not passed on)
RelinquishKept(o) ==
  /\ pc[o] = "run" /\ pc' = [pc EXCEPT ![o] = "posted"]
  /\ UNCHANGED <<schedVars, sem, at, moveVars, late>>

Relinquish(o) ==
  /\ pc[o] = "run" /\ pc' = [pc EXCEPT ![o] = "posted"]
  /\ Post(sem_idx[o] + 1)
  /\ UNCHANGED <<schedVars, at, moveVars, late>>

WaitTurn(o) ==
  /\ pc[o] = "posted" /\ pc' = [pc EXCEPT ![o] = "waiting"]
  /\ at' = [at EXCEPT ![o] = sem_idx[o]]
  /\ UNCHANGED <<schedVars, sem, moveVars, late>>

\* sem_wait returns.  A semaphore keeps no queue: whichever caller finds a
\* token takes it, one that was woken for it or one that has just come.
Wake(o) ==
  /\ pc[o] = "waiting" /\ sem[at[o]] > 0
  /\ sem' = [sem EXCEPT ![at[o]] = @ - 1]
  /\ pc' = [pc EXCEPT ![o] = "run"] /\ at' = [at EXCEPT ![o] = 0]
  /\ UNCHANGED <<schedVars, moveVars, late>>

\* An object ends or is killed, in any state.
Die(o) ==
  /\ Live(o) /\ (LateLoad \/ Launched)
  /\ pc' = [pc EXCEPT ![o] = "dead"] /\ at' = [at EXCEPT ![o] = 0]
  /\ UNCHANGED <<schedVars, sem, moveVars, late>>

-----------------------------------------------------------------------------
Init ==
  /\ pid = [o \in Objs |-> FALSE] /\ sem_idx = [o \in Objs |-> 0]
  /\ last_semidx = 0
  /\ sem = [p \in Sems |-> 1]
  /\ pc = [o \in Objs |-> "none"] /\ at = [o \in Objs |-> 0]
  /\ dead = 0 /\ sem_i = 0 /\ late = FALSE

Object(o) == Relinquish(o) \/ WaitTurn(o) \/ Wake(o) \/ Die(o)

Next ==
  \/ Tick \/ Move \/ MoveEnd
  \/ \E o \in Objs : Launch(o) \/ SigChld(o) \/ Object(o)

Spec == Init /\ [][Next]_vars

(***************************************************************************)
(* Fairness.  The timer, SWLOAD's launches and the kernel's signal handler *)
(* keep going; an object is scheduled once it may run, and, as its         *)
(* contract with the platform asks, comes to call Relinquish.  A waiting   *)
(* object that finds a token again and again takes one in the end.         *)
(***************************************************************************)
Fairness ==
  /\ WF_vars(Tick) /\ WF_vars(Move) /\ WF_vars(MoveEnd)
  /\ \A o \in Objs :
       /\ WF_vars(Launch(o)) /\ WF_vars(SigChld(o))
       /\ WF_vars(Relinquish(o)) /\ WF_vars(WaitTurn(o)) /\ SF_vars(Wake(o))

FairSpec == Spec /\ Fairness

-----------------------------------------------------------------------------
(* Properties.                                                             *)

\* The type of every variable.
TypeOK ==
  /\ pid \in [Objs -> BOOLEAN] /\ sem_idx \in [Objs -> 0..(N - 1)]
  /\ last_semidx \in Int /\ last_semidx < N
  /\ sem \in [Sems -> 0..MaxTokens]
  /\ pc \in [Objs -> {"none", "run", "posted", "waiting", "dead"}]
  /\ at \in [Objs -> 0..(N - 1)]
  /\ dead \in 0..N /\ sem_i \in 0..N /\ late \in BOOLEAN

\* The objects whose death has not been dealt with.
InSchedule == {o \in Objs : pid[o]}

\* Once every object has been launched, the ones left hold the positions from 0
\* to last_semidx, one each, however many have died and in whatever order the
\* kernel came to know: no position is left without an object to post the next.
\* (An object launched after another's death takes a position that was counted
\* before the others moved down, and leaves a gap.)
PositionsAreDense ==
  Launched /\ ~late /\ ~Moving =>
    /\ \A a, b \in InSchedule : a # b => sem_idx[a] # sem_idx[b]
    /\ {sem_idx[o] : o \in InSchedule} = 0..last_semidx

\* The kernel never lets an object overtake one that HWMAN placed before it,
\* not even half way through a removal: data flows along the positions.
OrderIsKept ==
  Launched /\ ~late => \A a, b \in InSchedule : a < b => sem_idx[a] < sem_idx[b]

\* An object that waits on its own semaphore, with live objects before it that
\* do the same, gets its turn or the chain before it changes.
Misplaced(o) == pc[o] = "waiting" /\ at[o] # sem_idx[o]
InPlace(o) == Live(o) /\ ~Misplaced(o)
Chained(o) ==
  /\ InPlace(o)
  /\ \A p \in 0..(sem_idx[o] - 1) : \E q \in Objs : InPlace(q) /\ sem_idx[q] = p
TurnComes == \A o \in Objs : pc[o] = "waiting" /\ Chained(o) ~> pc[o] = "run" \/ ~Chained(o)

-----------------------------------------------------------------------------
(* What the source says and the code does not do.                          *)

\* "Object goes sleep until the beggining of the next time slot": whatever
\* happens to the other objects, the sleep ends (or the object is killed).
SleepEnds == \A o \in Objs : pc[o] = "waiting" ~> pc[o] # "waiting"
=============================================================================
