---------------------------- MODULE Pipeline_proofs ----------------------------
(***************************************************************************)
(* Proofs about Pipeline, for any number of objects on the core.           *)
(*                                                                         *)
(* While the kernel removes an object the positions are those from 0 to    *)
(* last_semidx but one: the gap.  It starts at the position of the dead    *)
(* object, every Move carries it one position up, and MoveEnd drops it off *)
(* the end.  Schedule says so, and that is what makes the invariants       *)
(* inductive.                                                              *)
(***************************************************************************)
EXTENDS Pipeline, FiniteSetTheorems, TLAPS

NoDeath == \A o \in Objs : pc[o] # "dead"

\* An object that was not launched has no pid; the object being removed is dead
\* and has none any more.
EntriesOK ==
  /\ \A o \in Objs : pc[o] = "none" => ~pid[o]
  /\ Moving => pc[dead] = "dead" /\ ~pid[dead] /\ sem_i >= 1

\* Before the first death everybody has the position HWMAN gave it.
EarlyOK ==
  NoDeath => \A o \in Objs : pc[o] # "none" => /\ pid[o] /\ sem_idx[o] = o - 1
                                               /\ o - 1 <= last_semidx

Gap(p) == Moving /\ p = sem_i - 1

InOrder == \A a, b \in InSchedule : a < b => sem_idx[a] < sem_idx[b]
InUse   == \A o \in InSchedule : sem_idx[o] <= last_semidx /\ ~Gap(sem_idx[o])
AllUsed == \A p \in 0..last_semidx : ~Gap(p) => \E o \in InSchedule : sem_idx[o] = p
GapOK   == Moving => sem_i - 1 <= last_semidx

Schedule == Launched /\ ~late => InOrder /\ InUse /\ AllUsed /\ GapOK

IInv == TypeOK /\ EntriesOK /\ EarlyOK /\ Schedule

-----------------------------------------------------------------------------
\* A post, or several, leave a semaphore a value a semaphore can have.
LEMMA PostedInRange ==
  ASSUME NEW v \in 0..MaxTokens, NEW n \in Nat
  PROVE  Posted(v, n) \in 0..MaxTokens
BY SizeAssumption DEF Posted

\* The entries at a position can be counted.
LEMMA AtPositionCount ==
  ASSUME NEW p PROVE Cardinality(AtPosition(p)) \in Nat
<1>1. IsFiniteSet(Objs)
  BY SizeAssumption, FS_Interval DEF Objs
<1>2. AtPosition(p) \subseteq Objs
  BY DEF AtPosition
<1> QED
  BY <1>1, <1>2, FS_Subset, FS_CardinalityType

\* The invariant holds at the start.
LEMMA InitInv == Init => IInv
<1> SUFFICES ASSUME Init PROVE IInv
  OBVIOUS
<1>1. TypeOK
  <2>1. pid \in [Objs -> BOOLEAN] /\ at \in [Objs -> 0..(N - 1)]
    BY SizeAssumption DEF Init
  <2>2. sem_idx \in [Objs -> 0..(N - 1)] /\ last_semidx \in Int /\ last_semidx < N
    BY SizeAssumption DEF Init
  <2>3. sem \in [Sems -> 0..MaxTokens]
    BY SizeAssumption DEF Init
  <2>4. pc \in [Objs -> {"none", "run", "posted", "waiting", "dead"}]
    BY DEF Init
  <2>5. dead \in 0..N /\ sem_i \in 0..N
    BY SizeAssumption DEF Init
  <2>6. late \in BOOLEAN
    BY Zenon DEF Init
  <2> QED
    BY <2>1, <2>2, <2>3, <2>4, <2>5, <2>6 DEF TypeOK
<1>2. EntriesOK /\ EarlyOK
  BY DEF Init, EntriesOK, EarlyOK, Moving, Objs
<1>3. ~Launched
  BY SizeAssumption DEF Init, Launched, Objs
<1> QED
  BY <1>1, <1>2, <1>3 DEF IInv, Schedule

-----------------------------------------------------------------------------
\* The steps that only post, wait or die leave the schedule alone.
Scheduleless == UNCHANGED <<schedVars, moveVars, late>>

\* Every step keeps the types.
LEMMA TypeInv == IInv /\ [Next]_vars => TypeOK'
<1> SUFFICES ASSUME IInv, [Next]_vars PROVE TypeOK'
  OBVIOUS
<1> USE SizeAssumption
<1>0. TypeOK /\ EntriesOK
  BY DEF IInv
<1>1. CASE Tick
  <2>1. sem' \in [Sems -> 0..MaxTokens]
    BY <1>0, <1>1, PostedInRange DEF Tick, Post, TypeOK, Sems
  <2> QED
    BY <1>0, <1>1, <2>1 DEF Tick, TypeOK, schedVars, objVars, moveVars
<1>2. CASE Move
  <2>1. sem_i \in 1..(N - 1) /\ last_semidx \in Int
    BY <1>0, <1>2 DEF Move, ToMove, EntriesOK, TypeOK
  <2>2. sem' \in [Sems -> 0..MaxTokens]
    BY <1>0, <1>2, <2>1, PostedInRange, AtPositionCount DEF Move, TypeOK, Sems
  <2>3. sem_idx' \in [Objs -> 0..(N - 1)]
    BY <1>0, <1>2, <2>1 DEF Move, TypeOK
  <2>4. sem_i' \in 0..N
    BY <1>2, <2>1 DEF Move
  <2> QED
    BY <1>0, <1>2, <2>2, <2>3, <2>4 DEF Move, TypeOK, objVars
<1>3. CASE MoveEnd
  BY <1>0, <1>3 DEF MoveEnd, TypeOK, objVars
<1>4. ASSUME NEW o \in Objs, Launch(o) PROVE TypeOK'
  <2>1. exec_position(o) \in 0..(N - 1)
    BY DEF exec_position, Objs
  <2> QED
    BY <1>0, <1>4, <2>1 DEF Launch, TypeOK, moveVars
<1>5. ASSUME NEW o \in Objs, SigChld(o) PROVE TypeOK'
  <2>1. sem_idx[o] \in 0..(N - 1) /\ o \in 0..N
    BY <1>0 DEF TypeOK, Objs
  <2> QED
    BY <1>0, <1>5, <2>1 DEF SigChld, FirstMoved, TypeOK, objVars
<1>6. ASSUME NEW o \in Objs, Relinquish(o) PROVE TypeOK'
  <2>1. sem_idx[o] + 1 \in Sems
    BY <1>0 DEF TypeOK, Sems
  <2>2. sem' \in [Sems -> 0..MaxTokens]
    BY <1>0, <1>6, <2>1, PostedInRange DEF Relinquish, Post, TypeOK
  <2> QED
    BY <1>0, <1>6, <2>2 DEF Relinquish, TypeOK, schedVars, moveVars
<1>7. ASSUME NEW o \in Objs, WaitTurn(o) PROVE TypeOK'
  BY <1>0, <1>7 DEF WaitTurn, TypeOK, schedVars, moveVars
<1>8. ASSUME NEW o \in Objs, Wake(o) PROVE TypeOK'
  <2>1. at[o] \in Sems /\ sem[at[o]] \in 0..MaxTokens
    BY <1>0 DEF TypeOK, Sems
  <2>2. sem' \in [Sems -> 0..MaxTokens]
    BY <1>0, <1>8, <2>1 DEF Wake, TypeOK
  <2> QED
    BY <1>0, <1>8, <2>2 DEF Wake, TypeOK, schedVars, moveVars
<1>9. ASSUME NEW o \in Objs, Die(o) PROVE TypeOK'
  BY <1>0, <1>9 DEF Die, TypeOK, schedVars, moveVars
<1>10. CASE UNCHANGED vars
  BY <1>0, <1>10 DEF TypeOK, vars, schedVars, objVars, moveVars
<1> QED
  BY <1>1, <1>2, <1>3, <1>4, <1>5, <1>6, <1>7, <1>8, <1>9, <1>10 DEF Next, Object

\* A step that leaves the schedule alone, and launches nobody, keeps the rest.
LEMMA SchedulelessInv ==
  ASSUME IInv, Scheduleless,
         \A o \in Objs : /\ (pc'[o] = "none") <=> (pc[o] = "none")
                         /\ pc[o] = "dead" => pc'[o] = "dead"
  PROVE  EntriesOK' /\ EarlyOK' /\ Schedule'
<1> USE DEF Scheduleless, schedVars, moveVars
<1>1. EntriesOK'
  <2>1. dead # 0 => dead \in Objs
    BY DEF IInv, TypeOK, Objs
  <2> QED
    BY <2>1 DEF IInv, EntriesOK, Moving
<1>2. EarlyOK'
  BY DEF IInv, EarlyOK, NoDeath
<1>3. (Launched <=> Launched') /\ (InOrder <=> InOrder') /\ (InUse <=> InUse')
  BY DEF Launched, InOrder, InUse, InSchedule, Gap, Moving
<1>4. (AllUsed <=> AllUsed') /\ (GapOK <=> GapOK')
  BY DEF AllUsed, GapOK, InSchedule, Gap, Moving
<1> QED
  BY <1>1, <1>2, <1>3, <1>4 DEF IInv, Schedule

-----------------------------------------------------------------------------
\* A launch: if it is the last one and nobody has died, the positions are the
\* ones HWMAN gave.
LEMMA LaunchInv ==
  ASSUME IInv, NEW o \in Objs, Launch(o), TypeOK'
  PROVE  EntriesOK' /\ EarlyOK' /\ Schedule'
<1> USE SizeAssumption
<1>0. TypeOK /\ EntriesOK /\ EarlyOK
  BY DEF IInv
<1>1. EntriesOK'
  BY <1>0 DEF Launch, EntriesOK, Moving, TypeOK, moveVars
<1>2. EarlyOK'
  <2> SUFFICES ASSUME NoDeath', NEW q \in Objs, pc'[q] # "none"
               PROVE  pid'[q] /\ sem_idx'[q] = q - 1 /\ q - 1 <= last_semidx'
    BY DEF EarlyOK
  <2>1. NoDeath
    BY <1>0 DEF NoDeath, Launch, TypeOK
  <2>2. last_semidx \in Int /\ last_semidx' >= last_semidx /\ last_semidx' >= o - 1
    BY <1>0 DEF Launch, exec_position, TypeOK, Objs
  <2>3. CASE q = o
    BY <1>0, <2>2, <2>3 DEF Launch, exec_position, TypeOK
  <2>4. CASE q # o
    <3>1. pid[q] /\ sem_idx[q] = q - 1 /\ q - 1 <= last_semidx
      BY <1>0, <2>1, <2>4 DEF EarlyOK, Launch, TypeOK
    <3>2. last_semidx' \in Int /\ q \in Int
      BY DEF TypeOK, Objs
    <3>3. q - 1 <= last_semidx'
      BY <2>2, <3>1, <3>2
    <3> QED
      BY <1>0, <2>4, <3>1, <3>3 DEF Launch, TypeOK
  <2> QED
    BY <2>3, <2>4
<1>3. Schedule'
  <2> SUFFICES ASSUME Launched', ~late' PROVE InOrder' /\ InUse' /\ AllUsed' /\ GapOK'
    BY DEF Schedule
  <2>1. NoDeath'
    BY <1>0 DEF NoDeath, Launch, TypeOK
  <2>2. \A q \in Objs : pid'[q] /\ sem_idx'[q] = q - 1 /\ q - 1 <= last_semidx'
    BY <1>2, <2>1 DEF EarlyOK, Launched
  <2>3. ~Moving'
    BY DEF Launch, Moving, moveVars
  <2>4. last_semidx' = N - 1
    <3>1. N \in Objs /\ last_semidx' \in Int /\ last_semidx' < N
      BY DEF Objs, TypeOK
    <3> QED
      BY <2>2, <3>1
  <2>5. AllUsed'
    <3> SUFFICES ASSUME NEW p \in 0..(N - 1) PROVE \E q \in InSchedule' : sem_idx'[q] = p
      BY <2>4 DEF AllUsed
    <3>1. p + 1 \in Objs /\ (p + 1) - 1 = p
      BY DEF Objs
    <3> QED
      BY <2>2, <3>1 DEF InSchedule
  <2>6. InOrder'
    BY <2>2 DEF InOrder, InSchedule, Objs
  <2>7. InUse'
    BY <2>2, <2>3 DEF InUse, InSchedule, Gap
  <2> QED
    BY <2>3, <2>5, <2>6, <2>7 DEF GapOK
<1> QED
  BY <1>1, <1>2, <1>3

\* The removal begins with a gap where the dead object was.
LEMMA SigChldInv ==
  ASSUME IInv, NEW o \in Objs, SigChld(o), TypeOK'
  PROVE  EntriesOK' /\ EarlyOK' /\ Schedule'
<1> USE SizeAssumption
<1>0. TypeOK /\ EntriesOK /\ EarlyOK
  BY DEF IInv
<1>a. /\ pc' = pc /\ sem_idx' = sem_idx /\ last_semidx' = last_semidx /\ late' = late
      /\ dead' = o /\ sem_i' = sem_idx[o] + 1 /\ ~Moving /\ pid[o] /\ pc[o] = "dead"
  BY DEF SigChld, FirstMoved, objVars
<1>b. InSchedule' = InSchedule \ {o} /\ o \in InSchedule
  BY <1>0, <1>a DEF SigChld, InSchedule, TypeOK
<1>c. sem_idx \in [Objs -> 0..(N - 1)] /\ last_semidx \in Int /\ o # 0
  BY <1>0 DEF TypeOK, Objs
<1>1. EntriesOK'
  BY <1>0, <1>a, <1>c DEF SigChld, EntriesOK, Moving, TypeOK
<1>2. EarlyOK'
  BY <1>a DEF EarlyOK, NoDeath
<1>3. Schedule'
  <2> SUFFICES ASSUME Launched', ~late' PROVE InOrder' /\ InUse' /\ AllUsed' /\ GapOK'
    BY DEF Schedule
  <2>1. InOrder /\ InUse /\ AllUsed
    BY <1>a DEF IInv, Schedule, Launched
  <2>2. \A p : Gap(p)' <=> p = sem_idx[o]
    BY <1>a, <1>c DEF Gap, Moving
  <2>3. InOrder'
    BY <1>a, <1>b, <2>1 DEF InOrder
  <2>4. InUse'
    <3> SUFFICES ASSUME NEW q \in InSchedule, q # o
                 PROVE  sem_idx[q] <= last_semidx /\ sem_idx[q] # sem_idx[o]
      BY <1>a, <1>b, <2>2 DEF InUse
    <3>1. q \in Objs /\ q \in Int /\ o \in Int
      BY DEF InSchedule, Objs
    <3>2. sem_idx[q] < sem_idx[o] \/ sem_idx[o] < sem_idx[q]
      BY <1>b, <2>1, <3>1 DEF InOrder
    <3> QED
      BY <1>c, <2>1, <3>1, <3>2 DEF InUse
  <2>5. AllUsed'
    <3> SUFFICES ASSUME NEW p \in 0..last_semidx, p # sem_idx[o]
                 PROVE  \E q \in InSchedule \ {o} : sem_idx[q] = p
      BY <1>a, <1>b, <2>2 DEF AllUsed
    <3> QED
      BY <1>a, <2>1 DEF AllUsed, Gap
  <2>6. GapOK'
    BY <1>a, <1>b, <1>c, <2>1 DEF GapOK, InUse
  <2> QED
    BY <2>3, <2>4, <2>5, <2>6
<1> QED
  BY <1>1, <1>2, <1>3

\* One position is moved, and the gap with it.
LEMMA MoveInv ==
  ASSUME IInv, Move, TypeOK'
  PROVE  EntriesOK' /\ EarlyOK' /\ Schedule'
<1> USE SizeAssumption
<1>0. TypeOK /\ EntriesOK /\ EarlyOK
  BY DEF IInv
<1>a. /\ pc' = pc /\ pid' = pid /\ last_semidx' = last_semidx /\ late' = late
      /\ dead' = dead /\ sem_i' = sem_i + 1 /\ Moving /\ sem_i <= last_semidx
  BY DEF Move, ToMove, objVars
<1>b. InSchedule' = InSchedule /\ InSchedule \subseteq Objs
  BY <1>a DEF InSchedule
<1>c. /\ sem_idx \in [Objs -> 0..(N - 1)] /\ last_semidx \in Int
      /\ dead \in Objs /\ sem_i \in Int /\ sem_i >= 1
  BY <1>0, <1>a DEF TypeOK, EntriesOK, Moving, Objs
<1>d. \A q \in Objs : sem_idx'[q] = IF sem_idx[q] = sem_i THEN sem_i - 1 ELSE sem_idx[q]
  BY DEF Move
<1>1. EntriesOK'
  BY <1>0, <1>a, <1>c DEF EntriesOK, Moving
<1>2. EarlyOK'
  <2>1. ~NoDeath'
    BY <1>0, <1>a, <1>c DEF EntriesOK, NoDeath
  <2> QED
    BY <2>1 DEF EarlyOK
<1>3. Schedule'
  <2> SUFFICES ASSUME Launched', ~late' PROVE InOrder' /\ InUse' /\ AllUsed' /\ GapOK'
    BY DEF Schedule
  <2>1. InOrder /\ InUse /\ AllUsed
    BY <1>a DEF IInv, Schedule, Launched
  <2>2. \A p : Gap(p)' <=> p = sem_i
    BY <1>a, <1>c DEF Gap, Moving
  <2>3. \A q \in InSchedule : sem_idx[q] <= last_semidx /\ sem_idx[q] # sem_i - 1
    BY <1>a, <2>1 DEF InUse, Gap
  <2>4. InOrder'
    <3> SUFFICES ASSUME NEW a \in InSchedule, NEW b \in InSchedule, a < b
                 PROVE  sem_idx'[a] < sem_idx'[b]
      BY <1>b DEF InOrder
    <3>1. sem_idx[a] \in Int /\ sem_idx[b] \in Int /\ sem_idx[a] < sem_idx[b]
      BY <1>b, <1>c, <2>1 DEF InOrder
    <3>2. sem_idx[a] # sem_i - 1 /\ sem_idx[b] # sem_i - 1
      BY <2>3
    <3>3. /\ sem_idx'[a] = IF sem_idx[a] = sem_i THEN sem_i - 1 ELSE sem_idx[a]
          /\ sem_idx'[b] = IF sem_idx[b] = sem_i THEN sem_i - 1 ELSE sem_idx[b]
      BY <1>b, <1>d
    <3> QED
      BY <1>c, <3>1, <3>2, <3>3
  <2>5. InUse'
    <3> SUFFICES ASSUME NEW q \in InSchedule
                 PROVE  sem_idx'[q] <= last_semidx /\ sem_idx'[q] # sem_i
      BY <1>a, <1>b, <2>2 DEF InUse
    <3>1. sem_idx[q] \in Int /\ sem_idx[q] <= last_semidx
      BY <1>b, <1>c, <2>3
    <3>2. sem_idx'[q] = IF sem_idx[q] = sem_i THEN sem_i - 1 ELSE sem_idx[q]
      BY <1>b, <1>d
    <3> QED
      BY <1>a, <1>c, <3>1, <3>2
  <2>6. AllUsed'
    <3> SUFFICES ASSUME NEW p \in 0..last_semidx, p # sem_i
                 PROVE  \E q \in InSchedule : sem_idx'[q] = p
      BY <1>a, <1>b, <2>2 DEF AllUsed
    <3>1. CASE p = sem_i - 1
      <4>1. sem_i \in 0..last_semidx /\ ~Gap(sem_i)
        BY <1>a, <1>c DEF Gap
      <4>2. PICK q \in InSchedule : sem_idx[q] = sem_i
        BY <2>1, <4>1 DEF AllUsed
      <4> QED
        BY <1>b, <1>d, <3>1, <4>2
    <3>2. CASE p # sem_i - 1
      <4>1. PICK q \in InSchedule : sem_idx[q] = p
        BY <2>1, <3>2 DEF AllUsed, Gap
      <4> QED
        BY <1>b, <1>d, <4>1
    <3> QED
      BY <3>1, <3>2
  <2>7. GapOK'
    BY <1>a, <1>c DEF GapOK
  <2> QED
    BY <2>4, <2>5, <2>6, <2>7
<1> QED
  BY <1>1, <1>2, <1>3

\* The gap has reached the end and is dropped.
LEMMA MoveEndInv ==
  ASSUME IInv, MoveEnd
  PROVE  EntriesOK' /\ EarlyOK' /\ Schedule'
<1> USE SizeAssumption
<1>0. TypeOK /\ EntriesOK /\ EarlyOK
  BY DEF IInv
<1>a. /\ pc' = pc /\ pid' = pid /\ last_semidx' = last_semidx - 1 /\ late' = late
      /\ sem_idx' = sem_idx /\ ~Moving' /\ Moving /\ ~(sem_i <= last_semidx)
  BY DEF MoveEnd, ToMove, Moving, objVars
<1>b. InSchedule' = InSchedule /\ InSchedule \subseteq Objs
  BY <1>a DEF InSchedule
<1>c. sem_idx \in [Objs -> 0..(N - 1)] /\ last_semidx \in Int /\ dead \in Objs /\ sem_i \in Int
  BY <1>0, <1>a DEF TypeOK, Moving, Objs
<1>1. EntriesOK'
  BY <1>0, <1>a DEF EntriesOK
<1>2. EarlyOK'
  <2>1. ~NoDeath'
    BY <1>0, <1>a, <1>c DEF EntriesOK, NoDeath
  <2> QED
    BY <2>1 DEF EarlyOK
<1>3. Schedule'
  <2> SUFFICES ASSUME Launched', ~late' PROVE InOrder' /\ InUse' /\ AllUsed' /\ GapOK'
    BY DEF Schedule
  <2>1. InOrder /\ InUse /\ AllUsed /\ GapOK
    BY <1>a DEF IInv, Schedule, Launched
  <2>2. sem_i - 1 = last_semidx
    BY <1>a, <1>c, <2>1 DEF GapOK
  <2>3. InOrder'
    BY <1>a, <1>b, <2>1 DEF InOrder
  <2>4. InUse'
    <3> SUFFICES ASSUME NEW q \in InSchedule PROVE sem_idx[q] <= last_semidx - 1
      BY <1>a, <1>b DEF InUse, Gap
    <3>1. sem_idx[q] \in Int /\ sem_idx[q] <= last_semidx /\ sem_idx[q] # sem_i - 1
      BY <1>a, <1>b, <1>c, <2>1 DEF InUse, Gap
    <3> QED
      BY <1>c, <2>2, <3>1
  <2>5. AllUsed'
    <3> SUFFICES ASSUME NEW p \in 0..(last_semidx - 1) PROVE \E q \in InSchedule : sem_idx[q] = p
      BY <1>a, <1>b DEF AllUsed
    <3>1. p \in 0..last_semidx /\ ~Gap(p)
      BY <1>c, <2>2 DEF Gap
    <3> QED
      BY <2>1, <3>1 DEF AllUsed
  <2>6. GapOK'
    BY <1>a DEF GapOK
  <2> QED
    BY <2>3, <2>4, <2>5, <2>6
<1> QED
  BY <1>1, <1>2, <1>3

-----------------------------------------------------------------------------
\* Every step keeps the invariant.
LEMMA NextInv == IInv /\ [Next]_vars => IInv'
<1> SUFFICES ASSUME IInv, [Next]_vars PROVE EntriesOK' /\ EarlyOK' /\ Schedule'
  BY TypeInv DEF IInv
<1>0. TypeOK /\ TypeOK'
  BY TypeInv DEF IInv
<1>1. CASE Tick
  BY <1>1, SchedulelessInv DEF Tick, Scheduleless, objVars
<1>2. CASE Move
  BY <1>0, <1>2, MoveInv
<1>3. CASE MoveEnd
  BY <1>3, MoveEndInv
<1>4. ASSUME NEW o \in Objs, Launch(o) PROVE EntriesOK' /\ EarlyOK' /\ Schedule'
  BY <1>0, <1>4, LaunchInv
<1>5. ASSUME NEW o \in Objs, SigChld(o) PROVE EntriesOK' /\ EarlyOK' /\ Schedule'
  BY <1>0, <1>5, SigChldInv
<1>6. ASSUME NEW o \in Objs, Relinquish(o) \/ WaitTurn(o) \/ Wake(o) \/ Die(o)
      PROVE  EntriesOK' /\ EarlyOK' /\ Schedule'
  <2>1. Scheduleless
    BY <1>6 DEF Relinquish, WaitTurn, Wake, Die, Scheduleless
  <2>2. \A q \in Objs : /\ (pc'[q] = "none") <=> (pc[q] = "none")
                        /\ pc[q] = "dead" => pc'[q] = "dead"
    BY <1>0, <1>6 DEF Relinquish, WaitTurn, Wake, Die, Live, TypeOK
  <2> QED
    BY <2>1, <2>2, SchedulelessInv
<1>7. CASE UNCHANGED vars
  BY <1>7, SchedulelessInv DEF vars, Scheduleless, objVars
<1> QED
  BY <1>1, <1>2, <1>3, <1>4, <1>5, <1>6, <1>7 DEF Next, Object

\* The inductive invariant of the pipeline (remove_process keeps exactly one
\* gap, and moves it upwards).
THEOREM SpecIInv == Spec => []IInv
<1> QED
  BY InitInv, NextInv, PTL DEF Spec

\* Every variable keeps its type: no object reads a semaphore below the array
\* (sem_idx in create_process and remove_process).
THEOREM TypeCorrect == Spec => []TypeOK
<1>1. IInv => TypeOK
  BY DEF IInv
<1> QED
  BY <1>1, SpecIInv, PTL

\* The objects left hold the positions from 0 to last_semidx, one each
\* (remove_process).
THEOREM PositionsStayDense == Spec => []PositionsAreDense
<1>1. IInv => PositionsAreDense
  <2> SUFFICES ASSUME IInv, Launched, ~late, ~Moving
               PROVE  /\ \A a, b \in InSchedule : a # b => sem_idx[a] # sem_idx[b]
                      /\ {sem_idx[o] : o \in InSchedule} = 0..last_semidx
    BY DEF PositionsAreDense
  <2>1. InOrder /\ InUse /\ AllUsed /\ TypeOK
    BY DEF IInv, Schedule
  <2>2. \A o \in InSchedule : o \in Int /\ sem_idx[o] \in Int /\ sem_idx[o] >= 0
    BY <2>1 DEF InSchedule, TypeOK, Objs
  <2>3. ASSUME NEW a \in InSchedule, NEW b \in InSchedule, a # b
        PROVE  sem_idx[a] # sem_idx[b]
    <3>1. a < b \/ b < a
      BY <2>2, <2>3
    <3> QED
      BY <2>1, <2>2, <3>1 DEF InOrder
  <2>4. \A o \in InSchedule : sem_idx[o] \in 0..last_semidx
    BY <2>1, <2>2 DEF InUse, TypeOK
  <2>5. \A p \in 0..last_semidx : \E o \in InSchedule : sem_idx[o] = p
    BY <2>1 DEF AllUsed, Gap
  <2> QED
    BY <2>3, <2>4, <2>5
<1> QED
  BY <1>1, SpecIInv, PTL

\* No object overtakes another, not even half way through a removal
\* (remove_process).
THEOREM OrderStays == Spec => []OrderIsKept
<1>1. IInv => OrderIsKept
  BY DEF IInv, Schedule, InOrder, OrderIsKept
<1> QED
  BY <1>1, SpecIInv, PTL
=============================================================================
