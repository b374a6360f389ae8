-------------------------------- MODULE Vars --------------------------------
(***************************************************************************)
(* The shared variables of a PE, and what they are used for: an object     *)
(* asks STATS for something by creating a variable whose option says what, *)
(* STATS finds it there in its next round over all variables, has STATSMAN *)
(* answer, and writes the answer into the option, which the object waits   *)
(* for.                                                                    *)
(*                                                                         *)
(* Creating and deleting are protected by the semaphore sem_var; reading   *)
(* an entry and writing its option are not.  The values of variables are   *)
(* left out.                                                               *)
(***************************************************************************)
EXTENDS Mem, Sequences

CONSTANTS
  Objs,        \* the objects
  MaxVars,     \* how many variables there can be
  Sizes,       \* the sizes that a variable for each request may have: InitStat warns
               \* of 0 and goes on
  MaxCalls,    \* how many calls they make at most
  MaxFaults    \* how many of them are killed or lose patience at most

\* What a variable can be created for, and the answers to wait for.
Inits  == {"STINIT", "PMINIT", "PMGET", "LOGINIT"}
Ok  == [STINIT |-> "STOK",  PMINIT |-> "PMINITOK",  PMGET |-> "PMVALOK",  LOGINIT |-> "LOGINITOK"]
Err == [STINIT |-> "STERR", PMINIT |-> "PMINITERR", PMGET |-> "PMVALERR", LOGINIT |-> "LOGINITERR"]
Closes   == {"STCLOSE", "PMCLOSE", "LOGCLOSE"}
Creates  == Inits \cup {"PMCLOSE"}
Requests == Inits \cup Closes \cup {"LOGWRITE"}
Answers  == {Ok[r] : r \in Inits} \cup {Err[r] : r \in Inits}
Options  == Requests \cup Answers \cup {"LOGFLUSHED", "none"}

Places   == {"run", "alloc", "entry", "fill", "wait", "drop", "free", "clear", "dead"}

Ids == 1..MaxVars
Nobody == 0          \* no variable

ASSUME VarsAssumption ==
  /\ MaxVars \in Nat \ {0} /\ MaxCalls \in Nat /\ MaxFaults \in Nat
  /\ Sizes \in [Creates -> SUBSET Nat]

VARIABLES
  live,      \* the entries of var_db: is it in use (stat_id is not 0) ...
  opts,      \* ... its option ...
  offset,    \* ... and the offset of its memory
  sem,       \* the objects inside the section of sem_var: one at most
  pc,        \* where each object is in a call
  req,       \* the request of the call ...
  id,        \* ... its variable ...
  off,       \* ... and the memory that it has got, or gives back
  stat,      \* the variable of the object's stat, and of its log
  log,
  params,    \* has the object got its parameter file (params_initiated)
  calls,     \* how many calls the objects have made
  stats,     \* where the round of STATS is: the entry, and the request found there
  toman,     \* the requests on their way to STATSMAN
  tostats,   \* the answers on their way back
  faults,
  closed,    \* history: the variables whose owner has asked for their end
  leaked,    \* history: the memory that was taken when there was no entry left
  strayed,   \* history: STATS has served or answered another request than it read
  empty      \* history: a variable has been given a chunk without a slot

var_db  == <<live, opts, offset>>
call    == <<pc, req, id, off>>
owns    == <<stat, log, params>>
daemons == <<stats, toman, tostats>>
history == <<closed, leaked, strayed, empty>>
vars == <<mem, var_db, sem, call, owns, calls, daemons, faults, history>>

Init ==
  /\ MemInit
  /\ live = [i \in Ids |-> FALSE]
  /\ opts = [i \in Ids |-> "none"]
  /\ offset = [i \in Ids |-> NoMem]
  /\ sem = {}
  /\ pc = [o \in Objs |-> "run"] /\ req = [o \in Objs |-> "none"]
  /\ id = [o \in Objs |-> Nobody] /\ off = [o \in Objs |-> NoMem]
  /\ stat = [o \in Objs |-> Nobody] /\ log = [o \in Objs |-> Nobody]
  /\ params = [o \in Objs |-> FALSE]
  /\ stats = [at |-> 0, req |-> "none"] /\ toman = <<>> /\ tostats = <<>>
  /\ calls = 0 /\ faults = 0 /\ closed = {} /\ leaked = {} /\ strayed = FALSE /\ empty = FALSE

Fault == faults < MaxFaults /\ faults' = faults + 1
Calls(o) == pc[o] = "run" /\ calls < MaxCalls /\ calls' = calls + 1

\* The object o is at p in its call; the call begins; the call is over.
GoesTo(o, p) == pc' = [pc EXCEPT ![o] = p] /\ UNCHANGED <<req, id, off>>
Begins(o, p, r, i, m) ==
  /\ pc' = [pc EXCEPT ![o] = p] /\ req' = [req EXCEPT ![o] = r]
  /\ id' = [id EXCEPT ![o] = i] /\ off' = [off EXCEPT ![o] = m]
Returns(o) == Begins(o, "run", "none", Nobody, NoMem)

SetOpt(i, opt) == opts' = [opts EXCEPT ![i] = opt] /\ UNCHANGED <<live, offset>>

-----------------------------------------------------------------------------
(* The object's side: phal_services, hwapi_var.                            *)

\* What each call needs: InitStat, InitParamFile, GetParam, CloseParamFile,
\* CreateLog.
Permits(o, r) ==
  CASE r = "STINIT" -> stat[o] = Nobody
    [] r = "PMINIT" -> ~params[o]
    [] r \in {"PMGET", "PMCLOSE"} -> params[o]
    [] r = "LOGINIT" -> log[o] = Nobody

FirstEntry(i) == ~live[i] /\ \A k \in 1..(i - 1) : live[k]

\* hwapi_var_create2: the semaphore, then the memory, which is not given back if
\* there is no entry left, then the entry, which is in use before it is filled.
Create(o, r) ==
  /\ Calls(o) /\ Permits(o, r) /\ sem = {}
  /\ sem' = {o} /\ Begins(o, "alloc", r, Nobody, NoMem)
  /\ UNCHANGED <<mem, var_db, owns, daemons, faults, history>>

Allocate(o) ==
  /\ pc[o] = "alloc"
  /\ \E n \in Sizes[req[o]], m \in Slots \cup {NofSlots, NoMem} :
       /\ Alloc(n, m)
       /\ Begins(o, "entry", req[o], Nobody, m)
       /\ empty' = (empty \/ (GetsNothing(n) /\ m # NoMem))
  /\ UNCHANGED <<var_db, sem, owns, calls, daemons, faults, closed, leaked, strayed>>

Enter(o) ==
  /\ pc[o] = "entry"
  /\ \/ \E i \in Ids :
          /\ FirstEntry(i)
          /\ live' = [live EXCEPT ![i] = TRUE]
          /\ Begins(o, "fill", req[o], i, off[o])
          /\ UNCHANGED <<sem, leaked>>
     \/ /\ \A i \in Ids : live[i]
        /\ leaked' = (leaked \cup {off[o]}) \ {NoMem}
        /\ sem' = sem \ {o} /\ Returns(o)
        /\ UNCHANGED live
  /\ UNCHANGED <<mem, opts, offset, owns, calls, daemons, faults, closed, strayed, empty>>

\* Nobody waits for the end of PMCLOSE.
Fill(o) ==
  /\ pc[o] = "fill"
  /\ opts' = [opts EXCEPT ![id[o]] = req[o]]
  /\ offset' = [offset EXCEPT ![id[o]] = off[o]]
  /\ sem' = sem \ {o}
  /\ \/ /\ req[o] = "PMCLOSE" /\ Returns(o)
        /\ closed' = closed \cup {id[o]}
        /\ params' = [params EXCEPT ![o] = FALSE]
     \/ /\ req[o] # "PMCLOSE" /\ GoesTo(o, "wait")
        /\ UNCHANGED <<closed, params>>
  /\ UNCHANGED <<mem, live, stat, log, calls, daemons, faults, leaked, strayed, empty>>

\* The loop on hwapi_var_getopt ends.  A variable for parameters is deleted with
\* every answer, the others if the answer is an error.
Ready(o) ==
  LET opt == opts[id[o]] IN
  /\ pc[o] = "wait"
  /\ \/ /\ req[o] = "STINIT" /\ opt = "STOK"
        /\ stat' = [stat EXCEPT ![o] = id[o]] /\ Returns(o)
        /\ UNCHANGED <<log, params>>
     \/ /\ req[o] = "LOGINIT" /\ opt = "LOGINITOK"
        /\ log' = [log EXCEPT ![o] = id[o]] /\ Returns(o)
        /\ UNCHANGED <<stat, params>>
     \/ /\ opt = Err[req[o]] \/ (opt = Ok[req[o]] /\ req[o] \in {"PMINIT", "PMGET"})
        /\ params' = [params EXCEPT ![o] = @ \/ opt = "PMINITOK"]
        /\ GoesTo(o, "drop") /\ UNCHANGED <<stat, log>>
  /\ UNCHANGED <<mem, var_db, sem, calls, daemons, faults, history>>

\* InitStat waits for a thousand slots; the others for ever.
Timeout(o) ==
  /\ pc[o] = "wait" /\ req[o] = "STINIT" /\ Fault
  /\ GoesTo(o, "drop")
  /\ UNCHANGED <<mem, var_db, sem, owns, calls, daemons, history>>

\* hwapi_var_delete: the semaphore, then the memory, then the entry.  Whether the
\* entry is in use is not looked at.
Drop(o) ==
  /\ pc[o] = "drop" /\ sem = {}
  /\ sem' = {o} /\ Begins(o, "free", req[o], id[o], offset[id[o]])
  /\ UNCHANGED <<mem, var_db, owns, calls, daemons, faults, history>>

GiveBack(o) ==
  /\ pc[o] = "free"
  /\ MemFree(off[o])
  /\ Begins(o, "clear", req[o], id[o], NoMem)
  /\ UNCHANGED <<var_db, sem, owns, calls, daemons, faults, history>>

Clear(o) ==
  /\ pc[o] = "clear"
  /\ live' = [live EXCEPT ![id[o]] = FALSE]
  /\ closed' = closed \ {id[o]}
  /\ sem' = sem \ {o} /\ Returns(o)
  /\ UNCHANGED <<mem, opts, offset, owns, calls, daemons, faults, leaked, strayed, empty>>

\* CloseStat and CloseLog leave the deletion to STATS; flush_logs hands it the lines.
CloseStat(o) ==
  /\ Calls(o) /\ stat[o] # Nobody
  /\ SetOpt(stat[o], "STCLOSE") /\ closed' = closed \cup {stat[o]}
  /\ stat' = [stat EXCEPT ![o] = Nobody]
  /\ UNCHANGED <<mem, sem, call, log, params, daemons, faults, leaked, strayed, empty>>

CloseLog(o) ==
  /\ Calls(o) /\ log[o] # Nobody
  /\ SetOpt(log[o], "LOGCLOSE") /\ closed' = closed \cup {log[o]}
  /\ log' = [log EXCEPT ![o] = Nobody]
  /\ UNCHANGED <<mem, sem, call, stat, params, daemons, faults, leaked, strayed, empty>>

FlushLogs(o) ==
  /\ Calls(o) /\ log[o] # Nobody
  /\ SetOpt(log[o], "LOGWRITE")
  /\ UNCHANGED <<mem, sem, call, owns, daemons, faults, history>>

\* EXEC kills the object, wherever it is; the semaphore and what is half done stay
\* as they are.
Kill(o) ==
  /\ pc[o] # "dead" /\ Fault
  /\ GoesTo(o, "dead")
  /\ UNCHANGED <<mem, var_db, sem, owns, calls, daemons, history>>

-----------------------------------------------------------------------------
(* STATS takes all answers there are, then goes through the variables.     *)

objects == <<sem, call, owns, calls, faults>>

\* (mutant: the round goes one entry too far)
NextTooFar == [at |-> IF stats.at > MaxVars THEN 0 ELSE stats.at + 1, req |-> "none"]
NextEntry == [at |-> IF stats.at = MaxVars THEN 0 ELSE stats.at + 1, req |-> "none"]

\* stats_incmd_initack and stats_incmd_pmval take every kind of answer.
\* (mutant: not the one that there is no such parameter)
HeardValues(opt) == opt # "PMVALERR"
Heard(opt) == opt \in Answers

Answer ==
  LET m == Head(tostats) IN
  /\ stats.at = 0 /\ tostats # <<>>
  /\ tostats' = Tail(tostats)
  /\ IF Heard(m.opt) THEN SetOpt(m.id, m.opt) ELSE UNCHANGED var_db
  /\ strayed' = (strayed \/ (live[m.id] /\ opts[m.id] # "none"))
  /\ UNCHANGED <<mem, objects, stats, toman, closed, leaked, empty>>

\* stats_background, for one entry: something is to be done for it, or nothing.
\* Before the first entry it is the round that begins.
Wanted == stats.at # 0 /\ live[stats.at] /\ opts[stats.at] \in Requests
Look ==
  /\ stats.req = "none"
  /\ stats.at = 0 => tostats = <<>>
  /\ stats' = IF Wanted THEN [at |-> stats.at, req |-> opts[stats.at]] ELSE NextEntry
  /\ UNCHANGED <<mem, var_db, objects, toman, tostats, history>>

\* stats_stinit, _pminit, _pmget and _loginit; the first two inside the section.
\* stats_stinit understands only the name of a stat, and only the types that STATS
\* knows.
Inside(r) == r \in {"STINIT", "PMINIT"}

Serve ==
  LET i == stats.at
      r == stats.req
  IN /\ r \in Inits /\ (Inside(r) => sem = {})
     /\ \/ ~live[i] /\ UNCHANGED <<var_db, toman>>
        \/ /\ live[i] /\ (opts[i] # r \/ r = "STINIT")
           /\ SetOpt(i, "STERR") /\ UNCHANGED toman
        \/ live[i] /\ opts[i] = r /\ SetOpt(i, "none")
           /\ toman' = Append(toman, [id |-> i, req |-> r])
     /\ strayed' = (strayed \/ (live[i] /\ opts[i] # r))
     /\ stats' = NextEntry
     /\ UNCHANGED <<mem, objects, tostats, closed, leaked, empty>>

\* hwapi_var_delete once more: nobody kills STATS inside it.
Delete(i) ==
  /\ MemFree(offset[i])
  /\ live' = [live EXCEPT ![i] = FALSE]
  /\ UNCHANGED <<opts, offset>>

\* stats_stclose, _pmclose and _logclose: STATSMAN does not answer.  The id is
\* read before the section is entered, and is 0 by then if the variable is gone.
Close ==
  LET i == stats.at IN
  /\ stats.req \in Closes /\ sem = {}
  /\ \/ /\ Delete(i)
        /\ closed' = closed \ {i}
        /\ strayed' = (strayed \/ i \notin closed)
     \/ ~live[i] /\ UNCHANGED <<mem, var_db, closed, strayed>>
  /\ stats' = NextEntry
  /\ UNCHANGED <<objects, toman, tostats, leaked, empty>>

\* stats_logwrite: the lines are read and sent, and then marked as flushed.
LogRead ==
  /\ stats.req = "LOGWRITE"
  /\ stats' = [at |-> stats.at, req |-> "LOGFLUSHED"]
  /\ UNCHANGED <<mem, var_db, objects, toman, tostats, history>>

LogFlushed ==
  /\ stats.req = "LOGFLUSHED"
  /\ SetOpt(stats.at, "LOGFLUSHED")
  /\ strayed' = (strayed \/ opts[stats.at] # "LOGWRITE")
  /\ stats' = NextEntry
  /\ UNCHANGED <<mem, objects, toman, tostats, closed, leaked, empty>>

Stats == Answer \/ Look \/ Serve \/ Close \/ LogRead \/ LogFlushed

\* STATSMAN: a parameter or a file may be missing or wrong.
Statsman ==
  LET m == Head(toman) IN
  /\ toman # <<>>
  /\ toman' = Tail(toman)
  /\ \/ tostats' = Append(tostats, [id |-> m.id, opt |-> Ok[m.req]])
     \/ m.req # "STINIT" /\ tostats' = Append(tostats, [id |-> m.id, opt |-> Err[m.req]])
  /\ UNCHANGED <<mem, var_db, objects, stats, history>>

-----------------------------------------------------------------------------
GoesOn(o) == \/ Allocate(o) \/ Enter(o) \/ Fill(o) \/ Ready(o)
             \/ Drop(o) \/ GiveBack(o) \/ Clear(o)
CallsMade(o) == \/ \E r \in Creates : Create(o, r)
                \/ CloseStat(o) \/ CloseLog(o) \/ FlushLogs(o)

Next == \/ Stats \/ Statsman
        \/ \E o \in Objs : GoesOn(o) \/ CallsMade(o) \/ Timeout(o) \/ Kill(o)

Spec == Init /\ [][Next]_vars

\* STATS goes round for ever, STATSMAN reads its packets, and an object goes on
\* with the call it is in; nothing makes it call, lose patience or die.
FairSpec == Spec /\ WF_vars(Stats) /\ WF_vars(Statsman) /\ \A o \in Objs : WF_vars(GoesOn(o))

-----------------------------------------------------------------------------
\* The type of every variable.
TypeOK ==
  /\ MemTypeOK
  /\ live \in [Ids -> BOOLEAN] /\ opts \in [Ids -> Options]
  /\ offset \in [Ids -> 0..NofSlots \cup {NoMem}]
  /\ sem \subseteq Objs
  /\ pc \in [Objs -> Places]
  /\ req \in [Objs -> Creates \cup {"none"}]
  /\ id \in [Objs -> 0..MaxVars] /\ off \in [Objs -> 0..NofSlots \cup {NoMem}]
  /\ stat \in [Objs -> 0..MaxVars] /\ log \in [Objs -> 0..MaxVars]
  /\ params \in [Objs -> BOOLEAN]
  /\ stats \in [at : 0..MaxVars, req : Requests \cup {"none", "LOGFLUSHED"}]
  /\ toman \in Seq([id : Ids, req : Inits]) /\ tostats \in Seq([id : Ids, opt : Answers])
  /\ calls \in 0..MaxCalls /\ faults \in 0..MaxFaults
  /\ closed \subseteq Ids /\ leaked \subseteq 0..NofSlots /\ strayed \in BOOLEAN /\ empty \in BOOLEAN

\* Every variable has memory of its own, unless there was none when it was
\* created, and all memory that is taken is a variable's, but for what was taken
\* when there was no entry left, or what somebody has in hand who is, or was killed,
\* creating or deleting a variable; the allocator's tables agree.  Objects and STATS
\* delete variables by ids that others may have got since, which goes wrong once
\* STATS has strayed; and a chunk without a slot has the offset of another chunk,
\* which is then freed in its place.
Filled(i) == live[i] /\ (\A o \in sem : id[o] # i)
HasMem(i) == Filled(i) /\ offset[i] # NoMem
VarMem == {offset[i] : i \in {k \in Ids : HasMem(k)}}
NewMem == {off[o] : o \in sem} \ {NoMem}
OwnMemory ==
  /\ Books
  /\ ~strayed /\ ~empty =>
       /\ \A i, k \in Ids : HasMem(i) /\ HasMem(k) /\ offset[i] = offset[k] => i = k
       /\ VarMem \cap NewMem = {} /\ VarMem \cap leaked = {} /\ NewMem \cap leaked = {}
       /\ Held = VarMem \cup NewMem \cup leaked

\* What an object has asked for is done in the end: it gets an answer, or the
\* variable it has closed is deleted; unless STATS has once mistaken one request
\* for another, or an object was killed while it was creating or deleting one.
Waits(i) == \E o \in Objs : pc[o] = "wait" /\ id[o] = i
Pending(i) == Waits(i) \/ i \in closed
Stuck == \E o \in sem : pc[o] = "dead"
Served == \A i \in Ids : Pending(i) ~> ~Pending(i) \/ strayed \/ Stuck
=============================================================================
