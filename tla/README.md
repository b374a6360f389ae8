# Verification of the ALOE run-time

ALOE runs software-radio waveforms: an application is a graph of *objects*
(processes) joined by data *interfaces* (packet queues), mapped onto the cores of
several processing elements (*PEs*).  Time is cut into time slots; in each slot
every object runs once, in the order of its position on its core.  The objects
are written against the SW API (`sw_api`), which rests on the HW API
(`hw_api/lnx`, System V shared memory, queues and semaphores plus a kernel
process), and are managed by a set of daemons (`sw_daemons`).

This directory models the parts where processes interact: what a unit test of one
function cannot reach.  All paths below are relative to the repository.

## 1. Inventory

### The parts, their state and what makes them correct

| Part | State | Operations | Correct when |
|---|---|---|---|
| **Object status protocol** `hwapi_linux_proc.c`, `exec_cmds.c`, `phal_services.c`, `hwapi_backd_signals.c` | `proc_db[]` (pid, obj_id, status.cur/next, next_tstamp, change_progress), `max_proc_id`; EXEC's copy of it | create, status_new / status_get / status_ack, remove; EXEC's `exec_background` scan; ClosePHAL; `sig_chld` | a change is entered in its time slot, confirmed only if made, ends in a bounded time; a death is noticed, reported once, and its entry freed |
| **Execution pipeline** `hwapi_linux_base.c`, `hwapi_backd_processes.c`, `hwapi_backd_exec.c` | `core_idx`, `sem_idx` of each object, `last_semidx`, one semaphore per position | tick, Relinquish, create_process, remove_process | positions are dense and in order whatever dies; every object gets its turn |
| **Data interfaces** `hwapi_linux_itf.c` | `int_itf[]` in shared memory, `file_des[]` per process, message queues, callbacks | create, match, attach, send, receive, delete | packets come in order, not before their time stamp, and are lost only where the design allows |
| **netd** `hwapi_netd.c` | mailbox ids and sockets of each external interface | send, receive (TCP, UDP), reconnect | nothing is reordered on TCP; a receiver wakes its BRIDGE |
| **BRIDGE** `bridge/` | table of bridged interfaces (10), external interfaces | itf_rcv, packet_in/out, ADDITF, RMITF, IDENT | keeps time stamps, never sleeps on a packet, tells data from identifications |
| **Kernel clock** `hwapi_backd_exec.c`, `hwapi_linux_time.c` | time slot counter, `new_tstamp`, `next_ts`, periodic tasks | syncTslot, real-time check, periodic signals | one slot per tick, monotone but for SYNC |
| **Kernel command process** `hwapi_backd_cmds.c` | one request queue | create process, set up external interface, add resource | one command at a time, an answer for each |
| **FRONTEND** `frontend.c` | own id, `f_pedb` (PEs below, requested ids, slave interface), `daemon_cfg` | route, register_son, register_ack | every PE gets an id of its own; a packet reaches the daemon and PE it is for |
| **SWLOAD** `swload_cmds.c` | queue of executables being downloaded | LOADOBJ, LOADSTART, LOADING, LOADEND, EXECERR | each executable is fetched once and in order; an object is launched only when its interfaces are there |
| **SWMAN** `swman_cmds.c`, `app.c` | applications, their objects with current and wanted status | LOADAPP, APPSTATUS, STATUSREP, EXECREQ, RTFAULT | an application has a status when and only when all its objects have |
| **HWMAN** `hwman_cmds.c` | processors, links, free resources, mapped applications | ADDCPU, ADDITF, UPDCPU, SWMAPPER, unmap | what is taken is given back; positions on a core are distinct |
| **Mapping algorithms** `crm/` | matrices | t_w mapping over a trellis | a feasible assignment |
| **Shared variables, memory** `hwapi_linux_var.c`, `mem.c` | `var_db[]`, `mem[]`, chunk list | create, delete, read, write, alloc, free | live variables do not overlap; a reader sees whole values |
| **SW API: parameters, statistics, logs** `phal_services.c` | per-object tables, double log buffer | InitParam, InitStat, SetStatsValue, WriteLog, flush | no value or log line lost or torn |
| **STATS, STATSMAN** | request tables, report queues, registry | initialise, activate, report, close | every request gets its own answer |
| **SYNC, SYNC_MASTER** | round-trip times, clients | request, answer, continuous | two PEs' slot counters agree within half a round trip |
| **Daemon library** `common/`, `utils/` | sets, packet encoding, id counters | | ids are unique |
| **Skeleton** | the waveform's main loop | Status, read, work, write, Relinquish | environment of the above |
| Console, CMDMAN, parsers, DAC drivers, waveform modules | | | user interface, start-up, device and numeric code |

### How they interact

* Objects and daemons share `hw_api_db` (process table, interfaces, variables) with no
  lock but `sem_status`, which covers the status calls only.
* The kernel process forks objects, reaps them in `sig_chld`, and wakes them by
  semaphores; `sig_chld` runs inside the command process and can interrupt anything.
* EXEC takes a copy of the process table in every run of `exec_background` and
  acknowledges, reports (to SWMAN) and removes by what the copy says.
* SWMAN commands EXEC, HWMAN and SWLOAD; SWLOAD creates the interfaces, tells BRIDGE
  of external ones, then launches the objects through the kernel.
* Daemons sleep in `hwapi_idle` for a queued real-time signal, one per message in a
  queue they have a callback on.
* Control packets go from daemon to daemon through FRONTEND, along a tree of PEs.

### Hard behaviours

Steps of several processes on one table (launch, status change, acknowledgement,
time-out, crash, removal, reuse); decisions on a stale copy; a chain of semaphores that
one lost or stolen token stops; positions rewritten under running objects; signals and
messages that are sent in two steps; queues at their limit; links that fail; ids that
are proposed by several PEs at once; a status that is the conjunction of many reports.
`PROJECT.json` lists each at its line under `hazards`.

## 2. What is modelled

### `ObjStatus` (with `MCObjStatus`, `ObjStatus_proofs`, `NatLemmas`)

One PE's process table and the processes that change it: the launcher
(`hwapi_proc_create`), the kernel (`create_process`, `sig_chld`), the objects (the SW
API's `Status`, `ClosePHAL` and the skeleton), SWMAN's commands through EXEC, and EXEC's
scan.  Status names are the numbers of `phal_hw_api.h`.

* `CreateFill`, `ChildPid`, `CreateDone` are the steps of a launch: the entry is filled,
  the kernel forks, `max_proc_id` is published; the entry can be seen or reused in
  between.
* An object's library call is a sequence of steps over the sections that hold
  `sem_status`: `StatusGet` (two calls adopt a change, the second completes it),
  `StatusNew`, `StatusAck`.
* `CopyFirst ... ` and the scan steps are `exec_background`: `memcpy` reads fields of an
  entry early and late (`Tears` gives the sets of fields read late), then the scan looks at
  the copy but acknowledges, kills and removes in the table.
* Time is relative: `next_tstamp` is how many slots remain, `Limit` the slots a change may
  take before EXEC gives up (the per-status limits of `exec.h` are merged into one), and
  `next_tstamp = 0` stands for "now" as in the code.
* `shared` is a history variable: the entries a launch took while a process still worked on
  them.  It takes a removal in between: `hwapi_proc_remove` clears the entry it found even if a
  launch has taken it since, and the next launch takes it again.
* `LeaveLoop` ends the scan and forgets the copy; `WorkFails` and `Crash` are the object's
  own failures; SIGTERM is `exit_fnc`.

Assumptions of the model: `debug_level` is 0; `exec_rtfault` does not kill (as shipped); a
section under `sem_status` is one step, with the search for the entry, which is outside
the section in the code, merged into it; the search for the last used entry in
`hwapi_proc_remove` and the store of `max_proc_id` are one step.

Fairness (`FairSpec`): the clock ticks, the kernel reaps and finishes a launch and EXEC's
loop runs (weak), EXEC gets to copy the table though commands interrupt it (strong: each
run of its loop calls `exec_background`); an object finishes a library call it is in, is
forked and terminates when killed (weak).  Nothing is assumed of the waveform's own work,
of commands or of crashes.

### `Pipeline` (with `MCPipeline`, `Pipeline_proofs`)

The objects of one core.  Object `o` is the one HWMAN gave position `o - 1`.
`Relinquish` posts the next position (read from shared memory), `WaitTurn` reads the
object's own position and begins to wait, `Wake` takes a token.  `SigChld` begins a
removal, each `Move` handles one position of `remove_process`' loop (it rewrites every
entry that has the position, dead ones too, and posts), `MoveEnd` lowers `last_semidx`.
Semaphores saturate at `MaxTokens`.

Assumptions: an entry is not reused while `remove_process` runs; the decrement and the
post of one position are one step (a post a little earlier enables nothing else to go
wrong, since the token stays); `create_process` is one step.

Fairness: ticks, launches, the kernel's loop and the objects' run to their next call are
weakly fair (the contract of the API: an object calls Relinquish in every cycle); `Wake`
is strongly fair per object, as a semaphore's waiters are served in turn.

### `TimedChannel` and `Channel` (with `MCChannel`, `Channel_proofs`)

`TimedChannel` is what an interface promises two objects: packets are read when due or
later, in the order written (`ordered`), and are not lost (`reliable`).  `Channel` is how
it is done: on one PE a queue both share (`path = "local"`); between PEs five queues with
BRIDGE, netd and a TCP or UDP connection in between.  `Write`/`WSignal` are the two
halves of `msgsndcallback`; `WakeOut`/`BridgeOut` are `hwapi_idle` and a round of
`itf_rcv`'s loop, which ends on the first packet it cannot pass on; `Selected` is the
choice `msgrcv` makes for type `-obj_tstamp`; `ForcedType` is the time stamp that
`packet_in` takes from BRIDGE's header.  The refinement maps `pending` to the packets in
all five queues.

Things the model makes plain: an object that is still in `Init()` has time stamp 0 and is
given the first packet whatever its time stamp (allowed by `TimedChannel!Take`);
`external_delay` has no effect on when a packet is read; a connection that is lost never
carries packets again (`out_mbox_id` is set only when BRIDGE starts); packets written
before BRIDGE has its callback are not signalled (`early`).

Not in it: sizes (a packet larger than the reader's buffer is cut, although the comment on
`ReadItf` says ALOE splits and joins packets), the table of interfaces, UDP duplicates.

Fairness: BRIDGE's and netd's loops run, a call once begun ends; the reader runs in every
slot and reads its inputs, as the skeleton does (`skeleton.c:290-320`).  Not assumed: that
the network delivers.

### `Frontend` (with `MCFrontend`, `Frontend_proofs`)

The FRONT-ENDs of a whole platform, HWMAN's end of `ADDCPU`, and the control interfaces
between them.  `tree` is the parent of each PE but the top one; a queue is named by its
direction and the son it belongs to.  `Start` is `frontend_init_p`, which sends the request
for an id before `AddCallbacks` makes this FRONT-END hear the answer (`ArriveSilently`
counts the packets that came without a signal).  One action per command: `RegisterSon` and
`RegisterAck` (the ids a FRONT-END proposes, the top one gives and the answers correct),
`CfgDaemon` (HWMAN can be reached), `RouteUp` and `RouteDown` (`route`), `Report`
(`report_hwstatus`), `HwmanStart` and `HwmanAddCpu` (with `send_sons_ident`, one packet to
each PE known).  `Find` is `Set_find`, which returns the member put last; that is what makes
answers go astray.

Assumptions of the model: control interfaces lose nothing and never fill; the callbacks of
one FRONT-END are added in one step (signals are blocked until `hwapi_idle`); BRIDGE has
configured itself on each PE before it is identified.  Not in it: `UPDCPU`, which refreshes a
time stamp, and packets between the daemons of one PE.

Things the model makes plain: PE 0 is both "the PE of the managers" and "a PE without id",
so a packet for the managers that passes a FRONT-END without id ends there; a FRONT-END
serves its sons before it has its id, although the comment at `frontend.c:257` says it
waits; HWMAN's `ADDCPU` for a PE it knows removes the PE (`hwman_cmds.c:747-752`) although the
comment above says it overwrites, which no FRONT-END provokes, as each sends one.

Fairness: `WF_vars(Next)` only.  The daemons are event loops that sleep until a packet and
the period function runs in every slot, so the platform does not rest while there is
something to do; nothing is assumed of the order in which they do it.

### `Deploy`: `Daemons`, `CmdMan`, `SwMan`, `HwMan`, `ExecObjs`, `SwLoad` (with `MCDeploy`, `Deploy_proofs`, `HwMan_proofs`)

How a waveform is loaded, changed and removed.  `Daemons` has what the others share: the
waveforms as files, and a queue of packets for every pair of daemons (packets between two
daemons keep their order, packets of different daemons overtake each other).  `Deploy` joins
the daemons, one step being one handler of one of them.

* `CmdMan` is the library behind the console: `LoadAppCall` and `AppStatusCall` send and
  begin to wait, `Answered` takes the answer, `Timeout` is the end of the user's patience.
  `AppStatusCall(.., two)` is a call with `ts_len`, which orders PAUSE at once after.
* `SwMan` has `apps_db` and one action for each of `swman_incmd_loadapp`, `_appstatus`,
  `_statusrep`, `_execreq` and `_apperror`.  `StatusRep` is three operators in the order of
  the code: `Noted` (the object's entry), `Reported` (the abort, which tells the others),
  `Completed` (all objects are there: the pending status, the removal, the answer).
* `HwMan` has the list of loaded waveforms and the books: `SwMapper` with `Mapped`, `SwUnmap`
  with `Freed`.  The mapping itself is any assignment for which there are enough computing
  resources, or a refusal.
* `ExecObjs` is `ObjStatus` as the daemons see it: EXEC's copy is up to date, a change of
  status is taken up in one step, and positions and time slots are left out.  `Died`, `Ack` and
  `Late` are the three branches of `exec_background` for an entry, `SetStatus` is the command
  with its refusal, which kills the object.
* `SwLoad` has the queue of executables of each PE: `LoadObj`, `ExecErr`, `LoadEnd`, and the
  request of the next executable after each.  A download is one packet.

Not in it: links between PEs, processors of several cores, real-time faults, the console's
lists.  The answers carry fields that the code does not send (`inst`, `app`, `st`): they are
history, read by properties only.

Things the model makes plain: a status ordered while an abort is under way becomes pending and
replaces the removal, and the waveform stays in `apps_db` with all its objects stopped; the
abort stops at the first object that is not registered (`swman_cmds.c:438-441`); once STOP is
pending a waveform is removed and its resources are freed while its objects still run; a wire
inside a PE takes bandwidth from all PEs and gives it back to one (`hwman_cmds.c:566-573`,
`924-932`); an error says only the name of a waveform and gives up a later loading of it;
`load_error` does not ask for the next executable; asking for the status a waveform is in
never completes, and EXEC kills the objects when the time is over; a call of CMDMAN takes an
earlier call's late answer as its own; the entry of a dead object that a launch takes is
never reported.

Fairness: `WF_vars(System)`, where `System` is every step that is neither a call of the user
nor a fault.  Every daemon loops over its packets and `exec_background` runs in every slot,
and none has work without end unless the user gives it; that some of them moves while any
can is therefore enough, and is weaker than fairness for each.

### `Mem` and `Vars` (with `MCVars`, `Vars_proofs`)

`Mem` is `mem.c`: a table of slots and a table of chunks, `Alloc` (the scan for a run of free
slots, whose offset or failure it returns) and `MemFree` (by offset).  `Vars` is `var_db` on
top of it with those who use it: an object opens a statistic, a log or its parameter file by
creating a variable whose option is the request; STATS goes round all variables, hands the
request to STATSMAN and writes the answer into the option; the object waits for it.

* `Create`, `Allocate`, `Enter`, `Fill` are `hwapi_var_create2`: the wait for `sem_var`, the
  memory, the entry put into use, the entry filled and the semaphore given back.  `Drop`,
  `GiveBack`, `Clear` are `hwapi_var_delete`: the wait, the memory, the entry.  `Ready` is the
  end of the wait for an answer, `Timeout` the end of `InitStat`'s patience; `CloseStat`,
  `CloseLog`, `FlushLogs` write the option without the semaphore.  `Kill` is EXEC's kill
  between any two of these steps, also inside the section, which then stays closed.
* `Look` reads an entry and `Serve`, `Close`, `LogRead`, `LogFlushed` act on it later; others
  move in between.  `Serve` hands a request to STATSMAN, or answers it with an error itself
  when it is not what STATS expects or is a statistic of a type that STATS does not know
  (`stats_cmds.c:580-596`).  `Answer` takes the answers of STATSMAN by id.

Each object has one statistic and one log at most.  Sizes are in slots and may be 0, which
`InitStat` only warns of (`phal_services.c:835`): `mem_alloc` then finds a chunk without a slot,
whose offset may be another variable's (`empty`).  Left out are values, names and time stamps of
variables, the public variables that others look up by name (with them `hwapi_var_getID`, which
posts `sem_var` without having waited for it when the table is full, a recorded hazard), a kill
between the assignments of `Fill`, and a kill of STATS.

Things the model makes plain: LOGFLUSHED overwrites a LOGCLOSE that came after the lines were
read (`stats_cmds.c:794`), and the log is never deleted; an entry that is in use again has its
old option, such as a request to close, until `Fill` (`hwapi_linux_var.c:172`); an answer that
comes after `InitStat` gave up is written into whoever has the entry now; an object killed
inside `sem_var` makes everybody wait for ever; the memory is lost when there is no entry left.

Fairness: STATS' and STATSMAN's loops, and that an object goes on with the call it is in
(weak).  The semaphore is free again and again and calls are bounded, so nobody starves at it.
Nothing makes an object call, lose patience or die.

## 3. What is checked

| Run | Bounds | Shows |
|---|---|---|
| `obj_one` | 1 object, 1 slot, limit 1, commands INIT..ABNSTOP, any field of the copy late; 94,912 states | all safety, action and liveness properties of the protocol for one object |
| `obj_many` | 3 objects, 1 slot, commands RUN and STOP, symmetric; 902,166 states | an entry launched into again and again, also while EXEC removes it: no object hidden, no false confirmation |
| `obj_acked` | violated | EXEC acknowledges one status and reports another |
| `obj_forgotten` | violated | a launch reuses the entry of a dead object before EXEC saw the death |
| `pipe` | 3 objects, 2 tokens; 27,784 states | dense positions, order kept, everybody's turn |
| `pipe_sleep` | violated | a moved sleeper loses its token to its follower and sleeps for good |
| `chan` | 3 packets, queues of 2, all three paths; 331,509 states | a timed channel, no stranded packet, queues drain |
| `chan_ident` | violated | packets for interface 256 are taken for identifications |
| `fe` | 4 PEs, all four shapes of tree; 367,360 states | ids are unique, routes lead where they should, every PE is identified |
| `fe_deep` | violated | answers to two sons of an inner FRONT-END get mixed up |
| `deploy` | four setups (below); 272,127 states | SWMAN and HWMAN agree on what is loaded, the books balance, answers are true and own, every call is answered, what is removed ends |
| `vars` | 2 objects, 2 variables, 3 slots, sizes from 0 to 2, 3 calls, 1 fault; 468,509 states | memory is one variable's at a time and none is lost, what is asked for is done |

Why the bounds are enough for what they are about.  The status protocol is symmetric in
the objects and an entry is only touched by id or by the scan, so one object shows its
own races with EXEC, kernel and clock, and three objects in one slot show what a second cannot:
an entry that is cleared under a launch and taken by the launch after that.  A removal beside a
live entry needs a second slot; the proof covers any number of them.  In the pipeline, three
objects give a predecessor, a victim and a follower, two of them dead at once, and two
tokens let a semaphore be posted before its waiter comes.  In the channel, queues of two
with three packets are full, hold packets of different time stamps and lose one in the
middle; two writer time slots give packets of the same and of different time stamps.  Four PEs give
every shape that matters to a FRONT-END: a son, two sons, two sons of a son, and two PEs
behind one son; up to the names of the sons the four trees are all there are.

The setups of `deploy`: one PE with a waveform of two objects, three orders and a fault; two
PEs of which each holds one object, so that two waveforms compete and one is refused, three
orders, no fault; two PEs, a waveform over both, two orders and a fault; one PE with a good
waveform, one whose executable is missing and one whose file does not parse, two orders and
two faults.  Three orders let one come while another is under way and while a third is pending;
two objects are the least for which "all objects" differs from "one", and PEs on which both
do not fit give reports by two routes.  Three calls in `vars` let an id be given up and used
again while somebody still has it; a log takes two of the three slots, so that memory runs out
and is split, and two variables run out before memory does; a statistic may be of size 0.

Antecedents.  `ExitIsConfirmed` and the status in `OkIsTrue` exclude the entries in `shared`,
which a launch took while a process still worked on them; without this TLC refutes the first in
41 steps and the second in 49 with three objects, of which two then take up each other's
statuses (a recorded hazard).  `PositionsAreDense` and `OrderIsKept` exclude objects launched after a death
(`late`): the gap they leave is a recorded hazard.  `TurnComes` speaks of unbroken chains;
what breaks one is `pipe_sleep`.  `NoneStranded` and `Drained` exclude packets written
before the callback (`early`).  `Routable` and `AllKnown` speak of narrow platforms, where no PE but the top one has more
than one PE under it: on the others `fe_deep` shows what goes wrong.  `AllKnown` also excludes
an `ADDCPU` that came before HWMAN (`unheard`) and a packet that nobody is woken for
(`silent`), both recorded hazards.  Without these TLC refutes them within a few steps.

`AnswerIsOwn` is stated for a user who has seen no fault and has ordered no PAUSE in advance
(`mixed`), since answers do not say what they are about.  `CallAnswered` has no exception
without a fault.  After one it excludes a waveform that is being loaded or stopped, calls that
may have had another's answer, an object EXEC has lost sight of (`Forgotten`) and the waveform
that an order during its abort has kept (`Undead`).  `RemovedIsGone` excludes waveforms given
up by `loadapp_error`, whose running objects nobody stops (`dropped`).  `Served` and the second
half of `OwnMemory` speak of the time before STATS has taken one request for another
(`strayed`), that half of `OwnMemory` also of the time before a variable got a chunk without a
slot (`empty`), and `Served` of objects not killed while they create or delete a variable
(`Stuck`).  Without `strayed` TLC refutes `Served` in 27 steps, and `OwnMemory` with seven
calls; without `empty` it refutes `OwnMemory` in 18 steps; without `Stuck`, `Served` in 12.  Each
is a recorded hazard.

Deadlock is checked except where the bounded system stops by itself: in the channel and the
platform of FRONT-ENDs when all packets are read, in `deploy` when the user has no order left,
in `vars` when the objects have made their calls.  In `vars` an object killed inside `sem_var`
also stops the others, which is a recorded hazard.

### Disagreements found

* **EXEC confirms what it did not report** (`obj_acked`, `exec_cmds.c:605`).
* **A death is forgotten** (`obj_forgotten`, `hwapi_linux_proc.c:156`; comment at
  `exec_cmds.c:584`).
* **An object sleeps for good after another's death** (`pipe_sleep`,
  `hwapi_linux_base.c:469`; comment at `phal_services.c:233`).
* **The identification magic can be a packet of data** (`chan_ident`,
  `bridge_cmds.c:549`; comment at `bridge.h:25`): the comparison is with one byte, the low
  byte of an interface id that counts up by one for each interface ever created.
* **A son gets another son's answer** (`fe_deep`, `frontend.c:639`; comment at
  `frontend.c:89`): every FRONT-END asks for the same id, and answers are matched by the id
  asked for, so all go to the son that registered last.

## 4. What is proved

TLAPS proves these for every value of the constants; the runs check the same formulas on
small instances first.

* **`ObjStatus_proofs`**: `TypeCorrect`, `ClosedChangesAreMade` (SettledIsQuiet),
  `AdoptionsAreDue`, `StatusesAreEnteredInTime` (NotBeforeTslot), `NoEntryIsHidden`
  (PublishedIsVisible), `EndsAreConfirmed` (ExitIsConfirmed).  The inductive invariant
  is `IInv == EntryOK /\ TableOK /\ ObjectOK /\ CreatingOK /\ ExecOK /\ CopyOK /\ ReportOK`:
  types alone are not inductive, because an index read from the table is used after other
  processes have changed it, and because what EXEC's copy says is only bounded by what the
  table once said.  `EndsAreConfirmed` needs more, since `ClosePHAL` waits for nothing but that a
  change is accepted: `CInv` adds that an object's id and pid are only in the entry it was
  launched for (`OwnEntry`), that nobody else has it (`Alone`), that an object not yet published
  has nothing to close for (`EarlyOK`, so that its abort finds the entry), and what the entry
  says at each step of `ClosePHAL` (`ClosingOK`).  The steps of all others are dealt with once
  (`OthersFrame`): they leave a live object's entry alone, ask for a change where none is open,
  or close one that is complete.  `ReportsAreTrue` (OkIsTrue) is about a copy that is old when
  EXEC acts on it.  `RInv` adds to `CInv` what a copied entry still says of the table
  (`CopiesOK`): from the copy to the report EXEC asks for nothing (`CopyGivenUp`), the entry
  found by the copied id is the one copied (`CopiedOnce`), nobody else works on it
  (`KeeperOK`), and the object asks itself only for PAUSE, in STEP, which EXEC leaves alone
  (`SteppingOK`), for ABNSTOP, or for STOP, on its way out, which nobody is left to take up.
  It needs that `obj_id` is not copied later than the rest (`IdFirstAssumption`: `memcpy`
  reads upwards, and it comes first in `struct hwapi_proc_i`).
* **`Pipeline_proofs`**: `TypeCorrect`, `PositionsStayDense`, `OrderStays`.  During a
  removal neither density nor order hold as such; `Schedule` says that the positions from 0
  to `last_semidx` are all in use but one, the gap below `sem_i`, which each `Move` carries
  one up.  `EarlyOK` gives the gap its start and `EntriesOK` says who can be in it.
* **`Channel_proofs`**: `TypeCorrect` (queues never overflow), `NoPacketStranded`:
  every packet in a queue BRIDGE reads has a signal of its own, but for one that the loop in
  progress reaches (`NoneStranded` with the type invariant is inductive); and `ChannelIsTimed`,
  the refinement: every step of `Channel` is a step of `TimedChannel` or a stutter.  For this
  the five queues are one line of packets (`LineOK`) along which numbers and time stamps rise;
  where UDP may reorder, no number comes twice.  The reader takes the packet of the lowest
  type, from anywhere in its queue: that this is the head, so that the order promised is kept,
  is what the rising time stamps are for.
* **`Frontend_proofs`**: `TypeCorrect` and `IdsAreUnique` (UniqueIds), for any set of PEs and
  any tree.  That ids differ is not inductive, since an id is owned only when its answer
  arrives: `AnswersOK` says that each id the top FRONT-END has given is in one answer on its
  way at most, or has one owner, and never both.  `QOK` keeps requests off the way down and
  answers off the way up, and `FreeIdIsFree` shows that the search of `register_son` ends
  (counting entries) with an id nobody was given.  `WaysAreRight` (Routable, on narrow
  platforms): an id has no route before it is given and a wrong one would be right again only
  later, so `Below`, `NoZero`, `FirstHop` and `SecondHop` say to whom each id leads on each
  level, also while its answer is on the way, and `AsksOK` counts: each FRONT-END has asked once
  for itself and once for each request from below, so that a leaf that got a second id would
  be a third entry for two PEs.
* **`Vars_proofs`**: `TypeCorrect` and `MemoryIsOwn` (OwnMemory), for any number of objects,
  variables and slots and any sizes, 0 included.  The lemmas on `Mem` say that `Alloc` and
  `MemFree` keep the two tables in agreement whatever the size and the offset, and, while every
  chunk has a slot (`ChunksOK`), that `Alloc` finds a chunk whose offset no other has and
  `MemFree` gives back that chunk alone.  For `Vars`, types and the tables are kept by every
  step without any condition; `Proper`, which is `ChunksOK` and `Apart`, holds until STATS has
  strayed or a variable got a chunk without a slot.  That two
  variables never share an offset is not inductive even then, since whoever deletes a variable
  does so by its id and the id may be another's by then.  `UsesOK` says that before STATS has
  strayed every id an object holds, and every id that waits to be deleted, is of a variable in
  use and held only once; `Apart` follows with it.
* **`Deploy_proofs`**: `ListsAgree` (Agree): whenever nothing is on its way between SWMAN
  and HWMAN both hold the same waveforms under the same instances.  Removals, refusals and errors
  carry only a name, and may meet a later loading of it; the invariant says in which order
  packets about one name can be on their way: before a name is mapped again its removal is
  sent, what SWMAN holds is what the last packet about its name asks for, and what HWMAN holds
  SWMAN holds too or has a removal of on its way.  It is stated of the two lists and the two
  queues alone, and all handlers that touch none of them are dealt with at once.
* **`HwMan_proofs`** (on `Deploy_proofs`): `BooksBalance` (Balanced): what HWMAN has free is
  what there was less the sums over the loaded waveforms.  A mapping adds one summand and
  `SwUnmap` removes it, provided no instance is booked twice, and that is the order of packets
  above (`FreshOK`).  `DeployTypes` (TypeOK), for all variables of all daemons: a status in
  `apps_db` comes out of a packet and out of an object's entry, so packets have to be
  `Proper` on every route; a number of objects is natural because the books balance; and an
  executable in a SWLOAD's queue has an object that waits for it and an id given out once.
* **`NatLemmas`**: least and greatest elements, for the searches of the tables; that what a
  function gives on a finite set has a bound; and the laws of sums over finite sets, which are
  recursive functions: that there is exactly one such function, by the least set without one,
  and what one element more or less does to the sum.

Assumptions: those named `...Assumption` in the modules, which every run evaluates.  Those of
`Daemons` say that there are finitely many waveforms as files, whose objects are numbered from
1 and whose costs are natural numbers.  `Ascending` in `Daemons` is the order in which
`Set_get` goes through a set, put without recursion.

Only model-checked: liveness, which is outside the prover's reach (`ClosingEnds`, `ChangeEnds`,
`DeathIsReported`, `DeadIsRemoved`, `TurnComes`, `Drained`, `ReadInTime`, `AllKnown`,
`CallAnswered`, `RemovedIsGone`, `Served`), and of `Deploy` the two properties of what the user
is told, `ToldIsTrue` and `AnswerIsOwn`: the first relates SWMAN's entry for each object to
what EXEC sees through two queues, the second the whole conversation with the user.

## 5. Plan

In this order; each with its module, MC module, run(s) and proofs.

1. Done as above: `ObjStatus`, `Pipeline`, `Channel` over `TimedChannel`, `Frontend`, `Deploy`
   with its parts, `Vars` over `Mem`.
2. `ExecObjs` as an abstraction of `ObjStatus`, object by object, stated as a refinement.  It
   holds only with a copy that is up to date, so `ObjStatus` needs a variant of EXEC's scan.
3. `Interfaces`: the table `int_itf` and the descriptors, under `Channel`; the configuration of
   interfaces in `SwLoad` then fails for a reason.
4. `Logs`: the double buffer of lines and its flush, on `Vars`.
5. `Sync`: slot counters of two PEs.

Abstract specifications worth stating: `TimedChannel` (done); an atomic status register per
object for `ObjStatus`; a round-robin of the live objects for `Pipeline` before a death.

Proofs next: `ToldIsTrue`, with an invariant that says of each object which status its EXEC's
packets, SWMAN's entry and the object itself can have at one time; then `AnswerIsOwn`, with
what is on its way between the user and SWMAN for a user who makes one call after the other;
and the step simulation of `ExecObjs` by `ObjStatus` (2 above).

## 6. Not modelled

The table of interfaces and its descriptors; SYNC's adjustment of the clock; the kernel's
start-up, shutdown and command loop; the contents of variables, logs, reports and packets;
links between PEs and processors of several cores; real-time faults (the kill is switched off
as shipped).  Numeric mapping algorithms, waveform code, device drivers, parsers and user
interface.  The operating system beyond the calls used: message queues, semaphores, signals and
sockets appear as the modules above describe them.  Memory errors, such as the name of a waveform
that `swman_cmds.c:707` reads after `app_delete` has freed it (line 699).  Most of the repository's
lines are waveform modules (`src/modules`, `src/APPs`, `src/aloeSKs`), vendored plotting code
and a port to Matlab: sequential numeric code, which has no protocol to check.  See the
components in `PROJECT.json` for each part's status.

## Running

    tlc -config obj_one.cfg MCObjStatus     (likewise the other runs in PROJECT.json)
    tlapm Channel_proofs.tla                (likewise the other *_proofs modules)
