-------------------------------- MODULE SwMan --------------------------------
(***************************************************************************)
(* SWMAN: it holds the waveforms that are loaded, hands out their          *)
(* executables, passes the user's commands on to the EXECs of their        *)
(* objects and makes one answer of the objects' reports.                   *)
(***************************************************************************)
EXTENDS Daemons

VARIABLES
  apps,     \* apps_db: instance -> name, cur_status, next_pending_status, objects
  app_id,   \* the next instance
  dropped   \* history: the instances given up by loadapp_error

swman == <<apps, app_id, dropped>>

None == "NONE"   \* no status is pending
NoPE == "nope"   \* the object is not registered

SwInit == apps = <<>> /\ app_id = 1 /\ dropped = {}

\* The waveform of that name.
Named(a) == {i \in DOMAIN apps : apps[i].name = a}

App(a) == [name |-> a, cur |-> "STARTED", pend |-> None,
           obj |-> [k \in Keys(a) |-> [st |-> None, pe |-> NoPE]]]

\* status_ok.  (mutant: one object in the status asked for is enough)
StatusOkOne(w) == \E k \in DOMAIN w.obj : w.obj[k].st = w.cur
StatusOk(w) == \A k \in DOMAIN w.obj : w.obj[k].st = w.cur

Registered(w) == \A k \in DOMAIN w.obj : w.obj[k].pe # NoPE

-----------------------------------------------------------------------------
(* Answers to the user.  They carry what they answer, which CMDMAN does    *)
(* not look at.                                                            *)

Answer(cmd, i, w) == [cmd |-> cmd, inst |-> i, app |-> w.name, st |-> w.cur]
LoadAppErr == [cmd |-> "SWLOADAPPERR"]

\* swman_sendobjstatus: the objects that are told st, up to the first one that
\* is not registered, for which it fails.
Told(w) ==
  {k \in DOMAIN w.obj : /\ \A j \in 1..k : w.obj[j].pe # NoPE
                        /\ w.obj[k].st \notin Stopped}

SendObjStatus(c, i, w, st) ==
  [r \in DOMAIN c |->
     LET mine == {k \in Told(w) : r = <<SWMAN, EXEC(w.obj[k].pe)>>}
     IN c[r] \o [n \in 1..Cardinality(mine) |->
                   [cmd |-> "SETSTATUS", obj |-> <<i, Ascending(mine)[n]>>, st |-> st]]]

\* unmap_app, and the removal from apps_db.
Unmap(c, a) == Post(c, SWMAN, HWMAN, [cmd |-> "UNMAPOBJ", app |-> a])

\* loadapp_error for a waveform in apps_db.
LoadAppError(c, i, a) ==
  /\ ch' = Unmap(Post(c, SWMAN, CMDMAN, LoadAppErr), a)
  /\ apps' = Without(apps, i)
  /\ dropped' = dropped \cup {i}

-----------------------------------------------------------------------------
(* The handlers.                                                           *)

\* swman_incmd_loadapp.  A file that does not parse is found out only after the
\* waveform was put in apps_db.
LoadApp ==
  LET a == Packet(CMDMAN, SWMAN).app
      c == Taken(CMDMAN, SWMAN)
  IN /\ Waits(CMDMAN, SWMAN, "LOADAPP")
     /\ \/ /\ Named(a) # {}
           /\ ch' = Post(c, SWMAN, CMDMAN, LoadAppErr)
           /\ UNCHANGED swman
        \/ /\ Named(a) = {} /\ File[a] = <<>>
           /\ ch' = Unmap(Post(c, SWMAN, CMDMAN, LoadAppErr), a)
           /\ app_id' = app_id + 1 /\ UNCHANGED <<apps, dropped>>
        \/ /\ Named(a) = {} /\ File[a] # <<>>
           /\ ch' = Post(c, SWMAN, HWMAN, [cmd |-> "MAPOBJ", inst |-> app_id, app |-> a])
           /\ apps' = With(apps, app_id, App(a))
           /\ app_id' = app_id + 1 /\ UNCHANGED dropped
     /\ NoFault

\* swman_incmd_appstatus, with set_app_status.  STEP is PAUSE to the waveform.
Goal(st) == IF st = "STEP" THEN "PAUSE" ELSE st
CanSet(w, st) == StatusOk(w) \/ st \in Stopped

AppStatus ==
  LET m == Packet(CMDMAN, SWMAN)
      c == Taken(CMDMAN, SWMAN)
  IN /\ Waits(CMDMAN, SWMAN, "APPSTATUS")
     /\ UNCHANGED app_id /\ NoFault
     /\ \/ /\ Named(m.app) = {}
           /\ ch' = Post(c, SWMAN, CMDMAN, LoadAppErr)
           /\ UNCHANGED <<apps, dropped>>
        \/ \E i \in Named(m.app) :
             LET w == apps[i]
                 v == [w EXCEPT !.cur = Goal(m.st)]
             IN \/ /\ CanSet(w, m.st) /\ Registered(v)
                   /\ ch' = SendObjStatus(c, i, v, m.st)
                   /\ apps' = [apps EXCEPT ![i] =
                        IF m.st = "STEP"
                        THEN [v EXCEPT !.obj = [k \in DOMAIN v.obj |-> [v.obj[k] EXCEPT !.st = "STEP"]]]
                        ELSE v]
                   /\ UNCHANGED dropped
                \/ /\ CanSet(w, m.st) /\ ~Registered(v)
                   /\ LoadAppError(SendObjStatus(c, i, v, m.st), i, m.app)
                \/ /\ ~CanSet(w, m.st) /\ w.pend = None
                   /\ apps' = [apps EXCEPT ![i].pend = m.st]
                   /\ ch' = c /\ UNCHANGED dropped
                \/ /\ ~CanSet(w, m.st) /\ w.pend # None
                   /\ LoadAppError(c, i, m.app)

\* swman_incmd_statusrep, up to the abort.
Good(w, m) == m.cmd = "STATUSOK" /\ (m.st = w.cur \/ w.cur = "ABNSTOP")

Noted(w, m, p) ==
  [w EXCEPT !.obj[m.obj[2]] =
     [st |-> IF Good(w, m) THEN m.st ELSE "ABNSTOP",
      pe |-> IF Good(w, m) /\ m.st = "STARTED" THEN p ELSE @.pe]]

\* The abort tells the objects that are not known to have stopped; the one that
\* reports counts as stopped if it says so itself.
Aborts(w, m) == ~Good(w, m) /\ w.cur # "ABNSTOP"
AbortTells(w, m) ==
  IF m.st = "ABNSTOP" THEN [w EXCEPT !.obj[m.obj[2]].st = "ABNSTOP"] ELSE w

Reported(c, i, w, m, p) ==
  LET v == Noted(w, m, p)
  IN IF Aborts(w, m)
     THEN [app |-> [v EXCEPT !.cur = "ABNSTOP"],
           ch  |-> SendObjStatus(c, i, AbortTells(w, m), "ABNSTOP")]
     ELSE [app |-> v, ch |-> c]

\* The rest, once all objects are in the status of the waveform: the pending
\* status is ordered, the waveform removed if its status, by now the pending
\* one, says so, and the user answered for the status it was in before.
OutType(w, k) ==
  IF w.obj[k].st = "STARTED" THEN "SWLOADAPPOK"
  ELSE IF w.cur = "ABNSTOP" THEN "SWSTATUSERR" ELSE "SWSTATUSOK"

Completed(c, i, w, k) ==
  LET out  == Answer(OutType(w, k), i, w)
      next == IF w.pend = None THEN w ELSE [w EXCEPT !.cur = w.pend, !.pend = None]
      sent == IF w.pend = None THEN c ELSE SendObjStatus(c, i, next, w.pend)
  IN \/ /\ w.pend # None /\ ~Registered(w)
        /\ ch' = Post(sent, SWMAN, CMDMAN, LoadAppErr)
        /\ apps' = [apps EXCEPT ![i] = next]
     \/ /\ w.pend = None \/ Registered(w)
        /\ IF next.cur \in Stopped
           THEN /\ ch' = Post(Unmap(sent, w.name), SWMAN, CMDMAN, out)
                /\ apps' = Without(apps, i)
           ELSE /\ ch' = Post(sent, SWMAN, CMDMAN, out)
                /\ apps' = [apps EXCEPT ![i] = next]

StatusRep(p) ==
  LET m == Packet(EXEC(p), SWMAN)
      i == m.obj[1]
      c == Taken(EXEC(p), SWMAN)
  IN /\ Waits(EXEC(p), SWMAN, "STATUSOK") \/ Waits(EXEC(p), SWMAN, "STATUSERR")
     /\ IF i \notin DOMAIN apps THEN ch' = c /\ UNCHANGED apps
        ELSE LET r == Reported(c, i, apps[i], m, p)
             IN IF StatusOk(r.app) THEN Completed(r.ch, i, r.app, m.obj[2])
                ELSE ch' = r.ch /\ apps' = [apps EXCEPT ![i] = r.app]
     /\ UNCHANGED <<app_id, dropped>> /\ NoFault

\* swman_incmd_apperror, for SWLOAD_EXECERR and HWMAN_MAPAPPERROR: the waveform
\* is the one of that name now.  SWLOAD may not say a name.
AppError(from) ==
  LET m == Packet(from, SWMAN)
      c == Taken(from, SWMAN)
  IN /\ Waits(from, SWMAN, "EXECERR") \/ Waits(from, SWMAN, "MAPAPPERROR")
     /\ IF "app" \in DOMAIN m /\ Named(m.app) # {}
        THEN \E i \in Named(m.app) : LoadAppError(c, i, m.app)
        ELSE ch' = c /\ UNCHANGED <<apps, dropped>>
     /\ UNCHANGED app_id /\ NoFault

\* swman_incmd_execreq.  The three kinds of packet of a download follow each
\* other, so they are one packet here.
ExecReq(p) ==
  LET m == Packet(SWLOAD(p), SWMAN)
      c == Taken(SWLOAD(p), SWMAN)
  IN /\ Waits(SWLOAD(p), SWMAN, "EXECREQ")
     /\ ch' = Post(c, SWMAN, SWLOAD(p),
                   IF m.exe \in Missing THEN [cmd |-> "EXECERR", exe |-> m.exe]
                   ELSE [cmd |-> "LOAD", id |-> m.id])
     /\ UNCHANGED swman /\ NoFault

SwNext ==
  \/ LoadApp \/ AppStatus \/ AppError(HWMAN)
  \/ \E p \in PEs : StatusRep(p) \/ AppError(SWLOAD(p)) \/ ExecReq(p)
=============================================================================
