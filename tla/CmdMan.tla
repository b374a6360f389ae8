------------------------------- MODULE CmdMan -------------------------------
(***************************************************************************)
(* The user's side: a console that calls one function of the CMDMAN        *)
(* library after another, and each call waits for an answer of SWMAN.      *)
(***************************************************************************)
EXTENDS Daemons

VARIABLES
  call,    \* the call that waits: the waveform, the status, and whether PAUSE follows
  calls,   \* how many orders the calls have given
  mixed    \* history: an answer may belong to an earlier call

user == <<call, calls, mixed>>

Idle == [app |-> "", st |-> "", two |-> FALSE]
Waiting == call # Idle

CmInit == call = Idle /\ calls = 0 /\ mixed = FALSE

\* cmdman_loadapp with send_wait_answer_pkt: what is in the queue is discarded.
LoadAppCall(a) ==
  /\ ~Waiting /\ calls < setup.calls
  /\ ch' = Post([ch EXCEPT ![<<SWMAN, CMDMAN>>] = <<>>], CMDMAN, SWMAN,
                [cmd |-> "LOADAPP", app |-> a])
  /\ call' = [app |-> a, st |-> "load", two |-> FALSE]
  /\ calls' = calls + 1 /\ UNCHANGED mixed /\ NoFault

\* cmdman_appstatus; with ts_len it orders PAUSE at once after the status.  What
\* is in the queue is not discarded.
Order(a, st) == [cmd |-> "APPSTATUS", app |-> a, st |-> st]
AppStatusCall(a, st, two) ==
  /\ ~Waiting
  /\ calls' = IF two THEN calls + 2 ELSE calls + 1
  /\ calls' <= setup.calls
  /\ LET c == Post(ch, CMDMAN, SWMAN, Order(a, st))
     IN ch' = IF two THEN Post(c, CMDMAN, SWMAN, Order(a, "PAUSE")) ELSE c
  /\ call' = [app |-> a, st |-> st, two |-> two]
  /\ mixed' = (mixed \/ two) /\ NoFault

\* The answer that is there is taken as this call's.  The call for two orders
\* waits a second time unless the first answer is the right one.
Succeeds(m) == m.cmd = IF call.st = "load" THEN "SWLOADAPPOK" ELSE "SWSTATUSOK"
Answered ==
  /\ Waiting /\ ch[<<SWMAN, CMDMAN>>] # <<>>
  /\ call' = IF call.two /\ ~Succeeds(Packet(SWMAN, CMDMAN))
             THEN [call EXCEPT !.two = FALSE] ELSE Idle
  /\ ch' = Taken(SWMAN, CMDMAN)
  /\ UNCHANGED <<calls, mixed>> /\ NoFault

\* The user's patience ends before the answer comes.
Timeout ==
  /\ Waiting /\ Fault
  /\ call' = IF call.two THEN [call EXCEPT !.two = FALSE] ELSE Idle
  /\ mixed' = TRUE
  /\ UNCHANGED <<calls, ch>>

CmNext ==
  \/ \E a \in setup.apps : LoadAppCall(a)
  \/ \E a \in setup.apps, st \in setup.asked, two \in BOOLEAN : AppStatusCall(a, st, two)
  \/ Answered \/ Timeout
=============================================================================
