------------------------------- MODULE Daemons -------------------------------
(***************************************************************************)
(* What the daemons that load and run waveforms have in common: the        *)
(* waveforms they know from files, and the packets they exchange.          *)
(*                                                                         *)
(* CMDMAN, SWMAN and HWMAN run on the PE of the managers, a SWLOAD and an  *)
(* EXEC on every PE.  Packets between two daemons keep their order;        *)
(* packets from different daemons overtake each other freely, since they   *)
(* come through different FRONT-ENDs and interfaces.                       *)
(***************************************************************************)
EXTENDS Integers, Sequences, FiniteSets, SequencesExt, FiniteSetsExt, Functions

CONSTANTS
  PEs,       \* the processing elements
  Root,      \* the one with the managers
  Apps,      \* the names of the waveforms
  File,      \* the objects of each waveform: [exe, mops], in the order of Set_get
  Wires,     \* the pairs <<writer, reader>> of objects of each waveform
  Missing,   \* the executables SWMAN has no file for
  MaxCalls,  \* how many orders the user gives at most
  Setups     \* what is explored: the computing resources of each PE, the waveforms
             \* and statuses the user asks for, how many orders the user gives, and
             \* how many things go wrong

Stopped == {"STOP", "ABNSTOP"}
Status  == {"NONE", "STARTED", "INIT", "RUN", "PAUSE", "STEP"} \cup Stopped

Keys(a) == DOMAIN File[a]

\* Some objects of a waveform, given by their keys, one after the other.
Ascending(ks) ==
  CHOOSE s \in [1..Cardinality(ks) -> ks] : \A n \in 2..Cardinality(ks) : s[n - 1] < s[n]

ASSUME RootAssumption == Root \in PEs
ASSUME FileAssumption ==
  /\ IsFiniteSet(Apps)
  /\ \A a \in Apps : /\ Len(File[a]) \in Nat /\ Keys(a) = 1..Len(File[a])
                     /\ \A k \in Keys(a) : File[a][k].mops \in Nat
                     /\ Wires[a] \subseteq Keys(a) \X Keys(a)
ASSUME BoundAssumption ==
  /\ MaxCalls \in Nat
  /\ Setups \subseteq [C : [PEs -> Nat], apps : SUBSET Apps, asked : SUBSET Status,
                       calls : 0..MaxCalls, faults : Nat]

Insts   == 1..MaxCalls     \* app_id: every waveform put in apps_db gets a new one

\* The objects that can ever be loaded: of each instance at most as many as the
\* largest waveform has.
MaxKey  == Max({0} \cup {Len(File[a]) : a \in Apps})
Objects == Insts \X (1..MaxKey)

-----------------------------------------------------------------------------
CMDMAN == <<"CMDMAN", Root>>
SWMAN  == <<"SWMAN", Root>>
HWMAN  == <<"HWMAN", Root>>
SWLOAD(p) == <<"SWLOAD", p>>
EXEC(p)   == <<"EXEC", p>>

Routes ==
  {<<CMDMAN, SWMAN>>, <<SWMAN, CMDMAN>>, <<SWMAN, HWMAN>>, <<HWMAN, SWMAN>>}
  \cup UNION {{<<HWMAN, SWLOAD(p)>>, <<SWMAN, SWLOAD(p)>>, <<SWLOAD(p), SWMAN>>,
               <<SWMAN, EXEC(p)>>, <<EXEC(p), SWMAN>>} : p \in PEs}

VARIABLES
  setup,   \* the one of Setups this is
  ch,      \* the packets on their way, for every route
  faults   \* how many things have gone wrong

\* daemon_sendto, and daemon_rcvpkt.
Post(c, from, to, m) == [c EXCEPT ![<<from, to>>] = Append(@, m)]
Waits(from, to, cmd) == ch[<<from, to>>] # <<>> /\ Head(ch[<<from, to>>]).cmd = cmd
Packet(from, to) == Head(ch[<<from, to>>])
Taken(from, to)  == [ch EXCEPT ![<<from, to>>] = Tail(@)]

Fault == faults < setup.faults /\ faults' = faults + 1
NoFault == UNCHANGED faults

\* The function f with and without a value for i.
With(f, i, v) == [j \in DOMAIN f \cup {i} |-> IF j = i THEN v ELSE f[j]]
Without(f, i) == Restrict(f, DOMAIN f \ {i})
=============================================================================
