-------------------------------- MODULE HwMan --------------------------------
(***************************************************************************)
(* HWMAN: it maps the objects of a waveform to PEs, has the SWLOADs of     *)
(* those PEs load them, and keeps the books of the free resources.         *)
(*                                                                         *)
(* The mapping itself is a search over floats; here it returns any         *)
(* assignment the platform has the computing resources for, or none, even  *)
(* if there is one: the search keeps a few candidates only.  Every PE has  *)
(* one core, and the links between PEs, which are booked like the          *)
(* computing resources, are left out.                                      *)
(***************************************************************************)
EXTENDS Daemons

CONSTANTS TotalBW   \* the internal bandwidth every PE reports when it registers

ASSUME TotalAssumption == TotalBW \in Nat

VARIABLES
  loaded,       \* loaded_apps: instance -> its name and the PE of each object
  C,            \* free computing resources
  nof_objects,
  intBW         \* free internal bandwidth

hwman == <<loaded, C, nof_objects, intBW>>

On(at, p)       == {k \in DOMAIN at : at[k] = p}
Mops(a, ks)     == MapThenSumSet(LAMBDA k : File[a][k].mops, ks)
Inside(a, at)   == {w \in Wires[a] : at[w[1]] = at[w[2]]}
InsideOf(a, at, p) == {w \in Inside(a, at) : at[w[1]] = p}

\* mapper, cost_compU: a PE with less than the objects on it need costs infinity.
Fits(a, at) == \A p \in PEs : Mops(a, On(at, p)) <= C[p]

HwInit ==
  /\ loaded = <<>>
  /\ C = setup.C
  /\ nof_objects = [p \in PEs |-> 0]
  /\ intBW = [p \in PEs |-> TotalBW]

\* The objects for p in the order SWLOAD goes through them: Set_put, the writing
\* to the packet and the reading from it reverse the order three times.
Part(at, p) == Reverse(Ascending(On(at, p)))
LoadObjs(c, i, a, at) ==
  [r \in DOMAIN c |->
     IF \E p \in PEs : r = <<HWMAN, SWLOAD(p)>> /\ On(at, p) # {}
     THEN Append(c[r], [cmd |-> "LOADOBJ", inst |-> i, app |-> a, objs |-> Part(at, r[2][2])])
     ELSE c[r]]

\* hwman_incmd_swmapper.  A wire inside a PE takes its bandwidth from all PEs.
\* (mutant: the objects are not counted)
MappedUncounted(i, a, at) ==
  /\ loaded' = With(loaded, i, [name |-> a, at |-> at])
  /\ C' = [p \in PEs |-> C[p] - Mops(a, On(at, p))]
  /\ intBW' = [p \in PEs |-> intBW[p] - Cardinality(Inside(a, at))]
  /\ UNCHANGED nof_objects

Mapped(i, a, at) ==
  /\ loaded' = With(loaded, i, [name |-> a, at |-> at])
  /\ C' = [p \in PEs |-> C[p] - Mops(a, On(at, p))]
  /\ nof_objects' = [p \in PEs |-> nof_objects[p] + Cardinality(On(at, p))]
  /\ intBW' = [p \in PEs |-> intBW[p] - Cardinality(Inside(a, at))]

SwMapper ==
  LET m == Packet(SWMAN, HWMAN) IN
  /\ Waits(SWMAN, HWMAN, "MAPOBJ")
  /\ \/ \E at \in [Keys(m.app) -> PEs] :
          /\ Fits(m.app, at)
          /\ Mapped(m.inst, m.app, at)
          /\ ch' = LoadObjs(Taken(SWMAN, HWMAN), m.inst, m.app, at)
     \/ /\ ch' = Post(Taken(SWMAN, HWMAN), HWMAN, SWMAN, [cmd |-> "MAPAPPERROR", app |-> m.app])
        /\ UNCHANGED hwman
  /\ NoFault

\* (mutant: the waveform is not taken out of the list)
FreedKept(i) ==
  LET a  == loaded[i].name
      at == loaded[i].at
  IN /\ C' = [p \in PEs |-> C[p] + Mops(a, On(at, p))]
     /\ nof_objects' = [p \in PEs |-> nof_objects[p] - Cardinality(On(at, p))]
     /\ intBW' = [p \in PEs |-> intBW[p] + Cardinality(InsideOf(a, at, p))]
     /\ UNCHANGED loaded

\* hwman_incmd_swunmap with free_resources.  A wire inside a PE gives its
\* bandwidth back to that PE alone.
Freed(i) ==
  LET a  == loaded[i].name
      at == loaded[i].at
  IN /\ loaded' = Without(loaded, i)
     /\ C' = [p \in PEs |-> C[p] + Mops(a, On(at, p))]
     /\ nof_objects' = [p \in PEs |-> nof_objects[p] - Cardinality(On(at, p))]
     /\ intBW' = [p \in PEs |-> intBW[p] + Cardinality(InsideOf(a, at, p))]

Loaded(a) == {i \in DOMAIN loaded : loaded[i].name = a}

SwUnmap ==
  LET m == Packet(SWMAN, HWMAN) IN
  /\ Waits(SWMAN, HWMAN, "UNMAPOBJ")
  /\ IF Loaded(m.app) = {} THEN UNCHANGED hwman ELSE \E i \in Loaded(m.app) : Freed(i)
  /\ ch' = Taken(SWMAN, HWMAN) /\ NoFault

HwNext == SwMapper \/ SwUnmap

\* What the loaded waveforms use of p: how many objects, how much computing, and
\* how much internal bandwidth.
Mine(p)  == {o \in Objects : o[1] \in DOMAIN loaded /\ o[2] \in On(loaded[o[1]].at, p)}
UsedC(p) == MapThenSumSet(LAMBDA o : File[loaded[o[1]].name][o[2]].mops, Mine(p))
UsedBW(p) ==
  MapThenSumSet(LAMBDA i : Cardinality(InsideOf(loaded[i].name, loaded[i].at, p)), DOMAIN loaded)

\* The books agree with the list of loaded waveforms, whatever was loaded and
\* unloaded in which order: nothing of an unloaded waveform stays taken and
\* nothing is given back twice.  Of the internal bandwidth, which is taken from
\* every PE and given back to one, no more than there is.
Counted  == \A p \in PEs : nof_objects[p] = Cardinality(Mine(p))
Balanced ==
  /\ Counted
  /\ \A p \in PEs : C[p] = setup.C[p] - UsedC(p) /\ intBW[p] <= TotalBW - UsedBW(p)
=============================================================================
