---------------------------- MODULE Vars_proofs ----------------------------
(***************************************************************************)
(* Proofs about Mem and Vars, for any number of objects, variables and     *)
(* slots.                                                                  *)
(*                                                                         *)
(* Who deletes a variable does so by its id, and the id may have been      *)
(* given to another variable since.  UsesOK says that this does not happen *)
(* as long as STATS has not strayed: every id that an object holds, for    *)
(* the call it is in, its stat or its log, and every id that waits for     *)
(* STATS to delete it is of a variable that exists, and held only once.    *)
(***************************************************************************)
EXTENDS Vars, TLAPS

ChunksOK == \A c \in Slots : chunks[c] # NoChunk => chunks[c].st < chunks[c].end

SemOK ==
  /\ \A o, p \in sem : o = p
  /\ \A o \in Objs : pc[o] \in {"alloc", "entry", "fill", "free", "clear"} => o \in sem
  /\ \A o \in sem : pc[o] \in {"alloc", "entry", "fill", "free", "clear", "dead"}

CallOK == \A o \in Objs :
  /\ pc[o] \in {"fill", "wait", "drop", "free", "clear"} => id[o] # Nobody
  /\ pc[o] \in {"run", "alloc", "entry"} => id[o] = Nobody
  /\ pc[o] \in {"alloc", "clear"} => off[o] = NoMem
  /\ pc[o] = "alloc" => req[o] \in Creates

ScanOK == stats.req # "none" => stats.at # 0

UsedBy(o, i) == id[o] = i \/ stat[o] = i \/ log[o] = i
UsesOK == ~strayed => \A i \in Ids :
  /\ \A o, p \in Objs : UsedBy(o, i) /\ UsedBy(p, i) => o = p
  /\ \A o \in Objs : /\ ~(id[o] = i /\ stat[o] = i)
                     /\ ~(id[o] = i /\ log[o] = i)
                     /\ ~(stat[o] = i /\ log[o] = i)
                     /\ i \in closed => ~UsedBy(o, i)
                     /\ UsedBy(o, i) => live[i]
  /\ i \in closed => live[i]

Apart ==
  /\ \A i, k \in Ids : HasMem(i) /\ HasMem(k) /\ offset[i] = offset[k] => i = k
  /\ VarMem \cap NewMem = {} /\ VarMem \cap leaked = {} /\ NewMem \cap leaked = {}
  /\ Held = VarMem \cup NewMem \cup leaked

\* What deletions by id and chunks without a slot can spoil.
Proper == ChunksOK /\ Apart

IInv == /\ TypeOK /\ Books /\ SemOK /\ CallOK /\ ScanOK
        /\ UsesOK /\ (~strayed /\ ~empty => Proper)

-----------------------------------------------------------------------------
(* The allocator.                                                          *)

MemOK == MemTypeOK /\ Books

\* A chunk in use has an offset, and a slot of its own there if it has any.
LEMMA ChunkInUse ==
  ASSUME MemOK, NEW c \in Slots, chunks[c] # NoChunk
  PROVE  /\ chunks[c] \in Chunk
         /\ ChunksOK => chunks[c].st \in Slots /\ Covers(c, chunks[c].st)
BY SlotsAssumption DEF MemOK, MemTypeOK, ChunksOK, Chunk, Slots, Covers

\* Nothing has no offset.
LEMMA NoMemNotHeld == ASSUME MemOK PROVE NoMem \notin Held
BY ChunkInUse, SlotsAssumption DEF Held, NoMem, Chunk

\* Two chunks that have slots do not have the same offset.
LEMMA OffsetsDiffer ==
  ASSUME MemOK, ChunksOK, NEW c \in Slots, NEW d \in Slots,
         chunks[c] # NoChunk, chunks[d] # NoChunk, chunks[c].st = chunks[d].st
  PROVE  c = d
<1>1. Covers(c, chunks[c].st) /\ Covers(d, chunks[c].st) /\ chunks[c].st \in Slots
  BY ChunkInUse
<1> QED BY <1>1 DEF MemOK, Books

\* A chunk taken on free slots keeps the tables in agreement, and its offset is a
\* new one if it has a slot.
LEMMA TakeKeepsMem ==
  ASSUME MemOK, NEW c \in Slots, NEW st \in 0..NofSlots, NEW end \in 1..NofSlots,
         chunks[c] = NoChunk, Free(st, end), Take(c, st, end)
  PROVE  /\ MemOK' /\ Held' = Held \cup {st}
         /\ ChunksOK /\ st < end => ChunksOK' /\ st \notin Held
<1>0. NofSlots \in Nat
  BY SlotsAssumption DEF Slots
<1>1. MemTypeOK'
  BY <1>0 DEF MemOK, MemTypeOK, Take, Chunk
<1>c. chunks' = [chunks EXCEPT ![c] = [st |-> st, end |-> end]] /\ chunks \in [Slots -> Chunk \cup {NoChunk}]
  BY DEF Take, MemOK, MemTypeOK
<1>d. \A d \in Slots : chunks'[d] = IF d = c THEN [st |-> st, end |-> end] ELSE chunks[d]
  BY <1>c
<1>n. [st |-> st, end |-> end] # NoChunk
  BY <1>0 DEF NoChunk, NoMem
<1>2. ChunksOK /\ st < end => ChunksOK'
  BY <1>d DEF ChunksOK
<1>3. \A d, j \in Slots : Covers(d, j)' <=> IF d = c THEN st <= j /\ j < end ELSE Covers(d, j)
  <2> TAKE d, j \in Slots
  <2>1. CASE d = c
    BY <2>1, <1>d, <1>n DEF Covers
  <2>2. CASE d # c
    BY <2>2, <1>d DEF Covers
  <2> QED BY <2>1, <2>2
<1>4. \A j \in Slots : slots'[j] = (slots[j] \/ (st <= j /\ j < end))
  BY DEF Take
<1>5. \A j \in Slots : ~Covers(c, j)
  BY DEF Covers
<1>6. \A j \in Slots, d \in Slots : st <= j /\ j < end => ~Covers(d, j)
  BY DEF Free, MemOK, Books
<1>7. Books'
  <2>1. ASSUME NEW j \in Slots PROVE slots'[j] <=> \E d \in Slots : Covers(d, j)'
    <3>1. slots[j] <=> \E d \in Slots : Covers(d, j)
      BY DEF MemOK, Books
    <3>2. (\E d \in Slots : Covers(d, j)') <=> (st <= j /\ j < end) \/ \E d \in Slots : Covers(d, j)
      BY <1>3, <1>5
    <3> QED BY <3>1, <3>2, <1>4
  <2>2. ASSUME NEW a \in Slots, NEW b \in Slots, NEW j \in Slots, Covers(a, j)', Covers(b, j)'
        PROVE  a = b
    BY <2>2, <1>3, <1>6 DEF MemOK, Books
  <2> QED BY <2>1, <2>2 DEF Books
<1>8. Held' = Held \cup {st}
  <2>1. {d \in Slots : chunks'[d] # NoChunk} = {d \in Slots : chunks[d] # NoChunk} \cup {c}
    BY <1>d, <1>n
  <2>2. \A d \in Slots : chunks[d] # NoChunk => chunks'[d] = chunks[d]
    BY <1>d
  <2> QED BY <2>1, <2>2, <1>d DEF Held
<1>9. ChunksOK /\ st < end => st \notin Held
  <2>1. SUFFICES ASSUME ChunksOK, st < end, NEW d \in Slots, chunks[d] # NoChunk, chunks[d].st = st
                 PROVE FALSE
    BY DEF Held
  <2>2. Covers(d, st) /\ st \in Slots
    BY <2>1, ChunkInUse
  <2> QED BY <2>1, <2>2, <1>0, <1>6
<1> QED BY <1>1, <1>2, <1>7, <1>8, <1>9 DEF MemOK

\* mem_alloc.
LEMMA AllocKeepsMem ==
  ASSUME MemOK, NEW n \in Nat, NEW m, Alloc(n, m)
  PROVE  /\ MemOK' /\ m \in 0..NofSlots \cup {NoMem}
         /\ Held' = (Held \cup {m}) \ {NoMem}
         /\ ChunksOK /\ ~(GetsNothing(n) /\ m # NoMem) => ChunksOK' /\ m \notin Held
<1>1. CASE m = NoMem /\ UNCHANGED mem
  BY <1>1, NoMemNotHeld DEF mem, MemOK, MemTypeOK, Books, ChunksOK, Covers, Held
<1>2. ASSUME NEW c \in Slots, NEW end \in 1..NofSlots,
             FirstChunk(c), Found(n, m, end), Take(c, m, end)
      PROVE  /\ MemOK' /\ m \in 0..NofSlots \cup {NoMem}
             /\ Held' = (Held \cup {m}) \ {NoMem}
             /\ ChunksOK /\ ~(GetsNothing(n) /\ m # NoMem) => ChunksOK' /\ m \notin Held
  <2>1. m \in 0..end /\ Free(m, end) /\ chunks[c] = NoChunk
    BY <1>2, SlotsAssumption DEF Found, FirstChunk
  <2>2. m \in 0..NofSlots /\ m # NoMem
    BY <2>1, SlotsAssumption DEF NoMem
  <2>3. ~GetsNothing(n) => m < end
    <3>1. CASE n = 0
      BY <1>2, <2>1, <3>1 DEF Found, GetsNothing
    <3>2. CASE n # 0
      BY <1>2, <2>1, <3>2 DEF Found
    <3> QED BY <3>1, <3>2
  <2>4. MemOK' /\ Held' = Held \cup {m} /\ (ChunksOK /\ m < end => ChunksOK' /\ m \notin Held)
    BY <1>2, <2>1, <2>2, TakeKeepsMem
  <2> QED BY <2>2, <2>3, <2>4, NoMemNotHeld
<1> QED BY <1>1, <1>2 DEF Alloc

\* mem_free.
LEMMA FreeKeepsMem ==
  ASSUME MemOK, NEW m, MemFree(m)
  PROVE  /\ MemOK' /\ Held' \subseteq Held
         /\ ChunksOK => ChunksOK' /\ Held' = Held \ {m}
<1>1. CASE ~\E c \in Slots : At(c, m)
  BY <1>1 DEF MemFree, mem, MemOK, MemTypeOK, Books, ChunksOK, Covers, Held, At
<1>2. CASE \E c \in Slots : At(c, m)
  <2>1. PICK c \in Slots : At(c, m) /\ Release(c)
    BY <1>2 DEF MemFree
  <2>c. chunks \in [Slots -> Chunk \cup {NoChunk}] /\ chunks[c] # NoChunk /\ chunks[c].st = m
    BY <2>1 DEF At, MemOK, MemTypeOK
  <2>d. \A d \in Slots : chunks'[d] = IF d = c THEN NoChunk ELSE chunks[d]
    BY <2>1, <2>c DEF Release
  <2>s. \A j \in Slots : slots'[j] = (slots[j] /\ ~Covers(c, j))
    BY <2>1, <2>c DEF Release, Covers
  <2>3. MemTypeOK'
    BY <2>1 DEF Release, MemOK, MemTypeOK
  <2>4. ChunksOK => ChunksOK'
    BY <2>d DEF ChunksOK
  <2>5. \A d, j \in Slots : Covers(d, j)' <=> d # c /\ Covers(d, j)
    BY <2>d DEF Covers
  <2>6. Books'
    BY <2>5, <2>s DEF MemOK, Books
  <2>h. {d \in Slots : chunks'[d] # NoChunk} = {d \in Slots : chunks[d] # NoChunk} \ {c}
    BY <2>d
  <2>7. Held' \subseteq Held
    BY <2>h, <2>d DEF Held
  <2>8. ChunksOK => Held' = Held \ {m}
    <3>1. ChunksOK => \A d \in Slots : chunks[d] # NoChunk /\ d # c => chunks[d].st # m
      BY <2>c, OffsetsDiffer
    <3> QED BY <2>h, <3>1, <2>c, <2>d DEF Held
  <2> QED BY <2>3, <2>4, <2>6, <2>7, <2>8 DEF MemOK
<1> QED BY <1>1, <1>2

-----------------------------------------------------------------------------
(* The types, who is inside the section, and where calls and the round are. *)

Basics == TypeOK /\ Books /\ SemOK /\ CallOK /\ ScanOK

\* Taking from and adding to a queue.
LEMMA Queues ==
  ASSUME NEW S, NEW q \in Seq(S), NEW e
  PROVE  /\ q # <<>> => Head(q) \in S /\ Tail(q) \in Seq(S)
         /\ e \in S => Append(q, e) \in Seq(S)
OBVIOUS

\* A call at another place, and a call that is over, have the types.
CallTypes ==
  /\ pc \in [Objs -> Places]
  /\ req \in [Objs -> Creates \cup {"none"}]
  /\ id \in [Objs -> 0..MaxVars] /\ off \in [Objs -> 0..NofSlots \cup {NoMem}]

LEMMA CallBegins ==
  ASSUME CallTypes, NEW o \in Objs, NEW p \in Places, NEW r \in Creates \cup {"none"},
         NEW i \in 0..MaxVars, NEW m \in 0..NofSlots \cup {NoMem}, Begins(o, p, r, i, m)
  PROVE  /\ CallTypes'
         /\ \A q \in Objs : /\ pc'[q]  = IF q = o THEN p ELSE pc[q]
                            /\ req'[q] = IF q = o THEN r ELSE req[q]
                            /\ id'[q]  = IF q = o THEN i ELSE id[q]
                            /\ off'[q] = IF q = o THEN m ELSE off[q]
BY DEF CallTypes, Begins

LEMMA CallGoesOn ==
  ASSUME CallTypes, NEW o \in Objs,
         \/ Returns(o)
         \/ \E p \in Places : GoesTo(o, p)
  PROVE  CallTypes'
<1>1. CASE Returns(o)
  <2>1. Nobody \in 0..MaxVars /\ "run" \in Places
    BY VarsAssumption DEF Nobody, Places
  <2> QED BY <1>1, <2>1, CallBegins DEF Returns
<1>2. CASE \E p \in Places : GoesTo(o, p)
  BY <1>2 DEF CallTypes, GoesTo
<1> QED BY <1>1, <1>2

\* A step of an object inside the section of sem_var, or into it.
Section == {"alloc", "entry", "fill", "free", "clear"}

LEMMA SectionStep ==
  ASSUME Basics, NEW o \in Objs, NEW p \in Section, NEW r \in Creates \cup {"none"},
         NEW i \in 0..MaxVars, NEW m \in 0..NofSlots \cup {NoMem}, Begins(o, p, r, i, m),
         sem = {} \/ o \in sem, sem' = sem \/ sem' = {o}, o \in sem',
         IF p \in {"alloc", "entry"} THEN i = Nobody ELSE i # Nobody,
         p \in {"alloc", "clear"} => m = NoMem, p = "alloc" => r \in Creates
  PROVE  CallTypes' /\ SemOK' /\ CallOK' /\ sem' = {o}
<1>1. p \in Places /\ CallTypes
  BY DEF Section, Places, Basics, TypeOK, CallTypes
<1>2. CallTypes' /\ \A q \in Objs : /\ pc'[q]  = IF q = o THEN p ELSE pc[q]
                                    /\ req'[q] = IF q = o THEN r ELSE req[q]
                                    /\ id'[q]  = IF q = o THEN i ELSE id[q]
                                    /\ off'[q] = IF q = o THEN m ELSE off[q]
  BY <1>1, CallBegins
<1>3. sem' = {o} /\ \A q \in sem : q = o
  BY DEF Basics, SemOK
<1>4. SemOK'
  BY <1>2, <1>3 DEF Basics, SemOK, Section
<1>5. CallOK'
  BY <1>2 DEF Basics, CallOK, Section
<1> QED BY <1>2, <1>3, <1>4, <1>5

\* An object leaves the section, and its call is over.
LEMMA SectionEnd ==
  ASSUME Basics, NEW o \in Objs, pc[o] \in Section, Returns(o), sem' = sem \ {o}
  PROVE  CallTypes' /\ SemOK' /\ CallOK' /\ sem = {o} /\ sem' = {}
<1>1. "run" \in Places /\ Nobody \in 0..MaxVars /\ CallTypes
  BY VarsAssumption DEF Places, Nobody, Basics, TypeOK, CallTypes
<1>2. CallTypes' /\ \A q \in Objs : /\ pc'[q]  = IF q = o THEN "run" ELSE pc[q]
                                    /\ req'[q] = IF q = o THEN "none" ELSE req[q]
                                    /\ id'[q]  = IF q = o THEN Nobody ELSE id[q]
                                    /\ off'[q] = IF q = o THEN NoMem ELSE off[q]
  BY <1>1, CallBegins DEF Returns
<1>3. sem = {o} /\ sem' = {}
  BY DEF Basics, SemOK, Section
<1>4. SemOK' /\ CallOK'
  BY <1>2, <1>3 DEF Basics, SemOK, CallOK
<1> QED BY <1>2, <1>3, <1>4

\* Every option that somebody writes is one.
LEMMA OptionFacts ==
  /\ Creates \subseteq Options /\ Closes \subseteq Options /\ Answers \subseteq Options
  /\ "none" \in Options /\ "LOGWRITE" \in Options /\ "LOGFLUSHED" \in Options
  /\ "STERR" \in Options
<1>1. Err["STINIT"] = "STERR" /\ "STINIT" \in Inits
  BY DEF Err, Inits
<1>2. "STERR" \in Answers
  BY <1>1 DEF Answers
<1> QED BY <1>2 DEF Options, Requests, Creates, Closes

\* The first state.
LEMMA InitBasics == Init => Basics
<1> SUFFICES ASSUME Init PROVE Basics
  OBVIOUS
<1>0. NofSlots \in Nat \ {0} /\ MaxVars \in Nat \ {0} /\ MaxCalls \in Nat /\ MaxFaults \in Nat
  BY SlotsAssumption, VarsAssumption
<1>1. \A c \in Slots : chunks[c] = NoChunk /\ ~slots[c]
  BY DEF Init, MemInit
<1>2. MemTypeOK
  BY DEF Init, MemInit, MemTypeOK
<1>3. Books
  BY <1>1 DEF Books, Covers
<1>4. TypeOK
  <2>1. toman \in Seq([id : Ids, req : Inits]) /\ tostats \in Seq([id : Ids, opt : Answers])
    BY DEF Init
  <2>2. /\ opts \in [Ids -> Options] /\ offset \in [Ids -> 0..NofSlots \cup {NoMem}]
        /\ stats \in [at : 0..MaxVars, req : Requests \cup {"none", "LOGFLUSHED"}]
    BY <1>0 DEF Init, Options
  <2>3. CallTypes /\ stat \in [Objs -> 0..MaxVars] /\ log \in [Objs -> 0..MaxVars]
    BY <1>0 DEF Init, CallTypes, Nobody, Places
  <2>4. calls \in 0..MaxCalls /\ faults \in 0..MaxFaults
    BY <1>0 DEF Init
  <2> QED BY <2>1, <2>2, <2>3, <2>4, <1>2 DEF Init, TypeOK, CallTypes
<1>5. SemOK /\ CallOK /\ ScanOK
  BY DEF Init, SemOK, CallOK, ScanOK
<1> QED BY <1>3, <1>4, <1>5 DEF Basics

\* Into hwapi_var_create2 and hwapi_var_delete.
LEMMA SectionBegins ==
  ASSUME Basics, NEW o \in Objs, (\E r \in Creates : Create(o, r)) \/ Drop(o)
  PROVE  Basics'
<1>0. NofSlots \in Nat \ {0} /\ MaxVars \in Nat \ {0} /\ MaxCalls \in Nat
  BY SlotsAssumption, VarsAssumption
<1>1. /\ UNCHANGED <<mem, live, opts, offset, stat, log, params, stats, toman, tostats, faults>>
      /\ UNCHANGED <<closed, leaked, strayed, empty>>
      /\ sem = {} /\ sem' = {o} /\ calls' \in 0..MaxCalls
  BY <1>0 DEF Create, Drop, Calls, var_db, owns, daemons, history, Basics, TypeOK
<1>2. CallTypes' /\ SemOK' /\ CallOK'
  <2>1. ASSUME NEW r \in Creates, Create(o, r) PROVE CallTypes' /\ SemOK' /\ CallOK'
    <3>1. Begins(o, "alloc", r, Nobody, NoMem) /\ Nobody \in 0..MaxVars /\ "alloc" \in Section
      BY <1>0, <2>1 DEF Create, Nobody, Section
    <3> QED BY <1>1, <3>1, SectionStep
  <2>2. CASE Drop(o)
    <3>1. id[o] \in Ids /\ id[o] # Nobody /\ req[o] \in Creates \cup {"none"}
      BY <1>0, <2>2 DEF Drop, Basics, TypeOK, CallOK, Ids, Nobody
    <3>2. Begins(o, "free", req[o], id[o], offset[id[o]]) /\ offset[id[o]] \in 0..NofSlots \cup {NoMem}
      BY <2>2, <3>1 DEF Drop, Basics, TypeOK
    <3>3. "free" \in Section /\ id[o] \in 0..MaxVars
      BY DEF Section, Basics, TypeOK
    <3> QED BY <1>1, <3>1, <3>2, <3>3, SectionStep
  <2> QED BY <2>1, <2>2
<1>3. Books' /\ MemTypeOK' /\ ScanOK'
  BY <1>1 DEF mem, Basics, TypeOK, Books, Covers, MemTypeOK, ScanOK
<1>4. TypeOK'
  BY <1>1, <1>2, <1>3 DEF Basics, TypeOK, CallTypes
<1> QED BY <1>2, <1>3, <1>4 DEF Basics

\* The memory for a variable.
LEMMA AllocateBasics ==
  ASSUME Basics, NEW o \in Objs, Allocate(o)
  PROVE  Basics'
<1>0. NofSlots \in Nat \ {0} /\ Nobody \in 0..MaxVars /\ MemOK
  BY SlotsAssumption, VarsAssumption DEF Nobody, Basics, TypeOK, MemOK
<1>1. /\ UNCHANGED <<live, opts, offset, sem, stat, log, params, calls, stats, toman, tostats>>
      /\ UNCHANGED <<faults, closed, leaked, strayed>> /\ pc[o] = "alloc"
  BY DEF Allocate, var_db, owns, daemons
<1>2. req[o] \in Creates \cup {"none"} /\ o \in sem
  BY <1>1 DEF Basics, TypeOK, SemOK
<1>3. PICK n \in Sizes[req[o]], m \in Slots \cup {NofSlots, NoMem} :
        Alloc(n, m) /\ Begins(o, "entry", req[o], Nobody, m)
        /\ empty' = (empty \/ (GetsNothing(n) /\ m # NoMem))
  BY DEF Allocate
<1>4. n \in Nat
  BY <1>1, VarsAssumption DEF Basics, CallOK
<1>5. MemOK' /\ m \in 0..NofSlots \cup {NoMem}
  BY <1>0, <1>3, <1>4, AllocKeepsMem
<1>6. CallTypes' /\ SemOK' /\ CallOK'
  <2>1. "entry" \in Section
    BY DEF Section
  <2> QED BY <1>0, <1>1, <1>2, <1>3, <1>5, <2>1, SectionStep
<1>7. TypeOK'
  BY <1>1, <1>3, <1>5, <1>6 DEF Basics, TypeOK, CallTypes, MemOK
<1> QED BY <1>1, <1>5, <1>6, <1>7 DEF Basics, MemOK, ScanOK

\* The entry for it, if there is one.
LEMMA EnterBasics ==
  ASSUME Basics, NEW o \in Objs, Enter(o)
  PROVE  Basics'
<1>0. MaxVars \in Nat \ {0}
  BY VarsAssumption
<1>1. /\ UNCHANGED <<mem, opts, offset, stat, log, params, calls, stats, toman, tostats>>
      /\ UNCHANGED <<faults, closed, strayed, empty>> /\ pc[o] = "entry"
  BY DEF Enter, owns, daemons
<1>2. req[o] \in Creates \cup {"none"} /\ o \in sem /\ off[o] \in 0..NofSlots \cup {NoMem}
  BY <1>1 DEF Basics, TypeOK, SemOK
<1>3. Books' /\ MemTypeOK' /\ ScanOK'
  BY <1>1 DEF mem, Basics, TypeOK, Books, Covers, MemTypeOK, ScanOK
<1>4. ASSUME NEW i \in Ids, live' = [live EXCEPT ![i] = TRUE],
             Begins(o, "fill", req[o], i, off[o]), UNCHANGED <<sem, leaked>>
      PROVE  Basics'
  <2>1. "fill" \in Section /\ i \in 0..MaxVars /\ i # Nobody
    BY <1>0 DEF Section, Ids, Nobody
  <2>2. CallTypes' /\ SemOK' /\ CallOK'
    BY <1>2, <1>4, <2>1, SectionStep
  <2>3. TypeOK'
    BY <1>1, <1>3, <1>4, <2>2 DEF Basics, TypeOK, CallTypes
  <2> QED BY <1>3, <2>2, <2>3 DEF Basics
<1>5. CASE /\ leaked' = (leaked \cup {off[o]}) \ {NoMem}
           /\ sem' = sem \ {o} /\ Returns(o) /\ UNCHANGED live
  <2>1. CallTypes' /\ SemOK' /\ CallOK'
    BY <1>1, <1>5, SectionEnd DEF Section
  <2>2. TypeOK'
    BY <1>1, <1>2, <1>3, <1>5, <2>1 DEF Basics, TypeOK, CallTypes
  <2> QED BY <1>3, <2>1, <2>2 DEF Basics
<1> QED BY <1>4, <1>5 DEF Enter

\* The two steps inside hwapi_var_delete.
LEMMA GiveBackBasics ==
  ASSUME Basics, NEW o \in Objs, GiveBack(o)
  PROVE  Basics'
<1>1. /\ UNCHANGED <<live, opts, offset, sem, stat, log, params, calls, stats, toman, tostats>>
      /\ UNCHANGED <<faults, closed, leaked, strayed, empty>> /\ pc[o] = "free"
      /\ MemFree(off[o]) /\ Begins(o, "clear", req[o], id[o], NoMem)
  BY DEF GiveBack, var_db, owns, daemons, history
<1>2. /\ req[o] \in Creates \cup {"none"} /\ o \in sem /\ id[o] \in 0..MaxVars /\ id[o] # Nobody
      /\ "clear" \in Section
  BY <1>1 DEF Basics, TypeOK, SemOK, CallOK, Section
<1>3. MemOK'
  BY <1>1, FreeKeepsMem DEF Basics, TypeOK, MemOK
<1>4. CallTypes' /\ SemOK' /\ CallOK'
  BY <1>1, <1>2, SectionStep
<1>5. TypeOK'
  BY <1>1, <1>3, <1>4 DEF Basics, TypeOK, CallTypes, MemOK
<1> QED BY <1>1, <1>3, <1>4, <1>5 DEF Basics, MemOK, ScanOK

LEMMA ClearBasics ==
  ASSUME Basics, NEW o \in Objs, Clear(o)
  PROVE  Basics'
<1>1. /\ UNCHANGED <<mem, opts, offset, stat, log, params, calls, stats, toman, tostats>>
      /\ UNCHANGED <<faults, leaked, strayed, empty>> /\ pc[o] \in Section
      /\ live' = [live EXCEPT ![id[o]] = FALSE] /\ closed' = closed \ {id[o]}
      /\ sem' = sem \ {o} /\ Returns(o)
  BY DEF Clear, owns, daemons, Section
<1>2. CallTypes' /\ SemOK' /\ CallOK'
  BY <1>1, SectionEnd
<1>3. Books' /\ MemTypeOK' /\ ScanOK'
  BY <1>1 DEF mem, Basics, TypeOK, Books, Covers, MemTypeOK, ScanOK
<1>4. TypeOK'
  BY <1>1, <1>2, <1>3 DEF Basics, TypeOK, CallTypes
<1> QED BY <1>2, <1>3, <1>4 DEF Basics

\* hwapi_var_delete, called by STATS.
LEMMA DeleteKeepsMem ==
  ASSUME Basics, NEW i \in Ids, Delete(i)
  PROVE  /\ MemOK' /\ (ChunksOK => ChunksOK' /\ Held' = Held \ {offset[i]})
         /\ live' = [live EXCEPT ![i] = FALSE] /\ UNCHANGED <<opts, offset>>
BY FreeKeepsMem DEF Delete, Basics, TypeOK, MemOK

\* Whatever an object does.
LEMMA ObjectBasics ==
  ASSUME Basics, NEW o \in Objs, GoesOn(o) \/ CallsMade(o) \/ Timeout(o) \/ Kill(o)
  PROVE  Basics'
<1>0. NofSlots \in Nat \ {0} /\ MaxVars \in Nat \ {0} /\ MaxCalls \in Nat /\ MaxFaults \in Nat
  BY SlotsAssumption, VarsAssumption
<1>m. mem' = mem => (MemTypeOK' <=> MemTypeOK) /\ (Books' <=> Books)
  BY DEF mem, MemTypeOK, Books, Covers
<1>1. CASE Fill(o)
  <2>1. id[o] \in Ids /\ o \in sem /\ off[o] \in 0..NofSlots \cup {NoMem}
        /\ req[o] \in Creates \cup {"none"}
    BY <1>0, <1>1 DEF Basics, TypeOK, SemOK, CallOK, Fill, Ids, Nobody
  <2>2. opts' \in [Ids -> Options] /\ offset' \in [Ids -> 0..NofSlots \cup {NoMem}]
    BY <2>1, <1>1, OptionFacts DEF Fill, Basics, TypeOK
  <2>3. sem' \subseteq Objs /\ closed' \subseteq Ids /\ params' \in [Objs -> BOOLEAN]
    BY <2>1, <1>1 DEF Fill, Basics, TypeOK
  <2>4. CallTypes'
    BY <1>1, CallGoesOn DEF CallTypes, Basics, TypeOK, Fill, Places
  <2>5. TypeOK'
    BY <2>2, <2>3, <2>4, <1>m, <1>1 DEF Fill, Basics, TypeOK, CallTypes, daemons
  <2>6. sem' = {} /\ UNCHANGED <<mem, stats>>
    BY <2>1, <1>1 DEF Fill, Basics, SemOK, TypeOK, daemons
  <2>7. \A p \in Objs : pc[p] \in Section => p = o
    BY <2>1 DEF Basics, SemOK, Section
  <2>8. Returns(o) \/ GoesTo(o, "wait")
    BY <1>1 DEF Fill
  <2>9. SemOK' /\ CallOK'
    <3>1. CASE Returns(o)
      BY <3>1, <1>1, SectionEnd DEF Fill, Section
    <3>2. CASE GoesTo(o, "wait")
      BY <3>2, <2>1, <2>6, <2>7, <1>0 DEF Basics, TypeOK, SemOK, CallOK, GoesTo, Ids, Nobody, Section
    <3> QED BY <2>8, <3>1, <3>2
  <2> QED BY <2>5, <2>6, <2>9, <1>m DEF Basics, ScanOK
<1>2. CASE Ready(o)
  <2>1. /\ UNCHANGED <<live, opts, offset, sem, calls, stats, toman, tostats, faults>>
        /\ UNCHANGED <<closed, leaked, strayed, empty, mem>> /\ pc[o] = "wait"
    BY <1>2 DEF Ready, var_db, daemons, history
  <2>2. Returns(o) \/ GoesTo(o, "drop")
    BY <1>2 DEF Ready
  <2>3. CallTypes'
    BY <2>2, CallGoesOn DEF CallTypes, Basics, TypeOK, Places
  <2>4. stat' \in [Objs -> 0..MaxVars] /\ log' \in [Objs -> 0..MaxVars] /\ params' \in [Objs -> BOOLEAN]
    <3>1. \/ stat' = [stat EXCEPT ![o] = id[o]] /\ UNCHANGED <<log, params>>
          \/ log' = [log EXCEPT ![o] = id[o]] /\ UNCHANGED <<stat, params>>
          \/ /\ \E b \in BOOLEAN : params' = [params EXCEPT ![o] = b]
             /\ UNCHANGED <<stat, log>>
      BY <1>2 DEF Ready, Basics, TypeOK
    <3>2. id[o] \in 0..MaxVars
      BY DEF Basics, TypeOK
    <3> QED BY <3>1, <3>2 DEF Basics, TypeOK
  <2>5. TypeOK'
    BY <2>1, <2>3, <2>4, <1>m DEF Basics, TypeOK, CallTypes
  <2>6. SemOK' /\ CallOK'
    <3>1. o \notin sem /\ pc \in [Objs -> Places]
          /\ id \in [Objs -> 0..MaxVars]
      BY <2>1 DEF Basics, SemOK, TypeOK
    <3>2. CASE Returns(o)
      BY <3>1, <3>2, <2>1 DEF Basics, SemOK, CallOK, TypeOK, Returns, Begins
    <3>3. CASE GoesTo(o, "drop")
      BY <3>1, <3>3, <2>1 DEF Basics, SemOK, CallOK, TypeOK, GoesTo
    <3> QED BY <2>2, <3>2, <3>3
  <2> QED BY <2>1, <2>5, <2>6, <1>m DEF Basics, TypeOK, ScanOK
<1>4. CASE CloseStat(o) \/ CloseLog(o) \/ FlushLogs(o)
  <2>1. /\ UNCHANGED <<mem, sem, pc, req, id, off, params, stats, toman, tostats, faults, leaked, strayed, empty>>
        /\ UNCHANGED <<live, offset>>
    BY <1>4 DEF CloseStat, CloseLog, FlushLogs, SetOpt, call, owns, daemons, history
  <2>2. calls' \in 0..MaxCalls
    BY <1>0, <1>4 DEF CloseStat, CloseLog, FlushLogs, Calls, Basics, TypeOK
  <2>3. /\ opts' \in [Ids -> Options] /\ closed' \subseteq Ids
        /\ stat' \in [Objs -> 0..MaxVars] /\ log' \in [Objs -> 0..MaxVars]
    <3>1. {"STCLOSE", "LOGCLOSE", "LOGWRITE"} \subseteq Options
      BY OptionFacts DEF Closes
    <3>2. stat[o] # Nobody => stat[o] \in Ids
      BY <1>0 DEF Basics, TypeOK, Ids, Nobody
    <3>3. log[o] # Nobody => log[o] \in Ids
      BY <1>0 DEF Basics, TypeOK, Ids, Nobody
    <3>4. Nobody \in 0..MaxVars
      BY <1>0 DEF Nobody
    <3>5. CASE CloseStat(o)
      BY <3>5, <3>1, <3>2, <3>4 DEF CloseStat, SetOpt, Basics, TypeOK
    <3>6. CASE CloseLog(o)
      BY <3>6, <3>1, <3>3, <3>4 DEF CloseLog, SetOpt, Basics, TypeOK
    <3>7. CASE FlushLogs(o)
      BY <3>7, <3>1 DEF FlushLogs, SetOpt, Basics, TypeOK, owns, history
    <3> QED BY <1>4, <3>5, <3>6, <3>7
  <2>4. TypeOK'
    BY <2>1, <2>2, <2>3, <1>m DEF Basics, TypeOK
  <2> QED BY <2>1, <2>4, <1>m DEF Basics, SemOK, CallOK, ScanOK
<1>5. CASE Timeout(o) \/ Kill(o)
  <2>1. /\ UNCHANGED <<live, opts, offset, sem, calls, stats, toman, tostats>>
        /\ UNCHANGED <<closed, leaked, strayed, empty, mem, stat, log, params, req, id, off>>
    BY <1>5 DEF Timeout, Kill, GoesTo, var_db, owns, daemons, history
  <2>2. faults' \in 0..MaxFaults
    BY <1>0, <1>5 DEF Timeout, Kill, Fault, Basics, TypeOK
  <2>3. \/ pc[o] = "wait" /\ pc' = [pc EXCEPT ![o] = "drop"]
        \/ pc' = [pc EXCEPT ![o] = "dead"]
    BY <1>5 DEF Timeout, Kill, GoesTo
  <2>4. TypeOK'
    BY <2>1, <2>2, <2>3, <1>m DEF Basics, TypeOK, Places
  <2>5. SemOK' /\ CallOK'
    <3>1. pc \in [Objs -> Places] /\ sem \subseteq Objs
      BY DEF Basics, TypeOK
    <3>2. CASE pc[o] = "wait" /\ pc' = [pc EXCEPT ![o] = "drop"]
      BY <3>1, <3>2, <2>1 DEF Basics, SemOK, CallOK
    <3>3. CASE pc' = [pc EXCEPT ![o] = "dead"]
      BY <3>1, <3>3, <2>1 DEF Basics, SemOK, CallOK
    <3> QED BY <2>3, <3>2, <3>3
  <2> QED BY <2>1, <2>4, <2>5, <1>m DEF Basics, TypeOK, ScanOK
<1> QED BY <1>1, <1>2, <1>4, <1>5, SectionBegins, AllocateBasics, EnterBasics, GiveBackBasics,
           ClearBasics DEF GoesOn, CallsMade

\* Whatever STATS does.
LEMMA StatsBasics ==
  ASSUME Basics, Stats
  PROVE  Basics'
<1>0. NofSlots \in Nat \ {0} /\ MaxVars \in Nat \ {0} /\ MaxCalls \in Nat /\ MaxFaults \in Nat
  BY SlotsAssumption, VarsAssumption
<1>m. mem' = mem => (MemTypeOK' <=> MemTypeOK) /\ (Books' <=> Books)
  BY DEF mem, MemTypeOK, Books, Covers
<1>o. /\ UNCHANGED <<sem, pc, req, id, off, stat, log, params, calls, faults, leaked, empty>>
      /\ SemOK' /\ CallOK'
  BY DEF Stats, Answer, Look, Serve, Close, LogRead, LogFlushed, objects, call, owns, history,
     Basics, SemOK, CallOK
<1>n. /\ NextEntry \in [at : 0..MaxVars, req : {"none"}]
      /\ stats.at \in 0..MaxVars /\ stats.req \in Requests \cup {"none", "LOGFLUSHED"}
      /\ stats.req # "none" => stats.at \in Ids
  BY <1>0 DEF NextEntry, Basics, TypeOK, Ids, ScanOK
<1>1. CASE Answer
  <2>1. Head(tostats) \in [id : Ids, opt : Answers] /\ Tail(tostats) \in Seq([id : Ids, opt : Answers])
    BY <1>1, Queues DEF Answer, Basics, TypeOK
  <2>2. opts' \in [Ids -> Options] /\ UNCHANGED <<live, offset, mem, stats, toman, closed>>
    BY <2>1, <1>1 DEF Answer, SetOpt, var_db, Basics, TypeOK, Options
  <2>3. strayed' \in BOOLEAN /\ tostats' \in Seq([id : Ids, opt : Answers])
    BY <2>1, <1>1 DEF Answer
  <2>4. TypeOK'
    BY <2>2, <2>3, <1>o, <1>m DEF Basics, TypeOK
  <2> QED BY <2>2, <2>4, <1>o, <1>m DEF Basics, ScanOK
<1>2. CASE Look
  <2>1. UNCHANGED <<mem, live, opts, offset, toman, tostats, closed, strayed>>
    BY <1>2 DEF Look, var_db, history
  <2>2. stats' \in [at : 0..MaxVars, req : Requests \cup {"none", "LOGFLUSHED"}] /\ ScanOK'
    BY <1>2, <1>n DEF Look, Wanted, ScanOK
  <2>3. TypeOK'
    BY <2>1, <2>2, <1>o, <1>m DEF Basics, TypeOK
  <2> QED BY <2>1, <2>2, <2>3, <1>o, <1>m DEF Basics
<1>3. CASE Serve
  <2>1. UNCHANGED <<mem, tostats, closed>> /\ stats' = NextEntry /\ stats.req \in Inits /\ stats.at \in Ids
    BY <1>3, <1>n DEF Serve, Inits
  <2>2. opts' \in [Ids -> Options] /\ UNCHANGED <<live, offset>>
    <3>1. \/ UNCHANGED var_db \/ SetOpt(stats.at, "STERR") \/ SetOpt(stats.at, "none")
      BY <1>3 DEF Serve
    <3>2. ASSUME NEW opt \in Options, SetOpt(stats.at, opt)
          PROVE  opts' \in [Ids -> Options] /\ UNCHANGED <<live, offset>>
      BY <2>1, <3>2 DEF SetOpt, Basics, TypeOK
    <3>3. CASE UNCHANGED var_db
      BY <3>3 DEF var_db, Basics, TypeOK
    <3> QED BY <3>1, <3>2, <3>3, OptionFacts
  <2>3. toman' \in Seq([id : Ids, req : Inits]) /\ strayed' \in BOOLEAN
    <3>1. [id |-> stats.at, req |-> stats.req] \in [id : Ids, req : Inits]
      BY <2>1
    <3>2. Append(toman, [id |-> stats.at, req |-> stats.req]) \in Seq([id : Ids, req : Inits])
      BY <3>1, Queues DEF Basics, TypeOK
    <3> QED BY <3>2, <1>3 DEF Serve, Basics, TypeOK
  <2>4. TypeOK'
    BY <2>1, <2>2, <2>3, <1>n, <1>o, <1>m DEF Basics, TypeOK
  <2> QED BY <2>1, <2>4, <1>n, <1>o, <1>m DEF Basics, ScanOK
<1>4. CASE Close
  <2>1. UNCHANGED <<toman, tostats>> /\ stats' = NextEntry /\ stats.at \in Ids
    BY <1>4, <1>n DEF Close, Closes
  <2>2. /\ live' \in [Ids -> BOOLEAN] /\ UNCHANGED <<opts, offset>> /\ MemOK'
        /\ closed' \subseteq Ids /\ strayed' \in BOOLEAN
    <3>1. CASE Delete(stats.at) /\ closed' = closed \ {stats.at}
               /\ strayed' = (strayed \/ stats.at \notin closed)
      BY <3>1, <2>1, DeleteKeepsMem DEF Basics, TypeOK
    <3>2. CASE UNCHANGED <<mem, var_db, closed, strayed>>
      BY <3>2, <1>m DEF Basics, TypeOK, MemOK, var_db
    <3> QED BY <1>4, <3>1, <3>2 DEF Close
  <2>3. TypeOK'
    BY <2>1, <2>2, <1>n, <1>o DEF Basics, TypeOK, MemOK
  <2> QED BY <2>1, <2>2, <2>3, <1>n, <1>o DEF Basics, ScanOK, MemOK
<1>5. CASE LogRead
  <2>1. UNCHANGED <<mem, live, opts, offset, toman, tostats, closed, strayed>>
    BY <1>5 DEF LogRead, var_db, history
  <2>2. stats' \in [at : 0..MaxVars, req : Requests \cup {"none", "LOGFLUSHED"}] /\ ScanOK'
    BY <1>5, <1>n, <1>0 DEF LogRead, ScanOK, Ids
  <2>3. TypeOK'
    BY <2>1, <2>2, <1>o, <1>m DEF Basics, TypeOK
  <2> QED BY <2>1, <2>2, <2>3, <1>o, <1>m DEF Basics
<1>6. CASE LogFlushed
  <2>1. UNCHANGED <<mem, toman, tostats, closed, live, offset>> /\ stats' = NextEntry /\ stats.at \in Ids
    BY <1>6, <1>n DEF LogFlushed, SetOpt
  <2>2. opts' \in [Ids -> Options] /\ strayed' \in BOOLEAN
    BY <2>1, <1>6 DEF LogFlushed, SetOpt, Basics, TypeOK, Options
  <2>3. TypeOK'
    BY <2>1, <2>2, <1>n, <1>o, <1>m DEF Basics, TypeOK
  <2> QED BY <2>1, <2>3, <1>n, <1>o, <1>m DEF Basics, ScanOK
<1> QED BY <1>1, <1>2, <1>3, <1>4, <1>5, <1>6 DEF Stats

\* STATSMAN's answer.
LEMMA StatsmanBasics ==
  ASSUME Basics, Statsman
  PROVE  Basics'
<1>1. Head(toman) \in [id : Ids, req : Inits] /\ Tail(toman) \in Seq([id : Ids, req : Inits])
  BY Queues DEF Statsman, Basics, TypeOK
<1>2. \A m \in [id : Ids, req : Inits] : Ok[m.req] \in Answers /\ Err[m.req] \in Answers
  BY DEF Answers
<1>3. toman' \in Seq([id : Ids, req : Inits]) /\ tostats' \in Seq([id : Ids, opt : Answers])
  <2>1. \A a \in Answers :
          Append(tostats, [id |-> Head(toman).id, opt |-> a]) \in Seq([id : Ids, opt : Answers])
    <3> TAKE a \in Answers
    <3>1. [id |-> Head(toman).id, opt |-> a] \in [id : Ids, opt : Answers]
      BY <1>1
    <3> QED BY <3>1, Queues DEF Basics, TypeOK
  <2>2. Ok[Head(toman).req] \in Answers /\ Err[Head(toman).req] \in Answers
    BY <1>1, <1>2
  <2> QED BY <1>1, <2>1, <2>2 DEF Statsman
<1>4. UNCHANGED <<mem, live, opts, offset, sem, pc, req, id, off, stat, log, params, calls,
                  faults, stats, closed, leaked, strayed, empty>>
  BY DEF Statsman, var_db, objects, call, owns, history
<1>5. TypeOK'
  BY <1>3, <1>4 DEF Basics, TypeOK, MemTypeOK, mem
<1> QED BY <1>4, <1>5 DEF Basics, Books, Covers, SemOK, CallOK, ScanOK, mem

\* Nothing happens.
LEMMA StutterBasics == Basics /\ UNCHANGED vars => Basics'
BY DEF vars, mem, var_db, call, owns, daemons, history, Basics, TypeOK, MemTypeOK, Books, Covers,
   SemOK, CallOK, ScanOK

\* Any step.
LEMMA NextBasics == Basics /\ [Next]_vars => Basics'
BY ObjectBasics, StatsBasics, StatsmanBasics, StutterBasics DEF Next

-----------------------------------------------------------------------------
(* Whose ids are whose.                                                    *)

\* Nobody but the object o and the daemons does anything, and o has no id that
\* it had not, and asks for the end only of what it had and does not use again.
LEMMA UsesShrink ==
  ASSUME TypeOK, UsesOK, NEW o \in Objs,
         strayed' = strayed, live' = live,
         \A p \in Objs \ {o} : id'[p] = id[p] /\ stat'[p] = stat[p] /\ log'[p] = log[p],
         \A i \in Ids : UsedBy(o, i)' => UsedBy(o, i) /\ i \notin closed',
         \A i \in Ids : ~(id'[o] = i /\ stat'[o] = i) /\ ~(id'[o] = i /\ log'[o] = i)
                        /\ ~(stat'[o] = i /\ log'[o] = i),
         \A i \in closed' : i \in closed \/ UsedBy(o, i)
  PROVE  UsesOK'
<1> SUFFICES ASSUME ~strayed', NEW i \in Ids
    PROVE  /\ \A p, q \in Objs : UsedBy(p, i)' /\ UsedBy(q, i)' => p = q
           /\ \A p \in Objs : /\ ~(id'[p] = i /\ stat'[p] = i)
                              /\ ~(id'[p] = i /\ log'[p] = i)
                              /\ ~(stat'[p] = i /\ log'[p] = i)
                              /\ i \in closed' => ~UsedBy(p, i)'
                              /\ UsedBy(p, i)' => live'[i]
           /\ i \in closed' => live'[i]
  BY DEF UsesOK
<1>1. /\ \A p, q \in Objs : UsedBy(p, i) /\ UsedBy(q, i) => p = q
      /\ \A p \in Objs : /\ ~(id[p] = i /\ stat[p] = i)
                         /\ ~(id[p] = i /\ log[p] = i)
                         /\ ~(stat[p] = i /\ log[p] = i)
                         /\ i \in closed => ~UsedBy(p, i)
                         /\ UsedBy(p, i) => live[i]
      /\ i \in closed => live[i]
  BY DEF UsesOK
<1>2. \A p \in Objs \ {o} : UsedBy(p, i)' <=> UsedBy(p, i)
  BY DEF UsedBy
<1>3. \A p \in Objs : UsedBy(p, i)' => UsedBy(p, i)
  BY <1>2
<1> QED BY <1>1, <1>2, <1>3

\* STATS deletes a variable only if its owner has asked for that.
LEMMA StatsUses ==
  ASSUME Basics, UsesOK, Stats \/ Statsman
  PROVE  UsesOK'
<1>1. UNCHANGED <<id, stat, log>>
  BY DEF Stats, Answer, Look, Serve, Close, LogRead, LogFlushed, Statsman, objects, call, owns
<1>2. CASE UNCHANGED <<live, closed>> /\ (~strayed' => ~strayed)
  BY <1>1, <1>2 DEF UsesOK, UsedBy
<1>3. CASE Close /\ Delete(stats.at) /\ closed' = closed \ {stats.at}
           /\ strayed' = (strayed \/ stats.at \notin closed)
  <2>1. live \in [Ids -> BOOLEAN] /\ live' = [live EXCEPT ![stats.at] = FALSE]
    BY <1>3 DEF Delete, Basics, TypeOK
  <2>2. SUFFICES ASSUME ~strayed' PROVE UsesOK'
    BY DEF UsesOK
  <2>3. ~strayed /\ stats.at \in closed /\ closed \subseteq Ids
    BY <1>3, <2>2 DEF Basics, TypeOK
  <2>4. \A p \in Objs : ~UsedBy(p, stats.at)
    BY <2>3 DEF UsesOK
  <2>5. \A i \in Ids : live'[i] <=> live[i] /\ i # stats.at
    BY <2>1
  <2>6. \A p \in Objs, i \in Ids : UsedBy(p, i)' <=> UsedBy(p, i)
    BY <1>1 DEF UsedBy
  <2>7. ASSUME NEW i \in Ids
        PROVE  /\ \A p, q \in Objs : UsedBy(p, i)' /\ UsedBy(q, i)' => p = q
               /\ \A p \in Objs : /\ ~(id'[p] = i /\ stat'[p] = i)
                                  /\ ~(id'[p] = i /\ log'[p] = i)
                                  /\ ~(stat'[p] = i /\ log'[p] = i)
                                  /\ i \in closed' => ~UsedBy(p, i)'
                                  /\ UsedBy(p, i)' => live'[i]
               /\ i \in closed' => live'[i]
    BY <1>1, <1>3, <2>3, <2>4, <2>5, <2>6 DEF UsesOK
  <2> QED BY <2>7 DEF UsesOK
<1>4. CASE ~Close \/ UNCHANGED <<mem, var_db, closed, strayed>>
  <2>1. UNCHANGED <<live, closed>> /\ (~strayed' => ~strayed)
    <3>1. CASE Answer \/ LogFlushed
      BY <3>1 DEF Answer, LogFlushed, SetOpt, var_db
    <3>2. CASE Look \/ LogRead \/ Statsman
      BY <3>2 DEF Look, LogRead, Statsman, var_db, history
    <3>3. CASE Serve
      BY <3>3 DEF Serve, SetOpt, var_db
    <3>4. CASE UNCHANGED <<mem, var_db, closed, strayed>>
      BY <3>4 DEF var_db
    <3> QED BY <1>4, <3>1, <3>2, <3>3, <3>4 DEF Stats
  <2> QED BY <2>1, <1>2
<1> QED BY <1>3, <1>4 DEF Close

\* An object takes an id that nobody has, and gives up each of its ids before or
\* when the variable goes.
LEMMA ObjectUses ==
  ASSUME Basics, UsesOK, NEW o \in Objs, GoesOn(o) \/ CallsMade(o) \/ Timeout(o) \/ Kill(o)
  PROVE  UsesOK'
<1>0. TypeOK /\ Nobody \notin Ids
  BY DEF Basics, Nobody, Ids
<1>t. /\ id \in [Objs -> 0..MaxVars] /\ stat \in [Objs -> 0..MaxVars] /\ log \in [Objs -> 0..MaxVars]
      /\ live \in [Ids -> BOOLEAN]
  BY <1>0 DEF TypeOK
<1>1. CASE Enter(o)
  <2>1. UNCHANGED <<stat, log, closed, strayed>> /\ pc[o] = "entry"
    BY <1>1 DEF Enter, owns
  <2>2. CASE Returns(o) /\ UNCHANGED live
    <3>1. id' = id
      BY <2>1, <2>2, <1>t DEF Returns, Begins, Basics, CallOK
    <3> QED BY <2>1, <2>2, <3>1 DEF UsesOK, UsedBy
  <2>3. ASSUME NEW i \in Ids, FirstEntry(i), live' = [live EXCEPT ![i] = TRUE],
               id' = [id EXCEPT ![o] = i]
        PROVE  UsesOK'
    <3>1. SUFFICES ASSUME ~strayed PROVE UsesOK'
      BY <2>1 DEF UsesOK
    <3>2. id[o] = Nobody /\ ~live[i]
      BY <2>1, <2>3 DEF Basics, CallOK, FirstEntry
    <3>3. i \notin closed /\ \A p \in Objs : ~UsedBy(p, i)
      BY <3>1, <3>2 DEF UsesOK
    <3>4. \A p \in Objs, k \in Ids : UsedBy(p, k)' <=> UsedBy(p, k) \/ (p = o /\ k = i)
      BY <2>1, <2>3, <3>2, <1>0, <1>t DEF UsedBy
    <3>5. \A k \in Ids : live'[k] <=> live[k] \/ k = i
      BY <2>3, <1>t
    <3>6. \A p \in Objs : id'[p] = (IF p = o THEN i ELSE id[p])
      BY <2>3, <1>t
    <3>7. stat[o] # i /\ log[o] # i
      BY <3>3 DEF UsedBy
    <3>8. ASSUME NEW k \in Ids, NEW p \in Objs
          PROVE  /\ \A q \in Objs : UsedBy(p, k)' /\ UsedBy(q, k)' => p = q
                 /\ k \in closed' => ~UsedBy(p, k)'
                 /\ UsedBy(p, k)' => live'[k]
      BY <2>1, <3>1, <3>3, <3>4, <3>5 DEF UsesOK
    <3>9. ASSUME NEW k \in Ids, NEW p \in Objs
          PROVE  /\ ~(id'[p] = k /\ stat'[p] = k)
                 /\ ~(id'[p] = k /\ log'[p] = k)
                 /\ ~(stat'[p] = k /\ log'[p] = k)
      BY <2>1, <3>1, <3>6, <3>7 DEF UsesOK
    <3>10. \A k \in Ids : k \in closed' => live'[k]
      BY <2>1, <3>1, <3>5 DEF UsesOK
    <3> QED BY <3>8, <3>9, <3>10 DEF UsesOK
  <2> QED BY <1>1, <2>2, <2>3 DEF Enter, Begins
<1>2. CASE Fill(o) \/ Ready(o)
  <2>1. /\ UNCHANGED <<live, strayed>>
        /\ \A p \in Objs \ {o} : id'[p] = id[p] /\ stat'[p] = stat[p] /\ log'[p] = log[p]
    BY <1>2, <1>t DEF Fill, Ready, Returns, Begins, GoesTo, var_db, history
  <2>2. CASE UNCHANGED <<id, stat, log, closed>>
    BY <2>1, <2>2 DEF UsesOK, UsedBy
  <2>3. CASE Fill(o) /\ Returns(o)
    <3>1. id'[o] = Nobody /\ closed' = closed \cup {id[o]} /\ UNCHANGED <<stat, log>>
      BY <1>t, <2>3 DEF Fill, Returns, Begins, GoesTo, Basics, SemOK, TypeOK
    <3>2. CASE strayed
      BY <3>2, <2>1 DEF UsesOK
    <3>3. CASE ~strayed
      BY <3>1, <3>3, <2>1, <1>0, UsesShrink DEF UsesOK, UsedBy
    <3> QED BY <3>2, <3>3
  <2>4. CASE Ready(o) /\ Returns(o)
    <3>1. /\ id'[o] = Nobody /\ closed' = closed
          /\ \/ stat'[o] = id[o] /\ log' = log
             \/ log'[o] = id[o] /\ stat' = stat
      BY <1>t, <2>4 DEF Ready, Returns, Begins, GoesTo, Basics, TypeOK, history
    <3>2. CASE strayed
      BY <3>2, <2>1 DEF UsesOK
    <3>3. CASE ~strayed
      BY <3>1, <3>3, <2>1, <1>0, UsesShrink DEF UsesOK, UsedBy
    <3> QED BY <3>2, <3>3
  <2> QED BY <1>2, <2>2, <2>3, <2>4 DEF Fill, Ready, GoesTo, history
<1>3. CASE Clear(o)
  <2>1. /\ live' = [live EXCEPT ![id[o]] = FALSE] /\ closed' = closed \ {id[o]}
        /\ UNCHANGED <<stat, log, strayed>> /\ id' = [id EXCEPT ![o] = Nobody] /\ id[o] \in Ids
    BY <1>3, <1>t DEF Clear, Returns, Begins, owns, Basics, CallOK, Nobody, Ids
  <2>2. \A p \in Objs, i \in Ids : UsedBy(p, i)' => UsedBy(p, i)
    BY <2>1, <1>0, <1>t DEF UsedBy
  <2>3. ~strayed => \A i \in Ids, p \in Objs : UsedBy(p, i)' => i # id[o]
    <3> SUFFICES ASSUME ~strayed, NEW i \in Ids, NEW p \in Objs, UsedBy(p, i)', i = id[o] PROVE FALSE
      OBVIOUS
    <3>1. UsedBy(p, i) /\ UsedBy(o, i)
      BY <2>1, <2>2 DEF UsedBy
    <3>2. p = o
      BY <2>1, <3>1 DEF UsesOK
    <3>3. id'[o] = Nobody /\ id[o] # Nobody /\ stat[o] # id[o] /\ log[o] # id[o]
      BY <2>1, <1>0, <1>t DEF UsesOK
    <3> QED BY <2>1, <3>2, <3>3 DEF UsedBy
  <2>4. \A i \in Ids : live'[i] <=> live[i] /\ i # id[o]
    BY <2>1, <1>t
  <2>5. \A p \in Objs : id'[p] = IF p = o THEN Nobody ELSE id[p]
    BY <2>1, <1>t
  <2>6. SUFFICES ASSUME ~strayed PROVE UsesOK'
    BY <2>1 DEF UsesOK
  <2>7. ASSUME NEW k \in Ids, NEW p \in Objs
        PROVE  /\ \A q \in Objs : UsedBy(p, k)' /\ UsedBy(q, k)' => p = q
               /\ k \in closed' => ~UsedBy(p, k)'
               /\ UsedBy(p, k)' => live'[k]
    <3>1. UsedBy(p, k)' => k # id[o]
      BY <2>3, <2>6
    <3>2. UsedBy(p, k) => live[k] /\ k \notin closed
      BY <2>6 DEF UsesOK
    <3>3. \A q \in Objs : UsedBy(p, k) /\ UsedBy(q, k) => p = q
      BY <2>6 DEF UsesOK
    <3> QED BY <2>1, <2>2, <2>4, <3>1, <3>2, <3>3
  <2>8. ASSUME NEW k \in Ids, NEW p \in Objs
        PROVE  /\ ~(id'[p] = k /\ stat'[p] = k)
               /\ ~(id'[p] = k /\ log'[p] = k)
               /\ ~(stat'[p] = k /\ log'[p] = k)
    BY <2>1, <2>5, <2>6, <1>0 DEF UsesOK
  <2>9. \A k \in Ids : k \in closed' => live'[k]
    BY <2>1, <2>4, <2>6 DEF UsesOK
  <2> QED BY <2>7, <2>8, <2>9 DEF UsesOK
<1>4. CASE CloseStat(o) \/ CloseLog(o)
  <2>1. /\ UNCHANGED <<live, strayed, id>>
        /\ \A p \in Objs \ {o} : id'[p] = id[p] /\ stat'[p] = stat[p] /\ log'[p] = log[p]
        /\ \/ stat'[o] = Nobody /\ log' = log /\ closed' = closed \cup {stat[o]}
           \/ log'[o] = Nobody /\ stat' = stat /\ closed' = closed \cup {log[o]}
    BY <1>4, <1>t DEF CloseStat, CloseLog, SetOpt, call
  <2>2. CASE strayed
    BY <2>2, <2>1 DEF UsesOK
  <2>3. CASE ~strayed
    BY <2>1, <2>3, <1>0, UsesShrink DEF UsesOK, UsedBy
  <2> QED BY <2>2, <2>3
<1>5. CASE FlushLogs(o) \/ Timeout(o) \/ Kill(o)
  <2>1. UNCHANGED <<live, strayed, id, stat, log, closed>>
    BY <1>5 DEF FlushLogs, Timeout, Kill, SetOpt, GoesTo, call, owns, var_db, history
  <2> QED BY <2>1 DEF UsesOK, UsedBy
<1>6. CASE (\E r \in Creates : Create(o, r)) \/ Allocate(o) \/ Drop(o) \/ GiveBack(o)
  <2>1. UNCHANGED <<live, strayed, stat, log, closed>>
    BY <1>6 DEF Create, Allocate, Drop, GiveBack, var_db, owns, history
  <2>2. id' = id
    BY <1>6, <1>t DEF Create, Calls, Allocate, Drop, GiveBack, Begins, Basics, CallOK
  <2> QED BY <2>1, <2>2 DEF UsesOK, UsedBy
<1> QED BY <1>1, <1>2, <1>3, <1>4, <1>5, <1>6 DEF GoesOn, CallsMade

-----------------------------------------------------------------------------
(* Whose memory is whose.                                                  *)

\* Steps that leave the tables and what is inside the section as they are.
LEMMA ApartStays ==
  ASSUME Apart, mem' = mem, UNCHANGED <<live, offset, sem, leaked>>,
         \A o \in sem : id'[o] = id[o] /\ off'[o] = off[o]
  PROVE  Apart'
<1>1. \A i \in Ids : HasMem(i)' <=> HasMem(i)
  BY DEF HasMem, Filled
<1>2. VarMem' = VarMem
  BY <1>1 DEF VarMem
<1>3. NewMem' = NewMem
  BY DEF NewMem
<1>4. Held' = Held
  BY DEF mem, Held
<1> QED BY <1>1, <1>2, <1>3, <1>4 DEF Apart

LEMMA ProperStays ==
  ASSUME Proper, mem' = mem, UNCHANGED <<live, offset, sem, leaked>>,
         \A o \in sem : id'[o] = id[o] /\ off'[o] = off[o]
  PROVE  Proper'
BY ApartStays DEF Proper, ChunksOK, mem

\* STATS deletes a variable that it may delete, while nobody is in the section.
LEMMA ApartDelete ==
  ASSUME Basics, ChunksOK, Apart, NEW i \in Ids, live[i], Delete(i), sem = {}, sem' = {}, leaked' = leaked
  PROVE  Apart'
<1>1. /\ Held' = Held \ {offset[i]} /\ offset' = offset
      /\ live \in [Ids -> BOOLEAN] /\ live' = [live EXCEPT ![i] = FALSE]
      /\ NoMem \notin Held
  BY DeleteKeepsMem, NoMemNotHeld DEF Basics, TypeOK, MemOK
<1>2. \A k \in Ids : /\ HasMem(k) <=> live[k] /\ offset[k] # NoMem
                     /\ HasMem(k)' <=> live[k] /\ k # i /\ offset[k] # NoMem
  BY <1>1 DEF HasMem, Filled
<1>3. VarMem' = VarMem \ {offset[i]}
  <2>1. \A k \in Ids : HasMem(k)' <=> HasMem(k) /\ k # i
    BY <1>2
  <2>2. \A k \in Ids : HasMem(k) /\ offset[k] = offset[i] => k = i
    BY <1>2 DEF Apart
  <2> QED BY <2>1, <2>2, <1>1 DEF VarMem
<1>4. NewMem = {} /\ NewMem' = {}
  BY DEF NewMem
<1>5. offset[i] # NoMem => offset[i] \in VarMem
  BY <1>2 DEF VarMem
<1>6. offset[i] \notin leaked \/ offset[i] = NoMem
  BY <1>5 DEF Apart
<1>7. Held' = VarMem' \cup leaked
  BY <1>1, <1>3, <1>4, <1>6 DEF Apart
<1>8. \A k, l \in Ids : HasMem(k)' /\ HasMem(l)' /\ offset[k] = offset[l] => k = l
  BY <1>2 DEF Apart
<1> QED BY <1>1, <1>3, <1>4, <1>7, <1>8 DEF Apart

\* The memory for a new variable is nobody's.
LEMMA AllocateApart ==
  ASSUME Basics, Proper, NEW o \in Objs, Allocate(o), ~empty'
  PROVE  Proper'
<1>0. MemOK /\ ChunksOK /\ Apart
  BY DEF Basics, TypeOK, MemOK, Proper
<1>1. PICK n \in Sizes[req[o]], m \in Slots \cup {NofSlots, NoMem} :
        Alloc(n, m) /\ Begins(o, "entry", req[o], Nobody, m)
        /\ empty' = (empty \/ (GetsNothing(n) /\ m # NoMem))
  BY DEF Allocate
<1>2. n \in Nat
  BY VarsAssumption DEF Allocate, Basics, CallOK
<1>3. Held' = (Held \cup {m}) \ {NoMem} /\ m \notin Held /\ NoMem \notin Held /\ ChunksOK'
  BY <1>0, <1>1, <1>2, AllocKeepsMem, NoMemNotHeld
<1>4. /\ UNCHANGED <<live, offset, sem, leaked>> /\ sem = {o}
      /\ id[o] = Nobody /\ off[o] = NoMem /\ id'[o] = Nobody /\ off'[o] = m
  BY <1>1 DEF Allocate, Begins, var_db, Basics, TypeOK, SemOK, CallOK
<1>5. \A k \in Ids : HasMem(k)' <=> HasMem(k)
  BY <1>4 DEF HasMem, Filled
<1>6. VarMem' = VarMem
  BY <1>4, <1>5 DEF VarMem
<1>7. NewMem = {} /\ NewMem' = {m} \ {NoMem}
  BY <1>4 DEF NewMem
<1>8. Apart'
  BY <1>0, <1>3, <1>4, <1>5, <1>6, <1>7 DEF Apart
<1> QED BY <1>3, <1>8 DEF Proper

\* It is not lost unless there is no entry for it.
LEMMA EnterApart ==
  ASSUME Basics, Apart, NEW o \in Objs, Enter(o)
  PROVE  Apart'
<1>1. /\ sem = {o} /\ id[o] = Nobody /\ Nobody \notin Ids /\ UNCHANGED <<mem, offset>>
      /\ live \in [Ids -> BOOLEAN] /\ id \in [Objs -> 0..MaxVars] /\ off \in [Objs -> 0..NofSlots \cup {NoMem}]
  BY DEF Enter, Basics, TypeOK, SemOK, CallOK, Ids, Nobody
<1>2. NewMem = {off[o]} \ {NoMem} /\ Held' = Held
  BY <1>1 DEF NewMem, Held, mem
<1>3. ASSUME NEW i \in Ids, FirstEntry(i), live' = [live EXCEPT ![i] = TRUE],
             Begins(o, "fill", req[o], i, off[o]), UNCHANGED <<sem, leaked>>
      PROVE  Apart'
  <2>1. ~live[i] /\ id'[o] = i /\ off'[o] = off[o] /\ \A k \in Ids : live'[k] <=> live[k] \/ k = i
    BY <1>1, <1>3 DEF FirstEntry, Begins
  <2>2. \A k \in Ids : HasMem(k)' <=> HasMem(k)
    BY <2>1, <1>1, <1>3 DEF HasMem, Filled
  <2>3. VarMem' = VarMem /\ NewMem' = NewMem
    BY <2>1, <2>2, <1>1, <1>3 DEF VarMem, NewMem
  <2> QED BY <2>2, <2>3, <1>1, <1>2, <1>3 DEF Apart
<1>4. CASE /\ leaked' = (leaked \cup {off[o]}) \ {NoMem}
           /\ sem' = sem \ {o} /\ Returns(o) /\ UNCHANGED live
  <2>1. \A k \in Ids : HasMem(k)' <=> HasMem(k)
    BY <1>1, <1>4 DEF HasMem, Filled
  <2>2. VarMem' = VarMem /\ NewMem' = {}
    BY <2>1, <1>1, <1>4 DEF VarMem, NewMem
  <2>3. NoMem \notin leaked
    BY DEF Basics, TypeOK, NoMem
  <2> QED BY <2>1, <2>2, <2>3, <1>1, <1>2, <1>4 DEF Apart
<1> QED BY <1>3, <1>4 DEF Enter

\* Who deletes a variable takes its memory in hand, gives it back, and clears the
\* entry.
LEMMA DropApart ==
  ASSUME Basics, Apart, NEW o \in Objs, Drop(o), live[id[o]]
  PROVE  Apart'
<1>1. /\ sem = {} /\ sem' = {o} /\ id[o] \in Ids /\ UNCHANGED <<mem, live, offset, leaked>>
      /\ id'[o] = id[o] /\ off'[o] = offset[id[o]]
  BY DEF Drop, Begins, var_db, history, Basics, TypeOK, CallOK, Ids, Nobody
<1>2. \A k \in Ids : HasMem(k)' <=> HasMem(k) /\ k # id[o]
  BY <1>1 DEF HasMem, Filled
<1>3. NewMem = {} /\ NewMem' = {offset[id[o]]} \ {NoMem} /\ Held' = Held
  BY <1>1 DEF NewMem, Held, mem
<1>4. CASE HasMem(id[o])
  <2>1. offset[id[o]] \in VarMem /\ offset[id[o]] # NoMem
    BY <1>1, <1>4 DEF VarMem, HasMem
  <2>2. VarMem' = VarMem \ {offset[id[o]]}
    BY <1>1, <1>2, <1>4 DEF VarMem, Apart
  <2> QED BY <2>1, <2>2, <1>1, <1>2, <1>3 DEF Apart
<1>5. CASE ~HasMem(id[o]) /\ offset[id[o]] = NoMem
  <2>1. VarMem' = VarMem
    BY <1>1, <1>2, <1>5 DEF VarMem
  <2> QED BY <2>1, <1>1, <1>2, <1>3, <1>5 DEF Apart
<1> QED BY <1>1, <1>4, <1>5 DEF HasMem, Filled

LEMMA GiveBackApart ==
  ASSUME Basics, Proper, NEW o \in Objs, GiveBack(o)
  PROVE  Proper'
<1>0. MemOK /\ ChunksOK /\ Apart /\ MemFree(off[o])
  BY DEF Basics, TypeOK, MemOK, Proper, GiveBack
<1>1. Held' = Held \ {off[o]} /\ ChunksOK' /\ NoMem \notin Held
  BY <1>0, FreeKeepsMem, NoMemNotHeld
<1>2. /\ sem = {o} /\ UNCHANGED <<live, offset, sem, leaked>> /\ id'[o] = id[o] /\ off'[o] = NoMem
  BY DEF GiveBack, Begins, var_db, history, Basics, TypeOK, SemOK
<1>3. \A k \in Ids : HasMem(k)' <=> HasMem(k)
  BY <1>2 DEF HasMem, Filled
<1>4. VarMem' = VarMem
  BY <1>2, <1>3 DEF VarMem
<1>5. NewMem = {off[o]} \ {NoMem} /\ NewMem' = {}
  BY <1>2 DEF NewMem
<1>6. Apart'
  BY <1>0, <1>1, <1>2, <1>3, <1>4, <1>5 DEF Apart
<1> QED BY <1>1, <1>6 DEF Proper

LEMMA ClearApart ==
  ASSUME Basics, Apart, NEW o \in Objs, Clear(o)
  PROVE  Apart'
<1>1. /\ sem = {o} /\ sem' = {} /\ off[o] = NoMem /\ UNCHANGED <<mem, offset, leaked>>
      /\ live \in [Ids -> BOOLEAN] /\ live' = [live EXCEPT ![id[o]] = FALSE]
  BY DEF Clear, owns, Basics, TypeOK, SemOK, CallOK
<1>2. \A k \in Ids : HasMem(k)' <=> HasMem(k)
  BY <1>1 DEF HasMem, Filled
<1>3. VarMem' = VarMem
  BY <1>1, <1>2 DEF VarMem
<1>4. NewMem = {} /\ NewMem' = {} /\ Held' = Held
  BY <1>1 DEF NewMem, Held, mem
<1> QED BY <1>1, <1>2, <1>3, <1>4 DEF Apart

\* The memory goes into the entry.
LEMMA FillApart ==
  ASSUME Basics, UsesOK, ~strayed, Apart, NEW o \in Objs, Fill(o)
  PROVE  Apart'
<1>1. id[o] \in Ids /\ sem = {o} /\ sem' = {}
  BY DEF Fill, Basics, TypeOK, SemOK, CallOK, Ids, Nobody
<1>2. live[id[o]]
  BY <1>1 DEF UsesOK, UsedBy
<1>3. UNCHANGED <<live, leaked, mem>> /\ offset' = [offset EXCEPT ![id[o]] = off[o]]
  BY DEF Fill
<1>4. ~HasMem(id[o])
  BY <1>1 DEF HasMem, Filled
<1>5. \A k \in Ids : offset'[k] = IF k = id[o] THEN off[o] ELSE offset[k]
  BY <1>3 DEF Basics, TypeOK
<1>6. \A k \in Ids : HasMem(k)' <=> IF k = id[o] THEN off[o] # NoMem ELSE HasMem(k)
  BY <1>1, <1>2, <1>3, <1>5 DEF HasMem, Filled
<1>7. NewMem = {off[o]} \ {NoMem} /\ NewMem' = {}
  BY <1>1 DEF NewMem
<1>8. VarMem' = VarMem \cup NewMem
  <2>1. ASSUME NEW m \in VarMem' PROVE m \in VarMem \cup NewMem
    BY <1>5, <1>6, <1>7, <2>1 DEF VarMem
  <2>2. ASSUME NEW m \in VarMem PROVE m \in VarMem'
    BY <1>4, <1>5, <1>6, <2>2 DEF VarMem
  <2>3. ASSUME NEW m \in NewMem PROVE m \in VarMem'
    BY <1>1, <1>5, <1>6, <1>7, <2>3 DEF VarMem
  <2> QED BY <2>1, <2>2, <2>3
<1>9. Held' = Held
  BY <1>3 DEF mem, Held
<1>10. ASSUME NEW k \in Ids, NEW l \in Ids, HasMem(k)', HasMem(l)', offset'[k] = offset'[l]
       PROVE  k = l
  <2>1. \A j \in Ids : HasMem(j) => offset[j] \in VarMem
    BY DEF VarMem
  <2>2. off[o] # NoMem => off[o] \notin VarMem
    BY <1>7 DEF Apart
  <2> QED BY <1>4, <1>5, <1>6, <1>10, <2>1, <2>2 DEF Apart
<1> QED BY <1>3, <1>7, <1>8, <1>9, <1>10 DEF Apart

\* Any step.
LEMMA NextProper ==
  ASSUME Basics, UsesOK, ~strayed /\ ~empty => Proper, [Next]_vars, ~strayed', ~empty'
  PROVE  Proper'
<1>1. CASE Statsman \/ UNCHANGED vars
  <2>1. UNCHANGED <<mem, live, offset, sem, leaked, id, off, strayed, empty>>
    BY <1>1 DEF Statsman, vars, var_db, objects, call, history
  <2> QED BY <2>1, ProperStays
<1>2. CASE Stats
  <2>1. UNCHANGED <<sem, id, off, leaked>> /\ ~strayed /\ ~empty
    <3>1. CASE Answer \/ Serve \/ LogFlushed
      <4>1. UNCHANGED <<sem, id, off, leaked, empty>>
        BY <3>1 DEF Answer, Serve, LogFlushed, objects, call
      <4>2. \E b \in BOOLEAN : strayed' = (strayed \/ b)
        BY <3>1 DEF Answer, Serve, LogFlushed, Basics, TypeOK
      <4>3. ~strayed
        BY <4>2, Zenon
      <4> QED BY <4>1, <4>3
    <3>2. CASE Look \/ LogRead
      BY <3>2 DEF Look, LogRead, objects, call, history
    <3>3. CASE Close
      <4>1. UNCHANGED <<sem, id, off, leaked, empty>>
        BY <3>3 DEF Close, objects, call
      <4>2. strayed' = (strayed \/ stats.at \notin closed) \/ strayed' = strayed
        BY <3>3 DEF Close
      <4>3. ~strayed
        BY <4>2, Zenon
      <4> QED BY <4>1, <4>3
    <3> QED BY <1>2, <3>1, <3>2, <3>3 DEF Stats
  <2>2. CASE UNCHANGED <<mem, live, offset>>
    BY <2>1, <2>2, ProperStays
  <2>3. CASE Close /\ Delete(stats.at) /\ strayed' = (strayed \/ stats.at \notin closed)
    <3>1. stats.at \in Ids /\ live[stats.at]
      BY <2>1, <2>3 DEF UsesOK, Basics, TypeOK
    <3>2. sem = {} /\ sem' = {}
      BY <2>1, <2>3 DEF Close
    <3>3. ChunksOK'
      BY <2>1, <2>3, <3>1, DeleteKeepsMem DEF Proper
    <3> QED BY <2>1, <2>3, <3>1, <3>2, <3>3, ApartDelete DEF Proper
  <2>4. \/ UNCHANGED <<mem, live, offset>>
        \/ Close /\ Delete(stats.at) /\ strayed' = (strayed \/ stats.at \notin closed)
    BY <1>2 DEF Stats, Answer, Look, Serve, Close, LogRead, LogFlushed, SetOpt, var_db
  <2> QED BY <2>2, <2>3, <2>4
<1>3. ASSUME NEW o \in Objs, GoesOn(o) \/ CallsMade(o) \/ Timeout(o) \/ Kill(o)
      PROVE  Proper'
  <2>0. ~strayed /\ ~empty /\ Proper
    <3>1. UNCHANGED strayed /\ (Allocate(o) \/ UNCHANGED empty)
      BY <1>3 DEF GoesOn, CallsMade, Allocate, Enter, Fill, Ready, Drop, GiveBack, Clear, Create,
         CloseStat, CloseLog, FlushLogs, Timeout, Kill, history
    <3>2. CASE Allocate(o)
      <4>1. PICK n \in Sizes[req[o]], m \in Slots \cup {NofSlots, NoMem} :
              empty' = (empty \/ (GetsNothing(n) /\ m # NoMem))
        BY <3>2 DEF Allocate
      <4>2. ~empty
        BY <4>1, Zenon
      <4> QED BY <3>1, <4>2
    <3> QED BY <3>1, <3>2
  <2>m. mem' = mem => (ChunksOK' <=> ChunksOK)
    BY DEF mem, ChunksOK
  <2>1. CASE Allocate(o)
    BY <2>0, <2>1, AllocateApart
  <2>2. CASE Enter(o)
    BY <2>0, <2>2, <2>m, EnterApart DEF Proper, Enter
  <2>3. CASE Fill(o)
    BY <2>0, <2>3, <2>m, FillApart DEF Proper, Fill
  <2>4. CASE Drop(o)
    <3>1. live[id[o]]
      BY <2>0, <2>4 DEF Drop, Basics, TypeOK, CallOK, Ids, Nobody, UsesOK, UsedBy
    <3> QED BY <2>0, <2>4, <2>m, <3>1, DropApart DEF Proper, Drop
  <2>5. CASE GiveBack(o)
    BY <2>0, <2>5, GiveBackApart
  <2>6. CASE Clear(o)
    BY <2>0, <2>6, <2>m, ClearApart DEF Proper, Clear
  <2>7. CASE Ready(o)
    <3>1. o \notin sem /\ UNCHANGED <<mem, live, offset, sem, leaked>>
      BY <2>7 DEF Ready, Basics, SemOK, var_db, history
    <3>2. \A p \in sem : id'[p] = id[p] /\ off'[p] = off[p]
      BY <3>1, <2>7 DEF Ready, Returns, Begins, GoesTo, Basics, TypeOK
    <3> QED BY <2>0, <3>1, <3>2, ProperStays
  <2>8. ASSUME NEW r \in Creates, Create(o, r) PROVE Proper'
    <3>1. /\ UNCHANGED <<mem, live, offset, leaked>> /\ sem = {} /\ sem' = {o}
          /\ id'[o] = Nobody /\ off'[o] = NoMem /\ Nobody \notin Ids
      BY <2>8 DEF Create, Begins, var_db, history, Basics, TypeOK, Ids, Nobody
    <3>2. (\A k \in Ids : HasMem(k)' <=> HasMem(k)) /\ NewMem' = {} /\ NewMem = {} /\ Held' = Held
      BY <3>1 DEF HasMem, Filled, NewMem, Held, mem
    <3>3. VarMem' = VarMem
      BY <3>1, <3>2 DEF VarMem
    <3> QED BY <2>0, <2>m, <3>1, <3>2, <3>3 DEF Proper, Apart
  <2>9. CASE CloseStat(o) \/ CloseLog(o) \/ FlushLogs(o) \/ Timeout(o) \/ Kill(o)
    <3>1. UNCHANGED <<mem, live, offset, sem, leaked, id, off>>
      BY <2>9 DEF CloseStat, CloseLog, FlushLogs, Timeout, Kill, SetOpt, GoesTo, call, var_db, history
    <3> QED BY <2>0, <3>1, ProperStays
  <2> QED BY <1>3, <2>1, <2>2, <2>3, <2>4, <2>5, <2>6, <2>7, <2>8, <2>9 DEF GoesOn, CallsMade
<1> QED BY <1>1, <1>2, <1>3 DEF Next

\* The first state: nobody has an id or memory.
LEMMA InitRest == Init => UsesOK /\ Proper
<1> SUFFICES ASSUME Init PROVE UsesOK /\ Proper
  OBVIOUS
<1>1. \A o \in Objs, i \in Ids : ~UsedBy(o, i)
  BY DEF Init, UsedBy, Ids, Nobody
<1>2. UsesOK
  BY <1>1 DEF Init, UsesOK, UsedBy
<1>3. VarMem = {} /\ NewMem = {} /\ Held = {}
  BY DEF Init, MemInit, VarMem, NewMem, Held, HasMem, Filled
<1>4. \A i \in Ids : ~HasMem(i)
  BY DEF Init, HasMem, Filled
<1>5. ChunksOK
  BY DEF Init, MemInit, ChunksOK
<1> QED BY <1>2, <1>3, <1>4, <1>5 DEF Init, Apart, Proper

\* The inductive invariant.
LEMMA IInvInductive == (Init => IInv) /\ (IInv /\ [Next]_vars => IInv')
<1>1. Init => IInv
  BY InitBasics, InitRest DEF IInv, Basics
<1>2. ASSUME IInv, [Next]_vars PROVE IInv'
  <2>1. Basics /\ UsesOK /\ (~strayed /\ ~empty => Proper)
    BY <1>2 DEF IInv, Basics
  <2>2. Basics'
    BY <1>2, <2>1, NextBasics
  <2>3. CASE UNCHANGED vars
    <3>1. UsesOK'
      BY <2>1, <2>3 DEF vars, var_db, call, owns, history, UsesOK, UsedBy
    <3> QED BY <1>2, <2>1, <2>2, <3>1, NextProper DEF IInv, Basics
  <2>4. CASE Next
    <3>1. UsesOK'
      BY <2>1, <2>4, StatsUses, ObjectUses DEF Next
    <3> QED BY <1>2, <2>1, <2>2, <3>1, NextProper DEF IInv, Basics
  <2> QED BY <1>2, <2>3, <2>4
<1> QED BY <1>1, <1>2

\* Every variable keeps its type, the allocator's among them: options, offsets and
\* packets are only ever what the daemons and the objects may put there.
THEOREM TypeCorrect == Spec => []TypeOK
<1>1. IInv => TypeOK
  BY DEF IInv
<1> QED BY <1>1, IInvInductive, PTL DEF Spec

\* No two variables share memory, and no memory is lost but what an object took when
\* there was no entry left, or had in hand when it was killed, in every state up to
\* the first one in which STATS has mistaken one request for another or a variable
\* of size 0 has got a chunk without a slot; and the allocator's tables agree in all.
THEOREM MemoryIsOwn == Spec => []OwnMemory
<1>1. IInv => OwnMemory
  BY DEF IInv, Proper, Apart, OwnMemory
<1> QED BY <1>1, IInvInductive, PTL DEF Spec

=============================================================================
