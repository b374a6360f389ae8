--------------------------------- MODULE Mem ---------------------------------
(***************************************************************************)
(* The allocator of the shared memory for variables: a table of slots of   *)
(* one size, marked when used, and a table of as many chunks, each a run   *)
(* of slots.  Sizes are in slots, and the offset of a chunk is its first   *)
(* slot.                                                                   *)
(***************************************************************************)
EXTENDS Integers, FiniteSets

CONSTANT NofSlots

ASSUME SlotsAssumption == NofSlots \in Nat \ {0}

Slots == 0..(NofSlots - 1)
NoMem == -1                              \* the offset of a free chunk
NoChunk == [st |-> NoMem, end |-> NoMem]
Chunk   == [st : 0..NofSlots, end : 0..NofSlots]

VARIABLES
  slots,    \* is each slot marked
  chunks    \* the chunks, free or not

mem == <<slots, chunks>>

MemInit ==
  /\ slots  = [j \in Slots |-> FALSE]
  /\ chunks = [c \in Slots |-> NoChunk]

\* Slots st to end-1 are free.
Free(st, end) == \A j \in Slots : st <= j /\ j < end => ~slots[j]

\* (mutant: the run may begin at the last slot in use)
FoundOverlapping(n, st, end) ==
  /\ end \in 1..NofSlots /\ st \in 0..(end - 1) /\ end = st + n
  /\ Free(st + 1, end) /\ \A k \in 0..(st - 1) : ~Free(k + 1, k + n)

\* The scan of mem_alloc for n slots: it stops at the first end that has n free
\* slots in front of it, but it always looks at one slot.
Found(n, st, end) ==
  /\ end \in 1..NofSlots /\ st \in 0..end /\ Free(st, end)
  /\ IF n = 0 THEN end = 1 /\ (st = 1 <=> slots[0])
     ELSE /\ end = st + n
          /\ \A k \in 0..(st - 1) : ~Free(k, k + n)

\* A chunk for nothing has no slot, unless the first slot is free.
GetsNothing(n) == n = 0 /\ slots[0]

NoSpace(n) == n > 0 /\ \A st \in 0..(NofSlots - n) : ~Free(st, st + n)

FirstChunk(c) == chunks[c] = NoChunk /\ \A d \in 0..(c - 1) : chunks[d] # NoChunk

Take(c, st, end) ==
  /\ chunks' = [chunks EXCEPT ![c] = [st |-> st, end |-> end]]
  /\ slots'  = [j \in Slots |-> slots[j] \/ (st <= j /\ j < end)]

\* mem_alloc of n slots, which returns the offset or NoMem.
Alloc(n, off) ==
  \/ \E c \in Slots, end \in 1..NofSlots :
       FirstChunk(c) /\ Found(n, off, end) /\ Take(c, off, end)
  \/ /\ off = NoMem /\ UNCHANGED mem
     /\ NoSpace(n) \/ \A c \in Slots : chunks[c] # NoChunk

\* mem_free of what is at off: the first chunk there, if there is one.
At(c, off) == chunks[c] # NoChunk /\ chunks[c].st = off

Release(c) ==
  /\ chunks' = [chunks EXCEPT ![c] = NoChunk]
  /\ slots'  = [j \in Slots |-> slots[j] /\ ~(chunks[c].st <= j /\ j < chunks[c].end)]

MemFree(off) ==
  IF \E c \in Slots : At(c, off)
  THEN \E c \in Slots : At(c, off) /\ (\A d \in 0..(c - 1) : ~At(d, off)) /\ Release(c)
  ELSE UNCHANGED mem

-----------------------------------------------------------------------------
MemTypeOK ==
  /\ slots \in [Slots -> BOOLEAN]
  /\ chunks \in [Slots -> Chunk \cup {NoChunk}]

Covers(c, j) == chunks[c] # NoChunk /\ chunks[c].st <= j /\ j < chunks[c].end

\* The offsets of what is allocated.
Held == {chunks[c].st : c \in {d \in Slots : chunks[d] # NoChunk}}

\* The two tables agree: a slot is marked exactly if a chunk has it, and no two
\* chunks have the same slot.
Books ==
  /\ \A j \in Slots : slots[j] <=> \E c \in Slots : Covers(c, j)
  /\ \A c, d \in Slots, j \in Slots : Covers(c, j) /\ Covers(d, j) => c = d
=============================================================================
