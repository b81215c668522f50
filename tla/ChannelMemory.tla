--------------------------- MODULE ChannelMemory ---------------------------
(***************************************************************************)
(* The storage of a channel and the ring of values that lives in it: the   *)
(* ring exists from the placement new in create_impl until ~channel_impl,  *)
(* which free_deleter runs before it frees the block.                      *)
(***************************************************************************)
EXTENDS ValueBuffer, Storage

ASSUME SameCapacity == \A s \in Sizes : s.capacity = Capacity

\* Values of one to four bytes behind an implementation of one to eight.
FewSizes == [value : 1 .. 4, impl : 1 .. 8, capacity : {Capacity}]

MemVars == <<vars, storageVars>>

MemInit == Init /\ StorageInit

\* create_impl: nothing is in the ring yet.
Create == (Allocate \/ BadAlloc \/ Construct \/ ConstructThrows) /\ UNCHANGED vars

\* The channel, and then its destructor, use the ring.
Use(Step) == state = "ready" /\ Step /\ UNCHANGED storageVars

FreeFirst == Delete /\ dying /\ UNCHANGED vars                   \* mutant

\* free_deleter: ~channel_impl has returned, and std::free.
Free == Delete /\ dying /\ size = 0 /\ UNCHANGED vars

MemNext ==
  \/ Create
  \/ \E v \in Value : Use(Push(v))
  \/ Use(Pop)
  \/ Use(StartDestroy)
  \/ Use(DestroyFront)
  \/ Free
  \/ Over /\ UNCHANGED vars

\* The destructor runs to its end.
FairMem == MemInit /\ [][MemNext]_MemVars /\ WF_MemVars(Use(DestroyFront))

-----------------------------------------------------------------------------
\* Every object in the ring lies within the block of memory, whose size was
\* computed without knowing of the ring, and which is freed only when the last
\* object is gone (channel.hpp:203-215, value_buffer.hpp:46-56).
ObjectsInStorage ==
  Representable(sizes) =>
    \A i \in Slots : slot[i] # Raw => sizes.impl + (i + 1) * sizes.value <= bytes
=============================================================================
