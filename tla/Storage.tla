------------------------------ MODULE Storage ------------------------------
(***************************************************************************)
(* channel::create_impl and free_deleter: the storage of a channel.  One   *)
(* block of memory holds the implementation and, right behind it, the      *)
(* slots of its buffer.  Sizes are std::size_t: they are taken modulo      *)
(* SizeLimit, which is 2^64.                                               *)
(***************************************************************************)
EXTENDS Integers

CONSTANTS
  SizeLimit,   \* the sizes that std::size_t has: 0 .. SizeLimit - 1
  Sizes        \* the inputs: [value |-> , impl |-> , capacity |-> ]

ASSUME SizesAssumption ==
  /\ SizeLimit \in Nat \ {0}
  /\ Sizes \subseteq [value : 1 .. SizeLimit - 1, impl : 1 .. SizeLimit - 1,
                      capacity : 0 .. SizeLimit - 1]

VARIABLES
  sizes,   \* sizeof(ValueType), sizeof(impl_type) and the capacity asked for
  state,   \* "start", "allocated", "ready", "threw" or "deleted"
  bytes    \* the size of the block of memory, 0 when there is none

storageVars == <<sizes, state, bytes>>

\* sizeof(ValueType) * capacity + sizeof(impl_type) - 1
ExtraNotRounded(s) == (s.value * s.capacity) % SizeLimit                \* mutant

Extra(s) == (s.value * s.capacity + s.impl - 1) % SizeLimit

Blocks(s) == 1 + Extra(s) \div s.impl

StorageInit ==
  /\ sizes \in Sizes
  /\ state = "start"
  /\ bytes = 0

\* std::calloc(blocks, sizeof(impl_type)), which fails for a product that is
\* no std::size_t, and may fail for any.
Allocate ==
  /\ state = "start"
  /\ Blocks(sizes) * sizes.impl < SizeLimit
  /\ bytes' = Blocks(sizes) * sizes.impl
  /\ state' = "allocated"
  /\ UNCHANGED sizes

BadAlloc ==
  /\ state = "start"
  /\ state' = "threw"
  /\ UNCHANGED <<sizes, bytes>>

Construct ==
  /\ state = "allocated"
  /\ state' = "ready"
  /\ UNCHANGED <<sizes, bytes>>

ConstructThrowsOnly ==                                           \* mutant
  /\ state = "allocated"
  /\ state' = "threw"
  /\ UNCHANGED <<sizes, bytes>>

\* The constructor of the implementation throws: its queues allocate.
ConstructThrows ==
  /\ state = "allocated"
  /\ state' = "threw"
  /\ bytes' = 0
  /\ UNCHANGED sizes

\* free_deleter, when the last owner lets go.
Delete ==
  /\ state = "ready"
  /\ state' = "deleted"
  /\ bytes' = 0
  /\ UNCHANGED sizes

Over == state \in {"threw", "deleted"} /\ UNCHANGED storageVars

StorageNext == Allocate \/ BadAlloc \/ Construct \/ ConstructThrows \/ Delete \/ Over

StorageSpec == StorageInit /\ [][StorageNext]_storageVars

-----------------------------------------------------------------------------
\* The sizes of the channel do not wrap around.
Representable(s) == s.value * s.capacity + s.impl - 1 < SizeLimit

\* The last byte of the last slot lies in the block.
SlotsInside == sizes.impl + sizes.capacity * sizes.value <= bytes

\* A channel that was created has room for every value that its capacity
\* admits, unless the computation of its size wraps around - and then never
\* (channel.hpp:206-211).
RoomUnlessWrapped == state = "ready" => (SlotsInside <=> Representable(sizes))

\* The block lives as long as a channel owns it, and no longer: neither an
\* exception nor the end of the channel leaks it (channel.hpp:213-221).
NoLeak == bytes # 0 => state \in {"allocated", "ready"}

-----------------------------------------------------------------------------
StorageOK ==
  /\ sizes \in Sizes
  /\ state \in {"start", "allocated", "ready", "threw", "deleted"}
  /\ bytes \in 0 .. SizeLimit - 1
=============================================================================
