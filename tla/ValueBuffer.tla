---------------------------- MODULE ValueBuffer ----------------------------
(***************************************************************************)
(* The ring buffer of a channel: value_buffer_data holds the indices and   *)
(* value_buffer_ref the operations on the raw storage that follows the     *)
(* channel_impl object (detail/value_buffer.hpp).                          *)
(*                                                                         *)
(* A slot of the storage is Raw until push() constructs a value in it and  *)
(* after pop() or destroy() has run that value's destructor.  The channel  *)
(* calls push() only below capacity and front()/pop() only when the buffer *)
(* is not empty (implement_channel_queue.hpp:86 and 98); the guards below  *)
(* are these conditions, which the code asserts again.                     *)
(***************************************************************************)
EXTENDS Naturals, Sequences

CONSTANTS
  Capacity,   \* value_buffer_data::capacity, 0 for an unbuffered channel
  Value,      \* the values sent through the channel
  Raw         \* storage that holds no object; also `out` before the first pop

ASSUME CapacityAssumption == Capacity \in Nat

ASSUME RawAssumption == Raw \notin Value

VARIABLES
  begin,      \* value_buffer_data::begin
  end,        \* value_buffer_data::end
  size,       \* value_buffer_data::size
  slot,       \* the storage: slot[i] is the object at mem() + i, or Raw
  out,        \* the value moved out of front() before the last pop()
  dying       \* ~channel_impl has called destroy()

vars == <<begin, end, size, slot, out, dying>>

Slots == 0 .. Capacity - 1

NextIndexLate(i) == IF i + 1 > Capacity THEN 0 ELSE i + 1       \* mutant

\* The index after i: `if (++begin == capacity) begin = 0;`.
NextIndex(i) == IF i + 1 = Capacity THEN 0 ELSE i + 1

\* value_buffer_data::increase()
Increase ==
  /\ end' = NextIndex(end)
  /\ size' = size + 1

\* value_buffer_data::reduce()
Reduce ==
  /\ begin' = NextIndex(begin)
  /\ size' = size - 1

-----------------------------------------------------------------------------
Init ==
  /\ begin = 0
  /\ end = 0
  /\ size = 0
  /\ slot = [i \in Slots |-> Raw]
  /\ out = Raw
  /\ dying = FALSE

PushAtBegin(v) ==                                                \* mutant
  /\ ~dying
  /\ size < Capacity
  /\ slot' = [slot EXCEPT ![begin] = v]
  /\ Increase
  /\ UNCHANGED <<begin, out, dying>>

PushWhenFull(v) ==                                               \* mutant
  /\ ~dying
  /\ size <= Capacity /\ Capacity > 0
  /\ slot' = [slot EXCEPT ![end] = v]
  /\ Increase
  /\ UNCHANGED <<begin, out, dying>>

\* value_buffer_ref::push(): placement new at mem() + end, then increase().
Push(v) ==
  /\ ~dying
  /\ size < Capacity
  /\ slot' = [slot EXCEPT ![end] = v]
  /\ Increase
  /\ UNCHANGED <<begin, out, dying>>

PopNoDestructor ==                                               \* mutant
  /\ ~dying
  /\ size # 0
  /\ out' = slot[begin]
  /\ Reduce
  /\ UNCHANGED <<end, slot, dying>>

\* The caller moves front() out, then pop() destroys the object and reduces.
Pop ==
  /\ ~dying
  /\ size # 0
  /\ out' = slot[begin]
  /\ slot' = [slot EXCEPT ![begin] = Raw]
  /\ Reduce
  /\ UNCHANGED <<end, dying>>

\* ~channel_impl reaches ring_buffer.destroy(); no other call follows.
StartDestroy ==
  /\ ~dying
  /\ dying' = TRUE
  /\ UNCHANGED <<begin, end, size, slot, out>>

DestroyAllButOne ==                                              \* mutant
  /\ dying
  /\ size > 1
  /\ slot' = [slot EXCEPT ![begin] = Raw]
  /\ Reduce
  /\ UNCHANGED <<end, out, dying>>

\* One turn of the loop of value_buffer_ref::destroy().
DestroyFront ==
  /\ dying
  /\ size # 0
  /\ slot' = [slot EXCEPT ![begin] = Raw]
  /\ Reduce
  /\ UNCHANGED <<end, out, dying>>

Next ==
  \/ \E v \in Value : Push(v)
  \/ Pop
  \/ StartDestroy
  \/ DestroyFront

Spec == Init /\ [][Next]_vars

-----------------------------------------------------------------------------
TypeOK ==
  /\ begin \in 0 .. Capacity
  /\ end \in 0 .. Capacity
  /\ size \in 0 .. Capacity
  /\ slot \in [Slots -> Value \cup {Raw}]
  /\ out \in Value \cup {Raw}
  /\ dying \in BOOLEAN

(***************************************************************************)
(* The index of the k-th stored value, k counted from 0.                   *)
(***************************************************************************)
IndexOf(k) ==
  IF begin + k < Capacity THEN begin + k ELSE begin + k - Capacity

\* The indices are those of a ring: end is size places after begin.
RingIndices ==
  /\ Capacity > 0 => begin < Capacity
  /\ Capacity = 0 => begin = 0 /\ end = 0
  /\ Capacity > 0 => end = IndexOf(size)

\* Exactly the size slots from begin hold objects: no object is lost outside
\* the window (it would never be destroyed) and no slot of the window is Raw
\* (its destructor would run on no object).  This is what makes the
\* placement new of push() and the destructor calls of pop() and destroy()
\* meet one live object each, whatever the wrap-around.
LiveWindow ==
  \A i \in Slots :
    slot[i] # Raw <=> \E k \in 0 .. size - 1 : i = IndexOf(k)

\* The inductive invariant of the ring.
RingInv == TypeOK /\ RingIndices /\ LiveWindow

\* An object is constructed only in raw storage: push() never overwrites a
\* value that has not been moved out and destroyed.
NoOverwrite ==
  [][\A i \in Slots : slot[i] # Raw => slot'[i] \in {slot[i], Raw}]_vars

\* ~channel_impl leaves no object behind: once destroy() has started, every
\* slot is Raw in the end (value_buffer_ref::destroy()).
AllDestroyed == dying ~> (\A i \in Slots : slot[i] = Raw)

\* The values in the order in which pop() will return them.
Contents == [k \in 1 .. size |-> slot[IndexOf(k - 1)]]

Fifo == INSTANCE BoundedFifo WITH queue <- Contents, Nothing <- Raw

\* The ring implements the bounded queue: values leave in the order they
\* came, none is lost or repeated, and never more than Capacity are held.
ImplementsFifo == Fifo!Spec
=============================================================================
