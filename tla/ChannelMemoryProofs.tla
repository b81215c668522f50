------------------------ MODULE ChannelMemoryProofs ------------------------
(***************************************************************************)
(* Theorems about the ring of values and the storage it lives in, for      *)
(* every capacity and all sizes of values and implementations.             *)
(***************************************************************************)
EXTENDS ChannelMemory, SequenceTheorems, TLAPS

-----------------------------------------------------------------------------
(***************************************************************************)
(* The arithmetic of the ring.                                             *)
(***************************************************************************)
\* The stored values occupy different slots.
LEMMA IndexDistinct ==
  ASSUME RingInv, NEW j \in 0 .. Capacity - 1, NEW k \in 0 .. Capacity - 1,
         IndexOf(j) = IndexOf(k)
  PROVE  j = k
  BY CapacityAssumption DEF RingInv, RingIndices, TypeOK, IndexOf

\* Every index of the window is a slot, and the first one is begin.
LEMMA IndexIsSlot ==
  ASSUME RingInv, NEW k \in 0 .. Capacity - 1
  PROVE  IndexOf(k) \in Slots /\ IndexOf(0) = begin
  BY CapacityAssumption DEF RingInv, RingIndices, TypeOK, IndexOf, Slots

\* Below capacity the slot at end is free, and the next free one after it.
LEMMA PushIndices ==
  ASSUME RingInv, NEW v \in Value, Push(v)
  PROVE  /\ end \in Slots /\ end = IndexOf(size) /\ slot[end] = Raw
         /\ \A k \in 0 .. Capacity : IndexOf(k)' = IndexOf(k)
         /\ end' = IndexOf(size)' /\ size' \in 1 .. Capacity /\ size' = size + 1
         /\ end' \in 0 .. Capacity
<1>1. Capacity \in Nat /\ Capacity > 0 /\ size \in 0 .. Capacity - 1
  BY CapacityAssumption DEF RingInv, TypeOK, Push
<1>2. begin \in 0 .. Capacity - 1 /\ end = IndexOf(size)
  BY <1>1 DEF RingInv, RingIndices, TypeOK
<1>3. end \in Slots
  BY <1>1, <1>2, IndexIsSlot
<1>4. slot[end] = Raw
  <2> SUFFICES ASSUME slot[end] # Raw PROVE FALSE
    OBVIOUS
  <2>1. PICK k \in 0 .. size - 1 : end = IndexOf(k)
    BY <1>3 DEF RingInv, LiveWindow
  <2>2. k \in 0 .. Capacity - 1 /\ k # size
    BY <1>1
  <2> QED BY <1>1, <1>2, <2>1, <2>2, IndexDistinct
<1>5. begin' = begin /\ size' = size + 1 /\ end' = NextIndex(end)
  BY DEF Push, Increase
<1>6. \A k \in 0 .. Capacity : IndexOf(k)' = IndexOf(k)
  BY <1>5 DEF IndexOf
<1>7. end' = IndexOf(size + 1) /\ end' \in 0 .. Capacity
  BY <1>1, <1>2, <1>5 DEF IndexOf, NextIndex
<1>8. size' \in 1 .. Capacity /\ end' = IndexOf(size)'
  BY <1>1, <1>5, <1>7 DEF IndexOf
<1> QED BY <1>2, <1>3, <1>4, <1>5, <1>6, <1>7, <1>8

\* Removing the front moves the window by one place.
LEMMA ReduceIndices ==
  ASSUME RingInv, size # 0, Reduce, UNCHANGED end
  PROVE  /\ begin \in Slots /\ begin = IndexOf(0) /\ slot[begin] # Raw
         /\ \A k \in 0 .. Capacity - 1 : IndexOf(k)' = IndexOf(k + 1)
         /\ size' = size - 1 /\ size' \in 0 .. Capacity - 1
         /\ begin' \in 0 .. Capacity - 1 /\ end' = IndexOf(size)'
<1>1. Capacity \in Nat /\ Capacity > 0 /\ size \in 1 .. Capacity
  BY CapacityAssumption DEF RingInv, TypeOK
<1>2. begin \in 0 .. Capacity - 1 /\ end = IndexOf(size) /\ end \in 0 .. Capacity
  BY <1>1 DEF RingInv, RingIndices, TypeOK
<1>3. begin = IndexOf(0) /\ begin \in Slots
  BY <1>1, <1>2 DEF IndexOf, Slots
<1>4. slot[begin] # Raw
  BY <1>1, <1>3 DEF RingInv, LiveWindow
<1>5. begin' = NextIndex(begin) /\ size' = size - 1 /\ end' = end
  BY DEF Reduce
<1>6. \A k \in 0 .. Capacity - 1 : IndexOf(k)' = IndexOf(k + 1)
  <2> SUFFICES ASSUME NEW k \in 0 .. Capacity - 1
               PROVE  IndexOf(k)' = IndexOf(k + 1)
    OBVIOUS
  <2>1. CASE begin + 1 = Capacity
    BY <1>1, <1>2, <1>5, <2>1 DEF IndexOf, NextIndex
  <2>2. CASE begin + 1 # Capacity
    BY <1>1, <1>2, <1>5, <2>2 DEF IndexOf, NextIndex
  <2> QED BY <2>1, <2>2
<1>7. end' = IndexOf(size)'
  BY <1>1, <1>2, <1>5 DEF IndexOf, NextIndex
<1> QED BY <1>1, <1>2, <1>3, <1>4, <1>5, <1>6, <1>7 DEF NextIndex

-----------------------------------------------------------------------------
(***************************************************************************)
(* The invariant of the ring.                                              *)
(***************************************************************************)
\* A push extends the window by the slot it fills.
LEMMA PushInv ==
  ASSUME RingInv, NEW v \in Value, Push(v)
  PROVE  RingInv'
<1>1. Capacity \in Nat /\ Capacity > 0 /\ size \in 0 .. Capacity - 1
  BY CapacityAssumption DEF RingInv, TypeOK, Push
<1>2. /\ slot \in [Slots -> Value \cup {Raw}] /\ v # Raw
      /\ slot' = [slot EXCEPT ![end] = v] /\ size' = size + 1
      /\ UNCHANGED <<begin, out, dying>>
  BY RawAssumption DEF RingInv, TypeOK, Push, Increase
<1>3. /\ end \in Slots /\ end = IndexOf(size)
      /\ \A k \in 0 .. Capacity : IndexOf(k)' = IndexOf(k)
  BY PushIndices
<1>4. TypeOK'
  BY <1>2, <1>3, PushIndices DEF RingInv, TypeOK
<1>5. RingIndices'
  BY <1>1, <1>2, PushIndices DEF RingInv, RingIndices
<1>6. LiveWindow'
  <2> SUFFICES ASSUME NEW i \in Slots
               PROVE  slot'[i] # Raw <=> \E k \in 0 .. size' - 1 : i = IndexOf(k)'
    BY DEF LiveWindow
  <2>1. slot[i] # Raw <=> \E k \in 0 .. size - 1 : i = IndexOf(k)
    BY DEF RingInv, LiveWindow
  <2>2. \A k : k \in 0 .. size' - 1 <=> k \in 0 .. size - 1 \/ k = size
    BY <1>1, <1>2
  <2>3. \A k \in 0 .. size' - 1 : IndexOf(k)' = IndexOf(k)
    BY <1>1, <1>2, <1>3
  <2>4. slot'[i] # Raw <=> i = end \/ slot[i] # Raw
    BY <1>2, <1>3
  <2> QED BY <1>3, <2>1, <2>2, <2>3, <2>4
<1> QED BY <1>4, <1>5, <1>6 DEF RingInv

\* Clearing the front slot shortens the window at its beginning.
LEMMA RemoveFrontInv ==
  ASSUME RingInv, size # 0, slot' = [slot EXCEPT ![begin] = Raw], Reduce,
         UNCHANGED end, out' \in Value \cup {Raw}, dying' \in BOOLEAN
  PROVE  RingInv'
<1>1. Capacity \in Nat /\ Capacity > 0 /\ size \in 1 .. Capacity
  BY CapacityAssumption DEF RingInv, TypeOK
<1>2. /\ begin \in Slots /\ begin = IndexOf(0) /\ slot[begin] # Raw
      /\ \A k \in 0 .. Capacity - 1 : IndexOf(k)' = IndexOf(k + 1)
      /\ size' = size - 1 /\ size' \in 0 .. Capacity - 1
      /\ begin' \in 0 .. Capacity - 1 /\ end' = IndexOf(size)'
  BY ReduceIndices
<1>3. slot \in [Slots -> Value \cup {Raw}]
  BY DEF RingInv, TypeOK
<1>4. TypeOK'
  BY <1>1, <1>2, <1>3 DEF RingInv, TypeOK
<1>5. RingIndices'
  BY <1>1, <1>2 DEF RingIndices
<1>6. LiveWindow'
  <2> SUFFICES ASSUME NEW i \in Slots
               PROVE  slot'[i] # Raw <=> \E k \in 0 .. size' - 1 : i = IndexOf(k)'
    BY DEF LiveWindow
  <2>1. slot[i] # Raw <=> \E k \in 0 .. size - 1 : i = IndexOf(k)
    BY DEF RingInv, LiveWindow
  <2>2. slot'[i] # Raw <=> i # begin /\ slot[i] # Raw
    BY <1>2, <1>3
  <2>3. ASSUME slot'[i] # Raw
        PROVE  \E k \in 0 .. size' - 1 : i = IndexOf(k)'
    <3>1. PICK k \in 0 .. size - 1 : i = IndexOf(k)
      BY <2>1, <2>2, <2>3
    <3>2. k # 0
      BY <1>2, <2>2, <2>3, <3>1
    <3>3. k - 1 \in 0 .. size' - 1 /\ k - 1 \in 0 .. Capacity - 1 /\ (k - 1) + 1 = k
      BY <1>1, <1>2, <3>1, <3>2
    <3>4. IndexOf(k - 1)' = IndexOf(k)
      BY <1>2, <3>3
    <3> QED BY <3>1, <3>3, <3>4
  <2>4. ASSUME NEW k \in 0 .. size' - 1, i = IndexOf(k)'
        PROVE  slot'[i] # Raw
    <3>1. k + 1 \in 0 .. size - 1 /\ k \in 0 .. Capacity - 1 /\ k + 1 \in 0 .. Capacity - 1
      BY <1>1, <1>2
    <3>2. i = IndexOf(k + 1)
      BY <1>2, <2>4, <3>1
    <3>3. i # begin
      <4>1. 0 \in 0 .. Capacity - 1 /\ k + 1 # 0
        BY <1>1, <3>1
      <4> QED BY <1>2, <3>1, <3>2, <4>1, IndexDistinct
    <3> QED BY <2>1, <2>2, <3>1, <3>2, <3>3
  <2> QED BY <2>3, <2>4
<1> QED BY <1>4, <1>5, <1>6 DEF RingInv

\* Every step preserves the invariant.
LEMMA NextRingInv ==
  ASSUME RingInv, [Next]_vars
  PROVE  RingInv'
<1>1. CASE \E v \in Value : Push(v)
  BY <1>1, PushInv
<1>2. CASE Pop
  <2>1. begin \in Slots
    BY <1>2, ReduceIndices DEF Pop
  <2>2. out' \in Value \cup {Raw} /\ dying' \in BOOLEAN
    BY <1>2, <2>1 DEF Pop, RingInv, TypeOK
  <2> QED BY <1>2, <2>2, RemoveFrontInv DEF Pop
<1>3. CASE StartDestroy
  BY <1>3 DEF StartDestroy, RingInv, TypeOK, RingIndices, LiveWindow, IndexOf
<1>4. CASE DestroyFront
  <2>1. out' \in Value \cup {Raw} /\ dying' \in BOOLEAN
    BY <1>4 DEF DestroyFront, RingInv, TypeOK
  <2> QED BY <1>4, <2>1, RemoveFrontInv DEF DestroyFront
<1>5. CASE UNCHANGED vars
  BY <1>5 DEF vars, RingInv, TypeOK, RingIndices, LiveWindow, IndexOf
<1> QED BY <1>1, <1>2, <1>3, <1>4, <1>5 DEF Next

\* An empty ring satisfies it.
LEMMA InitRingInv == Init => RingInv
<1> SUFFICES ASSUME Init PROVE RingInv
  OBVIOUS
<1>1. TypeOK
  <2>1. slot \in [Slots -> Value \cup {Raw}]
    BY DEF Init
  <2>2. begin \in 0 .. Capacity /\ end \in 0 .. Capacity /\ size \in 0 .. Capacity
    BY CapacityAssumption DEF Init
  <2>3. out \in Value \cup {Raw} /\ dying \in BOOLEAN
    BY DEF Init
  <2> QED BY <2>1, <2>2, <2>3 DEF TypeOK
<1>2. RingIndices
  BY CapacityAssumption DEF Init, RingIndices, IndexOf
<1>3. LiveWindow
  BY DEF Init, LiveWindow
<1> QED BY <1>1, <1>2, <1>3 DEF RingInv

\* The indices stay those of a ring and exactly the slots of the window hold
\* objects, for every capacity.
THEOREM RingInvariant == Spec => []RingInv
<1>1. Init => RingInv
  BY InitRingInv
<1>2. RingInv /\ [Next]_vars => RingInv'
  BY NextRingInv
<1> QED BY <1>1, <1>2, PTL DEF Spec

\* The indices and the size stay within the capacity, and a slot holds a value
\* or no object.
THEOREM RingTypeCorrect == Spec => []TypeOK
<1>1. RingInv => TypeOK
  BY DEF RingInv
<1> QED BY <1>1, RingInvariant, PTL

\* Exactly the slots of the window hold objects.
THEOREM WindowIsLive == Spec => []LiveWindow
<1>1. RingInv => LiveWindow
  BY DEF RingInv
<1> QED BY <1>1, RingInvariant, PTL

\* A value is never overwritten in place.
THEOREM NeverOverwrites == Spec => NoOverwrite
<1> DEFINE A == \A i \in Slots : slot[i] # Raw => slot'[i] \in {slot[i], Raw}
<1>1. RingInv /\ [Next]_vars => [A]_vars
  <2> SUFFICES ASSUME RingInv, Next PROVE A
    OBVIOUS
  <2>1. CASE \E v \in Value : Push(v)
    BY <2>1, PushIndices DEF Push, RingInv, TypeOK
  <2>2. CASE Pop \/ StartDestroy \/ DestroyFront
    BY <2>2 DEF Pop, StartDestroy, DestroyFront, RingInv, TypeOK
  <2> QED BY <2>1, <2>2 DEF Next
<1> QED BY <1>1, RingInvariant, PTL DEF Spec, NoOverwrite

-----------------------------------------------------------------------------
(***************************************************************************)
(* The ring implements the bounded queue.                                  *)
(***************************************************************************)
\* The contents form a sequence of size values.
LEMMA ContentsType ==
  ASSUME RingInv
  PROVE  Contents \in Seq(Value) /\ Len(Contents) = size /\ DOMAIN Contents = 1 .. size
<1>1. size \in Nat /\ size <= Capacity /\ Capacity \in Nat
  BY CapacityAssumption DEF RingInv, TypeOK
<1>2. ASSUME NEW k \in 1 .. size
      PROVE  slot[IndexOf(k - 1)] \in Value
  <2>1. k - 1 \in 0 .. size - 1 /\ k - 1 \in 0 .. Capacity - 1
    BY <1>1
  <2>2. IndexOf(k - 1) \in Slots
    BY <2>1, IndexIsSlot
  <2>3. slot[IndexOf(k - 1)] # Raw
    BY <2>1, <2>2 DEF RingInv, LiveWindow
  <2> QED BY <2>2, <2>3 DEF RingInv, TypeOK
<1>3. Contents \in [1 .. size -> Value]
  BY <1>2 DEF Contents
<1> QED BY <1>1, <1>3

\* A push appends.
LEMMA PushAppends ==
  ASSUME RingInv, NEW v \in Value, Push(v)
  PROVE  Contents' = Append(Contents, v)
<1>1. Capacity \in Nat /\ size \in 0 .. Capacity - 1 /\ size' = size + 1
  BY CapacityAssumption DEF RingInv, TypeOK, Push, Increase
<1>2. /\ end \in Slots /\ end = IndexOf(size) /\ slot' = [slot EXCEPT ![end] = v]
      /\ \A k \in 0 .. Capacity : IndexOf(k)' = IndexOf(k)
  BY PushIndices DEF Push
<1>3. /\ Contents \in Seq(Value) /\ Len(Contents) = size
      /\ Contents' \in Seq(Value) /\ Len(Contents') = size + 1
      /\ DOMAIN Contents = 1 .. size /\ DOMAIN Contents' = 1 .. size + 1
  <2>1. RingInv'
    BY PushInv
  <2>2. (RingInv => Contents \in Seq(Value) /\ Len(Contents) = size
                    /\ DOMAIN Contents = 1 .. size)'
    BY ContentsType, PTL
  <2> QED BY <1>1, <2>1, <2>2, ContentsType
<1>4. ASSUME NEW k \in 1 .. size + 1
      PROVE  Contents'[k] = Append(Contents, v)[k]
  <2>1. Contents'[k] = slot'[IndexOf(k - 1)]
    <3>1. k - 1 \in 0 .. Capacity /\ IndexOf(k - 1)' = IndexOf(k - 1)
      BY <1>1, <1>2
    <3> QED BY <1>1, <3>1 DEF Contents
  <2>2. CASE k = size + 1
    <3>1. IndexOf(k - 1) = end /\ slot'[end] = v
      BY <1>1, <1>2, <2>2 DEF RingInv, TypeOK
    <3> QED BY <1>3, <2>1, <2>2, <3>1, AppendProperties
  <2>3. CASE k \in 1 .. size
    <3>1. k - 1 \in 0 .. Capacity - 1 /\ size \in 0 .. Capacity - 1 /\ k - 1 # size
      BY <1>1, <2>3
    <3>2. IndexOf(k - 1) # end /\ IndexOf(k - 1) \in Slots
      BY <1>2, <3>1, IndexDistinct, IndexIsSlot
    <3>3. Contents'[k] = slot[IndexOf(k - 1)]
      BY <1>2, <2>1, <3>2 DEF RingInv, TypeOK
    <3>4. Contents[k] = slot[IndexOf(k - 1)]
      BY <2>3 DEF Contents
    <3> QED BY <1>3, <2>3, <3>3, <3>4, AppendProperties
  <2>4. k = size + 1 \/ k \in 1 .. size
    BY <1>1
  <2> QED BY <2>2, <2>3, <2>4
<1> QED BY <1>1, <1>3, <1>4, AppendProperties

\* Removing the front slot removes the head.
LEMMA RemoveTakesHead ==
  ASSUME RingInv, RingInv', size # 0, slot' = [slot EXCEPT ![begin] = Raw], Reduce,
         UNCHANGED end
  PROVE  /\ Contents # <<>> /\ Head(Contents) = slot[begin]
         /\ Contents' = Tail(Contents)
<1>1. Capacity \in Nat /\ size \in 1 .. Capacity
  BY CapacityAssumption DEF RingInv, TypeOK
<1>2. /\ begin = IndexOf(0) /\ size' = size - 1
      /\ \A k \in 0 .. Capacity - 1 : IndexOf(k)' = IndexOf(k + 1)
  BY ReduceIndices
<1>3. /\ Contents \in Seq(Value) /\ Len(Contents) = size
      /\ DOMAIN Contents = 1 .. size
  BY ContentsType
<1>4. /\ Contents' \in Seq(Value) /\ Len(Contents') = size - 1
      /\ DOMAIN Contents' = 1 .. size - 1
  <2>1. (RingInv => Contents \in Seq(Value) /\ Len(Contents) = size
                    /\ DOMAIN Contents = 1 .. size)'
    BY ContentsType, PTL
  <2> QED BY <1>2, <2>1
<1>5. Contents # <<>>
  BY <1>1, <1>3
<1>6. Head(Contents) = slot[begin]
  <2>1. Head(Contents) = Contents[1] /\ 1 \in 1 .. size
    BY <1>1, <1>3, <1>5
  <2>2. Contents[1] = slot[IndexOf(1 - 1)]
    BY <2>1 DEF Contents
  <2> QED BY <1>2, <2>1, <2>2
<1>7. /\ Tail(Contents) \in Seq(Value) /\ Len(Tail(Contents)) = size - 1
      /\ \A k \in 1 .. size - 1 : Tail(Contents)[k] = Contents[k + 1]
  BY <1>3, <1>5, HeadTailProperties
<1>8. ASSUME NEW k \in 1 .. size - 1
      PROVE  Contents'[k] = Contents[k + 1]
  <2>1. /\ k - 1 \in 0 .. Capacity - 1 /\ (k - 1) + 1 = k /\ k \in 0 .. Capacity - 1
        /\ k + 1 \in 1 .. size /\ (k + 1) - 1 = k /\ k # 0 /\ 0 \in 0 .. Capacity - 1
    BY <1>1
  <2>2. Contents'[k] = slot'[IndexOf(k - 1)']
    BY <1>2 DEF Contents
  <2>3. IndexOf(k - 1)' = IndexOf(k)
    BY <1>2, <2>1
  <2>4. IndexOf(k) # begin /\ IndexOf(k) \in Slots
    BY <1>2, <2>1, IndexDistinct, IndexIsSlot
  <2>5. Contents[k + 1] = slot[IndexOf(k)]
    BY <2>1 DEF Contents
  <2> QED BY <2>2, <2>3, <2>4, <2>5 DEF RingInv, TypeOK
<1>9. Contents' = Tail(Contents)
  BY <1>1, <1>4, <1>7, <1>8
<1> QED BY <1>5, <1>6, <1>9

\* Every step of the ring is a step of the queue, or none.
LEMMA StepRefines ==
  ASSUME RingInv, RingInv', [Next]_vars
  PROVE  [Fifo!Next]_(Fifo!fifoVars)
<1>1. CASE \E v \in Value : Push(v)
  <2>1. PICK v \in Value : Push(v)
    BY <1>1
  <2>2. Fifo!Push(v)
    BY <2>1, PushAppends, ContentsType DEF Push, Fifo!Push
  <2> QED BY <2>2 DEF Fifo!Next
<1>2. CASE Pop
  <2>1. Fifo!Pop
    BY <1>2, RemoveTakesHead DEF Pop, Fifo!Pop
  <2> QED BY <2>1 DEF Fifo!Next
<1>3. CASE StartDestroy
  <2>1. Contents' = Contents
    BY <1>3 DEF StartDestroy, Contents, IndexOf
  <2>2. Fifo!Kill
    BY <1>3, <2>1 DEF StartDestroy, Fifo!Kill
  <2> QED BY <2>2 DEF Fifo!Next
<1>4. CASE DestroyFront
  <2>1. Fifo!Drop
    BY <1>4, RemoveTakesHead DEF DestroyFront, Fifo!Drop
  <2> QED BY <2>1 DEF Fifo!Next
<1>5. CASE UNCHANGED vars
  BY <1>5 DEF vars, Fifo!fifoVars, Contents, IndexOf
<1> QED BY <1>1, <1>2, <1>3, <1>4, <1>5 DEF Next

\* The ring starts as the empty queue.
LEMMA InitRefines == Init => Fifo!Init
<1> SUFFICES ASSUME Init PROVE Fifo!Init
  OBVIOUS
<1>1. Contents \in Seq(Value) /\ Len(Contents) = 0
  BY InitRingInv, ContentsType DEF Init
<1>2. Contents = <<>>
  BY <1>1, EmptySeq
<1> QED BY <1>2 DEF Init, Fifo!Init

\* Whatever the wrap-around, the ring is a first-in first-out queue of at most
\* Capacity values.
THEOREM RingImplementsFifo == Spec => ImplementsFifo
<1>1. Init => Fifo!Init
  BY InitRefines
<1>2. RingInv /\ RingInv' /\ [Next]_vars => [Fifo!Next]_(Fifo!fifoVars)
  BY StepRefines
<1> QED BY <1>1, <1>2, RingInvariant, PTL DEF Spec, ImplementsFifo, Fifo!Spec

-----------------------------------------------------------------------------
(***************************************************************************)
(* The storage, for sizes of any width: a channel that was created has     *)
(* room for its capacity exactly when its size does not wrap around, and   *)
(* its storage does not leak.                                              *)
(***************************************************************************)
\* A multiple of i next above x.
LEMMA RoundUp ==
  ASSUME NEW x \in Nat, NEW i \in Nat \ {0}
  PROVE  /\ (1 + x \div i) * i > x
         /\ (1 + x \div i) * i <= x + i
         /\ x \div i \in Nat
<1> DEFINE q == x \div i
<1>1. q \in Nat
  BY SMT
<1>2. x = q * i + (x % i) /\ x % i \in 0 .. i - 1
  BY SMT
<1>3. (1 + q) * i = q * i + i /\ q * i \in Nat
  BY <1>1, SMT
<1>4. QED
  BY <1>1, <1>2, <1>3, SMT

\* What a size becomes in std::size_t: itself, or at least SizeLimit less.
LEMMA WrapAround ==
  ASSUME NEW x \in Nat, NEW l \in Nat \ {0}
  PROVE  /\ x % l \in Nat
         /\ x < l => x % l = x
         /\ x >= l => x % l <= x - l
<1>1. CASE x < l
  BY <1>1, SMT
<1>2. CASE x >= l
  <2> DEFINE q == x \div l
  <2>1. x = q * l + (x % l) /\ q \in Nat /\ x % l \in 0 .. l - 1
    BY SMT
  <2>2. q # 0
    BY <1>2, <2>1, SMT
  <2>3. q * l >= l
    <3>1. q * l = (q - 1) * l + l /\ (q - 1) * l >= 0
      BY <2>1, <2>2, SMT
    <3>2. QED
      BY <2>1, <3>1, SMT
  <2>4. QED
    BY <1>2, <2>1, <2>3, SMT
<1>3. QED
  BY <1>1, <1>2

\* Room for p bytes behind i, in blocks of i.
Rounded(p, i, l) == (1 + ((p + i - 1) % l) \div i) * i

LEMMA Rounding ==
  ASSUME NEW p \in Nat, NEW i \in Nat \ {0}, NEW l \in Nat \ {0}, i < l
  PROVE  /\ Rounded(p, i, l) \in Nat
         /\ i + p <= Rounded(p, i, l) <=> p + i - 1 < l
<1> DEFINE e == (p + i - 1) % l
           b == Rounded(p, i, l)
<1>1. p + i - 1 \in Nat
  BY SMT
<1>2. /\ e \in Nat
      /\ p + i - 1 < l => e = p + i - 1
      /\ p + i - 1 >= l => e <= p + i - 1 - l
  <2> DEFINE x == p + i - 1
  <2>1. x \in Nat /\ e = x % l
    BY <1>1
  <2> HIDE DEF e
  <2> HIDE DEF x
  <2>2. e \in Nat /\ (x < l => e = x) /\ (x >= l => e <= x - l)
    BY <2>1, WrapAround
  <2>3. QED
    BY <2>2 DEF x
<1>3. e \div i \in Nat /\ b > e /\ b <= e + i
  <2>1. b = (1 + e \div i) * i
    BY DEF Rounded
  <2> HIDE DEF e, b
  <2>2. QED
    BY <1>2, <2>1, RoundUp
<1> HIDE DEF e
<1>4. b \in Nat
  BY <1>2, <1>3, SMT DEF Rounded, e
<1>5. CASE p + i - 1 < l
  BY <1>2, <1>3, <1>4, <1>5, SMT
<1>6. CASE p + i - 1 >= l
  BY <1>2, <1>3, <1>4, <1>6, SMT
<1>7. QED
  BY <1>1, <1>4, <1>5, <1>6, SMT

\* The block holds the implementation and all slots, unless sizes wrap.
LEMMA BlockSize ==
  ASSUME NEW s \in Sizes
  PROVE  /\ Blocks(s) * s.impl \in Nat
         /\ s.impl + s.capacity * s.value <= Blocks(s) * s.impl <=> Representable(s)
<1>1. /\ s.value \in Nat /\ s.capacity \in Nat
      /\ s.impl \in Nat \ {0} /\ s.impl < SizeLimit
      /\ SizeLimit \in Nat \ {0}
  BY SizesAssumption, SMT
<1>2. s.value * s.capacity \in Nat /\ s.capacity * s.value = s.value * s.capacity
  BY <1>1, SMT
<1>3. /\ Blocks(s) * s.impl \in Nat
      /\ s.impl + s.value * s.capacity <= Blocks(s) * s.impl
           <=> s.value * s.capacity + s.impl - 1 < SizeLimit
  <2>1. Blocks(s) * s.impl = Rounded(s.value * s.capacity, s.impl, SizeLimit)
    BY DEF Blocks, Extra, Rounded
  <2>2. QED
    BY <1>1, <1>2, <2>1, Rounding
<1>4. QED
  BY <1>2, <1>3 DEF Representable

-----------------------------------------------------------------------------
(***************************************************************************)
(* The size of the block is the one computed while there is a block.       *)
(***************************************************************************)
IInv ==
  /\ StorageOK
  /\ bytes = IF state \in {"allocated", "ready"} THEN Blocks(sizes) * sizes.impl ELSE 0

LEMMA Induction == StorageSpec => []IInv
<1>1. StorageInit => IInv
  BY SizesAssumption DEF StorageInit, IInv, StorageOK
<1>2. IInv /\ [StorageNext]_storageVars => IInv'
  <2> SUFFICES ASSUME IInv, [StorageNext]_storageVars PROVE IInv'
    OBVIOUS
  <2> USE DEF IInv, StorageOK
  <2>1. CASE Allocate
    <3>1. sizes' = sizes /\ bytes' \in 0 .. SizeLimit - 1
      BY <2>1, BlockSize, SizesAssumption DEF Allocate
    <3>2. Blocks(sizes)' = Blocks(sizes)
      BY <3>1 DEF Blocks, Extra
    <3>3. QED
      BY <2>1, <3>1, <3>2 DEF Allocate
  <2>2. CASE BadAlloc
    BY <2>2 DEF BadAlloc
  <2>3. CASE Construct
    BY <2>3 DEF Construct, Blocks, Extra
  <2>4. CASE ConstructThrows
    BY <2>4, SizesAssumption DEF ConstructThrows
  <2>5. CASE Delete
    BY <2>5, SizesAssumption DEF Delete
  <2>6. CASE Over \/ UNCHANGED storageVars
    BY <2>6 DEF Over, storageVars, Blocks, Extra
  <2>7. QED
    BY <2>1, <2>2, <2>3, <2>4, <2>5, <2>6 DEF StorageNext
<1>3. QED
  BY <1>1, <1>2, PTL DEF StorageSpec

\* Sizes stay sizes: what calloc returns has a size that fits std::size_t.
THEOREM StorageTypeCorrect == StorageSpec => []StorageOK
BY Induction, PTL DEF IInv

\* A channel has room for its capacity unless its size wraps around, and then
\* it never has.
THEOREM Room == StorageSpec => []RoomUnlessWrapped
<1>1. IInv => RoomUnlessWrapped
  BY BlockSize DEF IInv, StorageOK, RoomUnlessWrapped, SlotsInside
<1>2. QED
  BY <1>1, Induction, PTL

\* There is a block only while a channel is being made or owns it.
THEOREM StorageFreed == StorageSpec => []NoLeak
<1>1. IInv => NoLeak
  BY DEF IInv, NoLeak
<1>2. QED
  BY <1>1, Induction, PTL

-----------------------------------------------------------------------------
(***************************************************************************)
(* Each of the two parts goes on as it would by itself.                    *)
(***************************************************************************)
\* A step of the composition is a step of the ring or leaves it alone.
LEMMA RingStep ==
  ASSUME [MemNext]_MemVars
  PROVE  [Next]_vars
<1>1. CASE MemNext
  <2>1. CASE Create \/ Free \/ (Over /\ UNCHANGED vars)
    BY <2>1 DEF Create, Free
  <2>2. CASE \E v \in Value : Use(Push(v))
    BY <2>2 DEF Use, Next
  <2>3. CASE Use(Pop) \/ Use(StartDestroy) \/ Use(DestroyFront)
    BY <2>3 DEF Use, Next
  <2> QED BY <1>1, <2>1, <2>2, <2>3 DEF MemNext
<1>2. CASE UNCHANGED MemVars
  BY <1>2 DEF MemVars, vars
<1> QED BY <1>1, <1>2

\* A step of the composition is a step of the storage or leaves it alone.
LEMMA StorageStep ==
  ASSUME [MemNext]_MemVars
  PROVE  [StorageNext]_storageVars
<1>1. CASE MemNext
  <2>1. CASE Create \/ Free \/ (Over /\ UNCHANGED vars)
    BY <2>1 DEF Create, Free, StorageNext
  <2>2. CASE \E v \in Value : Use(Push(v))
    BY <2>2 DEF Use
  <2>3. CASE Use(Pop) \/ Use(StartDestroy) \/ Use(DestroyFront)
    BY <2>3 DEF Use
  <2> QED BY <1>1, <2>1, <2>2, <2>3 DEF MemNext
<1>2. CASE UNCHANGED MemVars
  BY <1>2 DEF MemVars, storageVars
<1> QED BY <1>1, <1>2

\* What is proved of the ring by itself holds of the ring in its channel: the
\* memory of the channel is used by push(), pop() and destroy() only.
THEOREM RingInChannel == FairMem => Spec
<1>1. MemInit => Init
  BY DEF MemInit
<1>2. [MemNext]_MemVars => [Next]_vars
  BY RingStep
<1> QED BY <1>1, <1>2, PTL DEF FairMem, Spec

\* So with the storage, though it is freed no sooner than the ring is empty.
THEOREM StorageOfChannel == FairMem => StorageSpec
<1>1. MemInit => StorageInit
  BY DEF MemInit
<1>2. [MemNext]_MemVars => [StorageNext]_storageVars
  BY StorageStep
<1> QED BY <1>1, <1>2, PTL DEF FairMem, StorageSpec

-----------------------------------------------------------------------------
(***************************************************************************)
(* Objects and the memory they are in.                                     *)
(***************************************************************************)
\* There are objects only while there is a channel.
ObjectsOfChannel == \A i \in Slots : slot[i] # Raw => state = "ready"

LEMMA NextObjects ==
  ASSUME RingInv, ObjectsOfChannel, [MemNext]_MemVars
  PROVE  ObjectsOfChannel'
<1>1. CASE Create
  BY <1>1
  DEF Create, Allocate, BadAlloc, Construct, ConstructThrows, ObjectsOfChannel, vars
<1>2. CASE \E v \in Value : Use(Push(v))
  BY <1>2 DEF Use, ObjectsOfChannel, storageVars
<1>3. CASE Use(Pop) \/ Use(StartDestroy) \/ Use(DestroyFront)
  BY <1>3 DEF Use, ObjectsOfChannel, storageVars
<1>4. CASE Free
  <2>1. size = 0 /\ slot' = slot
    BY <1>4 DEF Free, vars
  <2>2. 0 .. size - 1 = {}
    BY <2>1
  <2>3. \A i \in Slots : slot[i] = Raw
    BY <2>2 DEF RingInv, LiveWindow
  <2> QED BY <2>1, <2>3 DEF ObjectsOfChannel
<1>5. CASE (Over /\ UNCHANGED vars) \/ UNCHANGED MemVars
  BY <1>5 DEF Over, MemVars, vars, storageVars, ObjectsOfChannel
<1> QED BY <1>1, <1>2, <1>3, <1>4, <1>5 DEF MemNext

LEMMA ObjectsHaveChannel == FairMem => []ObjectsOfChannel
<1>1. MemInit => ObjectsOfChannel
  BY DEF MemInit, Init, ObjectsOfChannel
<1>2. RingInv /\ ObjectsOfChannel /\ [MemNext]_MemVars => ObjectsOfChannel'
  BY NextObjects
<1> QED BY <1>1, <1>2, RingInChannel, RingInvariant, PTL DEF FairMem

\* Every object of the ring lies in the block of its channel, which is there as
\* long as the object, unless the size of the block wrapped around.
THEOREM ObjectsInside == FairMem => []ObjectsInStorage
<1>1. IInv /\ ObjectsOfChannel => ObjectsInStorage
  <2> SUFFICES ASSUME IInv, ObjectsOfChannel, Representable(sizes),
                      NEW i \in Slots, slot[i] # Raw
               PROVE  sizes.impl + (i + 1) * sizes.value <= bytes
    BY DEF ObjectsInStorage
  <2>1. sizes \in Sizes /\ bytes = Blocks(sizes) * sizes.impl
    BY DEF IInv, StorageOK, ObjectsOfChannel
  <2>2. /\ bytes \in Nat
        /\ sizes.impl + Capacity * sizes.value <= bytes
    BY <2>1, BlockSize, SameCapacity
  <2>3. sizes.impl \in Nat /\ sizes.value \in Nat /\ Capacity \in Nat
    BY <2>1, SizesAssumption, CapacityAssumption
  <2>4. i + 1 \in Nat /\ i + 1 <= Capacity
    BY <2>3 DEF Slots
  <2>5. ASSUME NEW m \in Nat, NEW n \in Nat, NEW v \in Nat, m <= n
        PROVE  m * v \in Nat /\ n * v \in Nat /\ m * v <= n * v
    <3>1. n * v = m * v + (n - m) * v /\ (n - m) * v >= 0
      BY <2>5, SMT
    <3> QED BY <2>5, <3>1, SMT
  <2>6. /\ (i + 1) * sizes.value \in Nat /\ Capacity * sizes.value \in Nat
        /\ (i + 1) * sizes.value <= Capacity * sizes.value
    BY <2>3, <2>4, <2>5
  <2> QED BY <2>2, <2>3, <2>6
<1> QED BY <1>1, ObjectsHaveChannel, StorageOfChannel, Induction, PTL
=============================================================================
