--------------------------- MODULE LifetimeProofs ---------------------------
(***************************************************************************)
(* Theorems about Lifetime, for all channel objects, operations and calls. *)
(***************************************************************************)
EXTENDS Lifetime, SequenceTheorems, TLAPS

-----------------------------------------------------------------------------
(***************************************************************************)
(* The elements of sequences.                                              *)
(***************************************************************************)
LEMMA RangeOfConcat ==
  ASSUME NEW T, NEW s \in Seq(T), NEW t \in Seq(T)
  PROVE  s \o t \in Seq(T) /\ Range(s \o t) = Range(s) \cup Range(t)
<1>1. /\ s \o t \in Seq(T)
      /\ Len(s \o t) = Len(s) + Len(t)
      /\ \A i \in 1 .. Len(s) + Len(t) :
           (s \o t)[i] = IF i <= Len(s) THEN s[i] ELSE t[i - Len(s)]
  BY ConcatProperties
<1>2. /\ DOMAIN (s \o t) = 1 .. Len(s) + Len(t)
      /\ DOMAIN s = 1 .. Len(s) /\ DOMAIN t = 1 .. Len(t)
      /\ Len(s) \in Nat /\ Len(t) \in Nat
  BY <1>1
<1>3. ASSUME NEW i \in DOMAIN (s \o t)
      PROVE  (s \o t)[i] \in Range(s) \cup Range(t)
  <2>1. CASE i <= Len(s)
    BY <1>1, <1>2, <2>1 DEF Range
  <2>2. CASE i > Len(s)
    <3>1. i - Len(s) \in DOMAIN t /\ (s \o t)[i] = t[i - Len(s)]
      BY <1>1, <1>2, <2>2
    <3> QED BY <3>1 DEF Range
  <2> QED BY <1>2, <2>1, <2>2
<1>4. ASSUME NEW i \in DOMAIN s
      PROVE  s[i] \in Range(s \o t)
  <2>1. i \in DOMAIN (s \o t) /\ (s \o t)[i] = s[i]
    BY <1>1, <1>2
  <2> QED BY <2>1 DEF Range
<1>5. ASSUME NEW i \in DOMAIN t
      PROVE  t[i] \in Range(s \o t)
  <2>1. i + Len(s) \in DOMAIN (s \o t) /\ (s \o t)[i + Len(s)] = t[i]
    BY <1>1, <1>2
  <2> QED BY <2>1 DEF Range
<1> QED BY <1>1, <1>3, <1>4, <1>5 DEF Range

LEMMA RangeOfAppend ==
  ASSUME NEW T, NEW s \in Seq(T), NEW x \in T
  PROVE  Append(s, x) \in Seq(T) /\ Range(Append(s, x)) = Range(s) \cup {x}
<1>1. /\ Append(s, x) \in Seq(T)
      /\ Len(Append(s, x)) = Len(s) + 1
      /\ \A i \in 1 .. Len(s) : Append(s, x)[i] = s[i]
      /\ Append(s, x)[Len(s) + 1] = x
  BY AppendProperties
<1>2. /\ DOMAIN Append(s, x) = 1 .. Len(s) + 1
      /\ DOMAIN s = 1 .. Len(s) /\ Len(s) \in Nat
  BY <1>1
<1>3. DOMAIN Append(s, x) = DOMAIN s \cup {Len(s) + 1}
  BY <1>2
<1> QED BY <1>1, <1>2, <1>3 DEF Range

LEMMA RangeOfTail ==
  ASSUME NEW T, NEW s \in Seq(T), s # <<>>
  PROVE  /\ Head(s) \in T /\ Tail(s) \in Seq(T)
         /\ Range(s) = {Head(s)} \cup Range(Tail(s))
<1>1. /\ Head(s) = s[1] /\ Head(s) \in T
      /\ Tail(s) \in Seq(T)
      /\ Len(Tail(s)) = Len(s) - 1
      /\ \A i \in 1 .. Len(Tail(s)) : Tail(s)[i] = s[i + 1]
  BY HeadTailProperties
<1>2. /\ DOMAIN s = 1 .. Len(s) /\ DOMAIN Tail(s) = 1 .. Len(s) - 1
      /\ Len(s) \in Nat \ {0}
  BY <1>1, EmptySeq
<1>3. ASSUME NEW i \in DOMAIN s
      PROVE  s[i] \in {Head(s)} \cup Range(Tail(s))
  <2>1. i = 1 \/ (i - 1 \in DOMAIN Tail(s) /\ Tail(s)[i - 1] = s[i])
    BY <1>1, <1>2
  <2> QED BY <1>1, <2>1 DEF Range
<1>4. 1 \in DOMAIN s /\ \A i \in DOMAIN Tail(s) : i + 1 \in DOMAIN s
  BY <1>2
<1> QED BY <1>1, <1>2, <1>3, <1>4 DEF Range

\* The elements of a sequence of calls are calls; closures are none.
LEMMA RangeType ==
  ASSUME NEW T, NEW s \in Seq(T)
  PROVE  Range(s) \subseteq T
  BY DEF Range

LEMMA RangeOfPair ==
  ASSUME NEW T, NEW a \in T, NEW b \in T
  PROVE  <<a, b>> \in Seq(T) /\ Range(<<a, b>>) = {a, b}
<1>1. DOMAIN <<a, b>> = {1, 2} /\ <<a, b>>[1] = a /\ <<a, b>>[2] = b
  OBVIOUS
<1>2. Range(<<a, b>>) = {<<a, b>>[i] : i \in {1, 2}}
  BY <1>1 DEF Range
<1> QED BY <1>1, <1>2

LEMMA RangeOfEmpty == Range(<<>>) = {}
  BY DEF Range

-----------------------------------------------------------------------------
(***************************************************************************)
(* Sequences that hold each call once.                                     *)
(***************************************************************************)
LEMMA OnceTail ==
  ASSUME NEW T, NEW s \in Seq(T), s # <<>>, Once(s)
  PROVE  Once(Tail(s)) /\ (Head(s) # Closing => Head(s) \notin Range(Tail(s)))
<1>1. /\ Head(s) = s[1]
      /\ Tail(s) \in Seq(T)
      /\ Len(Tail(s)) = Len(s) - 1
      /\ \A i \in 1 .. Len(Tail(s)) : Tail(s)[i] = s[i + 1]
  BY HeadTailProperties
<1>2. /\ DOMAIN s = 1 .. Len(s) /\ DOMAIN Tail(s) = 1 .. Len(s) - 1
      /\ Len(s) \in Nat \ {0}
  BY <1>1, EmptySeq
<1>3. ASSUME NEW i \in DOMAIN Tail(s), NEW j \in DOMAIN Tail(s),
             Tail(s)[i] = Tail(s)[j], Tail(s)[i] # Closing
      PROVE  i = j
  <2>1. i + 1 \in DOMAIN s /\ j + 1 \in DOMAIN s
    BY <1>2
  <2>2. s[i + 1] = s[j + 1] /\ s[i + 1] # Closing
    BY <1>1, <1>2, <1>3
  <2>3. i + 1 = j + 1
    BY <2>1, <2>2 DEF Once
  <2> QED BY <1>2, <2>3
<1>4. ASSUME NEW i \in DOMAIN Tail(s), Tail(s)[i] = Head(s), Head(s) # Closing
      PROVE  FALSE
  <2>1. i + 1 \in DOMAIN s /\ 1 \in DOMAIN s /\ s[i + 1] = s[1] /\ s[1] # Closing
    BY <1>1, <1>2, <1>4
  <2>2. i + 1 = 1
    BY <2>1 DEF Once
  <2> QED BY <1>2, <2>2
<1> QED BY <1>3, <1>4 DEF Once, Range

LEMMA OnceConcat ==
  ASSUME NEW T, NEW s \in Seq(T), NEW t \in Seq(T), Once(s), Once(t),
         (Range(s) \cap Range(t)) \subseteq {Closing}
  PROVE  Once(s \o t)
<1>1. /\ s \o t \in Seq(T)
      /\ Len(s \o t) = Len(s) + Len(t)
      /\ \A i \in 1 .. Len(s) + Len(t) :
           (s \o t)[i] = IF i <= Len(s) THEN s[i] ELSE t[i - Len(s)]
  BY ConcatProperties
<1>2. /\ DOMAIN (s \o t) = 1 .. Len(s) + Len(t)
      /\ DOMAIN s = 1 .. Len(s) /\ DOMAIN t = 1 .. Len(t)
      /\ Len(s) \in Nat /\ Len(t) \in Nat
  BY <1>1
<1>3. ASSUME NEW i \in DOMAIN (s \o t), NEW j \in DOMAIN (s \o t),
             (s \o t)[i] = (s \o t)[j], (s \o t)[i] # Closing
      PROVE  i = j
  <2>1. \A k \in DOMAIN (s \o t) :
          \/ k \in DOMAIN s /\ (s \o t)[k] = s[k]
          \/ k > Len(s) /\ k - Len(s) \in DOMAIN t /\ (s \o t)[k] = t[k - Len(s)]
    BY <1>1, <1>2
  <2>2. CASE i \in DOMAIN s /\ j \in DOMAIN s
    <3>1. s[i] = s[j] /\ s[i] # Closing
      BY <1>1, <1>2, <1>3, <2>2
    <3> QED BY <2>2, <3>1 DEF Once
  <2>3. CASE i \notin DOMAIN s /\ j \notin DOMAIN s
    <3>1. /\ i - Len(s) \in DOMAIN t /\ j - Len(s) \in DOMAIN t
          /\ t[i - Len(s)] = t[j - Len(s)] /\ t[i - Len(s)] # Closing
      BY <1>3, <2>1, <2>3
    <3>2. i - Len(s) = j - Len(s)
      BY <3>1 DEF Once
    <3> QED BY <1>2, <3>2
  <2>4. CASE i \in DOMAIN s /\ j \notin DOMAIN s
    <3>1. /\ s[i] = t[j - Len(s)] /\ s[i] # Closing
          /\ j - Len(s) \in DOMAIN t
      BY <1>1, <1>2, <1>3, <2>1, <2>4
    <3> QED BY <2>4, <3>1 DEF Range
  <2>5. CASE i \notin DOMAIN s /\ j \in DOMAIN s
    <3>1. /\ s[j] = t[i - Len(s)] /\ s[j] # Closing
          /\ i - Len(s) \in DOMAIN t
      BY <1>1, <1>2, <1>3, <2>1, <2>5
    <3> QED BY <2>5, <3>1 DEF Range
  <2> QED BY <2>2, <2>3, <2>4, <2>5
<1> QED BY <1>3 DEF Once

LEMMA OnceAppend ==
  ASSUME NEW T, NEW s \in Seq(T), NEW x \in T, Once(s),
         x \notin Range(s) \/ x = Closing
  PROVE  Once(Append(s, x))
<1>1. /\ Append(s, x) \in Seq(T)
      /\ Len(Append(s, x)) = Len(s) + 1
      /\ \A i \in 1 .. Len(s) : Append(s, x)[i] = s[i]
      /\ Append(s, x)[Len(s) + 1] = x
  BY AppendProperties
<1>2. /\ DOMAIN Append(s, x) = 1 .. Len(s) + 1
      /\ DOMAIN s = 1 .. Len(s) /\ Len(s) \in Nat
  BY <1>1
<1>3. \A i \in DOMAIN Append(s, x) :
        \/ i \in DOMAIN s /\ Append(s, x)[i] = s[i]
        \/ i = Len(s) + 1 /\ Append(s, x)[i] = x
  BY <1>1, <1>2
<1> QED BY <1>3 DEF Once, Range

-----------------------------------------------------------------------------
(***************************************************************************)
(* Type correctness.                                                       *)
(***************************************************************************)
Item == Call \cup {Closing}
OwnerState == [Owner -> {"none", "live", "gone"}]

LEMMA WaitingItems ==
  ASSUME TypeOK
  PROVE  waiting \in Seq(Item) /\ Range(waiting) \subseteq Call
         /\ Closing \notin Range(waiting)
<1>1. waiting \in Seq(Call)
  BY DEF TypeOK
<1>2. Range(waiting) \subseteq Call
  BY <1>1, RangeType
<1> QED BY <1>1, <1>2, DisjointAssumption DEF Item

LEMMA SettleType ==
  ASSUME TypeOK, NEW own \in OwnerState, NEW q \in Seq(Item),
         NEW closes \in BOOLEAN, Settle(own, q, closes)
  PROVE  /\ impl' \in {"none", "running", "closed", "destroyed"}
         /\ owner' \in OwnerState
         /\ waiting' \in Seq(Call)
         /\ queue' \in Seq(Item)
<1>1. waiting \in Seq(Item) /\ waiting \in Seq(Call)
  BY WaitingItems DEF TypeOK
<1>2. q \o waiting \in Seq(Item)
  BY <1>1, RangeOfConcat
<1>3. <<>> \in Seq(Call)
  OBVIOUS
<1> QED BY <1>1, <1>2, <1>3 DEF Settle, TypeOK

LEMMA DispatchType ==
  ASSUME TypeOK, NEW own \in OwnerState, NEW inline \in BOOLEAN,
         Dispatch(own, inline)
  PROVE  /\ impl' \in {"none", "running", "closed", "destroyed"}
         /\ owner' \in OwnerState
         /\ waiting' \in Seq(Call)
         /\ queue' \in Seq(Item)
<1>1. queue \in Seq(Item)
  BY DEF TypeOK, Item
<1>2. Append(queue, Closing) \in Seq(Item)
  BY <1>1, AppendProperties DEF Item
<1>3. CASE inline
  <2>1. Settle(own, queue, TRUE)
    BY <1>3 DEF Dispatch
  <2> QED BY <1>1, <2>1, SettleType
<1>4. CASE ~inline
  <2>1. Settle(own, Append(queue, Closing), FALSE)
    BY <1>4 DEF Dispatch
  <2> QED BY <1>2, <2>1, SettleType
<1> QED BY <1>3, <1>4

LEMMA GoneType ==
  ASSUME TypeOK, NEW x \in Owner
  PROVE  owner \in OwnerState /\ Gone(x) \in OwnerState
  BY DEF TypeOK, OwnerState, Gone

LEMMA SubmitType ==
  ASSUME TypeOK, NEW k \in Call, Submit(k)
  PROVE  TypeOK'
<1>1. queue \in Seq(Item) /\ waiting \in Seq(Call) /\ k \in Item
  BY DEF TypeOK, Item
<1>2. Append(queue, k) \in Seq(Item) /\ Append(waiting, k) \in Seq(Call)
  BY <1>1, AppendProperties
<1>3. ASSUME Partners(k) # {}
      PROVE  /\ Head(waiting) \in Call /\ Tail(waiting) \in Seq(Call)
             /\ queue \o <<k, Head(waiting)>> \in Seq(Item)
             /\ queue \o <<Head(waiting), k>> \in Seq(Item)
  <2>1. waiting # <<>>
    BY <1>3, RangeOfEmpty DEF Partners
  <2>2. Head(waiting) \in Call /\ Tail(waiting) \in Seq(Call)
    BY <1>1, <2>1, HeadTailProperties
  <2>3. <<k, Head(waiting)>> \in Seq(Item) /\ <<Head(waiting), k>> \in Seq(Item)
    BY <2>2 DEF Item
  <2> QED BY <1>1, <2>2, <2>3, RangeOfConcat
<1> QED BY <1>1, <1>2, <1>3 DEF Submit, TypeOK, Item

LEMMA NextType == TypeOK /\ [Next]_vars => TypeOK'
<1> SUFFICES ASSUME TypeOK, [Next]_vars
             PROVE  TypeOK'
  OBVIOUS
<1>1. ASSUME NEW h \in Handle, Construct(h)
      PROVE  TypeOK'
  BY <1>1 DEF Construct, TypeOK
<1>2. ASSUME NEW h \in Handle, Close(h)
      PROVE  TypeOK'
  <2>1. PICK inline \in BOOLEAN : Dispatch(owner, inline)
    BY <1>2 DEF Close
  <2>2. owner \in OwnerState
    BY DEF TypeOK, OwnerState
  <2> QED BY <1>2, <2>1, <2>2, DispatchType DEF Close, TypeOK, OwnerState, Item
<1>3. ASSUME NEW h \in Handle, Destroy(h)
      PROVE  TypeOK'
  <2>1. PICK inline \in BOOLEAN : Dispatch(Gone(h), inline)
    BY <1>3 DEF Destroy
  <2>2. Gone(h) \in OwnerState
    BY GoneType DEF Owner
  <2> QED BY <1>3, <2>1, <2>2, DispatchType DEF Destroy, TypeOK, OwnerState, Item
<1>4. ASSUME NEW x \in Owner, Share(x)
      PROVE  TypeOK'
  BY <1>4 DEF Share, TypeOK
<1>5. ASSUME NEW p \in Poc, Release(p)
      PROVE  TypeOK'
  <2>1. Gone(p) \in OwnerState /\ queue \in Seq(Item)
    BY GoneType DEF Owner, TypeOK, Item
  <2> QED BY <1>5, <2>1, SettleType DEF Release, TypeOK, OwnerState, Item
<1>6. ASSUME NEW k \in Call, Submit(k)
      PROVE  TypeOK'
  BY <1>6, SubmitType
<1>7. CASE Run
  <2>1. /\ queue \in Seq(Item) /\ owner \in OwnerState
        /\ queue # <<>> => Head(queue) \in Item /\ Tail(queue) \in Seq(Item)
    BY HeadTailProperties DEF TypeOK, Item, OwnerState
  <2>2. CASE RunClosure
    BY <2>1, <2>2, SettleType DEF RunClosure, TypeOK, OwnerState, Item
  <2>3. CASE RunHandler
    BY <2>1, <2>3 DEF RunHandler, TypeOK, Item
  <2> QED BY <1>7, <2>2, <2>3 DEF Run
<1>8. CASE DestroyContext
  <2>1. Range(queue) \subseteq Item /\ Range(waiting) \subseteq Call
    BY WaitingItems, RangeType DEF TypeOK, Item
  <2>2. dropped' \subseteq Call
    BY <1>8, <2>1 DEF DestroyContext, TypeOK, Item
  <2>3. waiting' = <<>> \/ waiting' = waiting
    BY <1>8 DEF DestroyContext
  <2>4. queue' = <<>> /\ waiting \in Seq(Call)
    BY <1>8 DEF DestroyContext, TypeOK
  <2>5. <<>> \in Seq(Call) /\ <<>> \in Seq(Call \cup {Closing})
    OBVIOUS
  <2>6. waiting' \in Seq(Call) /\ queue' \in Seq(Call \cup {Closing})
    BY <2>3, <2>4, <2>5
  <2> QED BY <1>8, <2>2, <2>6 DEF DestroyContext, TypeOK
<1>9. CASE UNCHANGED vars
  BY <1>9 DEF vars, TypeOK
<1> QED BY <1>1, <1>2, <1>3, <1>4, <1>5, <1>6, <1>7, <1>8, <1>9 DEF Next

\* The state of the holders, the queues and the sets of calls is well typed.
THEOREM TypeCorrect == Spec => []TypeOK
<1>1. Init => TypeOK
  BY DEF Init, TypeOK
<1> QED BY <1>1, NextType, PTL DEF Spec

-----------------------------------------------------------------------------
(***************************************************************************)
(* The implementation lives as long as it is held.                         *)
(***************************************************************************)
\* A step that ends in Settle, made while the implementation exists.
LEMMA SettleHeld ==
  ASSUME TypeOK, impl \in {"running", "closed"},
         NEW own \in OwnerState, NEW q \in Seq(Item), NEW closes \in BOOLEAN,
         Settle(own, q, closes),
         \/ closes
         \/ impl = "closed"
         \/ Closing \in Range(q)
         \/ \A h \in Handle : own[h] # "gone"
  PROVE  HeldInv'
<1>1. Range(q \o waiting) = Range(q) \cup Range(waiting)
      /\ Closing \notin Range(waiting)
  BY WaitingItems, RangeOfConcat
<1>2. Closing \in Range(queue') <=> Closing \in Range(q)
  BY <1>1 DEF Settle
<1>3. owner' = own /\ (Referenced(own, q) <=> Live' # {} \/ Closing \in Range(q))
  BY DEF Settle, Referenced, Live
<1>4. impl' = IF ~Referenced(own, q) THEN "destroyed"
              ELSE IF closes THEN "closed" ELSE impl
  BY DEF Settle
<1>5. AliveWhileHeld'
  BY <1>2, <1>3, <1>4 DEF AliveWhileHeld
<1>6. NothingYet'
  BY <1>4 DEF NothingYet
<1>7. DestructorCloses'
  BY <1>2, <1>3, <1>4 DEF DestructorCloses
<1> QED BY <1>5, <1>6, <1>7 DEF HeldInv

LEMMA DispatchHeld ==
  ASSUME TypeOK, impl \in {"running", "closed"},
         NEW own \in OwnerState, NEW inline \in BOOLEAN, Dispatch(own, inline)
  PROVE  HeldInv'
<1>1. queue \in Seq(Item) /\ Closing \in Item
  BY DEF TypeOK, Item
<1>2. CASE inline
  <2>1. Settle(own, queue, TRUE)
    BY <1>2 DEF Dispatch
  <2> QED BY <1>1, <2>1, SettleHeld
<1>3. CASE ~inline
  <2>1. Settle(own, Append(queue, Closing), FALSE)
    BY <1>3 DEF Dispatch
  <2>2. Append(queue, Closing) \in Seq(Item)
        /\ Closing \in Range(Append(queue, Closing))
    BY <1>1, RangeOfAppend
  <2> QED BY <2>1, <2>2, SettleHeld
<1> QED BY <1>2, <1>3

\* Whoever is live holds the implementation.
LEMMA LiveHolds ==
  ASSUME HeldInv, NEW x \in Owner, owner[x] = "live"
  PROVE  impl \in {"running", "closed"}
  BY DEF HeldInv, AliveWhileHeld, Live

\* The calls posted to the executor are not closures.
LEMMA SubmitClosures ==
  ASSUME TypeOK, NEW k \in Call, Submit(k)
  PROVE  Closing \in Range(queue') <=> Closing \in Range(queue)
<1>1. queue \in Seq(Item) /\ waiting \in Seq(Call) /\ k \in Item /\ k # Closing
  BY DisjointAssumption DEF TypeOK, Item
<1>2. Range(Append(queue, k)) = Range(queue) \cup {k}
  BY <1>1, RangeOfAppend
<1>3. ASSUME Partners(k) # {}
      PROVE  /\ Closing \in Range(queue \o <<k, Head(waiting)>>)
                  <=> Closing \in Range(queue)
             /\ Closing \in Range(queue \o <<Head(waiting), k>>)
                  <=> Closing \in Range(queue)
  <2> DEFINE j == Head(waiting)
  <2>1. waiting # <<>>
    BY <1>3, RangeOfEmpty DEF Partners
  <2>2. j \in Item /\ j # Closing
    BY <1>1, <2>1, HeadTailProperties, DisjointAssumption DEF Item
  <2> HIDE DEF j
  <2>3. <<k, j>> \in Seq(Item) /\ Range(<<k, j>>) = {k, j}
    BY <1>1, <2>2, RangeOfPair
  <2>4. <<j, k>> \in Seq(Item) /\ Range(<<j, k>>) = {k, j}
    BY <1>1, <2>2, RangeOfPair
  <2> DEFINE s == <<k, j>>
             t == <<j, k>>
  <2>5. s \in Seq(Item) /\ t \in Seq(Item) /\ Range(s) = {k, j} /\ Range(t) = {k, j}
    BY <2>3, <2>4
  <2> HIDE DEF s, t
  <2>6. /\ Range(queue \o s) = Range(queue) \cup {k, j}
        /\ Range(queue \o t) = Range(queue) \cup {k, j}
    BY <1>1, <2>5, RangeOfConcat
  <2>7. /\ Closing \in Range(queue \o s) <=> Closing \in Range(queue)
        /\ Closing \in Range(queue \o t) <=> Closing \in Range(queue)
    BY <1>1, <2>2, <2>6
  <2> QED BY <2>7 DEF j, s, t
<1> QED BY <1>1, <1>2, <1>3 DEF Submit

LEMMA NextHeld == TypeOK /\ HeldInv /\ [Next]_vars => HeldInv'
<1> SUFFICES ASSUME TypeOK, HeldInv, [Next]_vars
             PROVE  HeldInv'
  OBVIOUS
<1> USE DEF HeldInv
<1>0. owner \in OwnerState /\ queue \in Seq(Item)
  BY DEF TypeOK, OwnerState, Item
<1>1. ASSUME NEW h \in Handle, Construct(h)
      PROVE  HeldInv'
  <2>1. h \in Owner /\ owner = [x \in Owner |-> "none"]
    BY <1>1 DEF Construct, NothingYet, Owner
  <2>2. owner' = [owner EXCEPT ![h] = "live"] /\ impl' = "running" /\ queue' = queue
    BY <1>1 DEF Construct
  <2>3. owner'[h] = "live" /\ \A x \in Owner : owner'[x] # "gone"
    BY <2>1, <2>2
  <2> QED BY <2>1, <2>2, <2>3
        DEF NothingYet, AliveWhileHeld, DestructorCloses, Live, Owner
<1>2. ASSUME NEW h \in Handle, Close(h)
      PROVE  HeldInv'
  <2>1. PICK inline \in BOOLEAN : Dispatch(owner, inline)
    BY <1>2 DEF Close
  <2>2. impl \in {"running", "closed"}
    BY <1>2, LiveHolds DEF Close, Owner
  <2> QED BY <1>0, <2>1, <2>2, DispatchHeld
<1>3. ASSUME NEW h \in Handle, Destroy(h)
      PROVE  HeldInv'
  <2>1. PICK inline \in BOOLEAN : Dispatch(Gone(h), inline)
    BY <1>3 DEF Destroy
  <2>2. impl \in {"running", "closed"}
    BY <1>3, LiveHolds DEF Destroy, Owner
  <2>3. Gone(h) \in OwnerState
    BY GoneType DEF Owner
  <2> QED BY <2>1, <2>2, <2>3, DispatchHeld
<1>4. ASSUME NEW x \in Owner, Share(x)
      PROVE  HeldInv'
  <2>1. Live # {} /\ impl \in {"running", "closed"}
    BY <1>4, LiveHolds DEF Share, Live
  <2>2. owner' = [owner EXCEPT ![x] = "live"] /\ impl' = impl /\ queue' = queue
    BY <1>4 DEF Share
  <2>3. Live' # {} /\ \A h \in Handle : owner'[h] = "gone" => owner[h] = "gone"
    BY <1>0, <2>1, <2>2 DEF Live, OwnerState, Owner
  <2> QED BY <2>1, <2>2, <2>3 DEF NothingYet, AliveWhileHeld, DestructorCloses
<1>5. ASSUME NEW p \in Poc, Release(p)
      PROVE  HeldInv'
  <2>1. p \in Owner /\ impl \in {"running", "closed"} /\ Gone(p) \in OwnerState
    BY <1>5, LiveHolds, GoneType DEF Release, Owner
  <2>2. \A h \in Handle : Gone(p)[h] = owner[h]
    BY <1>0, <2>1, DisjointAssumption DEF Gone, OwnerState, Owner
  <2>3. \/ impl = "closed"
        \/ Closing \in Range(queue)
        \/ \A h \in Handle : Gone(p)[h] # "gone"
    BY <2>1, <2>2 DEF DestructorCloses
  <2> QED BY <1>0, <1>5, <2>1, <2>3, SettleHeld DEF Release
<1>6. ASSUME NEW k \in Call, Submit(k)
      PROVE  HeldInv'
  <2>1. impl' = impl /\ owner' = owner /\ impl # "none"
    BY <1>6 DEF Submit
  <2> QED BY <1>6, <2>1, SubmitClosures
        DEF NothingYet, AliveWhileHeld, DestructorCloses, Live
<1>7. CASE Run
  <2>1. CASE RunClosure
    <3>1. /\ Head(queue) = Closing
          /\ Range(queue) = {Head(queue)} \cup Range(Tail(queue))
          /\ Tail(queue) \in Seq(Item)
      BY <1>0, <2>1, RangeOfTail DEF RunClosure
    <3>2. impl \in {"running", "closed"}
      BY <3>1 DEF AliveWhileHeld
    <3>3. Settle(owner, Tail(queue), TRUE)
      BY <2>1 DEF RunClosure
    <3> QED BY <1>0, <3>1, <3>2, <3>3, SettleHeld
  <2>2. CASE RunHandler
    <3>1. /\ Head(queue) # Closing
          /\ Range(queue) = {Head(queue)} \cup Range(Tail(queue))
      BY <1>0, <2>2, RangeOfTail DEF RunHandler
    <3>2. Closing \in Range(queue') <=> Closing \in Range(queue)
      BY <2>2, <3>1 DEF RunHandler
    <3> QED BY <2>2, <3>2
          DEF RunHandler, NothingYet, AliveWhileHeld, DestructorCloses, Live
  <2> QED BY <1>7, <2>1, <2>2 DEF Run
<1>8. CASE DestroyContext
  BY <1>8, RangeOfEmpty
     DEF DestroyContext, NothingYet, AliveWhileHeld, DestructorCloses, Live
<1>9. CASE UNCHANGED vars
  BY <1>9 DEF vars, NothingYet, AliveWhileHeld, DestructorCloses, Live
<1> QED BY <1>1, <1>2, <1>3, <1>4, <1>5, <1>6, <1>7, <1>8, <1>9 DEF Next

LEMMA InitHeld == Init => HeldInv
  BY RangeOfEmpty
     DEF Init, HeldInv, NothingYet, AliveWhileHeld, DestructorCloses, Live

LEMMA HeldInvariant == Spec => [](TypeOK /\ HeldInv)
<1>1. Init => TypeOK /\ HeldInv
  BY InitHeld DEF Init, TypeOK
<1> QED BY <1>1, NextType, NextHeld, PTL DEF Spec

\* The implementation of a channel exists exactly as long as a channel object,
\* an operation or a posted closure holds it.
THEOREM ImplementationHeld == Spec => []AliveWhileHeld
<1>1. HeldInv => AliveWhileHeld
  BY DEF HeldInv
<1> QED BY <1>1, HeldInvariant, PTL

\* When one channel object is destroyed, the channel is closed for all of them
\* or the closure that closes it is posted.
THEOREM DestructorClosesForAll == Spec => []DestructorCloses
<1>1. HeldInv => DestructorCloses
  BY DEF HeldInv
<1> QED BY <1>1, HeldInvariant, PTL

-----------------------------------------------------------------------------
(***************************************************************************)
(* Every call is accounted for.                                            *)
(***************************************************************************)
\* A step that ends in Settle, and changes nothing else but closures.
LEMMA SettleAccounted ==
  ASSUME TypeOK, CallsAccounted,
         NEW own \in OwnerState, NEW q \in Seq(Item), NEW closes \in BOOLEAN,
         Once(q), Range(q) \ {Closing} = Range(queue) \ {Closing},
         Settle(own, q, closes),
         UNCHANGED <<submitted, invoked, dropped, context>>
  PROVE  CallsAccounted'
<1>1. waiting \in Seq(Item) /\ Closing \notin Range(waiting)
  BY WaitingItems
<1>2. CASE Flushes(own, q, closes)
  <2>1. queue' = q \o waiting /\ waiting' = <<>>
    BY <1>2 DEF Settle
  <2>2. (Range(q) \cap Range(waiting)) \subseteq {Closing} /\ Once(waiting)
    BY DEF CallsAccounted
  <2>3. Once(q \o waiting)
    BY <1>1, <2>2, OnceConcat
  <2>4. /\ Range(queue') = Range(q) \cup Range(waiting)
        /\ Range(waiting') = {}
        /\ Once(queue')
    BY <1>1, <2>1, <2>3, RangeOfConcat, RangeOfEmpty
  <2>5. Once(waiting')
    BY <2>1 DEF Once
  <2> QED BY <1>1, <2>1, <2>4, <2>5 DEF CallsAccounted
<1>3. CASE ~Flushes(own, q, closes)
  <2>1. queue' = q /\ waiting' = waiting
    BY <1>3 DEF Settle
  <2>2. waiting # <<>> => impl' = "running"
    BY <1>3 DEF Settle, Flushes, CallsAccounted
  <2> QED BY <2>1, <2>2 DEF CallsAccounted
<1> QED BY <1>2, <1>3

LEMMA DispatchAccounted ==
  ASSUME TypeOK, CallsAccounted,
         NEW own \in OwnerState, NEW inline \in BOOLEAN, Dispatch(own, inline),
         UNCHANGED <<submitted, invoked, dropped, context>>
  PROVE  CallsAccounted'
<1>1. queue \in Seq(Item) /\ Closing \in Item /\ Once(queue)
  BY DEF TypeOK, Item, CallsAccounted
<1>2. CASE inline
  <2>1. Settle(own, queue, TRUE)
    BY <1>2 DEF Dispatch
  <2> QED BY <1>1, <2>1, SettleAccounted
<1>3. CASE ~inline
  <2>1. Settle(own, Append(queue, Closing), FALSE)
    BY <1>3 DEF Dispatch
  <2>2. /\ Append(queue, Closing) \in Seq(Item)
        /\ Range(Append(queue, Closing)) = Range(queue) \cup {Closing}
        /\ Once(Append(queue, Closing))
    BY <1>1, RangeOfAppend, OnceAppend
  <2> QED BY <2>1, <2>2, SettleAccounted
<1> QED BY <1>2, <1>3

LEMMA SubmitAccounted ==
  ASSUME TypeOK, CallsAccounted, NEW k \in Call, Submit(k), context = "open"
  PROVE  CallsAccounted'
<1>1. /\ queue \in Seq(Item) /\ waiting \in Seq(Call) /\ k \in Item
      /\ k # Closing /\ Closing \notin Range(waiting)
  BY WaitingItems, DisjointAssumption DEF TypeOK, Item
<1>2. /\ k \notin Range(queue) /\ k \notin Range(waiting)
      /\ k \notin invoked /\ k \notin dropped
      /\ Once(queue) /\ Once(waiting)
  BY <1>1 DEF Submit, CallsAccounted
<1>3. /\ submitted' = submitted \cup {k}
      /\ impl' = impl /\ invoked' = invoked /\ dropped' = dropped
      /\ context' = context
  BY DEF Submit
<1>4. CASE impl = "closed" /\ queue' = Append(queue, k) /\ UNCHANGED waiting
  <2>1. Range(queue') = Range(queue) \cup {k} /\ Once(queue')
    BY <1>1, <1>2, <1>4, RangeOfAppend, OnceAppend
  <2> QED BY <1>1, <1>2, <1>3, <1>4, <2>1 DEF CallsAccounted
<1>5. CASE /\ impl = "running" /\ Partners(k) = {}
           /\ waiting' = Append(waiting, k) /\ UNCHANGED queue
  <2>1. Range(waiting') = Range(waiting) \cup {k} /\ Once(waiting')
    BY <1>1, <1>2, <1>5, RangeOfAppend, OnceAppend
  <2> QED BY <1>1, <1>2, <1>3, <1>5, <2>1 DEF CallsAccounted
<1>6. CASE /\ impl = "running" /\ Partners(k) # {}
           /\ queue' = queue \o (IF k \in Sender THEN <<k, Head(waiting)>>
                                                 ELSE <<Head(waiting), k>>)
           /\ waiting' = Tail(waiting)
  <2> DEFINE j == Head(waiting)
             s == IF k \in Sender THEN <<k, j>> ELSE <<j, k>>
  <2>1. waiting # <<>>
    BY <1>6, RangeOfEmpty DEF Partners
  <2>2. /\ j \in Call /\ j # Closing /\ j \in Item
        /\ Range(waiting) = {j} \cup Range(Tail(waiting))
        /\ j \notin Range(Tail(waiting)) /\ Once(Tail(waiting))
    BY <1>1, <1>2, <2>1, RangeOfTail, OnceTail, DisjointAssumption DEF Item
  <2> HIDE DEF j
  <2>3. j # k
    BY <1>2, <2>2
  <2>4. <<k, j>> \in Seq(Item) /\ Range(<<k, j>>) = {k, j}
    BY <1>1, <2>2, RangeOfPair
  <2>5. <<j, k>> \in Seq(Item) /\ Range(<<j, k>>) = {k, j}
    BY <1>1, <2>2, RangeOfPair
  <2>6. Once(<<k, j>>) /\ Once(<<j, k>>)
    BY <2>3 DEF Once
  <2>7. s \in Seq(Item) /\ Range(s) = {k, j} /\ Once(s)
    BY <2>4, <2>5, <2>6
  <2>8. queue' = queue \o s
    BY <1>6 DEF j
  <2> HIDE DEF s
  <2>9. j \notin Range(queue) /\ j \notin invoked /\ j \notin dropped
    BY <2>2 DEF CallsAccounted
  <2>10. (Range(queue) \cap Range(s)) \subseteq {Closing}
    BY <1>2, <2>7, <2>9
  <2>11. Range(queue') = Range(queue) \cup {k, j} /\ Once(queue')
    BY <1>1, <1>2, <2>7, <2>8, <2>10, RangeOfConcat, OnceConcat
  <2>12. /\ Range(waiting) = Range(waiting') \cup {j}
         /\ j \notin Range(waiting') /\ Once(waiting')
    BY <1>6, <2>2
  <2>13. /\ impl' = "running" /\ dropped = {}
         /\ Range(queue) \cap (invoked \cup dropped) \subseteq {Closing}
         /\ submitted = Range(waiting) \cup (Range(queue) \ {Closing})
                          \cup invoked \cup dropped
         /\ Range(waiting) \cap ((Range(queue) \ {Closing}) \cup invoked) = {}
    BY <1>3, <1>6 DEF CallsAccounted
  <2>14. submitted' = Range(waiting') \cup (Range(queue') \ {Closing})
                        \cup invoked' \cup dropped'
    BY <1>1, <1>3, <2>2, <2>11, <2>12, <2>13
  <2>15. Range(waiting') \cap ((Range(queue') \ {Closing}) \cup invoked' \cup dropped') = {}
    BY <1>2, <1>3, <2>11, <2>12, <2>13
  <2>16. (Range(queue') \ {Closing}) \cap (invoked' \cup dropped') = {}
    BY <1>2, <1>3, <2>9, <2>11, <2>13
  <2> QED BY <1>3, <2>11, <2>12, <2>13, <2>14, <2>15, <2>16 DEF CallsAccounted
<1> QED BY <1>4, <1>5, <1>6 DEF Submit

\* Nothing is live after the context is gone.
ContextOutlives == context = "destroyed" => Live = {} /\ impl # "none"

LEMMA NextContext ==
  TypeOK /\ HeldInv /\ ContextOutlives /\ [Next]_vars => ContextOutlives'
<1> SUFFICES ASSUME TypeOK, HeldInv, ContextOutlives, [Next]_vars
             PROVE  ContextOutlives'
  OBVIOUS
<1> USE DEF ContextOutlives
<1>1. ASSUME NEW h \in Handle, Construct(h)
      PROVE  ContextOutlives'
  BY <1>1 DEF Construct
<1>2. ASSUME NEW x \in Owner, owner[x] = "live", context' = context
      PROVE  ContextOutlives'
  BY <1>2 DEF Live
<1>3. ASSUME NEW x \in Owner, Share(x)
      PROVE  ContextOutlives'
  BY <1>3 DEF Share, Live
<1>4. ASSUME NEW k \in Call, Submit(k)
      PROVE  ContextOutlives'
  BY <1>4 DEF Submit
<1>5. CASE Run \/ DestroyContext \/ UNCHANGED vars
  <2>1. CASE Run
    BY <2>1 DEF Run, RunClosure, RunHandler
  <2>2. CASE DestroyContext
    BY <2>2 DEF DestroyContext, Live
  <2>3. CASE UNCHANGED vars
    BY <2>3 DEF vars, Live
  <2> QED BY <1>5, <2>1, <2>2, <2>3
<1> QED BY <1>1, <1>2, <1>3, <1>4, <1>5 DEF Next, Close, Destroy, Release, Owner

LEMMA RunAccounted ==
  ASSUME TypeOK, CallsAccounted, Run
  PROVE  CallsAccounted'
<1>1. owner \in OwnerState /\ queue \in Seq(Item) /\ Once(queue) /\ queue # <<>>
  BY DEF TypeOK, OwnerState, Item, CallsAccounted, Run, RunClosure, RunHandler
<1>2. /\ Tail(queue) \in Seq(Item) /\ Once(Tail(queue))
      /\ Range(queue) = {Head(queue)} \cup Range(Tail(queue))
      /\ Head(queue) # Closing => Head(queue) \notin Range(Tail(queue))
  BY <1>1, RangeOfTail, OnceTail
<1>3. CASE RunClosure
  <2>1. Settle(owner, Tail(queue), TRUE) /\ Head(queue) = Closing
    BY <1>3 DEF RunClosure
  <2>2. UNCHANGED <<submitted, invoked, dropped, context>>
    BY <1>3 DEF Run, RunClosure
  <2> QED BY <1>1, <1>2, <2>1, <2>2, SettleAccounted
<1>4. CASE RunHandler
  <2>1. /\ Head(queue) # Closing /\ queue' = Tail(queue)
        /\ invoked' = invoked \cup {Head(queue)}
        /\ UNCHANGED <<impl, waiting, submitted, dropped, context>>
    BY <1>4 DEF RunHandler
  <2>2. dropped = {}
    BY DEF Run, CallsAccounted
  <2> QED BY <1>2, <2>1, <2>2 DEF CallsAccounted
<1> QED BY <1>3, <1>4 DEF Run

LEMMA DestroyContextAccounted ==
  ASSUME TypeOK, CallsAccounted, DestroyContext
  PROVE  CallsAccounted'
<1>1. ~Referenced(owner, <<>>)
  BY RangeOfEmpty DEF DestroyContext, Referenced, Live
<1>2. dropped' = dropped \cup (Range(queue) \ {Closing}) \cup Range(waiting)
      /\ waiting' = <<>>
  <2>1. CASE impl = "running"
    BY <1>1, <2>1 DEF DestroyContext, Flushes
  <2>2. CASE impl # "running"
    BY <1>1, <2>2, RangeOfEmpty DEF DestroyContext, Flushes, CallsAccounted
  <2> QED BY <2>1, <2>2
<1>3. /\ queue' = <<>> /\ context' = "destroyed"
      /\ submitted' = submitted /\ invoked' = invoked
  BY DEF DestroyContext
<1>4. Range(queue') = {} /\ Range(waiting') = {} /\ Once(queue') /\ Once(waiting')
  BY <1>2, <1>3, RangeOfEmpty DEF Once
<1> QED BY <1>2, <1>3, <1>4 DEF CallsAccounted

LEMMA NextAccounted ==
  TypeOK /\ HeldInv /\ ContextOutlives /\ CallsAccounted /\ [Next]_vars
    => CallsAccounted'
<1> SUFFICES ASSUME TypeOK, HeldInv, ContextOutlives, CallsAccounted, [Next]_vars
             PROVE  CallsAccounted'
  OBVIOUS
<1>0. owner \in OwnerState /\ queue \in Seq(Item) /\ Once(queue)
  BY DEF TypeOK, OwnerState, Item, CallsAccounted
<1>1. ASSUME NEW h \in Handle, Construct(h)
      PROVE  CallsAccounted'
  <2>1. waiting = <<>>
    BY <1>1 DEF Construct, HeldInv, NothingYet
  <2> QED BY <1>1, <2>1 DEF Construct, CallsAccounted
<1>2. ASSUME NEW h \in Handle, Close(h)
      PROVE  CallsAccounted'
  <2>1. PICK inline \in BOOLEAN : Dispatch(owner, inline)
    BY <1>2 DEF Close
  <2> QED BY <1>0, <1>2, <2>1, DispatchAccounted DEF Close
<1>3. ASSUME NEW h \in Handle, Destroy(h)
      PROVE  CallsAccounted'
  <2>1. PICK inline \in BOOLEAN : Dispatch(Gone(h), inline)
    BY <1>3 DEF Destroy
  <2>2. Gone(h) \in OwnerState
    BY GoneType DEF Owner
  <2> QED BY <1>3, <2>1, <2>2, DispatchAccounted DEF Destroy
<1>4. ASSUME NEW x \in Owner, Share(x)
      PROVE  CallsAccounted'
  BY <1>4 DEF Share, CallsAccounted
<1>5. ASSUME NEW p \in Poc, Release(p)
      PROVE  CallsAccounted'
  <2>1. Gone(p) \in OwnerState
    BY GoneType DEF Owner
  <2> QED BY <1>0, <1>5, <2>1, SettleAccounted DEF Release
<1>6. ASSUME NEW k \in Call, Submit(k)
      PROVE  CallsAccounted'
  <2>1. context = "open"
    BY <1>6 DEF Submit, ContextOutlives, TypeOK
  <2> QED BY <1>6, <2>1, SubmitAccounted
<1>7. CASE Run
  BY <1>7, RunAccounted
<1>8. CASE DestroyContext
  BY <1>8, DestroyContextAccounted
<1>9. CASE UNCHANGED vars
  BY <1>9 DEF vars, CallsAccounted
<1> QED BY <1>1, <1>2, <1>3, <1>4, <1>5, <1>6, <1>7, <1>8, <1>9 DEF Next

\* No end of a channel forgets a call or completes it twice.
THEOREM CallsAreAccounted == Spec => []CallsAccounted
<1>1. Init => CallsAccounted /\ ContextOutlives
  BY RangeOfEmpty DEF Init, CallsAccounted, ContextOutlives, Once
<1> QED BY <1>1, HeldInvariant, NextContext, NextAccounted, PTL DEF Spec

=============================================================================
