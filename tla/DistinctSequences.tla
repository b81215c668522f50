------------------------- MODULE DistinctSequences -------------------------
(***************************************************************************)
(* Sequences without repetitions, such as queues of operations and buffers *)
(* of values.                                                              *)
(***************************************************************************)
EXTENDS Functions, SequenceTheorems, TLAPS

\* Popping the head of a sequence without repetitions.
LEMMA TailDistinct ==
  ASSUME NEW S, NEW s \in Seq(S), s # <<>>, IsInjective(s)
  PROVE  /\ IsInjective(Tail(s))
         /\ Range(Tail(s)) = Range(s) \ {Head(s)}
         /\ Head(s) \in Range(s)
<1>1. /\ Len(Tail(s)) = Len(s) - 1
      /\ \A i \in 1 .. Len(Tail(s)) : Tail(s)[i] = s[i+1]
      /\ Tail(s) \in Seq(S)
  BY HeadTailProperties
<1>2. /\ Len(s) \in Nat /\ Len(s) > 0
      /\ DOMAIN s = 1 .. Len(s)
      /\ DOMAIN Tail(s) = 1 .. Len(s) - 1
      /\ Head(s) = s[1]
  BY <1>1, EmptySeq
<1>3. IsInjective(Tail(s))
  BY <1>1, <1>2 DEF IsInjective
<1>4. Range(Tail(s)) \subseteq Range(s) \ {Head(s)}
  BY <1>1, <1>2 DEF IsInjective, Range
<1>5. ASSUME NEW x \in Range(s), x # Head(s)
      PROVE  x \in Range(Tail(s))
  <2>1. PICK i \in 1 .. Len(s) : x = s[i]
    BY <1>2 DEF Range
  <2>2. i - 1 \in DOMAIN Tail(s) /\ Tail(s)[i - 1] = x
    BY <1>1, <1>2, <1>5, <2>1
  <2> QED BY <2>2 DEF Range
<1>6. Head(s) \in Range(s)
  BY <1>2 DEF Range
<1> QED BY <1>3, <1>4, <1>5, <1>6

\* Appending a new element to a sequence without repetitions.
LEMMA AppendDistinct ==
  ASSUME NEW S, NEW s \in Seq(S), NEW e \in S, IsInjective(s), e \notin Range(s)
  PROVE  /\ IsInjective(Append(s, e))
         /\ Range(Append(s, e)) = Range(s) \cup {e}
<1> DEFINE t == Append(s, e)
<1>1. /\ DOMAIN s = 1 .. Len(s) /\ Len(s) \in Nat
      /\ DOMAIN t = 1 .. Len(s) + 1
      /\ \A i \in 1 .. Len(s) : t[i] = s[i]
      /\ t[Len(s) + 1] = e
  BY AppendProperties
<1>2. \A i \in DOMAIN t : i \in DOMAIN s \/ i = Len(s) + 1
  BY <1>1
<1>3. \A i \in DOMAIN s : s[i] # e
  BY DEF Range
<1> HIDE DEF t
<1>4. IsInjective(t)
  BY <1>1, <1>2, <1>3 DEF IsInjective
<1>5. Range(t) = Range(s) \cup {e}
  BY <1>1, <1>2 DEF Range
<1> QED BY <1>4, <1>5 DEF t

\* Element f comes before element g in s.
Precedes(s, f, g) == \E i, j \in DOMAIN s : i < j /\ s[i] = f /\ s[j] = g

\* The head comes before all others, and popping it changes nothing for them.
LEMMA TailPrecedes ==
  ASSUME NEW S, NEW s \in Seq(S), s # <<>>, IsInjective(s)
  PROVE  /\ \A f : ~Precedes(s, f, Head(s))
         /\ \A g \in Range(Tail(s)) : Precedes(s, Head(s), g)
         /\ \A f, g : Precedes(Tail(s), f, g) <=> Precedes(s, f, g) /\ f # Head(s)
<1>1. /\ Len(Tail(s)) = Len(s) - 1
      /\ \A i \in 1 .. Len(Tail(s)) : Tail(s)[i] = s[i+1]
      /\ Tail(s) \in Seq(S)
  BY HeadTailProperties
<1>2. /\ Len(s) \in Nat /\ Len(s) > 0
      /\ DOMAIN s = 1 .. Len(s)
      /\ DOMAIN Tail(s) = 1 .. Len(s) - 1
      /\ Head(s) = s[1]
  BY <1>1, EmptySeq
<1>3. \A i \in DOMAIN s : s[i] = Head(s) => i = 1
  BY <1>2 DEF IsInjective
<1>4. \A f : ~Precedes(s, f, Head(s))
  BY <1>2, <1>3 DEF Precedes
<1>5. ASSUME NEW g \in Range(Tail(s))
      PROVE  Precedes(s, Head(s), g)
  <2>1. PICK i \in DOMAIN Tail(s) : g = Tail(s)[i]
    BY DEF Range
  <2>2. /\ 1 \in DOMAIN s /\ i + 1 \in DOMAIN s /\ 1 < i + 1
        /\ s[1] = Head(s) /\ s[i + 1] = g
    BY <1>1, <1>2, <2>1
  <2> QED BY <2>2 DEF Precedes
<1>6. ASSUME NEW f, NEW g, Precedes(Tail(s), f, g)
      PROVE  Precedes(s, f, g) /\ f # Head(s)
  <2>1. PICK i, j \in DOMAIN Tail(s) : i < j /\ Tail(s)[i] = f /\ Tail(s)[j] = g
    BY <1>6 DEF Precedes
  <2>2. /\ i + 1 \in DOMAIN s /\ j + 1 \in DOMAIN s /\ i + 1 < j + 1 /\ i + 1 # 1
        /\ s[i + 1] = f /\ s[j + 1] = g
    BY <1>1, <1>2, <2>1
  <2> QED BY <1>3, <2>2 DEF Precedes
<1>7. ASSUME NEW f, NEW g, Precedes(s, f, g), f # Head(s)
      PROVE  Precedes(Tail(s), f, g)
  <2>1. PICK i, j \in DOMAIN s : i < j /\ s[i] = f /\ s[j] = g
    BY <1>7 DEF Precedes
  <2>2. i # 1
    BY <1>2, <1>7, <2>1
  <2>3. /\ i - 1 \in DOMAIN Tail(s) /\ j - 1 \in DOMAIN Tail(s) /\ i - 1 < j - 1
        /\ Tail(s)[i - 1] = f /\ Tail(s)[j - 1] = g
    BY <1>1, <1>2, <2>1, <2>2
  <2> QED BY <2>3 DEF Precedes
<1> QED BY <1>4, <1>5, <1>6, <1>7

\* What is appended comes after all others.
LEMMA AppendPrecedes ==
  ASSUME NEW S, NEW s \in Seq(S), NEW e
  PROVE  \A f, g : Precedes(Append(s, e), f, g)
                    <=> Precedes(s, f, g) \/ (f \in Range(s) /\ g = e)
<1> DEFINE t == Append(s, e)
<1>1. /\ DOMAIN s = 1 .. Len(s) /\ Len(s) \in Nat
      /\ DOMAIN t = 1 .. Len(s) + 1
      /\ \A i \in 1 .. Len(s) : t[i] = s[i]
      /\ t[Len(s) + 1] = e
  OBVIOUS
<1> HIDE DEF t
<1>2. ASSUME NEW f, NEW g, Precedes(t, f, g)
      PROVE  Precedes(s, f, g) \/ (f \in Range(s) /\ g = e)
  <2>1. PICK i, j \in DOMAIN t : i < j /\ t[i] = f /\ t[j] = g
    BY <1>2 DEF Precedes
  <2>2. i \in DOMAIN s /\ s[i] = f
    BY <1>1, <2>1
  <2>3. (j \in DOMAIN s /\ s[j] = g) \/ g = e
    BY <1>1, <2>1
  <2> QED BY <2>1, <2>2, <2>3 DEF Precedes, Range
<1>3. ASSUME NEW f, NEW g, Precedes(s, f, g)
      PROVE  Precedes(t, f, g)
  BY <1>1, <1>3 DEF Precedes
<1>4. ASSUME NEW f \in Range(s)
      PROVE  Precedes(t, f, e)
  <2>1. PICK i \in DOMAIN s : s[i] = f
    BY DEF Range
  <2>2. i \in DOMAIN t /\ Len(s) + 1 \in DOMAIN t /\ i < Len(s) + 1 /\ t[i] = f
    BY <1>1, <2>1
  <2> QED BY <1>1, <2>2 DEF Precedes
<1> QED BY <1>2, <1>3, <1>4 DEF t
=============================================================================
