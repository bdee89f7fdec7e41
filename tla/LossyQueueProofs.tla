-------------------------- MODULE LossyQueueProofs --------------------------
(* The queue of LossyQueue keeps the order and loses nothing by halves.     *)
EXTENDS LossyQueue, SequenceTheorems, TLAPS

LEMMA RangeAppend ==
  ASSUME NEW S, NEW s \in Seq(S), NEW e \in S
  PROVE  Range(Append(s, e)) = Range(s) \cup {e}
<1>1. /\ Len(Append(s, e)) = Len(s) + 1 /\ Len(s) \in Nat
      /\ \A i \in 1..Len(s) : Append(s, e)[i] = s[i]
      /\ Append(s, e)[Len(s) + 1] = e
  BY AppendProperties, LenProperties
<1>2. DOMAIN s = 1..Len(s) /\ DOMAIN Append(s, e) = 1..(Len(s) + 1)
  BY <1>1, LenProperties, AppendProperties
<1> QED BY <1>1, <1>2 DEF Range

LEMMA RangeTail ==
  ASSUME NEW S, NEW s \in Seq(S), s # <<>>
  PROVE  Range(s) = Range(Tail(s)) \cup {Head(s)}
<1>1. /\ Tail(s) \in Seq(S) /\ Len(Tail(s)) = Len(s) - 1 /\ Len(s) \in Nat \ {0}
      /\ \A i \in 1..Len(Tail(s)) : Tail(s)[i] = s[i + 1]
      /\ Head(s) = s[1]
  BY HeadTailProperties, EmptySeq
<1>2. DOMAIN s = 1..Len(s) /\ DOMAIN Tail(s) = 1..(Len(s) - 1)
  BY <1>1, LenProperties
<1>3. \A x \in Range(s) : x = s[1] \/ x \in Range(Tail(s))
  <2> SUFFICES ASSUME NEW i \in 1..Len(s), i # 1 PROVE s[i] \in Range(Tail(s))
    BY <1>2 DEF Range
  <2>1. i - 1 \in 1..(Len(s) - 1) /\ Tail(s)[i - 1] = s[i]
    BY <1>1
  <2> QED BY <1>2, <2>1 DEF Range
<1>4. s[1] \in Range(s) /\ \A x \in Range(Tail(s)) : x \in Range(s)
  BY <1>1, <1>2 DEF Range
<1> QED BY <1>1, <1>3, <1>4

LEMMA StepQueue ==
  ASSUME Depth \in Nat
  PROVE  QueueInv /\ [Next]_vars => QueueInv'
<1> SUFFICES ASSUME QueueInv, [Next]_vars PROVE QueueInv'
  OBVIOUS
<1>0. buf \in Seq(Nat) /\ Len(buf) \in Nat /\ put \in Nat
  BY LenProperties DEF QueueInv, Consecutive
<1>1. CASE Put
  <2>1. /\ buf' \in Seq(Nat) /\ Len(buf') = Len(buf) + 1
        /\ \A i \in 1..Len(buf) : buf'[i] = buf[i]
        /\ buf'[Len(buf) + 1] = put + 1 /\ put' = put + 1
        /\ UNCHANGED <<taken, lost>>
    BY <1>0, <1>1, AppendProperties DEF Put
  <2>2. Range(buf') = Range(buf) \cup {put + 1}
    BY <1>0, <1>1, RangeAppend DEF Put
  <2>3. Consecutive'
    <3>1. Len(buf') <= Depth /\ Len(buf') <= put' /\ put' \in Nat
      BY <1>0, <1>1, <2>1 DEF QueueInv, Consecutive, Put
    <3>2. \A i \in 1..Len(buf') : buf'[i] = put' - Len(buf') + i
      BY <1>0, <2>1 DEF QueueInv, Consecutive
    <3> QED BY <2>1, <3>1, <3>2 DEF Consecutive
  <2>4. Before'
    BY <1>0, <2>1 DEF QueueInv, Before
  <2>5. Accounted'
    BY <1>0, <2>1, <2>2 DEF QueueInv, Accounted
  <2> QED BY <2>3, <2>4, <2>5 DEF QueueInv
<1>2. CASE Take
  <2>1. /\ buf' \in Seq(Nat) /\ Len(buf') = Len(buf) - 1 /\ Len(buf) > 0
        /\ \A i \in 1..Len(buf') : buf'[i] = buf[i + 1]
        /\ Head(buf) = buf[1] /\ taken' = taken \cup {buf[1]}
        /\ UNCHANGED <<put, lost>>
    BY <1>0, <1>2, HeadTailProperties, EmptySeq DEF Take
  <2>2. Range(buf) = Range(buf') \cup {buf[1]}
    BY <1>0, <1>2, <2>1, RangeTail DEF Take
  <2>3. buf[1] = put - Len(buf) + 1
    BY <1>0, <2>1 DEF QueueInv, Consecutive
  <2>4. Consecutive'
    <3> SUFFICES ASSUME NEW i \in 1..Len(buf') PROVE buf'[i] = put' - Len(buf') + i
      BY <1>0, <2>1 DEF QueueInv, Consecutive
    <3>1. i + 1 \in 1..Len(buf)
      BY <1>0, <2>1
    <3> QED BY <1>0, <2>1, <3>1 DEF QueueInv, Consecutive
  <2>5. Before'
    BY <1>0, <2>1, <2>3 DEF QueueInv, Before, Consecutive
  <2>6. buf[1] \notin lost
    BY <1>0, <2>1, <2>3 DEF QueueInv, Before
  <2>7. Accounted'
    BY <2>1, <2>2, <2>6 DEF QueueInv, Accounted
  <2> QED BY <2>4, <2>5, <2>7 DEF QueueInv
<1>3. CASE Drop
  <2>1. /\ buf' = <<>> /\ Len(buf') = 0 /\ buf' \in Seq(Nat) /\ Range(buf') = {}
        /\ lost' = lost \cup Range(buf) /\ UNCHANGED <<put, taken>>
    BY <1>3, EmptySeq DEF Drop, Range
  <2>2. \A n \in Range(buf) : n \in 1..put /\ n > put - Len(buf)
    <3> SUFFICES ASSUME NEW i \in 1..Len(buf)
                 PROVE  buf[i] \in 1..put /\ buf[i] > put - Len(buf)
      BY <1>0, LenProperties DEF Range
    <3> QED BY <1>0 DEF QueueInv, Consecutive
  <2>3. Consecutive'
    BY <1>0, <2>1 DEF QueueInv, Consecutive
  <2>4. Before'
    BY <1>0, <2>1, <2>2 DEF QueueInv, Before
  <2>5. taken \cap Range(buf) = {}
    BY <1>0, <2>2 DEF QueueInv, Before
  <2>6. Accounted'
    BY <2>1, <2>5 DEF QueueInv, Accounted
  <2> QED BY <2>3, <2>4, <2>6 DEF QueueInv
<1>4. CASE Switch \/ UNCHANGED vars
  BY <1>4 DEF Switch, vars, QueueInv, Consecutive, Before, Accounted
<1> QED BY <1>1, <1>2, <1>3, <1>4 DEF Next

LEMMA InitQueue ==
  ASSUME Depth \in Nat
  PROVE  Init => QueueInv
<1>1. Range(<<>>) = {} /\ Len(<<>>) = 0 /\ <<>> \in Seq(Nat)
  BY EmptySeq DEF Range
<1> QED BY <1>1 DEF Init, QueueInv, Consecutive, Before, Accounted

\* The decoder is given NALUs in the order they came, none twice and none that
\* was dropped, and every one is either given, dropped or waiting.
THEOREM QueueIsSound ==
  ASSUME Depth \in Nat
  PROVE  Spec => []QueueInv
  BY InitQueue, StepQueue, PTL DEF Spec
=============================================================================
