----------------------------- MODULE LossyQueue -----------------------------
(***************************************************************************)
(* What the queue between the network thread and the decoder promises: it  *)
(* never holds more than Depth NALUs, gives them out in the order they     *)
(* came, and loses some only by losing all it holds, when it is full or    *)
(* the receiver has been stopped.  NALUs are numbered as they arrive.      *)
(***************************************************************************)
EXTENDS Naturals, Sequences, Functions

CONSTANT Depth   \* kMaxQueueDepth, a positive number

VARIABLES
    put,     \* how many NALUs were put in
    buf,     \* those that wait
    taken,   \* those given to the decoder
    lost,    \* those thrown away
    open     \* FALSE once the receiver is stopped

vars == <<put, buf, taken, lost, open>>

Init == put = 0 /\ buf = <<>> /\ taken = {} /\ lost = {} /\ open \in BOOLEAN

Put ==
    /\ Len(buf) < Depth
    /\ put' = put + 1
    /\ buf' = Append(buf, put + 1)
    /\ UNCHANGED <<taken, lost, open>>

Take ==
    /\ buf # <<>>
    /\ taken' = taken \cup {Head(buf)}
    /\ buf' = Tail(buf)
    /\ UNCHANGED <<put, lost, open>>

Drop ==
    /\ Len(buf) = Depth \/ ~open
    /\ lost' = lost \cup Range(buf)
    /\ buf' = <<>>
    /\ UNCHANGED <<put, taken, open>>

Switch == open' \in BOOLEAN /\ UNCHANGED <<put, buf, taken, lost>>

Next == Put \/ Take \/ Drop \/ Switch

Spec == Init /\ [][Next]_vars

-----------------------------------------------------------------------------
\* The numbers in the queue are consecutive and end with the last one put in.
Consecutive ==
    /\ put \in Nat /\ buf \in Seq(Nat)
    /\ Len(buf) <= Depth /\ Len(buf) <= put
    /\ \A i \in 1..Len(buf) : buf[i] = put - Len(buf) + i

\* What was taken or lost came before all that waits.
Before == \A n \in taken \cup lost : n \in 1..(put - Len(buf))

\* Every NALU was taken, lost or waits, and none is two of these.
Accounted ==
    /\ 1..put = taken \cup lost \cup Range(buf)
    /\ taken \cap lost = {}

QueueInv == Consecutive /\ Before /\ Accounted
=============================================================================
