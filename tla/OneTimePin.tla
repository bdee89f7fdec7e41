----------------------------- MODULE OneTimePin -----------------------------
(***************************************************************************)
(* What the code keeps of "O pareamento invalida o PIN após uso"           *)
(* (guia_flutter.md:315): of the PINs only the one issued last pairs, and  *)
(* once; while it can, nothing else does.  While there is no such PIN, any *)
(* number of phones pair without one: handlePairRequest compares what the  *)
(* phone sent, "" if it sent none, to m_activePin, which then is empty.    *)
(* PINs are numbered in the order in which they are issued.                *)
(***************************************************************************)
EXTENDS Naturals, Sequences, TLAPS

VARIABLES
    issued,  \* how many were issued
    valid,   \* the one that can be used, or 0
    used     \* what phones paired by, in order: a PIN, or 0 for none

vars == <<issued, valid, used>>

Init == issued = 0 /\ valid = 0 /\ used = <<>>

\* A new PIN takes the place of the one before.
Issue == issued' = issued + 1 /\ valid' = issued + 1 /\ UNCHANGED used

Use ==
    /\ valid # 0
    /\ used' = Append(used, valid) /\ valid' = 0
    /\ UNCHANGED issued

\* A phone pairs without a PIN.
UseNone == valid = 0 /\ used' = Append(used, 0) /\ UNCHANGED <<issued, valid>>

\* A PIN may also be lost before it was used.
Lose == valid' = 0 /\ UNCHANGED <<issued, used>>

Next == Issue \/ Use \/ UseNone \/ Lose

Spec == Init /\ [][Next]_vars

-----------------------------------------------------------------------------
\* No PIN is used twice, or after a later one; the valid one is the latest and
\* was not used.
PinOnce ==
    /\ valid \in {0, issued}
    /\ \A i, j \in 1..Len(used) : i < j /\ used[j] # 0 => used[i] < used[j]
    /\ \A i \in 1..Len(used) : used[i] <= issued /\ (used[i] # 0 => used[i] # valid)

TypeInv == issued \in Nat /\ valid \in Nat /\ used \in Seq(Nat)

(* Whatever keeps the promise of Spec, never lets a PIN be used twice, nor one *)
(* that another has replaced.                                                 *)
THEOREM Once == Spec => []PinOnce
<1>1. Init => TypeInv /\ PinOnce
  BY DEF Init, TypeInv, PinOnce
<1>2. ASSUME TypeInv, PinOnce, [Next]_vars PROVE TypeInv' /\ PinOnce'
  <2>1. CASE Issue
    BY <1>2, <2>1 DEF Issue, TypeInv, PinOnce
  <2>2. CASE Use
    <3>1. /\ used' \in Seq(Nat) /\ Len(used') = Len(used) + 1
          /\ used'[Len(used) + 1] = valid
          /\ \A i \in 1..Len(used) : used'[i] = used[i]
      BY <1>2, <2>2 DEF Use, TypeInv
    <3>2. \A i \in 1..Len(used) : used[i] < valid
      BY <1>2, <2>2 DEF Use, TypeInv, PinOnce
    <3> QED BY <1>2, <2>2, <3>1, <3>2 DEF Use, TypeInv, PinOnce
  <2>3. CASE UseNone
    <3>1. /\ used' \in Seq(Nat) /\ Len(used') = Len(used) + 1
          /\ used'[Len(used) + 1] = 0 /\ issued' = issued /\ valid' = valid
          /\ \A i \in 1..Len(used) : used'[i] = used[i]
      BY <1>2, <2>3 DEF UseNone, TypeInv
    <3>2. \A i \in 1..Len(used') : i \in 1..Len(used) \/ i = Len(used) + 1
      BY <1>2, <3>1 DEF TypeInv
    <3>3. valid' \in {0, issued'}
      BY <1>2, <3>1 DEF PinOnce
    <3>4. \A i, j \in 1..Len(used') : i < j /\ used'[j] # 0 => used'[i] < used'[j]
      <4>1. SUFFICES ASSUME NEW i \in 1..Len(used'), NEW j \in 1..Len(used'),
                            i < j, used'[j] # 0
                     PROVE  used'[i] < used'[j]
        OBVIOUS
      <4>2. i \in 1..Len(used) /\ j \in 1..Len(used)
        BY <1>2, <3>1, <3>2, <4>1 DEF TypeInv
      <4> QED BY <1>2, <3>1, <4>1, <4>2 DEF PinOnce
    <3>5. \A i \in 1..Len(used') : used'[i] <= issued' /\ (used'[i] # 0 => used'[i] # valid')
      <4>1. SUFFICES ASSUME NEW i \in 1..Len(used')
                     PROVE  used'[i] <= issued' /\ (used'[i] # 0 => used'[i] # valid')
        OBVIOUS
      <4>2. CASE i \in 1..Len(used)
        BY <1>2, <3>1, <4>2 DEF PinOnce
      <4>3. CASE i = Len(used) + 1
        BY <1>2, <3>1, <4>3 DEF TypeInv
      <4> QED BY <3>2, <4>2, <4>3
    <3> QED BY <1>2, <3>1, <3>3, <3>4, <3>5 DEF TypeInv, PinOnce
  <2>4. CASE Lose
    <3>1. valid' = 0 /\ issued' = issued /\ used' = used
      BY <2>4 DEF Lose
    <3>2. PinOnce'
      BY <1>2, <3>1 DEF PinOnce
    <3>3. TypeInv'
      BY <1>2, <3>1 DEF TypeInv
    <3> QED BY <3>2, <3>3
  <2>5. CASE UNCHANGED vars
    BY <1>2, <2>5 DEF vars, TypeInv, PinOnce
  <2> QED BY <1>2, <2>1, <2>2, <2>3, <2>4, <2>5 DEF Next
<1> QED BY <1>1, <1>2, PTL DEF Spec
=============================================================================
