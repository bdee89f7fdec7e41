---------------------------- MODULE PairingProofs ----------------------------
(* Theorems about Pairing, for any number of phones, PINs and restarts.       *)
EXTENDS Pairing, SequenceTheorems, TLAPS

Handled == [at : {"idle", "checked", "stored", "id", "name", "post", "reply"},
             of : Devices \cup {Nobody}, pin : Pins \cup {0}]
Paired == Devices \X (Pins \cup {0})
Shows == [pin : Pins, shows : Devices \cup {Nobody}, for : Pins \cup {0}, closed : BOOLEAN]

LEMMA InitType == Init => TypeOK
<1> SUFFICES ASSUME Init PROVE TypeOK
  OBVIOUS
<1>1. /\ dialogs \in Seq(Shows) /\ posted \in Seq(Paired) /\ used \in Seq(Pins \cup {0})
  BY EmptySeq DEF Init
<1> QED BY <1>1, PairingAssumption DEF Init, TypeOK, Shows, Paired, Idle, At

\* The pair_request handler, from the check on.
Handling == Store \/ Clear \/ SaveId \/ SaveName \/ PostCompletion \/ ReplyAccepted

LEMMA HandlingType == TypeOK /\ Handling => TypeOK'
<1> SUFFICES ASSUME TypeOK, Handling PROVE TypeOK'
  OBVIOUS
<1>1. /\ ~At("idle") /\ io.of \in Devices /\ io.pin \in Pins \cup {0} /\ io \in Handled
      /\ issued' = issued /\ UNCHANGED <<used, qtVars, requests, restarts>>
  BY DEF TypeOK, Handling, Store, Clear, SaveId, SaveName, PostCompletion, ReplyAccepted, At,
     Handled, pinVars
<1>2. io' \in Handled /\ (At("idle")' \/ io'.of # Nobody)
  <2>1. \/ io' = Idle
        \/ \E l \in {"stored", "id", "name", "post", "reply"} : io' = [io EXCEPT !.at = l]
    BY DEF Handling, Store, Clear, SaveId, SaveName, PostCompletion, ReplyAccepted, Goto
  <2>2. io.of # Nobody
    BY <1>1, PairingAssumption
  <2> QED BY <1>1, <2>1, <2>2 DEF Handled, Idle, At
<1>3. active' \in Pins \cup {0} /\ raced' \subseteq Pins
  BY <1>1 DEF TypeOK, Handling, Store, Clear, SaveId, SaveName, PostCompletion, ReplyAccepted,
     pinVars
<1>4. posted' \in Seq(Paired)
  <2>1. <<io.of, io.pin>> \in Paired /\ posted \in Seq(Paired)
    BY <1>1 DEF TypeOK, Paired
  <2>2. posted' = posted \/ posted' = Append(posted, <<io.of, io.pin>>)
    BY DEF Handling, Store, Clear, SaveId, SaveName, PostCompletion, ReplyAccepted
  <2> QED BY <2>1, <2>2, AppendProperties
<1>5. /\ known' \subseteq Devices /\ {id', name'} \subseteq Devices \cup {Nobody}
      /\ torn' \in BOOLEAN /\ answer' \in [Devices -> {"none", "accepted", "rejected"}]
  BY <1>1 DEF TypeOK, Handling, Store, Clear, SaveId, SaveName, PostCompletion, ReplyAccepted,
     savedVars, Reply
<1>6. Pins' = Pins /\ UNCHANGED <<main, dialogs, current>>
  BY <1>1 DEF Pins, qtVars
<1> QED BY <1>1, <1>2, <1>3, <1>4, <1>5, <1>6 DEF TypeOK, Handled, Paired, At

LEMMA PairRequestedType == TypeOK /\ PairRequested => TypeOK'
<1> SUFFICES ASSUME TypeOK, PairRequested PROVE TypeOK'
  OBVIOUS
<1>1. issued' = issued + 1 /\ issued' \in Nat
  BY DEF PairRequested, TypeOK
<1>2. Pins \subseteq Pins' /\ issued' \in Pins'
  BY <1>1 DEF Pins, TypeOK
<1>3. dialogs' \in Seq(Shows')
  <2>1. Shows \subseteq Shows'
    BY <1>2 DEF Shows
  <2>2. dialogs \in Seq(Shows')
    BY <2>1, SeqMonotonic DEF TypeOK, Shows
  <2>3. Dialog(issued + 1) \in Shows'
    BY <1>1, <1>2 DEF Dialog, Shows
  <2> QED BY <2>2, <2>3, AppendProperties DEF PairRequested
<1>4. posted' \in Seq(Paired')
  <2>1. Paired \subseteq Paired'
    BY <1>2 DEF Paired
  <2> QED BY <2>1, SeqMonotonic DEF TypeOK, Paired, PairRequested
<1>5. used' \in Seq(Pins' \cup {0})
  <2>1. Pins \cup {0} \subseteq Pins' \cup {0}
    BY <1>2
  <2> QED BY <2>1, SeqMonotonic DEF TypeOK, PairRequested
<1>6. active' \in Pins' \cup {0} /\ current' \in Pins' \cup {0} /\ raced' \subseteq Pins'
  BY <1>1, <1>2 DEF PairRequested, TypeOK
<1>7. io' = io /\ io \in Handled'
  BY <1>2 DEF PairRequested, TypeOK, Handled
<1>8. UNCHANGED <<main, known, id, name, torn, answer, requests, restarts>>
  BY DEF PairRequested, savedVars
<1> QED BY <1>1, <1>3, <1>4, <1>5, <1>6, <1>7, <1>8 DEF TypeOK, Shows, Handled, Paired, At

LEMMA DialogsType ==
  TypeOK /\ (Reject \/ Return \/ OnPairingComplete \/ \E i \in 1..Len(dialogs) : Accept(i))
    => TypeOK'
<1> SUFFICES ASSUME TypeOK,
                    Reject \/ Return \/ OnPairingComplete
                      \/ \E i \in 1..Len(dialogs) : Accept(i)
             PROVE  TypeOK'
  OBVIOUS
<1>1. /\ dialogs \in Seq(Shows) /\ posted \in Seq(Paired)
  BY DEF TypeOK, Shows, Paired
<1>2. UNCHANGED <<issued, active, used, raced, main, io, known, savedVars, answer,
                  requests, restarts>>
  BY DEF Reject, Return, OnPairingComplete, Accept, pinVars
<1>3. current' \in {current, 0}
  BY DEF Reject, Return, OnPairingComplete, Accept
<1>4. posted' \in Seq(Paired)
  BY <1>1, HeadTailProperties DEF Reject, Return, OnPairingComplete, Accept
<1>5. dialogs' \in Seq(Shows)
  <2>1. ASSUME NEW i \in 1..Len(dialogs), Close(i) PROVE dialogs' \in Seq(Shows)
    <3>1. dialogs[i] \in Shows
      BY <1>1, ElementOfSeq
    <3>2. [dialogs[i] EXCEPT !.closed = TRUE] \in Shows
      BY <3>1 DEF Shows
    <3> QED BY <1>1, <2>1, <3>2, ExceptSeq DEF Close
  <2>2. CASE Reject
    <3>1. Len(dialogs) \in 1..Len(dialogs)
      BY <1>1, <2>2 DEF Reject
    <3> QED BY <2>1, <2>2, <3>1 DEF Reject
  <2>3. CASE \E i \in 1..Len(dialogs) : Accept(i)
    BY <2>1, <2>3 DEF Accept
  <2>4. CASE Return
    <3>1. \A i \in 1..(Len(dialogs) - 1) : dialogs[i] \in Shows
      BY <1>1
    <3> QED BY <1>1, <2>4, <3>1, SubSeqProperties DEF Return
  <2>5. CASE OnPairingComplete
    <3>1. Head(posted) \in Paired
      BY <1>1, <2>5, HeadTailProperties DEF OnPairingComplete
    <3>2. ASSUME NEW i \in 1..Len(dialogs)
          PROVE  (IF dialogs[i].pin = current
                  THEN [dialogs[i] EXCEPT !.shows = Head(posted)[1], !.for = Head(posted)[2]]
                  ELSE dialogs[i]) \in Shows
      <4>1. dialogs[i] \in Shows
        BY <1>1, ElementOfSeq
      <4> QED BY <3>1, <4>1 DEF Shows, Paired
    <3>3. dialogs' \in [1..Len(dialogs) -> Shows]
      BY <2>5, <3>2 DEF OnPairingComplete
    <3>4. Len(dialogs) \in Nat
      BY <1>1
    <3> QED BY <3>3, <3>4
  <2> QED BY <2>2, <2>3, <2>4, <2>5
<1> QED BY <1>2, <1>3, <1>4, <1>5 DEF TypeOK, Shows, Paired, Pins, savedVars, At

LEMMA StepType == TypeOK /\ [Next]_vars => TypeOK'
<1> SUFFICES ASSUME TypeOK, [Next]_vars PROVE TypeOK'
  OBVIOUS
<1>1. CASE CreateManager \/ Restore
  <2>1. /\ UNCHANGED <<pinVars, dialogs, current, posted, io, savedVars, answer,
                      requests, restarts>>
        /\ main' \in {"manager", "events"} /\ known' \subseteq Devices
    BY <1>1 DEF CreateManager, Restore, TypeOK
  <2> QED BY <2>1 DEF TypeOK, pinVars, savedVars, Pins, At
<1>2. ASSUME NEW d \in Devices, NEW p \in 0..issued, NEW sound \in BOOLEAN,
             Request(d, p, sound)
      PROVE  TypeOK'
  <2>1. UNCHANGED <<issued, active, raced, qtVars, posted, known, savedVars, restarts>>
    BY <1>2 DEF Request
  <2>2. used' \in Seq(Pins \cup {0})
    <3>1. used' \in {used, Append(used, p)} /\ p \in Pins \cup {0} /\ used \in Seq(Pins \cup {0})
      BY <1>2 DEF Request, TypeOK, Pins
    <3> QED BY <3>1, AppendProperties
  <2>3. answer' \in [Devices -> {"none", "accepted", "rejected"}] /\ requests' \in Nat
    BY <1>2 DEF Request, TypeOK, Reply
  <2>4. io' \in Handled /\ (At("idle")' \/ io'.of # Nobody)
    <3>1. io' = io \/ io' = [at |-> "checked", of |-> d, pin |-> p]
      BY <1>2 DEF Request
    <3>2. d # Nobody /\ p \in Pins \cup {0} /\ io \in Handled
      BY PairingAssumption DEF Pins, Handled, TypeOK
    <3> QED BY <1>2, <3>1, <3>2 DEF Handled, TypeOK, At
  <2> QED BY <2>1, <2>2, <2>3, <2>4 DEF TypeOK, Pins, qtVars, savedVars, Handled
<1>3. CASE Restart
  <2>1. <<>> \in Seq(Shows) /\ <<>> \in Seq(Paired)
    BY EmptySeq
  <2> QED BY <1>3, <2>1 DEF Restart, TypeOK, Pins, Shows, Paired, Idle, At
<1>4. CASE UNCHANGED vars
  BY <1>4 DEF vars, pinVars, qtVars, savedVars, TypeOK, Pins, At
<1> QED
  BY <1>1, <1>2, <1>3, <1>4, HandlingType, PairRequestedType, DialogsType
     DEF Next, IoOwn, QtOwn, User, Phone, Handling

-----------------------------------------------------------------------------
(* The PINs                                                                  *)

Later == {"stored", "id", "name", "post", "reply"}
Used(p) == \E i \in 1..Len(used) : used[i] = p

\* The open dialog shows the PIN issued last; a request past its check has used
\* its PIN.
PinInv ==
    /\ current \in {0, issued}
    /\ ~At("idle") => Used(io.pin)
    /\ ShownPinWorks

\* CompletionTrue, with its last part named.
Reports ==
    \A i \in 1..Len(dialogs) :
        dialogs[i].shows # Nobody =>
            /\ dialogs[i].shows \in known /\ dialogs[i].for <= dialogs[i].pin
            /\ Used(dialogs[i].for)

\* What was told of a pairing is already stored, and will be kept.
KeptInv ==
    /\ io.at \in {"stored", "id", "name", "post", "reply"} => io.of \in known
    /\ io.at \in {"name", "post", "reply"} => id = io.of
    /\ \A i \in 1..Len(posted) : posted[i][1] \in known /\ Used(posted[i][2])
    /\ Reports
    /\ AcceptedKept

Inv == TypeOK /\ PinInv /\ KeptInv

LEMMA InitInv == Init => Inv
<1> SUFFICES ASSUME Init PROVE Inv
  OBVIOUS
<1>1. PinInv
  BY DEF Init, PinInv, ShownPinWorks, At, Idle
<1>2. KeptInv
  BY DEF Init, KeptInv, Reports, AcceptedKept, At, Idle
<1> QED BY <1>1, <1>2, InitType DEF Inv

LEMMA UsedAppend ==
  ASSUME TypeOK, NEW p \in Pins \cup {0}, used' = Append(used, p)
  PROVE  Used(p)' /\ \A q : Used(q) => Used(q)'
<1>1. /\ used' \in Seq(Pins \cup {0}) /\ Len(used') = Len(used) + 1
      /\ \A i \in 1..Len(used) : used'[i] = used[i]
      /\ used'[Len(used) + 1] = p /\ Len(used) \in Nat
  BY AppendProperties DEF TypeOK
<1> QED BY <1>1 DEF Used

LEMMA StepPin == TypeOK /\ PinInv /\ [Next]_vars => PinInv'
<1> SUFFICES ASSUME TypeOK, PinInv, [Next]_vars PROVE PinInv'
  OBVIOUS
<1> USE DEF PinInv, ShownPinWorks
<1>0. issued \in Nat /\ io.pin \in Pins \cup {0} /\ io \in Handled
  BY DEF TypeOK, Handled
<1>1. ASSUME UNCHANGED <<issued, active, used, raced>>, current' \in {current, 0},
             io' = io \/ io' = Idle \/ \E l \in Later : ~At("idle") /\ io' = [io EXCEPT !.at = l]
      PROVE  PinInv'
  BY <1>0, <1>1 DEF At, Idle, Used, Handled
<1>2. CASE CreateManager \/ Restore \/ Return \/ OnPairingComplete \/ Reject
           \/ \E i \in 1..Len(dialogs) : Accept(i)
  BY <1>1, <1>2 DEF CreateManager, Restore, Return, OnPairingComplete, Reject, Accept, pinVars
<1>3. CASE Store \/ SaveId \/ SaveName \/ PostCompletion \/ ReplyAccepted
  <2>1. UNCHANGED <<pinVars, current>>
    BY <1>3 DEF Store, SaveId, SaveName, PostCompletion, ReplyAccepted, qtVars
  <2>2. io' = Idle \/ \E l \in Later : ~At("idle") /\ io' = [io EXCEPT !.at = l]
    BY <1>3 DEF Store, SaveId, SaveName, PostCompletion, ReplyAccepted, At, Goto, Later
  <2> QED BY <1>1, <2>1, <2>2 DEF pinVars
<1>4. CASE PairRequested
  BY <1>0, <1>4 DEF PairRequested, Used, At
<1>5. CASE Clear
  <2>1. /\ UNCHANGED <<issued, used, current>> /\ active' = 0 /\ ~At("idle")
        /\ io' = [io EXCEPT !.at = "id"]
        /\ raced' = IF active \in {0, io.pin} THEN raced ELSE raced \cup {active}
    BY <1>5 DEF Clear, qtVars, At, Goto
  <2> QED BY <1>0, <2>1 DEF Used, At, Handled
<1>6. ASSUME NEW d \in Devices, NEW p \in 0..issued, NEW sound \in BOOLEAN,
             Request(d, p, sound)
      PROVE  PinInv'
  <2>1. UNCHANGED <<issued, active, raced, current>>
    BY <1>6 DEF Request, qtVars
  <2>2. CASE UNCHANGED <<io, used>>
    BY <2>1, <2>2 DEF Used, At
  <2>3. CASE io' = [at |-> "checked", of |-> d, pin |-> p] /\ used' = Append(used, p)
    <3>1. Used(p)' /\ \A q : Used(q) => Used(q)'
      BY <2>3, UsedAppend DEF Pins
    <3> QED BY <2>1, <2>3, <3>1 DEF Used
  <2> QED BY <1>6, <2>2, <2>3 DEF Request
<1>7. CASE Restart
  BY <1>7 DEF Restart, Idle, At
<1>8. CASE UNCHANGED vars
  BY <1>1, <1>8 DEF vars, pinVars, qtVars
<1> QED
  BY <1>2, <1>3, <1>4, <1>5, <1>6, <1>7, <1>8 DEF Next, IoOwn, QtOwn, User, Phone

LEMMA StepKept == TypeOK /\ PinInv /\ KeptInv /\ [Next]_vars => KeptInv'
<1> SUFFICES ASSUME TypeOK, PinInv, KeptInv, [Next]_vars PROVE KeptInv'
  OBVIOUS
<1> USE DEF KeptInv, Reports, AcceptedKept
<1>0. /\ issued \in Nat /\ dialogs \in Seq(Shows) /\ posted \in Seq(Paired)
      /\ io \in Handled /\ answer \in [Devices -> {"none", "accepted", "rejected"}]
      /\ ~At("idle") => io.of \in Devices /\ io.pin \in Pins \cup {0}
  BY DEF TypeOK, Shows, Paired, Handled
<1>1. ASSUME UNCHANGED <<io, id, name, torn, answer, used>>,
             known \subseteq known', dialogs' = dialogs, posted' = posted
      PROVE  KeptInv'
  BY <1>1 DEF At, Used
<1>2. CASE CreateManager \/ Restore
  BY <1>1, <1>2 DEF CreateManager, Restore, savedVars, pinVars
<1>3. ASSUME UNCHANGED <<io, id, name, torn, answer, known, used>>,
             dialogs' \in Seq(Shows'),
             \A i \in 1..Len(dialogs') :
                 dialogs'[i].shows # Nobody =>
                    /\ dialogs'[i].shows \in known
                    /\ dialogs'[i].for <= dialogs'[i].pin /\ Used(dialogs'[i].for),
             posted' = posted \/ (posted # <<>> /\ posted' = Tail(posted))
      PROVE  KeptInv'
  <2>1. \A i \in 1..Len(posted') : posted'[i][1] \in known /\ Used(posted'[i][2])
    <3>1. CASE posted # <<>> /\ posted' = Tail(posted)
      <4>1. ASSUME NEW i \in 1..Len(posted')
            PROVE  i + 1 \in 1..Len(posted) /\ posted'[i] = posted[i + 1]
        BY <1>0, <3>1, HeadTailProperties
      <4> QED BY <4>1
    <3> QED BY <1>3, <3>1
  <2> QED BY <1>3, <2>1 DEF At, Used
<1>4. CASE OnPairingComplete
  <2>1. /\ Head(posted) \in Paired /\ posted # <<>> /\ Head(posted) = posted[1]
        /\ 1 \in 1..Len(posted)
    <3>1. posted # <<>>
      BY <1>4 DEF OnPairingComplete
    <3> QED BY <1>0, <3>1, HeadTailProperties
  <2>2. /\ Head(posted)[1] \in known /\ Used(Head(posted)[2])
        /\ Head(posted)[2] <= issued
    BY <1>0, <2>1 DEF Pins, Paired
  <2>3. ASSUME NEW i \in 1..Len(dialogs'), dialogs'[i].shows # Nobody
        PROVE  /\ dialogs'[i].shows \in known
               /\ dialogs'[i].for <= dialogs'[i].pin /\ Used(dialogs'[i].for)
    <3>1. /\ i \in 1..Len(dialogs) /\ dialogs[i] \in Shows
          /\ dialogs'[i] = IF dialogs[i].pin = current
                           THEN [dialogs[i] EXCEPT !.shows = Head(posted)[1],
                                                   !.for = Head(posted)[2]]
                           ELSE dialogs[i]
      <4> DEFINE d(j) == IF dialogs[j].pin = current
                         THEN [dialogs[j] EXCEPT !.shows = Head(posted)[1],
                                                 !.for = Head(posted)[2]]
                         ELSE dialogs[j]
      <4>1. dialogs' = [j \in 1..Len(dialogs) |-> d(j)]
        BY <1>4 DEF OnPairingComplete
      <4> HIDE DEF d
      <4>2. Len(dialogs') = Len(dialogs)
        <5>1. Len(dialogs) \in Nat
          BY <1>0
        <5> QED BY <4>1, <5>1
      <4>3. i \in 1..Len(dialogs) /\ dialogs'[i] = d(i)
        BY <2>3, <4>1, <4>2
      <4>4. dialogs[i] \in Shows
        BY <1>0, <4>3, ElementOfSeq
      <4> QED BY <4>3, <4>4 DEF d
    <3>2. CASE dialogs[i].pin = current
      <4>1. current = issued
        BY <1>0, <3>1, <3>2 DEF PinInv, Shows, Pins
      <4>2. /\ dialogs'[i].shows = Head(posted)[1] /\ dialogs'[i].for = Head(posted)[2]
            /\ dialogs'[i].pin = current
        BY <3>1, <3>2 DEF Shows
      <4> QED BY <2>2, <4>1, <4>2
    <3>3. CASE dialogs[i].pin # current
      BY <2>3, <3>1, <3>3
    <3> QED BY <3>2, <3>3
  <2>4. /\ UNCHANGED <<io, id, name, torn, answer, known, used>> /\ posted' = Tail(posted)
        /\ TypeOK'
    BY <1>4, DialogsType DEF OnPairingComplete, savedVars, pinVars
  <2>5. dialogs' \in Seq(Shows')
    BY <2>4 DEF TypeOK, Shows
  <2> QED BY <1>3, <2>1, <2>3, <2>4, <2>5
<1>5. CASE Reject \/ Return \/ PairRequested \/ \E i \in 1..Len(dialogs) : Accept(i)
  <2>1. /\ UNCHANGED <<io, id, name, torn, answer, known, posted, used>> /\ TypeOK'
    BY <1>5, DialogsType, PairRequestedType DEF Reject, Return, PairRequested, Accept,
       savedVars, pinVars
  <2>2. ASSUME NEW i \in 1..Len(dialogs')
        PROVE  \/ dialogs'[i].shows = Nobody
               \/ /\ i \in 1..Len(dialogs) /\ dialogs'[i].shows = dialogs[i].shows
                  /\ dialogs'[i].for = dialogs[i].for /\ dialogs'[i].pin = dialogs[i].pin
    <3>1. ASSUME NEW j \in 1..Len(dialogs), Close(j)
          PROVE  /\ i \in 1..Len(dialogs) /\ dialogs'[i].shows = dialogs[i].shows
                 /\ dialogs'[i].for = dialogs[i].for /\ dialogs'[i].pin = dialogs[i].pin
      <4>1. /\ Len(dialogs') = Len(dialogs) /\ dialogs[i] \in Shows
            /\ dialogs'[i] = IF i = j THEN [dialogs[i] EXCEPT !.closed = TRUE] ELSE dialogs[i]
        <5>1. dialogs[j] \in Shows
          BY <1>0, ElementOfSeq
        <5>2. [dialogs[j] EXCEPT !.closed = TRUE] \in Shows
          BY <5>1 DEF Shows
        <5>3. dialogs' = [dialogs EXCEPT ![j] = [dialogs[j] EXCEPT !.closed = TRUE]]
          BY <3>1 DEF Close
        <5>4. Len(dialogs') = Len(dialogs)
          BY <1>0, <5>2, <5>3, ExceptSeq
        <5>5. i \in 1..Len(dialogs)
          BY <5>4
        <5>6. dialogs[i] \in Shows
          BY <1>0, <5>5, ElementOfSeq
        <5>7. dialogs'[i] = IF i = j THEN [dialogs[j] EXCEPT !.closed = TRUE] ELSE dialogs[i]
          BY <1>0, <5>2, <5>3, <5>5, ExceptSeq
        <5> QED BY <5>4, <5>6, <5>7
      <4> QED BY <4>1 DEF Shows
    <3>2. CASE Reject
      <4>1. Len(dialogs) \in 1..Len(dialogs)
        BY <1>0, <3>2 DEF Reject
      <4> QED BY <3>1, <3>2, <4>1 DEF Reject
    <3>3. CASE \E j \in 1..Len(dialogs) : Accept(j)
      BY <3>1, <3>3 DEF Accept
    <3>4. CASE Return
      <4>1. /\ dialogs # <<>> /\ dialogs' = SubSeq(dialogs, 1, Len(dialogs) - 1)
            /\ \A k \in 1..(Len(dialogs) - 1) : dialogs[k] \in Shows
        BY <1>0, <3>4 DEF Return
      <4>2. i \in 1..Len(dialogs) /\ dialogs'[i] = dialogs[i]
        BY <1>0, <4>1, SubSeqProperties
      <4> QED BY <4>2
    <3>5. CASE PairRequested
      <4>1. dialogs' = Append(dialogs, Dialog(issued + 1))
        BY <3>5 DEF PairRequested
      <4>2. \/ i \in 1..Len(dialogs) /\ dialogs'[i] = dialogs[i]
            \/ dialogs'[i] = Dialog(issued + 1)
        BY <1>0, <4>1
      <4> QED BY <4>2 DEF Dialog
    <3> QED BY <1>5, <3>2, <3>3, <3>4, <3>5
  <2>3. dialogs' \in Seq(Shows')
    BY <2>1 DEF TypeOK, Shows
  <2> QED BY <1>3, <2>1, <2>2, <2>3
<1>6. CASE Store \/ Clear \/ SaveId \/ SaveName
  <2>1. /\ UNCHANGED <<dialogs, posted, answer, used>> /\ known \subseteq known'
        /\ io.of \in Devices /\ io \in Handled
    BY <1>0, <1>6 DEF Store, Clear, SaveId, SaveName, qtVars, pinVars, At
  <2>2. CASE Store
    <3>1. /\ At("checked") /\ io' = [io EXCEPT !.at = "stored"] /\ UNCHANGED savedVars
          /\ known' = known \cup {io.of}
      BY <2>2 DEF Store, Goto
    <3> QED BY <2>1, <3>1 DEF At, Handled, savedVars, Used
  <2>3. CASE Clear
    <3>1. /\ At("stored") /\ io' = [io EXCEPT !.at = "id"] /\ UNCHANGED <<savedVars, known>>
      BY <2>3 DEF Clear, Goto
    <3> QED BY <2>1, <3>1 DEF At, Handled, savedVars, Used
  <2>4. CASE SaveId
    <3>1. /\ At("id") /\ io' = [io EXCEPT !.at = "name"] /\ UNCHANGED <<name, torn, known>>
          /\ id' = io.of
      BY <2>4 DEF SaveId, Goto
    <3> QED BY <2>1, <3>1, PairingAssumption DEF At, Handled, Used
  <2>5. CASE SaveName
    <3>1. /\ At("name") /\ io' = [io EXCEPT !.at = "post"] /\ UNCHANGED <<id, known>>
          /\ name' = io.of
      BY <2>5 DEF SaveName, Goto
    <3> QED BY <2>1, <3>1 DEF At, Handled, Used
  <2> QED BY <1>6, <2>2, <2>3, <2>4, <2>5
<1>7. CASE PostCompletion
  <2>1. /\ At("post") /\ io' = [io EXCEPT !.at = "reply"]
        /\ UNCHANGED <<dialogs, known, savedVars, answer, used>>
        /\ posted' = Append(posted, <<io.of, io.pin>>)
    BY <1>7 DEF PostCompletion, Goto, qtVars, pinVars
  <2>2. <<io.of, io.pin>> \in Paired /\ io.of \in known /\ Used(io.pin)
    BY <1>0, <2>1 DEF At, Paired, PinInv
  <2>3. \A i \in 1..Len(posted') : posted'[i][1] \in known /\ Used(posted'[i][2])
    <3>1. /\ Len(posted') = Len(posted) + 1 /\ Len(posted) \in Nat
          /\ \A i \in 1..Len(posted) : posted'[i] = posted[i]
          /\ posted'[Len(posted) + 1] = <<io.of, io.pin>>
      BY <1>0, <2>1, <2>2, AppendProperties
    <3>2. \A i \in 1..Len(posted') : i \in 1..Len(posted) \/ i = Len(posted) + 1
      BY <3>1
    <3> QED BY <2>2, <3>1, <3>2
  <2> QED BY <1>0, <2>1, <2>3 DEF At, Handled, savedVars, Used
<1>8. CASE ReplyAccepted
  <2>1. /\ At("reply") /\ io' = Idle
        /\ UNCHANGED <<dialogs, known, savedVars, posted, used>>
        /\ answer' = [answer EXCEPT ![io.of] = "accepted"]
    BY <1>8 DEF ReplyAccepted, Reply, qtVars, pinVars
  <2>2. io.of \in Devices /\ io.of \in known /\ id = io.of
    BY <1>0, <2>1 DEF At
  <2> QED BY <1>0, <2>1, <2>2, PairingAssumption DEF At, Idle, savedVars, Used
<1>9. ASSUME NEW d \in Devices, NEW p \in 0..issued, NEW sound \in BOOLEAN,
             Request(d, p, sound)
      PROVE  KeptInv'
  <2>1. UNCHANGED <<dialogs, posted, known, savedVars>> /\ At("idle")
    BY <1>9 DEF Request, qtVars
  <2>2. \/ UNCHANGED answer /\ io' = [at |-> "checked", of |-> d, pin |-> p]
        \/ answer' = [answer EXCEPT ![d] = "rejected"] /\ UNCHANGED io
    BY <1>9 DEF Request, Reply
  <2>3. \A q : Used(q) => Used(q)'
    <3>1. used' = used \/ used' = Append(used, p)
      BY <1>9 DEF Request
    <3>2. p \in Pins \cup {0}
      BY <1>0 DEF Pins
    <3>3. CASE used' = used
      BY <3>3 DEF Used
    <3>4. CASE used' = Append(used, p)
      BY <3>2, <3>4, UsedAppend
    <3> QED BY <3>1, <3>3, <3>4
  <2>4. /\ Reports'
        /\ (\A i \in 1..Len(posted) : posted[i][1] \in known /\ Used(posted[i][2]))'
    BY <2>1, <2>3 DEF savedVars
  <2>5. AcceptedKept'
    BY <1>0, <2>1, <2>2 DEF At, savedVars
  <2> HIDE DEF Reports, AcceptedKept
  <2> QED BY <2>1, <2>2, <2>4, <2>5 DEF At, savedVars
<1>10. CASE Restart
  <2>1. /\ io' = Idle /\ dialogs' = <<>> /\ posted' = <<>>
        /\ \A d \in Devices : answer'[d] = "none"
        /\ UNCHANGED <<id, name>> /\ (torn' <=> (torn \/ At("name")))
    BY <1>10 DEF Restart
  <2>2. io'.at = "idle"
    BY <2>1 DEF Idle
  <2>3. Reports' /\ posted' = <<>>
    BY <2>1
  <2>4. AcceptedKept'
    BY <2>1
  <2> QED BY <2>2, <2>3, <2>4
<1>11. CASE UNCHANGED vars
  BY <1>1, <1>11 DEF vars, pinVars, qtVars, savedVars
<1> QED
  BY <1>2, <1>4, <1>5, <1>6, <1>7, <1>8, <1>9, <1>10, <1>11
     DEF Next, IoOwn, QtOwn, User, Phone

LEMMA AlwaysInv == Spec => []Inv
<1>1. Init => Inv
  BY InitInv
<1>2. Inv /\ [Next]_vars => Inv'
  BY StepType, StepPin, StepKept DEF Inv
<1> QED BY <1>1, <1>2, PTL DEF Spec

(* Every variable of pairing keeps its type: no dialog shows a PIN that was    *)
(* never issued, and a request that is handled is of a phone.                 *)
THEOREM TypeCorrect == Spec => []TypeOK
<1>1. Inv => TypeOK
  BY DEF Inv
<1> QED BY <1>1, AlwaysInv, PTL

(* The PIN of the open dialog is the active one, unless it was used or cleared *)
(* by a request with the PIN before it, or with none.                         *)
THEOREM ShownIsValid == Spec => []ShownPinWorks
<1>1. Inv => ShownPinWorks
  BY DEF Inv, PinInv
<1> QED BY <1>1, AlwaysInv, PTL

(* No dialog reports a phone that PairingManager did not store, nor one that   *)
(* paired by a later PIN; it reports one that sent no PIN only if one did.     *)
THEOREM CompletionIsTrue == Spec => []CompletionTrue
<1>1. Inv => CompletionTrue
  BY DEF Inv, KeptInv, Reports, Used, CompletionTrue
<1> QED BY <1>1, AlwaysInv, PTL

(* A phone that was accepted is stored, and the two settings name one device   *)
(* unless the program ended between their writes.                             *)
THEOREM AcceptedIsKept == Spec => []AcceptedKept
<1>1. Inv => AcceptedKept
  BY DEF Inv, KeptInv
<1> QED BY <1>1, AlwaysInv, PTL

-----------------------------------------------------------------------------
(* Refinement: the moment of use is the check, the valid PIN of that moment on *)
(* is none, though m_activePin is cleared later.                              *)

Valid == IF io.at \in {"checked", "stored"} /\ io.pin = active THEN 0 ELSE active

LEMMA StepRefines == TypeOK /\ [Next]_vars => [P!Next]_(P!vars)
<1> SUFFICES ASSUME TypeOK, [Next]_vars PROVE [P!Next]_(P!vars)
  OBVIOUS
<1>0. /\ issued \in Nat /\ io \in Handled /\ active \in Pins \cup {0}
      /\ P!vars = <<issued, Valid, used>> /\ P!vars' = <<issued', Valid', used'>>
  BY DEF TypeOK, Handled, P!vars, Valid
<1>1. ASSUME UNCHANGED <<issued, used>>, Valid' = Valid \/ Valid' = 0
      PROVE  [P!Next]_(P!vars)
  BY <1>0, <1>1 DEF P!Next, P!Lose, Valid
<1>2. CASE CreateManager \/ Restore \/ Return \/ OnPairingComplete \/ Reject
           \/ \E i \in 1..Len(dialogs) : Accept(i)
  BY <1>1, <1>2 DEF CreateManager, Restore, Return, OnPairingComplete, Reject, Accept,
     pinVars, Valid
<1>3. CASE Handling \/ Restart
  <2>1. UNCHANGED <<issued, used>>
    BY <1>3 DEF Handling, Store, Clear, SaveId, SaveName, PostCompletion, ReplyAccepted,
       Restart, pinVars
  <2>2. Valid' = Valid \/ Valid' = 0
    BY <1>0, <1>3 DEF Handling, Store, Clear, SaveId, SaveName, PostCompletion,
       ReplyAccepted, Restart, pinVars, At, Goto, Idle, Valid, Handled
  <2> QED BY <1>1, <2>1, <2>2
<1>4. CASE PairRequested
  BY <1>0, <1>4 DEF PairRequested, Valid, Handled, Pins, P!Next, P!Issue
<1>5. ASSUME NEW d \in Devices, NEW p \in 0..issued, NEW sound \in BOOLEAN,
             Request(d, p, sound)
      PROVE  [P!Next]_(P!vars)
  <2>1. CASE p = active /\ sound
    <3>1. /\ At("idle") /\ UNCHANGED <<issued, active>> /\ used' = Append(used, active)
          /\ io' = [at |-> "checked", of |-> d, pin |-> active]
      BY <1>5, <2>1 DEF Request
    <3>2. Valid = active /\ Valid' = 0
      BY <1>0, <3>1 DEF At, Valid
    <3> QED BY <1>0, <3>1, <3>2 DEF Valid, P!Next, P!Use, P!UseNone
  <2>2. CASE ~(p = active /\ sound)
    BY <1>1, <1>5, <2>2 DEF Request, Valid
  <2> QED BY <2>1, <2>2
<1>6. CASE UNCHANGED vars
  BY <1>1, <1>6 DEF vars, pinVars, Valid
<1> QED
  BY <1>2, <1>3, <1>4, <1>5, <1>6 DEF Next, IoOwn, QtOwn, User, Phone, Handling

(* Pairing keeps what OneTimePin promises of its PINs, in whatever order the   *)
(* io thread and the Qt thread take and replace them.                         *)
THEOREM PinsKept == Spec => PinsRefine
<1>1. Init => P!Init
  BY DEF Init, Idle, P!Init
<1> QED BY <1>1, AlwaysInv, StepRefines, PTL DEF Spec, PinsRefine, P!Spec, Inv

(* A PIN pairs at most one phone, and none once a later PIN was used.  Phones   *)
(* that sent no PIN are not counted: of those any number may pair.            *)
THEOREM PinUsedOnce == Spec => []P!PinOnce
  BY PinsKept, P!Once, PTL DEF PinsRefine

-----------------------------------------------------------------------------
(* The completion of the PIN shown now: it is made once, only completions     *)
(* without a PIN come after it, and it finds its dialog.                      *)

Queued(p) == \E j \in 1..Len(posted) : posted[j][2] = p
Told(p)   == \E k \in 1..Len(dialogs) : dialogs[k].pin = p /\ dialogs[k].for = p
Due(p)    == io.pin = p /\ io.at \notin {"idle", "reply"}

\* No event in the queue is of a PIN.
Pinless == \A j \in 1..Len(posted) : posted[j][2] = 0

\* If p was used, some phone paired later without a PIN.
After(p) ==
    \A i \in 1..Len(used) : used[i] = p => \E j \in (i + 1)..Len(used) : used[j] = 0

\* The dialog of p shows such a phone.
Over(p) ==
    /\ After(p)
    /\ \E k \in 1..Len(dialogs) : /\ dialogs[k].pin = p /\ dialogs[k].for = 0
                                  /\ dialogs[k].shows # Nobody

Settled(p) ==
    /\ Used(p) /\ active = p => io.pin = p /\ io.at \in {"checked", "stored"}
    /\ Used(p) /\ ~At("idle") => io.pin = p \/ (io.pin = 0 /\ After(p))
    /\ Queued(p) \/ Told(p) => Used(p) /\ ~Due(p)
    /\ \A j, k \in 1..Len(posted) : j < k /\ posted[j][2] = p =>
                                       posted[k][2] = 0 /\ After(p)
    /\ Told(p) => Pinless /\ (posted # <<>> => After(p))
    /\ current = p /\ Used(p) =>
          Due(p) \/ Queued(p) \/ Told(p) \/ (Over(p) /\ Pinless)

CompInv ==
    /\ active \in {0, issued}
    /\ current # 0 => \E k \in 1..Len(dialogs) : dialogs[k].pin = current
    /\ issued # 0 => Settled(issued)

\* Closing a dialog changes neither its PIN nor what it reports.
LEMMA CloseKeeps ==
  ASSUME dialogs \in Seq(Shows), NEW j \in 1..Len(dialogs), Close(j)
  PROVE  /\ Len(dialogs') = Len(dialogs)
         /\ \A i \in 1..Len(dialogs) : /\ dialogs'[i].pin = dialogs[i].pin
                                       /\ dialogs'[i].for = dialogs[i].for
                                       /\ dialogs'[i].shows = dialogs[i].shows
<1>1. dialogs[j] \in Shows
  BY ElementOfSeq
<1>2. [dialogs[j] EXCEPT !.closed = TRUE] \in Shows
  BY <1>1 DEF Shows
<1>3. dialogs' = [dialogs EXCEPT ![j] = [dialogs[j] EXCEPT !.closed = TRUE]]
  BY DEF Close
<1>4. Len(dialogs') = Len(dialogs)
  BY <1>2, <1>3, ExceptSeq
<1>5. ASSUME NEW i \in 1..Len(dialogs)
      PROVE  /\ dialogs'[i].pin = dialogs[i].pin /\ dialogs'[i].for = dialogs[i].for
             /\ dialogs'[i].shows = dialogs[i].shows
  <2>1. dialogs[i] \in Shows
    BY ElementOfSeq
  <2>2. dialogs'[i] = IF i = j THEN [dialogs[j] EXCEPT !.closed = TRUE] ELSE dialogs[i]
    BY <1>2, <1>3, ExceptSeq
  <2> QED BY <2>1, <2>2 DEF Shows
<1> QED BY <1>4, <1>5

\* An event reaches the dialogs with the PIN of the one that is open.
LEMMA Delivers ==
  ASSUME dialogs \in Seq(Shows), OnPairingComplete
  PROVE  /\ Len(dialogs') = Len(dialogs)
         /\ \A i \in 1..Len(dialogs) :
               /\ dialogs'[i].pin = dialogs[i].pin
               /\ dialogs'[i].for = IF dialogs[i].pin = current THEN Head(posted)[2]
                                    ELSE dialogs[i].for
               /\ dialogs'[i].shows = IF dialogs[i].pin = current THEN Head(posted)[1]
                                      ELSE dialogs[i].shows
<1> DEFINE d(j) == IF dialogs[j].pin = current
                   THEN [dialogs[j] EXCEPT !.shows = Head(posted)[1], !.for = Head(posted)[2]]
                   ELSE dialogs[j]
<1>1. dialogs' = [j \in 1..Len(dialogs) |-> d(j)]
  BY DEF OnPairingComplete
<1>2. \A i \in 1..Len(dialogs) : dialogs[i] \in Shows
  BY ElementOfSeq
<1>3. ASSUME NEW i \in 1..Len(dialogs)
      PROVE  /\ d(i).pin = dialogs[i].pin
             /\ d(i).for = IF dialogs[i].pin = current THEN Head(posted)[2]
                           ELSE dialogs[i].for
             /\ d(i).shows = IF dialogs[i].pin = current THEN Head(posted)[1]
                             ELSE dialogs[i].shows
  BY <1>2 DEF Shows
<1>4. Len(dialogs) \in Nat
  OBVIOUS
<1> HIDE DEF d
<1>5. Len(dialogs') = Len(dialogs)
  BY <1>1, <1>4
<1> QED BY <1>1, <1>3, <1>5

LEMMA StepComp == TypeOK /\ PinInv /\ KeptInv /\ CompInv /\ [Next]_vars => CompInv'
<1> SUFFICES ASSUME TypeOK, PinInv, KeptInv, CompInv, [Next]_vars PROVE CompInv'
  OBVIOUS
<1>0. /\ issued \in Nat /\ dialogs \in Seq(Shows) /\ posted \in Seq(Paired)
      /\ io \in Handled /\ current \in {0, issued} /\ used \in Seq(Pins \cup {0})
      /\ active \in {0, issued}
      /\ ~At("idle") => io.of \in Devices /\ io.pin \in Pins \cup {0} /\ Used(io.pin)
      /\ \A k \in 1..Len(dialogs) : dialogs[k] \in Shows
      /\ \A k \in 1..Len(posted) : /\ posted[k][1] \in Devices
                                   /\ posted[k][2] \in Pins \cup {0}
      /\ \A k \in 1..Len(used) : used[k] \in Pins \cup {0}
  <2>1. dialogs \in Seq(Shows) /\ posted \in Seq(Paired) /\ used \in Seq(Pins \cup {0})
    BY DEF TypeOK, Shows, Paired
  <2>2. \A k \in 1..Len(posted) : posted[k] \in Paired
    BY <2>1
  <2>3. \A k \in 1..Len(posted) : posted[k][1] \in Devices /\ posted[k][2] \in Pins \cup {0}
    BY <2>2 DEF Paired
  <2> QED BY <2>1, <2>3, ElementOfSeq DEF TypeOK, Shows, Handled, PinInv, CompInv
<1>1. ASSUME UNCHANGED <<issued, active, used, io, posted>>, current' \in {current, 0},
             current' # 0 => \E k \in 1..Len(dialogs') : dialogs'[k].pin = current,
             Told(issued)' => Told(issued),
             current' # 0 /\ Told(issued) => Told(issued)',
             current' # 0 /\ Over(issued) => Over(issued)'
      PROVE  CompInv'
  <2>1. ASSUME issued # 0 PROVE Settled(issued)'
    BY <1>0, <1>1, <2>1 DEF CompInv, Settled, Queued, Due, Used, After, Pinless, At
  <2> QED BY <1>0, <1>1, <2>1 DEF CompInv
<1>2. CASE CreateManager \/ Restore \/ UNCHANGED vars
  BY <1>1, <1>2 DEF CreateManager, Restore, CompInv, Told, Over, After, vars,
     pinVars, qtVars
<1>3. CASE Reject \/ \E i \in 1..Len(dialogs) : Accept(i)
  <2>1. PICK j \in 1..Len(dialogs) : Close(j)
    <3>1. Reject => Len(dialogs) \in 1..Len(dialogs)
      BY <1>0 DEF Reject
    <3> QED BY <1>3, <3>1 DEF Reject, Accept
  <2>2. UNCHANGED <<issued, active, used, io, posted, current>>
    BY <1>3 DEF Reject, Accept, pinVars
  <2>3. /\ Len(dialogs') = Len(dialogs)
        /\ \A i \in 1..Len(dialogs) : /\ dialogs'[i].pin = dialogs[i].pin
                                      /\ dialogs'[i].for = dialogs[i].for
                                      /\ dialogs'[i].shows = dialogs[i].shows
    BY <1>0, <2>1, CloseKeeps
  <2>4. (Told(issued)' <=> Told(issued)) /\ (Over(issued)' <=> Over(issued))
    BY <2>2, <2>3 DEF Told, Over, After
  <2>5. current' # 0 => \E k \in 1..Len(dialogs') : dialogs'[k].pin = current
    BY <2>2, <2>3 DEF CompInv
  <2> QED BY <1>1, <2>2, <2>4, <2>5
<1>4. CASE Return
  <2>1. /\ UNCHANGED <<issued, active, used, io, posted>> /\ current' = 0
        /\ dialogs # <<>> /\ dialogs' = SubSeq(dialogs, 1, Len(dialogs) - 1)
    BY <1>4 DEF Return, pinVars
  <2>2. \A i \in 1..Len(dialogs') : i \in 1..Len(dialogs) /\ dialogs'[i] = dialogs[i]
    BY <1>0, <2>1, SubSeqProperties
  <2>3. Told(issued)' => Told(issued)
    BY <2>1, <2>2 DEF Told
  <2> QED BY <1>1, <2>1, <2>3
<1>5. CASE OnPairingComplete
  <2> DEFINE q == Head(posted)[2]
  <2>1. /\ UNCHANGED <<issued, active, used, io, current>> /\ posted # <<>>
        /\ posted' = Tail(posted)
    BY <1>5 DEF OnPairingComplete, pinVars
  <2>2. /\ Len(posted) \in Nat /\ Len(posted) > 0 /\ Len(posted') = Len(posted) - 1
        /\ \A i \in 1..Len(posted') : i + 1 \in 1..Len(posted) /\ posted'[i] = posted[i + 1]
        /\ q = posted[1][2] /\ 1 \in 1..Len(posted) /\ Head(posted)[1] # Nobody
        /\ posted' # <<>> => 2 \in 1..Len(posted)
    <3>1. Head(posted) = posted[1] /\ posted' \in Seq(Paired)
      BY <1>0, <2>1, HeadTailProperties
    <3>2. posted[1][1] # Nobody
      BY <1>0, <2>1, PairingAssumption
    <3> QED BY <1>0, <2>1, <3>1, <3>2, HeadTailProperties, EmptySeq
  <2>3. /\ Len(dialogs') = Len(dialogs)
        /\ \A i \in 1..Len(dialogs) :
              /\ dialogs'[i].pin = dialogs[i].pin
              /\ dialogs'[i].for = IF dialogs[i].pin = current THEN q ELSE dialogs[i].for
              /\ dialogs'[i].shows = IF dialogs[i].pin = current THEN Head(posted)[1]
                                     ELSE dialogs[i].shows
    BY <1>0, <1>5, Delivers
  <2> HIDE DEF q
  <2>4. current' # 0 => \E k \in 1..Len(dialogs') : dialogs'[k].pin = current'
    <3>1. SUFFICES ASSUME current # 0
                   PROVE  \E k \in 1..Len(dialogs') : dialogs'[k].pin = current
      BY <2>1
    <3>2. PICK k \in 1..Len(dialogs) : dialogs[k].pin = current
      BY <3>1 DEF CompInv
    <3> QED BY <2>3, <3>2
  <2>5. ASSUME issued # 0 PROVE Settled(issued)'
    <3>0. Settled(issued)
      BY <2>5 DEF CompInv
    <3>1. (After(issued)' <=> After(issued)) /\ (Used(issued)' <=> Used(issued))
          /\ (Due(issued)' <=> Due(issued))
      BY <2>1 DEF After, Used, Due
    <3>2. Queued(issued)' => Queued(issued)
      BY <2>1, <2>2 DEF Queued
    <3>3. Queued(issued) => q = issued \/ Queued(issued)'
      <4>1. ASSUME NEW j \in 1..Len(posted), posted[j][2] = issued, q # issued
            PROVE  Queued(issued)'
        <5>1. j - 1 \in 1..Len(posted') /\ posted'[j - 1] = posted[j]
          BY <2>2, <4>1
        <5> QED BY <2>1, <4>1, <5>1 DEF Queued
      <4> QED BY <4>1 DEF Queued
    <3>4. q = issued => Queued(issued) /\ Pinless' /\ (posted' # <<>> => After(issued))
      <4>1. ASSUME q = issued, NEW i \in 1..Len(posted')
            PROVE  posted'[i][2] = 0 /\ After(issued)
        <5>1. /\ i + 1 \in 1..Len(posted) /\ 1 < i + 1 /\ 1 \in 1..Len(posted)
              /\ posted'[i] = posted[i + 1] /\ posted[1][2] = issued
          BY <2>2, <4>1
        <5>2. \A j, k \in 1..Len(posted) : j < k /\ posted[j][2] = issued =>
                                             posted[k][2] = 0 /\ After(issued)
          BY <3>0 DEF Settled
        <5> QED BY <5>1, <5>2
      <4>2. posted' # <<>> => 1 \in 1..Len(posted')
        BY <2>2
      <4> QED BY <2>2, <4>1, <4>2 DEF Queued, Pinless
    <3>5. Pinless => q = 0 /\ Pinless'
      BY <2>2 DEF Pinless
    <3>6. Told(issued)' => Told(issued) \/ q = issued
      BY <2>1, <2>3 DEF Told
    <3>7. ASSUME current = issued
          PROVE  /\ q = issued => Told(issued)'
                 /\ q = 0 /\ After(issued) => Over(issued)'
      <4>1. PICK k \in 1..Len(dialogs) : dialogs[k].pin = issued
        BY <2>5, <3>7 DEF CompInv
      <4>2. /\ k \in 1..Len(dialogs') /\ dialogs'[k].pin = issued
            /\ dialogs'[k].for = q /\ dialogs'[k].shows # Nobody
        BY <2>2, <2>3, <3>7, <4>1
      <4> QED BY <2>1, <3>1, <4>2 DEF Told, Over
    <3>8. \A j, k \in 1..Len(posted') : j < k /\ posted'[j][2] = issued =>
                                           posted'[k][2] = 0 /\ After(issued)
      <4>1. SUFFICES ASSUME NEW j \in 1..Len(posted'), NEW k \in 1..Len(posted'),
                            j < k, posted'[j][2] = issued
                     PROVE  posted'[k][2] = 0 /\ After(issued)
        OBVIOUS
      <4>2. /\ j + 1 \in 1..Len(posted) /\ k + 1 \in 1..Len(posted) /\ j + 1 < k + 1
            /\ posted[j + 1][2] = issued /\ posted'[k] = posted[k + 1]
        BY <2>2, <4>1
      <4> QED BY <3>0, <4>2 DEF Settled
    <3>9. Told(issued)' => Pinless' /\ (posted' # <<>> => After(issued))
      BY <2>1, <3>0, <3>4, <3>5, <3>6 DEF Settled
    <3>10. ASSUME current = issued, Used(issued)
           PROVE  Due(issued) \/ Queued(issued)' \/ Told(issued)'
                    \/ (Over(issued)' /\ Pinless')
      <4>1. Due(issued) \/ Queued(issued) \/ Told(issued) \/ (Over(issued) /\ Pinless)
        BY <3>0, <3>10 DEF Settled
      <4>2. CASE Queued(issued)
        BY <3>3, <3>7, <3>10, <4>2
      <4>3. CASE Told(issued)
        BY <2>1, <3>0, <3>5, <3>7, <3>10, <4>3 DEF Settled
      <4>4. CASE Over(issued) /\ Pinless
        BY <3>5, <3>7, <3>10, <4>4 DEF Over
      <4> QED BY <4>1, <4>2, <4>3, <4>4
    <3> QED
      BY <2>1, <3>0, <3>1, <3>2, <3>4, <3>6, <3>8, <3>9, <3>10 DEF Settled, At
  <2> QED BY <1>0, <2>1, <2>4, <2>5 DEF CompInv
<1>6. CASE PairRequested
  <2>1. /\ UNCHANGED <<used, io, posted>> /\ issued' = issued + 1 /\ active' = issued + 1
        /\ current' = issued + 1 /\ dialogs' = Append(dialogs, Dialog(issued + 1))
    BY <1>6 DEF PairRequested
  <2>2. issued + 1 \notin Pins \cup {0}
    BY <1>0 DEF Pins
  <2>3. ~Used(issued)' /\ \A j \in 1..Len(posted') : posted'[j][2] # issued'
    BY <1>0, <2>1, <2>2 DEF Used
  <2>4. /\ Len(dialogs') = Len(dialogs) + 1 /\ Len(dialogs) \in Nat
        /\ \A i \in 1..Len(dialogs) : dialogs'[i] = dialogs[i]
        /\ dialogs'[Len(dialogs) + 1] = Dialog(issued + 1)
    BY <1>0, <2>1, AppendProperties
  <2>5. \A i \in 1..Len(dialogs') : dialogs'[i].for # issued + 1
    <3>1. \A i \in 1..Len(dialogs') : i \in 1..Len(dialogs) \/ i = Len(dialogs) + 1
      BY <2>4
    <3>2. \A i \in 1..Len(dialogs) : dialogs[i].for \in Pins \cup {0}
      BY <1>0 DEF Shows
    <3>3. Dialog(issued + 1).for = 0
      BY DEF Dialog
    <3> QED BY <2>2, <2>4, <3>1, <3>2, <3>3
  <2>6. \E k \in 1..Len(dialogs') : dialogs'[k].pin = current'
    <3>1. Len(dialogs) + 1 \in 1..Len(dialogs')
      BY <2>4
    <3>2. Dialog(issued + 1).pin = issued + 1
      BY DEF Dialog
    <3> QED BY <2>1, <2>4, <3>1, <3>2
  <2>7. Settled(issued)'
    BY <2>1, <2>3, <2>5 DEF Settled, Queued, Told
  <2> QED BY <2>1, <2>6, <2>7 DEF CompInv
<1>7. CASE Handling
  <2>1. UNCHANGED <<issued, used, current, dialogs>> /\ ~At("idle")
    BY <1>7 DEF Handling, Store, Clear, SaveId, SaveName, PostCompletion, ReplyAccepted,
       pinVars, qtVars, At
  <2>2. /\ Told(issued)' <=> Told(issued)
        /\ Over(issued)' <=> Over(issued)
        /\ After(issued)' <=> After(issued)
        /\ Used(issued)' <=> Used(issued)
    BY <2>1 DEF Told, Over, After, Used
  <2>3. CASE ~PostCompletion
    <3>1. /\ UNCHANGED posted /\ active' \in {active, 0}
          /\ \/ io' = Idle /\ io.at = "reply"
             \/ /\ io'.pin = io.pin /\ io.at # "reply" /\ io'.at # "reply"
                /\ io'.at # "idle"
                /\ active' = active /\ active # 0 =>
                      (io.at \in {"checked", "stored"} => io'.at \in {"checked", "stored"})
      BY <1>0, <1>7, <2>3 DEF Handling, Store, Clear, SaveId, SaveName, ReplyAccepted,
         Goto, At, pinVars, Handled
    <3>2. Queued(issued)' <=> Queued(issued)
      BY <2>1, <3>1 DEF Queued
    <3>3. Due(issued)' <=> Due(issued)
      BY <1>0, <2>1, <3>1 DEF Due, Idle, At
    <3>4. Pinless' <=> Pinless
      BY <3>1 DEF Pinless
    <3>5. ASSUME issued # 0 PROVE Settled(issued)'
      BY <1>0, <2>1, <2>2, <3>1, <3>2, <3>3, <3>4, <3>5 DEF CompInv, Settled, At, Idle
    <3> QED BY <1>0, <2>1, <3>1, <3>5 DEF CompInv
  <2>4. CASE PostCompletion
    <3> DEFINE e == <<io.of, io.pin>>
    <3>1. /\ UNCHANGED active /\ io.at = "post" /\ io'.at = "reply" /\ io'.pin = io.pin
          /\ posted' = Append(posted, e) /\ e \in Paired /\ e[2] = io.pin
      BY <1>0, <2>4 DEF PostCompletion, Goto, At, Handled, pinVars, Paired
    <3> HIDE DEF e
    <3>2. /\ Len(posted') = Len(posted) + 1 /\ Len(posted) \in Nat
          /\ \A i \in 1..Len(posted) : posted'[i] = posted[i]
          /\ posted'[Len(posted) + 1] = e /\ Len(posted) + 1 \in 1..Len(posted')
      BY <1>0, <3>1, AppendProperties
    <3>3. \A i \in 1..Len(posted') : i \in 1..Len(posted) \/ i = Len(posted) + 1
      BY <3>2
    <3>4. ASSUME issued # 0 PROVE Settled(issued)'
      <4>0. Settled(issued) /\ Used(io.pin)
        BY <1>0, <2>1, <3>4 DEF CompInv
      <4>1. ~Due(issued)'
        BY <3>1 DEF Due
      <4>2. CASE io.pin = issued
        <5>1. Due(issued) /\ ~Queued(issued) /\ ~Told(issued) /\ Used(issued)
          BY <3>1, <4>0, <4>2 DEF Due, Settled
        <5>2. Queued(issued)'
          BY <2>1, <3>1, <3>2, <4>2 DEF Queued
        <5>3. \A i \in 1..Len(posted') : posted'[i][2] = issued => i = Len(posted')
          BY <3>2, <3>3, <5>1 DEF Queued
        <5>4. \A j, k \in 1..Len(posted') : ~(j < k /\ posted'[j][2] = issued)
          BY <3>2, <5>3
        <5> QED
          BY <2>1, <2>2, <3>1, <4>0, <4>1, <4>2, <5>1, <5>2, <5>4 DEF Settled, At
      <4>3. CASE io.pin # issued
        <5>1. Used(issued) => io.pin = 0 /\ After(issued)
          BY <2>1, <4>0, <4>3 DEF Settled
        <5>2. Queued(issued)' <=> Queued(issued)
          BY <2>1, <3>1, <3>2, <3>3, <4>3 DEF Queued
        <5>3. Used(issued) /\ Pinless => Pinless'
          BY <3>1, <3>2, <3>3, <5>1 DEF Pinless
        <5>4. ASSUME NEW j \in 1..Len(posted'), NEW k \in 1..Len(posted'),
                     j < k, posted'[j][2] = issued
              PROVE  posted'[k][2] = 0 /\ After(issued)
          <6>1. j \in 1..Len(posted) /\ posted[j][2] = issued
            BY <3>2, <3>3, <5>4
          <6>2. Used(issued)
            BY <4>0, <6>1 DEF Settled, Queued
          <6>3. k \in 1..Len(posted) => posted'[k][2] = 0
            BY <3>2, <4>0, <5>4, <6>1 DEF Settled
          <6> QED BY <3>1, <3>2, <3>3, <5>1, <6>2, <6>3
        <5>5. ~Due(issued)
          BY <4>3 DEF Due
        <5>6. Told(issued) => Pinless' /\ After(issued)
          BY <4>0, <5>1, <5>3 DEF Settled
        <5> QED
          BY <2>1, <2>2, <3>1, <4>0, <4>1, <4>3, <5>1, <5>2, <5>3, <5>4, <5>5, <5>6
             DEF Settled, At
      <4> QED BY <4>2, <4>3
    <3> QED BY <1>0, <2>1, <3>1, <3>4 DEF CompInv
  <2> QED BY <2>3, <2>4
<1>8. ASSUME NEW d \in Devices, NEW p \in 0..issued, NEW sound \in BOOLEAN,
             Request(d, p, sound)
      PROVE  CompInv'
  <2>1. UNCHANGED <<issued, active, current, dialogs, posted>> /\ io.at = "idle"
    BY <1>8 DEF Request, qtVars, At
  <2>2. CASE UNCHANGED <<io, used>>
    BY <1>1, <1>0, <2>1, <2>2 DEF CompInv, Told, Over, After
  <2>3. CASE p = active /\ io' = [at |-> "checked", of |-> d, pin |-> p]
             /\ used' = Append(used, p)
    <3>1. /\ Len(used') = Len(used) + 1 /\ Len(used) \in Nat
          /\ \A i \in 1..Len(used) : used'[i] = used[i]
          /\ used'[Len(used) + 1] = p
      BY <1>0, <2>3, AppendProperties
    <3>2. \A i \in 1..Len(used') : i \in 1..Len(used) \/ i = Len(used) + 1
      BY <3>1
    <3>3. io'.pin = p /\ io'.at = "checked" /\ p \in {0, issued}
      BY <1>0, <2>3
    <3>4. /\ Told(issued)' <=> Told(issued)
          /\ Queued(issued)' <=> Queued(issued)
          /\ Pinless' <=> Pinless
      BY <2>1 DEF Told, Queued, Pinless
    <3>5. ASSUME issued # 0 PROVE Settled(issued)'
      <4>0. Settled(issued)
        BY <3>5 DEF CompInv
      <4>1. CASE p = issued
        <5>1. ~Used(issued)
          BY <2>1, <2>3, <4>0, <4>1 DEF Settled
        <5>2. ~Queued(issued) /\ ~Told(issued)
          BY <4>0, <5>1 DEF Settled
        <5>3. Due(issued)'
          BY <2>1, <3>3, <4>1 DEF Due
        <5>4. \A j \in 1..Len(posted') : posted'[j][2] # issued
          BY <2>1, <5>2 DEF Queued
        <5> QED BY <2>1, <3>3, <3>4, <4>1, <5>2, <5>3, <5>4 DEF Settled
      <4>2. CASE p = 0
        <5>1. After(issued)'
          <6>1. SUFFICES ASSUME NEW i \in 1..Len(used'), used'[i] = issued
                         PROVE  \E j \in (i + 1)..Len(used') : used'[j] = 0
            BY <2>1 DEF After
          <6>2. i \in 1..Len(used)
            BY <3>1, <3>2, <3>5, <4>2, <6>1
          <6>3. Len(used) + 1 \in (i + 1)..Len(used')
            BY <3>1, <6>2
          <6> QED BY <3>1, <4>2, <6>3
        <5>2. Used(issued)' <=> Used(issued)
          BY <2>1, <3>1, <3>2, <3>5, <4>2 DEF Used
        <5>3. ~Due(issued)' /\ ~Due(issued) /\ active' # issued'
          BY <2>1, <2>3, <3>3, <3>5, <4>2 DEF Due
        <5>4. Over(issued) => Over(issued)'
          BY <2>1, <5>1 DEF Over
        <5>5. /\ Queued(issued) \/ Told(issued) => Used(issued)
              /\ \A j, k \in 1..Len(posted) : j < k /\ posted[j][2] = issued =>
                                                 posted[k][2] = 0
              /\ Told(issued) => Pinless
              /\ current = issued /\ Used(issued) =>
                    Queued(issued) \/ Told(issued) \/ (Over(issued) /\ Pinless)
          BY <4>0, <5>3 DEF Settled
        <5> QED
          BY <2>1, <3>3, <3>4, <4>2, <5>1, <5>2, <5>3, <5>4, <5>5 DEF Settled, At
      <4> QED BY <3>3, <4>1, <4>2
    <3> QED BY <1>0, <2>1, <3>5 DEF CompInv
  <2> QED BY <1>8, <2>2, <2>3 DEF Request
<1>9. CASE Restart
  <2>1. /\ issued' = issued /\ active' = 0 /\ current' = 0 /\ posted' = <<>>
        /\ dialogs' = <<>> /\ io'.at = "idle"
    BY <1>9 DEF Restart, Idle
  <2>2. ASSUME issued # 0 PROVE Settled(issued)'
    BY <2>1, <2>2 DEF Settled, Queued, Told, At
  <2> QED BY <2>1, <2>2 DEF CompInv
<1> QED
  BY <1>2, <1>3, <1>4, <1>5, <1>6, <1>7, <1>8, <1>9
     DEF Next, IoOwn, QtOwn, User, Phone, Handling

(* A phone that pairs by the PIN shown now is reported in its dialog: the event *)
(* is made, queued or delivered, and no event of an earlier PIN comes after it *)
(* to take its place; only that of a phone that paired later without a PIN.    *)
THEOREM CompletionIsKept == Spec => []CompletionKept
<1>1. Init => CompInv
  BY DEF Init, CompInv
<1>2. Inv /\ CompInv => CompletionKept
  <2> SUFFICES ASSUME Inv, CompInv, NEW i \in 1..Len(used), current # 0,
                      current = used[i]
               PROVE  \/ Due(current) \/ Queued(current) \/ Told(current)
                      \/ (Over(current) /\ \E j \in (i + 1)..Len(used) : used[j] = 0)
    BY DEF CompletionKept, Due, Queued, Told, Over
  <2>1. current = issued /\ Used(issued)
    BY DEF Inv, PinInv, Used
  <2> QED BY <2>1 DEF CompInv, Settled, Over, After
<1> QED BY <1>1, <1>2, AlwaysInv, StepComp, PTL DEF Spec, Inv
=============================================================================
