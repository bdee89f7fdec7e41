--------------------------- MODULE AdbMonitorProofs ---------------------------
(* Theorems about AdbMonitor, for any phones, ports and changes.              *)
EXTENDS AdbMonitor, SequenceTheorems, TLAPS

States == {"device", "offline", "absent"}

\* Where the two threads can be together.
Threads ==
    /\ cur # Nothing \/ todo # {} => pc = "attach"
    /\ main \in {"extract", "start"} => pc = "off"

\* The phones that are believed to be connected are, and forward the ports their
\* set-up has come to, but for those whose connection broke meanwhile.
Forwarding ==
    /\ \A p \in todo \ missed : link[p] = "device"
    /\ cur # Nothing /\ cur[1] \notin missed =>
          link[cur[1]] = "device" /\ 1..(cur[2] - 1) \subseteq reverse[cur[1]]
    /\ ActiveForwards

Inv == TypeOK /\ Threads /\ Forwarding /\ NotesFollow

LEMMA InitInv == Init => Inv
<1> SUFFICES ASSUME Init PROVE Inv
  OBVIOUS
<1>1. TypeOK
  <2>1. posted \in Seq(Phones \X BOOLEAN)
    BY EmptySeq DEF Init
  <2> QED BY <2>1 DEF Init, TypeOK, Empty
<1>2. Threads /\ Forwarding
  BY DEF Init, Threads, Forwarding, ActiveForwards
<1>3. NotesFollow
  BY DEF Init, NotesFollow, Told, LastAttached
<1> QED BY <1>1, <1>2, <1>3 DEF Inv

LEMMA CurType ==
  ASSUME TypeOK, cur # Nothing
  PROVE  cur = <<cur[1], cur[2]>> /\ cur[1] \in Phones /\ cur[2] \in 1..(Ports + 1)
  BY DEF TypeOK

LEMMA StepType == TypeOK /\ [Next]_vars => TypeOK'
<1> SUFFICES ASSUME TypeOK, [Next]_vars PROVE TypeOK'
  OBVIOUS
<1> USE AdbAssumption
<1>1. ASSUME NEW p \in Phones, NEW to \in States, Changes(p, to) PROVE TypeOK'
  BY <1>1 DEF TypeOK, Changes, States, monVars
<1>2. CASE MonTop \/ MonAttachEnds \/ MonDetachEnds
  BY <1>2 DEF TypeOK, MonTop, MonAttachEnds, MonDetachEnds, Goto, usbVars, Empty
<1>3. CASE MonList
  <2>1. seen' \in {link, Empty} /\ changes' \in Nat /\ pc' = "attach" /\ todo' \subseteq Phones
    BY <1>3 DEF MonList, AdbCall, TypeOK, Goto
  <2> QED BY <1>3, <2>1 DEF TypeOK, MonList, Empty
<1>4. ASSUME NEW p \in Phones, MonSetup(p) PROVE TypeOK'
  <2>1. cur' \in Phones \X (1..(Ports + 1))
    BY <1>4 DEF MonSetup
  <2> QED BY <1>4, <2>1 DEF TypeOK, MonSetup, usbVars
<1>5. CASE MonReverse
  <2>1. cur[1] \in Phones /\ cur[2] \in 1..Ports /\ cur' = <<cur[1], cur[2] + 1>>
    BY <1>5, CurType DEF MonReverse
  <2>2. cur' \in Phones \X (1..(Ports + 1))
    BY <2>1
  <2>3. /\ changes' \in Nat
        /\ reverse' \in {reverse, [reverse EXCEPT ![cur[1]] = reverse[cur[1]] \cup {cur[2]}]}
        /\ missed' \in {missed, missed \cup {cur[1]}}
    BY <1>5 DEF MonReverse, AdbCall, TypeOK
  <2>4. reverse' \in [Phones -> SUBSET (1..Ports)] /\ missed' \subseteq Phones
    BY <2>1, <2>3 DEF TypeOK
  <2> QED BY <1>5, <2>2, <2>3, <2>4 DEF TypeOK, MonReverse
<1>6. ASSUME NEW p \in Phones, NEW a \in BOOLEAN, posted' = Append(posted, <<p, a>>)
      PROVE  posted' \in Seq(Phones \X BOOLEAN)
  BY <1>6, AppendProperties DEF TypeOK
<1>7. CASE MonAttached
  BY <1>6, <1>7, CurType DEF TypeOK, MonAttached, usbVars, Nothing
<1>8. ASSUME NEW p \in Phones, MonDetached(p) PROVE TypeOK'
  BY <1>6, <1>8 DEF TypeOK, MonDetached
<1>9. CASE Notify
  <2>1. posted' \in Seq(Phones \X BOOLEAN) /\ Head(posted) \in Phones \X BOOLEAN
    BY <1>9, HeadTailProperties DEF TypeOK, Notify
  <2> QED BY <1>9, <2>1 DEF TypeOK, Notify, monVars, usbVars
<1>10. CASE ExtractEnds \/ StartMonitor \/ StopJoin \/ StopFlag \/ \E f \in Files : Extract(f)
  BY <1>10 DEF TypeOK, ExtractEnds, StartMonitor, StopJoin, StopFlag, Extract, MainGoto, Goto,
     monVars, usbVars
<1>11. CASE Restart
  <2>1. <<>> \in Seq(Phones \X BOOLEAN)
    BY EmptySeq
  <2>2. UNCHANGED <<files, link, reverse, changes>> /\ restarts' \in Nat
    BY <1>11 DEF TypeOK, Restart
  <2>3. /\ main' = "extract" /\ running' = FALSE /\ pc' = "off" /\ seen' = Empty
        /\ todo' = {} /\ cur' = Nothing /\ active' = {} /\ posted' = <<>> /\ noted' = {}
        /\ missed' = {}
    BY <1>11 DEF Restart, MainGoto, Goto
  <2> QED BY <2>1, <2>2, <2>3 DEF TypeOK, Empty
<1>12. CASE UNCHANGED vars
  BY <1>12 DEF TypeOK, vars, monVars, usbVars
<1> QED
  BY <1>1, <1>2, <1>3, <1>4, <1>5, <1>7, <1>8, <1>9, <1>10, <1>11, <1>12
     DEF Next, Usb, Monitor, Main, States

LEMMA StepThreads == Threads /\ [Next]_vars => Threads'
<1> SUFFICES ASSUME Threads, [Next]_vars PROVE Threads'
  OBVIOUS
<1> USE DEF Threads
<1>1. CASE Usb \/ Notify \/ \E f \in Files : Extract(f)
  BY <1>1 DEF Usb, Changes, Notify, Extract, monVars
<1>2. CASE MonTop \/ MonList \/ MonAttachEnds \/ MonDetachEnds
  BY <1>2 DEF MonTop, MonList, MonAttachEnds, MonDetachEnds, Goto
<1>3. CASE MonReverse \/ MonAttached \/ \E p \in Phones : MonSetup(p) \/ MonDetached(p)
  <2>1. UNCHANGED <<main, pc>> /\ todo' \subseteq todo
    BY <1>3 DEF MonReverse, MonAttached, MonSetup, MonDetached
  <2>2. cur' # Nothing => pc = "attach"
    BY <1>3 DEF MonReverse, MonAttached, MonSetup, MonDetached, Nothing
  <2> QED BY <2>1, <2>2
<1>4. CASE ExtractEnds \/ StopJoin \/ StopFlag
  BY <1>4 DEF ExtractEnds, StopJoin, StopFlag, MainGoto, monVars
<1>5. CASE StartMonitor \/ Restart
  BY <1>5 DEF StartMonitor, Restart, MainGoto, Goto
<1>6. CASE UNCHANGED vars
  BY <1>6 DEF vars, monVars
<1> QED
  BY <1>1, <1>2, <1>3, <1>4, <1>5, <1>6 DEF Next, Monitor, Main

LEMMA StepForwarding ==
  TypeOK /\ Threads /\ Forwarding /\ [Next]_vars => Forwarding'
<1> SUFFICES ASSUME TypeOK, Threads, Forwarding, [Next]_vars PROVE Forwarding'
  OBVIOUS
<1> USE AdbAssumption DEF Forwarding, ActiveForwards, Threads
<1>0. link \in [Phones -> States] /\ reverse \in [Phones -> SUBSET (1..Ports)]
  BY DEF TypeOK, States
<1>1. ASSUME UNCHANGED <<todo, cur, active, link, reverse, missed>> PROVE Forwarding'
  BY <1>1
<1>2. CASE MonTop \/ MonAttachEnds \/ MonDetachEnds
  BY <1>1, <1>2 DEF MonTop, MonAttachEnds, MonDetachEnds, usbVars
<1>3. CASE Main \/ StopFlag \/ \E f \in Files : Extract(f)
  BY <1>1, <1>3 DEF Main, ExtractEnds, StartMonitor, Notify, StopJoin, StopFlag, Extract,
     monVars, usbVars
<1>4. ASSUME NEW p \in Phones, NEW to \in States, Changes(p, to) PROVE Forwarding'
  <2>1. /\ UNCHANGED <<todo, cur, active>>
        /\ link' = [link EXCEPT ![p] = to] /\ reverse' = [reverse EXCEPT ![p] = {}]
        /\ missed' = IF Trusted(p) THEN missed \cup {p} ELSE missed
    BY <1>4 DEF Changes, monVars
  <2>2. \A q \in Phones \ {p} : link'[q] = link[q] /\ reverse'[q] = reverse[q]
    BY <1>0, <2>1
  <2>3. active \cup todo \subseteq Phones /\ (cur # Nothing => cur[1] \in Phones)
    BY CurType DEF TypeOK
  <2> QED BY <2>1, <2>2, <2>3 DEF Trusted
<1>5. CASE MonList
  <2>1. /\ cur = Nothing /\ UNCHANGED <<cur, active, link, reverse, missed>>
        /\ \A p \in todo' : link[p] = "device"
    <3>1. seen' \in {link, Empty} /\ todo' = {p \in Phones : seen'[p] = "device"} \ active
      BY <1>5 DEF MonList
    <3>2. pc = "list" /\ UNCHANGED <<cur, active, link, reverse, missed>>
      BY <1>5 DEF MonList
    <3> QED BY <3>1, <3>2 DEF Empty
  <2> QED BY <2>1
<1>6. ASSUME NEW p \in Phones, MonSetup(p) PROVE Forwarding'
  <2>1. /\ cur' = <<p, 1>> /\ p \in todo /\ todo' = todo \ {p}
        /\ UNCHANGED <<active, link, reverse, missed>>
    BY <1>6 DEF MonSetup, usbVars
  <2> QED BY <2>1
<1>7. CASE MonReverse
  <2> DEFINE p == cur[1]  n == cur[2]
  <2>1. /\ p \in Phones /\ n \in 1..Ports /\ cur # Nothing
        /\ cur' = <<p, n + 1>> /\ UNCHANGED <<todo, active, link>>
    BY <1>7, CurType DEF MonReverse
  <2>2. \/ missed' = missed \cup {p} /\ reverse' = reverse
        \/ /\ missed' = missed
           /\ reverse' = IF link[p] = "device"
                         THEN [reverse EXCEPT ![p] = reverse[p] \cup {n}] ELSE reverse
    BY <1>7 DEF MonReverse
  <2> HIDE DEF p, n
  <2>3. cur'[1] = p /\ cur'[2] = n + 1 /\ 1..n = 1..(n - 1) \cup {n} /\ n + 1 - 1 = n
    BY <2>1
  <2>4. \A q \in Phones : reverse[q] \subseteq reverse'[q] /\ reverse'[q] \subseteq 1..Ports
    BY <1>0, <2>1, <2>2
  <2>5. p \notin missed => link[p] = "device" /\ 1..(n - 1) \subseteq reverse[p]
    BY <2>1 DEF p, n
  <2>6. p \notin missed' => link[p] = "device" /\ 1..n \subseteq reverse'[p]
    BY <1>0, <2>1, <2>2, <2>3, <2>5
  <2>7. \A q \in active \ missed' : link[q] = "device" /\ reverse'[q] = AllPorts
    BY <2>1, <2>2, <2>4 DEF AllPorts, TypeOK
  <2>8. missed \subseteq missed'
    BY <2>2
  <2> QED BY <2>1, <2>3, <2>6, <2>7, <2>8
<1>8. CASE MonAttached
  <2>1. /\ cur # Nothing /\ cur[2] = Ports + 1 /\ cur' = Nothing /\ cur[1] \in Phones
        /\ active' = active \cup {cur[1]} /\ UNCHANGED <<todo, link, reverse, missed>>
    BY <1>8, CurType DEF MonAttached, usbVars
  <2>2. cur[1] \notin missed => link[cur[1]] = "device" /\ reverse[cur[1]] = AllPorts
    <3>1. cur[2] - 1 = Ports
      BY <2>1
    <3>2. reverse[cur[1]] \subseteq 1..Ports
      BY <1>0, <2>1
    <3> QED BY <2>1, <3>1, <3>2 DEF AllPorts
  <2> QED BY <2>1, <2>2
<1>9. ASSUME NEW p \in Phones, MonDetached(p) PROVE Forwarding'
  <2>1. /\ cur = Nothing /\ todo = {} /\ missed' = missed \ {p} /\ active' = active \ {p}
        /\ UNCHANGED <<todo, cur, link, reverse>>
    BY <1>9 DEF MonDetached
  <2> QED BY <2>1
<1>10. CASE Restart
  BY <1>10 DEF Restart
<1>11. CASE UNCHANGED vars
  BY <1>1, <1>11 DEF vars, monVars, usbVars
<1> QED
  BY <1>2, <1>3, <1>4, <1>5, <1>6, <1>7, <1>8, <1>9, <1>10, <1>11
     DEF Next, Usb, Monitor, States

Events == Seq(Phones \X BOOLEAN)

\* The event posted last of a phone is the one that counts...
LEMMA LastOfAppend ==
  ASSUME NEW q \in Events, NEW p \in Phones, NEW a \in BOOLEAN, NEW r
  PROVE  /\ NoneOf(Append(q, <<p, a>>), r) <=> r # p /\ NoneOf(q, r)
         /\ LastAttached(Append(q, <<p, a>>), r) <=> (r = p /\ a) \/ (r # p /\ LastAttached(q, r))
<1> DEFINE s == Append(q, <<p, a>>)  n == Len(q)
<1>1. /\ n \in Nat /\ Len(s) = n + 1 /\ s[n + 1][1] = p /\ s[n + 1][2] = a
      /\ \A i \in 1..n : s[i] = q[i]
  BY AppendProperties DEF Events
<1> HIDE DEF s, n
<1>2. 1..(n + 1) = 1..n \cup {n + 1} /\ n + 1 \notin 1..n
  BY <1>1
<1>3. NoneOf(s, r) <=> r # p /\ NoneOf(q, r)
  BY <1>1, <1>2 DEF NoneOf, n
<1>4. CASE r = p
  <2>1. LastAttached(s, r) => a
    <3>1. SUFFICES ASSUME NEW i \in 1..Len(s), s[i][1] = r, s[i][2],
                          \A j \in (i + 1)..Len(s) : s[j][1] # r
                   PROVE  a
      BY DEF LastAttached
    <3>2. ~(n + 1 \in (i + 1)..Len(s))
      BY <1>1, <1>4, <3>1
    <3>3. i = n + 1
      BY <1>1, <3>2
    <3> QED BY <1>1, <3>1, <3>3
  <2>2. a => LastAttached(s, r)
    <3>1. n + 1 \in 1..Len(s) /\ (n + 1 + 1)..Len(s) = {}
      BY <1>1
    <3> QED BY <1>1, <1>4, <3>1 DEF LastAttached
  <2> QED BY <1>3, <1>4, <2>1, <2>2 DEF s
<1>5. CASE r # p
  <2>1. ASSUME NEW i \in 1..n
        PROVE  (\A j \in (i + 1)..(n + 1) : s[j][1] # r) <=> \A j \in (i + 1)..n : q[j][1] # r
    <3>1. (i + 1)..(n + 1) = (i + 1)..n \cup {n + 1} /\ (i + 1)..n \subseteq 1..n
      BY <1>1
    <3> QED BY <1>1, <1>5, <3>1
  <2>2. s[n + 1][1] # r
    BY <1>1, <1>5
  <2>3. LastAttached(s, r) <=> LastAttached(q, r)
    BY <1>1, <1>2, <2>1, <2>2 DEF LastAttached, n
  <2> QED BY <1>3, <1>5, <2>3 DEF s
<1> QED BY <1>4, <1>5

\* ...and stays so until it is the only one left.
LEMMA LastOfTail ==
  ASSUME NEW q \in Events, q # <<>>, NEW r
  PROVE  /\ NoneOf(q, r) <=> Head(q)[1] # r /\ NoneOf(Tail(q), r)
         /\ LastAttached(q, r) <=>
               (LastAttached(Tail(q), r) \/ (Head(q)[1] = r /\ Head(q)[2] /\ NoneOf(Tail(q), r)))
<1> DEFINE s == Tail(q)  n == Len(s)
<1>1. /\ n \in Nat /\ Len(q) = n + 1 /\ q[1] = Head(q)
      /\ \A i \in 1..n : s[i] = q[i + 1]
  BY HeadTailProperties DEF Events
<1> HIDE DEF s, n
<1>2. \A i \in 1..(n + 1) : i = 1 \/ (i - 1 \in 1..n /\ s[i - 1] = q[i])
  BY <1>1
<1>3. \A i \in 1..n : i + 1 \in 1..(n + 1)
  BY <1>1
<1>4. NoneOf(q, r) <=> Head(q)[1] # r /\ NoneOf(s, r)
  <2>1. 1 \in 1..(n + 1)
    BY <1>1
  <2> QED BY <1>1, <1>2, <1>3, <2>1 DEF NoneOf, n
<1>5. ASSUME NEW i \in 0..n
      PROVE  (\A j \in (i + 2)..(n + 1) : q[j][1] # r) <=> \A j \in (i + 1)..n : s[j][1] # r
  <2>1. \A j \in (i + 2)..(n + 1) : j - 1 \in (i + 1)..n /\ s[j - 1] = q[j]
    BY <1>1, <1>2
  <2>2. \A j \in (i + 1)..n : j + 1 \in (i + 2)..(n + 1) /\ s[j] = q[j + 1]
    BY <1>1
  <2> QED BY <2>1, <2>2
<1>6. LastAttached(q, r) =>
        LastAttached(s, r) \/ (Head(q)[1] = r /\ Head(q)[2] /\ NoneOf(s, r))
  <2> SUFFICES ASSUME NEW i \in 1..(n + 1), q[i][1] = r, q[i][2],
                      \A j \in (i + 1)..(n + 1) : q[j][1] # r
               PROVE  LastAttached(s, r) \/ (Head(q)[1] = r /\ Head(q)[2] /\ NoneOf(s, r))
    BY <1>1 DEF LastAttached
  <2>1. i - 1 \in 0..n /\ (i - 1) + 2 = i + 1 /\ (i - 1) + 1 = i
    BY <1>1
  <2>2. \A j \in i..n : s[j][1] # r
    BY <1>5, <2>1
  <2>3. CASE i = 1
    BY <1>1, <2>2, <2>3 DEF NoneOf, n
  <2>4. CASE i # 1
    BY <1>2, <2>1, <2>2, <2>4 DEF LastAttached, n
  <2> QED BY <2>3, <2>4
<1>7. LastAttached(s, r) => LastAttached(q, r)
  <2> SUFFICES ASSUME NEW i \in 1..n, s[i][1] = r, s[i][2],
                      \A j \in (i + 1)..n : s[j][1] # r
               PROVE  LastAttached(q, r)
    BY DEF LastAttached, n
  <2>1. i \in 0..n /\ i + 1 + 1 = i + 2 /\ i + 1 \in 1..(n + 1) /\ q[i + 1][1] = r /\ q[i + 1][2]
    BY <1>1
  <2>2. \A j \in (i + 2)..(n + 1) : q[j][1] # r
    BY <1>5, <2>1
  <2> QED BY <1>1, <2>1, <2>2 DEF LastAttached
<1>8. ASSUME Head(q)[1] = r, Head(q)[2], NoneOf(s, r) PROVE LastAttached(q, r)
  <2>1. 0 \in 0..n /\ 0 + 2 = 2 /\ 0 + 1 = 1 /\ 1 + 1 = 2 /\ 1 \in 1..(n + 1)
    BY <1>1
  <2>2. \A j \in 2..(n + 1) : q[j][1] # r
    BY <1>5, <1>8, <2>1 DEF NoneOf, n
  <2>3. q[1][1] = r /\ q[1][2]
    BY <1>1, <1>8
  <2>4. \A j \in (1 + 1)..Len(q) : q[j][1] # r
    BY <1>1, <2>1, <2>2
  <2>5. 1 \in 1..Len(q)
    BY <1>1
  <2> QED BY <2>3, <2>4, <2>5 DEF LastAttached
<1> QED BY <1>4, <1>6, <1>7, <1>8 DEF s

LEMMA ToldAppend ==
  ASSUME TypeOK, NEW p \in Phones, NEW a \in BOOLEAN, posted' = Append(posted, <<p, a>>),
         noted' = noted
  PROVE  /\ Told(p)' <=> a
         /\ \A q \in Phones \ {p} : Told(q)' <=> Told(q)
<1>1. posted \in Events
  BY DEF TypeOK, Events
<1> QED BY <1>1, LastOfAppend DEF Told

LEMMA ToldNotify == ASSUME TypeOK, Notify, NEW q \in Phones PROVE Told(q)' <=> Told(q)
<1> DEFINE h == Head(posted)
<1>1. /\ posted # <<>> /\ posted \in Events /\ posted' = Tail(posted)
      /\ noted' = IF h[2] THEN noted \cup {h[1]} ELSE noted \ {h[1]}
  BY DEF Notify, TypeOK, Events
<1>2. h \in Phones \X BOOLEAN
  BY <1>1, HeadTailProperties DEF Events
<1>4. /\ NoneOf(posted, q) <=> h[1] # q /\ NoneOf(posted', q)
      /\ LastAttached(posted, q) <=>
            (LastAttached(posted', q) \/ (h[1] = q /\ h[2] /\ NoneOf(posted', q)))
  BY <1>1, LastOfTail
<1>5. q \in noted' <=> (h[1] = q /\ h[2]) \/ (h[1] # q /\ q \in noted)
  BY <1>1, <1>2
<1> HIDE DEF h
<1> QED BY <1>4, <1>5 DEF Told

LEMMA StepNotes == TypeOK /\ NotesFollow /\ [Next]_vars => NotesFollow'
<1> SUFFICES ASSUME TypeOK, NotesFollow, [Next]_vars PROVE NotesFollow'
  OBVIOUS
<1> USE DEF NotesFollow
<1>1. ASSUME UNCHANGED <<posted, noted, active>> PROVE NotesFollow'
  BY <1>1 DEF Told
<1>2. CASE Usb \/ MonTop \/ MonList \/ MonReverse \/ MonAttachEnds \/ MonDetachEnds
           \/ \E p \in Phones : MonSetup(p)
  BY <1>1, <1>2 DEF Usb, Changes, MonTop, MonList, MonReverse, MonAttachEnds, MonDetachEnds,
     MonSetup, monVars
<1>3. CASE ExtractEnds \/ StartMonitor \/ StopJoin \/ StopFlag \/ \E f \in Files : Extract(f)
  BY <1>1, <1>3 DEF ExtractEnds, StartMonitor, StopJoin, StopFlag, Extract, monVars
<1>4. CASE MonAttached
  <2>1. /\ cur[1] \in Phones /\ active' = active \cup {cur[1]} /\ UNCHANGED noted
        /\ posted' = Append(posted, <<cur[1], TRUE>>)
    BY <1>4, CurType DEF MonAttached
  <2> QED BY <2>1, ToldAppend
<1>5. ASSUME NEW p \in Phones, MonDetached(p) PROVE NotesFollow'
  <2>1. /\ active' = active \ {p} /\ UNCHANGED noted /\ posted' = Append(posted, <<p, FALSE>>)
    BY <1>5 DEF MonDetached
  <2> QED BY <2>1, ToldAppend
<1>6. CASE Notify
  <2>1. active' = active
    BY <1>6 DEF Notify, monVars
  <2> QED BY <1>6, <2>1, ToldNotify
<1>7. CASE Restart
  BY <1>7 DEF Restart, Told, LastAttached
<1>8. CASE UNCHANGED vars
  BY <1>1, <1>8 DEF vars, monVars
<1> QED
  BY <1>2, <1>3, <1>4, <1>5, <1>6, <1>7, <1>8 DEF Next, Monitor, Main

LEMMA AlwaysInv == Spec => []Inv
<1>1. Init => Inv
  BY InitInv
<1>2. Inv /\ [Next]_vars => Inv'
  BY StepType, StepThreads, StepForwarding, StepNotes DEF Inv
<1> QED BY <1>1, <1>2, PTL DEF Spec

(* Every variable of the monitor keeps its type.                              *)
THEOREM TypeCorrect == Spec => []TypeOK
<1>1. Inv => TypeOK
  BY DEF Inv
<1> QED BY <1>1, AlwaysInv, PTL

(* m_activeSerials has no phone that does not forward every port, but those    *)
(* whose connection broke, or whose set-up adb.exe failed, unnoticed.         *)
THEOREM ActiveAreForwarded == Spec => []ActiveForwards
<1>1. Inv => ActiveForwards
  BY DEF Inv, Forwarding
<1> QED BY <1>1, AlwaysInv, PTL

(* The events of the monitor, however late they come, tell the Qt thread what  *)
(* m_activeSerials has.                                                       *)
THEOREM NotesAreRight == Spec => []NotesFollow
<1>1. Inv => NotesFollow
  BY DEF Inv
<1> QED BY <1>1, AlwaysInv, PTL
=============================================================================
