---------------------------- MODULE ControlProofs ----------------------------
(* Theorems about Control, for any number of phones and inputs.              *)
EXTENDS Control, SequenceTheorems, FiniteSetTheorems, TLAPS

Targets == Sessions \cup {All}

LEMMA AppendTask ==
  ASSUME TypeOK, NEW t \in Targets, NEW m \in Messages, Post(t, m)
  PROVE  tasks' \in Seq(Targets \X Messages)
  BY AppendProperties DEF TypeOK, Post, Targets

LEMMA BroadcastType ==
  ASSUME TypeOK, RunBroadcast
  PROVE  \E r \in Seq(Targets \X Messages) :
           /\ tasks' = Tail(tasks) \o r /\ tasks # <<>> /\ Tail(tasks) \in Seq(Targets \X Messages)
           /\ Head(tasks) \in Targets \X Messages /\ Head(tasks)[1] = All
           /\ \A i \in 1..Len(r) : r[i][1] \in sessions /\ r[i][2] = Head(tasks)[2]
           /\ \A s \in sessions : \E i \in 1..Len(r) : r[i][1] = s
<1> DEFINE n == Cardinality(sessions)
<1> USE ControlAssumption
<1>1. IsFiniteSet(Sessions)
  BY FS_Interval DEF Sessions
<1>2. n \in Nat
  BY <1>1, FS_Subset, FS_CardinalityType DEF TypeOK
<1>3. /\ tasks # <<>> /\ Head(tasks)[1] = All
      /\ Head(tasks) \in Targets \X Messages
      /\ Tail(tasks) \in Seq(Targets \X Messages)
  BY HeadTailProperties DEF TypeOK, RunBroadcast, Targets
<1>4. PICK told \in Bijection(1..n, sessions) :
        tasks' = Tail(tasks) \o [i \in 1..n |-> <<told[i], Head(tasks)[2]>>]
  BY DEF RunBroadcast
<1> HIDE DEF n
<1>5. /\ told \in [1..n -> sessions]
      /\ \A s \in sessions : \E i \in 1..n : told[i] = s
  BY DEF Bijection, Injection, Surjection
<1> DEFINE r == [i \in 1..n |-> <<told[i], Head(tasks)[2]>>]
<1>6. r \in [1..n -> Targets \X Messages]
  BY <1>3, <1>5 DEF TypeOK, Targets
<1>7. r \in Seq(Targets \X Messages) /\ Len(r) = n
  BY <1>2, <1>6
<1> QED BY <1>3, <1>4, <1>5, <1>7

LEMMA InitType == Init => TypeOK
<1> SUFFICES ASSUME Init PROVE TypeOK
  OBVIOUS
<1> USE ControlAssumption DEF Init, NoSession, All, Quiet
<1>1. <<>> \in Seq(BOOLEAN) /\ <<>> \in Seq(Messages) /\ <<>> \in Seq(Targets \X Messages)
  BY EmptySeq
<1>2. heard \in [Sessions -> [kinds : SUBSET Kinds, flip : Seq(BOOLEAN)]]
  BY <1>1
<1>3. next \in 1..(MaxSessions + 1)
  OBVIOUS
<1> QED BY <1>1, <1>2, <1>3 DEF TypeOK, Targets

\* What is being written to a phone is the head of its queue.
Written == \A s \in Sessions : writing[s] > 0 => out[s] # <<>>

LEMMA StepType == TypeOK /\ Written /\ [Next]_vars => TypeOK'
<1> SUFFICES ASSUME TypeOK, Written, [Next]_vars PROVE TypeOK'
  OBVIOUS
<1> USE ControlAssumption
<1>0. /\ announce \in Seq(BOOLEAN) /\ events \in Seq(BOOLEAN)
      /\ tasks \in Seq(Targets \X Messages)
      /\ conn \in [Sessions -> {"none", "handshake", "open", "broken", "failed", "lost"}]
      /\ next \in 1..(MaxSessions + 1)
  BY DEF TypeOK, Targets
<1>1. CASE Accept
  <2>1. next \in Sessions /\ next' \in 1..(MaxSessions + 1)
    BY <1>0, <1>1 DEF Accept, Sessions
  <2> QED BY <1>1, <2>1 DEF TypeOK, Accept, qtVars, outVars, bounds
<1>2. ASSUME NEW s \in Sessions,
             Handshake(s) \/ PhoneLeaves(s) \/ ReadError(s) \/ CloseOpen(s) \/ CloseOther(s)
      PROVE  TypeOK'
  <2>1. PICK l \in {"open", "failed", "broken", "lost"} : conn' = [conn EXCEPT ![s] = l]
    BY <1>2 DEF Handshake, PhoneLeaves, ReadError, CloseOpen, CloseOther, Close, SetConn
  <2>2. conn' \in [Sessions -> {"none", "handshake", "open", "broken", "failed", "lost"}]
    BY <1>0, <2>1
  <2>3. sessions' \subseteq sessions /\ io' \in {io, [at |-> "gone", of |-> s, flip |-> TRUE]}
    BY <1>2 DEF Handshake, PhoneLeaves, ReadError, CloseOpen, CloseOther, Close, Busy
  <2>4. UNCHANGED <<qtVars, events, next, greeted, current, begun, tasks, outVars, bounds>>
    BY <1>2 DEF Handshake, PhoneLeaves, ReadError, CloseOpen, CloseOther, Close
  <2>5. /\ io' \in [at : {"idle", "gone", "flip", "welcome"}, of : Sessions \cup {NoSession},
                   flip : BOOLEAN]
        /\ io'.at # "idle" => io'.of # NoSession
    <3>1. s # NoSession
      BY DEF Sessions, NoSession
    <3>2. CASE io' = io
      BY <3>2 DEF TypeOK
    <3>3. CASE io' = [at |-> "gone", of |-> s, flip |-> TRUE]
      BY <3>1, <3>3
    <3> QED BY <2>3, <3>2, <3>3
  <2>6. UNCHANGED <<main, flip, stored, shown, announce, target, out, writing, heard, early,
                    inputs, offered>>
    BY <2>4 DEF qtVars, outVars, bounds
  <2> QED BY <2>2, <2>3, <2>4, <2>5, <2>6 DEF TypeOK
<1>3. ASSUME NEW s \in Sessions, ReadHello(s) PROVE TypeOK'
  <2>1. s # NoSession
    BY DEF Sessions, NoSession
  <2>2. inputs' \in Nat /\ UNCHANGED offered
    BY <1>3 DEF TypeOK, ReadHello
  <2> QED BY <1>3, <2>1, <2>2 DEF TypeOK, ReadHello, Busy, OnDeviceConnected, qtVars,
             outVars, NoSession
<1>4. CASE WelcomeFlip
  <2>1. io' \in [at : {"idle", "gone", "flip", "welcome"}, of : Sessions \cup {NoSession},
                flip : BOOLEAN]
    BY <1>4 DEF TypeOK, WelcomeFlip, Busy
  <2> QED BY <1>4, <2>1 DEF TypeOK, WelcomeFlip, Busy, qtVars, linkVars, outVars, bounds
<1>5. CASE WelcomeSend
  <2>1. io.of \in Sessions /\ <<"welcome", io.flip>> \in Messages
    BY <1>5 DEF TypeOK, WelcomeSend, NoSession, Messages, Kinds
  <2>2. tasks' \in Seq(Targets \X Messages)
    BY <1>5, <2>1, AppendTask DEF WelcomeSend, Targets
  <2> QED BY <1>5, <2>2 DEF TypeOK, WelcomeSend, Busy, qtVars, linkVars, outVars, bounds,
             Targets
<1>6. ASSUME NEW s \in Sessions, ReadPing(s) PROVE TypeOK'
  <2>1. tasks' \in Seq(Targets \X Messages)
    BY <1>6, AppendTask DEF ReadPing, Targets, Messages, Kinds, Plain
  <2> QED BY <1>6, <2>1 DEF TypeOK, ReadPing, qtVars, linkVars, outVars, Targets
<1>7. ASSUME NEW s \in Sessions, NEW f \in BOOLEAN, ReadSetFlip(s, f) PROVE TypeOK'
  <2>1. events' \in Seq(BOOLEAN)
    BY <1>0, <1>7, AppendProperties DEF ReadSetFlip
  <2> QED BY <1>7, <2>1 DEF TypeOK, ReadSetFlip, qtVars, linkVars, outVars
<1>8. CASE RunSend
  <2>1. /\ Head(tasks) \in Targets \X Messages /\ Head(tasks)[1] \in Sessions
        /\ Tail(tasks) \in Seq(Targets \X Messages)
    BY <1>0, <1>8, HeadTailProperties DEF RunSend, Targets
  <2> DEFINE s == Head(tasks)[1]  m == Head(tasks)[2]
  <2>2. Append(out[s], m) \in Seq(Messages)
    BY <2>1, AppendProperties DEF TypeOK
  <2>3. Send(s, m) /\ s \in Sessions
    BY <1>8, <2>1 DEF RunSend
  <2> HIDE DEF s, m
  <2>4. /\ out' \in [Sessions -> Seq(Messages)]
        /\ writing' \in [Sessions -> Nat] /\ early' \subseteq Sessions
        /\ UNCHANGED heard
    <3>1. out' = [out EXCEPT ![s] = Append(out[s], m)] /\ UNCHANGED heard
      BY <2>3 DEF Send
    <3>2. out' \in [Sessions -> Seq(Messages)]
      BY <2>2, <2>3, <3>1 DEF TypeOK
    <3>3. writing' = writing \/ writing' = [writing EXCEPT ![s] = writing[s] + 1]
      BY <2>3 DEF Send, StartWrite
    <3>4. writing[s] + 1 \in Nat /\ writing \in [Sessions -> Nat]
      BY <2>3 DEF TypeOK
    <3>5. early' \subseteq Sessions
      BY <2>3 DEF Send, StartWrite, TypeOK
    <3> QED BY <3>1, <3>2, <3>3, <3>4, <3>5
  <2>5. /\ tasks' \in Seq(Targets \X Messages)
        /\ UNCHANGED <<qtVars, events, linkVars, io, bounds>>
    BY <1>8, <2>1 DEF RunSend
  <2> QED BY <2>4, <2>5 DEF TypeOK, qtVars, linkVars, bounds, Targets
<1>9. CASE RunBroadcast
  <2>1. PICK r \in Seq(Targets \X Messages) :
          tasks' = Tail(tasks) \o r /\ Tail(tasks) \in Seq(Targets \X Messages)
    BY <1>9, BroadcastType
  <2>2. tasks' \in Seq(Targets \X Messages)
    BY <2>1, ConcatProperties
  <2> QED BY <1>9, <2>2 DEF TypeOK, RunBroadcast, qtVars, linkVars, outVars, bounds,
             Targets
<1>10. ASSUME NEW s \in Sessions, WriteDone(s), out[s] # <<>> PROVE TypeOK'
  <2>1. /\ Head(out[s]) \in Messages /\ Tail(out[s]) \in Seq(Messages)
        /\ heard[s] \in [kinds : SUBSET Kinds, flip : Seq(BOOLEAN)]
    BY <1>10, HeadTailProperties DEF TypeOK
  <2>2. PICK m \in {Head(out[s]), Plain("garbage")} :
          heard' = IF conn[s] = "open" THEN [heard EXCEPT ![s] = Hear(@, m)] ELSE heard
    BY <1>10 DEF WriteDone
  <2>3. m \in Messages
    <3>1. Plain("garbage") \in Messages
      BY DEF Messages, Kinds, Plain
    <3> QED BY <2>1, <2>2, <3>1
  <2>4. Hear(heard[s], m) \in [kinds : SUBSET Kinds, flip : Seq(BOOLEAN)]
    <3>1. m[1] \in Kinds /\ <<m[2]>> \in Seq(BOOLEAN)
      BY <2>3 DEF Messages
    <3> QED BY <2>1, <3>1 DEF Hear
  <2>5. heard' \in [Sessions -> [kinds : SUBSET Kinds, flip : Seq(BOOLEAN)]]
    BY <2>2, <2>4 DEF TypeOK
  <2>6. /\ out' \in [Sessions -> Seq(Messages)] /\ writing' \in [Sessions -> Nat]
        /\ UNCHANGED <<qtVars, events, linkVars, io, tasks, early, bounds>>
    <3>1. writing[s] - 1 \in Nat
      BY <1>10 DEF WriteDone, TypeOK
    <3> QED BY <1>10, <2>1, <3>1 DEF WriteDone, TypeOK
  <2> QED BY <2>5, <2>6 DEF TypeOK, qtVars, linkVars, bounds
<1>11. ASSUME NEW s \in Sessions, WriteFails(s) PROVE TypeOK'
  <2>1. /\ conn' \in [Sessions -> {"none", "handshake", "open", "broken", "failed", "lost"}]
        /\ UNCHANGED <<qtVars, events, next, sessions, greeted, current, begun, io, tasks,
                       out, heard, early, bounds>>
    BY <1>0, <1>11 DEF WriteFails, SetConn
  <2>2. writing' \in [Sessions -> Nat]
    <3>1. writing[s] - 1 \in Nat
      BY <1>11 DEF WriteFails, TypeOK
    <3> QED BY <1>11, <3>1 DEF WriteFails, TypeOK
  <2> QED BY <2>1, <2>2 DEF TypeOK, qtVars, bounds
<1>12. CASE Boot \/ StopServer \/ JoinIo \/ StopEnds
  BY <1>12 DEF TypeOK, Boot, CreateStream, CreateDecoder, FlipDecoder, CreateManager,
     CreateTray, StopServer, JoinIo, StopEnds, Goto, qtVars, linkVars, outVars, bounds
<1>13. CASE ToggleFlip \/ OnSetFlip
  <2>1. PICK f \in BOOLEAN : SetFlip(f)
    <3>1. CASE ToggleFlip
      <4>1. (~shown) \in BOOLEAN
        OBVIOUS
      <4> QED BY <3>1, <4>1 DEF ToggleFlip
    <3>2. CASE OnSetFlip
      <4>1. Head(events) \in BOOLEAN
        BY <1>0, <3>2, HeadTailProperties DEF OnSetFlip
      <4> QED BY <3>2, <4>1 DEF OnSetFlip
    <3> QED BY <1>13, <3>1, <3>2
  <2>2. events' \in Seq(BOOLEAN)
    BY <1>0, <1>13, HeadTailProperties DEF ToggleFlip, OnSetFlip
  <2>5. inputs' \in Nat
    BY <1>13 DEF ToggleFlip, OnSetFlip, bounds, TypeOK
  <2>3. /\ flip' \in BOOLEAN /\ stored' \in BOOLEAN /\ shown' \in BOOLEAN
        /\ announce' \in Seq(BOOLEAN)
    BY <2>1 DEF SetFlip
  <2>4. UNCHANGED <<main, target, linkVars, io, tasks, outVars, offered>>
    BY <1>13 DEF ToggleFlip, OnSetFlip, bounds
  <2> QED BY <2>2, <2>3, <2>4, <2>5 DEF TypeOK, linkVars, outVars
<1>14. CASE BroadcastFlip
  <2>1. announce[1] \in BOOLEAN
    BY <1>0, <1>14, HeadTailProperties DEF BroadcastFlip, Quiet
  <2>2. <<"flip", announce[1]>> \in Messages /\ All \in Targets
    BY <2>1 DEF Messages, Kinds, Targets
  <2>3. tasks' \in Seq(Targets \X Messages)
    BY <1>14, <2>2, AppendTask DEF BroadcastFlip
  <2> QED BY <1>14, <2>3, EmptySeq DEF TypeOK, BroadcastFlip, Quiet, linkVars, outVars, bounds,
             Targets
<1>15. CASE SendFiles
  BY <1>15 DEF TypeOK, SendFiles, Goto, linkVars, outVars
<1>16. CASE SendTo
  <2>1. tasks' \in Seq(Targets \X Messages)
    BY <1>0, <1>16, AppendTask DEF SendTo, Messages, Kinds, Plain, Targets, TypeOK
  <2> QED BY <1>16, <2>1 DEF TypeOK, SendTo, Goto, linkVars, outVars, bounds, Targets
<1>17. CASE UNCHANGED vars
  BY <1>17 DEF TypeOK, vars, qtVars, linkVars, outVars, bounds
<1>18. ASSUME NEW s \in Sessions, WriteDone(s) PROVE TypeOK'
  BY <1>10, <1>18 DEF Written, WriteDone
<1>23. CASE OnDeviceDisconnected
  <2>1. io' = [at |-> "idle", of |-> NoSession, flip |-> TRUE]
    BY <1>23 DEF OnDeviceDisconnected, Busy
  <2> QED BY <1>23, <2>1 DEF TypeOK, OnDeviceDisconnected, qtVars, outVars, bounds
<1>19. CASE IoOwn
  BY <1>4, <1>5, <1>8, <1>9, <1>19, <1>23 DEF IoOwn
<1>20. CASE QtOwn
  BY <1>2, <1>12, <1>13, <1>14, <1>16, <1>20 DEF QtOwn
<1>21. CASE User
  BY <1>12, <1>13, <1>15, <1>21 DEF User
<1>22. ASSUME NEW s \in Sessions, Handler(s) \/ Phone(s) \/ WriteDone(s) \/ CloseOpen(s)
      PROVE  TypeOK'
  BY <1>2, <1>3, <1>6, <1>7, <1>11, <1>18, <1>22 DEF Handler, Phone
<1> QED
  BY <1>1, <1>17, <1>19, <1>20, <1>21, <1>22 DEF Next

-----------------------------------------------------------------------------
(* What is known of a session, wherever its id is held.                      *)

Known(s) == s < next
Linked ==
    /\ \A s \in Sessions : conn[s] = "none" <=> ~Known(s)
    /\ Known(io.of) /\ Known(target)
    /\ \A i \in 1..Len(tasks) : Known(tasks[i][1])
    /\ \A s \in sessions : Known(s)

\* A session that was not written to too early writes whenever it has something
\* to write, from the end of its handshake on.
Writes ==
    \A s \in Sessions :
        /\ writing[s] <= 1
        /\ writing[s] = 1 => out[s] # <<>>
        /\ conn[s] \in {"none", "handshake"} /\ s \notin early => out[s] = <<>>
        /\ conn[s] = "open" /\ s \notin early /\ out[s] # <<>> => writing[s] = 1

\* A session that may still be greeted is known; only a manager has a current one.
Greets ==
    /\ Serving => \A s \in Sessions :
          conn[s] \in {"handshake", "open", "broken"} => s \in sessions
    /\ main \in {"server", "stream", "decoder", "manager"} => current = NoSession

Safe == TypeOK /\ Linked /\ Writes /\ Greets /\ CurrentGreeted

LEMMA WritesWritten == TypeOK /\ Writes => Written /\ OneWrite
<1> SUFFICES ASSUME TypeOK, Writes, NEW s \in Sessions
             PROVE  /\ writing[s] > 0 => out[s] # <<>>
                    /\ writing[s] <= 1
                    /\ conn[s] = "open" /\ s \notin early =>
                          (writing[s] = 1 <=> out[s] # <<>>)
  BY DEF Written, OneWrite
<1>1. writing[s] \in Nat
  BY DEF TypeOK
<1> QED BY <1>1 DEF Writes

LEMMA InitSafe == Init => Safe
<1> SUFFICES ASSUME Init PROVE Safe
  OBVIOUS
<1> USE ControlAssumption DEF Init, NoSession
<1>1. TypeOK
  BY InitType
<1>2. Linked
  BY EmptySeq DEF Linked, Known, Sessions
<1> QED BY <1>1, <1>2 DEF Safe, Writes, Greets, CurrentGreeted, Serving

LEMMA StepLinked ==
  TypeOK /\ Linked /\ CurrentGreeted /\ TypeOK' /\ [Next]_vars => Linked'
<1> SUFFICES ASSUME TypeOK, Linked, CurrentGreeted, TypeOK', [Next]_vars PROVE Linked'
  OBVIOUS
<1> USE ControlAssumption
<1>0. /\ next \in Nat /\ next' \in Nat /\ Targets \subseteq Nat /\ Sessions \subseteq Nat
      /\ conn \in [Sessions -> {"none", "handshake", "open", "broken", "failed", "lost"}]
      /\ tasks \in Seq(Targets \X Messages) /\ Known(NoSession) /\ Known(All)
      /\ io.of \in Nat /\ target \in Nat
  <2>1. next \in Nat /\ next > 0 /\ next' \in Nat
    BY DEF TypeOK
  <2>2. Sessions \subseteq Nat /\ Targets \subseteq Nat
    BY DEF Sessions, Targets, All
  <2>3. /\ tasks \in Seq(Targets \X Messages) /\ io.of \in Targets /\ target \in Targets
        /\ conn \in [Sessions -> {"none", "handshake", "open", "broken", "failed", "lost"}]
    BY DEF TypeOK, Targets, All, NoSession
  <2> QED BY <2>1, <2>2, <2>3 DEF Known, NoSession, All
<1>1. CASE Accept
  <2>1. next \in Sessions
    BY <1>0, <1>1 DEF Accept, Sessions, TypeOK
  <2>2. \A s \in Nat : s < next' <=> s < next \/ s = next
    BY <1>0, <1>1 DEF Accept
  <2>3. \A i \in 1..Len(tasks) : tasks[i][1] \in Nat
    <3>1. ASSUME NEW i \in 1..Len(tasks) PROVE tasks[i] \in Targets \X Messages
      BY <1>0, <3>1, ElementOfSeq
    <3> QED BY <1>0, <3>1
  <2>4. UNCHANGED <<io, tasks, target>>
    BY <1>1 DEF Accept, qtVars
  <2>5. \A s \in Sessions : conn'[s] = "none" <=> ~(s < next')
    BY <1>0, <1>1, <2>1, <2>2 DEF Accept, Linked, Known
  <2>6. \A s \in sessions' : s < next'
    BY <1>0, <1>1, <2>1, <2>2 DEF Accept, Linked, Known, TypeOK
  <2> QED BY <1>0, <2>2, <2>3, <2>4, <2>5, <2>6 DEF Linked, Known
<1>2. ASSUME NEW s \in Sessions,
             Handshake(s) \/ PhoneLeaves(s) \/ ReadError(s) \/ WriteFails(s)
             \/ CloseOpen(s) \/ CloseOther(s)
      PROVE  Linked'
  <2>1. conn' = conn \/ (Known(s) /\ \E l \in {"open", "failed", "broken", "lost"} :
                            conn' = [conn EXCEPT ![s] = l])
    BY <1>2 DEF Handshake, PhoneLeaves, ReadError, WriteFails, CloseOpen, CloseOther, Close,
       SetConn, Linked
  <2>2. /\ sessions' \subseteq sessions /\ UNCHANGED <<next, tasks, target>>
        /\ io' = io \/ (io'.of = s /\ conn[s] = "broken")
    BY <1>2 DEF Handshake, PhoneLeaves, ReadError, WriteFails, CloseOpen, CloseOther, Close,
       SetConn, Busy, qtVars
  <2> QED BY <1>0, <2>1, <2>2 DEF Linked, Known
<1>3. ASSUME NEW s \in Sessions, conn[s] = "open",
             UNCHANGED <<next, conn, sessions, target>>,
             io' = io \/ io'.of = s,
             tasks' = tasks \/ \E m \in Messages : Post(s, m)
      PROVE  Linked'
  <2>1. Known(s)
    BY <1>3 DEF Linked
  <2>2. \A i \in 1..Len(tasks') : Known(tasks'[i][1])
    BY <1>0, <1>3, <2>1, AppendProperties DEF Linked, Post
  <2> QED BY <1>3, <2>1, <2>2 DEF Linked, Known
<1>4. ASSUME NEW t \in Targets, Known(t), NEW m \in Messages, Post(t, m),
             UNCHANGED <<next, conn, sessions>>,
             io'.of \in {io.of, NoSession}, target' \in {target, NoSession}
      PROVE  Linked'
  <2>1. \A i \in 1..Len(tasks') : Known(tasks'[i][1])
    BY <1>0, <1>4, AppendProperties DEF Linked, Post
  <2> QED BY <1>0, <1>4, <2>1 DEF Linked, Known
<1>5. ASSUME UNCHANGED <<next, conn, sessions, tasks>>,
             io'.of \in {io.of, NoSession},
             target' \in {target, NoSession, io.of} \cup sessions
      PROVE  Linked'
  BY <1>0, <1>5 DEF Linked, Known
<1>6. CASE IoOwn
  <2>1. CASE WelcomeFlip
    <3>1. io'.of = io.of
      BY <2>1 DEF WelcomeFlip, Busy
    <3> QED BY <1>5, <2>1, <3>1 DEF WelcomeFlip, linkVars, qtVars
  <2>2. CASE WelcomeSend
    <3>1. io.of \in Targets /\ Known(io.of) /\ <<"welcome", io.flip>> \in Messages
      BY <2>2 DEF TypeOK, Targets, All, NoSession, Linked, Messages, Kinds
    <3> QED BY <1>4, <2>2, <3>1 DEF WelcomeSend, Busy, linkVars, qtVars
  <2>3. CASE RunSend
    <3>1. \A i \in 1..Len(tasks') : Known(tasks'[i][1])
      <4>1. tasks # <<>> /\ tasks' = Tail(tasks)
        BY <2>3 DEF RunSend
      <4>2. ASSUME NEW i \in 1..Len(tasks')
            PROVE  i + 1 \in 1..Len(tasks) /\ tasks'[i] = tasks[i + 1]
        BY <1>0, <4>1, <4>2, HeadTailProperties
      <4> QED BY <4>2 DEF Linked, Known, RunSend, linkVars
    <3> QED BY <2>3, <3>1 DEF RunSend, Linked, Known, linkVars, qtVars
  <2>4. CASE RunBroadcast
    <3>1. UNCHANGED <<next, conn, sessions, io, target>>
      BY <2>4 DEF RunBroadcast, linkVars, qtVars
    <3>2. PICK r \in Seq(Targets \X Messages) :
            /\ tasks' = Tail(tasks) \o r /\ tasks # <<>>
            /\ Tail(tasks) \in Seq(Targets \X Messages)
            /\ \A i \in 1..Len(r) : r[i][1] \in sessions
      BY <2>4, BroadcastType
    <3>3. ASSUME NEW i \in 1..Len(tasks') PROVE Known(tasks'[i][1])
      <4>1. CASE i <= Len(Tail(tasks))
        <5>1. /\ i + 1 \in 1..Len(tasks) /\ Tail(tasks)[i] = tasks[i + 1]
              /\ tasks'[i] = Tail(tasks)[i]
          BY <1>0, <3>2, <4>1, HeadTailProperties, ConcatProperties
        <5> QED BY <5>1 DEF Linked
      <4>2. CASE i > Len(Tail(tasks))
        <5>1. /\ i - Len(Tail(tasks)) \in 1..Len(r)
              /\ tasks'[i] = r[i - Len(Tail(tasks))]
          BY <3>2, <4>2, ConcatProperties
        <5> QED BY <3>2, <5>1 DEF Linked
      <4> QED BY <3>2, <4>1, <4>2
    <3> QED BY <3>1, <3>3 DEF Linked, Known
  <2>5. CASE OnDeviceDisconnected
    <3>1. io'.of = NoSession
      BY <2>5 DEF OnDeviceDisconnected, Busy
    <3> QED BY <1>5, <2>5, <3>1 DEF OnDeviceDisconnected, qtVars
  <2> QED BY <1>6, <2>1, <2>2, <2>3, <2>4, <2>5 DEF IoOwn
<1>7. CASE QtOwn \/ User
  <2>1. CASE Boot \/ StopServer \/ JoinIo \/ StopEnds \/ ToggleFlip \/ OnSetFlip
    <3>1. UNCHANGED <<next, conn, sessions, tasks, io, target>>
      BY <2>1 DEF Boot, CreateStream, CreateDecoder, FlipDecoder, CreateManager,
         CreateTray, StopServer, JoinIo, StopEnds, ToggleFlip, OnSetFlip, linkVars
    <3> QED BY <1>5, <3>1
  <2>2. CASE BroadcastFlip
    <3>1. announce[1] \in BOOLEAN
      <4>1. announce \in Seq(BOOLEAN) /\ announce # <<>>
        BY <2>2 DEF BroadcastFlip, Quiet, TypeOK
      <4> QED BY <4>1
    <3>2. <<"flip", announce[1]>> \in Messages
      BY <3>1 DEF Messages, Kinds
    <3> QED BY <1>0, <1>4, <2>2, <3>2 DEF BroadcastFlip, Targets, linkVars
  <2>3. CASE SendFiles
    <3>1. current \in sessions \cup {io.of}
      BY <2>3 DEF SendFiles, Idle, Serving, CurrentGreeted
    <3> QED BY <1>5, <2>3, <3>1 DEF SendFiles, linkVars
  <2>4. CASE SendTo
    <3>1. Plain("offer") \in Messages /\ target \in Targets /\ Known(target)
      BY DEF Messages, Kinds, Plain, TypeOK, Targets, Linked, All, NoSession
    <3> QED BY <1>4, <1>5, <2>4, <3>1 DEF SendTo, linkVars
  <2> QED BY <1>2, <1>7, <2>1, <2>2, <2>3, <2>4 DEF QtOwn, User
<1>8. CASE UNCHANGED vars
  BY <1>5, <1>8 DEF vars, qtVars, linkVars
<1>9. ASSUME NEW s \in Sessions, Phone(s) PROVE Linked'
  <2>1. CASE PhoneLeaves(s)
    BY <1>2, <2>1
  <2>2. CASE ReadHello(s)
    <3>1. io'.of = s
      BY <2>2 DEF ReadHello, Busy
    <3> QED BY <1>3, <2>2, <3>1 DEF ReadHello, qtVars
  <2>3. CASE ReadPing(s)
    <3>1. Plain("pong") \in Messages
      BY DEF Messages, Kinds, Plain
    <3> QED BY <1>3, <2>3, <3>1 DEF ReadPing, linkVars, qtVars
  <2>4. CASE \E f \in BOOLEAN : ReadSetFlip(s, f)
    BY <1>3, <2>4 DEF ReadSetFlip, linkVars, qtVars
  <2> QED BY <1>9, <2>1, <2>2, <2>3, <2>4 DEF Phone
<1>10. ASSUME NEW s \in Sessions, WriteDone(s) PROVE Linked'
  BY <1>5, <1>10 DEF WriteDone, linkVars, qtVars
<1> QED
  BY <1>1, <1>2, <1>6, <1>7, <1>8, <1>9, <1>10 DEF Next, Handler

LEMMA StepWrites == TypeOK /\ Linked /\ Writes /\ [Next]_vars => Writes'
<1> SUFFICES ASSUME TypeOK, Linked, Writes, [Next]_vars PROVE Writes'
  OBVIOUS
<1> USE ControlAssumption
<1>0. /\ conn \in [Sessions -> {"none", "handshake", "open", "broken", "failed", "lost"}]
      /\ writing \in [Sessions -> Nat] /\ out \in [Sessions -> Seq(Messages)]
      /\ early \subseteq Sessions
  BY DEF TypeOK
<1>1. ASSUME UNCHANGED <<conn, out, writing, early>> PROVE Writes'
  BY <1>1 DEF Writes
<1>2. ASSUME NEW s \in Sessions, NEW l \in {"handshake", "open", "failed", "broken", "lost"},
             conn' = [conn EXCEPT ![s] = l], UNCHANGED <<out, writing, early>>,
             l = "handshake" => conn[s] = "none", l = "open" => conn[s] = "handshake"
      PROVE  Writes'
  BY <1>0, <1>2 DEF Writes
<1>3. CASE Accept
  <2>1. next \in Sessions
    BY <1>3 DEF Accept, TypeOK, Sessions
  <2>2. conn[next] = "none"
    BY <2>1 DEF Linked, Known, Sessions
  <2> QED BY <1>2, <1>3, <2>1, <2>2 DEF Accept, outVars
<1>4. ASSUME NEW s \in Sessions, Handler(s) \/ Phone(s) \/ CloseOpen(s) \/ CloseOther(s)
      PROVE  Writes'
  <2>1. CASE Handshake(s) \/ PhoneLeaves(s) \/ ReadError(s) \/ CloseOpen(s) \/ CloseOther(s)
    BY <1>2, <2>1 DEF Handshake, PhoneLeaves, ReadError, CloseOpen, CloseOther, Close, SetConn,
       outVars
  <2>2. CASE WriteFails(s)
    <3>1. /\ writing' = [writing EXCEPT ![s] = writing[s] - 1] /\ writing[s] > 0
          /\ UNCHANGED <<out, early>>
          /\ \/ conn[s] # "open" /\ UNCHANGED conn
             \/ conn' = [conn EXCEPT ![s] = "failed"]
      BY <2>2 DEF WriteFails, SetConn
    <3>2. writing[s] = 1
      BY <1>0, <3>1 DEF Writes
    <3> QED BY <1>0, <3>1, <3>2 DEF Writes
  <2>3. CASE ReadHello(s) \/ ReadPing(s) \/ \E f \in BOOLEAN : ReadSetFlip(s, f)
    BY <1>1, <2>3 DEF ReadHello, ReadPing, ReadSetFlip, linkVars, outVars
  <2> QED BY <1>4, <2>1, <2>2, <2>3 DEF Handler, Phone
<1>5. CASE RunSend
  <2> DEFINE s == Head(tasks)[1]  m == Head(tasks)[2]
  <2>1. Send(s, m) /\ s \in Sessions /\ Known(s) /\ m \in Messages /\ UNCHANGED conn
    <3>1. tasks # <<>> /\ tasks \in Seq(Targets \X Messages) /\ s # All
      BY <1>5 DEF RunSend, TypeOK, Targets
    <3>2. Head(tasks) = tasks[1] /\ 1 \in 1..Len(tasks) /\ Head(tasks) \in Targets \X Messages
      BY <3>1, HeadTailProperties
    <3> QED BY <1>5, <3>1, <3>2 DEF RunSend, Linked, Targets, linkVars
  <2> HIDE DEF s, m
  <2>2. /\ out' = [out EXCEPT ![s] = Append(out[s], m)] /\ out'[s] # <<>>
        /\ conn[s] # "none"
    BY <1>0, <2>1, AppendProperties DEF Send, Linked
  <2>3. CASE out[s] = <<>>
    <3>1. /\ writing' = [writing EXCEPT ![s] = writing[s] + 1]
          /\ early' = IF conn[s] \in {"handshake", "failed"} THEN early \cup {s} ELSE early
      BY <2>1, <2>3 DEF Send, StartWrite
    <3>2. writing[s] = 0
      BY <1>0, <2>1, <2>3 DEF Writes
    <3> QED BY <1>0, <2>1, <2>2, <3>1, <3>2 DEF Writes
  <2>4. CASE out[s] # <<>>
    <3>1. UNCHANGED <<writing, early>>
      BY <2>1, <2>4 DEF Send
    <3> QED BY <1>0, <2>1, <2>2, <2>4, <3>1 DEF Writes
  <2> QED BY <2>3, <2>4
<1>6. ASSUME NEW s \in Sessions, WriteDone(s) PROVE Writes'
  <2>1. /\ writing[s] = 1 /\ out[s] # <<>> /\ conn[s] \in {"open", "broken"}
        /\ out' = [out EXCEPT ![s] = Tail(out[s])] /\ UNCHANGED <<conn, early>>
        /\ writing' = IF Len(out[s]) > 1 THEN writing
                      ELSE [writing EXCEPT ![s] = writing[s] - 1]
    BY <1>0, <1>6 DEF WriteDone, Writes, linkVars
  <2>2. Tail(out[s]) # <<>> <=> Len(out[s]) > 1
    BY <1>0, <2>1, HeadTailProperties
  <2> QED BY <1>0, <2>1, <2>2 DEF Writes
<1>7. CASE OnDeviceDisconnected \/ WelcomeFlip \/ WelcomeSend \/ RunBroadcast \/ User
  BY <1>1, <1>7
     DEF OnDeviceDisconnected, WelcomeFlip, WelcomeSend, RunBroadcast, User, ToggleFlip, SendFiles,
     StopServer, linkVars, outVars
<1>8. CASE Boot \/ OnSetFlip \/ BroadcastFlip \/ SendTo \/ JoinIo \/ StopEnds
  BY <1>1, <1>8 DEF Boot, CreateStream, CreateDecoder, FlipDecoder, CreateManager,
     CreateTray, OnSetFlip, BroadcastFlip, SendTo, JoinIo, StopEnds, linkVars, outVars
<1>9. CASE UNCHANGED vars
  BY <1>1, <1>9 DEF vars, linkVars, outVars
<1> QED
  BY <1>3, <1>4, <1>5, <1>6, <1>7, <1>8, <1>9 DEF Next, IoOwn, QtOwn

LEMMA StepGreets ==
  TypeOK /\ Linked /\ Greets /\ CurrentGreeted /\ [Next]_vars => Greets' /\ CurrentGreeted'
<1> SUFFICES ASSUME TypeOK, Linked, Greets, CurrentGreeted, [Next]_vars
             PROVE  Greets' /\ CurrentGreeted'
  OBVIOUS
<1> USE ControlAssumption DEF Greets, CurrentGreeted, Serving
<1>0. /\ conn \in [Sessions -> {"none", "handshake", "open", "broken", "failed", "lost"}]
      /\ sessions \subseteq Sessions /\ greeted \subseteq Sessions
  BY DEF TypeOK
<1>1. ASSUME UNCHANGED <<conn, sessions, greeted, current>>,
             io.at = "gone" => io' = io,
             Serving' => Serving,
             main' \in {"server", "stream", "decoder", "manager"} =>
                main \in {"server", "stream", "decoder", "manager"}
      PROVE  Greets' /\ CurrentGreeted'
  BY <1>1
<1>2. CASE Accept
  <2>1. next \in Sessions
    BY <1>2 DEF Accept, TypeOK, Sessions
  <2> QED BY <1>0, <1>2, <2>1 DEF Accept, qtVars
<1>3. ASSUME NEW s \in Sessions, Handler(s) \/ PhoneLeaves(s) \/ CloseOpen(s) \/ CloseOther(s)
      PROVE  Greets' /\ CurrentGreeted'
  <2>1. CASE Handshake(s) \/ PhoneLeaves(s) \/ WriteFails(s)
    <3>1. /\ UNCHANGED <<main, sessions, greeted, current, io>>
          /\ UNCHANGED conn \/ (conn[s] \in {"handshake", "open"}
                /\ \E l \in {"open", "failed", "broken"} : conn' = [conn EXCEPT ![s] = l])
      BY <2>1 DEF Handshake, PhoneLeaves, WriteFails, SetConn, qtVars
    <3> QED BY <1>0, <3>1
  <2>2. CASE ReadError(s)
    <3>1. /\ UNCHANGED <<main, greeted, current>> /\ sessions' = sessions \ {s}
          /\ conn' = [conn EXCEPT ![s] = "lost"]
          /\ io.at = "idle" /\ io'.at = "gone" /\ io'.of = s
      BY <2>2 DEF ReadError, SetConn, IoFree, Busy, qtVars
    <3> QED BY <1>0, <3>1
  <2>3. CASE CloseOpen(s) \/ CloseOther(s)
    <3>1. main = "closing" /\ main' = main
      BY <2>3 DEF CloseOpen, CloseOther, Close, qtVars
    <3> QED BY <3>1
  <2> QED BY <1>3, <2>1, <2>2, <2>3 DEF Handler
<1>4. ASSUME NEW s \in Sessions, ReadHello(s) PROVE Greets' /\ CurrentGreeted'
  BY <1>0, <1>4 DEF ReadHello, OnDeviceConnected, Managed, IoFree, qtVars
<1>5. ASSUME NEW s \in Sessions,
             ReadPing(s) \/ (\E f \in BOOLEAN : ReadSetFlip(s, f)) \/ WriteDone(s)
      PROVE  Greets' /\ CurrentGreeted'
  BY <1>1, <1>5 DEF ReadPing, ReadSetFlip, WriteDone, linkVars, qtVars
<1>6. CASE IoOwn
  <2>1. CASE WelcomeFlip \/ WelcomeSend \/ RunSend \/ RunBroadcast
    <3>1. UNCHANGED <<main, conn, sessions, greeted, current>>
      BY <2>1 DEF WelcomeFlip, WelcomeSend, RunSend, RunBroadcast, linkVars, qtVars
    <3>2. io.at # "gone"
      BY <2>1 DEF WelcomeFlip, WelcomeSend, RunSend, RunBroadcast, IoFree
    <3> QED BY <1>1, <3>1, <3>2
  <2>2. CASE OnDeviceDisconnected
    <3>1. /\ UNCHANGED <<main, conn, sessions, greeted>> /\ io.at = "gone"
          /\ current' = IF Managed /\ current = io.of THEN NoSession ELSE current
      BY <2>2 DEF OnDeviceDisconnected, qtVars
    <3>2. ~Managed /\ Serving => current = NoSession
      BY DEF Managed, TypeOK
    <3> QED BY <1>0, <3>1, <3>2
  <2> QED BY <1>6, <2>1, <2>2 DEF IoOwn
<1>7. CASE Boot
  <2>1. UNCHANGED <<conn, sessions, greeted, current, io>>
    BY <1>7 DEF Boot, CreateStream, CreateDecoder, FlipDecoder, CreateManager, CreateTray,
       linkVars
  <2>2. \/ main = "server" /\ main' = "stream"
        \/ main = "stream" /\ main' = "decoder"
        \/ main = "decoder" /\ main' = "manager"
        \/ main = "manager" /\ main' = "tray"
        \/ main = "tray" /\ main' = "events"
    BY <1>7 DEF Boot, CreateStream, CreateDecoder, FlipDecoder, CreateManager, CreateTray, Goto
  <2> QED BY <1>1, <2>1, <2>2
<1>8. CASE OnSetFlip \/ BroadcastFlip \/ SendTo \/ JoinIo \/ StopEnds \/ User
  <2>1. UNCHANGED <<conn, sessions, greeted, current, io>>
    BY <1>8 DEF OnSetFlip, BroadcastFlip, SendTo, JoinIo, StopEnds, User, ToggleFlip,
       SendFiles, StopServer, linkVars
  <2>2. \/ main' \in {"closing", "ended"}
        \/ main \in {"events", "sending"} /\ main' \in {"events", "sending", "stopping"}
    BY <1>8 DEF OnSetFlip, BroadcastFlip, SendTo, JoinIo, StopEnds, User, ToggleFlip,
       SendFiles, StopServer, Goto, Idle
  <2> QED BY <1>1, <2>1, <2>2
<1>9. CASE UNCHANGED vars
  BY <1>1, <1>9 DEF vars, qtVars, linkVars
<1> QED
  BY <1>2, <1>3, <1>4, <1>5, <1>6, <1>7, <1>8, <1>9 DEF Next, QtOwn, Handler, Phone

LEMMA AlwaysSafe == Spec => []Safe
<1>1. Init => Safe
  BY InitSafe
<1>2. Safe /\ [Next]_vars => Safe'
  BY WritesWritten, StepType, StepLinked, StepWrites, StepGreets DEF Safe
<1> QED BY <1>1, <1>2, PTL DEF Spec

(* Every variable of the control channel keeps its type: no handler works on a *)
(* session that is not one, and no offer is sent without a session.           *)
THEOREM TypeCorrect == Spec => []TypeOK
<1>1. Safe => TypeOK
  BY DEF Safe
<1> QED BY <1>1, AlwaysSafe, PTL

(* WsSession::send never has two writes of a phone under way, and leaves none  *)
(* of its messages lying while the phone is there.                            *)
THEOREM WritesOneByOne == Spec => []OneWrite
<1>1. Safe => OneWrite
  BY WritesWritten DEF Safe
<1> QED BY <1>1, AlwaysSafe, PTL

(* The session the manager offers files to has said hello and is still in     *)
(* m_sessions, or was removed by the handler that is about to reset it.       *)
THEOREM OffersToGreeted == Spec => []CurrentGreeted
<1>1. Safe => CurrentGreeted
  BY DEF Safe
<1> QED BY <1>1, AlwaysSafe, PTL

-----------------------------------------------------------------------------
(* The flip setting.  Of the messages on their way to a phone, any that tells  *)
(* an old value must be followed by one that tells the present one.           *)

Follows(q, old, new) ==
    \A i \in 1..Len(q) : q[i] \in old => \E j \in (i + 1)..Len(q) : q[j] \in new
Has(q, new) == \E i \in 1..Len(q) : q[i] \in new

Now == {m \in Messages : Tells(m) /\ m[2] = flip}
Old == {m \in Messages : Tells(m) /\ m[2] # flip}

Watched(s) ==
    /\ s \in greeted /\ s \notin begun /\ s \notin early
    /\ conn[s] = "open" /\ ~Damaged(s)

\* What reached the phone, what its queue holds and what is posted for it, in
\* this order, end with the present value.
Fresh(s) ==
    /\ Follows(tasks, {s} \X Old, {s} \X Now)
    /\ ~Has(tasks, {s} \X Now) =>
          /\ Follows(out[s], Old, Now)
          /\ ~Has(out[s], Now) => heard[s].flip = <<flip>>

Welcoming(s) == io.at \in {"flip", "welcome"} /\ io.of = s

\* A step that leaves the answer to a hello alone.
SameHello == io' = io \/ {io.at, io'.at} \subseteq {"idle", "gone"}

\* A broadcast that is posted outruns whatever is posted for one phone, because
\* it is taken apart at the end of the queue.
Told ==
    /\ Follows(tasks, {All} \X Old, {All} \X Now)
    /\ ~Has(tasks, {All} \X Now) =>
          \A s \in Sessions : Watched(s) =>
             IF Welcoming(s) THEN io.at = "welcome" => io.flip = flip ELSE Fresh(s)

Booting == main \in {"server", "stream", "decoder", "manager", "tray"}
Running == main \in {"events", "sending"}

Settings ==
    /\ main \in {"manager", "tray"} => flip = stored
    /\ Running => flip = stored /\ flip = shown
    /\ announce = Quiet \/ (main = "events" /\ announce = <<flip>>)
    /\ Booting => greeted \subseteq begun /\ \A i \in 1..Len(tasks) : tasks[i][1] # All
    /\ \A i \in 1..Len(tasks) : tasks[i][1] = All => tasks[i][2][1] = "flip"
    /\ \A s \in greeted : conn[s] \notin {"none", "handshake"}

FlipInv == Settings /\ (Running /\ announce = Quiet => Told)

LEMMA FollowsAppend ==
  ASSUME NEW S, NEW q \in Seq(S), NEW e \in S, NEW old, NEW new, old \cap new = {}
  PROVE  /\ Has(Append(q, e), new) <=> Has(q, new) \/ e \in new
         /\ e \in new => Follows(Append(q, e), old, new)
         /\ e \notin old /\ Follows(q, old, new) => Follows(Append(q, e), old, new)
<1> DEFINE a == Append(q, e)  n == Len(q)
<1>1. n \in Nat /\ Len(a) = n + 1 /\ a[n + 1] = e /\ \A i \in 1..n : a[i] = q[i]
  BY AppendProperties
<1> HIDE DEF a, n
<1>2. \A i \in 1..(n + 1) : i \in 1..n \/ i = n + 1
  BY <1>1
<1>3. 1..n \subseteq 1..(n + 1) /\ n + 1 \in 1..(n + 1)
  BY <1>1
<1>4. \A i \in 1..n : n + 1 \in (i + 1)..(n + 1) /\ (i + 1)..n \subseteq (i + 1)..(n + 1)
                  /\ (i + 1)..n \subseteq 1..n
  BY <1>1
<1>5. Has(a, new) <=> Has(q, new) \/ e \in new
  BY <1>1, <1>2, <1>3 DEF Has, n
<1>6. ASSUME e \in new PROVE Follows(a, old, new)
  BY <1>1, <1>2, <1>4, <1>6 DEF Follows
<1>7. ASSUME e \notin old, Follows(q, old, new) PROVE Follows(a, old, new)
  BY <1>1, <1>2, <1>4, <1>7 DEF Follows, n
<1> QED BY <1>5, <1>6, <1>7 DEF a

LEMMA FollowsTail ==
  ASSUME NEW S, NEW q \in Seq(S), q # <<>>, NEW old, NEW new, Follows(q, old, new)
  PROVE  /\ Follows(Tail(q), old, new)
         /\ Has(q, new) <=> Head(q) \in new \/ Has(Tail(q), new)
         /\ Head(q) \in old => Has(Tail(q), new)
<1> DEFINE t == Tail(q)  n == Len(t)
<1>1. n \in Nat /\ Len(q) = n + 1 /\ q[1] = Head(q) /\ \A i \in 1..n : t[i] = q[i + 1]
  BY HeadTailProperties
<1> HIDE DEF t, n
<1>2. \A i \in 1..(n + 1) : i = 1 \/ (i - 1 \in 1..n /\ t[i - 1] = q[i])
  BY <1>1
<1>3. \A i \in 1..n : i + 1 \in 1..(n + 1)
  BY <1>1
<1>4. 1 \in 1..(n + 1)
  BY <1>1
<1>5. Has(q, new) <=> Head(q) \in new \/ Has(t, new)
  BY <1>1, <1>2, <1>3, <1>4 DEF Has, n
<1>6. ASSUME NEW i \in 1..n, t[i] \in old PROVE \E j \in (i + 1)..n : t[j] \in new
  <2>1. PICK j \in (i + 1 + 1)..(n + 1) : q[j] \in new
    BY <1>1, <1>3, <1>6 DEF Follows
  <2>2. j - 1 \in (i + 1)..n /\ t[j - 1] = q[j]
    BY <1>1, <1>2, <2>1
  <2> QED BY <2>1, <2>2
<1>7. ASSUME Head(q) \in old PROVE Has(t, new)
  <2>1. PICK j \in (1 + 1)..(n + 1) : q[j] \in new
    BY <1>1, <1>4, <1>7 DEF Follows
  <2>2. j - 1 \in 1..n /\ t[j - 1] = q[j]
    BY <1>1, <2>1
  <2> QED BY <2>1, <2>2 DEF Has, n
<1> QED BY <1>5, <1>6, <1>7 DEF t, n, Follows

LEMMA FollowsConcat ==
  ASSUME NEW S, NEW q \in Seq(S), NEW r \in Seq(S), NEW old, NEW new,
         \A i \in 1..Len(r) : r[i] \notin old
  PROVE  /\ Has(q \o r, new) <=> Has(q, new) \/ Has(r, new)
         /\ Follows(q, old, new) \/ Has(r, new) => Follows(q \o r, old, new)
<1> DEFINE c == q \o r  m == Len(q)  n == Len(r)
<1>1. /\ m \in Nat /\ n \in Nat /\ Len(c) = m + n
      /\ \A i \in 1..m : c[i] = q[i]
      /\ \A i \in 1..n : c[m + i] = r[i]
  BY ConcatProperties
<1> HIDE DEF c, m, n
<1>2. \A i \in 1..(m + n) : i \in 1..m \/ (i - m \in 1..n /\ c[i] = r[i - m])
  <2> SUFFICES ASSUME NEW i \in 1..(m + n), i \notin 1..m
               PROVE  i - m \in 1..n /\ c[i] = r[i - m]
    OBVIOUS
  <2>1. i - m \in 1..n /\ m + (i - m) = i
    BY <1>1
  <2> QED BY <1>1, <2>1
<1>3. \A i \in 1..n : m + i \in 1..(m + n)
  BY <1>1
<1>4. 1..m \subseteq 1..(m + n)
  BY <1>1
<1>5. Has(c, new) <=> Has(q, new) \/ Has(r, new)
  BY <1>1, <1>2, <1>3, <1>4 DEF Has, m, n
<1>6. ASSUME Follows(q, old, new) \/ Has(r, new), NEW i \in 1..(m + n), c[i] \in old
      PROVE  \E j \in (i + 1)..(m + n) : c[j] \in new
  <2>1. i \in 1..m /\ q[i] \in old
    BY <1>1, <1>2, <1>6 DEF n
  <2>2. CASE Follows(q, old, new)
    <3>1. PICK j \in (i + 1)..m : q[j] \in new
      BY <2>1, <2>2 DEF Follows, m
    <3>2. j \in (i + 1)..(m + n) /\ j \in 1..m
      BY <1>1
    <3> QED BY <1>1, <3>1, <3>2
  <2>3. CASE Has(r, new)
    <3>1. PICK j \in 1..n : r[j] \in new
      BY <2>3 DEF Has, n
    <3>2. m + j \in (i + 1)..(m + n)
      BY <1>1, <2>1
    <3> QED BY <1>1, <3>1, <3>2
  <2> QED BY <1>6, <2>2, <2>3
<1> QED BY <1>1, <1>5, <1>6 DEF c, Follows

LEMMA InitFlip == Init => FlipInv
  BY DEF Init, FlipInv, Settings, Running, Booting, Quiet

\* A handler that posts a message for one phone posts no broadcast.
LEMMA PostOne ==
  ASSUME TypeOK, Settings, NEW s \in Sessions, NEW m \in Messages, Post(s, m)
  PROVE  /\ Booting => \A i \in 1..Len(tasks') : tasks'[i][1] # All
         /\ \A i \in 1..Len(tasks') : tasks'[i][1] = All => tasks'[i][2][1] = "flip"
<1>1. s # All /\ <<s, m>> \in Targets \X Messages /\ tasks \in Seq(Targets \X Messages)
  BY DEF TypeOK, Targets, Sessions, All
<1>2. \A i \in 1..Len(tasks') : (i \in 1..Len(tasks) /\ tasks'[i] = tasks[i]) \/ tasks'[i][1] = s
  BY <1>1, AppendProperties DEF Post
<1> QED BY <1>1, <1>2 DEF Settings

LEMMA StepSettings == TypeOK /\ Linked /\ Settings /\ [Next]_vars => Settings'
<1> SUFFICES ASSUME TypeOK, Linked, Settings, [Next]_vars PROVE Settings'
  OBVIOUS
<1> USE ControlAssumption
<1>0. /\ conn \in [Sessions -> {"none", "handshake", "open", "broken", "failed", "lost"}]
      /\ greeted \subseteq Sessions /\ tasks \in Seq(Targets \X Messages)
  BY DEF TypeOK, Targets
<1> DEFINE NoAll(q) == \A i \in 1..Len(q) : q[i][1] # All
           Flips(q) == \A i \in 1..Len(q) : q[i][1] = All => q[i][2][1] = "flip"
           Past(c) == \A s \in greeted : c[s] \notin {"none", "handshake"}
<1>1. ASSUME UNCHANGED qtVars, greeted' = greeted, begun' = begun, Past(conn'),
             Booting => NoAll(tasks'), Flips(tasks')
      PROVE  Settings'
  BY <1>1 DEF Settings, qtVars, Running, Booting
<1>2. Past(conn) /\ (Booting => NoAll(tasks)) /\ Flips(tasks)
  BY DEF Settings
<1>3. CASE Accept
  <2>1. next \in Sessions /\ conn[next] = "none"
    BY <1>3 DEF Accept, TypeOK, Sessions, Linked, Known
  <2>2. /\ UNCHANGED <<qtVars, greeted, begun, tasks>>
        /\ conn' = [conn EXCEPT ![next] = "handshake"]
    BY <1>3 DEF Accept
  <2>3. Past(conn')
    BY <1>0, <1>2, <2>1, <2>2
  <2> QED BY <1>1, <1>2, <2>2, <2>3
<1>4. ASSUME NEW s \in Sessions, Handler(s) \/ Phone(s) \/ WriteDone(s) \/ CloseOpen(s) \/ CloseOther(s)
      PROVE  Settings'
  <2>1. CASE Handshake(s) \/ PhoneLeaves(s) \/ ReadError(s) \/ WriteFails(s) \/ CloseOpen(s)
             \/ CloseOther(s)
    <3>1. /\ UNCHANGED <<qtVars, greeted, begun, tasks>>
          /\ conn' = conn \/ \E l \in {"open", "failed", "broken", "lost"} :
                                 conn' = [conn EXCEPT ![s] = l]
      BY <2>1 DEF Handshake, PhoneLeaves, ReadError, WriteFails, CloseOpen, CloseOther, Close,
         SetConn
    <3>2. Past(conn')
      BY <1>0, <1>2, <3>1
    <3> QED BY <1>1, <1>2, <3>1, <3>2
  <2>2. CASE ReadHello(s)
    <3>1. /\ UNCHANGED <<qtVars, conn, tasks>> /\ conn[s] = "open" /\ greeted' = greeted \cup {s}
          /\ begun' = IF Running THEN begun ELSE begun \cup {s}
      BY <2>2 DEF ReadHello, Running
    <3>2. Running => ~Booting
      BY DEF Running, Booting
    <3> QED BY <3>1, <3>2 DEF Settings, qtVars, Running, Booting
  <2>3. CASE ReadPing(s)
    <3>1. Plain("pong") \in Messages
      BY DEF Messages, Kinds, Plain
    <3>2. Post(s, Plain("pong")) /\ UNCHANGED <<qtVars, greeted, begun, conn>>
      BY <2>3 DEF ReadPing, linkVars
    <3> QED BY <1>1, <1>2, <3>1, <3>2, PostOne
  <2>4. CASE (\E f \in BOOLEAN : ReadSetFlip(s, f)) \/ WriteDone(s)
    <3>1. UNCHANGED <<qtVars, greeted, begun, conn, tasks>>
      BY <2>4 DEF ReadSetFlip, WriteDone, linkVars
    <3> QED BY <1>1, <1>2, <3>1
  <2> QED BY <1>4, <2>1, <2>2, <2>3, <2>4 DEF Handler, Phone
<1>5. CASE IoOwn
  <2>1. UNCHANGED <<qtVars, greeted, begun, conn>>
    BY <1>5
       DEF IoOwn, OnDeviceDisconnected, WelcomeFlip, WelcomeSend, RunSend, RunBroadcast, linkVars
  <2>2. CASE WelcomeFlip
    <3>1. UNCHANGED tasks
      BY <2>2 DEF WelcomeFlip
    <3> QED BY <1>1, <1>2, <2>1, <3>1
  <2>3. CASE WelcomeSend
    <3>1. Post(io.of, <<"welcome", io.flip>>) /\ io.of \in Sessions
          /\ <<"welcome", io.flip>> \in Messages
      BY <2>3 DEF TypeOK, WelcomeSend, NoSession, Messages, Kinds
    <3> QED BY <1>1, <1>2, <2>1, <3>1, PostOne
  <2>4. CASE RunSend
    <3>1. tasks # <<>> /\ tasks' = Tail(tasks)
      BY <2>4 DEF RunSend
    <3>2. \A i \in 1..Len(tasks') : i + 1 \in 1..Len(tasks) /\ tasks'[i] = tasks[i + 1]
      BY <1>0, <3>1, HeadTailProperties
    <3> QED BY <1>1, <1>2, <2>1, <3>2
  <2>5. CASE RunBroadcast
    <3>1. PICK r \in Seq(Targets \X Messages) :
            /\ tasks' = Tail(tasks) \o r /\ tasks # <<>>
            /\ Tail(tasks) \in Seq(Targets \X Messages) /\ Head(tasks)[1] = All
            /\ \A i \in 1..Len(r) : r[i][1] \in sessions
      BY <2>5, BroadcastType
    <3>2. \A i \in 1..Len(r) : r[i][1] # All
      BY <3>1 DEF TypeOK, Sessions, All
    <3>3. /\ Len(tasks) \in Nat /\ 1 \in 1..Len(tasks) /\ tasks[1] = Head(tasks)
          /\ \A i \in 1..Len(Tail(tasks)) :
                i + 1 \in 1..Len(tasks) /\ Tail(tasks)[i] = tasks[i + 1]
      BY <1>0, <3>1, HeadTailProperties
    <3>4. ASSUME NEW i \in 1..Len(tasks')
          PROVE  \/ \E j \in 1..Len(tasks) : tasks'[i] = tasks[j]
                 \/ tasks'[i][1] # All
      <4>1. CASE i <= Len(Tail(tasks))
        <5>1. i \in 1..Len(Tail(tasks)) /\ tasks'[i] = Tail(tasks)[i]
          BY <3>1, <4>1, ConcatProperties
        <5> QED BY <3>3, <5>1
      <4>2. CASE i > Len(Tail(tasks))
        <5>1. /\ i - Len(Tail(tasks)) \in 1..Len(r)
              /\ tasks'[i] = r[i - Len(Tail(tasks))]
          BY <3>1, <4>2, ConcatProperties
        <5> QED BY <3>2, <5>1
      <4>3. i \in Int /\ Len(Tail(tasks)) \in Nat
        BY <3>1
      <4> QED BY <4>1, <4>2, <4>3
    <3> QED BY <1>1, <1>2, <2>1, <3>4
  <2>6. CASE OnDeviceDisconnected
    <3>1. UNCHANGED tasks
      BY <2>6 DEF OnDeviceDisconnected
    <3> QED BY <1>1, <1>2, <2>1, <3>1
  <2> QED BY <1>5, <2>2, <2>3, <2>4, <2>5, <2>6 DEF IoOwn
<1>6. CASE Boot
  <2>1. UNCHANGED <<tasks, greeted, begun, conn, announce, stored>>
    BY <1>6 DEF Boot, CreateStream, CreateDecoder, FlipDecoder, CreateManager, CreateTray,
       linkVars
  <2>2. \/ main \in {"server", "stream"} /\ main' \in {"stream", "decoder"}
        \/ main = "decoder" /\ main' = "manager" /\ flip' = stored
        \/ main = "manager" /\ main' = "tray" /\ flip' = flip
        \/ main = "tray" /\ main' = "events" /\ flip' = flip /\ shown' = stored
    BY <1>6 DEF Boot, CreateStream, CreateDecoder, FlipDecoder, CreateManager, CreateTray, Goto
  <2> QED BY <2>1, <2>2 DEF Settings, Running, Booting, Quiet
<1>7. CASE ToggleFlip \/ OnSetFlip
  <2>1. UNCHANGED <<main, tasks, greeted, begun, conn>> /\ main = "events"
    BY <1>7 DEF ToggleFlip, OnSetFlip, linkVars, Idle
  <2>2. flip' = stored' /\ flip' = shown' /\ announce' = <<flip'>>
    BY <1>7 DEF ToggleFlip, OnSetFlip, SetFlip
  <2> QED BY <2>1, <2>2 DEF Settings, Running, Booting
<1>8. CASE BroadcastFlip
  <2>1. /\ UNCHANGED <<main, flip, stored, shown, greeted, begun, conn>> /\ announce' = Quiet
        /\ main = "events" /\ Post(All, <<"flip", announce[1]>>) /\ announce # Quiet
    BY <1>8 DEF BroadcastFlip, linkVars
  <2>2. <<All, <<"flip", announce[1]>>>> \in Targets \X Messages
    <3>1. announce \in Seq(BOOLEAN) /\ announce # <<>>
      BY <2>1 DEF TypeOK, Quiet
    <3>2. announce[1] \in BOOLEAN
      BY <3>1
    <3> QED BY <3>2 DEF Targets, Messages, Kinds
  <2>3. \A i \in 1..Len(tasks') : \/ i \in 1..Len(tasks) /\ tasks'[i] = tasks[i]
                                  \/ tasks'[i][2][1] = "flip"
    BY <1>0, <2>1, <2>2, AppendProperties DEF Post
  <2>4. Flips(tasks') /\ ~Booting
    BY <1>2, <2>1, <2>3 DEF Booting
  <2> QED BY <2>1, <2>4 DEF Settings, Running, Booting
<1>9. CASE SendFiles \/ StopServer \/ JoinIo \/ StopEnds
  <2>1. UNCHANGED <<flip, stored, shown, announce, tasks, greeted, begun, conn>>
    BY <1>9 DEF SendFiles, StopServer, JoinIo, StopEnds, linkVars
  <2>2. /\ main \in {"events", "sending", "stopping", "closing"} /\ announce = Quiet
        /\ \/ main = "events" /\ main' \in {"sending", "stopping"}
           \/ main' \in {"closing", "ended"}
    BY <1>9 DEF SendFiles, StopServer, JoinIo, StopEnds, Goto, Idle, Settings
  <2> QED BY <2>1, <2>2 DEF Settings, Running, Booting
<1>10. CASE SendTo
  <2>1. /\ UNCHANGED <<flip, stored, shown, announce, greeted, begun, conn>>
        /\ main = "sending" /\ main' = "events"
        /\ UNCHANGED tasks \/ Post(target, Plain("offer"))
    BY <1>10 DEF SendTo, Goto, linkVars
  <2>2. target \in Sessions /\ Plain("offer") \in Messages
    BY <2>1 DEF TypeOK, Messages, Kinds, Plain
  <2>3. Flips(tasks')
    BY <1>2, <2>1, <2>2, PostOne
  <2> QED BY <2>1, <2>3 DEF Settings, Running, Booting
<1>11. CASE UNCHANGED vars
  BY <1>1, <1>2, <1>11 DEF vars, qtVars, linkVars
<1> QED
  BY <1>3, <1>4, <1>5, <1>6, <1>7, <1>8, <1>9, <1>10, <1>11 DEF Next, QtOwn, User

\* Nothing new is on its way, and no phone needs to hear more than before.
LEMMA SameTold ==
  ASSUME Told, UNCHANGED <<tasks, out, heard, flip>>, SameHello,
         \A s \in Sessions : Watched(s)' => Watched(s)
  PROVE  Told'
<1>1. Now' = Now /\ Old' = Old
  BY DEF Now, Old
<1>2. \A s : /\ Fresh(s)' <=> Fresh(s)
             /\ Welcoming(s)' <=> Welcoming(s)
             /\ Welcoming(s) => io' = io
  BY <1>1 DEF Fresh, Welcoming, SameHello
<1> QED BY <1>1, <1>2 DEF Told

\* A message of another kind is sent to a phone.
LEMMA PlainTold ==
  ASSUME TypeOK, Told, NEW s \in Sessions, NEW m \in Messages, ~Tells(m), Post(s, m),
         UNCHANGED <<out, heard, io, flip>>,
         \A r \in Sessions : Watched(r)' => Watched(r)
  PROVE  Told'
<1>1. Now' = Now /\ Old' = Old /\ m \notin Now /\ m \notin Old /\ Old \cap Now = {}
  BY DEF Now, Old
<1>2. /\ tasks \in Seq(Targets \X Messages) /\ <<s, m>> \in Targets \X Messages
      /\ tasks' = Append(tasks, <<s, m>>)
  BY DEF TypeOK, Targets, Post
<1>3. ASSUME NEW r
      PROVE  /\ Has(tasks', {r} \X Now) <=> Has(tasks, {r} \X Now)
             /\ Follows(tasks, {r} \X Old, {r} \X Now) =>
                   Follows(tasks', {r} \X Old, {r} \X Now)
  <2> DEFINE o == {r} \X Old  n == {r} \X Now  e == <<s, m>>
  <2>1. /\ e \notin n /\ e \notin o /\ o \cap n = {}
        /\ e \in Targets \X Messages /\ tasks' = Append(tasks, e)
    BY <1>1, <1>2
  <2> HIDE DEF o, n, e
  <2>2. /\ Has(tasks', n) <=> Has(tasks, n)
        /\ Follows(tasks, o, n) => Follows(tasks', o, n)
    BY <1>2, <2>1, FollowsAppend
  <2> QED BY <2>2 DEF o, n
<1>4. \A r : (Fresh(r) => Fresh(r)') /\ (Welcoming(r)' <=> Welcoming(r))
  BY <1>1, <1>3 DEF Fresh, Welcoming
<1> QED BY <1>1, <1>3, <1>4 DEF Told

\* The answer to hello is sent: unless a broadcast follows, with the setting of now.
LEMMA WelcomeTold ==
  ASSUME TypeOK, Told, WelcomeSend PROVE Told'
<1>0. /\ io.of \in Sessions /\ io.at = "welcome" /\ io'.at = "idle"
      /\ <<"welcome", io.flip>> \in Messages
      /\ tasks' = Append(tasks, <<io.of, <<"welcome", io.flip>>>>)
      /\ UNCHANGED <<out, heard, flip>>
  BY DEF TypeOK, WelcomeSend, NoSession, Messages, Kinds, Busy, Post, outVars, qtVars
<1>1. PICK s \in Sessions, m \in Messages :
        /\ s = io.of /\ m = <<"welcome", io.flip>> /\ Tells(m)
        /\ tasks' = Append(tasks, <<s, m>>)
  BY <1>0 DEF Tells
<1>2. Now' = Now /\ Old' = Old /\ Old \cap Now = {} /\ (io.flip = flip => m \in Now)
  BY <1>0, <1>1 DEF Now, Old
<1>3. \A r : Watched(r)' => Watched(r)
  BY DEF Watched, Damaged, WelcomeSend, linkVars, outVars
<1>4. Welcoming(s) /\ \A r \in Sessions : ~Welcoming(r)' /\ (r # s => ~Welcoming(r))
  BY <1>0, <1>1 DEF Welcoming
<1>5. tasks \in Seq(Targets \X Messages) /\ <<s, m>> \in Targets \X Messages
  BY <1>1 DEF TypeOK, Targets
<1>6. ASSUME NEW r, r # s
      PROVE  /\ Has(tasks', {r} \X Now) <=> Has(tasks, {r} \X Now)
             /\ Follows(tasks, {r} \X Old, {r} \X Now) =>
                   Follows(tasks', {r} \X Old, {r} \X Now)
  <2> DEFINE o == {r} \X Old  n == {r} \X Now  e == <<s, m>>
  <2>1. /\ e \notin n /\ e \notin o /\ o \cap n = {}
        /\ e \in Targets \X Messages /\ tasks' = Append(tasks, e)
    BY <1>1, <1>2, <1>5, <1>6
  <2> HIDE DEF o, n, e
  <2>2. /\ Has(tasks', n) <=> Has(tasks, n)
        /\ Follows(tasks, o, n) => Follows(tasks', o, n)
    BY <1>5, <2>1, FollowsAppend
  <2> QED BY <2>2 DEF o, n
<1>7. ASSUME io.flip = flip PROVE Fresh(s)'
  <2> DEFINE o == {s} \X Old  n == {s} \X Now  e == <<s, m>>
  <2>1. e \in n /\ o \cap n = {} /\ e \in Targets \X Messages /\ tasks' = Append(tasks, e)
    BY <1>1, <1>2, <1>5, <1>7
  <2> HIDE DEF o, n, e
  <2>2. Has(tasks', n) /\ Follows(tasks', o, n)
    BY <1>5, <2>1, FollowsAppend
  <2> QED BY <1>2, <2>2 DEF Fresh, o, n
<1>8. s # All
  BY <1>1 DEF Sessions, All
<1>9. \A r \in Sessions : r # s /\ Fresh(r) => Fresh(r)'
  BY <1>0, <1>2, <1>6 DEF Fresh
<1>10. /\ Has(tasks', {All} \X Now') <=> Has(tasks, {All} \X Now)
       /\ Follows(tasks', {All} \X Old', {All} \X Now')
  BY <1>2, <1>6, <1>8 DEF Told
<1>11. ASSUME ~Has(tasks', {All} \X Now'), NEW r \in Sessions, Watched(r)' PROVE Fresh(r)'
  <2>1. CASE r = s
    BY <1>0, <1>1, <1>3, <1>4, <1>7, <1>10, <1>11, <2>1 DEF Told
  <2>2. CASE r # s
    BY <1>3, <1>4, <1>9, <1>10, <1>11, <2>2 DEF Told
  <2> QED BY <2>1, <2>2
<1> QED BY <1>4, <1>10, <1>11 DEF Told

\* A message moves from the tasks to the queue of its phone.
LEMMA SendTold == ASSUME TypeOK, Told, RunSend PROVE Told'
<1>1. PICK s \in Sessions, m \in Messages :
        /\ Head(tasks) = <<s, m>> /\ tasks' = Tail(tasks) /\ tasks # <<>>
        /\ out' = [out EXCEPT ![s] = Append(out[s], m)]
        /\ early \subseteq early' /\ UNCHANGED <<heard, io, flip, conn, greeted, begun>>
  <2>1. tasks # <<>> /\ tasks \in Seq(Targets \X Messages) /\ Head(tasks)[1] # All
    BY DEF RunSend, TypeOK, Targets
  <2>2. Head(tasks) \in Sessions \X Messages
    BY <2>1, HeadTailProperties DEF Targets
  <2>3. /\ tasks' = Tail(tasks) /\ UNCHANGED <<heard, io, flip, conn, greeted, begun>>
        /\ Send(Head(tasks)[1], Head(tasks)[2])
    BY DEF RunSend, Send, qtVars, linkVars
  <2>4. /\ out' = [out EXCEPT ![Head(tasks)[1]] = Append(out[Head(tasks)[1]], Head(tasks)[2])]
        /\ early \subseteq early'
    BY <2>3 DEF Send, StartWrite
  <2>5. PICK s \in Sessions, m \in Messages : Head(tasks) = <<s, m>>
    BY <2>2
  <2>6. Head(tasks)[1] = s /\ Head(tasks)[2] = m
    BY <2>5
  <2>7. out' = [out EXCEPT ![s] = Append(out[s], m)]
    BY <2>4, <2>6
  <2> QED BY <2>1, <2>3, <2>4, <2>5, <2>7
<1>2. /\ tasks \in Seq(Targets \X Messages) /\ out \in [Sessions -> Seq(Messages)]
      /\ s # All /\ Old \cap Now = {} /\ Now' = Now /\ Old' = Old
  BY <1>1 DEF TypeOK, Targets, Sessions, All, Now, Old
<1>3. ASSUME NEW r, Follows(tasks, {r} \X Old, {r} \X Now)
      PROVE  /\ Follows(tasks', {r} \X Old, {r} \X Now)
             /\ r # s => (Has(tasks, {r} \X Now) <=> Has(tasks', {r} \X Now))
             /\ m \notin Now => (Has(tasks, {s} \X Now) <=> Has(tasks', {s} \X Now))
             /\ r = s /\ m \in Old => Has(tasks', {s} \X Now)
  <2> DEFINE o == {r} \X Old  n == {r} \X Now
  <2>1. /\ r # s => Head(tasks) \notin n
        /\ m \notin Now => Head(tasks) \notin {s} \X Now
        /\ r = s /\ m \in Old => Head(tasks) \in o
    BY <1>1
  <2>2. Has(tasks, {s} \X Now) <=> Head(tasks) \in {s} \X Now \/ Has(tasks', {s} \X Now)
    <3> DEFINE k == {s} \X Now
    <3>1. Follows(tasks, {}, k)
      BY DEF Follows
    <3> HIDE DEF k
    <3>2. Has(tasks, k) <=> Head(tasks) \in k \/ Has(tasks', k)
      BY <1>1, <1>2, <3>1, FollowsTail
    <3> QED BY <3>2 DEF k
  <2>3. Follows(tasks, o, n)
    BY <1>3
  <2> HIDE DEF o, n
  <2>4. /\ Follows(tasks', o, n)
        /\ Has(tasks, n) <=> Head(tasks) \in n \/ Has(tasks', n)
        /\ Head(tasks) \in o => Has(tasks', n)
    BY <1>1, <1>2, <2>3, FollowsTail
  <2> QED BY <2>1, <2>2, <2>4 DEF o, n
<1>4. ASSUME NEW r \in Sessions, Fresh(r) PROVE Fresh(r)'
  <2>1. Follows(tasks, {r} \X Old, {r} \X Now)
    BY <1>4 DEF Fresh
  <2>2. CASE r # s
    <3>1. out'[r] = out[r]
      BY <1>1, <1>2, <2>2
    <3> QED BY <1>1, <1>2, <1>3, <1>4, <2>1, <2>2, <3>1 DEF Fresh
  <2>3. CASE r = s
    <3>1. out'[s] = Append(out[s], m) /\ out[s] \in Seq(Messages)
      BY <1>1, <1>2
    <3>2. /\ Has(out'[s], Now) <=> Has(out[s], Now) \/ m \in Now
          /\ m \in Now => Follows(out'[s], Old, Now)
          /\ m \notin Old /\ Follows(out[s], Old, Now) => Follows(out'[s], Old, Now)
      BY <1>2, <3>1, FollowsAppend
    <3> QED BY <1>1, <1>2, <1>3, <1>4, <2>1, <2>3, <3>2 DEF Fresh
  <2> QED BY <2>2, <2>3
<1>5. /\ Follows(tasks', {All} \X Old, {All} \X Now)
      /\ Has(tasks, {All} \X Now) <=> Has(tasks', {All} \X Now)
  BY <1>2, <1>3 DEF Told
<1>6. \A r \in Sessions : (Watched(r)' => Watched(r)) /\ (Welcoming(r)' <=> Welcoming(r))
  BY <1>1 DEF Watched, Damaged, Welcoming
<1> QED BY <1>1, <1>2, <1>4, <1>5, <1>6 DEF Told

\* A broadcast is taken apart: its message is the last that every phone gets.
LEMMA BroadcastTold ==
  ASSUME TypeOK, Greets, Settings, Running, Told, RunBroadcast PROVE Told'
<1>1. PICK r \in Seq(Targets \X Messages), m \in Messages :
        /\ tasks' = Tail(tasks) \o r /\ tasks # <<>> /\ Head(tasks) = <<All, m>>
        /\ Tail(tasks) \in Seq(Targets \X Messages)
        /\ \A i \in 1..Len(r) : r[i][1] \in sessions /\ r[i][2] = m
        /\ \A s \in sessions : \E i \in 1..Len(r) : r[i][1] = s
  <2>1. PICK r \in Seq(Targets \X Messages) :
          /\ tasks' = Tail(tasks) \o r /\ tasks # <<>> /\ Tail(tasks) \in Seq(Targets \X Messages)
          /\ Head(tasks) \in Targets \X Messages /\ Head(tasks)[1] = All
          /\ \A i \in 1..Len(r) : r[i][1] \in sessions /\ r[i][2] = Head(tasks)[2]
          /\ \A s \in sessions : \E i \in 1..Len(r) : r[i][1] = s
    BY BroadcastType
  <2>2. PICK m \in Messages : Head(tasks) = <<All, m>>
    BY <2>1
  <2>3. Head(tasks)[2] = m
    BY <2>2
  <2> QED BY <2>1, <2>2, <2>3
<1>2. /\ UNCHANGED <<out, heard, io, flip, conn, greeted, begun, early>>
      /\ io.at = "idle"
  BY DEF RunBroadcast, IoFree, qtVars, linkVars, outVars
<1>3. /\ tasks \in Seq(Targets \X Messages) /\ sessions \subseteq Sessions
      /\ Old \cap Now = {} /\ Now' = Now /\ Old' = Old /\ All \notin Sessions
  BY <1>2 DEF TypeOK, Targets, Sessions, All, Now, Old
<1>4. m \in Old \/ m \in Now
  <2>1. 1 \in 1..Len(tasks) /\ tasks[1] = <<All, m>>
    BY <1>1, <1>3
  <2>2. m[1] = "flip"
    BY <2>1 DEF Settings
  <2> QED BY <1>1, <2>2 DEF Old, Now, Tells
<1>5. /\ Follows(tasks', {All} \X Old, {All} \X Now)
      /\ Has(tasks', {All} \X Now) <=> Has(Tail(tasks), {All} \X Now)
      /\ m \in Old => Has(tasks', {All} \X Now)
  <2> DEFINE o == {All} \X Old  n == {All} \X Now
  <2>1. /\ m \in Old => Head(tasks) \in o
        /\ \A i \in 1..Len(r) : r[i] \notin o /\ r[i] \notin n
        /\ Follows(tasks, o, n)
    <3>1. \A i \in 1..Len(r) : r[i][1] # All
      BY <1>1, <1>3
    <3>2. m \in Old => Head(tasks) \in o
      BY <1>1
    <3>3. \A x : x \in o \cup n => x[1] = All
      OBVIOUS
    <3> HIDE DEF o, n
    <3>4. \A i \in 1..Len(r) : r[i] \notin o /\ r[i] \notin n
      BY <3>1, <3>3
    <3> QED BY <3>2, <3>4 DEF Told, o, n
  <2> HIDE DEF o, n
  <2>2. Follows(Tail(tasks), o, n) /\ (Head(tasks) \in o => Has(Tail(tasks), n))
    BY <1>1, <1>3, <2>1, FollowsTail
  <2>3. /\ Has(tasks', n) <=> Has(Tail(tasks), n) \/ Has(r, n)
        /\ Follows(tasks', o, n)
    BY <1>1, <2>1, <2>2, FollowsConcat
  <2>4. ~Has(r, n)
    BY <2>1 DEF Has
  <2> QED BY <2>1, <2>2, <2>3, <2>4 DEF o, n
<1>6. ASSUME ~Has(tasks', {All} \X Now), NEW s \in Sessions, Watched(s)'
      PROVE  Fresh(s)' /\ ~Welcoming(s)'
  <2>1. m \in Now
    BY <1>4, <1>5, <1>6
  <2>2. s \in sessions
    BY <1>2, <1>6 DEF Watched, Greets, Serving, Running
  <2> DEFINE o == {s} \X Old  n == {s} \X Now
  <2>3. /\ \A i \in 1..Len(r) : r[i] \notin o
        /\ Has(r, n)
    <3>1. PICK i \in 1..Len(r) : r[i][1] = s
      BY <1>1, <2>2
    <3>2. \A j \in 1..Len(r) : r[j] \in Targets \X Messages /\ r[j][2] = m
      BY <1>1
    <3>3. r[i] \in n
      BY <2>1, <3>1, <3>2
    <3>4. \A j \in 1..Len(r) : r[j] \notin o
      BY <1>3, <2>1, <3>2
    <3> HIDE DEF n, o
    <3> QED BY <3>3, <3>4 DEF Has
  <2> HIDE DEF o, n
  <2>4. Has(tasks', n) /\ Follows(tasks', o, n)
    BY <1>1, <2>3, FollowsConcat
  <2> QED BY <1>2, <1>3, <2>4 DEF o, n, Fresh, Welcoming
<1> QED BY <1>3, <1>5, <1>6 DEF Told

\* The phone hears the message at the head of its queue, or a damaged one.
LEMMA WriteTold ==
  ASSUME TypeOK, Written, Told, NEW s \in Sessions, WriteDone(s) PROVE Told'
<1>1. /\ UNCHANGED <<tasks, io, flip, conn, greeted, begun, early>> /\ out[s] # <<>>
      /\ out' = [out EXCEPT ![s] = Tail(out[s])]
  BY DEF WriteDone, Written, qtVars, linkVars
<1>2. PICK m \in {Head(out[s]), Plain("garbage")} :
        heard' = IF conn[s] = "open" THEN [heard EXCEPT ![s] = Hear(heard[s], m)] ELSE heard
  BY DEF WriteDone
<1>3. /\ out \in [Sessions -> Seq(Messages)] /\ Head(out[s]) \in Messages
      /\ heard \in [Sessions -> [kinds : SUBSET Kinds, flip : Seq(BOOLEAN)]]
      /\ Now' = Now /\ Old' = Old /\ Old \cap Now = {}
  BY <1>1, HeadTailProperties DEF TypeOK, Now, Old
<1>4. ASSUME NEW r \in Sessions, Watched(r)'
      PROVE  Watched(r) /\ (r = s => m = Head(out[s]))
  <2>1. CASE r # s
    <3>1. heard'[r] = heard[r]
      BY <1>2, <1>3, <2>1
    <3> QED BY <1>1, <1>4, <2>1, <3>1 DEF Watched, Damaged
  <2>2. CASE r = s
    <3>1. conn[s] = "open" /\ "garbage" \notin heard'[s].kinds
      BY <1>1, <1>4, <2>2 DEF Watched, Damaged
    <3>2. heard'[s].kinds = heard[s].kinds \cup {m[1]}
      BY <1>2, <1>3, <3>1 DEF Hear
    <3>3. m[1] # "garbage" /\ Plain("garbage")[1] = "garbage"
      BY <3>1, <3>2 DEF Plain
    <3> QED BY <1>1, <1>2, <1>4, <2>2, <3>1, <3>2, <3>3 DEF Watched, Damaged
  <2> QED BY <2>1, <2>2
<1>5. ASSUME NEW r \in Sessions, Watched(r)', Fresh(r) PROVE Fresh(r)'
  <2>1. CASE r # s
    <3>1. heard'[r] = heard[r] /\ out'[r] = out[r]
      BY <1>1, <1>2, <1>3, <2>1
    <3> QED BY <1>1, <1>3, <1>5, <3>1 DEF Fresh
  <2>2. CASE r = s
    <3>1. m = Head(out[s]) /\ conn[s] = "open"
      BY <1>4, <1>5, <2>2 DEF Watched
    <3>2. heard'[s].flip = IF Tells(m) THEN <<m[2]>> ELSE heard[s].flip
      BY <1>2, <1>3, <3>1 DEF Hear
    <3>3. out'[s] = Tail(out[s]) /\ out[s] \in Seq(Messages)
      BY <1>1, <1>3
    <3>4. m \in Old \/ m \in Now \/ ~Tells(m)
      BY <1>3, <3>1 DEF Old, Now
    <3>5. m \in Now => heard'[s].flip = <<flip>>
      BY <3>2 DEF Now
    <3>6. Follows(out[s], Old, Now) =>
            /\ Follows(out'[s], Old, Now)
            /\ Has(out[s], Now) <=> m \in Now \/ Has(out'[s], Now)
            /\ m \in Old => Has(out'[s], Now)
      BY <1>1, <3>1, <3>3, FollowsTail
    <3>7. ~Tells(m) => heard'[s].flip = heard[s].flip /\ m \notin Now
      BY <3>2 DEF Now
    <3> QED BY <1>1, <1>3, <1>5, <2>2, <3>4, <3>5, <3>6, <3>7 DEF Fresh
  <2> QED BY <2>1, <2>2
<1>6. \A r : Welcoming(r)' <=> Welcoming(r)
  BY <1>1 DEF Welcoming
<1> QED BY <1>1, <1>3, <1>4, <1>5, <1>6 DEF Told

LEMMA StepFlip ==
  TypeOK /\ TypeOK' /\ Written /\ Greets /\ FlipInv /\ [Next]_vars /\ Settings' => FlipInv'
<1> SUFFICES ASSUME TypeOK, TypeOK', Written, Greets, FlipInv, [Next]_vars, Settings',
                    Running', announce' = Quiet
             PROVE  Told'
  BY DEF FlipInv
<1>0. Settings /\ (Running /\ announce = Quiet => Told)
  BY DEF FlipInv
<1>1. ASSUME UNCHANGED qtVars PROVE Running /\ announce = Quiet /\ Told /\ flip' = flip
  BY <1>0, <1>1 DEF qtVars, Running
<1>2. ASSUME UNCHANGED <<qtVars, tasks, out, heard>>, SameHello,
             \A s \in Sessions : Watched(s)' => Watched(s)
      PROVE  Told'
  BY <1>1, <1>2, SameTold
<1>3. CASE Accept \/ \E s \in Sessions : Handler(s) \/ PhoneLeaves(s) \/ CloseOpen(s)
                                     \/ CloseOther(s) \/ \E f \in BOOLEAN : ReadSetFlip(s, f)
  <2>1. UNCHANGED <<qtVars, tasks, out, heard, greeted, begun, early>> /\ SameHello
    BY <1>3 DEF Accept, Handler, Handshake, PhoneLeaves, ReadError, WriteFails, CloseOpen,
       CloseOther, Close, ReadSetFlip, IoFree, Busy, SameHello, linkVars, outVars
  <2>2. conn \in [Sessions -> {"none", "handshake", "open", "broken", "failed", "lost"}]
    BY DEF TypeOK
  <2>3. \A s \in Sessions : s \in greeted /\ conn'[s] = "open" => conn[s] = "open"
    <3>1. CASE Accept
      BY <2>2, <3>1 DEF Accept
    <3>2. ASSUME NEW s \in Sessions, Handshake(s)
          PROVE  \A r \in Sessions : r \in greeted /\ conn'[r] = "open" => conn[r] = "open"
      <4>1. conn[s] = "handshake" /\ \A r \in Sessions \ {s} : conn'[r] = conn[r]
        BY <2>2, <3>2 DEF Handshake, SetConn
      <4> QED BY <1>0, <4>1 DEF Settings
    <3>3. ASSUME NEW s \in Sessions,
                 PhoneLeaves(s) \/ ReadError(s) \/ CloseOpen(s) \/ CloseOther(s)
          PROVE  \A r \in Sessions : conn'[r] = "open" => conn[r] = "open"
      BY <2>2, <3>3 DEF PhoneLeaves, ReadError, CloseOpen, CloseOther, Close, SetConn
    <3>4. ASSUME NEW s \in Sessions, WriteFails(s)
          PROVE  \A r \in Sessions : conn'[r] = "open" => conn[r] = "open"
      BY <2>2, <3>4 DEF WriteFails, SetConn
    <3>5. ASSUME NEW s \in Sessions, NEW f \in BOOLEAN, ReadSetFlip(s, f) PROVE conn' = conn
      BY <3>5 DEF ReadSetFlip, linkVars
    <3> QED BY <1>3, <3>1, <3>2, <3>3, <3>4, <3>5 DEF Handler
  <2> QED BY <1>2, <2>1, <2>3 DEF Watched, Damaged
<1>4. ASSUME NEW s \in Sessions, ReadHello(s) PROVE Told'
  <2>1. /\ UNCHANGED <<qtVars, tasks, out, heard, conn, early>> /\ greeted' = greeted \cup {s}
        /\ begun \subseteq begun' /\ io.at = "idle" /\ io'.at = "flip" /\ io'.of = s
    BY <1>4 DEF ReadHello, IoFree, Busy, outVars
  <2>2. Now' = Now /\ Old' = Old
    BY <2>1 DEF Now, Old, qtVars
  <2>3. \A r \in Sessions :
          /\ Fresh(r)' <=> Fresh(r)
          /\ ~Welcoming(r) /\ (Welcoming(r)' <=> r = s)
          /\ r # s /\ Watched(r)' => Watched(r)
    BY <2>1, <2>2 DEF Fresh, Welcoming, Watched, Damaged, qtVars
  <2> QED BY <1>1, <2>1, <2>2, <2>3 DEF Told
<1>5. CASE WelcomeFlip
  <2>1. /\ UNCHANGED <<qtVars, tasks, out, heard, conn, early, greeted, begun>>
        /\ io'.at = "welcome" /\ io'.of = io.of /\ io'.flip = flip /\ io.at = "flip"
    BY <1>5 DEF WelcomeFlip, Busy, outVars, linkVars
  <2>2. Now' = Now /\ Old' = Old
    BY <2>1 DEF Now, Old, qtVars
  <2>3. \A r \in Sessions :
          /\ Fresh(r)' <=> Fresh(r)
          /\ Welcoming(r)' <=> Welcoming(r)
          /\ Watched(r)' => Watched(r)
    BY <2>1, <2>2 DEF Fresh, Welcoming, Watched, Damaged, qtVars
  <2> QED BY <1>1, <2>1, <2>2, <2>3 DEF Told, qtVars
<1>6. CASE WelcomeSend
  BY <1>1, <1>6, WelcomeTold DEF WelcomeSend
<1>7. CASE RunSend
  BY <1>1, <1>7, SendTold DEF RunSend
<1>8. CASE RunBroadcast
  BY <1>0, <1>1, <1>8, BroadcastTold DEF RunBroadcast
<1>9. ASSUME NEW s \in Sessions, WriteDone(s) PROVE Told'
  BY <1>1, <1>9, WriteTold DEF WriteDone
<1>10. ASSUME NEW s \in Sessions, ReadPing(s) PROVE Told'
  <2>1. /\ Post(s, Plain("pong")) /\ UNCHANGED <<qtVars, linkVars, io, outVars>>
        /\ Plain("pong") \in Messages /\ ~Tells(Plain("pong"))
    BY <1>10 DEF ReadPing, Messages, Kinds, Plain, Tells
  <2>2. \A r : Watched(r)' => Watched(r)
    BY <2>1 DEF Watched, Damaged, linkVars, outVars
  <2> QED BY <1>1, <2>1, <2>2, PlainTold DEF outVars
<1>11. CASE SendTo
  <2>1. /\ UNCHANGED <<linkVars, io, outVars, flip, announce>> /\ Running
        /\ UNCHANGED tasks \/ Post(target, Plain("offer"))
        /\ target \in Sessions
    BY <1>11 DEF SendTo, Running, TypeOK
  <2>2. Plain("offer") \in Messages /\ ~Tells(Plain("offer"))
    BY DEF Messages, Kinds, Plain, Tells
  <2>3. Told /\ \A r : Watched(r)' => Watched(r)
    BY <1>0, <2>1 DEF Watched, Damaged, linkVars, outVars
  <2> QED BY <2>1, <2>2, <2>3, PlainTold, SameTold DEF outVars, SameHello
<1>12. CASE BroadcastFlip
  <2>1. /\ UNCHANGED <<flip, io, out, heard>> /\ announce = <<flip>>
        /\ tasks' = Append(tasks, <<All, <<"flip", flip>>>>)
    BY <1>0, <1>12 DEF BroadcastFlip, Settings, Post, outVars
  <2>2. /\ <<"flip", flip>> \in Now /\ Now' = Now /\ Old' = Old /\ Old \cap Now = {}
        /\ tasks \in Seq(Targets \X Messages)
    BY <2>1 DEF Now, Old, Messages, Kinds, Tells, TypeOK, Targets
  <2> DEFINE o == {All} \X Old  n == {All} \X Now  e == <<All, <<"flip", flip>>>>
  <2>3. e \in n /\ o \cap n = {} /\ e \in Targets \X Messages /\ tasks' = Append(tasks, e)
    BY <2>1, <2>2 DEF Now, Targets
  <2> HIDE DEF o, n, e
  <2>4. Follows(tasks', o, n) /\ Has(tasks', n)
    BY <2>2, <2>3, FollowsAppend
  <2> QED BY <2>2, <2>4 DEF Told, o, n
<1>13. CASE CreateTray
  <2>1. /\ main = "tray" /\ UNCHANGED <<tasks, greeted, begun>>
    BY <1>13 DEF CreateTray, linkVars
  <2>2. \A s : ~Watched(s)'
    BY <1>0, <2>1 DEF Watched, Settings, Booting
  <2>3. Follows(tasks', {All} \X Old', {All} \X Now')
    <3>1. \A i \in 1..Len(tasks) : tasks[i][1] # All
      BY <1>0, <2>1 DEF Settings, Booting
    <3>2. \A x : x \in {All} \X Old' => x[1] = All
      OBVIOUS
    <3> QED BY <2>1, <3>1, <3>2 DEF Follows
  <2> QED BY <2>2, <2>3 DEF Told
<1>14. CASE SendFiles
  <2>1. UNCHANGED <<tasks, out, heard, io, flip, linkVars, early, announce>> /\ Running
    BY <1>14 DEF SendFiles, Idle, Running, outVars
  <2> QED BY <1>0, <2>1, SameTold DEF Watched, Damaged, linkVars, SameHello
<1>15. ASSUME ToggleFlip \/ OnSetFlip PROVE FALSE
  BY <1>15 DEF ToggleFlip, OnSetFlip, SetFlip, Quiet
<1>16. ASSUME CreateStream \/ CreateDecoder \/ FlipDecoder \/ CreateManager \/ StopServer
                \/ JoinIo \/ StopEnds
       PROVE  FALSE
  BY <1>16 DEF CreateStream, CreateDecoder, FlipDecoder, CreateManager, StopServer, JoinIo,
     StopEnds, Goto, Running
<1>17. CASE UNCHANGED vars
  BY <1>2, <1>17 DEF vars, linkVars, outVars, Watched, Damaged, SameHello
<1>22. CASE OnDeviceDisconnected
  <2>1. /\ UNCHANGED <<qtVars, tasks, out, heard, conn, greeted, begun, early>>
        /\ SameHello
    BY <1>22 DEF OnDeviceDisconnected, Busy, SameHello, outVars
  <2> QED BY <1>2, <2>1 DEF Watched, Damaged
<1>18. CASE IoOwn
  BY <1>5, <1>6, <1>7, <1>8, <1>18, <1>22 DEF IoOwn
<1>19. CASE QtOwn
  BY <1>3, <1>11, <1>12, <1>13, <1>15, <1>16, <1>19 DEF QtOwn, Boot
<1>20. CASE User
  BY <1>14, <1>15, <1>16, <1>20 DEF User
<1>21. ASSUME NEW s \in Sessions, Handler(s) \/ Phone(s) \/ WriteDone(s) \/ CloseOpen(s)
       PROVE  Told'
  BY <1>3, <1>4, <1>9, <1>10, <1>21 DEF Phone
<1> QED BY <1>3, <1>17, <1>18, <1>19, <1>20, <1>21 DEF Next

LEMMA AlwaysFlip == Spec => []FlipInv
<1>1. Init => FlipInv
  BY InitFlip
<1>2. Safe /\ Safe' /\ FlipInv /\ [Next]_vars => FlipInv'
  BY WritesWritten, StepSettings, StepFlip DEF Safe, FlipInv
<1> QED BY <1>1, <1>2, AlwaysSafe, PTL DEF Spec

(* The settings file, the stream, the tray and every phone that was greeted    *)
(* after startup hold the same flip setting whenever nothing is on its way,   *)
(* however the changes of the user and of the phones crossed.                 *)
THEOREM FlipsAgree == Spec => []FlipAgrees
<1>1. Safe /\ FlipInv => FlipAgrees
  <2> SUFFICES ASSUME TypeOK, FlipInv, Idle
               PROVE  /\ flip = stored /\ flip = shown
                      /\ \A s \in greeted \ (begun \cup early) :
                            conn[s] = "open" /\ Settled(s) /\ ~Damaged(s) =>
                               heard[s].flip = <<flip>>
    BY DEF FlipAgrees, Safe
  <2>1. flip = stored /\ flip = shown /\ Told
    BY DEF FlipInv, Settings, Running, Idle
  <2>2. ASSUME NEW s \in greeted \ (begun \cup early), s \in Sessions,
               conn[s] = "open", Settled(s), ~Damaged(s)
        PROVE  heard[s].flip = <<flip>>
    <3>1. \A t \in {All, s} : ~Has(tasks, {t} \X Now)
      BY <2>2 DEF Has, Settled
    <3>2. Fresh(s)
      BY <2>1, <2>2, <3>1 DEF Told, Watched, Welcoming, Settled
    <3>3. ~Has(out[s], Now)
      BY <2>2 DEF Has, Settled
    <3> QED BY <3>1, <3>2, <3>3 DEF Fresh
  <2>3. greeted \subseteq Sessions
    BY DEF TypeOK
  <2> QED BY <2>1, <2>2, <2>3
<1> QED BY <1>1, AlwaysFlip, AlwaysSafe, PTL

-----------------------------------------------------------------------------
(* The answer to hello.  On its way it is in the handler, among the tasks or  *)
(* in the queue of the phone, and leaves one only for the next.              *)

LEMMA HasAppend ==
  ASSUME NEW S, NEW q \in Seq(S), NEW e \in S, NEW new
  PROVE  Has(Append(q, e), new) <=> Has(q, new) \/ e \in new
<1>1. {} \cap new = {}
  OBVIOUS
<1> QED BY <1>1, FollowsAppend

LEMMA HasTail ==
  ASSUME NEW S, NEW q \in Seq(S), q # <<>>, NEW new
  PROVE  Has(q, new) <=> Head(q) \in new \/ Has(Tail(q), new)
<1>1. Follows(q, {}, new)
  BY DEF Follows
<1> QED BY <1>1, FollowsTail

LEMMA HasConcat ==
  ASSUME NEW S, NEW q \in Seq(S), NEW r \in Seq(S), NEW new
  PROVE  Has(q \o r, new) <=> Has(q, new) \/ Has(r, new)
<1>1. \A i \in 1..Len(r) : r[i] \notin {}
  OBVIOUS
<1> QED BY <1>1, FollowsConcat

Hi == {m \in Messages : m[1] = "welcome"}

Owed(s) ==
    \/ Welcomed(s) \/ Damaged(s) \/ Welcoming(s)
    \/ Has(tasks, {s} \X Hi) \/ Has(out[s], Hi)

LEMMA OwedIs ==
  ASSUME TypeOK, NEW s \in Sessions
  PROVE  Owed(s) <=> Welcomed(s) \/ Damaged(s) \/ WelcomeDue(s)
<1>1. /\ tasks \in Seq(Targets \X Messages) /\ out[s] \in Seq(Messages)
      /\ \A i \in 1..Len(tasks) : tasks[i] \in Targets \X Messages
      /\ \A i \in 1..Len(out[s]) : out[s][i] \in Messages
  BY DEF TypeOK, Targets
<1>2. \A i \in 1..Len(tasks) :
         tasks[i] \in {s} \X Hi <=> tasks[i][1] = s /\ tasks[i][2][1] = "welcome"
  BY <1>1 DEF Hi
<1>3. \A i \in 1..Len(out[s]) : out[s][i] \in Hi <=> out[s][i][1] = "welcome"
  BY <1>1 DEF Hi
<1> QED BY <1>2, <1>3 DEF Owed, WelcomeDue, Welcoming, Has

\* A step that posts at most one message and leaves handler and queues alone.
LEMMA OwedKept ==
  ASSUME TypeOK, NEW s \in Sessions, Owed(s), UNCHANGED <<out, heard>>, SameHello,
         \/ UNCHANGED tasks
         \/ \E t \in Targets, m \in Messages : Post(t, m)
  PROVE  Owed(s)'
<1>1. tasks \in Seq(Targets \X Messages)
  BY DEF TypeOK, Targets
<1>2. Has(tasks, {s} \X Hi) => Has(tasks', {s} \X Hi)
  <2>1. ASSUME NEW t \in Targets, NEW m \in Messages, Post(t, m)
        PROVE  Has(tasks, {s} \X Hi) => Has(tasks', {s} \X Hi)
    <3>1. tasks' = Append(tasks, <<t, m>>) /\ <<t, m>> \in Targets \X Messages
      BY <2>1 DEF Post
    <3> QED BY <1>1, <3>1, HasAppend
  <2> QED BY <2>1
<1> QED BY <1>2 DEF Owed, Welcomed, Damaged, Welcoming, SameHello

LEMMA StepOwed ==
  ASSUME TypeOK, TypeOK', Written, Settings, WelcomeKept, [Next]_vars,
         NEW s \in greeted', s \notin early', conn'[s] = "open"
  PROVE  Owed(s)'
<1>0. /\ s \in Sessions /\ Hi' = Hi
      /\ tasks \in Seq(Targets \X Messages) /\ out \in [Sessions -> Seq(Messages)]
      /\ heard \in [Sessions -> [kinds : SUBSET Kinds, flip : Seq(BOOLEAN)]]
      /\ conn \in [Sessions -> {"none", "handshake", "open", "broken", "failed", "lost"}]
  BY DEF TypeOK, Targets, Hi
<1>1. ASSUME s \in greeted, conn[s] = "open", early \subseteq early' PROVE Owed(s)
  BY <1>0, <1>1, OwedIs DEF WelcomeKept
<1>2. ASSUME NEW u \in Sessions, ReadHello(u) PROVE Owed(s)'
  <2>1. /\ UNCHANGED <<conn, tasks, out, heard, early>> /\ greeted' = greeted \cup {u}
        /\ io.at = "idle" /\ io'.at = "flip" /\ io'.of = u
    BY <1>2 DEF ReadHello, IoFree, Busy, outVars
  <2>2. CASE s = u
    BY <2>1, <2>2 DEF Owed, Welcoming
  <2>3. CASE s # u
    BY <1>0, <1>1, <2>1, <2>3 DEF Owed, Welcomed, Damaged, Welcoming
  <2> QED BY <2>2, <2>3
<1>3. CASE WelcomeFlip
  <2>1. /\ UNCHANGED <<conn, tasks, out, heard, early, greeted>>
        /\ io.at = "flip" /\ io'.at = "welcome" /\ io'.of = io.of
    BY <1>3 DEF WelcomeFlip, Busy, outVars, linkVars
  <2> QED BY <1>0, <1>1, <2>1 DEF Owed, Welcomed, Damaged, Welcoming
<1>4. CASE WelcomeSend
  <2> DEFINE m == <<"welcome", io.flip>>
  <2>1. /\ UNCHANGED <<conn, out, heard, early, greeted>> /\ io.at = "welcome"
        /\ tasks' = Append(tasks, <<io.of, m>>)
    BY <1>4 DEF WelcomeSend, Post, outVars, linkVars
  <2>2. m \in Hi /\ io.of \in Sessions /\ <<io.of, m>> \in Targets \X Messages
    BY <2>1 DEF TypeOK, Messages, Kinds, Hi, Targets
  <2> DEFINE e == <<io.of, m>>  n == {s} \X Hi
  <2>3. e \in Targets \X Messages /\ tasks' = Append(tasks, e) /\ (io.of = s => e \in n)
    BY <2>1, <2>2
  <2> HIDE DEF m, e, n
  <2>4. Has(tasks', n) <=> Has(tasks, n) \/ e \in n
    BY <1>0, <2>3, HasAppend
  <2> QED BY <1>0, <1>1, <2>1, <2>3, <2>4 DEF Owed, Welcomed, Damaged, Welcoming, n
<1>5. CASE RunSend
  <2>1. /\ tasks # <<>> /\ tasks' = Tail(tasks) /\ Head(tasks)[1] # All
        /\ UNCHANGED <<heard, io, conn, greeted>> /\ early \subseteq early'
        /\ out' = [out EXCEPT ![Head(tasks)[1]] = Append(@, Head(tasks)[2])]
    BY <1>5 DEF RunSend, Send, StartWrite, linkVars
  <2>2. PICK u \in Sessions, m \in Messages : Head(tasks) = <<u, m>>
    BY <1>0, <2>1, HeadTailProperties DEF Targets
  <2>3. Head(tasks)[1] = u /\ Head(tasks)[2] = m
    BY <2>2
  <2>4. Has(tasks, {s} \X Hi) => (u = s /\ m \in Hi) \/ Has(tasks', {s} \X Hi)
    BY <1>0, <2>1, <2>2, HasTail
  <2>5. Has(out'[s], Hi) <=> Has(out[s], Hi) \/ (u = s /\ m \in Hi)
    <3>1. out[u] \in Seq(Messages)
      BY <1>0
    <3>2. Has(Append(out[u], m), Hi) <=> Has(out[u], Hi) \/ m \in Hi
      BY <3>1, HasAppend
    <3>3. out' = [out EXCEPT ![u] = Append(out[u], m)]
      BY <2>1, <2>3
    <3> QED BY <1>0, <3>2, <3>3
  <2> QED BY <1>0, <1>1, <2>1, <2>4, <2>5 DEF Owed, Welcomed, Damaged, Welcoming
<1>6. CASE RunBroadcast
  <2>1. PICK r \in Seq(Targets \X Messages) :
          /\ tasks' = Tail(tasks) \o r /\ tasks # <<>>
          /\ Tail(tasks) \in Seq(Targets \X Messages) /\ Head(tasks)[1] = All
    BY <1>6, BroadcastType
  <2>2. UNCHANGED <<out, heard, io, conn, greeted, early>>
    BY <1>6 DEF RunBroadcast, linkVars, outVars
  <2>3. Head(tasks) \notin {s} \X Hi
    BY <1>0, <2>1 DEF Sessions, All
  <2>4. Has(tasks, {s} \X Hi) => Has(Tail(tasks), {s} \X Hi)
    BY <1>0, <2>1, <2>3, HasTail
  <2>5. Has(Tail(tasks), {s} \X Hi) => Has(tasks', {s} \X Hi)
    BY <2>1, HasConcat
  <2> QED BY <1>0, <1>1, <2>2, <2>4, <2>5 DEF Owed, Welcomed, Damaged, Welcoming
<1>7. ASSUME NEW u \in Sessions, WriteDone(u) PROVE Owed(s)'
  <2>1. /\ UNCHANGED <<tasks, io, conn, greeted, early>> /\ out[u] # <<>>
        /\ out' = [out EXCEPT ![u] = Tail(out[u])]
    BY <1>7 DEF WriteDone, Written, linkVars
  <2>2. PICK m \in {Head(out[u]), Plain("garbage")} :
          heard' = IF conn[u] = "open" THEN [heard EXCEPT ![u] = Hear(heard[u], m)] ELSE heard
    BY <1>7 DEF WriteDone
  <2>3. Owed(s)
    BY <1>1, <2>1
  <2>4. CASE s # u
    <3>1. out'[s] = out[s] /\ heard'[s] = heard[s]
      BY <1>0, <2>1, <2>2, <2>4
    <3> QED BY <1>0, <2>1, <2>3, <3>1 DEF Owed, Welcomed, Damaged, Welcoming
  <2>5. CASE s = u
    <3>1. /\ out[s] \in Seq(Messages) /\ out'[s] = Tail(out[s])
          /\ heard'[s].kinds = heard[s].kinds \cup {m[1]}
      BY <1>0, <2>1, <2>2, <2>5 DEF Hear
    <3>2. Has(out[s], Hi) <=> Head(out[s]) \in Hi \/ Has(Tail(out[s]), Hi)
      BY <2>1, <2>5, <3>1, HasTail
    <3>3. m = Head(out[s]) \/ m = Plain("garbage")
      BY <2>2, <2>5
    <3>4. Plain("garbage")[1] = "garbage" /\ \A k \in Hi : k[1] = "welcome"
      BY DEF Hi, Plain
    <3>5. Head(out[s]) \in Hi => m[1] \in {"welcome", "garbage"}
      BY <3>3, <3>4
    <3> QED BY <1>0, <2>1, <2>3, <3>1, <3>2, <3>5 DEF Owed, Welcomed, Damaged, Welcoming
  <2> QED BY <2>4, <2>5
<1>8. ASSUME UNCHANGED <<out, heard, greeted, early>>, SameHello, conn[s] = "open",
             \/ UNCHANGED tasks
             \/ \E t \in Targets, m \in Messages : Post(t, m)
      PROVE  Owed(s)'
  BY <1>0, <1>1, <1>8, OwedKept
<1>9. CASE Accept \/ \E u \in Sessions : Handler(u) \/ PhoneLeaves(u) \/ CloseOpen(u)
                                     \/ CloseOther(u)
  <2>1. UNCHANGED <<tasks, out, heard, greeted, early>> /\ SameHello
    BY <1>9 DEF Accept, Handler, Handshake, PhoneLeaves, ReadError, WriteFails, CloseOpen,
       CloseOther, Close, IoFree, Busy, SameHello, outVars
  <2>2. conn[s] = "open"
    <3>1. conn[s] \notin {"none", "handshake"}
      BY <2>1 DEF Settings
    <3>2. CASE Accept
      BY <1>0, <3>2 DEF Accept
    <3>3. ASSUME NEW u \in Sessions,
                 Handler(u) \/ PhoneLeaves(u) \/ CloseOpen(u) \/ CloseOther(u)
          PROVE  conn[s] = "open"
      BY <1>0, <3>1, <3>3 DEF Handler, Handshake, PhoneLeaves, ReadError, WriteFails,
         CloseOpen, CloseOther, Close, SetConn
    <3> QED BY <1>9, <3>2, <3>3
  <2> QED BY <1>8, <2>1, <2>2
<1>10. ASSUME NEW u \in Sessions, ReadPing(u) PROVE Owed(s)'
  <2>1. Plain("pong") \in Messages /\ u \in Targets
    BY DEF Messages, Kinds, Plain, Targets
  <2>2. Post(u, Plain("pong")) /\ UNCHANGED <<conn, io, out, heard, greeted, early>>
    BY <1>10 DEF ReadPing, linkVars, outVars
  <2> QED BY <1>8, <2>1, <2>2 DEF SameHello
<1>11. CASE SendTo
  <2>1. Plain("offer") \in Messages /\ target \in Targets
    BY DEF TypeOK, Messages, Kinds, Plain, Targets, All, NoSession
  <2>2. /\ UNCHANGED tasks \/ Post(target, Plain("offer"))
        /\ UNCHANGED <<conn, io, out, heard, greeted, early>>
    BY <1>11 DEF SendTo, linkVars, outVars
  <2> QED BY <1>8, <2>1, <2>2 DEF SameHello
<1>12. CASE BroadcastFlip
  <2>1. <<"flip", announce[1]>> \in Messages /\ All \in Targets
    <3>1. announce \in Seq(BOOLEAN) /\ announce # <<>>
      BY <1>12 DEF BroadcastFlip, TypeOK, Quiet
    <3>2. announce[1] \in BOOLEAN
      BY <3>1
    <3> QED BY <3>2 DEF Messages, Kinds, Targets
  <2>2. /\ Post(All, <<"flip", announce[1]>>)
        /\ UNCHANGED <<conn, io, out, heard, greeted, early>>
    BY <1>12 DEF BroadcastFlip, linkVars, outVars
  <2> QED BY <1>8, <2>1, <2>2 DEF SameHello
<1>13. ASSUME UNCHANGED <<tasks, conn, out, heard, greeted, early>>, SameHello
       PROVE  Owed(s)'
  BY <1>8, <1>13
<1>14. CASE \/ Boot \/ OnSetFlip \/ JoinIo \/ StopEnds \/ User \/ UNCHANGED vars
            \/ \E u \in Sessions, f \in BOOLEAN : ReadSetFlip(u, f)
  BY <1>13, <1>14 DEF SameHello, Boot, CreateStream, CreateDecoder, FlipDecoder, CreateManager,
     CreateTray, OnSetFlip, JoinIo, StopEnds, User, ToggleFlip, SendFiles, StopServer,
     ReadSetFlip, vars, linkVars, outVars
<1>15. CASE OnDeviceDisconnected
  <2>1. UNCHANGED <<tasks, conn, out, heard, greeted, early>> /\ SameHello
    BY <1>15 DEF OnDeviceDisconnected, Busy, SameHello, outVars
  <2> QED BY <1>13, <2>1
<1> QED
  BY <1>2, <1>3, <1>4, <1>5, <1>6, <1>7, <1>9, <1>10, <1>11, <1>12, <1>14, <1>15
     DEF Next, IoOwn, QtOwn, Phone

(* The answer to a hello is never lost: as long as the phone is there it has   *)
(* received it, or it is in the handler, among the tasks of the io_context or *)
(* in the queue of the session, whatever else is written and broadcast.       *)
THEOREM WelcomeIsKept == Spec => []WelcomeKept
<1>1. Init => WelcomeKept
  BY DEF Init, WelcomeKept
<1>2. TypeOK => \A s \in Sessions : Owed(s) <=> Welcomed(s) \/ Damaged(s) \/ WelcomeDue(s)
  BY OwedIs
<1>3. (TypeOK => \A s \in Sessions : Owed(s) <=> Welcomed(s) \/ Damaged(s) \/ WelcomeDue(s))'
  BY <1>2, PTL
<1>4. Safe /\ Safe' /\ FlipInv /\ WelcomeKept /\ [Next]_vars => WelcomeKept'
  <2> SUFFICES ASSUME Safe, Safe', FlipInv, WelcomeKept, [Next]_vars,
                      NEW s \in greeted', s \notin early', conn'[s] = "open"
               PROVE  Welcomed(s)' \/ Damaged(s)' \/ WelcomeDue(s)'
    BY DEF WelcomeKept
  <2>1. TypeOK /\ TypeOK' /\ Written /\ Settings /\ s \in Sessions
    BY WritesWritten DEF Safe, FlipInv, TypeOK
  <2>2. Owed(s)'
    BY <2>1, StepOwed
  <2> QED BY <1>3, <2>1, <2>2
<1> QED BY <1>1, <1>4, AlwaysFlip, AlwaysSafe, PTL DEF Spec
=============================================================================
