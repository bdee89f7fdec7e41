------------------------ MODULE StreamPipelineProofs ------------------------
(* Theorems about StreamPipeline, for every depth of the queue and every     *)
(* bound.                                                                    *)
EXTENDS StreamPipeline, SequenceTheorems, TLAPS

\* A thread holds the mutex exactly where its code does.
LockInv ==
    /\ lock = "net" <=> net \in {"room", "push"}
    /\ lock = "dec" <=> dec \in {"test", "sleep", "take"}
    /\ lock = "main" <=> main = "clear"
    /\ main \in {"start", "netThread"} => net = "off"
    /\ main \in {"start", "netThread", "decThread"} => dec = "off"

\* What the threads know of the queue while they hold the mutex, and what the
\* decode thread knows of stop() when it goes to sleep.
KnowInv ==
    /\ net \in {"lock", "room", "push"} => arrived > 0
    /\ Len(queue) <= Depth /\ (net = "push" => Len(queue) < Depth)
    /\ dec = "take" => queue # <<>>
    /\ dec = "sleep" => queue = <<>> /\ (running \/ main \in {"close", "lock"})
    /\ SleepJustified

\* The order in which stop() ends things.
StopInv ==
    /\ main \in {"close", "lock", "clear", "notify", "joinNet", "joinDec", "camera",
                "stopped"} => ~running
    /\ main \in {"joinDec", "camera", "stopped"} => net = "exited"
    /\ main \in {"camera", "stopped"} => dec = "exited"
    /\ main = "stopped" => camera # "open"

\* Nothing is announced before the callback is set, and clicks come after it.
TrayInv ==
    /\ ~callback => posted = <<>> /\ ~tray /\ ~announced
    /\ callback <=> main \notin {"start", "netThread", "decThread", "callback"}
    /\ TrayFollows

PipeInv == TypeOK /\ LockInv /\ KnowInv /\ StopInv /\ TrayInv

LEMMA TypeStep == TypeOK /\ KnowInv /\ [Next]_vars => TypeOK'
<1> SUFFICES ASSUME TypeOK, KnowInv, [Next]_vars PROVE TypeOK'
  OBVIOUS
<1> USE PipelineAssumption DEF TypeOK, netVars, queueVars, decVars, mainVars, trayVars
<1>0. /\ Range(queue) \subseteq Nat
      /\ \A n \in Nat \ {0} : Append(queue, n) \in Seq(Nat \ {0})
      /\ \A v \in BOOLEAN : Append(posted, v) \in Seq(BOOLEAN)
      /\ <<>> \in Seq(Nat \ {0})
      /\ queue # <<>> => Tail(queue) \in Seq(Nat \ {0}) /\ Head(queue) \in Nat
      /\ posted # <<>> => Tail(posted) \in Seq(BOOLEAN) /\ Head(posted) \in BOOLEAN
  BY LenProperties, AppendProperties, HeadTailProperties, EmptySeq DEF Range
<1>1. CASE ClientConnects
  BY <1>1 DEF ClientConnects
<1>2. CASE NetTop
  BY <1>2 DEF NetLabels, NetTop, NetGoto
<1>3. CASE NetAccept
  <2>1. waiting' \in Nat
    BY <1>3 DEF NetAccept
  <2>2. posted' \in Seq(BOOLEAN) /\ announced' \in BOOLEAN
    BY <1>3, <1>0 DEF NetAccept, Post
  <2> QED BY <1>3, <2>1, <2>2 DEF NetLabels, NetAccept, NetGoto
<1>4. CASE NetAcceptFails
  BY <1>4 DEF NetLabels, NetAcceptFails, NetGoto
<1>5. CASE NetLoop
  BY <1>5 DEF NetLabels, NetLoop, NetGoto
<1>6. CASE NetRead
  BY <1>6 DEF NetLabels, NetRead, NetGoto
<1>7. CASE NetDrop
  BY <1>7 DEF NetLabels, NetDrop, NetGoto
<1>8. CASE NetLock
  BY <1>8 DEF NetLabels, NetLock, NetGoto
<1>9. CASE NetMakeRoom
  BY <1>9, <1>0 DEF NetLabels, NetMakeRoom, NetGoto
<1>10. CASE NetPush
  <2>1. arrived \in Nat \ {0}
    BY <1>10 DEF KnowInv, NetPush
  <2>2. queue' \in Seq(Nat \ {0})
    BY <1>0, <1>10, <2>1 DEF NetPush
  <2>3. net' = "loop" /\ dec' \in DecLabels /\ lock' = "free"
    BY <1>10 DEF NetPush, NetGoto, Notify, DecLabels
  <2> QED BY <1>10, <2>2, <2>3 DEF NetLabels, NetPush
<1>11. CASE NetLost
  BY <1>11, <1>0 DEF NetLabels, NetLost, NetGoto, Post
<1>12. CASE DecTop
  BY <1>12 DEF DecLabels, DecTop, DecGoto
<1>13. CASE DecLock
  BY <1>13 DEF DecLabels, DecLock, DecGoto
<1>14. CASE DecTest
  BY <1>14 DEF DecLabels, DecTest, DecGoto
<1>15. CASE DecSleep
  BY <1>15 DEF DecLabels, DecSleep, DecGoto
<1>16. CASE DecSpuriousWake
  BY <1>16 DEF DecLabels, DecSpuriousWake, DecGoto
<1>17. CASE DecTake
  <2>1. queue # <<>>
    BY <1>17 DEF KnowInv, DecTake
  <2>2. /\ queue' \in Seq(Nat \ {0}) /\ hand' \in Nat /\ taken' \subseteq Nat
        /\ lock' = "free" /\ dec' = "decode"
    BY <1>0, <1>17, <2>1 DEF DecTake, DecGoto
  <2> QED BY <1>17, <2>2 DEF DecLabels, DecTake
<1>18. CASE Decode
  BY <1>18 DEF DecLabels, Decode, DecGoto
<1>19. CASE Listen
  BY <1>19 DEF MainLabels, Listen, MainGoto
<1>20. CASE StartNet
  BY <1>20 DEF MainLabels, NetLabels, StartNet, MainGoto, NetGoto
<1>21. CASE StartDec
  BY <1>21 DEF MainLabels, DecLabels, StartDec, MainGoto, DecGoto
<1>22. CASE SetOnStatusChange
  BY <1>22 DEF MainLabels, SetOnStatusChange, MainGoto
<1>23. CASE UpdateCameraStatus
  BY <1>23, <1>0 DEF UpdateCameraStatus
<1>24. CASE StopFlag
  BY <1>24 DEF MainLabels, StopFlag, MainGoto
<1>25. CASE StopClose
  BY <1>25 DEF MainLabels, StopClose, MainGoto
<1>26. CASE StopLock
  BY <1>26 DEF MainLabels, StopLock, MainGoto
<1>27. CASE StopClear
  BY <1>27, <1>0 DEF MainLabels, StopClear, MainGoto
<1>28. CASE StopNotify
  BY <1>28 DEF MainLabels, DecLabels, StopNotify, MainGoto, Notify
<1>29. CASE StopJoinNet
  BY <1>29 DEF MainLabels, StopJoinNet, MainGoto
<1>30. CASE StopJoinDec
  BY <1>30 DEF MainLabels, StopJoinDec, MainGoto
<1>31. CASE StopCamera
  BY <1>31 DEF MainLabels, StopCamera, MainGoto
<1>33. CASE Click
  BY <1>33 DEF Click
<1>32. CASE UNCHANGED vars
  BY <1>32 DEF vars
<1> QED
  BY <1>1, <1>2, <1>3, <1>4, <1>5, <1>6, <1>7, <1>8, <1>9, <1>10, <1>11,
     <1>12, <1>13, <1>14, <1>15, <1>16, <1>17, <1>18, <1>19, <1>20, <1>21,
     <1>22, <1>23, <1>24, <1>25, <1>26, <1>27, <1>28, <1>29, <1>30, <1>31,
     <1>32, <1>33
     DEF Next, Net, Link, Dec, Main, Start, Stopping

LEMMA LockStep == LockInv /\ [Next]_vars => LockInv'
<1> SUFFICES ASSUME LockInv, [Next]_vars PROVE LockInv'
  OBVIOUS
<1> USE DEF LockInv, netVars, queueVars, decVars, mainVars, trayVars
<1>1. CASE ClientConnects
  BY <1>1 DEF LockInv, ClientConnects
<1>2. CASE NetTop
  BY <1>2 DEF LockInv, NetTop, NetGoto
<1>3. CASE NetAccept
  BY <1>3 DEF LockInv, NetAccept, NetGoto, Post
<1>4. CASE NetAcceptFails
  BY <1>4 DEF LockInv, NetAcceptFails, NetGoto
<1>5. CASE NetLoop
  BY <1>5 DEF LockInv, NetLoop, NetGoto
<1>6. CASE NetRead
  BY <1>6 DEF LockInv, NetRead, NetGoto
<1>7. CASE NetDrop
  BY <1>7 DEF LockInv, NetDrop, NetGoto
<1>8. CASE NetLock
  BY <1>8 DEF LockInv, NetLock, NetGoto
<1>9. CASE NetMakeRoom
  BY <1>9 DEF LockInv, NetMakeRoom, NetGoto
<1>10. CASE NetPush
  BY <1>10 DEF LockInv, NetPush, NetGoto, Notify
<1>11. CASE NetLost
  BY <1>11 DEF LockInv, NetLost, NetGoto, Post
<1>12. CASE DecTop
  BY <1>12 DEF LockInv, DecTop, DecGoto
<1>13. CASE DecLock
  BY <1>13 DEF LockInv, DecLock, DecGoto
<1>14. CASE DecTest
  BY <1>14 DEF LockInv, DecTest, DecGoto
<1>15. CASE DecSleep
  BY <1>15 DEF LockInv, DecSleep, DecGoto
<1>16. CASE DecSpuriousWake
  BY <1>16 DEF LockInv, DecSpuriousWake, DecGoto
<1>17. CASE DecTake
  BY <1>17 DEF LockInv, DecTake, DecGoto
<1>18. CASE Decode
  BY <1>18 DEF LockInv, Decode, DecGoto
<1>19. CASE Listen
  BY <1>19 DEF LockInv, Listen, MainGoto
<1>20. CASE StartNet
  BY <1>20 DEF LockInv, StartNet, MainGoto, NetGoto
<1>21. CASE StartDec
  BY <1>21 DEF LockInv, StartDec, MainGoto, DecGoto
<1>22. CASE SetOnStatusChange
  BY <1>22 DEF LockInv, SetOnStatusChange, MainGoto
<1>23. CASE UpdateCameraStatus
  BY <1>23 DEF LockInv, UpdateCameraStatus
<1>24. CASE StopFlag
  BY <1>24 DEF LockInv, StopFlag, MainGoto
<1>25. CASE StopClose
  BY <1>25 DEF LockInv, StopClose, MainGoto
<1>26. CASE StopLock
  BY <1>26 DEF LockInv, StopLock, MainGoto
<1>27. CASE StopClear
  BY <1>27 DEF LockInv, StopClear, MainGoto
<1>28. CASE StopNotify
  BY <1>28 DEF LockInv, StopNotify, MainGoto, Notify
<1>29. CASE StopJoinNet
  BY <1>29 DEF LockInv, StopJoinNet, MainGoto
<1>30. CASE StopJoinDec
  BY <1>30 DEF LockInv, StopJoinDec, MainGoto
<1>31. CASE StopCamera
  BY <1>31 DEF LockInv, StopCamera, MainGoto
<1>33. CASE Click
  BY <1>33 DEF LockInv, Click
<1>32. CASE UNCHANGED vars
  BY <1>32 DEF LockInv, vars
<1> QED
  BY <1>1, <1>2, <1>3, <1>4, <1>5, <1>6, <1>7, <1>8, <1>9, <1>10, <1>11,
     <1>12, <1>13, <1>14, <1>15, <1>16, <1>17, <1>18, <1>19, <1>20, <1>21,
     <1>22, <1>23, <1>24, <1>25, <1>26, <1>27, <1>28, <1>29, <1>30, <1>31,
     <1>32, <1>33
     DEF Next, Net, Link, Dec, Main, Start, Stopping

LEMMA KnowStep == TypeOK /\ LockInv /\ KnowInv /\ [Next]_vars => KnowInv'
<1> SUFFICES ASSUME TypeOK, LockInv, KnowInv, [Next]_vars PROVE KnowInv'
  OBVIOUS
<1> USE PipelineAssumption DEF KnowInv, SleepJustified, netVars, queueVars, decVars, mainVars, trayVars
<1>1. CASE ClientConnects
  BY <1>1 DEF TypeOK, LockInv, ClientConnects
<1>2. CASE NetTop
  BY <1>2 DEF TypeOK, LockInv, NetTop, NetGoto
<1>3. CASE NetAccept
  BY <1>3 DEF TypeOK, LockInv, NetAccept, NetGoto, Post
<1>4. CASE NetAcceptFails
  BY <1>4 DEF TypeOK, LockInv, NetAcceptFails, NetGoto
<1>5. CASE NetLoop
  BY <1>5 DEF TypeOK, LockInv, NetLoop, NetGoto
<1>6. CASE NetRead
  BY <1>6 DEF TypeOK, LockInv, NetRead, NetGoto
<1>7. CASE NetDrop
  BY <1>7 DEF TypeOK, LockInv, NetDrop, NetGoto
<1>8. CASE NetLock
  BY <1>8 DEF TypeOK, LockInv, NetLock, NetGoto
<1>9. CASE NetMakeRoom
  BY <1>9 DEF TypeOK, LockInv, NetMakeRoom, NetGoto
<1>10. CASE NetPush
  BY <1>10 DEF TypeOK, LockInv, NetPush, NetGoto, Notify
<1>11. CASE NetLost
  BY <1>11 DEF TypeOK, LockInv, NetLost, NetGoto, Post
<1>12. CASE DecTop
  BY <1>12 DEF TypeOK, LockInv, DecTop, DecGoto
<1>13. CASE DecLock
  BY <1>13 DEF TypeOK, LockInv, DecLock, DecGoto
<1>14. CASE DecTest
  BY <1>14 DEF TypeOK, LockInv, DecTest, DecGoto
<1>15. CASE DecSleep
  BY <1>15 DEF TypeOK, LockInv, DecSleep, DecGoto
<1>16. CASE DecSpuriousWake
  BY <1>16 DEF TypeOK, LockInv, DecSpuriousWake, DecGoto
<1>17. CASE DecTake
  BY <1>17 DEF TypeOK, LockInv, DecTake, DecGoto
<1>18. CASE Decode
  BY <1>18 DEF TypeOK, LockInv, Decode, DecGoto
<1>19. CASE Listen
  BY <1>19 DEF TypeOK, LockInv, Listen, MainGoto
<1>20. CASE StartNet
  BY <1>20 DEF TypeOK, LockInv, StartNet, MainGoto, NetGoto
<1>21. CASE StartDec
  BY <1>21 DEF TypeOK, LockInv, StartDec, MainGoto, DecGoto
<1>22. CASE SetOnStatusChange
  BY <1>22 DEF TypeOK, LockInv, SetOnStatusChange, MainGoto
<1>23. CASE UpdateCameraStatus
  BY <1>23 DEF TypeOK, LockInv, UpdateCameraStatus
<1>24. CASE StopFlag
  BY <1>24 DEF TypeOK, LockInv, StopFlag, MainGoto
<1>25. CASE StopClose
  BY <1>25 DEF TypeOK, LockInv, StopClose, MainGoto
<1>26. CASE StopLock
  BY <1>26 DEF TypeOK, LockInv, StopLock, MainGoto
<1>27. CASE StopClear
  BY <1>27 DEF TypeOK, LockInv, StopClear, MainGoto
<1>28. CASE StopNotify
  BY <1>28 DEF TypeOK, LockInv, StopNotify, MainGoto, Notify
<1>29. CASE StopJoinNet
  BY <1>29 DEF TypeOK, LockInv, StopJoinNet, MainGoto
<1>30. CASE StopJoinDec
  BY <1>30 DEF TypeOK, LockInv, StopJoinDec, MainGoto
<1>31. CASE StopCamera
  BY <1>31 DEF TypeOK, LockInv, StopCamera, MainGoto
<1>33. CASE Click
  BY <1>33 DEF TypeOK, LockInv, Click
<1>32. CASE UNCHANGED vars
  BY <1>32 DEF TypeOK, LockInv, vars
<1> QED
  BY <1>1, <1>2, <1>3, <1>4, <1>5, <1>6, <1>7, <1>8, <1>9, <1>10, <1>11,
     <1>12, <1>13, <1>14, <1>15, <1>16, <1>17, <1>18, <1>19, <1>20, <1>21,
     <1>22, <1>23, <1>24, <1>25, <1>26, <1>27, <1>28, <1>29, <1>30, <1>31,
     <1>32, <1>33
     DEF Next, Net, Link, Dec, Main, Start, Stopping

LEMMA StopStep == StopInv /\ [Next]_vars => StopInv'
<1> SUFFICES ASSUME StopInv, [Next]_vars PROVE StopInv'
  OBVIOUS
<1> USE DEF StopInv, netVars, queueVars, decVars, mainVars, trayVars
<1>1. CASE ClientConnects
  BY <1>1 DEF StopInv, ClientConnects
<1>2. CASE NetTop
  BY <1>2 DEF StopInv, NetTop, NetGoto
<1>3. CASE NetAccept
  BY <1>3 DEF StopInv, NetAccept, NetGoto, Post
<1>4. CASE NetAcceptFails
  BY <1>4 DEF StopInv, NetAcceptFails, NetGoto
<1>5. CASE NetLoop
  BY <1>5 DEF StopInv, NetLoop, NetGoto
<1>6. CASE NetRead
  BY <1>6 DEF StopInv, NetRead, NetGoto
<1>7. CASE NetDrop
  BY <1>7 DEF StopInv, NetDrop, NetGoto
<1>8. CASE NetLock
  BY <1>8 DEF StopInv, NetLock, NetGoto
<1>9. CASE NetMakeRoom
  BY <1>9 DEF StopInv, NetMakeRoom, NetGoto
<1>10. CASE NetPush
  BY <1>10 DEF StopInv, NetPush, NetGoto, Notify
<1>11. CASE NetLost
  BY <1>11 DEF StopInv, NetLost, NetGoto, Post
<1>12. CASE DecTop
  BY <1>12 DEF StopInv, DecTop, DecGoto
<1>13. CASE DecLock
  BY <1>13 DEF StopInv, DecLock, DecGoto
<1>14. CASE DecTest
  BY <1>14 DEF StopInv, DecTest, DecGoto
<1>15. CASE DecSleep
  BY <1>15 DEF StopInv, DecSleep, DecGoto
<1>16. CASE DecSpuriousWake
  BY <1>16 DEF StopInv, DecSpuriousWake, DecGoto
<1>17. CASE DecTake
  BY <1>17 DEF StopInv, DecTake, DecGoto
<1>18. CASE Decode
  BY <1>18 DEF StopInv, Decode, DecGoto
<1>19. CASE Listen
  BY <1>19 DEF StopInv, Listen, MainGoto
<1>20. CASE StartNet
  BY <1>20 DEF StopInv, StartNet, MainGoto, NetGoto
<1>21. CASE StartDec
  BY <1>21 DEF StopInv, StartDec, MainGoto, DecGoto
<1>22. CASE SetOnStatusChange
  BY <1>22 DEF StopInv, SetOnStatusChange, MainGoto
<1>23. CASE UpdateCameraStatus
  BY <1>23 DEF StopInv, UpdateCameraStatus
<1>24. CASE StopFlag
  BY <1>24 DEF StopInv, StopFlag, MainGoto
<1>25. CASE StopClose
  BY <1>25 DEF StopInv, StopClose, MainGoto
<1>26. CASE StopLock
  BY <1>26 DEF StopInv, StopLock, MainGoto
<1>27. CASE StopClear
  BY <1>27 DEF StopInv, StopClear, MainGoto
<1>28. CASE StopNotify
  BY <1>28 DEF StopInv, StopNotify, MainGoto, Notify
<1>29. CASE StopJoinNet
  BY <1>29 DEF StopInv, StopJoinNet, MainGoto
<1>30. CASE StopJoinDec
  BY <1>30 DEF StopInv, StopJoinDec, MainGoto
<1>31. CASE StopCamera
  BY <1>31 DEF StopInv, StopCamera, MainGoto
<1>33. CASE Click
  BY <1>33 DEF StopInv, Click
<1>32. CASE UNCHANGED vars
  BY <1>32 DEF StopInv, vars
<1> QED
  BY <1>1, <1>2, <1>3, <1>4, <1>5, <1>6, <1>7, <1>8, <1>9, <1>10, <1>11,
     <1>12, <1>13, <1>14, <1>15, <1>16, <1>17, <1>18, <1>19, <1>20, <1>21,
     <1>22, <1>23, <1>24, <1>25, <1>26, <1>27, <1>28, <1>29, <1>30, <1>31,
     <1>32, <1>33
     DEF Next, Net, Link, Dec, Main, Start, Stopping

LEMMA LastOfTail ==
  ASSUME NEW q \in Seq(BOOLEAN), q # <<>>
  PROVE  /\ Tail(q) = <<>> => Head(q) = q[Len(q)]
         /\ Tail(q) # <<>> => Tail(q)[Len(Tail(q))] = q[Len(q)]
<1>1. /\ Len(q) \in Nat /\ Len(q) # 0 /\ Head(q) = q[1]
      /\ Tail(q) \in Seq(BOOLEAN) /\ Len(Tail(q)) = Len(q) - 1
      /\ \A i \in 1..Len(Tail(q)) : Tail(q)[i] = q[i + 1]
  BY HeadTailProperties, EmptySeq, LenProperties
<1>2. Tail(q) = <<>> <=> Len(Tail(q)) = 0
  BY <1>1, EmptySeq
<1>3. CASE Tail(q) = <<>>
  <2>1. Len(q) = 1
    BY <1>1, <1>2, <1>3
  <2> QED BY <1>1, <1>3, <2>1
<1>4. CASE Tail(q) # <<>>
  <2> DEFINE n == Len(Tail(q))
  <2>1. n \in 1..n /\ n + 1 = Len(q)
    BY <1>1, <1>2, <1>4
  <2>2. Tail(q)[n] = q[n + 1]
    BY <1>1, <2>1
  <2> QED BY <1>4, <2>1, <2>2
<1> QED BY <1>3, <1>4

LEMMA TrayStep == TypeOK /\ LockInv /\ TrayInv /\ [Next]_vars => TrayInv'
<1> SUFFICES ASSUME TypeOK, LockInv, TrayInv, [Next]_vars PROVE TrayInv'
  OBVIOUS
<1> USE DEF TrayInv, TrayFollows, Connected, InSession, netVars, queueVars, decVars,
            mainVars, trayVars
<1>0. /\ posted \in Seq(BOOLEAN) /\ callback \in BOOLEAN /\ announced \in BOOLEAN
      /\ tray \in BOOLEAN /\ Len(posted) \in Nat
  BY LenProperties DEF TypeOK
<1>1. ASSUME NEW v \in BOOLEAN, Post(v), UNCHANGED <<callback, main, tray, clicked>>,
             v = Connected', ~callback => ~announced'
      PROVE  TrayInv'
  <2>1. CASE callback
    <3>1. posted' = Append(posted, v)
      BY <1>1, <2>1 DEF Post
    <3>2. posted' # <<>> /\ posted'[Len(posted')] = v
      BY <1>0, <1>1, <3>1, AppendProperties
    <3> QED BY <1>1, <2>1, <3>2
  <2>2. CASE ~callback
    BY <1>1, <2>2 DEF Post
  <2> QED BY <2>1, <2>2
<1>2. CASE NetAccept
  <2>1. /\ net' = "loop" /\ announced' = callback
        /\ UNCHANGED <<callback, main, tray, clicked>>
    BY <1>2 DEF NetAccept, NetGoto
  <2>2. Connected' = callback
    BY <1>0, <2>1
  <2>3. CASE callback
    BY <1>1, <1>2, <2>1, <2>2, <2>3 DEF NetAccept
  <2>4. CASE ~callback
    BY <1>2, <2>1, <2>2, <2>4 DEF NetAccept, Post
  <2> QED BY <2>3, <2>4
<1>3. CASE NetLost
  <2>1. /\ Connected' = FALSE /\ announced' = FALSE
        /\ UNCHANGED <<callback, main, tray, clicked>>
    BY <1>3 DEF NetLost, NetGoto
  <2> QED BY <1>1, <1>3, <2>1 DEF NetLost
<1>4. CASE UpdateCameraStatus
  <2>1. callback /\ posted # <<>> /\ tray' = Head(posted) /\ posted' = Tail(posted)
        /\ UNCHANGED <<net, announced, main, callback>>
    BY <1>4 DEF UpdateCameraStatus
  <2>2. CASE Tail(posted) = <<>>
    <3>1. Head(posted) = posted[Len(posted)]
      BY <1>0, <2>1, <2>2, LastOfTail
    <3> QED BY <2>1, <2>2, <3>1
  <2>3. CASE Tail(posted) # <<>>
    <3>1. Tail(posted)[Len(Tail(posted))] = posted[Len(posted)]
      BY <1>0, <2>1, <2>3, LastOfTail
    <3> QED BY <2>1, <2>3, <3>1
  <2> QED BY <2>2, <2>3
<1>5. CASE Click
  BY <1>5 DEF Click
<1>6. CASE SetOnStatusChange
  BY <1>6 DEF SetOnStatusChange, MainGoto
<1>7. CASE NetTop \/ NetAcceptFails \/ NetLoop \/ NetRead \/ NetDrop \/ NetLock
           \/ NetMakeRoom \/ NetPush
  <2>1. UNCHANGED <<posted, tray, clicked, callback, main, announced>>
        /\ (InSession' <=> InSession)
    BY <1>7 DEF NetTop, NetAcceptFails, NetLoop, NetRead, NetDrop, NetLock,
       NetMakeRoom, NetPush, NetGoto
  <2> QED BY <2>1
<1>8. CASE Listen \/ StartNet \/ StartDec \/ StopFlag \/ Stopping
  <2>1. /\ UNCHANGED <<posted, tray, clicked, callback, announced>>
        /\ (InSession' <=> InSession)
    BY <1>8 DEF Listen, StartNet, StartDec, StopFlag, Stopping, StopClose, StopLock,
       StopClear, StopNotify, StopJoinNet, StopJoinDec, StopCamera, NetGoto, LockInv
  <2>2. callback' <=> main' \notin {"start", "netThread", "decThread", "callback"}
    BY <1>8 DEF Listen, StartNet, StartDec, StopFlag, Stopping, StopClose, StopLock,
       StopClear, StopNotify, StopJoinNet, StopJoinDec, StopCamera, MainGoto
  <2> QED BY <2>1, <2>2
<1>9. CASE ClientConnects \/ Dec \/ DecSpuriousWake \/ UNCHANGED vars
  <2>1. UNCHANGED <<posted, tray, clicked, callback, main, announced, net>>
    BY <1>9 DEF ClientConnects, Dec, DecTop, DecLock, DecTest, DecSleep, DecTake,
       Decode, DecSpuriousWake, vars
  <2> QED BY <2>1
<1> QED
  BY <1>2, <1>3, <1>4, <1>5, <1>6, <1>7, <1>8, <1>9 DEF Next, Net, Link, Main, Start

LEMMA PipeInit == Init => PipeInv
<1> SUFFICES ASSUME Init PROVE PipeInv
  OBVIOUS
<1>1. TypeOK
  BY EmptySeq DEF Init, TypeOK, NetLabels, DecLabels, MainLabels
<1>2. LockInv /\ StopInv
  BY DEF Init, LockInv, StopInv
<1>3. KnowInv
  BY EmptySeq, PipelineAssumption DEF Init, KnowInv, SleepJustified
<1>4. TrayInv
  BY DEF Init, TrayInv, TrayFollows, Connected, InSession
<1> QED BY <1>1, <1>2, <1>3, <1>4 DEF PipeInv

LEMMA PipeStep == PipeInv /\ [Next]_vars => PipeInv'
  BY TypeStep, LockStep, KnowStep, StopStep, TrayStep DEF PipeInv

THEOREM PipeInvariant == Spec => []PipeInv
  BY PipeInit, PipeStep, PTL DEF Spec

\* Every behaviour keeps the types of the variables: a thread takes from the
\* queue only when there is something in it.
THEOREM TypeCorrect == Spec => []TypeOK
<1>1. PipeInv => TypeOK
  BY DEF PipeInv
<1> QED BY <1>1, PipeInvariant, PTL

\* No wake-up is lost: the decode thread never sleeps on a queue with work, nor
\* through a stop() that has already notified.
THEOREM NoLostWakeup == Spec => []SleepJustified
<1>1. PipeInv => SleepJustified
  BY DEF PipeInv, KnowInv
<1> QED BY <1>1, PipeInvariant, PTL

\* stop() returns only when both threads have ended and the camera is released.
THEOREM StopIsClean == Spec => []StopReleases
<1>1. PipeInv => StopReleases
  BY DEF PipeInv, StopInv, LockInv, TypeOK, StopReleases
<1> QED BY <1>1, PipeInvariant, PTL

\* The events reach the tray in the order of what happened, whatever the user
\* clicks: the last one tells whether a phone is connected.
THEOREM TrayIsTold == Spec => []TrayFollows
<1>1. PipeInv => TrayFollows
  BY DEF PipeInv, TrayInv
<1> QED BY <1>1, PipeInvariant, PTL

-----------------------------------------------------------------------------
(* The queue behind its mutex implements LossyQueue.                         *)

LEMMA Simulates == PipeInv /\ [Next]_vars => [Q!Next]_(Q!vars)
<1> SUFFICES ASSUME PipeInv, [Next]_vars PROVE [Q!Next]_(Q!vars)
  OBVIOUS
<1> USE DEF netVars, queueVars, decVars, mainVars, trayVars
<1>0. /\ queue \in Seq(Nat \ {0}) /\ arrived \in Nat /\ running \in BOOLEAN
      /\ Len(queue) \in Nat
  BY LenProperties DEF PipeInv, TypeOK
<1>1. CASE NetPush
  <2>1. /\ arrived > 0 /\ Len(queue) < Depth /\ Put = arrived - 1 /\ Put' = arrived
        /\ queue' = Append(queue, arrived)
        /\ UNCHANGED <<taken, dropped, running>>
    BY <1>1 DEF PipeInv, KnowInv, NetPush, NetGoto, Put
  <2>2. Q!Put
    BY <1>0, <2>1 DEF Q!Put
  <2> QED BY <2>2 DEF Q!Next
<1>2. CASE NetMakeRoom
  <2>1. UNCHANGED <<Put, taken, running>>
    BY <1>2 DEF NetMakeRoom, NetGoto, Put
  <2>2. Len(queue) <= Depth
    BY DEF PipeInv, KnowInv
  <2>3. CASE Len(queue) >= Depth
    <3>1. Len(queue) = Depth
      BY <1>0, <2>2, <2>3, PipelineAssumption
    <3>2. Q!Drop
      BY <1>2, <2>1, <2>3, <3>1 DEF NetMakeRoom, Q!Drop, Range, Q!Range
    <3> QED BY <3>2 DEF Q!Next
  <2>4. CASE ~(Len(queue) >= Depth)
    BY <1>2, <2>1, <2>4 DEF NetMakeRoom, Q!vars
  <2> QED BY <2>3, <2>4
<1>3. CASE DecTake
  <2>1. queue # <<>> /\ UNCHANGED <<Put, dropped, running>>
    BY <1>3 DEF PipeInv, KnowInv, DecTake, Put
  <2>2. Q!Take
    BY <1>3, <2>1 DEF DecTake, Q!Take
  <2> QED BY <2>2 DEF Q!Next
<1>4. CASE StopClear
  <2>1. ~running /\ UNCHANGED <<Put, taken, running>>
    BY <1>4 DEF StopClear, Put, PipeInv, StopInv
  <2>2. Q!Drop
    BY <1>4, <2>1 DEF StopClear, Q!Drop, Range, Q!Range
  <2> QED BY <2>2 DEF Q!Next
<1>5. CASE Listen \/ StopFlag
  <2>1. running' \in BOOLEAN /\ UNCHANGED <<Put, queue, taken, dropped>>
    BY <1>5 DEF Listen, StopFlag, Put
  <2> QED BY <2>1 DEF Q!Next, Q!Switch
<1>6. CASE \/ NetTop \/ NetAccept \/ NetAcceptFails \/ NetLoop \/ NetDrop
           \/ NetLock \/ NetLost \/ StartNet
  <2>1. UNCHANGED <<Put, queue, taken, dropped, running>>
    BY <1>6 DEF NetTop, NetAccept, NetAcceptFails, NetLoop, NetDrop, NetLock,
       NetLost, StartNet, NetGoto, MainGoto, Put, PipeInv, LockInv
  <2> QED BY <2>1 DEF Q!vars
<1>7. CASE NetRead
  <2>1. UNCHANGED <<Put, queue, taken, dropped, running>>
    BY <1>0, <1>7 DEF NetRead, NetGoto, Put
  <2> QED BY <2>1 DEF Q!vars
<1>8. CASE \/ ClientConnects \/ DecTop \/ DecLock \/ DecTest \/ DecSleep
           \/ DecSpuriousWake \/ Decode \/ StartDec \/ SetOnStatusChange
           \/ UpdateCameraStatus \/ StopClose \/ StopLock \/ StopNotify
           \/ StopJoinNet \/ StopJoinDec \/ StopCamera \/ Click \/ UNCHANGED vars
  <2>1. UNCHANGED <<Put, queue, taken, dropped, running>>
    BY <1>8 DEF ClientConnects, DecTop, DecLock, DecTest, DecSleep,
       DecSpuriousWake, Decode, StartDec, SetOnStatusChange, UpdateCameraStatus,
       StopClose, StopLock, StopNotify, StopJoinNet, StopJoinDec, StopCamera,
       Click, vars, Put
  <2> QED BY <2>1 DEF Q!vars
<1> QED
  BY <1>1, <1>2, <1>3, <1>4, <1>5, <1>6, <1>7, <1>8
     DEF Next, Net, Link, Dec, Main, Start, Stopping

LEMMA SimulatesInit == Init => Q!Init
  BY DEF Init, Q!Init, Put

\* The deque, the mutex and the condition variable implement a queue that
\* loses NALUs only by losing all of them.
THEOREM ImplementsLossyQueue == Spec => QueueRefines
  BY SimulatesInit, Simulates, PipeInvariant, PTL DEF Spec, QueueRefines, Q!Spec

P == INSTANCE LossyQueueProofs WITH put <- Put, buf <- queue, lost <- dropped,
                                    open <- running

\* What LossyQueue keeps, the receiver keeps: the decoder is fed in order.
THEOREM FedInOrder == Spec => []QueueSound
<1>1. Q!QueueInv /\ [Q!Next]_(Q!vars) => Q!QueueInv'
  BY P!StepQueue, PipelineAssumption
     DEF P!QueueInv, P!Next, P!vars, P!Consecutive, P!Before, P!Accounted,
         Q!QueueInv, Q!Next, Q!vars, Q!Consecutive, Q!Before, Q!Accounted,
         P!Put, P!Take, P!Drop, P!Switch, Q!Put, Q!Take, Q!Drop, Q!Switch, P!Range, Q!Range
<1>2. Q!Init => Q!QueueInv
  BY P!InitQueue, PipelineAssumption
     DEF P!QueueInv, P!Init, P!Consecutive, P!Before, P!Accounted, P!Range,
         Q!QueueInv, Q!Init, Q!Consecutive, Q!Before, Q!Accounted, Q!Range
<1> QED
  BY <1>1, <1>2, SimulatesInit, Simulates, PipeInvariant, PTL DEF Spec, QueueSound
=============================================================================
