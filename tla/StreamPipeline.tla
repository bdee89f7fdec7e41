--------------------------- MODULE StreamPipeline ---------------------------
(***************************************************************************)
(* The video path of StreamReceiver: the network thread that accepts one   *)
(* phone at a time and queues its H.264 units (NALUs), the decode thread   *)
(* that waits on a condition variable and feeds the decoder and the        *)
(* virtual camera, and the Qt thread that starts and stops them and shows  *)
(* the state of the camera in the tray.                                    *)
(*                                                                         *)
(* NALUs are numbered as they arrive.  A step of a thread is a piece of    *)
(* its code that no other thread can observe in part: the mutex of the     *)
(* queue is taken and given up explicitly, and the evaluation of the       *)
(* predicate of wait() is a step apart from going to sleep.                *)
(***************************************************************************)
EXTENDS Naturals, Sequences, Functions

CONSTANTS
    Depth,       \* kMaxQueueDepth
    MaxNalus,    \* bound: NALUs that arrive
    MaxClients   \* bound: connections that are made

ASSUME PipelineAssumption ==
    Depth \in Nat \ {0} /\ MaxNalus \in Nat /\ MaxClients \in Nat

VARIABLES
    running,    \* m_running
    listening,  \* m_acceptor is open
    lock,       \* who holds s_queueMutex: "net", "dec", "main" or "free"
    queue,      \* s_naluQueue
    net, dec, main,  \* where the three threads are
    arrived,    \* NALUs read from the socket
    hand,       \* the NALU the decode thread works on
    camera,     \* "none" before it opens, "open", "closed"
    callback,   \* m_onStatus has been set
    announced,  \* m_onStatus was set when the present phone was accepted
    waiting,    \* phones in the backlog of the acceptor
    clients,    \* connections made so far
    posted,     \* status events queued for the Qt thread
    tray,       \* m_cameraActive
    clicked,    \* history: the user changed it after the last event was shown
    taken,      \* history: NALUs given to the decoder
    dropped     \* history: NALUs cleared from the queue

netVars   == <<net, arrived, announced, waiting, clients>>
queueVars == <<queue, taken, dropped>>
decVars   == <<dec, hand, camera>>
trayVars  == <<tray, clicked>>
mainVars  == <<main, running, listening, callback, trayVars>>
vars == <<netVars, queueVars, decVars, mainVars, lock, posted>>

-----------------------------------------------------------------------------
(* The phone                                                               *)

ClientConnects ==
    /\ listening /\ clients < MaxClients
    /\ clients' = clients + 1 /\ waiting' = waiting + 1
    /\ UNCHANGED <<net, arrived, announced, queueVars, decVars, mainVars, lock, posted>>

-----------------------------------------------------------------------------
(* The network thread: acceptLoop and receiveLoop                          *)

NetGoto(l) == net' = l
Post(active) == posted' = IF callback THEN Append(posted, active) ELSE posted

\* while (m_running) of acceptLoop
NetTop ==
    /\ net = "top"
    /\ NetGoto(IF running THEN "accept" ELSE "exited")
    /\ UNCHANGED <<arrived, announced, waiting, clients, queueVars, decVars, mainVars,
                   lock, posted>>

\* accept() returns a phone, and its arrival is announced.
NetAccept ==
    /\ net = "accept" /\ listening /\ waiting > 0
    /\ waiting' = waiting - 1
    /\ Post(TRUE) /\ announced' = callback
    /\ NetGoto("loop")
    /\ UNCHANGED <<arrived, clients, queueVars, decVars, mainVars, lock>>

\* accept() fails: the acceptor was closed.
NetAcceptFails ==
    /\ net = "accept" /\ ~listening
    /\ NetGoto("exited")
    /\ UNCHANGED <<arrived, announced, waiting, clients, queueVars, decVars, mainVars,
                   lock, posted>>

\* while (m_running) of receiveLoop
NetLoop ==
    /\ net = "loop"
    /\ NetGoto(IF running THEN "read" ELSE "lost")
    /\ UNCHANGED <<arrived, announced, waiting, clients, queueVars, decVars, mainVars,
                   lock, posted>>

\* A whole NALU has been read.
NetRead ==
    /\ net = "read" /\ arrived < MaxNalus
    /\ arrived' = arrived + 1
    /\ NetGoto("lock")
    /\ UNCHANGED <<announced, waiting, clients, queueVars, decVars, mainVars, lock, posted>>

\* The phone is gone, or the length it sent is not valid.
NetDrop ==
    /\ net = "read"
    /\ NetGoto("lost")
    /\ UNCHANGED <<arrived, announced, waiting, clients, queueVars, decVars, mainVars,
                   lock, posted>>

NetLock ==
    /\ net = "lock" /\ lock = "free"
    /\ lock' = "net" /\ NetGoto("room")
    /\ UNCHANGED <<arrived, announced, waiting, clients, queueVars, decVars, mainVars,
                   posted>>

MakeRoomLate ==   \* mutant: ">" in place of ">="
    /\ net = "room"
    /\ IF Len(queue) > Depth
       THEN queue' = <<>> /\ dropped' = dropped \cup Range(queue)
       ELSE UNCHANGED <<queue, dropped>>
    /\ NetGoto("push")
    /\ UNCHANGED <<arrived, announced, waiting, clients, taken, decVars, mainVars,
                   lock, posted>>

MakeRoomOldest ==   \* mutant: pop_front in place of clear
    /\ net = "room"
    /\ IF Len(queue) >= Depth
       THEN queue' = Tail(queue) /\ dropped' = dropped \cup {Head(queue)}
       ELSE UNCHANGED <<queue, dropped>>
    /\ NetGoto("push")
    /\ UNCHANGED <<arrived, announced, waiting, clients, taken, decVars, mainVars,
                   lock, posted>>

\* A full queue is cleared, to start again from what comes now.
NetMakeRoom ==
    /\ net = "room"
    /\ IF Len(queue) >= Depth
       THEN queue' = <<>> /\ dropped' = dropped \cup Range(queue)
       ELSE UNCHANGED <<queue, dropped>>
    /\ NetGoto("push")
    /\ UNCHANGED <<arrived, announced, waiting, clients, taken, decVars, mainVars,
                   lock, posted>>

\* notify: a thread asleep in wait() goes on to take the mutex again.
Notify == dec' = IF dec = "asleep" THEN "lock" ELSE dec

PushSilently ==   \* mutant: notify_one is missing
    /\ net = "push"
    /\ queue' = Append(queue, arrived)
    /\ lock' = "free" /\ NetGoto("loop")
    /\ UNCHANGED dec
    /\ UNCHANGED <<arrived, announced, waiting, clients, taken, dropped, hand, camera,
                   mainVars, posted>>

PushMoved ==   \* mutant: the buffer was moved away before it is pushed
    /\ net = "push"
    /\ queue' = Append(queue, 0)
    /\ Notify /\ lock' = "free"
    /\ NetGoto("loop")
    /\ UNCHANGED <<arrived, announced, waiting, clients, taken, dropped, hand, camera,
                   mainVars, posted>>

\* push_back, notify_one and the release of the mutex
NetPush ==
    /\ net = "push"
    /\ queue' = Append(queue, arrived)
    /\ Notify /\ lock' = "free"
    /\ NetGoto("loop")
    /\ UNCHANGED <<arrived, announced, waiting, clients, taken, dropped, hand, camera,
                   mainVars, posted>>

LostUnannounced ==   \* mutant: the end of the session is not announced
    /\ net = "lost"
    /\ announced' = FALSE
    /\ NetGoto("top")
    /\ UNCHANGED <<arrived, waiting, clients, queueVars, decVars, mainVars, lock, posted>>

LostForGood ==   \* mutant: the thread ends with its first session
    /\ net = "lost"
    /\ Post(FALSE) /\ announced' = FALSE
    /\ NetGoto("exited")
    /\ UNCHANGED <<arrived, waiting, clients, queueVars, decVars, mainVars, lock>>

\* receiveLoop has returned: the end of the session is announced.
NetLost ==
    /\ net = "lost"
    /\ Post(FALSE) /\ announced' = FALSE
    /\ NetGoto("top")
    /\ UNCHANGED <<arrived, waiting, clients, queueVars, decVars, mainVars, lock>>

Net == NetTop \/ NetAccept \/ NetAcceptFails \/ NetLoop \/ NetLock \/ NetMakeRoom
       \/ NetPush \/ NetLost
Link == NetRead \/ NetDrop

-----------------------------------------------------------------------------
(* The decode thread: decodeLoop                                           *)

DecGoto(l) == dec' = l

DecTop ==
    /\ dec = "top"
    /\ DecGoto(IF running THEN "lock" ELSE "exited")
    /\ UNCHANGED <<netVars, queueVars, hand, camera, mainVars, lock, posted>>

DecLock ==
    /\ dec = "lock" /\ lock = "free"
    /\ lock' = "dec" /\ DecGoto("test")
    /\ UNCHANGED <<netVars, queueVars, hand, camera, mainVars, posted>>

\* The predicate of wait(), and the condition that ends the loop.
DecTest ==
    /\ dec = "test"
    /\ \/ queue # <<>> /\ DecGoto("take") /\ UNCHANGED lock
       \/ queue = <<>> /\ running /\ DecGoto("sleep") /\ UNCHANGED lock
       \/ queue = <<>> /\ ~running /\ DecGoto("exited") /\ lock' = "free"
    /\ UNCHANGED <<netVars, queueVars, hand, camera, mainVars, posted>>

\* wait() gives up the mutex and sleeps, in one step.
DecSleep ==
    /\ dec = "sleep"
    /\ DecGoto("asleep") /\ lock' = "free"
    /\ UNCHANGED <<netVars, queueVars, hand, camera, mainVars, posted>>

\* wait() may also wake without being notified.
DecSpuriousWake ==
    /\ dec = "asleep"
    /\ DecGoto("lock")
    /\ UNCHANGED <<netVars, queueVars, hand, camera, mainVars, lock, posted>>

DecTake ==
    /\ dec = "take"
    /\ hand' = Head(queue) /\ queue' = Tail(queue)
    /\ taken' = taken \cup {Head(queue)}
    /\ DecGoto("decode") /\ lock' = "free"
    /\ UNCHANGED <<netVars, dropped, camera, mainVars, posted>>

\* pushNalu: a frame that comes out opens the camera, if it is not open, and
\* is sent to it; a NALU may give no frame, and the camera may fail to open.
Decode ==
    /\ dec = "decode"
    /\ camera' \in {camera, "open"}
    /\ DecGoto("top") /\ hand' = 0
    /\ UNCHANGED <<netVars, queueVars, mainVars, lock, posted>>

Dec == DecTop \/ DecLock \/ DecTest \/ DecSleep \/ DecTake \/ Decode

-----------------------------------------------------------------------------
(* The Qt thread: start(), the event loop, stop()                          *)

MainGoto(l) == main' = l

\* start(): the acceptor listens and the two threads begin.
Listen ==
    /\ main = "start"
    /\ listening' = TRUE /\ running' = TRUE
    /\ MainGoto("netThread")
    /\ UNCHANGED <<netVars, queueVars, decVars, callback, trayVars, lock, posted>>

StartNet ==
    /\ main = "netThread"
    /\ NetGoto("top") /\ MainGoto("decThread")
    /\ UNCHANGED <<arrived, announced, waiting, clients, queueVars, decVars, running,
                   listening, callback, trayVars, lock, posted>>

StartDec ==
    /\ main = "decThread"
    /\ DecGoto("top") /\ MainGoto("callback")
    /\ UNCHANGED <<netVars, queueVars, hand, camera, running, listening, callback,
                   trayVars, lock, posted>>

\* Application sets the callback only after start().
SetOnStatusChange ==
    /\ main = "callback"
    /\ callback' = TRUE /\ MainGoto("events")
    /\ UNCHANGED <<netVars, queueVars, decVars, running, listening, trayVars, lock, posted>>

\* The event loop delivers a status event to the tray.
UpdateCameraStatus ==
    /\ main = "events" /\ posted # <<>>
    /\ tray' = Head(posted) /\ posted' = Tail(posted)
    /\ clicked' = FALSE
    /\ UNCHANGED <<netVars, queueVars, decVars, main, running, listening, callback, lock>>

\* The user clicks "Iniciar câmera" or "Parar câmera", whichever of the two the
\* menu has: the tray changes, the stream goes on.
Click ==
    /\ main = "events"
    /\ tray' = ~tray /\ clicked' = TRUE
    /\ UNCHANGED <<netVars, queueVars, decVars, main, running, listening, callback, lock,
                   posted>>

StopFlag ==
    /\ main = "events"
    /\ running' = FALSE /\ MainGoto("close")
    /\ UNCHANGED <<netVars, queueVars, decVars, listening, callback, trayVars, lock, posted>>

StopClose ==
    /\ main = "close"
    /\ listening' = FALSE /\ waiting' = 0
    /\ MainGoto("lock")
    /\ UNCHANGED <<net, arrived, announced, clients, queueVars, decVars, running,
                   callback, trayVars, lock, posted>>

StopLock ==
    /\ main = "lock" /\ lock = "free"
    /\ lock' = "main" /\ MainGoto("clear")
    /\ UNCHANGED <<netVars, queueVars, decVars, running, listening, callback, trayVars, posted>>

StopClear ==
    /\ main = "clear"
    /\ queue' = <<>> /\ dropped' = dropped \cup Range(queue)
    /\ lock' = "free" /\ MainGoto("notify")
    /\ UNCHANGED <<netVars, taken, decVars, running, listening, callback, trayVars, posted>>

StopSilently ==   \* mutant: notify_all is missing
    /\ main = "notify"
    /\ MainGoto("joinNet")
    /\ UNCHANGED <<netVars, queueVars, decVars, running, listening, callback,
                   trayVars, lock, posted>>

StopNotify ==
    /\ main = "notify"
    /\ Notify /\ MainGoto("joinNet")
    /\ UNCHANGED <<netVars, queueVars, hand, camera, running, listening, callback,
                   trayVars, lock, posted>>

StopJoinNet ==
    /\ main = "joinNet" /\ net = "exited"
    /\ MainGoto("joinDec")
    /\ UNCHANGED <<netVars, queueVars, decVars, running, listening, callback, trayVars,
                   lock, posted>>

StopDetachDec ==   \* mutant: the decode thread is not joined
    /\ main = "joinDec"
    /\ MainGoto("camera")
    /\ UNCHANGED <<netVars, queueVars, decVars, running, listening, callback, trayVars,
                   lock, posted>>

StopJoinDec ==
    /\ main = "joinDec" /\ dec = "exited"
    /\ MainGoto("camera")
    /\ UNCHANGED <<netVars, queueVars, decVars, running, listening, callback, trayVars,
                   lock, posted>>

StopCamera ==
    /\ main = "camera"
    /\ camera' = IF camera = "open" THEN "closed" ELSE camera
    /\ MainGoto("stopped")
    /\ UNCHANGED <<netVars, queueVars, dec, hand, running, listening, callback, trayVars,
                   lock, posted>>

Start == Listen \/ StartNet \/ StartDec \/ SetOnStatusChange
Stopping == StopClose \/ StopLock \/ StopClear \/ StopNotify \/ StopJoinNet
            \/ StopJoinDec \/ StopCamera
Main == Start \/ UpdateCameraStatus \/ Click \/ StopFlag \/ Stopping

-----------------------------------------------------------------------------
Init ==
    /\ running = FALSE /\ listening = FALSE /\ lock = "free" /\ queue = <<>>
    /\ net = "off" /\ dec = "off" /\ main = "start"
    /\ arrived = 0 /\ hand = 0 /\ camera = "none"
    /\ callback = FALSE /\ announced = FALSE /\ waiting = 0 /\ clients = 0
    /\ posted = <<>> /\ tray = FALSE /\ clicked = FALSE /\ taken = {} /\ dropped = {}

Next == ClientConnects \/ Net \/ Link \/ Dec \/ DecSpuriousWake \/ Main

Spec == Init /\ [][Next]_vars

\* The operating system schedules the threads; a mutex that is free again and
\* again is given in the end to a thread that waits for it.
ThreadFairness ==
    /\ WF_vars(NetTop \/ NetAccept \/ NetAcceptFails \/ NetLoop \/ NetMakeRoom
               \/ NetPush \/ NetLost)
    /\ WF_vars(DecTop \/ DecTest \/ DecSleep \/ DecTake \/ Decode)
    /\ WF_vars(Start \/ UpdateCameraStatus)
    /\ WF_vars(Stopping)
    /\ SF_vars(NetLock) /\ SF_vars(DecLock) /\ SF_vars(StopLock)

\* A phone sends or goes away sooner or later.
LinkFairness == WF_vars(Link)

FairSpec == Spec /\ ThreadFairness /\ LinkFairness

-----------------------------------------------------------------------------
NetLabels == {"off", "top", "accept", "loop", "read", "lock", "room", "push",
              "lost", "exited"}
DecLabels == {"off", "top", "lock", "test", "sleep", "asleep", "take", "decode",
              "exited"}
MainLabels == {"start", "netThread", "decThread", "callback", "events", "close",
               "lock", "clear", "notify", "joinNet", "joinDec", "camera", "stopped"}

\* Every variable keeps its type.
TypeOK ==
    /\ running \in BOOLEAN /\ listening \in BOOLEAN
    /\ lock \in {"free", "net", "dec", "main"}
    /\ queue \in Seq(Nat \ {0})
    /\ net \in NetLabels /\ dec \in DecLabels /\ main \in MainLabels
    /\ arrived \in Nat /\ hand \in Nat
    /\ camera \in {"none", "open", "closed"}
    /\ callback \in BOOLEAN /\ announced \in BOOLEAN
    /\ waiting \in Nat /\ clients \in Nat
    /\ posted \in Seq(BOOLEAN) /\ tray \in BOOLEAN /\ clicked \in BOOLEAN
    /\ taken \subseteq Nat /\ dropped \subseteq Nat

\* The decode thread sleeps only while there is nothing to decode, and while
\* whoever stops the receiver has still to wake it.
SleepJustified ==
    dec = "asleep" =>
        /\ queue = <<>>
        /\ running \/ main \in {"close", "lock", "clear", "notify"}

\* Once stop() has returned no thread is left and the camera is released: the
\* decode thread, which would open it again, ended before it was closed.
StopReleases ==
    main = "stopped" => /\ net = "exited" /\ dec = "exited"
                        /\ camera # "open" /\ lock = "free"

\* The last event the tray is sent tells whether a phone is connected that was
\* accepted after the callback was set; so does the tray, once it has seen every
\* event and until the user clicks.
InSession == net \in {"loop", "read", "lock", "room", "push", "lost"}
Connected == InSession /\ announced
TrayFollows ==
    /\ posted # <<>> => posted[Len(posted)] = Connected
    /\ posted = <<>> /\ ~clicked => tray = Connected

-----------------------------------------------------------------------------
(* The queue as its users see it                                           *)

Put == IF net \in {"lock", "room", "push"} THEN arrived - 1 ELSE arrived

Q == INSTANCE LossyQueue WITH put <- Put, buf <- queue, lost <- dropped,
                              open <- running

\* The queue behind its mutex does what LossyQueue allows, and nothing else.
QueueRefines == Q!Spec

\* No NALU is given to the decoder out of order, twice or after being dropped,
\* and none disappears otherwise.
QueueSound == Q!QueueInv

\* stop() comes to its end.
StopCompletes == (main = "close") ~> (main = "stopped")

\* A NALU that was queued is decoded, or dropped with all the others, unless
\* the receiver is stopped: one that is pushed after stop() cleared the queue
\* stays there.
NaluLeaves ==
    \A n \in 1..MaxNalus : (n <= Put) ~> (n \in taken \cup dropped \/ ~running)

\* A phone that waits while the connection before it is lost is accepted:
\* guia_futuro.md:196.
NextClientAccepted ==
    (waiting > 0 /\ net = "lost") ~> ((InSession /\ net # "lost") \/ ~running)
=============================================================================
