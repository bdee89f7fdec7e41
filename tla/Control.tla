------------------------------- MODULE Control -------------------------------
(***************************************************************************)
(* The control channel: WsServer and WsSession on the thread of their      *)
(* io_context, and the part of Application that answers them on the Qt     *)
(* thread.  It covers how a phone connects, is greeted and is forgotten,   *)
(* the queue of messages written to it, the session files are offered to,  *)
(* and the mirror setting (flip) that the PC and the phones share.         *)
(*                                                                         *)
(* The io thread runs one handler at a time.  A handler is one step here,  *)
(* except two, within which the Qt thread can take a step: that of "hello" *)
(* reads the flip setting and then sends it, and that of a lost connection *)
(* removes the session and then tells Application.  Handlers posted to the *)
(* io_context run in the order in which they were posted.                  *)
(***************************************************************************)
EXTENDS Naturals, Sequences, FiniteSets, Functions

CONSTANTS
    MaxSessions,  \* bound: phones that connect; ids count from 1
    MaxInputs,    \* bound: changes of the setting, by whomever, pings, and
                  \* hellos of a phone that was greeted before
    StoredFlip    \* flipHorizontal of the settings file at startup

ASSUME ControlAssumption ==
    /\ MaxSessions \in Nat /\ MaxInputs \in Nat
    /\ StoredFlip \in BOOLEAN

Sessions == 1..MaxSessions
All == 0                \* the target of a broadcast
NoSession == 0
Quiet == <<>>           \* the Qt thread has nothing to broadcast

VARIABLES
    main,       \* where the Qt thread is
    flip,       \* what getFlipHorizontal() returns
    stored,     \* flipHorizontal in the settings file
    shown,      \* the check mark in the tray menu
    announce,   \* <<value>> the Qt thread is about to broadcast, or Quiet
    events,     \* set_flip events queued for the Qt thread
    target,     \* session sendFiles() is about to send to
    next,       \* m_nextId
    conn,       \* state of the connection of a session
    sessions,   \* keys of m_sessions
    greeted,    \* sessions whose hello has arrived
    current,    \* m_currentSessionId
    io,         \* handler of the io thread that is under way
    tasks,      \* handlers posted to the io_context: <<target, message>>
    out,        \* m_writeQueue of a session
    writing,    \* async_write operations in flight for a session
    heard,      \* what the phone has received: the kinds of its messages, and
                \* <<value>> of the last that told the flip setting
    early,      \* history: sessions written to before their handshake ended
    begun,      \* history: sessions greeted before startup was over
    inputs, offered   \* counters that bound the model

qtVars   == <<main, flip, stored, shown, announce, target>>
linkVars == <<next, conn, sessions, greeted, current, begun>>
outVars  == <<out, writing, heard, early>>
bounds   == <<inputs, offered>>
vars == <<qtVars, events, linkVars, io, tasks, outVars, bounds>>

-----------------------------------------------------------------------------
(* The io thread                                                           *)

\* ioc.run() serves handlers until ioc.stop().
Serving == main \notin {"closing", "ended"}
IoFree  == Serving /\ io.at = "idle"
Busy(l, s, f) == io' = [at |-> l, of |-> s, flip |-> f]
Post(to, m) == tasks' = Append(tasks, <<to, m>>)

\* A message is its kind and the flip setting it tells, if it tells one.
Plain(kind) == <<kind, TRUE>>

\* The file manager exists.
Managed == main \in {"tray", "events", "sending", "stopping"}

\* A TCP connection is accepted: its session is stored, its handshake begins.
Accept ==
    /\ IoFree /\ main # "stopping" /\ next <= MaxSessions
    /\ next' = next + 1
    /\ conn' = [conn EXCEPT ![next] = "handshake"]
    /\ sessions' = sessions \cup {next}
    /\ UNCHANGED <<qtVars, events, greeted, current, begun, io, tasks, outVars, bounds>>

SetConn(s, from, to) == conn[s] \in from /\ conn' = [conn EXCEPT ![s] = to]

\* The WebSocket handshake of a session succeeds, or fails: then nothing else
\* is done, and the session stays in m_sessions.
Handshake(s) ==
    /\ IoFree
    /\ SetConn(s, {"handshake"}, "open") \/ SetConn(s, {"handshake"}, "failed")
    /\ UNCHANGED <<qtVars, events, next, sessions, greeted, current, begun, io, tasks,
                   outVars, bounds>>

\* The phone goes away; the PC has not noticed.
PhoneLeaves(s) ==
    /\ Serving /\ SetConn(s, {"open"}, "broken")
    /\ UNCHANGED <<qtVars, events, next, sessions, greeted, current, begun, io, tasks,
                   outVars, bounds>>

\* onDeviceConnected: the session becomes the current one, if there is a
\* manager yet.
OnDeviceConnected(s) == current' = IF Managed THEN s ELSE current

ReadErrorUnheard(s) ==   \* mutant: onDisconnect is not called
    /\ IoFree /\ SetConn(s, {"broken"}, "lost")
    /\ UNCHANGED <<qtVars, events, next, sessions, greeted, current, begun, io, tasks,
                   outVars, bounds>>

\* The pending read fails: onDisconnect removes the session...
ReadError(s) ==
    /\ IoFree /\ SetConn(s, {"broken"}, "lost")
    /\ sessions' = sessions \ {s}
    /\ Busy("gone", s, TRUE)
    /\ UNCHANGED <<qtVars, events, next, greeted, current, begun, tasks, outVars, bounds>>

DisconnectedUnseen ==   \* mutant: the current session is not looked at
    /\ io.at = "gone"
    /\ Busy("idle", NoSession, TRUE)
    /\ UNCHANGED <<qtVars, events, linkVars, tasks, outVars, bounds>>

\* ...and Application is told: the manager has no current session if it was this
\* one.
OnDeviceDisconnected ==
    /\ io.at = "gone"
    /\ current' = IF Managed /\ current = io.of THEN NoSession ELSE current
    /\ Busy("idle", NoSession, TRUE)
    /\ UNCHANGED <<qtVars, events, next, conn, sessions, greeted, begun, tasks, outVars,
                   bounds>>

\* hello: Application is told, then the answer is put together.  A phone may say
\* it again, and is answered again.
ReadHello(s) ==
    /\ IoFree /\ conn[s] = "open"
    /\ IF s \in greeted THEN inputs < MaxInputs /\ inputs' = inputs + 1
                        ELSE UNCHANGED inputs
    /\ greeted' = greeted \cup {s}
    /\ OnDeviceConnected(s)
    /\ begun' = IF main \in {"events", "sending"} THEN begun ELSE begun \cup {s}
    /\ Busy("flip", s, TRUE)
    /\ UNCHANGED <<qtVars, events, next, conn, sessions, tasks, outVars, offered>>

\* The answer to hello: the flip setting is read...
WelcomeFlip ==
    /\ io.at = "flip"
    /\ Busy("welcome", io.of, flip)
    /\ UNCHANGED <<qtVars, events, linkVars, tasks, outVars, bounds>>

\* ...and sent with the welcome message.
WelcomeSend ==
    /\ io.at = "welcome"
    /\ Post(io.of, <<"welcome", io.flip>>)
    /\ Busy("idle", NoSession, TRUE)
    /\ UNCHANGED <<qtVars, events, linkVars, outVars, bounds>>

ReadPing(s) ==
    /\ IoFree /\ conn[s] = "open" /\ inputs < MaxInputs
    /\ inputs' = inputs + 1
    /\ Post(s, Plain("pong"))
    /\ UNCHANGED <<qtVars, events, linkVars, io, outVars, offered>>

\* set_flip: the new value is queued for the Qt thread.
ReadSetFlip(s, f) ==
    /\ IoFree /\ conn[s] = "open" /\ inputs < MaxInputs
    /\ inputs' = inputs + 1
    /\ events' = Append(events, f)
    /\ UNCHANGED <<qtVars, linkVars, io, tasks, outVars, offered>>

-----------------------------------------------------------------------------
(* The io thread: writing to a phone                                       *)

\* doWrite: async_write of the message at the head of the queue.
StartWrite(s) ==
    /\ writing' = [writing EXCEPT ![s] = @ + 1]
    /\ early' = IF conn[s] \in {"handshake", "failed"} THEN early \cup {s} ELSE early

SendAlways(s, m) ==   \* mutant: writeInProgress is not looked at
    /\ out' = [out EXCEPT ![s] = Append(@, m)]
    /\ StartWrite(s)
    /\ UNCHANGED heard

SendUnlessBusy(s, m) ==   \* mutant: nothing waits for the write in progress
    /\ out' = IF out[s] = <<>> THEN [out EXCEPT ![s] = <<m>>] ELSE out
    /\ IF out[s] = <<>> THEN StartWrite(s) ELSE UNCHANGED <<writing, early>>
    /\ UNCHANGED heard

\* The handler send() posts: the message is queued, and a write is started
\* unless one is in progress.
Send(s, m) ==
    /\ out' = [out EXCEPT ![s] = Append(@, m)]
    /\ IF out[s] = <<>> THEN StartWrite(s) ELSE UNCHANGED <<writing, early>>
    /\ UNCHANGED heard

RunSend ==
    /\ IoFree /\ tasks # <<>> /\ Head(tasks)[1] # All
    /\ Send(Head(tasks)[1], Head(tasks)[2])
    /\ tasks' = Tail(tasks)
    /\ UNCHANGED <<qtVars, events, linkVars, io, bounds>>

\* broadcast: send() for every session of m_sessions, in some order.
RunBroadcast ==
    /\ IoFree /\ tasks # <<>> /\ Head(tasks)[1] = All
    /\ LET n == Cardinality(sessions)
       IN  \E told \in Bijection(1..n, sessions) :
              tasks' = Tail(tasks) \o [i \in 1..n |-> <<told[i], Head(tasks)[2]>>]
    /\ UNCHANGED <<qtVars, events, linkVars, io, outVars, bounds>>

Tells(m) == m[1] \in {"welcome", "flip"}
Hear(h, m) == [kinds |-> h.kinds \cup {m[1]},
               flip  |-> IF Tells(m) THEN <<m[2]>> ELSE h.flip]

WriteDoneOnce(s) ==   \* mutant: the rest of the queue is not written
    /\ IoFree /\ writing[s] > 0 /\ conn[s] \in {"open", "broken"}
    /\ heard' = IF conn[s] = "open" THEN [heard EXCEPT ![s] = Hear(@, Head(out[s]))]
                ELSE heard
    /\ out' = [out EXCEPT ![s] = Tail(@)]
    /\ writing' = [writing EXCEPT ![s] = @ - 1]
    /\ UNCHANGED <<qtVars, events, linkVars, io, tasks, early, bounds>>

\* The write of a message ends well: it leaves the queue, and the next one is
\* written.  The buffer was a local of doWrite, gone before the write ended: the
\* phone may have been sent what took its place.
WriteDone(s) ==
    /\ IoFree /\ writing[s] > 0 /\ conn[s] \in {"open", "broken"}
    /\ \E m \in {Head(out[s]), Plain("garbage")} :
          heard' = IF conn[s] = "open" THEN [heard EXCEPT ![s] = Hear(@, m)] ELSE heard
    /\ out' = [out EXCEPT ![s] = Tail(@)]
    /\ writing' = IF Len(out[s]) > 1 THEN writing ELSE [writing EXCEPT ![s] = @ - 1]
    /\ UNCHANGED <<qtVars, events, linkVars, io, tasks, early, bounds>>

\* The write fails: the message stays at the head of the queue.  One that was
\* begun before the end of the handshake is aborted, or breaks the handshake.
WriteFails(s) ==
    /\ IoFree /\ writing[s] > 0
    /\ \/ conn[s] # "open" /\ UNCHANGED conn
       \/ SetConn(s, {"handshake"}, "failed")
    /\ writing' = [writing EXCEPT ![s] = @ - 1]
    /\ UNCHANGED <<qtVars, events, next, sessions, greeted, current, begun, io, tasks,
                   out, heard, early, bounds>>

-----------------------------------------------------------------------------
(* The Qt thread: Application::init                                        *)

Goto(l) == main' = l

\* The stream exists and has the stored setting; until then the answer is TRUE.
CreateStream ==
    /\ main = "server" /\ Goto("stream")
    /\ flip' = stored
    /\ UNCHANGED <<stored, shown, announce, target, events, linkVars, io, tasks,
                   outVars, bounds>>

\* start() creates the decoder, whose own setting is TRUE...
CreateDecoder ==
    /\ main = "stream" /\ Goto("decoder")
    /\ flip' = TRUE
    /\ UNCHANGED <<stored, shown, announce, target, events, linkVars, io, tasks,
                   outVars, bounds>>

\* ...until it is given that of the stream.
FlipDecoder ==
    /\ main = "decoder" /\ Goto("manager")
    /\ flip' = stored
    /\ UNCHANGED <<stored, shown, announce, target, events, linkVars, io, tasks,
                   outVars, bounds>>

CreateManager ==
    /\ main = "manager" /\ Goto("tray")
    /\ UNCHANGED <<flip, stored, shown, announce, target, events, linkVars, io, tasks,
                   outVars, bounds>>

CreateTray ==
    /\ main = "tray" /\ Goto("events")
    /\ shown' = stored
    /\ UNCHANGED <<flip, stored, announce, target, events, linkVars, io, tasks,
                   outVars, bounds>>

Boot == CreateStream \/ CreateDecoder \/ FlipDecoder \/ CreateManager \/ CreateTray

-----------------------------------------------------------------------------
(* The Qt thread: its event loop                                           *)

Idle == main = "events" /\ announce = Quiet

\* The stream, the settings file and the tray take the value; the broadcast
\* follows.
SetFlip(f) == flip' = f /\ stored' = f /\ shown' = f /\ announce' = <<f>>

\* The user toggles the menu entry.
ToggleFlip ==
    /\ Idle /\ inputs < MaxInputs
    /\ inputs' = inputs + 1
    /\ SetFlip(~shown)
    /\ UNCHANGED <<main, target, events, linkVars, io, tasks, outVars, offered>>

OnSetFlipSilent ==   \* mutant: what a phone sets is not broadcast
    /\ Idle /\ events # <<>>
    /\ flip' = Head(events) /\ stored' = flip' /\ shown' = flip'
    /\ events' = Tail(events)
    /\ UNCHANGED <<main, announce, target, linkVars, io, tasks, outVars, bounds>>

\* A set_flip event of a phone.
OnSetFlip ==
    /\ Idle /\ events # <<>>
    /\ SetFlip(Head(events)) /\ events' = Tail(events)
    /\ UNCHANGED <<main, target, linkVars, io, tasks, outVars, bounds>>

BroadcastFlip ==
    /\ main = "events" /\ announce # Quiet
    /\ Post(All, <<"flip", announce[1]>>)
    /\ announce' = Quiet
    /\ UNCHANGED <<main, flip, stored, shown, target, events, linkVars, io, outVars, bounds>>

\* The user picks a file to send: the current session is read...
SendFiles ==
    /\ Idle /\ ~offered /\ current # NoSession
    /\ offered' = TRUE
    /\ target' = current /\ Goto("sending")
    /\ UNCHANGED <<flip, stored, shown, announce, events, linkVars, io, tasks, outVars,
                   inputs>>

\* ...and once the file was hashed, sendTo sends the offer to that session, if
\* it is still known.
SendTo ==
    /\ main = "sending" /\ Goto("events") /\ target' = NoSession
    /\ IF target \in sessions THEN Post(target, Plain("offer")) ELSE UNCHANGED tasks
    /\ UNCHANGED <<flip, stored, shown, announce, events, linkVars, io, outVars, bounds>>

\* WsServer::stop: m_running and ioc.stop()...
StopServer ==
    /\ Idle /\ Goto("stopping")
    /\ UNCHANGED <<flip, stored, shown, announce, target, events, linkVars, io, tasks,
                   outVars, bounds>>

\* ...the thread is joined, once it is done with its handler...
JoinIo ==
    /\ main = "stopping" /\ io.at = "idle" /\ Goto("closing")
    /\ UNCHANGED <<flip, stored, shown, announce, target, events, linkVars, io, tasks,
                   outVars, bounds>>

CloseKeeping(s) ==   \* mutant: m_sessions is not cleared
    /\ main = "closing" /\ s \in sessions
    /\ conn' = [conn EXCEPT ![s] = "lost"]
    /\ UNCHANGED <<qtVars, events, next, sessions, greeted, current, begun, io, tasks,
                   outVars, bounds>>

Close(s) ==
    /\ main = "closing" /\ s \in sessions
    /\ sessions' = sessions \ {s}
    /\ conn' = [conn EXCEPT ![s] = "lost"]
    /\ UNCHANGED <<qtVars, events, next, greeted, current, begun, io, tasks, outVars, bounds>>

\* ...and the sessions are closed: a connection that is open waits for the
\* phone to answer or to go away.
CloseOpen(s) == conn[s] = "open" /\ Close(s)
CloseOther(s) == conn[s] # "open" /\ Close(s)

StopEnds ==
    /\ main = "closing" /\ sessions = {} /\ Goto("ended")
    /\ UNCHANGED <<flip, stored, shown, announce, target, events, linkVars, io, tasks,
                   outVars, bounds>>

-----------------------------------------------------------------------------
Init ==
    /\ main = "server" /\ flip = TRUE /\ stored = StoredFlip /\ shown = TRUE
    /\ announce = Quiet /\ events = <<>> /\ target = NoSession
    /\ next = 1 /\ conn = [s \in Sessions |-> "none"] /\ sessions = {}
    /\ greeted = {} /\ current = NoSession /\ begun = {}
    /\ io = [at |-> "idle", of |-> NoSession, flip |-> TRUE] /\ tasks = <<>>
    /\ out = [s \in Sessions |-> <<>>] /\ writing = [s \in Sessions |-> 0]
    /\ heard = [s \in Sessions |-> [kinds |-> {}, flip |-> <<>>]] /\ early = {}
    /\ inputs = 0 /\ offered = FALSE

Handler(s) == Handshake(s) \/ ReadError(s) \/ WriteFails(s)
Phone(s) == PhoneLeaves(s) \/ ReadHello(s) \/ ReadPing(s)
            \/ \E f \in BOOLEAN : ReadSetFlip(s, f)
IoOwn == OnDeviceDisconnected \/ WelcomeFlip \/ WelcomeSend \/ RunSend \/ RunBroadcast
QtOwn == Boot \/ OnSetFlip \/ BroadcastFlip \/ SendTo \/ JoinIo \/ StopEnds
         \/ \E s \in Sessions : CloseOther(s)
User == ToggleFlip \/ SendFiles \/ StopServer

Next ==
    \/ Accept \/ IoOwn \/ QtOwn \/ User
    \/ \E s \in Sessions : Handler(s) \/ Phone(s) \/ WriteDone(s) \/ CloseOpen(s)

Spec == Init /\ [][Next]_vars

\* Both threads are scheduled, and the io thread serves every handler that is
\* ready.
ThreadFairness ==
    /\ WF_vars(IoOwn) /\ WF_vars(QtOwn)
    /\ \A s \in Sessions : WF_vars(ReadError(s)) /\ WF_vars(WriteFails(s))

\* A phone reads what it is sent and answers a close, or goes away.
LinkFairness ==
    \A s \in Sessions :
        WF_vars(WriteDone(s)) /\ WF_vars(CloseOpen(s))

FairSpec == Spec /\ ThreadFairness /\ LinkFairness

-----------------------------------------------------------------------------
Kinds == {"welcome", "flip", "pong", "offer", "garbage"}
Messages == Kinds \X BOOLEAN

\* Every variable keeps its type; an offer is sent to a session, and a handler
\* that is under way belongs to one.
TypeOK ==
    /\ main \in {"server", "stream", "decoder", "manager", "tray", "events",
                 "sending", "stopping", "closing", "ended"}
    /\ flip \in BOOLEAN /\ stored \in BOOLEAN /\ shown \in BOOLEAN
    /\ announce \in Seq(BOOLEAN) /\ events \in Seq(BOOLEAN)
    /\ {target, current} \subseteq Sessions \cup {NoSession}
    /\ main = "sending" => target # NoSession
    /\ io \in [at : {"idle", "gone", "flip", "welcome"}, of : Sessions \cup {NoSession},
               flip : BOOLEAN]
    /\ io.at # "idle" => io.of # NoSession
    /\ next \in 1..(MaxSessions + 1)
    /\ conn \in [Sessions -> {"none", "handshake", "open", "broken", "failed", "lost"}]
    /\ writing \in [Sessions -> Nat] /\ out \in [Sessions -> Seq(Messages)]
    /\ heard \in [Sessions -> [kinds : SUBSET Kinds, flip : Seq(BOOLEAN)]]
    /\ sessions \cup greeted \cup early \cup begun \subseteq Sessions
    /\ tasks \in Seq((Sessions \cup {All}) \X Messages)
    /\ inputs \in Nat /\ offered \in BOOLEAN

\* One write at a time, as Beast demands, and one whenever something waits to
\* be written to a phone that is there: whoever sends, from whatever thread.
OneWrite ==
    \A s \in Sessions :
        /\ writing[s] <= 1
        /\ conn[s] = "open" /\ s \notin early =>
              (writing[s] = 1 <=> out[s] # <<>>)

\* Files are offered to a phone that said hello and is still known, or that the
\* handler under way has just forgotten: then sendTo finds no session of it.
CurrentGreeted ==
    Serving /\ current # NoSession =>
        /\ current \in greeted
        /\ current \in sessions \/ (io.at = "gone" /\ io.of = current)

\* Nothing is under way that would still tell phone s of the setting.
Settled(s) ==
    /\ Idle /\ io.at = "idle" /\ out[s] = <<>>
    /\ \A i \in 1..Len(tasks) : tasks[i][1] \notin {All, s}

\* A message to the phone was damaged (see WriteDone).
Damaged(s) == "garbage" \in heard[s].kinds

\* The tray, the settings file, the stream and every phone that was greeted
\* after startup agree on the flip setting once all messages have arrived
\* undamaged, in whatever order the phone and the user changed it.
FlipAgrees ==
    Idle => /\ flip = stored /\ flip = shown
            /\ \A s \in greeted \ (begun \cup early) :
                 conn[s] = "open" /\ Settled(s) /\ ~Damaged(s) => heard[s].flip = <<flip>>

Welcomed(s) == "welcome" \in heard[s].kinds
Gone(s) == conn[s] # "open" \/ ~Serving \/ main = "stopping"

\* A welcome that has not reached phone s is being put together, or waits among
\* the handlers of the io_context, or in the queue of its session.
WelcomeDue(s) ==
    \/ io.at \in {"flip", "welcome"} /\ io.of = s
    \/ \E i \in 1..Len(tasks) : tasks[i][1] = s /\ tasks[i][2][1] = "welcome"
    \/ \E i \in 1..Len(out[s]) : out[s][i][1] = "welcome"

\* The answer to hello is never lost on its way through io_context and queue,
\* however writes, broadcasts and failures interleave.
WelcomeKept ==
    \A s \in greeted \ early :
        conn[s] = "open" => Welcomed(s) \/ Damaged(s) \/ WelcomeDue(s)

\* A phone that says hello is answered by welcome (guia_flutter.md:111), if no
\* message to it was damaged, and none written before its handshake was over.
HelloAnswered ==
    \A s \in Sessions :
        (s \in greeted /\ s \notin early) ~> (Welcomed(s) \/ Damaged(s) \/ Gone(s))

\* The same without the second condition.
HelloAlwaysAnswered ==
    \A s \in Sessions : (s \in greeted) ~> (Welcomed(s) \/ Damaged(s) \/ Gone(s))

\* A phone that goes away after its handshake is forgotten.
SessionsReleased ==
    \A s \in Sessions : (conn[s] = "broken") ~> (s \notin sessions)

\* WsServer::stop comes to its end, with every session closed.
StopCompletes == (main = "stopping") ~> (main = "ended" /\ sessions = {})
=============================================================================
