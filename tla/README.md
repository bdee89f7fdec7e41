# Iriseus: specification and proofs

Iriseus turns a phone into a webcam of a Windows PC and moves files between the
two. The PC runs one process: a Qt thread (tray, dialogs, settings), the thread
of a Boost.Asio `io_context` (control channel over WebSocket), two threads for
the video path, one accept thread and one *detached* thread per connection for
file transfers, and one that watches ADB. This directory holds TLA+ models of
the parts of that process that run concurrently, TLC runs over small instances,
and TLAPS proofs for instances of any size. Paths below are relative to
`src/src/` of the repository unless they start with a document's name.

## 1. Inventory

| Component | State | Operations | Talks to | Hard behaviour | What makes it correct |
|---|---|---|---|---|---|
| `core/FileTransferServer` | `m_sessions` (token, path, size, hash, cancel flag), `.part` files, `m_running`, acceptor | `registerTransfer`, `cancelTransfer`, accept loop, `handleConnection` (receive or send), `stop` | sockets of the phone, file system, manager through `m_onFinished` | detached threads, cancellation at any point, two connections on one path, shutdown while a file is written | no orphan `.part`; a saved file is the offered file; honest verdicts; cancellation reaches the thread; connections end |
| `core/FileTransferManager` | `m_activeOffers`, `m_currentSessionId` | handlers of `file_offer`, `file_accept`, `file_reject`, `file_cancel`, `file_complete`; `sendFiles`; `m_onFinished` | `WsServer` (`sendTo`), server, tray signals | called from three kinds of thread | every offer is forgotten in the end; files go to a phone that is there |
| `core/StreamReceiver` | `m_running`, acceptor, `s_naluQueue` with mutex and condition variable, camera | `start`, `stop`, `acceptLoop`, `receiveLoop`, `decodeLoop` | phone, `VideoDecoder`, `VirtualCamera`, tray by `m_onStatus` | condition variable, full queue, shutdown order, late callback | no lost wakeup, an orderly queue, a clean stop, a tray that follows |
| `core/VideoDecoder` | source size and format, scaler, placement, flip | `pushNalu`, `decode`, `convertToRgb`, `updateLayout`, `setFlipHorizontal` | FFmpeg, frame callback | rounding at extreme shapes, source that changes in mid-stream | the picture stays inside the buffer; scaler and source agree |
| `core/VirtualCamera` | handle of softcam | `open`, `sendFrame`, `close` | softcam.dll | closing while frames arrive | closed when `stop()` has returned |
| `core/WsServer` | `m_sessions`, `m_nextId`, `m_running` | accept, `broadcast`, `sendTo`, `onDisconnect`, `stop` | `WsSession`, `Application` | handlers posted from several threads, sessions that are not open yet | every session released; `stop` ends |
| `core/WsSession` | WebSocket stream, `m_writeQueue` | handshake, reads (`hello`, `ping`, `set_flip`, `start_*`, `stop_*`, `pair_request`, `file_*`), `send`, `doWrite`, `close` | phone, `Application` callbacks | one write at a time, lost phones | `hello` is answered; no message stays in the queue |
| `app/Application` | owns everything; flip setting; settings file | `init`, callbacks, `aboutToQuit` | all | callbacks run before the members they use exist | tray, settings, stream and phones agree |
| `core/MessageDispatcher` | none | parse and build JSON messages | `WsSession` | none | data format |
| `ui/TrayIcon` | camera state, flip check mark | menu (`onStartCamera`, `onStopCamera`, `onPairDevice`, ...), `updateCameraStatus`, notifications | `Application` | events queued from other threads; menu entries that change only the tray | shows what the threads did |
| `core/PairingManager` | `m_activePin`, `m_devices`, key pair; `pairedDeviceId` and `pairedDeviceName` in the settings | `createOffer`, `handlePairRequest`, `restoreDevice` | `WsSession`, `PairingDialog`, `Application` | PIN read and cleared by two threads, a crash between two settings | a PIN pairs once; the PIN on the screen works; what a phone was told is kept |
| `ui/PairingDialog` | PIN shown, status | constructor, `onPairingComplete`, `accept`, `reject` | `Application` | an event of an older offer, nested event loops | reports a pairing that is real, in the dialog that asked for it |
| `core/AdbManager` | `m_activeSerials`, `m_running`, extracted files | `init`, `start`, `stop`, `monitorLoop`, `setupReverse`, `listDevices` | adb.exe, `Application` by queued events | a list that is stale when used, calls that fail, offline devices, a blocking subprocess | a phone in the list forwards its ports; one that stays does in the end |
| `core/PairingCrypto` | none | libsodium calls | `PairingManager` | none | library |
| `core/MdnsService` | none | not compiled | none | none | none |

The interactions in one picture:

```
 phone --WebSocket--> WsSession --callbacks--> Application --> TrayIcon / settings
                         |  ^                     |   ^
              file_* ->  |  | sendTo/broadcast    |   | queued events
                         v  |                     v   |
                  FileTransferManager        StreamReceiver --> VideoDecoder --> VirtualCamera
                         |  ^                     ^
         registerTransfer|  |m_onFinished         | TCP (H.264)
                         v  |                     |
                  FileTransferServer <--TCP-- phone
```

## 2. Modules

| Module | Stands for | Proofs |
|---|---|---|
| `FileTransfer` | `FileTransferServer`, `FileTransferManager`, the `.part` files | `FileTransferProofs` |
| `UploadLife` | abstract: the life of one attempt to send data to the PC, as phone and user may rely on it | in `FileTransferProofs` |
| `MCFileTransfer` | instances of `FileTransfer` for TLC | |
| `StreamPipeline` | the three threads of the video path | `StreamPipelineProofs` |
| `LossyQueue` | abstract: a queue that may lose everything it holds but never reorders, repeats or half-loses | `LossyQueueProofs` |
| `Control` | `WsServer`, `WsSession`, startup and callbacks of `Application`, the flip setting | `ControlProofs` |
| `Letterbox` | placement, scaler and mirroring of `VideoDecoder` | `LetterboxProofs` |
| `Pairing` | `PairingManager`, `PairingDialog` and the part of `Application` that joins them and keeps the device | `PairingProofs` |
| `OneTimePin` | abstract: a PIN can be used once, and only while it is the latest; while it can, nothing else pairs | itself |
| `AdbMonitor` | `AdbManager`, the USB connections and adb.exe | `AdbMonitorProofs` |

`map` in `PROJECT.json` gives the source lines of every definition. Operators
marked `\* mutant:` are plausible wrong versions of their neighbour: no
specification uses them; each, put in the place of the definition it varies,
makes TLC refute a property, which is how we know that the property depends on
that line of the code.

### FileTransfer

A transfer is a member of `Uploads` (offered by the phone) or `Downloads`
(offered by the user of the PC). A session of `m_sessions` is `<<transfer, n,
path>>` for the n-th `registerTransfer` of it, with the target path of that call.
The handlers put a new session, with a new token and a new cancel flag, in the
place of the one before as often as they are called: `file_offer` each time the
phone repeats it, `file_accept` for any offer in `m_activeOffers`, an upload
included (its `TransferMeta` then has no path: `NoPath`). Threads that work on a
displaced session go on. `file_cancel` and `file_reject` name any transfer,
`file_complete` any active offer.

Which way the data go is the choice of the phone: `handleConnection` branches on
the direction byte of the handshake and does not compare it with
`session->direction`. So `Handshake(c, t, byte)` combines every session in
`m_sessions` with every byte, and `dir[c]` keeps it: `toPc` writes the `.part` of
the session's path, also when that is the source of a download; `toPhone` sends the file at
that path if there is one, also when it was saved by an upload; with
any other byte the thread ends without a report. `pc[c]` is the place of the
detached thread of connection `c` in `handleConnection`:

```
 idle -> handshake -> open -> loop <-> reading                     (byte 0, toPc)
              |                 |-> closed -> pick -> rename -> reply -> forget -> done
              |                 |         \-> discard ---------^
              |---> source -> send <-> writing -> reply             (byte 1, toPhone)
              \---> done                                            (any other byte)
```

A step ends where another thread could see the difference: opening, each frame,
closing, the judgement, `exists`, `rename`, `remove`, the two halves of
`m_onFinished`. The data of a file is a function from positions to units: the
transfer a unit belongs to, `Bad` (damaged on its way) or `Empty` (never
written). SHA-256 is abstracted to what it tells: whether all units received
were the ones offered. It is computed over what was *received*, as in the code,
and not over what the disk holds.

The file system is that of Windows, the only platform the build targets. A file
that an `ofstream` has open may be opened and truncated again (the CRT shares
both reading and writing) but neither removed nor renamed (it does not share
deletion); `QFile::remove` and `QFile::rename` then return false, and `rename`
never replaces a file. Two threads that write one file each keep an offset of
their own. An `ofstream` that failed to write once writes no more.

What the phone may do: offer an upload, accept, reject, complete or cancel
anything, in any order and repeatedly (`MaxRegs` bounds the registrations of a
transfer); connect with a token it was given, in either direction or none; send
frames of any valid length with good or damaged data; fall silent or disconnect.
The token of `sendFiles` is the one thing it does not have: it is never sent
(`Ready`). `alone` is a history variable: no other
connection has owned the same `.part` since this one opened it.

`UploadLife` is what is left when files, sockets and threads are taken away: the
attempt of a connection to send data to the PC goes

```
 idle -> moving -> settling -> ended -> told -> over
            \-> doomed <-/  \---^
```

where only the step that leaves `settling` for `ended` saves, under a name no
other file has, and what `told` and `shown` receive is computed from the files
saved. `Life(c)` maps `pc[c]` and the cancel flag to it: a thread past the
judgement at `FileTransferServer.cpp:265` is `settling`, since the code does not look at the flag
again; one before it whose flag is set is `doomed`, wherever it is in
its loop, so that one step of `HandleFileCancel` moves all attempts on that
session. The abstract `Cancel` is about registrations (`Offers` are the sessions):
an attempt on a displaced session is not doomed by a cancellation, and neither is
it in the code. Connections that carry nothing to the PC (refused ones, those
that receive from the PC, those with an unknown direction byte) are `over` as soon as they are
known to be that, and of the verdicts only those of threads that received count
(`OfReceived`): a thread that sent reports what it sent.

### StreamPipeline and LossyQueue

The mutex, the predicate of `wait`, falling asleep and `notify` are steps of
their own, so that a notification between the test and the sleep is possible if
the code allowed it; spurious wakeups are allowed. `stop()` clears `m_running`
*without* the mutex and closes the acceptor before it takes the mutex, clears the
queue, releases it, notifies and joins: one step each. NALUs are numbered as they
arrive. Pushing to the decoder is one step of the decode thread that may or may
not yield a frame. The tray takes the queued status events and the clicks of the
user (`Click`), which change what it shows and nothing else: `clicked` remembers
that one came after the last event. `QueueRefines` maps `queue`, `taken` and `dropped` to
`LossyQueue`: its actions are arrive, take the head, drop all.

### Control

The io thread runs one handler at a time, so that a handler is one step, with two
exceptions. That of `hello` reads the flip setting and then posts the welcome; the
Qt thread may change the setting in between. That of a lost connection removes the
session (`WsServer.cpp:87`) and then tells `Application`, which resets the
current session; the Qt thread may offer a file in between. A phone may say `hello`
again, and is answered again. `tasks` is the FIFO of handlers
posted to the `io_context`: `send` posts one, `broadcast` posts one that calls
`send` for every session. `out[s]` is `m_writeQueue`; its head stays there while
it is written. Beast has no defined behaviour for a write before the handshake
is over: in the model such a write is aborted and its message stays at the head
(`WsSession.cpp:158` returns on error), or it breaks the handshake, or it
succeeds after the handshake did. `early` marks such sessions. The buffer of
`doWrite` is over a local that is gone when `doWrite` returns: in every
`WriteDone` the phone receives the message or `garbage`. The properties about
what a phone has heard speak of phones that received no garbage.

Startup (`Application::init`) is modelled because the server accepts phones
before the stream and the file manager exist; `begun` marks the phones that were
greeted before it was over. `getFlipHorizontal` passes through three values in
that time: the default, the stored one, the decoder's default, the stored one.

### Letterbox

`Placed(w, h)` is the set of placements `updateLayout` may compute: the code
divides doubles and truncates, and a quotient that is exact in the integers may
come out one lower, so both results are in the set (`Truncated`). `Mirror` runs
the loop of swaps and is a recursive *function*; `MirrorReverses` compares its
result with the reversed row. `sws_getContext` may fail, which leaves no scaler
(`NoSource`) until the source changes again. A frame of size 0 and one that arrives before
there is a scaler leave everything as it is.

### Pairing and OneTimePin

PINs are numbered in the order in which `createOffer` issues them, so that two
are never alike (the code draws one of a million); 0 is the empty string, which is
`m_activePin` when none is active and the PIN of a request that carries none
(`Application.cpp:193`). `handlePairRequest` is taken
apart where the Qt thread or the end of the program can come in between: the
check of PIN and key, `m_devices[...] = ...`, `m_activePin.clear()`, the two
settings, the queued completion, the reply.

```
 idle -> checked -> stored -> id -> name -> post -> reply -> idle
    \-> rejected
```

`dialogs` is the stack of dialogs whose `exec()` has not returned: the event loop
of a dialog serves the tray menu, which may open another. `m_pairingDialog` is the
last one opened until any of them returns, which sets it to null. `Restart` ends
the program at any point; only the two settings survive. `raced` and `torn` are
history: a PIN cleared by a request with another one or with none, and a program
that ended between the two settings. `used` lists by what phones paired, in order,
0 for those without a PIN.

`PinsRefine` maps the module to `OneTimePin`. The PIN that can be used there is
`m_activePin`, except from the moment its check has passed: the check is where the
abstract `Use` takes place, `clear()` comes later and is a stutter, or the loss of
a PIN that was issued in between. A request without a PIN passes its check exactly
when none is active, which is `UseNone`.

### AdbMonitor

Each call of adb.exe is a step of `monitorLoop`, and phones come, go and doze off
between any two. A call may fail (`AdbMayFail`) and fails as long as a file is
missing; `runAdb` tells nobody, and neither does the model. `link[p]` is what adb
would list (`unauthorized` is not told apart from `offline`: `monitorLoop` treats
both alike), `reverse[p]` the ports that forward, which are gone when
the connection is. The two seconds of sleep are the step `MonTop`. `missed` is
history: phones whose forwarding broke, or whose set-up failed, after the monitor
took them for connected; a phone leaves it only by being noticed as absent.

## 3. Runs

| Run | Instance | Distinct states | Shows |
|---|---|---|---|
| `transfers` | 1 upload (2 units, hashed), registered up to 2 times, 2 connections in any direction, frames of up to 2 units, disk with room | 844 410 (up to symmetry of the connections) | `NoOrphanPart`, `SavedIntact`, `VerdictTrue`, `CancelReaches`, `LifeRefines` |
| `transfers_live` | an upload of 2 units and a download of 1, each registered up to 2 times, 1 connection in any direction, `FairSpec`, `DiskMayFill` | 115 876 | `OfferOwned`, `EveryConnectionEnds`, `CancelStops`, `OffersForgotten` |
| `transfers_shared` | 1 upload of 1 unit, registered once, 2 connections, disk with room | violation | two connections on one `.part` save a damaged file |
| `transfers_silent` | the same, thread fairness only | violation | a silent phone keeps a connection for ever |
| `transfers_exit` | the same | violation | the process ends and a `.part` stays |
| `stream` | queue of 2, 3 NALUs, 2 phones, clicks, `FairSpec` | 130 050 | `TypeOK`, `SleepJustified`, `StopReleases`, `TrayFollows`, `QueueSound`, `QueueRefines`, `StopCompletes`, `NaluLeaves`, `NextClientAccepted` |
| `control` | 1 phone, 2 inputs (changes of the setting, pings and repeated hellos), startup to `stop()`, `FairSpec` | 462 193 | `OneWrite`, `CurrentGreeted`, `FlipAgrees`, `WelcomeKept`, `HelloAnswered`, `SessionsReleased`, `StopCompletes` |
| `control_early` | 1 phone, 1 input, fair | violation | a broadcast during the handshake: `hello` is never answered |
| `letterbox` | canvas 16 x 9, 7 widths x 6 heights x 2 formats, with and without a scaler | 11 838 | `PictureFits`, `PictureCentred`, `ScalerCurrent`, `MirrorReverses` over all shapes from 1 x 90 to 49 x 1 in any sequence |
| `pairing` | 2 phones, 2 PINs, 3 requests with a PIN or without, 1 restart, `FairSpec` | 252 085 | `ShownPinWorks`, `CompletionTrue`, `CompletionKept`, `AcceptedKept`, `PinsRefine`, `CompletionShown` |
| `adb` | 2 phones, 3 ports, 2 files, 3 changes or failures, 1 restart, `FairSpec` | 299 746 | `ActiveForwards`, `NotesFollow`, `StopCompletes`, `ReverseComes`, `GoneForgotten` |
| `adb_replug` | 2 phones, 3 ports, 2 changes, no failures | violation | a phone that was away between two polls is never set up again |

`TypeOK` of `FileTransfer`, `Control`, `Pairing` and `AdbMonitor` is in no run: it is proved.

The runs turn deadlock checking off because every bounded model comes to an end:
all connections are used, the process has exited, all phones have come.
Progress is checked by the liveness properties instead.

**Bounds and why they suffice.** Two connections are enough for two threads to
meet on one `.part`, whatever the sessions they work on, and one can finish while
the other begins. Two registrations of one upload, by `file_offer` or
`file_accept`, are the least that displace a session while a thread works on it:
the two connections then hold the old and the new one, of the same path
or (after a `file_accept`) of the empty one, and either may ask for either direction. Another
upload of the same name would meet the first in the same places: threads know
each other by the path alone. Two units per file and frames of
up to two units give files that end within, at and beyond a frame, including a
frame that overshoots. The download, whose two registrations are that of
`sendFiles` and that of `file_accept`, is in `transfers_live`. There one
connection is enough: threads share files and tables but never wait for one
another, so that what one waits for is the phone at its own
end alone, and what they do to each other's files is the subject of `transfers`;
that a saved upload is asked for by a second connection happens in `transfers`. The theorems remove all these bounds.
For the queue, depth 2 with 3 NALUs fills it and clears it, with or without one
taken before by the decode thread; the theorems hold for any depth; 2 phones let the second wait in the backlog while the
first is lost. For `Control`, 2 inputs are the least for a change of the setting
that overtakes another, from the two sides; one phone is what liveness
leaves room for. Its invariants are proved for any number of phones. For `Pairing`, 2 PINs let a dialog be nested in another
and a completion arrive one dialog late, and 3 requests by 2 phones use one PIN, pair
without one before or after it, and use the next; the theorems hold for any number of
both. For `AdbMonitor`, 2 phones let one change while the
other is set up, and 3 changes let a phone leave, return and leave
within one round. The canvas of 16 x 9 has an odd side
and sources that are narrower, wider, smaller, larger and of a proportion equal
to its own; the theorems remove the bound.

## 4. Fairness

* `ThreadFairness`: the operating system schedules every thread, and
  `io_context::run` serves every handler that is ready. Weak fairness per thread.
  In `StreamPipeline` the three requests for the mutex are strongly fair: a
  mutex that is free again and again is given in the end to a thread that waits.
* `LinkFairness`: a phone sends what is expected next, reads what it is sent, or
  goes away. The code does *not* guarantee this: it has no timeout. The
  properties that need it are named so here: `EveryConnectionEnds`, `CancelStops`,
  `OffersForgotten`, `StopCompletes` of `StreamPipeline` and `Control`,
  `HelloAnswered`. The run `transfers_silent` drops it to show what happens.
* `AdbMonitor` assumes that a call of adb.exe returns: `runAdb` reads its output
  to the end without a timeout. `ReverseComes` is about phones that are not
  `missed`, so that it asks nothing of a call that failed.
* `Pairing` needs both threads scheduled and nothing of users and phones.
* Nothing is assumed of the user, of a phone's arrival or of a USB cable, of spurious wakeups or of
  the end of the process.

## 5. What is proved

For all values of the constants that satisfy the named assumptions
(`TransferAssumption`, `PipelineAssumption`, `ControlAssumption`,
`LetterboxAssumption`, `PairingAssumption`, `AdbAssumption`), and therefore for any
number of transfers, connections, units, NALUs, phones, PINs and ports and any canvas:

| Theorem | Statement | Argument |
|---|---|---|
| `FileTransferProofs!TypeCorrect` | `Spec => []TypeOK` | inductive by itself; that a thread which works has a session is what makes `Part(c)` a name, and that its direction byte is known is what `told` and `shown` record of a report |
| `FileTransferProofs!NoOrphan` | `Spec => []NoOrphanPart` | inductive with `TypeOK`: a thread gives a `.part` up only by removing or renaming it; where removal fails, another thread has it open and is its owner (`RemoveOpen`) |
| `FileTransferProofs!CancelCanReach` | `Spec => []CancelReaches` | `ReachInv`: the session of a working thread is one that was registered, and if it is the last one of its transfer, it has the path last registered and is flagged or still in `m_sessions`; a handshake only finds the last one, and only a cancellation or `stop()` takes that out, with its flag set |
| `FileTransferProofs!SavedIsIntact` | `Spec => []SavedIntact` | `DataInv`: while a thread is the only owner of its `.part`, the file holds exactly the units received, and past the judgement it is complete |
| `FileTransferProofs!VerdictIsTrue` | `Spec => []VerdictTrue` | `VerdictInv`: a verdict is settled before `Reply` sends it. A yes was given by the step that saved the file; for a no there is a thread that was to receive, has ended and saved nothing, and a thread saves at most once and nothing afterwards (`SavedBy`, `FailedAt`). When a single connection was to carry the transfer to the PC, that thread and the one that saved it would be the same. Reports of threads that sent are of another direction and do not count |
| `FileTransferProofs!ImplementsLife` | `Spec => LifeRefines` | every step maps to a step of `UploadLife` or a stutter, under `RefInv`, below |
| `FileTransferProofs!OffersAreOwned` | `Spec => []OfferOwned` | `OfferInv`: a thread works on a session that was registered; when it has ended after a transfer in either direction and the offer is there, the transfer was registered again since. `file_offer` is what brings an offer back, and it registers a newer session |
| `StreamPipelineProofs!TypeCorrect`, `NoLostWakeup`, `StopIsClean` | `[]TypeOK`, `[]SleepJustified`, `[]StopReleases` | `PipeInv == TypeOK /\ LockInv /\ KnowInv /\ StopInv`: who holds the mutex, what its holder knows of the queue and of `stop()`, in which order `stop()` ends things. Needed since `SleepJustified` depends on what the decode thread knew when it tested the predicate: `stop()` cannot have passed its own lock |
| `StreamPipelineProofs!ImplementsLossyQueue` | `Spec => Q!Spec` | every step maps to a step of `LossyQueue` or a stutter, under `PipeInv` |
| `StreamPipelineProofs!FedInOrder` | `Spec => []QueueSound` | carried over from `LossyQueueProofs!QueueIsSound` through the refinement |
| `LossyQueueProofs!QueueIsSound` | `Spec => []QueueInv` for every `Depth \in Nat` | inductive: what waits is consecutive, and what left came before it |
| `LetterboxProofs!AlwaysFits`, `AlwaysCentred`, `AlwaysCurrent` | the three invariants | `Inv` of the decoder, and arithmetic lemmas: rounding (`Division`, `EvenBounds`, `TruncatedBounds`), sides and margins (`SideBounds`, `OffsetBounds`), proportions (`Cancel`, `Proportion`), put together in `PlacedWell` |
| `LetterboxProofs!AlwaysMirrors` | `Spec => MirrorReverses` | the loop of swaps is a recursive function; after `k` swaps the first and last `k` pixels are exchanged and the rest is as it was. By least counterexample: the first `k` for which that fails is not 0 and not a successor |
| `StreamPipelineProofs!TrayIsTold` | `[]TrayFollows` | where the network thread is determines what the last event it posted said, and the tray shows the last that was delivered |
| `ControlProofs!TypeCorrect`, `WritesOneByOne`, `OffersToGreeted` | `[]TypeOK`, `[]OneWrite`, `[]CurrentGreeted` | `Safe`: every session that is named anywhere was accepted (`Linked`), a queue that holds something is being written unless the session was written to too early (`Writes`), a connection that lives is in `m_sessions` (`Greets`); the current session left it, if at all, in the handler that is about to reset it. `TypeOK` is not inductive without `Writes`: `WriteDone` takes the head of the queue |
| `ControlProofs!FlipsAgree` | `[]FlipAgrees` | `FlipInv`, below |
| `ControlProofs!WelcomeIsKept` | `[]WelcomeKept` | inductive with `Safe` as `Owed`: a phone that said hello before anything was written to it too early is owed a welcome by the io thread, a task or its queue. The step to watch is `WriteDone`: it removes the head only after that was heard, and `Writes` says there is a head |
| `OneTimePin!Once` | `Spec => []PinOnce` | inductive; the zeros of those who paired without a PIN stand anywhere in `used`, so that the order is required of what comes before a PIN only |
| `PairingProofs!TypeCorrect`, `ShownIsValid`, `CompletionIsTrue`, `AcceptedIsKept` | the four invariants | `Inv == TypeOK /\ PinInv /\ KeptInv`: the open dialog is the one of the latest PIN, a request that is handled has used its PIN or none, and what is going to be reported is already stored and was used |
| `PairingProofs!CompletionIsKept` | `[]CompletionKept` | `CompInv`, below |
| `PairingProofs!PinsKept`, `PinUsedOnce` | `Spec => P!Spec`, `Spec => []P!PinOnce` | every step maps to a step of `OneTimePin` or a stutter, under `Inv`; the second by `Once` |
| `AdbMonitorProofs!TypeCorrect`, `ActiveAreForwarded` | `[]TypeOK`, `[]ActiveForwards` | `Forwarding`: the set-up that is under way has forwarded all ports up to the one it is at, unless the phone is `missed` |
| `AdbMonitorProofs!NotesAreRight` | `[]NotesFollow` | inductive: what appending and taking an event do to the last one of a phone (`ToldAppend`, `ToldNotify`) |

`StopReleases` deserves a word: the decode thread opens the camera when a frame
comes out, so that closing it *before* the thread is joined would leave it open;
the proof uses the order of the joins.

`FlipsAgree` is the longest argument. What a phone shows depends on messages in
three places: `tasks` (for it, or for all), its write queue, and what it has
heard. `FlipInv` says that in each of them *no message with the old value comes
after the last one with the present value* (`Follows`), and that where no message
with the present value is left, the place before it in that order has it already. A
broadcast is posted as one task and taken apart at the *end* of the queue, so that
it outruns a welcome that was posted before it; this is why the order is required
of the broadcasts alone first, and of the messages for one phone only when no
broadcast of the present value is left. A phone that is being greeted has read the
setting but not posted it; the broadcast that a change posts comes after that.
The lemmas `FollowsAppend`, `FollowsTail` and `FollowsConcat` say what queue
operations do to `Follows`; then there is one lemma for each kind of step.

`ImplementsLife` needs more than the other invariants of `FileTransfer` give. A step of
`UploadLife` changes one attempt, or dooms some; a step of the code changes the
cancel flag of a *session*, which threads share. Since `UploadLife` speaks of
registrations too, all attempts on the flagged session, and no others, are
doomed, whether the session was displaced or not. `RefInv` adds to `TypeOK` that a session in `m_sessions` is never flagged,
and that no session is flagged before it is registered (so that an attempt begins
unharmed: `LiveInv`), and that what a thread reports is whether it saved (`VerdictInv`).
`LifeMoves` and
`LifeKept` say when `Life` of one connection changes and that of the others does
not; `CancelDooms` maps the actions that set flags to `Cancel`.

`CompletionIsKept` asks why the completion of the PIN on the screen cannot be
written over by one that was queued before. `CompInv` has the answer, in `Settled`: in the queue an
event of the latest PIN is followed by events of phones without a PIN only
(`Pinless`), and such an event is only there if its phone paired *after* the PIN was used
(`After`), since the io thread handles one request at a time and none without a
PIN passes its check while the PIN is active. So the dialog shows the PIN's own
completion, or is written over (`Over`) by such a phone. While the request with that PIN is past
`clear()`, the PIN is not active, so that no second request passes its check with it.

**Induction.** The provers cannot instantiate the induction theorems of the library. The
one induction over data needed here is done with facts they can use: a set of
counterexamples that is not empty has a least element (`WFMin`, with the
well-foundedness of the naturals).

**Only model-checked.** Every liveness property: the provers do not do fairness
and `ENABLED`. What `HelloAnswered`, `CompletionShown` and `OffersForgotten` need of safety, namely
that what is due always has somebody who will see to it, is proved as `WelcomeKept`,
`CompletionKept` and `OfferOwned`; that those move on is left to TLC.

## 6. Where the code disagrees with its documents

Each of these is a run that TLC ends with a counterexample.

1. *Shared `.part`* (`transfers_shared`). `plano.md:63` checks the hash and then
   renames. Two connections that write the same `.part` break that: the first is
   hashed, the second truncates it, writes it anew and closes it, and the first
   renames that before the second has judged it. Nothing stops two connections of one session,
   nor two uploads of one name: only the *final* name is made unique.
2. *No timeout* (`transfers_silent`). `plano.md:52` promises that 30 seconds
   without data end a transfer. `kFileTransferTimeoutSec` exists and is never used.
3. *Exit leaves a `.part`* (`transfers_exit`). `stop()` says that it cleans the
   `.part` files, but removing one that a detached thread holds open fails, and
   nothing waits for the thread.
4. *Early broadcast* (`control_early`). `broadcast` reaches sessions whose
   handshake is not over; the aborted write stays at the head of the queue and no
   later message is written, the welcome included.
5. *Replugged phone* (`adb_replug`). `guia_flutter.md:242` says that the PC sets
   up `adb reverse` when it sees the phone. It does so only for serials that are
   not in `m_activeSerials`, and a serial leaves that list only when a poll does
   not list it at all: a phone that is back within two seconds, or was listed as
   `offline`, has lost its ports and never gets them again.

Others were met while modelling and have no run of their own:

* *Full disk.* Neither `write` nor `close` of the `.part` is checked and the hash is
  of the received bytes, although `plano.md:63` says "confere o hash, renomeia":
  a truncated file is reported as good. With `DiskMayFill`, `SavedIntact` says what
  remains true: what is in the file is what was offered. No run checks it there,
  the theorem `SavedIsIntact` holds for both values.
* *Dangling buffer.* `doWrite` gives `async_write` a buffer over a local string;
  the outcome is undefined, modelled as the message or `garbage`.
* *"Parar câmera"* changes the tray and not the stream (`TrayIcon.cpp:90`, a TODO).
* *Key pair.* The comment at `PairingManager.cpp:18` calls it permanent; it is
  generated anew at every start, and a restored device has no key.
* *Direction byte.* `handleConnection` goes by the byte the phone sends and not by
  `session->direction`. The token of an upload with byte 1 makes the PC send the file
  that is saved under its name, and `file_complete` says `ok` although nothing was
  saved (`VerdictTrue` and `UploadLife` are therefore about connections that
  receive). With a byte that is neither 0 nor 1 the thread ends at
  `FileTransferServer.cpp:365` without `m_onFinished`: the phone is told nothing and
  the offer stays in `m_activeOffers` (`OfferOwned` leaves it out).
* *Repeated offers.* A second `file_offer` or `file_accept` of a transfer displaces
  its session (`FileTransferServer.cpp:87`). A thread that works on the old one
  is out of reach of `file_cancel` and of `stop()`, whose flag goes to the new one
  (`CancelReaches` names this exception). A `file_accept` that names an
  upload gives it the empty path.
* *Pairing without a PIN.* "No active PIN" is the empty string. A `pair_request`
  without `pin` reads as the empty string (`Application.cpp:193`) and passes the
  check (`PairingManager.cpp:46`-`51`) whenever no PIN is active: before the first
  dialog and after every pairing. `guia_flutter.md:315` says that a pairing
  invalidates the PIN, `guia_futuro.md:170` lists `pin` among the fields of the request
  and `:181` has `pair_rejected` for a PIN that is not valid. The completion of
  such a phone may be written over that of the PIN in the dialog that is still open
  (`CompletionKept` names this exception).
* *Auto-accept.* `plano.md:9` accepts files of paired phones only;
  `handleFileOffer` asks nobody whether the phone is paired.

## 7. What is not modelled, and why

* *Unsynchronised state.* `m_activeOffers`, `WsServer::m_sessions`, `m_devices` and
  `m_activePin` are used by several threads without a mutex. An access is one step
  here; what a race inside the container or the string does to its memory is not
  modelled. Nor is the null `m_pairing` of a `pair_request` during startup.
* *Use after destruction.* Detached threads keep a pointer to the server. The
  model ends them when the process exits.
* *Equal PINs.* Two offers have different PINs in the model; the code draws them at
  random.
* *Crashes during a transfer.* No state of transfers is read back at startup, so a
  restart is `Init` with the files of before; a `.part` found there is overwritten
  by the next transfer of that name and otherwise stays. What *is* read back, the paired
  device and the extracted files, is restarted in `Pairing` and `AdbMonitor`.
* *Failure to bind a port.* `start()` of the servers is taken to succeed.
* *Text and presentation.* JSON, file names (`sanitizeFileName`), the stream mode in
  the tooltip, icons and progress.
* `PairingCrypto` (calls to libsodium), the pixels FFmpeg and softcam compute,
  `adb start-server` and `MdnsService` (not compiled: `CMakeLists.txt` does not list
  it, and nothing creates one).

## 8. Plan

Done, in this order: `FileTransfer` (the largest and most concurrent part), its
proofs, `LossyQueue` and `StreamPipeline` with the refinement, `Control`,
`Letterbox`, `Pairing` with `OneTimePin`, `AdbMonitor`, the proofs of
`Control`, `Pairing` and `AdbMonitor`, `UploadLife` with the refinement and its
proof, the mirroring loop, and the safety parts of three liveness properties.

To come, most important first:

1. A FIFO channel per session, refined by `tasks` and `m_writeQueue` of `Control`.
2. `Pairing` composed with `Control`: a `pair_request` of a session that leaves
   before its answer is sent.
3. The safety part of `ReverseComes` and of `GoneForgotten`.
