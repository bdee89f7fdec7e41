---------------------------- MODULE FileTransfer ----------------------------
(***************************************************************************)
(* File transfers between the phone and the PC: FileTransferServer (TCP    *)
(* 45680, one detached thread per connection), FileTransferManager (the    *)
(* handlers of the file_* control messages) and the files they share.      *)
(*                                                                         *)
(* A transfer is a member of Uploads, offered by the phone under an id it  *)
(* made, or of Downloads, offered by the user of the PC.  Which way its    *)
(* data go is not settled by that: handleConnection follows the direction  *)
(* byte of the handshake and never looks at session->direction.  Data are  *)
(* Size[t] units long and a frame carries up to MaxFrame of them; a unit   *)
(* on the disk is the transfer it belongs to, Bad (damaged on its way) or  *)
(* Empty (never written).  The file system is that of Windows, the one     *)
(* platform of the program: a file an ofstream holds open can be opened    *)
(* and truncated again, but neither removed nor moved.                     *)
(***************************************************************************)
EXTENDS Naturals, FiniteSets

CONSTANTS
    Uploads,      \* transfers the phone offers
    Downloads,    \* transfers the user of the PC offers
    Conns,        \* TCP connections; each is opened once
    Names,        \* target paths
    NoPath,       \* the empty path, on which no file can be
    NameOf,       \* the path of a transfer: where it is saved, or its source
    Size,         \* units of data of a transfer
    Hashed,       \* transfers whose offer carries a sha256
    MaxRegs,      \* a transfer is registered at most this often
    MaxFrame,     \* longest frame, in units
    MaxPos,       \* a file is at most this long
    DiskMayFill,  \* TRUE when a write may be lost for want of space
    Bad, Empty    \* contents of a unit that is not a transfer's own

Transfers == Uploads \cup Downloads
Units     == Transfers \cup {Bad, Empty}
Positions == 1..MaxPos

ASSUME TransferAssumption ==
    /\ Uploads \cap Downloads = {}
    /\ {Bad, Empty, "none"} \cap Transfers = {} /\ Bad # Empty
    /\ NoPath \in Names /\ NameOf \in [Transfers -> Names \ {NoPath}]
    /\ Size \in [Transfers -> Nat]
    /\ Downloads \subseteq Hashed /\ Hashed \subseteq Transfers
    /\ MaxFrame \in Nat \ {0} /\ MaxPos \in Nat /\ MaxRegs \in Nat \ {0}
    /\ \A t \in Transfers : Size[t] + MaxFrame <= MaxPos
    /\ DiskMayFill \in BOOLEAN

VARIABLES
    phase,      \* "running" until stop(), then "stopping", "stopped", "exited"
    regs,       \* how often registerTransfer() was called for a transfer
    path,       \* the target path it was last registered with
    live,       \* transfers in m_sessions; the session is the last registered
    cancelled,  \* sessions whose flag is set
    offers,     \* the keys of m_activeOffers
    told,       \* file_complete messages sent: <<transfer, direction, ok>>, the
                \* direction (history) being that of the reporting thread
    shown,      \* transferFinished signals of the threads, of the same form
    pc,         \* where the thread of a connection is
    on,         \* the session a connection works on
    dir,        \* directionByte of a connection
    got,        \* totalReceived / totalSent
    clean,      \* every unit received is the one offered: what SHA-256 tells
    pick,       \* number of the free name chosen, 1 for the plain name
    ok,         \* verdict the thread is about to report
    alone,      \* history: no other connection owned the same .part meanwhile
    parts,      \* names whose .part exists
    data,       \* contents of the .part files
    saved       \* files moved to their final name

managerVars == <<offers, told, shown>>
threadVars  == <<pc, on, dir, got, clean, pick, ok, alone>>
diskVars    == <<parts, data, saved>>
vars == <<phase, regs, path, live, cancelled, managerVars, threadVars, diskVars>>

\* A session: the transfer, the number of its registration, its target path.
Sessions == Transfers \X (1..MaxRegs) \X Names
None     == <<"none", 0, "none">>

\* directionByte: 0, 1, and any other value; "other" until it has arrived.
Directions == {"toPc", "toPhone", "other"}

-----------------------------------------------------------------------------
(* The disk                                                                *)

Blank == [i \in Positions |-> Empty]

\* The states in which a thread has its .part open: from the ofstream
\* constructor to out.close().
Writing(c) == pc[c] \in {"loop", "reading"}

\* The states in which it is up to a thread to remove or rename its .part.
Owns(c) == Writing(c) \/ pc[c] \in {"closed", "discard", "pick", "rename"}

\* The target path of the session; parts and data know its .part by it.
Part(c) == on[c][3]

OpenBy(n) == {c \in Conns : Writing(c) /\ Part(c) = n}

\* QFile::remove fails on a file that some thread holds open.
Removable(n) == OpenBy(n) = {}

\* The effect of QFile::remove on the .part files of the names in N.
Remove(N) ==
    LET gone == {n \in N : Removable(n)}
    IN  /\ parts' = parts \ gone
        /\ data' = [n \in Names |-> IF n \in gone THEN Blank ELSE data[n]]

\* The files that the user of the PC offers.
Sources == {NameOf[t] : t \in Downloads}

\* Final names: <<n, 1>> is n itself, <<n, 2>> is "n (1)", and so on.
Exists(n, i) == (i = 1 /\ n \in Sources) \/ \E s \in saved : s.at = <<n, i>>

\* <<n, i>> is the first final name that no file has.
FirstFree(n, i) == ~Exists(n, i) /\ \A j \in 1..(i - 1) : Exists(n, j)

-----------------------------------------------------------------------------
(* FileTransferServer: sessions                                            *)

\* m_sessions[transferId] = a new session with a new token.  A session that was
\* there is displaced: its threads go on, but nothing finds it any more.
RegisterTransfer(t, n) ==
    /\ regs[t] < MaxRegs
    /\ regs' = [regs EXCEPT ![t] = @ + 1]
    /\ path' = [path EXCEPT ![t] = n]
    /\ live' = live \cup {t}

Session(t) == <<t, regs[t], path[t]>>

CancelKeepingFlag(t) ==   \* mutant: the session's flag is not set
    /\ live' = live \ {t}
    /\ Remove({path[t]})
    /\ UNCHANGED cancelled

CancelTransfer(t) ==
    IF t \in live
    THEN /\ cancelled' = cancelled \cup {Session(t)}
         /\ live' = live \ {t}
         /\ Remove({path[t]})
    ELSE UNCHANGED <<cancelled, live, parts, data>>

Running == phase = "running"
Flagged(c) == on[c] \in cancelled

-----------------------------------------------------------------------------
(* FileTransferManager: control messages                                   *)

\* file_offer of the phone: accepted whoever sent it and however often; the
\* file_ready it is answered with carries the token of the new session.
HandleFileOffer(t) ==
    /\ phase # "exited"
    /\ offers' = offers \cup {t}
    /\ RegisterTransfer(t, NameOf[t])
    /\ UNCHANGED <<phase, cancelled, told, shown, threadVars, diskVars>>

\* The user picks a file to send, under a new id; the token of this session is
\* never sent.
SendFiles(t) ==
    /\ phase # "exited" /\ regs[t] = 0
    /\ offers' = offers \cup {t}
    /\ RegisterTransfer(t, NameOf[t])
    /\ UNCHANGED <<phase, cancelled, told, shown, threadVars, diskVars>>

\* TransferMeta::filePath: handleFileOffer leaves it empty.
FilePath(t) == IF t \in Downloads THEN NameOf[t] ELSE NoPath

\* file_accept, of any offer the manager knows and however often: the transfer
\* is registered again, with the token that file_ready carries.
HandleFileAccept(t) ==
    /\ phase # "exited" /\ t \in offers
    /\ RegisterTransfer(t, FilePath(t))
    /\ UNCHANGED <<phase, cancelled, managerVars, threadVars, diskVars>>

\* file_cancel of the phone, for whatever transfer it names.
HandleFileCancel(t) ==
    /\ phase # "exited"
    /\ CancelTransfer(t)
    /\ offers' = offers \ {t}
    /\ UNCHANGED <<phase, regs, path, told, shown, threadVars, saved>>

\* file_reject is handled as file_cancel is.
HandleFileReject(t) == HandleFileCancel(t)

\* file_complete of the phone, of any offer the manager knows.  The user is shown
\* the verdict of the phone, which is not kept here.
HandleFileComplete(t) ==
    /\ phase # "exited" /\ t \in offers
    /\ offers' = offers \ {t}
    /\ UNCHANGED <<phase, regs, path, live, cancelled, told, shown>>
    /\ UNCHANGED <<threadVars, diskVars>>

\* The token of the session has reached the phone in a file_ready.
Ready(t) == t \in Downloads => regs[t] > 1

-----------------------------------------------------------------------------
(* FileTransferServer: the thread of a connection                          *)

Goto(c, l) == pc' = [pc EXCEPT ![c] = l]

\* The thread reports v by m_onFinished.
Report(c, v) == Goto(c, "reply") /\ ok' = [ok EXCEPT ![c] = v]

At(c, l) == pc[c] = l /\ phase # "exited"

KeepSessions == UNCHANGED <<phase, regs, path, live, cancelled>>

\* accept() and the start of a detached thread.
AcceptConnection(c) ==
    /\ At(c, "idle") /\ Running
    /\ Goto(c, "handshake")
    /\ UNCHANGED <<managerVars, on, dir, got, clean, pick, ok, alone, diskVars>>
    /\ KeepSessions

\* The 49 bytes arrive, and name a session whose token the phone was given.
\* The direction is the phone's choice; with a byte that is neither 0 nor 1 the
\* thread ends, and m_onFinished is not called.
Handshake(c, t, byte) ==
    /\ At(c, "handshake") /\ t \in live /\ Ready(t)
    /\ on' = [on EXCEPT ![c] = Session(t)]
    /\ dir' = [dir EXCEPT ![c] = byte]
    /\ Goto(c, CASE byte = "toPc"    -> "open"
                 [] byte = "toPhone" -> "source"
                 [] OTHER            -> "done")
    /\ UNCHANGED <<managerVars, got, clean, pick, ok, alone, diskVars>>
    /\ KeepSessions

\* The handshake is cut short, or the session is gone: the socket is closed.
Refused(c) ==
    /\ At(c, "handshake")
    /\ Goto(c, "done")
    /\ UNCHANGED <<managerVars, on, dir, got, clean, pick, ok, alone, diskVars>>
    /\ KeepSessions

\* std::ofstream(tempFilePath, trunc), or the report that it failed.
OpenPart(c) ==
    /\ At(c, "open")
    /\ \/ LET n == Part(c)
              others == {d \in Conns \ {c} : Owns(d) /\ Part(d) = n}
          IN  /\ Goto(c, "loop")
              /\ parts' = parts \cup {n}
              /\ data' = [data EXCEPT ![n] = Blank]
              /\ alone' = [d \in Conns |->
                             IF d = c THEN others = {}
                             ELSE alone[d] /\ d \notin others]
              /\ UNCHANGED ok
       \/ Report(c, FALSE) /\ UNCHANGED <<parts, data, alone>>
    /\ UNCHANGED <<managerVars, on, dir, got, clean, pick, saved>>
    /\ KeepSessions

\* The condition of both transfer loops.
Continues(c) == Running /\ ~Flagged(c) /\ got[c] < Size[on[c][1]]

\* The receiving loop goes on to read a frame, or ends and closes the file.
ReceiveLoop(c) ==
    /\ At(c, "loop")
    /\ Goto(c, IF Continues(c) THEN "reading" ELSE "closed")
    /\ UNCHANGED <<managerVars, on, dir, got, clean, pick, ok, alone, diskVars>>
    /\ KeepSessions

\* A frame of k units has arrived and goes to the file at the thread's own
\* offset; "good" tells whether it is what the phone offered, "stored"
\* whether the disk had room: out.write is not checked.
ReceiveFrame(c, k, good, stored) ==
    /\ At(c, "reading")
    /\ LET t == on[c][1]
           unit == IF ~stored THEN Empty ELSE IF good THEN t ELSE Bad
           here == (got[c] + 1)..(got[c] + k)
       IN  data' = [data EXCEPT ![Part(c)] =
                      [i \in Positions |-> IF i \in here THEN unit ELSE @[i]]]
    /\ got' = [got EXCEPT ![c] = @ + k]
    /\ clean' = [clean EXCEPT ![c] = @ /\ good]
    /\ Goto(c, "loop")
    /\ UNCHANGED <<managerVars, on, dir, pick, ok, alone, parts, saved>>
    /\ KeepSessions

\* The read fails, or the length of the frame is not valid.
ReceiveError(c) ==
    /\ At(c, "reading")
    /\ Goto(c, "discard")
    /\ UNCHANGED <<managerVars, on, dir, got, clean, pick, ok, alone, diskVars>>
    /\ KeepSessions

\* The transfer as the code judges it once the file is closed.
Complete(c) == LET t == on[c][1] IN
    got[c] = Size[t] /\ (t \in Hashed => clean[c])

JudgeAtLeast(c) ==   \* mutant: "total < expected" in place of "!="
    /\ At(c, "closed")
    /\ LET t == on[c][1]
           good == ~Flagged(c) /\ got[c] >= Size[t] /\ (t \in Hashed => clean[c])
       IN  Goto(c, IF good THEN "pick" ELSE "discard")
    /\ UNCHANGED <<managerVars, on, dir, got, clean, pick, ok, alone, diskVars>>
    /\ KeepSessions

JudgeCancelled(c) ==   \* mutant: the flag is not looked at after the loop
    /\ At(c, "closed")
    /\ Goto(c, IF Complete(c) THEN "pick" ELSE "discard")
    /\ UNCHANGED <<managerVars, on, dir, got, clean, pick, ok, alone, diskVars>>
    /\ KeepSessions

\* With the file closed: cancelled, incomplete or with the wrong hash it goes
\* to "discard", otherwise a final name is looked for.
JudgeUpload(c) ==
    /\ At(c, "closed")
    /\ Goto(c, IF ~Flagged(c) /\ Complete(c) THEN "pick" ELSE "discard")
    /\ UNCHANGED <<managerVars, on, dir, got, clean, pick, ok, alone, diskVars>>
    /\ KeepSessions

DiscardNothing(c) ==   \* mutant: a failed transfer leaves its .part
    /\ At(c, "discard")
    /\ Report(c, FALSE)
    /\ UNCHANGED <<managerVars, on, dir, got, clean, pick, alone, diskVars>>
    /\ KeepSessions

\* The .part of a failed transfer is removed, and the failure reported.
Discard(c) ==
    /\ At(c, "discard")
    /\ Remove({Part(c)})
    /\ Report(c, FALSE)
    /\ UNCHANGED <<managerVars, on, dir, got, clean, pick, alone, saved>>
    /\ KeepSessions

\* The loop that looks for a final name no file has yet.
PickName(c) ==
    /\ At(c, "pick")
    /\ \E i \in 1..(Cardinality(saved) + 2) :
          FirstFree(Part(c), i) /\ pick' = [pick EXCEPT ![c] = i]
    /\ Goto(c, "rename")
    /\ UNCHANGED <<managerVars, on, dir, got, clean, ok, alone, diskVars>>
    /\ KeepSessions

RenameUnchecked(c) ==   \* mutant: the result of QFile::rename is ignored
    /\ At(c, "rename")
    /\ Report(c, TRUE)
    /\ UNCHANGED <<managerVars, on, dir, got, clean, pick, alone, diskVars>>
    /\ KeepSessions

\* QFile::rename: it never replaces a file, and cannot move an open one, nor
\* anything to the empty path.
RenamePart(c) ==
    /\ At(c, "rename")
    /\ LET n == Part(c)
       IN  IF n \in parts \ {NoPath} /\ Removable(n) /\ ~Exists(n, pick[c])
           THEN /\ parts' = parts \ {n}
                /\ data' = [data EXCEPT ![n] = Blank]
                /\ saved' = saved \cup
                     {[at |-> <<n, pick[c]>>, of |-> on[c][1], by |-> c,
                       data |-> data[n], alone |-> alone[c]]}
                /\ Report(c, TRUE)
           ELSE Goto(c, "discard") /\ UNCHANGED <<diskVars, ok>>
    /\ UNCHANGED <<managerVars, on, dir, got, clean, pick, alone>>
    /\ KeepSessions

\* Sending: the file at the target path is opened, or cannot be.  For an upload
\* that is a file saved under its name, whichever it is.
OpenSource(c) ==
    /\ At(c, "source")
    /\ \/ Exists(Part(c), 1) /\ Goto(c, "send") /\ UNCHANGED ok
       \/ Report(c, FALSE)
    /\ UNCHANGED <<managerVars, on, dir, got, clean, pick, alone, diskVars>>
    /\ KeepSessions

\* The sending loop goes on to write a chunk, or ends with its verdict.
SendLoop(c) ==
    /\ At(c, "send")
    /\ IF Continues(c)
       THEN Goto(c, "writing") /\ UNCHANGED ok
       ELSE Report(c, ~Flagged(c) /\ got[c] = Size[on[c][1]])
    /\ UNCHANGED <<managerVars, on, dir, got, clean, pick, alone, diskVars>>
    /\ KeepSessions

\* The chunk is in the socket's hands.
SendChunk(c) ==
    /\ At(c, "writing")
    /\ got' = [got EXCEPT ![c] = @ + 1]
    /\ Goto(c, "send")
    /\ UNCHANGED <<managerVars, on, dir, clean, pick, ok, alone, diskVars>>
    /\ KeepSessions

\* The write fails, or the file ends before the announced size.
SendError(c) ==
    /\ At(c, "writing")
    /\ Report(c, FALSE)
    /\ UNCHANGED <<managerVars, on, dir, got, clean, pick, alone, diskVars>>
    /\ KeepSessions

\* m_onFinished, on the thread of the connection: if the offer is still known
\* the phone is sent file_complete...
Reply(c) ==
    /\ At(c, "reply")
    /\ told' = IF on[c][1] \in offers
               THEN told \cup {<<on[c][1], dir[c], ok[c]>>}
               ELSE told
    /\ Goto(c, "forget")
    /\ UNCHANGED <<offers, shown, on, dir, got, clean, pick, ok, alone, diskVars>>
    /\ KeepSessions

\* The locals of a thread go with it.
FreeLocals(c) ==
    /\ got' = [got EXCEPT ![c] = 0]
    /\ clean' = [clean EXCEPT ![c] = TRUE]
    /\ pick' = [pick EXCEPT ![c] = 0]
    /\ ok' = [ok EXCEPT ![c] = FALSE]
    /\ alone' = [alone EXCEPT ![c] = TRUE]

ForgetNothing(c) ==   \* mutant: the offer stays in m_activeOffers
    /\ At(c, "forget")
    /\ shown' = shown \cup {<<on[c][1], dir[c], ok[c]>>}
    /\ Goto(c, "done") /\ FreeLocals(c)
    /\ UNCHANGED <<offers, told, on, dir, diskVars>>
    /\ KeepSessions

\* ...then the tray is told and the offer forgotten.
Forget(c) ==
    /\ At(c, "forget")
    /\ shown' = shown \cup {<<on[c][1], dir[c], ok[c]>>}
    /\ offers' = offers \ {on[c][1]}
    /\ Goto(c, "done") /\ FreeLocals(c)
    /\ UNCHANGED <<told, on, dir, diskVars>>
    /\ KeepSessions

-----------------------------------------------------------------------------
(* FileTransferServer::stop and the end of the process                     *)

\* m_running = false, the acceptor is closed and its thread joined.
StopAccepting ==
    /\ phase = "running" /\ phase' = "stopping"
    /\ UNCHANGED <<regs, path, live, cancelled, managerVars, threadVars, diskVars>>

\* Under the lock, every session is flagged and its .part removed.
StopSessions ==
    /\ phase = "stopping" /\ phase' = "stopped"
    /\ cancelled' = cancelled \cup {Session(t) : t \in live}
    /\ Remove({path[t] : t \in live})
    /\ live' = {}
    /\ UNCHANGED <<regs, path, managerVars, threadVars, saved>>

\* main() returns: whatever a detached thread was doing ends here.
Exit ==
    /\ phase = "stopped" /\ phase' = "exited"
    /\ UNCHANGED <<regs, path, live, cancelled, managerVars, threadVars, diskVars>>

-----------------------------------------------------------------------------
Init ==
    /\ phase = "running"
    /\ regs = [t \in Transfers |-> 0] /\ path = [t \in Transfers |-> NoPath]
    /\ live = {} /\ cancelled = {}
    /\ offers = {} /\ told = {} /\ shown = {}
    /\ pc = [c \in Conns |-> "idle"]
    /\ on = [c \in Conns |-> None] /\ dir = [c \in Conns |-> "other"]
    /\ got = [c \in Conns |-> 0] /\ clean = [c \in Conns |-> TRUE]
    /\ pick = [c \in Conns |-> 0] /\ ok = [c \in Conns |-> FALSE]
    /\ alone = [c \in Conns |-> TRUE]
    /\ parts = {} /\ data = [n \in Names |-> Blank] /\ saved = {}

FrameOrEmpty(c) ==   \* mutant: a frame of length 0 is accepted
    \E k \in 0..MaxFrame, good \in BOOLEAN : ReceiveFrame(c, k, good, TRUE)

\* An ofstream that failed once writes nothing more.
Stored(c) ==
    LET failed == alone[c] /\ \E i \in 1..got[c] : data[Part(c)][i] = Empty
    IN  IF ~DiskMayFill THEN {TRUE} ELSE IF failed THEN {FALSE} ELSE BOOLEAN

Frame(c) ==
    \E k \in 1..MaxFrame, good \in BOOLEAN, stored \in Stored(c) :
        ReceiveFrame(c, k, good, stored)

\* Steps a thread takes by itself once it is scheduled.
Thread(c) ==
    \/ OpenPart(c) \/ ReceiveLoop(c) \/ JudgeUpload(c)
    \/ Discard(c) \/ PickName(c) \/ RenamePart(c)
    \/ OpenSource(c) \/ SendLoop(c) \/ Reply(c) \/ Forget(c)

\* Steps that wait for the phone or for its connection to fail.
Network(c) ==
    \/ \E t \in Transfers, byte \in Directions : Handshake(c, t, byte)
    \/ Refused(c) \/ Frame(c) \/ ReceiveError(c)
    \/ SendChunk(c) \/ SendError(c)

Control ==
    \/ \E t \in Uploads : HandleFileOffer(t)
    \/ \E t \in Downloads : SendFiles(t)
    \/ \E t \in Transfers :
          \/ HandleFileAccept(t) \/ HandleFileReject(t)
          \/ HandleFileCancel(t) \/ HandleFileComplete(t)

Stop == StopAccepting \/ StopSessions \/ Exit

Next ==
    \/ Control \/ Stop
    \/ \E c \in Conns : AcceptConnection(c) \/ Thread(c) \/ Network(c)

Spec == Init /\ [][Next]_vars

\* The operating system schedules every thread.
ThreadFairness == \A c \in Conns : WF_vars(Thread(c))

\* The phone sends, reads or drops its connection sooner or later.
LinkFairness == \A c \in Conns : WF_vars(Network(c))

ThreadSpec == Spec /\ ThreadFairness
FairSpec   == Spec /\ ThreadFairness /\ LinkFairness

-----------------------------------------------------------------------------
Labels == {"idle", "handshake", "open", "loop", "reading", "closed", "discard",
           "pick", "rename", "source", "send", "writing", "reply", "forget", "done"}

Working(c)   == pc[c] \notin {"idle", "handshake", "done"}
Receiving(c) == Owns(c) \/ pc[c] = "open"
Sending(c)   == pc[c] \in {"source", "send", "writing"}

SavedFile == [at : Names \X Nat, of : Transfers, by : Conns,
              data : [Positions -> Units], alone : BOOLEAN]

\* Every variable keeps its type, a session in m_sessions was registered, and a
\* thread past its handshake has a session and the direction its state is of.
TypeOK ==
    /\ phase \in {"running", "stopping", "stopped", "exited"}
    /\ regs \in [Transfers -> 0..MaxRegs]
    /\ path \in [Transfers -> Names]
    /\ live \subseteq {t \in Transfers : regs[t] > 0}
    /\ cancelled \subseteq Sessions
    /\ offers \subseteq Transfers
    /\ told \subseteq Transfers \X {"toPc", "toPhone"} \X BOOLEAN
    /\ shown \subseteq Transfers \X {"toPc", "toPhone"} \X BOOLEAN
    /\ pc \in [Conns -> Labels]
    /\ on \in [Conns -> Sessions \cup {None}]
    /\ dir \in [Conns -> Directions]
    /\ got \in [Conns -> Nat]
    /\ clean \in [Conns -> BOOLEAN] /\ alone \in [Conns -> BOOLEAN]
    /\ pick \in [Conns -> Nat] /\ ok \in [Conns -> BOOLEAN]
    /\ parts \subseteq Names
    /\ data \in [Names -> [Positions -> Units]]
    /\ \A s \in saved : s \in SavedFile
    /\ \A c \in Conns :
         /\ pc[c] \in {"idle", "handshake"} => on[c] = None /\ dir[c] = "other"
         /\ Working(c) => on[c] \in Sessions /\ dir[c] # "other"
         /\ Receiving(c) => dir[c] = "toPc"
         /\ Sending(c) => dir[c] = "toPhone"

\* A .part file on the disk always belongs to a thread that will remove or
\* rename it, while the process lives: plano.md:96 asks that no interruption
\* leaves an orphan file, and removal fails while another thread writes there.
NoOrphanPart ==
    phase # "exited" =>
        \A n \in parts : \E c \in Conns : Owns(c) /\ Part(c) = n

\* What may be found in place of a unit of t: damaged if the hash was not
\* checked, missing if the disk was full (out.write is not checked, and the hash
\* is computed over what was received).
Contents(t, checked) ==
    {t} \cup (IF checked THEN {} ELSE {Bad}) \cup (IF DiskMayFill THEN {Empty} ELSE {})

Intact(s) ==
    \A i \in Positions :
        IF i > Size[s.of] THEN s.data[i] = Empty
        ELSE s.data[i] \in Contents(s.of, s.of \in Hashed)

\* What is saved under a final name is what was offered (every unit of it when
\* the offer carries a hash, its length otherwise), but for what did not fit on
\* the disk, if no other connection had the same .part at the same time.
SavedIntact ==
    \A s \in saved : s.alone => Intact(s)

\* The same without the condition: plano.md:63 promises that the hash is
\* checked before the .part is renamed.
SavedAlwaysIntact ==
    \A s \in saved : Intact(s)

\* The connections that were to carry t to the PC.
Carrying(t) == {c \in Conns : on[c][1] = t /\ dir[c] = "toPc"}
IsSaved(t) == \E s \in saved : s.of = t

\* file_complete tells the truth about what was to be received: ok only for data
\* that are saved, and failure only for data that are not, when one connection
\* carried them.  A connection that asked for the other direction reports what
\* it sent, also of an upload, and says nothing about what was saved.
VerdictTrue ==
    \A t \in Transfers :
        /\ <<t, "toPc", TRUE>> \in told => IsSaved(t)
        /\ <<t, "toPc", FALSE>> \in told /\ (\E c \in Conns : Carrying(t) = {c}) =>
              ~IsSaved(t)

\* file_cancel and stop() can reach every thread that transfers, unless its
\* transfer was registered again since it connected: m_sessions still holds its
\* session, or its flag is set.  Only a repeated file_offer or file_accept takes
\* a thread out of their reach.
CancelReaches ==
    \A c \in Conns :
        Working(c) /\ on[c][2] = regs[on[c][1]] =>
            \/ Flagged(c)
            \/ on[c][1] \in live /\ on[c] = Session(on[c][1])

\* What a connection is to the data it carries to the PC.
Life(c) ==
    CASE pc[c] \in {"idle", "handshake"}                -> "idle"
      [] pc[c] \in {"open", "loop", "reading", "closed"} ->
            IF Flagged(c) THEN "doomed" ELSE "moving"
      [] pc[c] = "discard"                              -> "doomed"
      [] pc[c] \in {"pick", "rename"}                   -> "settling"
      [] pc[c] = "reply" /\ dir[c] = "toPc"             -> "ended"
      [] pc[c] = "forget" /\ dir[c] = "toPc"            -> "told"
      [] OTHER                                          -> "over"

Carried(c) == IF dir[c] = "toPc" THEN on[c] ELSE None

\* The verdicts of the threads that received, as <<transfer, saved>>.
OfReceived(verdicts) ==
    {v \in Transfers \X BOOLEAN : <<v[1], "toPc", v[2]>> \in verdicts}

Lives   == [c \in Conns |-> Life(c)]
Carries == [c \in Conns |-> Carried(c)]
Files   == {<<s.at, s.of, s.by>> : s \in saved}

L == INSTANCE UploadLife WITH
       Attempts <- Conns, Offers <- Sessions, Nothing <- None, life <- Lives,
       of <- Carries, files <- Files, told <- OfReceived(told),
       shown <- OfReceived(shown)

\* Whatever threads, cancellations, repeated offers and stop() do to each other,
\* what a connection carries to the PC has the life the phone relies on: it is
\* saved once or fails, never after a cancellation of its session that came
\* before the data were judged, never over another file, and phone and user are
\* told how it ended.
LifeRefines == L!Spec

\* After the process ended no .part is left behind: "Se tinha .part aberto,
\* limpa", FileTransferServer.cpp:60.
StopCleansParts == phase = "exited" => parts = {}

\* An offer in m_activeOffers is not one that a thread has done with: whichever
\* way a transfer ends, in either direction, its thread has erased the offer, and
\* only a new registration brings it back.  (A thread whose direction byte is
\* neither 0 nor 1 transfers nothing, and leaves the offer where it is.)
OfferOwned ==
    \A c \in Conns :
        pc[c] = "done" /\ dir[c] # "other" /\ on[c][1] \in offers =>
            on[c][2] < regs[on[c][1]]

-----------------------------------------------------------------------------
Ended(c) == pc[c] = "done" \/ phase = "exited"

\* A connection that was accepted comes to its end, and with it its .part:
\* plano.md:52 promises that 30 s without data end a transfer.
EveryConnectionEnds ==
    \A c \in Conns : (pc[c] # "idle") ~> Ended(c)

\* A transfer cancelled while it receives ends without saving anything.
CancelStops ==
    \A c \in Conns :
        (Writing(c) /\ Flagged(c)) ~>
            (Ended(c) /\ \A s \in saved : s.by # c)

\* An offer that a thread is working on leaves m_activeOffers.
OffersForgotten ==
    \A t \in Transfers :
        (t \in offers /\ \E c \in Conns : Working(c) /\ on[c][1] = t) ~>
            (t \notin offers \/ phase = "exited")
=============================================================================
