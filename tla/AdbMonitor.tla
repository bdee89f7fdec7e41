------------------------------ MODULE AdbMonitor ------------------------------
(***************************************************************************)
(* AdbManager: the thread that lists the phones attached by USB every two  *)
(* seconds and has adb.exe forward three ports from each of them to the PC *)
(* ("adb reverse"), and the Qt thread that installs adb.exe, starts that   *)
(* thread and joins it.  adb.exe runs as a process of its own: every call  *)
(* takes a step, during which phones come and go.                          *)
(*                                                                         *)
(* The ports a phone forwards are kept by the phone for as long as its     *)
(* connection lasts; nothing of AdbManager survives the process but the    *)
(* extracted files.                                                        *)
(***************************************************************************)
EXTENDS Naturals, Sequences, FiniteSets

CONSTANTS
    Phones,       \* serial numbers
    Files,        \* adb.exe and its libraries, resources of the program
    Ports,        \* number of ports forwarded: control, stream, files
    MaxChanges,   \* bound: times a phone is plugged in, unplugged or dozes off
    MaxRestarts,  \* bound: times the program is started again
    AdbMayFail    \* TRUE when a call of adb.exe may fail

ASSUME AdbAssumption ==
    /\ Ports \in Nat \ {0} /\ MaxChanges \in Nat /\ MaxRestarts \in Nat
    /\ AdbMayFail \in BOOLEAN

VARIABLES
    main,      \* where the Qt thread is
    files,     \* files extracted to %LOCALAPPDATA%
    running,   \* m_running
    pc,        \* where monitorLoop is
    link,      \* what adb knows of a phone: "device", "offline" or "absent"
    reverse,   \* ports the phone forwards
    seen,      \* devices: the list of this round
    todo,      \* phones of the list that the loop has still to set up
    cur,       \* <<phone, port>> that setupReverse is at, or Nothing
    active,    \* m_activeSerials
    posted,    \* events queued for the Qt thread: <<phone, attached>>
    noted,     \* phones of which the last event the Qt thread saw is "attached"
    missed,    \* history: phones whose forwarding broke after its set-up began,
               \* which the monitor has not noticed
    changes, restarts   \* counters that bound the model

monVars == <<pc, seen, todo, cur, active>>
usbVars == <<link, reverse, missed, changes>>
vars == <<main, files, running, monVars, usbVars, posted, noted, restarts>>

Nothing == <<>>
Empty == [p \in Phones |-> "absent"]   \* a list without phones
Installed == files = Files

-----------------------------------------------------------------------------
(* The cable                                                               *)

\* monitorLoop believes, or is about to believe, that p forwards its ports.
Trusted(p) == p \in active \cup todo \/ (cur # Nothing /\ cur[1] = p)

\* The connection of p changes; what it forwarded is gone with the old one.
Changes(p, to) ==
    /\ changes < MaxChanges /\ changes' = changes + 1
    /\ link[p] # to /\ link' = [link EXCEPT ![p] = to]
    /\ reverse' = [reverse EXCEPT ![p] = {}]
    /\ missed' = IF Trusted(p) THEN missed \cup {p} ELSE missed
    /\ UNCHANGED <<main, files, running, monVars, posted, noted, restarts>>

Usb == \E p \in Phones, to \in {"device", "offline", "absent"} : Changes(p, to)

-----------------------------------------------------------------------------
(* monitorLoop                                                             *)

Goto(l) == pc' = l

\* Whether a call of adb.exe does its work: runAdb tells nobody.
AdbCall(works) ==
    \/ works /\ Installed /\ UNCHANGED changes
    \/ ~works /\ ~Installed /\ UNCHANGED changes
    \/ ~works /\ Installed /\ AdbMayFail /\ changes < MaxChanges /\ changes' = changes + 1

MonForever ==   \* mutant: m_running is not looked at
    /\ pc = "top" /\ Goto("list")
    /\ UNCHANGED <<main, files, running, seen, todo, cur, active, usbVars, posted,
                   noted, restarts>>

\* while (m_running), after the two seconds of sleep
MonTop ==
    /\ pc = "top"
    /\ Goto(IF running THEN "list" ELSE "done")
    /\ UNCHANGED <<main, files, running, seen, todo, cur, active, usbVars, posted,
                   noted, restarts>>

ListAny ==   \* mutant: the state of a phone is not looked at
    /\ pc = "list"
    /\ \E works \in BOOLEAN :
          AdbCall(works) /\ seen' = IF works THEN link ELSE Empty
    /\ todo' = {p \in Phones : seen'[p] # "absent"} \ active
    /\ Goto("attach")
    /\ UNCHANGED <<main, files, running, cur, active, link, reverse, missed, posted,
                   noted, restarts>>

\* listDevices: without adb.exe its output is empty.  Those to set up are the
\* phones in state "device" that m_activeSerials does not have.
MonList ==
    /\ pc = "list"
    /\ \E works \in BOOLEAN :
          AdbCall(works) /\ seen' = IF works THEN link ELSE Empty
    /\ todo' = {p \in Phones : seen'[p] = "device"} \ active
    /\ Goto("attach")
    /\ UNCHANGED <<main, files, running, cur, active, link, reverse, missed, posted,
                   noted, restarts>>

SetupFromTwo(p) ==   \* mutant: a port is left out
    /\ pc = "attach" /\ cur = Nothing /\ p \in todo
    /\ cur' = <<p, 2>> /\ todo' = todo \ {p}
    /\ UNCHANGED <<main, files, running, pc, seen, active, usbVars, posted, noted, restarts>>

\* setupReverse begins, with its first port.
MonSetup(p) ==
    /\ pc = "attach" /\ cur = Nothing /\ p \in todo
    /\ cur' = <<p, 1>> /\ todo' = todo \ {p}
    /\ UNCHANGED <<main, files, running, pc, seen, active, usbVars, posted, noted, restarts>>

\* "adb -s p reverse" for one port: of no effect when the phone is gone.
MonReverse ==
    /\ cur # Nothing /\ cur[2] <= Ports
    /\ LET p == cur[1] IN \E works \in BOOLEAN :
          /\ AdbCall(works)
          /\ reverse' = IF works /\ link[p] = "device"
                        THEN [reverse EXCEPT ![p] = @ \cup {cur[2]}] ELSE reverse
          /\ missed' = IF works THEN missed ELSE missed \cup {p}
    /\ cur' = <<cur[1], cur[2] + 1>>
    /\ UNCHANGED <<main, files, running, pc, seen, todo, active, link, posted, noted,
                   restarts>>

AttachForgetting ==   \* mutant: the serial is not pushed
    /\ cur # Nothing /\ cur[2] > Ports
    /\ posted' = Append(posted, <<cur[1], TRUE>>)
    /\ cur' = Nothing
    /\ UNCHANGED <<main, files, running, pc, seen, todo, active, usbVars, noted, restarts>>

\* Whatever became of the calls, the serial is pushed and its event posted.
MonAttached ==
    /\ cur # Nothing /\ cur[2] > Ports
    /\ active' = active \cup {cur[1]}
    /\ posted' = Append(posted, <<cur[1], TRUE>>)
    /\ cur' = Nothing
    /\ UNCHANGED <<main, files, running, pc, seen, todo, usbVars, noted, restarts>>

MonAttachEnds ==
    /\ pc = "attach" /\ cur = Nothing /\ todo = {}
    /\ Goto("detach")
    /\ UNCHANGED <<main, files, running, seen, todo, cur, active, usbVars, posted,
                   noted, restarts>>

Lost == {p \in active : seen[p] = "absent"}

DetachOffline(p) ==   \* mutant: the event is posted, the serial not erased
    /\ pc = "detach" /\ p \in Lost
    /\ posted' = Append(posted, <<p, FALSE>>)
    /\ seen' = [seen EXCEPT ![p] = "offline"]
    /\ UNCHANGED <<main, files, running, pc, todo, cur, active, usbVars, noted, restarts>>

\* A serial that the list does not have is erased, and its event posted.
MonDetached(p) ==
    /\ pc = "detach" /\ p \in Lost
    /\ active' = active \ {p}
    /\ missed' = missed \ {p}
    /\ posted' = Append(posted, <<p, FALSE>>)
    /\ UNCHANGED <<main, files, running, pc, seen, todo, cur, link, reverse, changes,
                   noted, restarts>>

MonDetachEnds ==
    /\ pc = "detach" /\ Lost = {}
    /\ Goto("top") /\ seen' = Empty
    /\ UNCHANGED <<main, files, running, todo, cur, active, usbVars, posted, noted,
                   restarts>>

Monitor ==
    \/ MonTop \/ MonList \/ MonReverse \/ MonAttached \/ MonAttachEnds \/ MonDetachEnds
    \/ \E p \in Phones : MonSetup(p) \/ MonDetached(p)

-----------------------------------------------------------------------------
(* The Qt thread                                                           *)

MainGoto(l) == main' = l

\* extractAdb: a file that is there is left as it is.
Extract(f) ==
    /\ main = "extract" /\ f \in Files \ files
    /\ files' = files \cup {f}
    /\ UNCHANGED <<main, running, monVars, usbVars, posted, noted, restarts>>

\* All files are there, or one could not be copied: then the others are left,
\* and the monitor starts nevertheless.
ExtractEnds ==
    /\ main = "extract" /\ MainGoto("start")
    /\ UNCHANGED <<files, running, monVars, usbVars, posted, noted, restarts>>

StartMonitor ==
    /\ main = "start" /\ MainGoto("events")
    /\ running' = TRUE /\ Goto("top")
    /\ UNCHANGED <<files, seen, todo, cur, active, usbVars, posted, noted, restarts>>

\* An event of the monitor reaches the Qt thread.
Notify ==
    /\ main = "events" /\ posted # <<>>
    /\ LET p == Head(posted)[1]
       IN  noted' = IF Head(posted)[2] THEN noted \cup {p} ELSE noted \ {p}
    /\ posted' = Tail(posted)
    /\ UNCHANGED <<main, files, running, monVars, usbVars, restarts>>

StopFlag ==
    /\ main = "events" /\ MainGoto("join")
    /\ running' = FALSE
    /\ UNCHANGED <<files, monVars, usbVars, posted, noted, restarts>>

StopJoin ==
    /\ main = "join" /\ pc = "done" /\ MainGoto("stopped")
    /\ UNCHANGED <<files, running, monVars, usbVars, posted, noted, restarts>>

\* The process ends, at any point, and is started again.
Restart ==
    /\ restarts < MaxRestarts /\ restarts' = restarts + 1
    /\ MainGoto("extract") /\ running' = FALSE
    /\ Goto("off") /\ seen' = Empty /\ todo' = {} /\ cur' = Nothing /\ active' = {}
    /\ posted' = <<>> /\ noted' = {} /\ missed' = {}
    /\ UNCHANGED <<files, link, reverse, changes>>

-----------------------------------------------------------------------------
Init ==
    /\ main = "extract" /\ files \in SUBSET Files /\ running = FALSE
    /\ pc = "off" /\ seen = Empty /\ todo = {} /\ cur = Nothing /\ active = {}
    /\ link \in [Phones -> {"device", "absent"}]
    /\ reverse = [p \in Phones |-> {}] /\ missed = {}
    /\ posted = <<>> /\ noted = {} /\ changes = 0 /\ restarts = 0

Main == ExtractEnds \/ StartMonitor \/ Notify \/ StopJoin

Next ==
    \/ Usb \/ Monitor \/ Main \/ StopFlag \/ Restart
    \/ \E f \in Files : Extract(f)

Spec == Init /\ [][Next]_vars

\* Both threads are scheduled, and a call of adb.exe returns.
Fairness == WF_vars(Monitor) /\ WF_vars(Main)

FairSpec == Spec /\ Fairness

-----------------------------------------------------------------------------
\* Every variable keeps its type.
TypeOK ==
    /\ main \in {"extract", "start", "events", "join", "stopped"}
    /\ files \subseteq Files /\ running \in BOOLEAN
    /\ pc \in {"off", "top", "list", "attach", "detach", "done"}
    /\ link \in [Phones -> {"device", "offline", "absent"}]
    /\ seen \in [Phones -> {"device", "offline", "absent"}]
    /\ reverse \in [Phones -> SUBSET (1..Ports)]
    /\ todo \subseteq Phones /\ active \subseteq Phones /\ missed \subseteq Phones
    /\ cur \in {Nothing} \cup (Phones \X (1..(Ports + 1)))
    /\ posted \in Seq(Phones \X BOOLEAN) /\ noted \subseteq Phones
    /\ changes \in Nat /\ restarts \in Nat

AllPorts == 1..Ports

\* m_activeSerials are the phones that forward all ports (AdbManager.h:50),
\* except those whose connection broke unnoticed or that adb.exe failed: the
\* list is stale as soon as it is read.
ActiveForwards ==
    \A p \in active \ missed : link[p] = "device" /\ reverse[p] = AllPorts

\* What the Qt thread will have been told last of p, once every event arrived.
NoneOf(q, p) == \A i \in 1..Len(q) : q[i][1] # p
LastAttached(q, p) ==
    \E i \in 1..Len(q) :
        q[i][1] = p /\ q[i][2] /\ \A j \in (i + 1)..Len(q) : q[j][1] # p
Told(p) == (p \in noted /\ NoneOf(posted, p)) \/ LastAttached(posted, p)

\* The Qt thread is told of the phones in m_activeSerials: no event is lost or
\* posted twice, in whatever order phones come and go.
NotesFollow == \A p \in Phones : Told(p) <=> p \in active

\* stop() comes to its end.
StopCompletes == (main = "join") ~> (main # "join")

Lasting(p) == link[p] = "device" /\ Installed /\ main = "events"

\* A phone that stays connected forwards its ports in the end (guia_flutter.md:
\* 242), unless its set-up was disturbed without the monitor noticing.
ReverseComes ==
    \A p \in Phones :
        <>[](Lasting(p) /\ p \notin missed) => <>[](reverse[p] = AllPorts)

\* The same for every phone.
ReverseAlwaysComes ==
    \A p \in Phones : <>[]Lasting(p) => <>[](reverse[p] = AllPorts)

\* A phone that was unplugged is forgotten, so that its return is noticed.
GoneForgotten ==
    \A p \in Phones :
        <>[](link[p] = "absent" /\ main = "events") => <>[](p \notin active)
=============================================================================
