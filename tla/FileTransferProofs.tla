------------------------- MODULE FileTransferProofs -------------------------
(* Theorems about FileTransfer, for every value of its constants.           *)
EXTENDS FileTransfer, TLAPS

LEMMA InitType == Init => TypeOK
  BY TransferAssumption DEF Init, TypeOK, Transfers, Units, Positions, Blank,
     None, Labels, Directions, Owns, Writing, Working, Receiving, Sending

\* The first and third component of a session, and that of a thread that works.
LEMMA SessionShape ==
  ASSUME NEW s \in Sessions
  PROVE  s[1] \in Transfers /\ s[2] \in 1..MaxRegs /\ s[3] \in Names
  BY DEF Sessions

LEMMA SessionType ==
  ASSUME TypeOK, NEW t \in live
  PROVE  Session(t) \in Sessions
  BY TransferAssumption DEF TypeOK, Session, Sessions

LEMMA RegisterType ==
  ASSUME TypeOK, NEW t \in Transfers, NEW n \in Names, RegisterTransfer(t, n)
  PROVE  /\ regs' \in [Transfers -> 0..MaxRegs]
         /\ path' \in [Transfers -> Names]
         /\ live' \subseteq {u \in Transfers : regs'[u] > 0}
  BY TransferAssumption DEF TypeOK, RegisterTransfer

LEMMA BlankType == Blank \in [Positions -> Units]
  BY DEF Blank, Units

LEMMA RemoveType ==
  ASSUME TypeOK, NEW N, Remove(N)
  PROVE  /\ parts' \subseteq parts
         /\ data' \in [Names -> [Positions -> Units]]
  BY BlankType DEF TypeOK, Remove

LEMMA StepType == TypeOK /\ [Next]_vars => TypeOK'
<1> SUFFICES ASSUME TypeOK, [Next]_vars PROVE TypeOK'
  OBVIOUS
<1> USE TransferAssumption
<1>1. ASSUME NEW t \in Transfers,
             HandleFileOffer(t) \/ SendFiles(t) \/ HandleFileAccept(t)
      PROVE  TypeOK'
  <2>1. /\ NameOf[t] \in Names /\ FilePath(t) \in Names
        /\ \E n \in {NameOf[t], FilePath(t)} : RegisterTransfer(t, n)
    BY <1>1 DEF HandleFileOffer, SendFiles, HandleFileAccept, FilePath
  <2>2. /\ regs' \in [Transfers -> 0..MaxRegs]
        /\ path' \in [Transfers -> Names]
        /\ live' \subseteq {u \in Transfers : regs'[u] > 0}
    BY <2>1, RegisterType
  <2> QED
    BY <1>1, <2>2 DEF TypeOK, HandleFileOffer, SendFiles, HandleFileAccept,
       managerVars, threadVars, diskVars, Owns, Writing, Working, Receiving,
       Sending
<1>4. ASSUME NEW t \in Transfers, HandleFileCancel(t) PROVE TypeOK'
  BY <1>4, RemoveType, SessionType DEF TypeOK, HandleFileCancel,
     CancelTransfer, threadVars, Owns, Writing, Working, Receiving, Sending
<1>5. ASSUME NEW t \in Transfers, HandleFileComplete(t) PROVE TypeOK'
  BY <1>5 DEF TypeOK, HandleFileComplete, threadVars, diskVars, Owns, Writing,
     Working, Receiving, Sending
<1>6. ASSUME NEW c \in Conns, AcceptConnection(c) PROVE TypeOK'
  BY <1>6 DEF TypeOK, At, Goto, KeepSessions, Owns, Writing, Working,
     Receiving, Sending, Labels, AcceptConnection, managerVars, diskVars
<1>7. ASSUME NEW c \in Conns, NEW t \in Transfers, NEW byte \in Directions,
             Handshake(c, t, byte)
      PROVE  TypeOK'
  <2>1. Session(t) \in Sessions
    BY <1>7, SessionType DEF Handshake
  <2>2. /\ pc' = [pc EXCEPT ![c] = CASE byte = "toPc"    -> "open"
                                    [] byte = "toPhone" -> "source"
                                    [] OTHER            -> "done"]
        /\ byte \in {"toPc", "toPhone", "other"}
    BY <1>7 DEF Handshake, Goto, Directions
  <2> QED
    BY <1>7, <2>1, <2>2 DEF TypeOK, KeepSessions, Owns, Writing, Working,
       Receiving, Sending, Labels, Handshake, managerVars, diskVars
<1>8. ASSUME NEW c \in Conns, Refused(c) PROVE TypeOK'
  BY <1>8 DEF TypeOK, At, Goto, KeepSessions, Owns, Writing, Working,
     Receiving, Sending, Labels, Refused, managerVars, diskVars
<1>9. ASSUME NEW c \in Conns, OpenPart(c) PROVE TypeOK'
  <2>1. Part(c) \in Names
    BY <1>9, SessionShape DEF TypeOK, OpenPart, At, Part, Working
  <2>2. parts' \subseteq Names /\ data' \in [Names -> [Positions -> Units]]
    <3>1. \/ /\ parts' = parts \cup {Part(c)}
             /\ data' = [data EXCEPT ![Part(c)] = Blank]
          \/ parts' = parts /\ data' = data
      BY <1>9 DEF OpenPart
    <3>2. parts \subseteq Names /\ data \in [Names -> [Positions -> Units]]
      BY DEF TypeOK
    <3> HIDE DEF TypeOK
    <3>3. parts' \subseteq Names
      BY <2>1, <3>1, <3>2
    <3>4. data' \in [Names -> [Positions -> Units]]
      BY <2>1, <3>1, <3>2, BlankType
    <3> QED BY <3>3, <3>4
  <2>3. alone' \in [Conns -> BOOLEAN]
    <3> DEFINE others == {d \in Conns \ {c} : Owns(d) /\ Part(d) = Part(c)}
               v(d) == IF d = c THEN others = {} ELSE alone[d] /\ d \notin others
    <3>1. alone' = alone \/ alone' = [d \in Conns |-> v(d)]
      BY <1>9 DEF OpenPart
    <3>2. \A d \in Conns : v(d) \in BOOLEAN
      OBVIOUS
    <3> HIDE DEF v
    <3> QED BY <3>1, <3>2 DEF TypeOK
  <2>4. /\ pc' = [pc EXCEPT ![c] = "loop"] \/ pc' = [pc EXCEPT ![c] = "reply"]
        /\ ok' \in [Conns -> BOOLEAN]
    BY <1>9 DEF TypeOK, OpenPart, Report, Goto
  <2> QED
    BY <1>9, <2>2, <2>3, <2>4 DEF TypeOK, OpenPart, KeepSessions, Owns,
       Writing, Working, Receiving, Sending, Labels, At, managerVars
<1>10. ASSUME NEW c \in Conns, ReceiveLoop(c) PROVE TypeOK'
  BY <1>10 DEF TypeOK, At, Goto, KeepSessions, Owns, Writing, Working,
     Receiving, Sending, Labels, ReceiveLoop, managerVars, diskVars
<1>11. ASSUME NEW c \in Conns, Frame(c) PROVE TypeOK'
  <2>1. PICK k \in 1..MaxFrame, good \in BOOLEAN, stored \in Stored(c) :
            ReceiveFrame(c, k, good, stored)
    BY <1>11 DEF Frame
  <2>2. on[c][1] \in Transfers /\ Part(c) \in Names
    BY <2>1, SessionShape DEF TypeOK, ReceiveFrame, At, Part, Working
  <2>3. data' \in [Names -> [Positions -> Units]]
    <3> DEFINE unit == IF ~stored THEN Empty ELSE IF good THEN on[c][1] ELSE Bad
               f == [i \in Positions |->
                       IF i \in (got[c] + 1)..(got[c] + k) THEN unit
                       ELSE data[Part(c)][i]]
    <3>1. data' = [data EXCEPT ![Part(c)] = f] /\ data \in [Names -> [Positions -> Units]]
      BY <2>1 DEF ReceiveFrame, TypeOK
    <3>2. unit \in Units
      BY <2>2 DEF Units
    <3> HIDE DEF unit
    <3>3. f \in [Positions -> Units]
      BY <2>2, <3>1, <3>2
    <3> HIDE DEF f
    <3> QED BY <3>1, <3>3
  <2>4. got' \in [Conns -> Nat] /\ clean' \in [Conns -> BOOLEAN]
    BY <2>1 DEF ReceiveFrame, TypeOK
  <2>5. pc[c] = "reading" /\ pc' = [pc EXCEPT ![c] = "loop"]
    BY <2>1 DEF ReceiveFrame, At, Goto
  <2>6. UNCHANGED <<managerVars, on, dir, pick, ok, alone, parts, saved>> /\ KeepSessions
    BY <2>1 DEF ReceiveFrame
  <2> QED
    BY <2>3, <2>4, <2>5, <2>6 DEF TypeOK, KeepSessions, Owns, Writing, Working,
       Receiving, Sending, Labels, managerVars
<1>12. ASSUME NEW c \in Conns, ReceiveError(c) PROVE TypeOK'
  BY <1>12 DEF TypeOK, At, Goto, KeepSessions, Owns, Writing, Working,
     Receiving, Sending, Labels, ReceiveError, managerVars, diskVars
<1>13. ASSUME NEW c \in Conns, JudgeUpload(c) PROVE TypeOK'
  BY <1>13 DEF TypeOK, At, Goto, KeepSessions, Owns, Writing, Working,
     Receiving, Sending, Labels, JudgeUpload, managerVars, diskVars
<1>14. ASSUME NEW c \in Conns, Discard(c) PROVE TypeOK'
  BY <1>14, RemoveType DEF TypeOK, At, Goto, KeepSessions, Owns, Writing,
     Working, Receiving, Sending, Labels, Discard, Report, managerVars
<1>15. ASSUME NEW c \in Conns, PickName(c) PROVE TypeOK'
  BY <1>15 DEF TypeOK, At, Goto, KeepSessions, Owns, Writing, Working,
     Receiving, Sending, Labels, PickName, managerVars, diskVars
<1>16. ASSUME NEW c \in Conns, RenamePart(c) PROVE TypeOK'
  <2> DEFINE n == Part(c)
             f == [at |-> <<n, pick[c]>>, of |-> on[c][1], by |-> c,
                   data |-> data[n], alone |-> alone[c]]
  <2>1. on[c][1] \in Transfers /\ n \in Names
    BY <1>16, SessionShape DEF TypeOK, RenamePart, At, Part, Working
  <2>2. f \in SavedFile
    BY <2>1 DEF TypeOK, SavedFile
  <2>3. saved' \subseteq saved \cup {f}
    BY <1>16 DEF RenamePart, diskVars
  <2>4. \A s \in saved' : s \in SavedFile
    BY <2>2, <2>3 DEF TypeOK
  <2>5. parts' \subseteq parts /\ data' \in [Names -> [Positions -> Units]]
    <3>1. \/ parts' = parts \ {n} /\ data' = [data EXCEPT ![n] = Blank]
          \/ parts' = parts /\ data' = data
      BY <1>16 DEF RenamePart, diskVars
    <3>2. parts \subseteq Names /\ data \in [Names -> [Positions -> Units]]
      BY DEF TypeOK
    <3> QED BY <2>1, <3>1, <3>2, BlankType
  <2>6. /\ pc' = [pc EXCEPT ![c] = "reply"] \/ pc' = [pc EXCEPT ![c] = "discard"]
        /\ ok' \in [Conns -> BOOLEAN]
    BY <1>16 DEF TypeOK, RenamePart, Report, Goto
  <2> QED
    BY <1>16, <2>4, <2>5, <2>6 DEF TypeOK, RenamePart, KeepSessions, Owns,
       Writing, Working, Receiving, Sending, Labels, At, managerVars
<1>17. ASSUME NEW c \in Conns, OpenSource(c) PROVE TypeOK'
  BY <1>17 DEF TypeOK, At, Goto, KeepSessions, Owns, Writing, Working,
     Receiving, Sending, Labels, OpenSource, Report, managerVars, diskVars
<1>18. ASSUME NEW c \in Conns, SendLoop(c) PROVE TypeOK'
  <2> DEFINE v == ~Flagged(c) /\ got[c] = Size[on[c][1]]
  <2>1. v \in BOOLEAN
    OBVIOUS
  <2>2. ok' \in [Conns -> BOOLEAN]
    <3>1. ok' = ok \/ ok' = [ok EXCEPT ![c] = v]
      BY <1>18 DEF SendLoop, Report
    <3> HIDE DEF v
    <3> QED BY <2>1, <3>1 DEF TypeOK
  <2>3. pc' = [pc EXCEPT ![c] = "writing"] \/ pc' = [pc EXCEPT ![c] = "reply"]
    BY <1>18 DEF SendLoop, Report, Goto
  <2> QED
    BY <1>18, <2>2, <2>3 DEF TypeOK, SendLoop, KeepSessions, Owns, Writing,
       Working, Receiving, Sending, Labels, At, managerVars, diskVars
<1>19. ASSUME NEW c \in Conns, SendChunk(c) PROVE TypeOK'
  BY <1>19 DEF TypeOK, At, Goto, KeepSessions, Owns, Writing, Working,
     Receiving, Sending, Labels, SendChunk, managerVars, diskVars
<1>20. ASSUME NEW c \in Conns, SendError(c) PROVE TypeOK'
  BY <1>20 DEF TypeOK, At, Goto, KeepSessions, Owns, Writing, Working,
     Receiving, Sending, Labels, SendError, Report, managerVars, diskVars
<1>21. ASSUME NEW c \in Conns, Reply(c) PROVE TypeOK'
  BY <1>21, SessionShape DEF Directions, TypeOK, At, Goto, KeepSessions, Owns,
     Writing, Working, Receiving, Sending, Labels, Reply, diskVars
<1>22. ASSUME NEW c \in Conns, Forget(c) PROVE TypeOK'
  BY <1>22, SessionShape DEF Directions, TypeOK, At, Goto, KeepSessions, Owns,
     Writing, Working, Receiving, Sending, Labels, Forget, FreeLocals, diskVars
<1>23. CASE StopAccepting
  BY <1>23 DEF TypeOK, Owns, Writing, Working, Receiving, Sending,
     StopAccepting, managerVars, threadVars, diskVars
<1>24. CASE StopSessions
  BY <1>24, RemoveType, SessionType DEF TypeOK, Owns, Writing, Working,
     Receiving, Sending, StopSessions, managerVars, threadVars
<1>25. CASE Exit
  BY <1>25 DEF TypeOK, Owns, Writing, Working, Receiving, Sending, Exit,
     managerVars, threadVars, diskVars
<1>26. CASE UNCHANGED vars
  BY <1>26 DEF TypeOK, Owns, Writing, Working, Receiving, Sending, vars,
     managerVars, threadVars, diskVars
<1>27. ASSUME NEW t \in Transfers, HandleFileReject(t) PROVE TypeOK'
  BY <1>4, <1>27 DEF HandleFileReject
<1> QED
  BY <1>1, <1>4, <1>5, <1>6, <1>7, <1>8, <1>9, <1>10, <1>11, <1>12, <1>13, <1>14,
     <1>15, <1>16, <1>17, <1>18, <1>19, <1>20, <1>21, <1>22, <1>23, <1>24, <1>25,
     <1>26, <1>27
     DEF Next, Control, Stop, Thread, Network, Transfers

\* Every behaviour keeps the types of the variables, a session in m_sessions was
\* registered, and a thread that receives or sends was told to by its direction
\* byte, whatever session it works on.
THEOREM TypeCorrect == Spec => []TypeOK
  BY InitType, StepType, PTL DEF Spec

-----------------------------------------------------------------------------
(* No orphan .part: ownership ends only by removing or renaming the file, or *)
(* when another thread has it open and therefore owns it.                    *)

LEMMA OwnersStay ==
  ASSUME NoOrphanPart, phase = "exited" => phase' = "exited",
         parts' \subseteq parts,
         \A d \in Conns : Owns(d) => Owns(d)' /\ Part(d)' = Part(d)
  PROVE  NoOrphanPart'
  BY DEF NoOrphanPart

LEMMA RemoveOpen ==
  ASSUME NEW N, Remove(N), NEW n \in N, n \in parts'
  PROVE  \E e \in Conns : Writing(e) /\ Part(e) = n
  BY DEF Remove, Removable, OpenBy

LEMMA RemoveShrinks ==
  ASSUME NEW N, Remove(N) PROVE parts' \subseteq parts
  BY DEF Remove

LEMMA StepNoOrphan == TypeOK /\ NoOrphanPart /\ [Next]_vars => NoOrphanPart'
<1> SUFFICES ASSUME TypeOK, NoOrphanPart, [Next]_vars PROVE NoOrphanPart'
  OBVIOUS
<1>0. pc \in [Conns -> Labels] /\ on \in [Conns -> Sessions \cup {None}]
  BY DEF TypeOK
<1>1. ASSUME NEW t \in Transfers,
             HandleFileOffer(t) \/ SendFiles(t) \/ HandleFileAccept(t)
      PROVE  NoOrphanPart'
  BY <1>1, OwnersStay DEF HandleFileOffer, SendFiles, HandleFileAccept,
     threadVars, diskVars, Owns, Writing, Part
<1>2. ASSUME NEW t \in Transfers, HandleFileCancel(t) \/ HandleFileReject(t)
      PROVE  NoOrphanPart'
  BY <1>2, OwnersStay, RemoveShrinks DEF HandleFileReject, HandleFileCancel,
     CancelTransfer, threadVars, Owns, Writing, Part
<1>3. ASSUME NEW t \in Transfers, HandleFileComplete(t)
      PROVE  NoOrphanPart'
  BY <1>3, OwnersStay DEF HandleFileComplete, threadVars, diskVars, Owns,
     Writing, Part
<1>4. ASSUME NEW c \in Conns, NEW t \in Transfers, NEW byte \in Directions,
             Handshake(c, t, byte)
      PROVE  NoOrphanPart'
  BY <1>0, <1>4, OwnersStay DEF Handshake, At, Goto, KeepSessions, diskVars,
     Owns, Writing, Part
<1>5. ASSUME NEW c \in Conns,
             \/ AcceptConnection(c) \/ Refused(c) \/ OpenSource(c)
             \/ SendLoop(c) \/ SendChunk(c) \/ SendError(c) \/ Reply(c)
             \/ Forget(c)
      PROVE  NoOrphanPart'
  <2>1. /\ ~Owns(c) /\ UNCHANGED <<phase, parts, on>>
        /\ \E l \in Labels : Goto(c, l)
    BY <1>5 DEF AcceptConnection, Refused, OpenSource, SendLoop, SendChunk,
       SendError, Reply, Forget, Report, At, Goto, KeepSessions, diskVars,
       Owns, Writing, Labels
  <2>2. \A d \in Conns : Owns(d) => Owns(d)' /\ Part(d)' = Part(d)
    BY <1>0, <2>1 DEF Goto, Owns, Writing, Part
  <2> QED BY <2>1, <2>2, OwnersStay
<1>6. ASSUME NEW c \in Conns,
             \/ ReceiveLoop(c) \/ Frame(c) \/ ReceiveError(c)
             \/ JudgeUpload(c) \/ PickName(c)
      PROVE  NoOrphanPart'
  <2>1. /\ UNCHANGED <<phase, parts, on>>
        /\ \E l \in {"loop", "reading", "closed", "discard", "pick", "rename"} :
               Goto(c, l)
    BY <1>6 DEF ReceiveLoop, Frame, ReceiveFrame, ReceiveError, JudgeUpload,
       PickName, Goto, KeepSessions, diskVars
  <2>2. \A d \in Conns : Owns(d) => Owns(d)' /\ Part(d)' = Part(d)
    BY <1>0, <2>1 DEF Goto, Owns, Writing, Part
  <2> QED BY <2>1, <2>2, OwnersStay
<1>7. ASSUME NEW c \in Conns, OpenPart(c) PROVE NoOrphanPart'
  <2>1. /\ UNCHANGED <<phase, on>>
        /\ \/ Goto(c, "loop") /\ parts' = parts \cup {Part(c)}
           \/ Goto(c, "reply") /\ parts' = parts
        /\ ~Owns(c)
    BY <1>7 DEF OpenPart, Report, At, KeepSessions, Owns, Writing
  <2>2. \A d \in Conns : Owns(d) => Owns(d)' /\ Part(d)' = Part(d)
    BY <1>0, <2>1 DEF Goto, Owns, Writing, Part
  <2>3. Goto(c, "loop") => Owns(c)' /\ Part(c)' = Part(c)
    BY <1>0, <2>1 DEF Goto, Owns, Writing, Part
  <2> QED BY <2>1, <2>2, <2>3 DEF NoOrphanPart
<1>8. ASSUME NEW c \in Conns, Discard(c) PROVE NoOrphanPart'
  <2>1. /\ UNCHANGED <<phase, on>> /\ Goto(c, "reply") /\ ~Writing(c)
        /\ Remove({Part(c)})
    BY <1>8 DEF Discard, Report, At, KeepSessions, Writing
  <2>2. \A d \in Conns \ {c} : /\ Part(d)' = Part(d)
                               /\ Owns(d) => Owns(d)'
                               /\ Writing(d) => Owns(d)
    BY <1>0, <2>1 DEF Goto, Owns, Writing, Part
  <2>3. Part(c) \in parts' => \E e \in Conns \ {c} : Owns(e)' /\ Part(e)' = Part(c)
    BY <2>1, <2>2, RemoveOpen
  <2> QED BY <2>1, <2>2, <2>3, RemoveShrinks DEF NoOrphanPart
<1>9. ASSUME NEW c \in Conns, RenamePart(c) PROVE NoOrphanPart'
  <2>1. /\ UNCHANGED <<phase, on>>
        /\ \/ Goto(c, "reply") /\ parts' = parts \ {Part(c)}
           \/ Goto(c, "discard") /\ parts' = parts
    BY <1>9 DEF RenamePart, Report, KeepSessions, diskVars
  <2>2. \A d \in Conns \ {c} : /\ Part(d)' = Part(d)
                               /\ Owns(d) => Owns(d)'
    BY <1>0, <2>1 DEF Goto, Owns, Writing, Part
  <2>3. Goto(c, "discard") => Owns(c)' /\ Part(c)' = Part(c)
    BY <1>0, <2>1 DEF Goto, Owns, Writing, Part
  <2> QED BY <2>1, <2>2, <2>3 DEF NoOrphanPart
<1>10. CASE Stop
  BY <1>10, OwnersStay, RemoveShrinks DEF Stop, StopAccepting, StopSessions,
     Exit, threadVars, diskVars, NoOrphanPart, Owns, Writing, Part
<1>11. CASE UNCHANGED vars
  BY <1>11, OwnersStay DEF vars, threadVars, diskVars, Owns, Writing, Part
<1> QED
  BY <1>1, <1>2, <1>3, <1>4, <1>5, <1>6, <1>7, <1>8, <1>9, <1>10, <1>11
     DEF Next, Control, Thread, Network, Transfers

\* While the program runs a .part on the disk belongs to a thread that is
\* still going to remove or rename it: cancelTransfer, stop() and the error
\* paths of handleConnection leave no orphan between them.
THEOREM NoOrphan == Spec => []NoOrphanPart
<1>1. Init => NoOrphanPart
  BY DEF Init, NoOrphanPart
<1> QED BY <1>1, TypeCorrect, StepNoOrphan, PTL DEF Spec

-----------------------------------------------------------------------------
(* A cancellation reaches every transfer that was not registered again: the  *)
(* session of a thread is the last one registered, and in m_sessions or      *)
(* flagged, or an earlier one.                                               *)

Reached(c) ==
    LET t == on[c][1] IN
    /\ on[c][2] <= regs[t]
    /\ on[c][2] = regs[t] =>
          on[c] = Session(t) /\ (on[c] \in cancelled \/ t \in live)

ReachInv == \A c \in Conns : Working(c) => Reached(c)

LEMMA ReachKept ==
  ASSUME ReachInv, UNCHANGED <<regs, path, live, on>>, cancelled \subseteq cancelled',
         \A c \in Conns : Working(c)' => Working(c)
  PROVE  ReachInv'
  BY DEF ReachInv, Reached, Session

LEMMA StepReach == TypeOK /\ ReachInv /\ [Next]_vars => ReachInv'
<1> SUFFICES ASSUME TypeOK, ReachInv, [Next]_vars PROVE ReachInv'
  OBVIOUS
<1>0. /\ pc \in [Conns -> Labels] /\ on \in [Conns -> Sessions \cup {None}]
      /\ regs \in [Transfers -> 0..MaxRegs] /\ path \in [Transfers -> Names]
      /\ live \subseteq Transfers
      /\ \A c \in Conns : Working(c) => /\ on[c][1] \in Transfers
                                       /\ on[c][2] \in 1..MaxRegs
      /\ MaxRegs \in Nat
  BY SessionShape, TransferAssumption DEF TypeOK
<1>1. ASSUME NEW t \in Transfers,
             HandleFileOffer(t) \/ SendFiles(t) \/ HandleFileAccept(t)
      PROVE  ReachInv'
  <2>1. /\ UNCHANGED <<on, pc, cancelled>>
        /\ regs' = [regs EXCEPT ![t] = @ + 1] /\ live' = live \cup {t}
        /\ \E n : path' = [path EXCEPT ![t] = n]
    BY <1>1 DEF HandleFileOffer, SendFiles, HandleFileAccept, RegisterTransfer,
       threadVars
  <2> SUFFICES ASSUME NEW c \in Conns, Working(c)' PROVE Reached(c)'
    BY DEF ReachInv
  <2>2. Working(c) /\ Reached(c)
    BY <2>1 DEF Working, ReachInv
  <2>3. on[c][1] \in Transfers /\ on[c][2] \in 1..MaxRegs
    BY <1>0, <2>2
  <2>4. CASE on[c][1] = t
    <3>1. on[c][2] <= regs[t] /\ regs[t] \in Nat /\ regs'[t] = regs[t] + 1
      BY <1>0, <2>1, <2>2, <2>4 DEF Reached
    <3>2. on[c][2] < regs'[t]
      BY <1>0, <2>3, <3>1
    <3> QED BY <1>0, <2>1, <2>3, <2>4, <3>1, <3>2 DEF Reached
  <2>5. CASE on[c][1] # t
    BY <1>0, <2>1, <2>2, <2>3, <2>5 DEF Reached, Session
  <2> QED BY <2>4, <2>5
<1>2. ASSUME NEW t \in Transfers, HandleFileCancel(t) \/ HandleFileReject(t)
      PROVE  ReachInv'
  <2>1. /\ UNCHANGED <<on, pc, regs, path>>
        /\ \/ UNCHANGED <<live, cancelled>>
           \/ live' = live \ {t} /\ cancelled' = cancelled \cup {Session(t)}
    BY <1>2 DEF HandleFileReject, HandleFileCancel, CancelTransfer, threadVars
  <2> QED BY <1>0, <2>1 DEF ReachInv, Reached, Working, Session
<1>3. ASSUME NEW t \in Transfers, HandleFileComplete(t)
      PROVE  ReachInv'
  BY <1>3, ReachKept DEF HandleFileComplete, threadVars, Working
<1>4. ASSUME NEW c \in Conns, NEW t \in Transfers, NEW byte \in Directions,
             Handshake(c, t, byte)
      PROVE  ReachInv'
  <2>1. /\ UNCHANGED <<regs, path, live, cancelled>> /\ t \in live
        /\ on' = [on EXCEPT ![c] = Session(t)]
        /\ \A d \in Conns \ {c} : pc'[d] = pc[d]
    BY <1>0, <1>4 DEF Handshake, KeepSessions, Goto
  <2> SUFFICES ASSUME NEW d \in Conns, Working(d)' PROVE Reached(d)'
    BY DEF ReachInv
  <2>2. CASE d = c
    BY <1>0, <2>1, <2>2 DEF Reached, Session
  <2>3. CASE d # c
    BY <1>0, <2>1, <2>3 DEF ReachInv, Reached, Working, Session
  <2> QED BY <2>2, <2>3
<1>5. ASSUME NEW c \in Conns,
             AcceptConnection(c) \/ Refused(c) \/ Thread(c) \/ Frame(c)
             \/ ReceiveError(c) \/ SendChunk(c) \/ SendError(c)
      PROVE  ReachInv'
  <2>1. /\ UNCHANGED <<regs, path, live, on, cancelled>>
        /\ \E l \in Labels : Goto(c, l) /\ (l \in {"handshake", "done"} \/ Working(c))
    BY <1>5 DEF AcceptConnection, Refused, Thread, Frame, OpenPart,
       ReceiveLoop, JudgeUpload, Discard, PickName, RenamePart, OpenSource,
       SendLoop, Reply, Forget, ReceiveFrame, ReceiveError, SendChunk,
       SendError, Report, At, Goto, KeepSessions, Working, Labels
  <2>2. \A d \in Conns : Working(d)' => Working(d)
    BY <1>0, <2>1 DEF Working, Goto
  <2> QED BY <2>1, <2>2, ReachKept
<1>6. CASE StopAccepting \/ Exit \/ UNCHANGED vars
  BY <1>6, ReachKept DEF StopAccepting, Exit, vars, threadVars, Working
<1>7. CASE StopSessions
  BY <1>0, <1>7 DEF StopSessions, ReachInv, Reached, Session, Working,
     threadVars
<1> QED
  BY <1>1, <1>2, <1>3, <1>4, <1>5, <1>6, <1>7
     DEF Next, Control, Network, Stop, Transfers

\* However handshakes, offers, cancellations and stop() interleave, file_cancel
\* and stop() reach a running transfer, unless a later file_offer or file_accept
\* has put another session in the place of the one it works on.
THEOREM CancelCanReach == Spec => []CancelReaches
<1>1. Init => ReachInv
  BY DEF Init, ReachInv, Working
<1>2. ReachInv => CancelReaches
  BY DEF ReachInv, Reached, CancelReaches, Flagged
<1> QED BY <1>1, <1>2, TypeCorrect, StepReach, PTL DEF Spec

-----------------------------------------------------------------------------
(* What is saved is what was offered.  While a thread is the only owner of   *)
(* its .part, the file holds the units it received, in order, and nothing    *)
(* beyond them.                                                              *)

Received(c, i) == LET t == on[c][1] IN
    IF i <= got[c]
    THEN data[Part(c)][i] \in Contents(t, clean[c])
    ELSE data[Part(c)][i] = Empty

Faithful(c) ==
    /\ \A d \in Conns \ {c} : ~(Owns(d) /\ Part(d) = Part(c))
    /\ Part(c) \in parts => \A i \in Positions : Received(c, i)
    /\ pc[c] \in {"pick", "rename"} => Complete(c)

DataInv ==
    /\ \A c \in Conns : Owns(c) /\ alone[c] => Faithful(c)
    /\ \A c \in Conns : pc[c] \in {"idle", "handshake", "open"} => got[c] = 0
    /\ SavedIntact

\* A step that leaves the threads' files alone, or removes some.
LEMMA DataKept ==
  ASSUME DataInv, UNCHANGED <<on, got, clean, alone, saved>>,
         parts' \subseteq parts, \A n \in parts' : data'[n] = data[n],
         \A d \in Conns : Owns(d)' => Owns(d),
         \A d \in Conns : pc'[d] \in {"pick", "rename"} => pc[d] \in {"pick", "rename"},
         \A d \in Conns : pc'[d] \in {"idle", "handshake", "open"} =>
                            pc[d] \in {"idle", "handshake", "open"}
  PROVE  DataInv'
<1>1. SavedIntact'
  BY DEF DataInv, SavedIntact, Intact
<1>2. ASSUME NEW c \in Conns, Owns(c)', alone'[c]
      PROVE  Faithful(c)'
  <2>1. Faithful(c)
    BY <1>2 DEF DataInv
  <2> QED BY <2>1 DEF Faithful, Received, Part, Complete
<1> QED BY <1>1, <1>2 DEF DataInv

LEMMA RemoveKeepsRest ==
  ASSUME NEW N, Remove(N), TypeOK
  PROVE  \A n \in parts' : data'[n] = data[n]
  BY DEF Remove, TypeOK

LEMMA StepData == TypeOK /\ DataInv /\ [Next]_vars => DataInv'
<1> SUFFICES ASSUME TypeOK, DataInv, [Next]_vars PROVE DataInv'
  OBVIOUS
<1> USE TransferAssumption
<1>0. /\ pc \in [Conns -> Labels] /\ on \in [Conns -> Sessions \cup {None}]
      /\ got \in [Conns -> Nat] /\ clean \in [Conns -> BOOLEAN]
      /\ alone \in [Conns -> BOOLEAN]
      /\ parts \subseteq Names /\ data \in [Names -> [Positions -> Units]]
      /\ \A c \in Conns : Owns(c) \/ pc[c] = "open" =>
            on[c][1] \in Transfers /\ Part(c) \in Names
  BY SessionShape DEF TypeOK, Owns, Writing, Working, Part
<1>1. ASSUME NEW t \in Transfers,
             HandleFileOffer(t) \/ SendFiles(t) \/ HandleFileAccept(t)
      PROVE  DataInv'
  BY <1>1, DataKept DEF HandleFileOffer, SendFiles, HandleFileAccept,
     threadVars, diskVars, Owns, Writing
<1>2. ASSUME NEW t \in Transfers, HandleFileCancel(t) \/ HandleFileReject(t)
      PROVE  DataInv'
  <2>1. /\ UNCHANGED <<threadVars, saved>>
        /\ Remove({path[t]}) \/ UNCHANGED <<parts, data>>
    BY <1>2 DEF HandleFileReject, HandleFileCancel, CancelTransfer
  <2>2. parts' \subseteq parts /\ \A n \in parts' : data'[n] = data[n]
    BY <2>1, RemoveShrinks, RemoveKeepsRest
  <2> QED BY <2>1, <2>2, DataKept DEF threadVars, Owns, Writing
<1>3. ASSUME NEW t \in Transfers, HandleFileComplete(t)
      PROVE  DataInv'
  BY <1>3, DataKept DEF HandleFileComplete, threadVars, diskVars, Owns, Writing
<1>4. ASSUME NEW c \in Conns,
             \/ AcceptConnection(c) \/ Refused(c) \/ OpenSource(c)
             \/ SendLoop(c) \/ SendError(c) \/ Reply(c) \/ ReceiveLoop(c)
             \/ ReceiveError(c)
      PROVE  DataInv'
  <2>1. /\ UNCHANGED <<on, got, clean, alone, saved, parts, data>>
        /\ \/ Goto(c, "handshake") /\ pc[c] = "idle"
           \/ \E l \in {"done", "send", "writing", "reply", "forget"} : Goto(c, l)
           \/ (\E l \in {"reading", "closed", "discard"} : Goto(c, l)) /\ Writing(c)
    BY <1>4 DEF AcceptConnection, Refused, OpenSource, SendLoop, SendError,
       Reply, ReceiveLoop, ReceiveError, Report, At, Goto, diskVars, Writing
  <2>2. \A d \in Conns :
          /\ Owns(d)' => Owns(d)
          /\ pc'[d] \in {"pick", "rename"} => pc[d] \in {"pick", "rename"}
          /\ pc'[d] \in {"idle", "handshake", "open"} =>
                pc[d] \in {"idle", "handshake", "open"}
    BY <1>0, <2>1 DEF Goto, Owns, Writing
  <2> QED BY <2>1, <2>2, DataKept
<1>5. ASSUME NEW c \in Conns, NEW t \in Transfers, NEW byte \in Directions,
             Handshake(c, t, byte)
      PROVE  DataInv'
  <2>1. /\ UNCHANGED <<got, clean, alone, saved, parts, data>>
        /\ on' = [on EXCEPT ![c] = Session(t)] /\ pc[c] = "handshake"
        /\ Goto(c, "open") \/ Goto(c, "source") \/ Goto(c, "done")
    BY <1>5 DEF Handshake, At, Goto, diskVars
  <2>2. \A d \in Conns : Owns(d)' => d # c /\ Owns(d)
    BY <1>0, <2>1 DEF Goto, Owns, Writing
  <2>3. \A d \in Conns \ {c} : on'[d] = on[d] /\ pc'[d] = pc[d]
    BY <1>0, <2>1 DEF Goto
  <2>4. SavedIntact'
    BY <2>1 DEF DataInv, SavedIntact, Intact
  <2>5. ASSUME NEW d \in Conns, Owns(d)', alone'[d]
        PROVE  Faithful(d)'
    <3>1. Faithful(d) /\ d # c
      BY <2>1, <2>2, <2>5 DEF DataInv
    <3> QED BY <2>1, <2>2, <2>3, <3>1 DEF Faithful, Received, Part, Complete
  <2>6. \A d \in Conns : pc'[d] \in {"idle", "handshake", "open"} => got'[d] = 0
    BY <2>1, <2>3 DEF DataInv
  <2> QED BY <2>4, <2>5, <2>6 DEF DataInv
<1>6. ASSUME NEW c \in Conns, OpenPart(c) PROVE DataInv'
  <2>1. CASE UNCHANGED <<parts, data, alone>> /\ Goto(c, "reply")
    <3>1. /\ UNCHANGED <<on, got, clean, alone, saved, parts, data>>
          /\ \A d \in Conns : pc'[d] = "reply" \/ pc'[d] = pc[d]
      BY <1>0, <1>6, <2>1 DEF OpenPart, Goto
    <3> QED BY <3>1, DataKept DEF Owns, Writing
  <2>2. CASE Goto(c, "loop") /\ parts' = parts \cup {Part(c)}
             /\ data' = [data EXCEPT ![Part(c)] = Blank]
             /\ alone' = [d \in Conns |->
                   IF d = c
                   THEN {e \in Conns \ {c} : Owns(e) /\ Part(e) = Part(c)} = {}
                   ELSE alone[d] /\ d \notin
                        {e \in Conns \ {c} : Owns(e) /\ Part(e) = Part(c)}]
    <3>1. /\ UNCHANGED <<on, got, clean, saved>> /\ pc[c] = "open" /\ got[c] = 0
          /\ Part(c) \in Names
      BY <1>0, <1>6 DEF OpenPart, At, DataInv
    <3>2. /\ Owns(c)' /\ pc'[c] = "loop"
          /\ \A d \in Conns \ {c} : pc'[d] = pc[d] /\ (Owns(d)' <=> Owns(d))
      BY <1>0, <2>2 DEF Goto, Owns, Writing
    <3>3. SavedIntact'
      BY <3>1 DEF DataInv, SavedIntact, Intact
    <3>4. ASSUME NEW d \in Conns, Owns(d)', alone'[d]
          PROVE  Faithful(d)'
      <4>1. CASE d = c
        <5>1. \A i \in Positions : data'[Part(c)][i] = Empty /\ ~(i <= got[c])
          BY <1>0, <2>2, <3>1 DEF Blank, Positions
        <5>2. \A e \in Conns \ {c} : ~(Owns(e) /\ Part(e) = Part(c))
          BY <2>2, <3>4, <4>1
        <5> QED BY <3>1, <3>2, <4>1, <5>1, <5>2 DEF Faithful, Received, Part
      <4>2. CASE d # c
        <5>1. Owns(d) /\ alone[d] /\ Part(d) # Part(c)
          BY <2>2, <3>2, <3>4, <4>2
        <5>2. Faithful(d)
          BY <3>4, <5>1 DEF DataInv
        <5> QED BY <1>0, <2>2, <3>1, <3>2, <4>2, <5>1, <5>2
                DEF Faithful, Received, Part, Complete
      <4> QED BY <4>1, <4>2
    <3>5. \A d \in Conns : pc'[d] \in {"idle", "handshake", "open"} => got'[d] = 0
      BY <3>1, <3>2 DEF DataInv
    <3> QED BY <3>3, <3>4, <3>5 DEF DataInv
  <2> QED BY <1>6, <2>1, <2>2 DEF OpenPart, Report
<1>7. ASSUME NEW c \in Conns, Frame(c) PROVE DataInv'
  <2> DEFINE t == on[c][1]
  <2>1. PICK k \in 1..MaxFrame, good \in BOOLEAN,
             stored \in Stored(c) :
                 ReceiveFrame(c, k, good, stored)
    BY <1>7 DEF Frame
  <2>2. /\ UNCHANGED <<on, alone, parts, saved>>
        /\ got' = [got EXCEPT ![c] = got[c] + k]
        /\ clean' = [clean EXCEPT ![c] = clean[c] /\ good]
        /\ Goto(c, "loop") /\ pc[c] = "reading" /\ Owns(c) /\ Part(c) \in Names
    BY <1>0, <2>1 DEF ReceiveFrame, At, Owns, Writing
  <2>3. /\ \A d \in Conns \ {c} : pc'[d] = pc[d] /\ got'[d] = got[d]
                                  /\ clean'[d] = clean[d]
        /\ \A d \in Conns : Owns(d)' <=> Owns(d)
        /\ pc'[c] = "loop" /\ got'[c] = got[c] + k
    BY <1>0, <2>2 DEF Goto, Owns, Writing
  <2> DEFINE unit == IF ~stored THEN Empty ELSE IF good THEN t ELSE Bad
  <2>4. /\ data' = [data EXCEPT ![Part(c)] =
              [i \in Positions |-> IF i \in (got[c] + 1)..(got[c] + k)
                                   THEN unit ELSE data[Part(c)][i]]]
        /\ unit \in Contents(t, good)
    BY <1>0, <2>1, <2>2 DEF ReceiveFrame, Part, Stored, Contents
  <2>5. SavedIntact'
    BY <2>2 DEF DataInv, SavedIntact, Intact
  <2>6. ASSUME NEW d \in Conns, Owns(d)', alone'[d]
        PROVE  Faithful(d)'
    <3>1. Faithful(d) /\ Owns(d)
      BY <2>2, <2>3, <2>6 DEF DataInv
    <3>2. CASE d = c
      <4>1. ASSUME Part(c) \in parts, NEW i \in Positions PROVE Received(c, i)'
        <5>1. Received(c, i)
          BY <3>1, <3>2, <4>1 DEF Faithful
        <5>2. data'[Part(c)][i] = IF i \in (got[c] + 1)..(got[c] + k)
                                  THEN unit ELSE data[Part(c)][i]
          BY <1>0, <2>2, <2>4, <2>6
        <5>3. clean'[c] <=> clean[c] /\ good
          BY <1>0, <2>2
        <5>4. i \in Nat /\ got[c] \in Nat /\ k \in Nat
          BY <1>0 DEF Positions
        <5>5. /\ Contents(t, good) \subseteq Contents(t, clean'[c])
              /\ Contents(t, clean[c]) \subseteq Contents(t, clean'[c])
          BY <5>3 DEF Contents
        <5> HIDE DEF unit
        <5> QED BY <2>2, <2>3, <2>4, <5>1, <5>2, <5>4, <5>5 DEF Received, Part
      <4> QED BY <2>2, <2>3, <3>1, <3>2, <4>1 DEF Faithful, Part
    <3>3. CASE d # c
      <4>1. Part(d) # Part(c)
        BY <2>2, <3>1, <3>3 DEF Faithful
      <4>2. data'[Part(d)] = data[Part(d)]
        BY <1>0, <2>4, <2>6, <3>1, <4>1
      <4> QED BY <2>2, <2>3, <3>1, <3>3, <4>2 DEF Faithful, Received, Part, Complete
    <3> QED BY <3>2, <3>3
  <2>7. \A d \in Conns : pc'[d] \in {"idle", "handshake", "open"} => got'[d] = 0
    BY <2>3 DEF DataInv
  <2> QED BY <2>5, <2>6, <2>7 DEF DataInv
<1>8. ASSUME NEW c \in Conns, JudgeUpload(c) \/ PickName(c) PROVE DataInv'
  <2>1. /\ UNCHANGED <<on, got, clean, alone, saved, parts, data>> /\ Owns(c)
        /\ \/ Goto(c, "pick") /\ Complete(c)
           \/ Goto(c, "discard")
           \/ Goto(c, "rename") /\ pc[c] = "pick"
    BY <1>8 DEF JudgeUpload, PickName, At, diskVars, Owns
  <2>2. /\ \A d \in Conns \ {c} : pc'[d] = pc[d]
        /\ \A d \in Conns : Owns(d)' <=> Owns(d)
        /\ pc'[c] \in {"pick", "discard", "rename"}
    BY <1>0, <2>1 DEF Goto, Owns, Writing
  <2>3. SavedIntact'
    BY <2>1 DEF DataInv, SavedIntact, Intact
  <2>4. ASSUME NEW d \in Conns, Owns(d)', alone'[d]
        PROVE  Faithful(d)'
    <3>1. Faithful(d)
      BY <2>1, <2>2, <2>4 DEF DataInv
    <3>2. pc'[d] \in {"pick", "rename"} => Complete(d)
      BY <1>0, <2>1, <2>2, <3>1 DEF Faithful, Goto
    <3> QED BY <2>1, <2>2, <3>1, <3>2 DEF Faithful, Received, Part, Complete
  <2>5. \A d \in Conns : pc'[d] \in {"idle", "handshake", "open"} => got'[d] = 0
    BY <2>1, <2>2 DEF DataInv
  <2> QED BY <2>3, <2>4, <2>5 DEF DataInv
<1>9. ASSUME NEW c \in Conns, Discard(c) PROVE DataInv'
  <2>1. /\ UNCHANGED <<on, got, clean, alone, saved>> /\ Remove({Part(c)})
        /\ Goto(c, "reply")
    BY <1>9 DEF Discard, Report
  <2>2. \A d \in Conns : pc'[d] = "reply" \/ pc'[d] = pc[d]
    BY <1>0, <2>1 DEF Goto
  <2>3. parts' \subseteq parts /\ \A n \in parts' : data'[n] = data[n]
    BY <2>1, RemoveShrinks, RemoveKeepsRest
  <2> QED BY <2>1, <2>2, <2>3, DataKept DEF Owns, Writing
<1>10. ASSUME NEW c \in Conns, RenamePart(c) PROVE DataInv'
  <2>1. CASE UNCHANGED <<parts, data, saved, ok>> /\ Goto(c, "discard")
    <3>1. /\ UNCHANGED <<on, got, clean, alone, saved, parts, data>> /\ Owns(c)
          /\ \A d \in Conns : (d = c /\ pc'[d] = "discard") \/ pc'[d] = pc[d]
      BY <1>0, <1>10, <2>1 DEF RenamePart, At, Goto, Owns
    <3> QED BY <3>1, DataKept DEF Owns, Writing
  <2>2. CASE /\ Part(c) \in parts /\ parts' = parts \ {Part(c)}
             /\ data' = [data EXCEPT ![Part(c)] = Blank]
             /\ saved' = saved \cup
                  {[at |-> <<Part(c), pick[c]>>, of |-> on[c][1], by |-> c,
                    data |-> data[Part(c)], alone |-> alone[c]]}
             /\ Goto(c, "reply")
    <3>1. UNCHANGED <<on, got, clean, alone>> /\ Owns(c) /\ pc[c] = "rename"
      BY <1>10 DEF RenamePart, At, Owns
    <3>2. \A d \in Conns : /\ (d # c /\ pc'[d] = pc[d]) \/ (d = c /\ pc'[d] = "reply")
                           /\ Owns(d)' => (Owns(d) /\ d # c)
      BY <1>0, <2>2 DEF Goto, Owns, Writing
    <3>3. ASSUME alone[c], NEW i \in Positions
          PROVE  IF i > Size[on[c][1]] THEN data[Part(c)][i] = Empty
                 ELSE data[Part(c)][i] \in Contents(on[c][1], on[c][1] \in Hashed)
      <4>1. Received(c, i) /\ Complete(c)
        BY <2>2, <3>1, <3>3 DEF DataInv, Faithful
      <4>2. i \in Nat /\ Size[on[c][1]] \in Nat
        BY <1>0, <3>1 DEF Positions, Transfers
      <4> QED BY <4>1, <4>2 DEF Received, Complete, Contents
    <3>4. SavedIntact'
      <4> SUFFICES ASSUME NEW s \in saved', s.alone PROVE Intact(s)
        BY DEF SavedIntact, Intact
      <4>1. CASE s \in saved
        BY <4>1 DEF DataInv, SavedIntact
      <4>2. CASE s = [at |-> <<Part(c), pick[c]>>, of |-> on[c][1], by |-> c,
                      data |-> data[Part(c)], alone |-> alone[c]]
        BY <3>3, <4>2 DEF Intact
      <4> QED BY <2>2, <4>1, <4>2
    <3>5. ASSUME NEW d \in Conns, Owns(d)', alone'[d]
          PROVE  Faithful(d)'
      <4>1. Faithful(d) /\ d # c /\ Part(d) # Part(c)
        BY <3>1, <3>2, <3>5 DEF DataInv, Faithful
      <4>2. Part(d) \in parts' => Part(d) \in parts /\ data'[Part(d)] = data[Part(d)]
        BY <1>0, <2>2, <4>1
      <4> QED BY <3>1, <3>2, <4>1, <4>2 DEF Faithful, Received, Part, Complete
    <3>6. \A d \in Conns : pc'[d] \in {"idle", "handshake", "open"} => got'[d] = 0
      BY <3>1, <3>2 DEF DataInv
    <3> QED BY <3>4, <3>5, <3>6 DEF DataInv
  <2> QED BY <1>10, <2>1, <2>2 DEF RenamePart, Report, diskVars
<1>11. ASSUME NEW c \in Conns, SendChunk(c) \/ Forget(c) PROVE DataInv'
  <2>1. /\ UNCHANGED <<on, saved, parts, data>> /\ ~Owns(c)
        /\ Goto(c, "send") \/ Goto(c, "done")
        /\ \A d \in Conns \ {c} : /\ got'[d] = got[d] /\ clean'[d] = clean[d]
                                  /\ alone'[d] = alone[d]
    BY <1>0, <1>11 DEF SendChunk, Forget, FreeLocals, At, diskVars, Owns, Writing
  <2>2. \A d \in Conns : /\ (d # c /\ pc'[d] = pc[d]) \/ pc'[d] \in {"send", "done"}
                         /\ Owns(d)' <=> Owns(d)
                         /\ Owns(d) => d # c
    BY <1>0, <2>1 DEF Goto, Owns, Writing
  <2>3. SavedIntact'
    BY <2>1 DEF DataInv, SavedIntact, Intact
  <2>4. ASSUME NEW d \in Conns, Owns(d)', alone'[d]
        PROVE  Faithful(d)'
    <3>1. Faithful(d) /\ d # c
      BY <2>1, <2>2, <2>4 DEF DataInv
    <3> QED BY <2>1, <2>2, <3>1 DEF Faithful, Received, Part, Complete
  <2>5. \A d \in Conns : pc'[d] \in {"idle", "handshake", "open"} => got'[d] = 0
    BY <2>1, <2>2 DEF DataInv
  <2> QED BY <2>3, <2>4, <2>5 DEF DataInv
<1>12. CASE StopAccepting \/ Exit \/ UNCHANGED vars
  BY <1>12, DataKept DEF StopAccepting, Exit, vars, threadVars, diskVars, Owns,
     Writing
<1>13. CASE StopSessions
  <2>1. /\ UNCHANGED <<threadVars, saved>>
        /\ Remove({path[t] : t \in live})
    BY <1>13 DEF StopSessions
  <2>2. parts' \subseteq parts /\ \A n \in parts' : data'[n] = data[n]
    BY <2>1, RemoveShrinks, RemoveKeepsRest
  <2> QED BY <2>1, <2>2, DataKept DEF threadVars, Owns, Writing
<1> QED
  BY <1>1, <1>2, <1>3, <1>4, <1>5, <1>6, <1>7, <1>8, <1>9, <1>10, <1>11,
     <1>12, <1>13
     DEF Next, Control, Stop, Thread, Network, Transfers

\* A file saved by a connection that had its .part to itself is the file that
\* was offered, but for what the disk had no room for: the size check and the
\* hash of handleConnection are enough against every other interleaving.
THEOREM SavedIsIntact == Spec => []SavedIntact
<1>1. Init => DataInv
  BY DEF Init, DataInv, SavedIntact, Owns, Writing
<1>2. DataInv => SavedIntact
  BY DEF DataInv
<1> QED BY <1>1, <1>2, TypeCorrect, StepData, PTL DEF Spec

-----------------------------------------------------------------------------
(* The verdict of file_complete: it is settled before Reply sends it, and    *)
(* what settles it, the file in "saved" or its absence, does not change any  *)
(* more, because a thread saves at most once and nothing after that.         *)

Reporting(c) == pc[c] \in {"reply", "forget"}
Told(c)      == pc[c] \in {"forget", "done"}

\* Thread c has saved its file.
HasSaved(c) == \E s \in saved : s.by = c

\* Thread c was to receive t and has saved nothing.
FailedAt(c, t) == on[c][1] = t /\ dir[c] = "toPc" /\ Told(c) /\ ~HasSaved(c)

\* A saved file is of the session its thread worked on, and reported as such.
SavedBy(s) ==
    /\ on[s.by][1] = s.of /\ dir[s.by] = "toPc"
    /\ Reporting(s.by) \/ pc[s.by] = "done"
    /\ Reporting(s.by) => ok[s.by]

VerdictInv ==
    /\ \A c \in Conns : Reporting(c) /\ ok[c] /\ dir[c] = "toPc" => HasSaved(c)
    /\ \A s \in saved : SavedBy(s)
    /\ \A t \in Transfers : <<t, "toPc", TRUE>> \in told => IsSaved(t)
    /\ \A t \in Transfers :
          <<t, "toPc", FALSE>> \in told => \E c \in Conns : FailedAt(c, t)

LEMMA VerdictFollows == TypeOK /\ VerdictInv => VerdictTrue
<1> SUFFICES ASSUME TypeOK, VerdictInv,
                    NEW t \in Transfers, <<t, "toPc", FALSE>> \in told,
                    NEW c \in Conns, Carrying(t) = {c}, NEW s \in saved, s.of = t
             PROVE  FALSE
  BY DEF VerdictInv, VerdictTrue, IsSaved
<1>1. PICK d \in Conns : FailedAt(d, t)
  BY DEF VerdictInv
<1>2. s.by \in Conns /\ on[s.by][1] = t /\ dir[s.by] = "toPc"
  BY DEF TypeOK, SavedFile, VerdictInv, SavedBy
<1>3. s.by \in Carrying(t) /\ d \in Carrying(t)
  BY <1>1, <1>2 DEF Carrying, FailedAt
<1>4. s.by = c /\ d = c
  BY <1>3
<1> QED BY <1>1, <1>4 DEF FailedAt, HasSaved

\* A step that saves and tells nothing, and gives its verdict, if any, as no.
LEMMA VerdictKept ==
  ASSUME VerdictInv, UNCHANGED <<on, dir, saved, told>>, TypeOK,
         \A d \in Conns :
            \/ pc'[d] = pc[d] /\ ok'[d] = ok[d]
            \/ /\ pc[d] \notin {"reply", "forget", "done"}
               /\ Reporting(d)' => ~ok'[d]
            \/ pc[d] = "forget" /\ pc'[d] = "done"
  PROVE  VerdictInv'
<1>1. \A s \in saved : s.by \in Conns
  BY DEF TypeOK, SavedFile
<1>3. ASSUME NEW d \in Conns, Reporting(d)', ok'[d], dir'[d] = "toPc"
      PROVE  HasSaved(d)
  BY <1>3 DEF VerdictInv, Reporting
<1>4. \A s \in saved : SavedBy(s)'
  BY <1>1 DEF VerdictInv, SavedBy, Reporting
<1>5. \A d \in Conns : \A t : FailedAt(d, t) => FailedAt(d, t)'
  BY DEF FailedAt, HasSaved, Told
<1> QED BY <1>3, <1>4, <1>5 DEF VerdictInv, IsSaved, HasSaved

LEMMA StepVerdict == TypeOK /\ VerdictInv /\ [Next]_vars => VerdictInv'
<1> SUFFICES ASSUME TypeOK, VerdictInv, [Next]_vars PROVE VerdictInv'
  OBVIOUS
<1>0. /\ pc \in [Conns -> Labels] /\ ok \in [Conns -> BOOLEAN]
      /\ on \in [Conns -> Sessions \cup {None}] /\ dir \in [Conns -> Directions]
      /\ \A s \in saved : s.by \in Conns
      /\ \A c \in Conns : /\ Receiving(c) => dir[c] = "toPc"
                          /\ Sending(c) => dir[c] = "toPhone"
  BY DEF TypeOK, SavedFile
<1>1. CASE UNCHANGED <<pc, ok, on, dir, saved, told>>
  BY <1>1, VerdictKept
<1>2. ASSUME NEW c \in Conns,
             \/ AcceptConnection(c) \/ Refused(c) \/ OpenPart(c)
             \/ ReceiveLoop(c) \/ Frame(c) \/ ReceiveError(c)
             \/ JudgeUpload(c) \/ Discard(c) \/ PickName(c)
             \/ OpenSource(c) \/ SendChunk(c) \/ SendError(c)
      PROVE  VerdictInv'
  <2>1. /\ UNCHANGED <<on, dir, saved, told>>
        /\ pc[c] \notin {"reply", "forget", "done"}
        /\ \/ ok' = ok /\ \E l \in Labels \ {"reply", "forget"} : Goto(c, l)
           \/ Goto(c, "reply") /\ ok' = [ok EXCEPT ![c] = FALSE]
    BY <1>2 DEF AcceptConnection, Refused, OpenPart, ReceiveLoop, Frame,
       ReceiveFrame, ReceiveError, JudgeUpload, Discard, PickName, OpenSource,
       SendChunk, SendError, Report, At, Goto, Labels, managerVars, diskVars
  <2>2. \A d \in Conns \ {c} : pc'[d] = pc[d] /\ ok'[d] = ok[d]
    BY <1>0, <2>1 DEF Goto
  <2>3. Reporting(c)' => ~ok'[c]
    BY <1>0, <2>1 DEF Goto, Reporting
  <2> QED BY <2>1, <2>2, <2>3, VerdictKept
<1>3. ASSUME NEW c \in Conns, NEW t \in Transfers, NEW byte \in Directions,
             Handshake(c, t, byte)
      PROVE  VerdictInv'
  <2>1. /\ UNCHANGED <<saved, told, ok>> /\ pc[c] = "handshake"
        /\ on' = [on EXCEPT ![c] = Session(t)]
        /\ dir' = [dir EXCEPT ![c] = byte]
        /\ Goto(c, "open") \/ Goto(c, "source") \/ Goto(c, "done")
    BY <1>3 DEF Handshake, At, Goto, managerVars, diskVars
  <2>2. /\ \A d \in Conns \ {c} : /\ pc'[d] = pc[d] /\ on'[d] = on[d]
                                  /\ dir'[d] = dir[d]
        /\ pc'[c] \notin {"reply", "forget"}
    BY <1>0, <2>1 DEF Goto
  <2>3. \A s \in saved : s.by # c /\ SavedBy(s)'
    BY <1>0, <2>1, <2>2 DEF VerdictInv, SavedBy, Reporting
  <2>4. \A d \in Conns : \A u : FailedAt(d, u) => FailedAt(d, u)'
    BY <2>1, <2>2 DEF FailedAt, HasSaved, Told
  <2>6. \A d \in Conns : Reporting(d)' /\ ok'[d] /\ dir'[d] = "toPc" => HasSaved(d)
    BY <2>1, <2>2 DEF VerdictInv, Reporting
  <2> QED BY <2>1, <2>3, <2>4, <2>6 DEF VerdictInv, IsSaved, HasSaved
<1>4. ASSUME NEW c \in Conns, RenamePart(c) PROVE VerdictInv'
  <2>1. CASE Goto(c, "discard") /\ UNCHANGED <<diskVars, ok>>
    <3>1. /\ UNCHANGED <<on, dir, saved, told, ok>> /\ pc[c] = "rename"
          /\ pc'[c] = "discard" /\ \A d \in Conns \ {c} : pc'[d] = pc[d]
      BY <1>0, <1>4, <2>1 DEF RenamePart, At, Goto, managerVars, diskVars
    <3> QED BY <3>1, VerdictKept DEF Reporting
  <2>2. CASE Report(c, TRUE) /\ \E f : /\ saved' = saved \cup {f}
                                       /\ f.of = on[c][1] /\ f.by = c
    <3>1. PICK f : saved' = saved \cup {f} /\ f.of = on[c][1] /\ f.by = c
      BY <2>2
    <3>2. /\ UNCHANGED <<on, dir, told>> /\ pc[c] = "rename" /\ dir[c] = "toPc"
          /\ pc'[c] = "reply" /\ ok'[c] = TRUE
          /\ \A d \in Conns \ {c} : pc'[d] = pc[d] /\ ok'[d] = ok[d]
      BY <1>0, <1>4, <2>2 DEF RenamePart, Report, Goto, At,
         managerVars, Receiving, Owns
    <3>3. \A s \in saved : s.by # c /\ SavedBy(s)'
      BY <1>0, <3>2 DEF VerdictInv, SavedBy, Reporting
    <3>4. SavedBy(f)'
      BY <3>1, <3>2 DEF SavedBy, Reporting
    <3>5. \A d \in Conns : \A u : FailedAt(d, u) => FailedAt(d, u)'
      BY <3>1, <3>2 DEF FailedAt, HasSaved, Told
    <3>6. \A u : IsSaved(u) => IsSaved(u)'
      BY <3>1 DEF IsSaved
    <3>8. \A d \in Conns : (Reporting(d) /\ ok[d] /\ dir[d] = "toPc"
                              => HasSaved(d))'
      BY <3>1, <3>2 DEF HasSaved, VerdictInv, Reporting
    <3> QED BY <3>1, <3>2, <3>3, <3>4, <3>5, <3>6, <3>8 DEF VerdictInv
  <2>3. ASSUME saved' = saved \cup
                 {[at |-> <<Part(c), pick[c]>>, of |-> on[c][1], by |-> c,
                   data |-> data[Part(c)], alone |-> alone[c]]}
        PROVE  \E f : saved' = saved \cup {f} /\ f.of = on[c][1] /\ f.by = c
    <3> DEFINE f == [at |-> <<Part(c), pick[c]>>, of |-> on[c][1], by |-> c,
                     data |-> data[Part(c)], alone |-> alone[c]]
    <3>1. saved' = saved \cup {f} /\ f.of = on[c][1] /\ f.by = c
      BY <2>3
    <3> HIDE DEF f
    <3> QED BY <3>1
  <2> QED BY <1>4, <2>1, <2>2, <2>3 DEF RenamePart
<1>5. ASSUME NEW c \in Conns, SendLoop(c) PROVE VerdictInv'
  <2>1. /\ UNCHANGED <<on, dir, saved, told>> /\ Sending(c) /\ pc[c] = "send"
        /\ \A d \in Conns \ {c} : pc'[d] = pc[d] /\ ok'[d] = ok[d]
        /\ pc'[c] \in {"writing", "reply"}
    BY <1>0, <1>5 DEF SendLoop, Report, Goto, At, Sending, managerVars, diskVars
  <2>2. dir[c] = "toPhone"
    BY <1>0, <2>1
  <2>3. \A s \in saved : s.by # c /\ SavedBy(s)'
    BY <1>0, <2>1 DEF VerdictInv, SavedBy, Reporting
  <2>4. \A d \in Conns : \A u : FailedAt(d, u) => FailedAt(d, u)'
    BY <2>1 DEF FailedAt, HasSaved, Told
  <2>6. \A d \in Conns : Reporting(d)' /\ ok'[d] /\ dir'[d] = "toPc" => HasSaved(d)
    BY <2>1, <2>2 DEF VerdictInv, Reporting
  <2> QED BY <2>1, <2>3, <2>4, <2>6 DEF VerdictInv, IsSaved, HasSaved
<1>6. ASSUME NEW c \in Conns, Reply(c) PROVE VerdictInv'
  <2>1. /\ UNCHANGED <<on, dir, saved, ok>> /\ pc[c] = "reply" /\ pc'[c] = "forget"
        /\ \A d \in Conns \ {c} : pc'[d] = pc[d]
        /\ told' \subseteq told \cup {<<on[c][1], dir[c], ok[c]>>}
    BY <1>0, <1>6 DEF Reply, Goto, At, diskVars
  <2>2. \A s \in saved : SavedBy(s)'
    BY <1>0, <2>1 DEF VerdictInv, SavedBy, Reporting
  <2>3. \A d \in Conns : \A u : FailedAt(d, u) => FailedAt(d, u)'
    BY <2>1 DEF FailedAt, HasSaved, Told
  <2>5. \A d \in Conns : Reporting(d)' /\ ok'[d] /\ dir'[d] = "toPc" => HasSaved(d)
    BY <2>1 DEF VerdictInv, Reporting
  <2>6. ASSUME NEW t \in Transfers, <<t, "toPc", TRUE>> \in told'
        PROVE  IsSaved(t)
    <3>1. CASE <<t, "toPc", TRUE>> \in told
      BY <3>1 DEF VerdictInv
    <3>2. CASE on[c][1] = t /\ dir[c] = "toPc" /\ ok[c] = TRUE
      BY <2>1, <3>2 DEF VerdictInv, Reporting, HasSaved, SavedBy, IsSaved
    <3> QED BY <2>1, <2>6, <3>1, <3>2
  <2>7. ASSUME NEW t \in Transfers, <<t, "toPc", FALSE>> \in told'
        PROVE  \E d \in Conns : FailedAt(d, t)'
    <3>1. CASE <<t, "toPc", FALSE>> \in told
      BY <2>3, <3>1 DEF VerdictInv
    <3>2. CASE on[c][1] = t /\ dir[c] = "toPc" /\ ok[c] = FALSE
      <4>1. ~HasSaved(c)
        BY <2>1, <3>2 DEF VerdictInv, HasSaved, SavedBy, Reporting
      <4>2. FailedAt(c, t)'
        BY <2>1, <3>2, <4>1 DEF FailedAt, HasSaved, Told
      <4> QED BY <4>2
    <3> QED BY <2>1, <2>7, <3>1, <3>2
  <2> QED BY <2>1, <2>2, <2>5, <2>6, <2>7 DEF VerdictInv, IsSaved, HasSaved
<1>7. ASSUME NEW c \in Conns, Forget(c) PROVE VerdictInv'
  <2>1. /\ UNCHANGED <<on, dir, saved, told>> /\ pc[c] = "forget" /\ pc'[c] = "done"
        /\ \A d \in Conns \ {c} : pc'[d] = pc[d] /\ ok'[d] = ok[d]
    BY <1>0, <1>7 DEF Forget, FreeLocals, Goto, At, diskVars
  <2> QED BY <2>1, VerdictKept
<1>8. CASE Control \/ Stop \/ UNCHANGED vars
  <2>1. UNCHANGED <<pc, ok, on, dir, saved, told>>
    BY <1>8 DEF Control, Stop, StopAccepting, StopSessions, Exit,
       HandleFileOffer, SendFiles, HandleFileAccept, HandleFileReject,
       HandleFileCancel, HandleFileComplete, vars, managerVars, threadVars,
       diskVars
  <2> QED BY <1>1, <2>1
<1> QED
  BY <1>2, <1>3, <1>4, <1>5, <1>6, <1>7, <1>8 DEF Next, Thread, Network

\* What file_complete says of data that were to be received is true: ok only if
\* they are saved under a final name, and, when one connection was to carry them,
\* a failure only if they are not, whatever cancellations, repeated offers, stops
\* and full disks intervene.
THEOREM VerdictIsTrue == Spec => []VerdictTrue
<1>1. Init => VerdictInv
  BY DEF Init, VerdictInv, Reporting
<1> QED BY <1>1, VerdictFollows, TypeCorrect, StepVerdict, PTL DEF Spec

-----------------------------------------------------------------------------
(* The life of what is sent to the PC: FileTransfer implements UploadLife.   *)
(* A session in m_sessions is never flagged, so that an attempt begins        *)
(* unharmed.                                                                 *)

LiveInv ==
    /\ \A t \in live : Session(t) \notin cancelled
    /\ \A x \in cancelled : x[2] <= regs[x[1]]

LEMMA StepLive == TypeOK /\ LiveInv /\ [Next]_vars => LiveInv'
<1> SUFFICES ASSUME TypeOK, LiveInv, [Next]_vars PROVE LiveInv'
  OBVIOUS
<1>0. /\ regs \in [Transfers -> 0..MaxRegs] /\ path \in [Transfers -> Names]
      /\ live \subseteq Transfers /\ MaxRegs \in Nat
      /\ \A x \in cancelled : x[1] \in Transfers /\ x[2] \in 1..MaxRegs
  BY SessionShape, TransferAssumption DEF TypeOK
<1>1. ASSUME NEW t \in Transfers, NEW n \in Names, RegisterTransfer(t, n),
             cancelled' = cancelled
      PROVE  LiveInv'
  <2>1. /\ regs' = [regs EXCEPT ![t] = @ + 1] /\ live' = live \cup {t}
        /\ \A u \in Transfers \ {t} : regs'[u] = regs[u] /\ path'[u] = path[u]
        /\ regs'[t] = regs[t] + 1 /\ regs[t] \in Nat
    BY <1>0, <1>1 DEF RegisterTransfer
  <2>2. \A x \in cancelled : /\ x[1] \in Transfers /\ x[2] <= regs'[x[1]]
                             /\ x[1] = t => x[2] <= regs[t]
    BY <1>0, <2>1 DEF LiveInv
  <2>3. ASSUME NEW u \in live' PROVE Session(u)' \notin cancelled
    <3>1. CASE u = t
      BY <1>0, <2>1, <2>2, <3>1 DEF Session
    <3>2. CASE u # t
      BY <1>0, <2>1, <2>3, <3>2 DEF LiveInv, Session
    <3> QED BY <3>1, <3>2
  <2> QED BY <1>1, <2>2, <2>3 DEF LiveInv
<1>2. ASSUME NEW t \in Transfers, CancelTransfer(t), UNCHANGED <<regs, path>>
      PROVE  LiveInv'
  BY <1>0, <1>2 DEF CancelTransfer, LiveInv, Session
<1>3. CASE UNCHANGED <<regs, path, live, cancelled>>
  BY <1>3 DEF LiveInv, Session
<1>4. CASE StopSessions
  BY <1>0, <1>4 DEF StopSessions, LiveInv, Session
<1>5. CASE Control
  <2>1. ASSUME NEW t \in Transfers,
               HandleFileOffer(t) \/ SendFiles(t) \/ HandleFileAccept(t)
        PROVE  LiveInv'
    <3>1. NameOf[t] \in Names /\ FilePath(t) \in Names
      BY TransferAssumption DEF FilePath
    <3> QED
      BY <1>1, <2>1, <3>1 DEF HandleFileOffer, SendFiles, HandleFileAccept
  <2>2. ASSUME NEW t \in Transfers,
               \/ HandleFileReject(t) \/ HandleFileCancel(t)
               \/ HandleFileComplete(t)
        PROVE  LiveInv'
    BY <1>2, <1>3, <2>2 DEF HandleFileReject, HandleFileCancel,
       HandleFileComplete
  <2> QED BY <1>5, <2>1, <2>2 DEF Control, Transfers
<1>6. ASSUME NEW c \in Conns, AcceptConnection(c) \/ Thread(c) \/ Network(c)
      PROVE  UNCHANGED <<regs, path, live, cancelled>>
  BY <1>6 DEF AcceptConnection, Thread, Network, OpenPart, ReceiveLoop,
     JudgeUpload, Discard, PickName, RenamePart, OpenSource, SendLoop, Reply,
     Forget, Handshake, Refused, Frame, ReceiveFrame, ReceiveError, SendChunk,
     SendError, KeepSessions
<1> QED
  BY <1>3, <1>4, <1>5, <1>6 DEF Next, Stop, StopAccepting, Exit, vars

RefInv == TypeOK /\ VerdictInv /\ LiveInv

LEMMA RefInvariant == Spec => []RefInv
<1>1. Init => VerdictInv /\ LiveInv
  BY DEF Init, VerdictInv, Reporting, LiveInv
<1> QED
  BY <1>1, TypeCorrect, StepVerdict, StepLive, PTL DEF Spec, RefInv

\* A step of one thread changes the life of no other attempt.
LEMMA LifeMoves ==
  ASSUME TypeOK, NEW c \in Conns, NEW l \in Labels, Goto(c, l),
         UNCHANGED <<on, dir, cancelled>>
  PROVE  /\ Lives' = [Lives EXCEPT ![c] = Life(c)']
         /\ Lives[c] = Life(c) /\ Carries' = Carries /\ Carries[c] = Carried(c)
<1>1. \A d \in Conns \ {c} : pc'[d] = pc[d]
  BY DEF TypeOK, Goto
<1>2. \A d \in Conns \ {c} : Life(d)' = Life(d)
  BY <1>1 DEF Life, Flagged
<1> QED BY <1>2 DEF Lives, Carries, Carried

\* A step that is none of the life of what is sent to the PC.
LEMMA LifeKept ==
  ASSUME UNCHANGED <<pc, on, dir, cancelled, saved, told>>,
         OfReceived(shown)' = OfReceived(shown)
  PROVE  UNCHANGED L!vars
<1>1. \A d \in Conns : Life(d)' = Life(d) /\ Carried(d)' = Carried(d)
  BY DEF Life, Flagged, Carried
<1> QED BY <1>1 DEF L!vars, Lives, Carries, Files, OfReceived

\* The sessions of the transfers in T are cancelled.
LEMMA CancelDooms ==
  ASSUME TypeOK, NEW T,
         cancelled' = cancelled \cup {Session(t) : t \in T},
         UNCHANGED <<pc, on, dir, saved, told, shown>>
  PROVE  L!Next
<1> DEFINE S == {Session(t) : t \in T} \cap {Carries[c] : c \in Conns}
<1>1. \A c \in Conns : pc[c] \in {"open", "loop", "reading", "closed"} =>
         Carried(c) = on[c]
  BY DEF TypeOK, Receiving, Owns, Writing, Carried
<1>2. ASSUME NEW c \in Conns
      PROVE  Life(c)' = IF Life(c) = "moving" /\ Carries[c] \in S
                        THEN "doomed" ELSE Life(c)
  <2>1. CASE pc[c] \in {"open", "loop", "reading", "closed"}
    <3>1. /\ Life(c) = IF on[c] \in cancelled THEN "doomed" ELSE "moving"
          /\ Life(c)' = IF on[c] \in cancelled' THEN "doomed" ELSE "moving"
          /\ Carries[c] = on[c]
      BY <1>1, <2>1 DEF Life, Flagged, Carries
    <3>2. on[c] \in {Session(t) : t \in T} <=> Carries[c] \in S
      BY <3>1
    <3> HIDE DEF S
    <3> QED BY <3>1, <3>2
  <2>2. CASE pc[c] \notin {"open", "loop", "reading", "closed"}
    BY <2>2 DEF Life
  <2> QED BY <2>1, <2>2
<1>3. UNCHANGED <<Carries, Files, OfReceived(told), OfReceived(shown)>>
  BY DEF Carries, Carried, Files, OfReceived
<1>4. S \in SUBSET {Carries[c] : c \in Conns}
  OBVIOUS
<1> HIDE DEF S
<1>5. L!Cancel(S)
  BY <1>2, <1>3 DEF L!Cancel, Lives
<1> QED BY <1>4, <1>5 DEF L!Next

\* What a thread reports is how its attempt ended.
LEMMA VerdictIs ==
  ASSUME RefInv, NEW c \in Conns, Reporting(c), dir[c] = "toPc"
  PROVE  L!Verdict(c) = <<on[c][1], ok[c]>>
<1>1. (\E f \in Files : f[3] = c) <=> HasSaved(c)
  <2>1. ASSUME NEW f \in Files, f[3] = c PROVE HasSaved(c)
    BY <2>1 DEF Files, HasSaved
  <2>2. ASSUME NEW s \in saved, s.by = c PROVE \E f \in Files : f[3] = c
    <3> DEFINE f == <<s.at, s.of, s.by>>
    <3>1. f \in Files /\ f[3] = c
      BY <2>2 DEF Files
    <3> QED BY <3>1
  <2> QED BY <2>1, <2>2 DEF HasSaved
<1>2. ok[c] \in BOOLEAN /\ (ok[c] <=> HasSaved(c))
  BY DEF RefInv, TypeOK, VerdictInv, SavedBy, HasSaved
<1>3. ok[c] = (\E f \in Files : f[3] = c)
  BY <1>1, <1>2
<1> QED BY <1>3 DEF L!Verdict, Carries, Carried

LEMMA StepRefines == RefInv /\ [Next]_vars => [L!Next]_L!vars
<1> SUFFICES ASSUME RefInv, [Next]_vars PROVE [L!Next]_L!vars
  OBVIOUS
<1> USE TransferAssumption
<1>0. /\ TypeOK /\ pc \in [Conns -> Labels] /\ live \subseteq Transfers
      /\ \A c \in Conns : /\ Receiving(c) => dir[c] = "toPc"
                          /\ Sending(c) => dir[c] = "toPhone"
  BY DEF RefInv, TypeOK
<1>1. ASSUME NEW t \in Transfers,
             HandleFileOffer(t) \/ SendFiles(t) \/ HandleFileAccept(t)
      PROVE  UNCHANGED L!vars
  BY <1>1, LifeKept DEF HandleFileOffer, SendFiles, HandleFileAccept,
     managerVars, threadVars, diskVars, OfReceived
<1>2. ASSUME NEW t \in Transfers, HandleFileCancel(t)
      PROVE  [L!Next]_L!vars
  <2>1. /\ UNCHANGED <<pc, on, dir, saved, told, shown>>
        /\ \/ t \in live /\ cancelled' = cancelled \cup {Session(t)}
           \/ UNCHANGED cancelled
    BY <1>2 DEF HandleFileCancel, CancelTransfer, threadVars
  <2>2. CASE t \in live /\ cancelled' = cancelled \cup {Session(t)}
    <3>1. cancelled' = cancelled \cup {Session(u) : u \in {t}}
      BY <2>2
    <3> QED BY <1>0, <2>1, <3>1, CancelDooms
  <2>3. CASE UNCHANGED cancelled
    BY <2>1, <2>3, LifeKept DEF OfReceived
  <2> QED BY <2>1, <2>2, <2>3
<1>3. ASSUME NEW t \in Transfers, HandleFileComplete(t)
      PROVE  UNCHANGED L!vars
  BY <1>3, LifeKept DEF HandleFileComplete, threadVars, diskVars, OfReceived
<1>4. ASSUME NEW c \in Conns, NEW t \in Transfers, NEW byte \in Directions,
             Handshake(c, t, byte)
      PROVE  [L!Next]_L!vars
  <2>1. /\ UNCHANGED <<cancelled, saved, told, shown>> /\ pc[c] = "handshake"
        /\ on' = [on EXCEPT ![c] = Session(t)] /\ Session(t) \notin cancelled
        /\ dir' = [dir EXCEPT ![c] = byte] /\ Session(t) \in Sessions
        /\ byte = "toPc" => Goto(c, "open")
        /\ byte # "toPc" => Goto(c, "source") \/ Goto(c, "done")
    BY <1>4, SessionType DEF Handshake, At, Goto, KeepSessions, managerVars,
       diskVars, RefInv, LiveInv, Directions
  <2>2. /\ on'[c] = Session(t) /\ dir'[c] = byte
        /\ byte = "toPc" => pc'[c] = "open"
        /\ byte # "toPc" => pc'[c] \in {"source", "done"}
        /\ \A d \in Conns \ {c} : /\ pc'[d] = pc[d] /\ on'[d] = on[d]
                                  /\ dir'[d] = dir[d]
    BY <1>0, <2>1 DEF Goto, TypeOK
  <2>3. \A d \in Conns \ {c} : Life(d)' = Life(d) /\ Carried(d)' = Carried(d)
    BY <2>1, <2>2 DEF Life, Flagged, Carried
  <2>4. /\ Life(c) = "idle"
        /\ Life(c)' = IF byte = "toPc" THEN "moving" ELSE "over"
    BY <2>1, <2>2 DEF Life, Flagged
  <2>5. Lives[c] = "idle" /\ Lives' = [Lives EXCEPT ![c] = Life(c)']
    BY <2>3, <2>4 DEF Lives
  <2>6. UNCHANGED <<Files, OfReceived(told), OfReceived(shown)>>
    BY <2>1 DEF Files, OfReceived
  <2>7. CASE byte = "toPc"
    <3>1. Carries' = [Carries EXCEPT ![c] = Session(t)]
      BY <2>2, <2>3, <2>7 DEF Carries, Carried
    <3>2. L!Begin(c, Session(t))
      BY <2>4, <2>5, <2>6, <2>7, <3>1 DEF L!Begin, L!Move
    <3> QED BY <2>1, <3>2 DEF L!Next
  <2>8. CASE byte # "toPc"
    <3>1. Carried(c)' = None
      BY <2>2, <2>8 DEF Carried
    <3>2. Carried(c) = None
      BY <1>0, <2>1 DEF TypeOK, Carried
    <3>3. Carries' = Carries
      BY <2>3, <3>1, <3>2 DEF Carries
    <3> QED BY <2>4, <2>5, <2>6, <2>8, <3>3 DEF L!Next, L!Refuse, L!Move
  <2> QED BY <2>7, <2>8
<1>5. ASSUME NEW c \in Conns,
             \/ AcceptConnection(c) \/ ReceiveLoop(c) \/ Frame(c) \/ PickName(c)
             \/ OpenSource(c) \/ SendLoop(c) \/ SendChunk(c) \/ SendError(c)
      PROVE  UNCHANGED L!vars
  <2>1. /\ UNCHANGED <<on, dir, cancelled, saved, told, shown>>
        /\ \E l \in Labels : Goto(c, l) /\
              \/ {pc[c], l} \subseteq {"idle", "handshake"}
              \/ {pc[c], l} \subseteq {"loop", "reading", "closed"}
              \/ {pc[c], l} \subseteq {"pick", "rename"}
              \/ pc[c] \in {"source", "send", "writing"}
                 /\ l \in {"send", "writing", "reply"}
    BY <1>5 DEF AcceptConnection, ReceiveLoop, Frame, ReceiveFrame, PickName,
       OpenSource, SendLoop, SendChunk, SendError, Report, At, Goto,
       KeepSessions, managerVars, diskVars, Labels
  <2>2. PICK l \in Labels : Goto(c, l) /\
              \/ {pc[c], l} \subseteq {"idle", "handshake"}
              \/ {pc[c], l} \subseteq {"loop", "reading", "closed"}
              \/ {pc[c], l} \subseteq {"pick", "rename"}
              \/ pc[c] \in {"source", "send", "writing"}
                 /\ l \in {"send", "writing", "reply"}
    BY <2>1
  <2>3. pc'[c] = l
    BY <1>0, <2>2 DEF Goto
  <2>4. Life(c)' = Life(c)
    BY <1>0, <2>1, <2>2, <2>3 DEF Life, Flagged, Sending
  <2>5. /\ Lives' = [Lives EXCEPT ![c] = Life(c)']
        /\ Lives[c] = Life(c) /\ Carries' = Carries
    BY <1>0, <2>1, <2>2, LifeMoves
  <2>6. Lives' = Lives
    BY <2>4, <2>5 DEF Lives
  <2> QED BY <2>1, <2>5, <2>6 DEF L!vars, Files, OfReceived
<1>6. ASSUME NEW c \in Conns, NEW l \in Labels, Goto(c, l),
             UNCHANGED <<on, dir, cancelled, saved, told, shown>>,
             \/ l = "loop" /\ pc[c] = "open"
             \/ pc[c] = "handshake" /\ l = "done"
             \/ pc[c] = "open" /\ l = "reply"
             \/ pc[c] = "reading" /\ l = "discard"
             \/ pc[c] = "closed" /\ l = "discard"
             \/ pc[c] = "closed" /\ l = "pick" /\ ~Flagged(c)
             \/ pc[c] = "rename" /\ l = "discard"
             \/ pc[c] = "discard" /\ l = "reply"
      PROVE  [L!Next]_L!vars
  <2>1. pc'[c] = l
    BY <1>0, <1>6 DEF Goto
  <2>2. /\ Lives' = [Lives EXCEPT ![c] = Life(c)']
        /\ Lives[c] = Life(c) /\ Carries' = Carries
    BY <1>0, <1>6, LifeMoves
  <2>3. UNCHANGED <<Carries, Files, OfReceived(told), OfReceived(shown)>>
    BY <1>6, <2>2 DEF Files, OfReceived
  <2>4. dir[c] = "toPc" \/ pc[c] = "handshake"
    BY <1>0, <1>6 DEF Receiving, Owns, Writing
  <2>5. CASE pc[c] = "handshake" /\ l = "done"
    <3>1. Life(c) = "idle" /\ Life(c)' = "over"
      BY <2>1, <2>5 DEF Life
    <3> QED BY <2>2, <2>3, <3>1 DEF L!Next, L!Refuse, L!Move
  <2>6. CASE l = "discard" /\ pc[c] \in {"reading", "closed"}
    <3>1. Life(c) \in {"moving", "doomed"} /\ Life(c)' = "doomed"
      BY <2>1, <2>6 DEF Life
    <3>2. CASE Life(c) = "moving"
      BY <2>2, <2>3, <3>1, <3>2 DEF L!Next, L!Break, L!Move
    <3>3. CASE Life(c) = "doomed"
      BY <2>2, <2>3, <3>1, <3>3 DEF L!vars, Lives
    <3> QED BY <3>1, <3>2, <3>3
  <2>7. CASE l = "pick"
    <3>1. Life(c) = "moving" /\ Life(c)' = "settling"
      BY <1>6, <2>1, <2>7 DEF Life
    <3> QED BY <2>2, <2>3, <3>1 DEF L!Next, L!Settle, L!Move
  <2>8. CASE l = "discard" /\ pc[c] = "rename"
    <3>1. Life(c) = "settling" /\ Life(c)' = "doomed"
      BY <2>1, <2>8 DEF Life
    <3> QED BY <2>2, <2>3, <3>1 DEF L!Next, L!GiveUp, L!Move
  <2>9. CASE l = "reply"
    <3>1. Life(c) \in {"moving", "doomed"} /\ Life(c)' = "ended"
      BY <1>6, <2>1, <2>4, <2>9 DEF Life
    <3> QED BY <2>2, <2>3, <3>1 DEF L!Next, L!Fail, L!Move
  <2>10. CASE l = "loop"
    <3>1. Life(c)' = Life(c)
      BY <1>6, <2>1, <2>10 DEF Life, Flagged
    <3> QED BY <2>2, <2>3, <3>1 DEF L!vars, Lives
  <2> QED BY <1>6, <2>5, <2>6, <2>7, <2>8, <2>9, <2>10
<1>7. ASSUME NEW c \in Conns,
             \/ Refused(c) \/ OpenPart(c) \/ ReceiveError(c) \/ JudgeUpload(c)
             \/ Discard(c)
      PROVE  [L!Next]_L!vars
  <2>1. /\ UNCHANGED <<on, dir, cancelled, saved, told, shown>>
        /\ \E l \in Labels : Goto(c, l) /\
             \/ l = "loop" /\ pc[c] = "open"
             \/ pc[c] = "handshake" /\ l = "done"
             \/ pc[c] = "open" /\ l = "reply"
             \/ pc[c] = "reading" /\ l = "discard"
             \/ pc[c] = "closed" /\ l = "discard"
             \/ pc[c] = "closed" /\ l = "pick" /\ ~Flagged(c)
             \/ pc[c] = "discard" /\ l = "reply"
    BY <1>7
       DEF Refused, OpenPart, ReceiveError, JudgeUpload, Discard, Report,
       At, Goto, KeepSessions, managerVars, diskVars, Labels
  <2>2. PICK l \in Labels : Goto(c, l) /\
             \/ l = "loop" /\ pc[c] = "open"
             \/ pc[c] = "handshake" /\ l = "done"
             \/ pc[c] = "open" /\ l = "reply"
             \/ pc[c] = "reading" /\ l = "discard"
             \/ pc[c] = "closed" /\ l = "discard"
             \/ pc[c] = "closed" /\ l = "pick" /\ ~Flagged(c)
             \/ pc[c] = "discard" /\ l = "reply"
    BY <2>1
  <2> QED BY <1>6, <2>1, <2>2
<1>8. ASSUME NEW c \in Conns, RenamePart(c) PROVE [L!Next]_L!vars
  <2> DEFINE n == Part(c)
             s == [at |-> <<n, pick[c]>>, of |-> on[c][1], by |-> c,
                   data |-> data[n], alone |-> alone[c]]
             f == <<<<n, pick[c]>>, on[c][1], c>>
  <2>1. /\ UNCHANGED <<on, dir, cancelled, told, shown>> /\ pc[c] = "rename"
        /\ \/ /\ ~Exists(n, pick[c]) /\ saved' = saved \cup {s}
              /\ Goto(c, "reply")
           \/ Goto(c, "discard") /\ saved' = saved
    BY <1>8 DEF RenamePart, Report, At, KeepSessions, managerVars, diskVars
  <2>2. CASE Goto(c, "discard") /\ saved' = saved
    BY <1>6, <2>1, <2>2 DEF Labels
  <2>3. CASE /\ ~Exists(n, pick[c]) /\ saved' = saved \cup {s}
             /\ Goto(c, "reply")
    <3>1. s.at = f[1] /\ s.of = f[2] /\ s.by = f[3] /\ f = <<s.at, s.of, s.by>>
      OBVIOUS
    <3> HIDE DEF s
    <3>2. Files' = Files \cup {f}
      BY <2>3, <3>1 DEF Files
    <3>3. \A g \in Files : g[1] # f[1]
      BY <2>3 DEF Exists, Files
    <3>4. f \in Files' \ Files
      BY <3>2, <3>3
    <3>5. dir[c] = "toPc"
      BY <1>0, <2>1 DEF Receiving, Owns
    <3>6. f = <<f[1], Carries[c][1], c>>
      BY <3>5 DEF Carries, Carried
    <3>7. pc'[c] = "reply"
      BY <1>0, <2>3 DEF Goto
    <3>8. /\ Lives' = [Lives EXCEPT ![c] = Life(c)']
          /\ Lives[c] = Life(c) /\ Carries' = Carries
      BY <1>0, <2>1, <2>3, LifeMoves DEF Labels
    <3>9. Life(c) = "settling" /\ Life(c)' = "ended"
      BY <2>1, <3>5, <3>7 DEF Life
    <3>10. UNCHANGED <<Carries, OfReceived(told), OfReceived(shown)>>
      BY <2>1, <3>8 DEF OfReceived
    <3> HIDE DEF f
    <3>11. L!Save(c)
      BY <3>2, <3>3, <3>4, <3>6, <3>8, <3>9, <3>10 DEF L!Save, L!Move
    <3> QED BY <3>11 DEF L!Next
  <2> QED BY <2>1, <2>2, <2>3
<1>9. ASSUME NEW c \in Conns, Reply(c) PROVE [L!Next]_L!vars
  <2>1. /\ UNCHANGED <<on, dir, cancelled, saved, shown>> /\ pc[c] = "reply"
        /\ Goto(c, "forget") /\ "forget" \in Labels
        /\ told' \in {told, told \cup {<<on[c][1], dir[c], ok[c]>>}}
    BY <1>9 DEF Reply, At, KeepSessions, diskVars, Labels
  <2>2. pc'[c] = "forget"
    BY <1>0, <2>1 DEF Goto
  <2>3. /\ Lives' = [Lives EXCEPT ![c] = Life(c)']
        /\ Lives[c] = Life(c) /\ Carries' = Carries
    BY <1>0, <2>1, LifeMoves
  <2>4. UNCHANGED <<Carries, Files, OfReceived(shown)>>
    BY <2>1, <2>3 DEF Files, OfReceived
  <2>5. CASE dir[c] = "toPc"
    <3>1. Life(c) = "ended" /\ Life(c)' = "told"
      BY <2>1, <2>2, <2>5 DEF Life
    <3>2. L!Verdict(c) = <<on[c][1], ok[c]>>
      BY <2>1, <2>5, VerdictIs DEF Reporting
    <3>3. OfReceived(told)' \in {OfReceived(told), OfReceived(told) \cup {L!Verdict(c)}}
      BY <2>1, <2>5, <3>2 DEF OfReceived
    <3> QED BY <2>3, <2>4, <3>1, <3>3 DEF L!Next, L!Tell, L!Move
  <2>6. CASE dir[c] # "toPc"
    <3>1. Life(c) = "over" /\ Life(c)' = "over"
      BY <2>1, <2>2, <2>6 DEF Life
    <3>2. Lives' = Lives
      BY <2>3, <3>1 DEF Lives
    <3>3. OfReceived(told)' = OfReceived(told)
      BY <2>1, <2>6 DEF OfReceived
    <3> QED BY <2>4, <3>2, <3>3 DEF L!vars
  <2> QED BY <2>5, <2>6
<1>10. ASSUME NEW c \in Conns, Forget(c) PROVE [L!Next]_L!vars
  <2>1. /\ UNCHANGED <<on, dir, cancelled, saved, told>> /\ pc[c] = "forget"
        /\ Goto(c, "done") /\ "done" \in Labels
        /\ shown' = shown \cup {<<on[c][1], dir[c], ok[c]>>}
    BY <1>10 DEF Forget, At, KeepSessions, diskVars, Labels
  <2>2. pc'[c] = "done"
    BY <1>0, <2>1 DEF Goto
  <2>3. /\ Lives' = [Lives EXCEPT ![c] = Life(c)']
        /\ Lives[c] = Life(c) /\ Carries' = Carries
    BY <1>0, <2>1, LifeMoves
  <2>4. UNCHANGED <<Carries, Files, OfReceived(told)>>
    BY <2>1, <2>3 DEF Files, OfReceived
  <2>5. CASE dir[c] = "toPc"
    <3>1. Life(c) = "told" /\ Life(c)' = "over"
      BY <2>1, <2>2, <2>5 DEF Life
    <3>2. L!Verdict(c) = <<on[c][1], ok[c]>>
      BY <2>1, <2>5, VerdictIs DEF Reporting
    <3>3. on[c][1] \in Transfers /\ ok[c] \in BOOLEAN
      BY <1>0, <2>1, SessionShape DEF TypeOK, Working
    <3>4. OfReceived(shown)' = OfReceived(shown) \cup {L!Verdict(c)}
      BY <2>1, <2>5, <3>2, <3>3 DEF OfReceived
    <3> QED BY <2>3, <2>4, <3>1, <3>4 DEF L!Next, L!Show, L!Move
  <2>6. CASE dir[c] # "toPc"
    <3>1. Life(c) = "over" /\ Life(c)' = "over"
      BY <2>1, <2>2, <2>6 DEF Life
    <3>2. Lives' = Lives
      BY <2>3, <3>1 DEF Lives
    <3>3. OfReceived(shown)' = OfReceived(shown)
      BY <2>1, <2>6 DEF OfReceived
    <3> QED BY <2>4, <3>2, <3>3 DEF L!vars
  <2> QED BY <2>5, <2>6
<1>11. CASE StopSessions
  <2>1. /\ UNCHANGED <<pc, on, dir, saved, told, shown>>
        /\ cancelled' = cancelled \cup {Session(t) : t \in live}
    BY <1>11 DEF StopSessions, managerVars, threadVars
  <2> QED BY <1>0, <2>1, CancelDooms
<1>12. CASE StopAccepting \/ Exit \/ UNCHANGED vars
  BY <1>12, LifeKept DEF StopAccepting, Exit, vars, managerVars, threadVars,
     diskVars, OfReceived
<1> QED
  BY <1>1, <1>2, <1>3, <1>4, <1>5, <1>7, <1>8, <1>9, <1>10, <1>11, <1>12
     DEF Next, Control, Stop, Thread, Network, HandleFileReject, Transfers

LEMMA InitLife == Init => L!Init
<1> SUFFICES ASSUME Init PROVE L!Init
  OBVIOUS
<1>1. \A c \in Conns : Life(c) = "idle" /\ Carried(c) = None
  BY DEF Init, Life, Carried
<1> QED BY <1>1 DEF Init, L!Init, Lives, Carries, Files, OfReceived

\* Threads, cancellations, repeated offers and stop() together give whatever a
\* connection carries to the PC the life the phone relies on: each step of the
\* code is one step of UploadLife or none.  So an attempt saves at most once,
\* never over another file and never after a cancellation of its session that
\* came before its data were judged, and what phone and user are told of it is
\* how it ended.  A connection with any other direction byte carries nothing.
THEOREM ImplementsLife == Spec => LifeRefines
  BY InitLife, RefInvariant, StepRefines, PTL DEF Spec, LifeRefines, L!Spec

-----------------------------------------------------------------------------
(* Offers: a thread that transferred erases its offer before it ends, and     *)
(* only a new registration of the transfer brings the offer back.             *)

OfferInv ==
    \A c \in Conns : on[c] # None =>
        /\ on[c][2] <= regs[on[c][1]]
        /\ pc[c] = "done" /\ dir[c] # "other" /\ on[c][1] \in offers =>
              on[c][2] < regs[on[c][1]]

LEMMA StepOffer == TypeOK /\ OfferInv /\ [Next]_vars => OfferInv'
<1> SUFFICES ASSUME TypeOK, OfferInv, [Next]_vars PROVE OfferInv'
  OBVIOUS
<1>0. /\ regs \in [Transfers -> 0..MaxRegs] /\ pc \in [Conns -> Labels]
      /\ on \in [Conns -> Sessions \cup {None}] /\ dir \in [Conns -> Directions]
      /\ live \subseteq Transfers /\ MaxRegs \in Nat
      /\ \A c \in Conns : on[c] # None => /\ on[c][1] \in Transfers
                                         /\ on[c][2] \in 1..MaxRegs
      /\ \A c \in Conns : pc[c] \in {"idle", "handshake"} => on[c] = None
  BY SessionShape, TransferAssumption DEF TypeOK
<1>1. ASSUME NEW t \in Transfers,
             HandleFileOffer(t) \/ SendFiles(t) \/ HandleFileAccept(t)
      PROVE  OfferInv'
  <2>1. /\ UNCHANGED <<pc, on, dir>> /\ regs' = [regs EXCEPT ![t] = @ + 1]
        /\ offers' \subseteq offers \cup {t}
    BY <1>1 DEF HandleFileOffer, SendFiles, HandleFileAccept, RegisterTransfer,
       managerVars, threadVars
  <2> SUFFICES ASSUME NEW c \in Conns, on[c] # None
               PROVE  /\ on[c][2] <= regs'[on[c][1]]
                      /\ pc[c] = "done" /\ dir[c] # "other" /\ on[c][1] \in offers'
                            => on[c][2] < regs'[on[c][1]]
    BY <2>1 DEF OfferInv
  <2>2. /\ on[c][1] \in Transfers /\ on[c][2] \in 1..MaxRegs
        /\ on[c][2] <= regs[on[c][1]] /\ regs[on[c][1]] \in Nat
    BY <1>0 DEF OfferInv
  <2>3. CASE on[c][1] = t
    <3>1. regs'[on[c][1]] = regs[on[c][1]] + 1
      BY <1>0, <2>1, <2>2, <2>3
    <3> QED BY <1>0, <2>2, <3>1
  <2>4. CASE on[c][1] # t
    BY <1>0, <2>1, <2>2, <2>4 DEF OfferInv
  <2> QED BY <2>3, <2>4
<1>2. ASSUME UNCHANGED <<regs, pc, on, dir>>, offers' \subseteq offers
      PROVE  OfferInv'
  BY <1>2 DEF OfferInv
<1>3. ASSUME NEW c \in Conns, NEW l \in Labels, Goto(c, l),
             UNCHANGED <<regs, on, dir>>, offers' \subseteq offers,
             l = "done" => on[c] = None \/ on[c][1] \notin offers'
      PROVE  OfferInv'
  <2>1. pc'[c] = l /\ \A d \in Conns \ {c} : pc'[d] = pc[d]
    BY <1>0, <1>3 DEF Goto
  <2> QED BY <1>3, <2>1 DEF OfferInv
<1>4. ASSUME NEW c \in Conns,
             \/ AcceptConnection(c) \/ OpenPart(c) \/ ReceiveLoop(c) \/ Frame(c)
             \/ ReceiveError(c) \/ JudgeUpload(c) \/ Discard(c) \/ PickName(c)
             \/ RenamePart(c) \/ OpenSource(c) \/ SendLoop(c) \/ SendChunk(c)
             \/ SendError(c) \/ Reply(c)
      PROVE  OfferInv'
  <2>1. UNCHANGED <<regs, on, dir, offers>>
    BY <1>4 DEF AcceptConnection, OpenPart, ReceiveLoop, Frame, ReceiveFrame,
       ReceiveError, JudgeUpload, Discard, PickName, RenamePart, OpenSource,
       SendLoop, SendChunk, SendError, Reply, KeepSessions, managerVars
  <2>2. \E l \in Labels \ {"done"} : Goto(c, l)
    BY <1>4 DEF AcceptConnection, OpenPart, ReceiveLoop, Frame, ReceiveFrame,
       ReceiveError, JudgeUpload, Discard, PickName, RenamePart, OpenSource,
       SendLoop, SendChunk, SendError, Reply, Report, Labels
  <2> QED BY <1>3, <2>1, <2>2
<1>5. ASSUME NEW c \in Conns, Refused(c) PROVE OfferInv'
  <2>1. /\ UNCHANGED <<regs, on, dir, offers>> /\ Goto(c, "done")
        /\ on[c] = None
    BY <1>0, <1>5 DEF Refused, At, KeepSessions, managerVars
  <2> QED BY <1>3, <2>1 DEF Labels
<1>6. ASSUME NEW c \in Conns, Forget(c) PROVE OfferInv'
  <2>1. /\ UNCHANGED <<regs, on, dir>> /\ Goto(c, "done")
        /\ offers' = offers \ {on[c][1]}
    BY <1>6 DEF Forget, KeepSessions
  <2> QED BY <1>3, <2>1 DEF Labels
<1>7. ASSUME NEW c \in Conns, NEW t \in Transfers, NEW byte \in Directions,
             Handshake(c, t, byte)
      PROVE  OfferInv'
  <2>1. /\ UNCHANGED <<regs, offers>> /\ on' = [on EXCEPT ![c] = Session(t)]
        /\ dir' = [dir EXCEPT ![c] = byte]
        /\ byte \in {"toPc", "toPhone"} => Goto(c, "open") \/ Goto(c, "source")
        /\ \E l \in Labels : Goto(c, l)
    BY <1>7 DEF Handshake, Goto, KeepSessions, managerVars, Labels
  <2>2. /\ \A d \in Conns \ {c} : /\ pc'[d] = pc[d] /\ on'[d] = on[d]
                                  /\ dir'[d] = dir[d]
        /\ on'[c][1] = t /\ on'[c][2] = regs[t] /\ dir'[c] = byte
        /\ byte \in {"toPc", "toPhone"} => pc'[c] # "done"
    BY <1>0, <2>1 DEF Goto, Session
  <2>3. regs[t] <= regs[t] /\ byte \in {"toPc", "toPhone", "other"}
    BY <1>0 DEF Directions
  <2> QED BY <2>1, <2>2, <2>3 DEF OfferInv
<1>8. CASE Control
  <2>1. ASSUME NEW t \in Transfers,
               \/ HandleFileCancel(t) \/ HandleFileReject(t)
               \/ HandleFileComplete(t)
        PROVE  OfferInv'
    BY <1>2, <2>1 DEF HandleFileCancel, HandleFileReject, HandleFileComplete,
       threadVars
  <2> QED BY <1>1, <1>8, <2>1 DEF Control, Transfers
<1>9. CASE Stop \/ UNCHANGED vars
  BY <1>2, <1>9 DEF Stop, StopAccepting, StopSessions, Exit, vars, managerVars,
     threadVars
<1> QED BY <1>4, <1>5, <1>6, <1>7, <1>8, <1>9 DEF Next, Thread, Network

\* An offer in m_activeOffers is not one that a thread has done with: on both
\* ways through handleConnection that transfer, and however they end, the thread
\* erases it, and only a new registration brings it back.
THEOREM OffersAreOwned == Spec => []OfferOwned
<1>1. Init => OfferInv
  BY DEF Init, OfferInv
<1>2. TypeOK /\ OfferInv => OfferOwned
  <2> SUFFICES ASSUME TypeOK, OfferInv, NEW c \in Conns, pc[c] = "done",
                      dir[c] # "other", on[c][1] \in offers
               PROVE  on[c][2] < regs[on[c][1]]
    BY DEF OfferOwned
  <2>1. on[c] # None
    BY TransferAssumption DEF TypeOK, None
  <2> QED BY <2>1 DEF OfferInv
<1> QED BY <1>1, <1>2, TypeCorrect, StepOffer, PTL DEF Spec
=============================================================================
