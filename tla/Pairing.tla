------------------------------- MODULE Pairing -------------------------------
(***************************************************************************)
(* Pairing a phone: PairingManager, whose createOffer runs on the Qt       *)
(* thread and whose handlePairRequest runs on the thread of the control    *)
(* channel, PairingDialog, which shows a PIN until it is closed, and the   *)
(* part of Application that joins them, keeps the last paired device in    *)
(* the settings and restores it at the next start.                         *)
(*                                                                         *)
(* PINs are numbered as they are issued: two are never alike.  A dialog    *)
(* runs an event loop of its own, in which the user may open another.      *)
(* The Qt thread and the io thread share m_activePin without a mutex; an   *)
(* access of it is one step here.                                          *)
(***************************************************************************)
EXTENDS Naturals, Sequences

CONSTANTS
    Devices,      \* phones, as their deviceId and deviceName
    Nobody,       \* no device
    MaxOffers,    \* bound: PINs that are issued
    MaxRequests,  \* bound: pair_request messages
    MaxRestarts   \* bound: times the program is started again

ASSUME PairingAssumption ==
    /\ Nobody \notin Devices
    /\ MaxOffers \in Nat /\ MaxRequests \in Nat /\ MaxRestarts \in Nat

VARIABLES
    main,      \* where Application::init is, "events" after it
    issued,    \* PINs issued so far
    active,    \* m_activePin, 0 when it is empty
    dialogs,   \* the dialogs whose exec() has not returned, innermost last
    current,   \* m_pairingDialog: the PIN of its dialog, or 0
    posted,    \* completions queued for the Qt thread: <<device, PIN>>
    io,        \* the pair_request that the io thread handles
    known,     \* keys of m_devices
    id, name,  \* pairedDeviceId and pairedDeviceName of the settings
    answer,    \* the last reply to a phone since the program was started
    used,      \* history: PINs whose check a request passed, 0 if it sent none
    raced,     \* history: PINs that were cleared in place of another
    torn,      \* history: the program ended between the two settings
    requests, restarts   \* counters that bound the model

pinVars == <<issued, active, used, raced>>
qtVars  == <<main, dialogs, current>>
savedVars == <<id, name, torn>>
vars == <<pinVars, qtVars, posted, io, known, savedVars, answer, requests, restarts>>

Idle == [at |-> "idle", of |-> Nobody, pin |-> 0]
Dialog(p) == [pin |-> p, shows |-> Nobody, for |-> 0, closed |-> FALSE]
Top == dialogs[Len(dialogs)]

-----------------------------------------------------------------------------
(* The Qt thread                                                           *)

\* Until now the server was running without a PairingManager.
CreateManager ==
    /\ main = "server" /\ main' = "manager"
    /\ UNCHANGED <<pinVars, dialogs, current, posted, io, known, savedVars, answer,
                   requests, restarts>>

\* restoreDevice, with what the settings hold.
Restore ==
    /\ main = "manager" /\ main' = "events"
    /\ known' = IF id = Nobody THEN known ELSE known \cup {id}
    /\ UNCHANGED <<pinVars, dialogs, current, posted, io, savedVars, answer, requests,
                   restarts>>

\* The user asks to pair: createOffer, and a dialog that shows the new PIN.
PairRequested ==
    /\ main = "events" /\ issued < MaxOffers
    /\ issued' = issued + 1 /\ active' = issued + 1
    /\ dialogs' = Append(dialogs, Dialog(issued + 1)) /\ current' = issued + 1
    /\ UNCHANGED <<main, used, raced, posted, io, known, savedVars, answer, requests,
                   restarts>>

Close(i) == dialogs' = [dialogs EXCEPT ![i].closed = TRUE]

\* The user closes the innermost dialog.
Reject ==
    /\ dialogs # <<>> /\ Close(Len(dialogs))
    /\ UNCHANGED <<pinVars, main, current, posted, io, known, savedVars, answer,
                   requests, restarts>>

\* A dialog that showed a completion for two seconds closes.
Accept(i) ==
    /\ i \in 1..Len(dialogs) /\ dialogs[i].shows # Nobody /\ Close(i)
    /\ UNCHANGED <<pinVars, main, current, posted, io, known, savedVars, answer,
                   requests, restarts>>

ReturnToOuter ==   \* mutant: the dialog below takes its place
    /\ dialogs # <<>> /\ Top.closed
    /\ dialogs' = SubSeq(dialogs, 1, Len(dialogs) - 1)
    /\ current' = IF dialogs' = <<>> THEN 0 ELSE dialogs'[Len(dialogs')].pin
    /\ UNCHANGED <<pinVars, main, posted, io, known, savedVars, answer, requests,
                   restarts>>

\* exec() of the innermost dialog returns; m_pairingDialog = nullptr.
Return ==
    /\ dialogs # <<>> /\ Top.closed
    /\ dialogs' = SubSeq(dialogs, 1, Len(dialogs) - 1) /\ current' = 0
    /\ UNCHANGED <<pinVars, main, posted, io, known, savedVars, answer, requests,
                   restarts>>

\* A completion is delivered: to the dialog that is open now.
OnPairingComplete ==
    /\ main = "events" /\ posted # <<>>
    /\ dialogs' = [i \in 1..Len(dialogs) |->
                     IF dialogs[i].pin = current
                     THEN [dialogs[i] EXCEPT !.shows = Head(posted)[1],
                                             !.for = Head(posted)[2]]
                     ELSE dialogs[i]]
    /\ posted' = Tail(posted)
    /\ UNCHANGED <<pinVars, main, current, io, known, savedVars, answer, requests,
                   restarts>>

-----------------------------------------------------------------------------
(* The io thread: a pair_request                                           *)

At(l) == io.at = l
Goto(l) == io' = [io EXCEPT !.at = l]
Reply(d, r) == answer' = [answer EXCEPT ![d] = r]

\* The phone sends the PIN its user read, or none, which is 0, and its public
\* key: rejected if the PIN is not what m_activePin holds or the key is not sound.
\* So a phone that sends none pairs whenever no PIN is active.
Request(d, p, sound) ==
    /\ At("idle") /\ main # "server" /\ requests < MaxRequests
    /\ requests' = requests + 1
    /\ IF p = active /\ sound
       THEN /\ io' = [at |-> "checked", of |-> d, pin |-> p] /\ used' = Append(used, p)
            /\ UNCHANGED answer
       ELSE Reply(d, "rejected") /\ UNCHANGED <<io, used>>
    /\ UNCHANGED <<issued, active, raced, qtVars, posted, known, savedVars, restarts>>

StoreNothing ==   \* mutant: the device is not stored
    /\ At("checked") /\ Goto("stored")
    /\ UNCHANGED <<pinVars, qtVars, posted, known, savedVars, answer, requests, restarts>>

\* m_devices[deviceId] = device
Store ==
    /\ At("checked") /\ Goto("stored")
    /\ known' = known \cup {io.of}
    /\ UNCHANGED <<pinVars, qtVars, posted, savedVars, answer, requests, restarts>>

ClearNothing ==   \* mutant: the PIN stays active
    /\ At("stored") /\ Goto("id")
    /\ UNCHANGED <<pinVars, qtVars, posted, known, savedVars, answer, requests, restarts>>

\* m_activePin.clear(), whatever it holds by now
Clear ==
    /\ At("stored") /\ Goto("id")
    /\ active' = 0
    /\ raced' = IF active \in {0, io.pin} THEN raced ELSE raced \cup {active}
    /\ UNCHANGED <<issued, used, qtVars, posted, known, savedVars, answer, requests,
                   restarts>>

\* m_onPaired: the two settings are written...
SaveId ==
    /\ At("id") /\ Goto("name")
    /\ id' = io.of
    /\ UNCHANGED <<pinVars, qtVars, posted, known, name, torn, answer, requests, restarts>>

SaveNameNever ==   \* mutant: the name is not written
    /\ At("name") /\ Goto("post")
    /\ UNCHANGED <<pinVars, qtVars, posted, known, savedVars, answer, requests, restarts>>

SaveName ==
    /\ At("name") /\ Goto("post")
    /\ name' = io.of /\ torn' = FALSE
    /\ UNCHANGED <<pinVars, qtVars, posted, known, id, answer, requests, restarts>>

PostNothing ==   \* mutant: the dialog is not told
    /\ At("post") /\ Goto("reply")
    /\ UNCHANGED <<pinVars, qtVars, posted, known, savedVars, answer, requests, restarts>>

\* ...and the completion is queued; then the phone is answered.
PostCompletion ==
    /\ At("post") /\ Goto("reply")
    /\ posted' = Append(posted, <<io.of, io.pin>>)
    /\ UNCHANGED <<pinVars, qtVars, known, savedVars, answer, requests, restarts>>

ReplyAccepted ==
    /\ At("reply") /\ io' = Idle
    /\ Reply(io.of, "accepted")
    /\ UNCHANGED <<pinVars, qtVars, posted, known, savedVars, requests, restarts>>

-----------------------------------------------------------------------------
\* The process ends at any point, and is started again.  A request during the
\* start of the server ends it at once: there is no PairingManager to ask.
Restart ==
    /\ restarts < MaxRestarts /\ restarts' = restarts + 1
    /\ main' = "server" /\ active' = 0 /\ dialogs' = <<>> /\ current' = 0
    /\ posted' = <<>> /\ io' = Idle /\ known' = {}
    /\ answer' = [d \in Devices |-> "none"]
    /\ torn' = (torn \/ At("name"))
    /\ UNCHANGED <<issued, used, raced, id, name, requests>>

Init ==
    /\ main = "server" /\ issued = 0 /\ active = 0 /\ dialogs = <<>> /\ current = 0
    /\ posted = <<>> /\ io = Idle /\ known = {} /\ id = Nobody /\ name = Nobody
    /\ answer = [d \in Devices |-> "none"]
    /\ used = <<>> /\ raced = {} /\ torn = FALSE /\ requests = 0 /\ restarts = 0

IoOwn == Store \/ Clear \/ SaveId \/ SaveName \/ PostCompletion \/ ReplyAccepted
QtOwn == CreateManager \/ Restore \/ Return \/ OnPairingComplete
         \/ \E i \in 1..Len(dialogs) : ~dialogs[i].closed /\ Accept(i)
User == PairRequested \/ Reject
Phone == \E d \in Devices, p \in 0..issued, sound \in BOOLEAN : Request(d, p, sound)

Next == IoOwn \/ QtOwn \/ User \/ Phone \/ Restart

Spec == Init /\ [][Next]_vars

\* Both threads are scheduled; nothing is asked of the user or of the phones.
FairSpec == Spec /\ WF_vars(IoOwn) /\ WF_vars(QtOwn)

-----------------------------------------------------------------------------
Pins == 1..issued

\* Every variable keeps its type, and a request under way is of a phone.
TypeOK ==
    /\ main \in {"server", "manager", "events"}
    /\ issued \in Nat /\ active \in Pins \cup {0} /\ current \in Pins \cup {0}
    /\ dialogs \in Seq([pin : Pins, shows : Devices \cup {Nobody}, for : Pins \cup {0},
                        closed : BOOLEAN])
    /\ posted \in Seq(Devices \X (Pins \cup {0}))
    /\ io \in [at : {"idle", "checked", "stored", "id", "name", "post", "reply"},
               of : Devices \cup {Nobody}, pin : Pins \cup {0}]
    /\ At("idle") \/ io.of # Nobody
    /\ known \subseteq Devices
    /\ {id, name} \subseteq Devices \cup {Nobody}
    /\ answer \in [Devices -> {"none", "accepted", "rejected"}]
    /\ used \in Seq(Pins \cup {0}) /\ raced \subseteq Pins /\ torn \in BOOLEAN
    /\ requests \in Nat /\ restarts \in Nat

\* The PIN is taken when its check passes, though it is cleared later.
P == INSTANCE OneTimePin WITH
       valid <- IF io.at \in {"checked", "stored"} /\ io.pin = active THEN 0 ELSE active

\* Whatever the two threads do, a PIN pairs one phone, and only while no later
\* one was issued; and no phone pairs without it as long as it can be used.
PinsRefine == P!Spec

\* The PIN of the open dialog is the one that pairs, unless it was used; the
\* one exception is a PIN issued while a request with the one before, or with
\* none, is handled, which that request clears.
ShownPinWorks ==
    current # 0 => \/ current = active
                   \/ current \in raced \/ \E i \in 1..Len(used) : used[i] = current

\* A dialog that reports a phone reports one that is paired, by the PIN it shows,
\* by an earlier one or, as some phone then did, by none: an event may outlive its
\* dialog, but never reaches an older one.
CompletionTrue ==
    \A i \in 1..Len(dialogs) :
        LET g == dialogs[i]
        IN  g.shows # Nobody =>
              g.shows \in known /\ g.for <= g.pin /\ \E j \in 1..Len(used) : used[j] = g.for

\* A pairing by the PIN of the open dialog is on its way to it or shown there: an
\* event of another PIN neither takes its place nor writes over it.  Only the
\* event of a phone that paired after it, without a PIN, is shown in its place.
CompletionKept ==
    \A i \in 1..Len(used) :
        current # 0 /\ current = used[i] =>
            \/ io.pin = current /\ io.at \notin {"idle", "reply"}
            \/ \E j \in 1..Len(posted) : posted[j][2] = current
            \/ \E k \in 1..Len(dialogs) :
                  /\ dialogs[k].pin = current
                  /\ \/ dialogs[k].for = current
                     \/ /\ dialogs[k].for = 0 /\ dialogs[k].shows # Nobody
                        /\ \E j \in (i + 1)..Len(used) : used[j] = 0

\* A phone that was told it is paired is known, and the settings hold the device
\* of one pairing, id and name, unless the program ended between the two.
AcceptedKept ==
    /\ \A d \in Devices : answer[d] = "accepted" => d \in known /\ id # Nobody
    /\ id = name \/ At("name") \/ torn

\* The pairing is reported in its dialog, as long as that is the one open.
CompletionShown ==
    \A p \in 1..MaxOffers :
        (At("checked") /\ io.pin = p /\ current = p) ~>
            (current # p \/ \E i \in 1..Len(dialogs) :
                               dialogs[i].pin = p /\ dialogs[i].for = p)
=============================================================================
