----------------------------- MODULE UploadLife -----------------------------
(***************************************************************************)
(* What the phone may rely on when it sends data to the PC, without files, *)
(* sockets or threads: an attempt to send ends once, by saving the data    *)
(* under a name that no other file has or by failing; the cancellation of  *)
(* a registration dooms every attempt on it whose data are still on the    *)
(* way; and what phone and user are told of an attempt is how it ended.    *)
(***************************************************************************)
CONSTANTS
    Attempts,   \* connections that may carry data
    Offers,     \* registrations of transfers: tuples, the transfer first
    Nothing     \* no registration

VARIABLES
    life,       \* where an attempt is
    of,         \* the registration it works on
    files,      \* the files saved: <<name, transfer, attempt>>
    told,       \* verdicts the phone was sent: <<transfer, saved>>
    shown       \* verdicts the user was shown

vars == <<life, of, files, told, shown>>

Init ==
    /\ life = [c \in Attempts |-> "idle"] /\ of = [c \in Attempts |-> Nothing]
    /\ files = {} /\ told = {} /\ shown = {}

\* Attempt c goes from one of the places in "from" to "to".
Move(c, from, to) == life[c] \in from /\ life' = [life EXCEPT ![c] = to]

Begin(c, s) ==
    /\ Move(c, {"idle"}, "moving")
    /\ of' = [of EXCEPT ![c] = s]
    /\ UNCHANGED <<files, told, shown>>

\* The connection turns out to carry nothing to the PC.
Refuse(c) == Move(c, {"idle"}, "over") /\ UNCHANGED <<of, files, told, shown>>

\* The registrations in S are cancelled: all their attempts that still move are
\* doomed.
Cancel(S) ==
    /\ life' = [c \in Attempts |->
                  IF life[c] = "moving" /\ of[c] \in S THEN "doomed" ELSE life[c]]
    /\ UNCHANGED <<of, files, told, shown>>

\* The data break off, or turn out to be wrong.
Break(c) == Move(c, {"moving"}, "doomed") /\ UNCHANGED <<of, files, told, shown>>

\* The data are complete and right: it is too late to cancel.
Settle(c) == Move(c, {"moving"}, "settling") /\ UNCHANGED <<of, files, told, shown>>

\* One file appears, under a name that no other has.
Save(c) ==
    /\ Move(c, {"settling"}, "ended")
    /\ \E f \in files' \ files :
          /\ f = <<f[1], of[c][1], c>> /\ \A g \in files : g[1] # f[1]
          /\ files' = files \cup {f}
    /\ UNCHANGED <<of, told, shown>>

\* The file cannot be saved after all.
GiveUp(c) == Move(c, {"settling"}, "doomed") /\ UNCHANGED <<of, files, told, shown>>

Fail(c) == Move(c, {"moving", "doomed"}, "ended") /\ UNCHANGED <<of, files, told, shown>>

\* How the attempt ended: the transfer, and whether a file was saved.
Verdict(c) == <<of[c][1], \E f \in files : f[3] = c>>

\* The phone is told, unless it has lost interest.
Tell(c) ==
    /\ Move(c, {"ended"}, "told")
    /\ told' \in {told, told \cup {Verdict(c)}}
    /\ UNCHANGED <<of, files, shown>>

Show(c) ==
    /\ Move(c, {"told"}, "over")
    /\ shown' = shown \cup {Verdict(c)}
    /\ UNCHANGED <<of, files, told>>

Next ==
    \/ \E S \in SUBSET {of[c] : c \in Attempts} : Cancel(S)
    \/ \E c \in Attempts :
          \/ \E s \in Offers : Begin(c, s)
          \/ Refuse(c) \/ Break(c) \/ Settle(c) \/ Save(c) \/ GiveUp(c) \/ Fail(c)
          \/ Tell(c) \/ Show(c)

Spec == Init /\ [][Next]_vars
=============================================================================
