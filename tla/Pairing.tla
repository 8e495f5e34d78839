------------------------------- MODULE Pairing -------------------------------
(***************************************************************************)
(* What an invitation promises (docs/p2p-sync.md, "Pairing code"): while   *)
(* it is open, and never after it has closed, it hands the vault to the    *)
(* one device whose code the user confirmed.  How the window, the          *)
(* confirmation and the transfer race is left to Enroll, which implements  *)
(* this specification.                                                     *)
(***************************************************************************)
CONSTANTS Invite, Joiner

VARIABLES window,    \* invite -> "unused", "open" or "closed"
          confirmed, \* invite -> the devices the user confirmed for it
          given,     \* invite -> the devices the vault was sent to
          holders    \* invite -> the devices that got the vault

vars == <<window, confirmed, given, holders>>

Init ==
    /\ window = [i \in Invite |-> "unused"]
    /\ confirmed = [i \in Invite |-> {}]
    /\ given = [i \in Invite |-> {}]
    /\ holders = [i \in Invite |-> {}]

Open(i) ==
    /\ window[i] = "unused"
    /\ window' = [window EXCEPT ![i] = "open"]
    /\ UNCHANGED <<confirmed, given, holders>>

\* One device is ever confirmed for an invitation.
Confirm(i, d) ==
    /\ window[i] # "unused"
    /\ confirmed[i] = {}
    /\ confirmed' = [confirmed EXCEPT ![i] = {d}]
    /\ UNCHANGED <<window, given, holders>>

Give(i, d) ==
    /\ window[i] = "open"
    /\ d \in confirmed[i]
    /\ given' = [given EXCEPT ![i] = @ \cup {d}]
    /\ UNCHANGED <<window, confirmed, holders>>

\* What was sent may still arrive once the window is closed.
Receive(i, d) ==
    /\ d \in given[i]
    /\ holders' = [holders EXCEPT ![i] = @ \cup {d}]
    /\ UNCHANGED <<window, confirmed, given>>

\* Windows close by themselves, and all at once when the host dies.
Close ==
    /\ \E S \in SUBSET Invite :
          window' = [i \in Invite |-> IF i \in S THEN "closed" ELSE window[i]]
    /\ UNCHANGED <<confirmed, given, holders>>

Next ==
    \/ Close
    \/ \E i \in Invite :
          \/ Open(i)
          \/ \E d \in Joiner : Confirm(i, d) \/ Give(i, d) \/ Receive(i, d)

Spec == Init /\ [][Next]_vars
=============================================================================
