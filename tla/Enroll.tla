-------------------------------- MODULE Enroll --------------------------------
(***************************************************************************)
(* Adding a device (core/src/sync/transport/enroll-host.ts), with the host *)
(* around it (platform-extension/src/offscreen-core.ts and                 *)
(* platform-mobile/src/sync/sync-manager.ts, which agree): the inviter     *)
(* shows a code, authenticated peers race for it, the first one is put     *)
(* before the user and gets the vault if the user confirms it.             *)
(*                                                                         *)
(* A handler cut at its awaits runs on after its session was stopped:      *)
(* stopping drops what is in transit and whatever is sent later, but no    *)
(* wait of Channel.recv ends by it, only by its timeout.                   *)
(*                                                                         *)
(* No name here is one of PeerSync's, so that one module can extend both.  *)
(***************************************************************************)
EXTENDS Naturals, FiniteSets

CONSTANTS Invite,      \* invitations, in the order they are made
          Joiner,      \* devices whose user enters a code
          WrongPass,   \* joiners whose password is not the inviter's
          MaxDeaths    \* bound: deaths of the inviter's host

ASSUME InviteAssumption == Invite \subseteq Nat

VARIABLES session,   \* invite -> its mesh session
          current,   \* the host's enrollSession: at most one invite
          serving,   \* invite -> where serveJoiner stands
          claimed,   \* invite -> the peer that consumed it, if any
          pending,   \* the host's pendingApproval: the invite that asks
          joiner,    \* joiner -> its attempt: [pc, invite]
          frames,    \* joiner -> frames in transit, either direction
          enrolled,  \* joiners the inviter put on its roster
          deaths,
          confirmed, \* history: whom the user confirmed, for which invite
          given      \* history: whom a whole bundle was sent to

hostVars == <<session, current, serving, claimed, pending>>
history == <<confirmed, given>>
enrollVars == <<hostVars, joiner, frames, enrolled, deaths, history>>

EnrollInit ==
    /\ session = [i \in Invite |-> "unused"]
    /\ current = {}
    /\ serving = [i \in Invite |-> "none"]
    /\ claimed = [i \in Invite |-> {}]
    /\ pending = {}
    /\ joiner = [p \in Joiner |-> [pc |-> "idle", invite |-> 0]]
    /\ frames = [p \in Joiner |-> {}]
    /\ enrolled = {}
    /\ deaths = 0
    /\ confirmed = [i \in Invite |-> {}]
    /\ given = [i \in Invite |-> {}]

At(p, i) == joiner[p].invite = i
Is(p, pc) == joiner[p].pc = pc
Become(p, pc) == joiner' = [joiner EXCEPT ![p].pc = pc]

\* peer.close() and MeshSession.stop(): the sessions of S end, with their
\* frames.
Stopped(S) == [i \in Invite |-> IF i \in S THEN "stopped" ELSE session[i]]
Dropped(S) == [p \in Joiner |-> IF joiner[p].invite \in S THEN {} ELSE frames[p]]
Stop(S) == session' = Stopped(S) /\ frames' = Dropped(S)

\* A frame leaves only while the session is up and p still attends it.
Reaches(i, p) == session[i] = "open" /\ At(p, i)
Send(i, p, m) ==
    frames' = [frames EXCEPT ![p] = IF Reaches(i, p) THEN @ \cup {m} ELSE @]

\* settleApproval(false): the handler that asks, if any, is refused.
Refused == [i \in Invite |-> IF i \in pending THEN "refused" ELSE serving[i]]
SettleNo == serving' = Refused /\ pending' = {}

-----------------------------------------------------------------------------
\* The inviter's host.

\* startEnrollInvite: the last session is stopped, a prompt left over is
\* refused; then the host joins the room.
StartInvite(i) ==
    /\ session[i] = "unused"
    /\ \A k \in Invite : k < i => session[k] # "unused"
    /\ session' = [Stopped(current) EXCEPT ![i] = "starting"]
    /\ frames' = Dropped(current)
    /\ SettleNo
    /\ UNCHANGED <<current, claimed, joiner, enrolled, deaths, history>>

\* startEnroll resolves: the room is joined and the expiry timer armed.
Started(i) ==
    /\ session[i] = "starting"
    /\ session' = [session EXCEPT ![i] = "open"]
    /\ current' = {i}
    /\ UNCHANGED <<serving, claimed, pending, joiner, frames, enrolled, deaths, history>>

\* stopEnrollInvite, SYNC_ENROLL_STOP, SYNC_DISCONNECT: the user closed the
\* dialog.
StopEnrollInvite ==
    /\ SettleNo
    /\ Stop(current)
    /\ current' = {}
    /\ UNCHANGED <<claimed, joiner, enrolled, deaths, history>>

\* The timer: any prompt is refused, then the session is stopped.
Expire(i) ==
    /\ session[i] = "open"
    /\ SettleNo
    /\ Stop({i})
    /\ UNCHANGED <<current, claimed, joiner, enrolled, deaths, history>>

\* The user answers the prompt that is up.
ApproveEnrollment ==
    \E i \in pending, p \in Joiner :
        /\ claimed[i] = {p}
        /\ serving' = [serving EXCEPT ![i] = "approved"]
        /\ pending' = {}
        /\ confirmed' = [confirmed EXCEPT ![i] = @ \cup {p}]
        /\ UNCHANGED <<session, current, claimed, joiner, frames, enrolled, deaths, given>>

RejectEnrollment ==
    /\ pending # {}
    /\ SettleNo
    /\ UNCHANGED <<session, current, claimed, joiner, frames, enrolled, deaths, history>>

\* The offscreen document or the app dies, with everything it held.
HostDies ==
    /\ deaths < MaxDeaths
    /\ deaths' = deaths + 1
    /\ Stop({i \in Invite : session[i] # "unused"})
    /\ serving' = [i \in Invite |-> "none"]
    /\ current' = {}
    /\ pending' = {}
    /\ UNCHANGED <<claimed, joiner, enrolled, history>>

-----------------------------------------------------------------------------
\* The handler of a peer at the inviter (makeEnrollHandler, serveJoiner).

\* Mutant: the claim is not checked.
AuthenticatedUnchecked(i, p) ==
    /\ session[i] = "open"
    /\ At(p, i) /\ "auth" \in frames[p]
    /\ claimed' = [claimed EXCEPT ![i] = {p}]
    /\ serving' = [serving EXCEPT ![i] = "hello"]
    /\ frames' = [frames EXCEPT ![p] = @ \ {"auth"}]
    /\ UNCHANGED <<session, current, pending, joiner, enrolled, deaths, history>>

\* The handshake completes: the first peer claims the invite, others are
\* closed.
Authenticated(i, p) ==
    /\ session[i] = "open"
    /\ At(p, i) /\ "auth" \in frames[p]
    /\ IF claimed[i] = {}
       THEN /\ claimed' = [claimed EXCEPT ![i] = {p}]
            /\ serving' = [serving EXCEPT ![i] = "hello"]
            /\ frames' = [frames EXCEPT ![p] = @ \ {"auth"}]
       ELSE /\ frames' = [frames EXCEPT ![p] = {}]
            /\ UNCHANGED <<claimed, serving>>
    /\ UNCHANGED <<session, current, pending, joiner, enrolled, deaths, history>>

\* recvJoinerHello: the introduction is there.
RecvJoinerHello(i, p) ==
    /\ serving[i] = "hello" /\ claimed[i] = {p}
    /\ At(p, i) /\ "hello" \in frames[p]
    /\ serving' = [serving EXCEPT ![i] = "sas"]
    /\ frames' = [frames EXCEPT ![p] = @ \ {"hello"}]
    /\ UNCHANGED <<session, current, claimed, pending, joiner, enrolled, deaths, history>>

\* The wait for an introduction or a receipt runs out, or the introduction
\* is invalid: the handler returns and the session is stopped.
StopServing(i) ==
    /\ serving[i] \in {"hello", "receipt", "notified"}
    /\ serving' = [serving EXCEPT ![i] = "ended"]
    /\ Stop({i})
    /\ UNCHANGED <<current, claimed, pending, joiner, enrolled, deaths, history>>

\* Mutant: the host remembers the peer.
ApproveOfPeer(i) ==
    /\ serving[i] = "sas"
    /\ serving' = [serving EXCEPT ![i] = "prompt"]
    /\ pending' = claimed[i]
    /\ UNCHANGED <<session, current, claimed, joiner, frames, enrolled, deaths, history>>

\* The code to compare is computed; the handler parks on the prompt, which
\* replaces whatever prompt was there.
Approve(i) ==
    /\ serving[i] = "sas"
    /\ serving' = [serving EXCEPT ![i] = "prompt"]
    /\ pending' = {i}
    /\ UNCHANGED <<session, current, claimed, joiner, frames, enrolled, deaths, history>>

SendRejected(i, p) ==
    /\ serving[i] = "refused" /\ claimed[i] = {p}
    /\ serving' = [serving EXCEPT ![i] = "notified"]
    /\ Send(i, p, "rejected")
    /\ UNCHANGED <<session, current, claimed, pending, joiner, enrolled, deaths, history>>

SendBundle(i, p) ==
    /\ serving[i] = "approved" /\ claimed[i] = {p}
    /\ serving' = [serving EXCEPT ![i] = "sent"]
    /\ Send(i, p, "bundle")
    /\ given' = [given EXCEPT ![i] = IF Reaches(i, p) THEN @ \cup {p} ELSE @]
    /\ UNCHANGED <<session, current, claimed, pending, joiner, enrolled, deaths, confirmed>>

\* Mutant: the roster is told when the receipt is there.
EnrolledOnReceipt(i, p) ==
    /\ serving[i] = "sent" /\ claimed[i] = {p}
    /\ serving' = [serving EXCEPT ![i] = "receipt"]
    /\ enrolled' = IF "receipt" \in frames[p] THEN enrolled \cup {p} ELSE enrolled
    /\ UNCHANGED <<session, current, claimed, pending, joiner, frames, deaths, history>>

\* onEnrolled, as soon as the last frame is handed over.
Enrolled(i, p) ==
    /\ serving[i] = "sent" /\ claimed[i] = {p}
    /\ serving' = [serving EXCEPT ![i] = "receipt"]
    /\ enrolled' = enrolled \cup {p}
    /\ UNCHANGED <<session, current, claimed, pending, joiner, frames, deaths, history>>

\* awaitReceipt, after the bundle or the rejection: then the session is
\* stopped.
RecvReceipt(i, p) ==
    /\ serving[i] \in {"receipt", "notified"} /\ claimed[i] = {p}
    /\ At(p, i) /\ "receipt" \in frames[p]
    /\ serving' = [serving EXCEPT ![i] = "ended"]
    /\ Stop({i})
    /\ UNCHANGED <<current, claimed, pending, joiner, enrolled, deaths, history>>

-----------------------------------------------------------------------------
\* The joiner.

\* joinGroup: a code is entered, the joiner looks for the inviter.
JoinGroup(p, i) ==
    /\ joiner[p].pc \in {"idle", "failed"}
    /\ joiner[p].invite < i
    /\ session[i] = "open"
    /\ joiner' = [joiner EXCEPT ![p] = [pc |-> "seeking", invite |-> i]]
    /\ frames' = [frames EXCEPT ![p] = {}]
    /\ UNCHANGED <<hostVars, enrolled, deaths, history>>

\* The joiner's side of the handshake completes and the key is the pinned
\* one: it introduces itself and waits.  (A handshake that fails, or is with
\* somebody else, closes that peer and leaves it seeking.)
FinishHandshake(p) ==
    /\ Is(p, "seeking")
    /\ session[joiner[p].invite] = "open"
    /\ Become(p, "waiting")
    /\ frames' = [frames EXCEPT ![p] = {"auth", "hello"}]
    /\ UNCHANGED <<hostVars, enrolled, deaths, history>>

\* receiveBundle: a rejection is confirmed and reported.
RecvRejected(p) ==
    /\ Is(p, "waiting") /\ "rejected" \in frames[p]
    /\ Become(p, "failed")
    /\ frames' = [frames EXCEPT ![p] = (@ \ {"rejected"}) \cup {"receipt"}]
    /\ UNCHANGED <<hostVars, enrolled, deaths, history>>

\* ... a bundle is opened if the password is the inviter's...
RecvBundle(p) ==
    /\ Is(p, "waiting") /\ "bundle" \in frames[p]
    /\ Become(p, IF p \in WrongPass THEN "failed" ELSE "building")
    /\ frames' = [frames EXCEPT ![p] = IF p \in WrongPass THEN {} ELSE @ \ {"bundle"}]
    /\ UNCHANGED <<hostVars, enrolled, deaths, history>>

\* ... and the rebuilt vault is handed over after the receipt was sent.
Joined(p) ==
    /\ Is(p, "building")
    /\ Become(p, "joined")
    /\ Send(joiner[p].invite, p, "receipt")
    /\ UNCHANGED <<hostVars, enrolled, deaths, history>>

\* Mutant: only the wait between two frames of a bundle is bounded.
JoinStalls(p) ==
    /\ Is(p, "waiting")
    /\ p \in given[joiner[p].invite]
    /\ Become(p, "failed")
    /\ frames' = [frames EXCEPT ![p] = {}]
    /\ UNCHANGED <<hostVars, enrolled, deaths, history>>

\* The wait for a confirmation spans the whole life of the invite: it runs
\* out only after the inviter's timer, which started before.  Between two
\* frames of a bundle it is short.
JoinTimesOut(p) ==
    /\ Is(p, "waiting")
    /\ session[joiner[p].invite] = "stopped" \/ p \in given[joiner[p].invite]
    /\ Become(p, "failed")
    /\ frames' = [frames EXCEPT ![p] = {}]
    /\ UNCHANGED <<hostVars, enrolled, deaths, history>>

\* Frames get lost: a relayed one, or the whole peer connection.
LoseFrames(p) ==
    /\ frames[p] # {}
    /\ \E m \in SUBSET frames[p] : frames' = [frames EXCEPT ![p] = m]
    /\ UNCHANGED <<hostVars, joiner, enrolled, deaths, history>>

-----------------------------------------------------------------------------
ServeStep(i) ==
    \/ Approve(i) \/ StopServing(i)
    \/ \E p \in Joiner :
          \/ RecvJoinerHello(i, p) \/ SendRejected(i, p)
          \/ SendBundle(i, p) \/ Enrolled(i, p) \/ RecvReceipt(i, p)

JoinStep(p) == RecvRejected(p) \/ RecvBundle(p) \/ Joined(p) \/ JoinTimesOut(p)

EnrollNext ==
    \/ \E i \in Invite :
          \/ StartInvite(i) \/ Started(i) \/ Expire(i) \/ ServeStep(i)
          \/ \E p \in Joiner : Authenticated(i, p) \/ JoinGroup(p, i)
    \/ StopEnrollInvite \/ ApproveEnrollment \/ RejectEnrollment \/ HostDies
    \/ \E p \in Joiner : JoinStep(p) \/ FinishHandshake(p) \/ LoseFrames(p)

EnrollSpec == EnrollInit /\ [][EnrollNext]_enrollVars

\* Timers fire and promises settle.  Nothing makes the user answer, start or
\* stop, or a frame arrive.
EnrollFairness ==
    /\ \A i \in Invite :
          /\ WF_enrollVars(ServeStep(i))
          /\ WF_enrollVars(Expire(i)) /\ WF_enrollVars(Started(i))
    /\ \A p \in Joiner : WF_enrollVars(JoinStep(p))

FairEnrollSpec == EnrollSpec /\ EnrollFairness

-----------------------------------------------------------------------------
Status(i) == CASE session[i] \in {"unused", "starting"} -> "unused"
               [] session[i] = "open" -> "open"
               [] OTHER -> "closed"

Holders(i) == {p \in Joiner : joiner[p].pc \in {"building", "joined"} /\ At(p, i)}

Abstract == INSTANCE Pairing WITH
    window <- [i \in Invite |-> Status(i)],
    holders <- [i \in Invite |-> Holders(i)]

EnrollTypeOK ==
    /\ session \in [Invite -> {"unused", "starting", "open", "stopped"}]
    /\ current \in SUBSET Invite
    /\ serving \in [Invite -> {"none", "hello", "sas", "prompt", "refused", "approved",
                               "sent", "receipt", "notified", "ended"}]
    /\ claimed \in [Invite -> SUBSET Joiner]
    /\ pending \in SUBSET Invite
    /\ joiner \in [Joiner -> [pc : {"idle", "seeking", "waiting", "building", "joined", "failed"},
                              invite : Invite \cup {0}]]
    /\ frames \in [Joiner -> SUBSET {"auth", "hello", "bundle", "rejected", "receipt"}]
    /\ enrolled \in SUBSET Joiner
    /\ deaths \in Nat
    /\ confirmed \in [Invite -> SUBSET Joiner]
    /\ given \in [Invite -> SUBSET Joiner]

\* What makeEnrollHandler is for: whatever handshakes, prompts, timers, new
\* invitations and closed dialogs overlap, an invitation sends the vault to
\* one device at most, to the one the user confirmed, while its session is up.
ImplementsPairing == Abstract!Spec

\* Every wait of an authenticated joiner is bounded: it gets the vault or an
\* error, also if the inviter stalls, is gone or never answers.
AttemptsEnd ==
    \A p \in Joiner : Is(p, "waiting") ~> joiner[p].pc \in {"joined", "failed"}

\* A device that got the vault is put on the inviter's roster, without which
\* sync refuses it, even if it never confirms; a host that dies is excused.
JoinedIsListed ==
    \A p \in Joiner : Is(p, "joined") ~> (p \in enrolled \/ deaths > 0)
=============================================================================
