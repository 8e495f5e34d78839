------------------------------- MODULE Roster -------------------------------
(***************************************************************************)
(* The sync group's device roster (core/src/sync/roster.ts): who is a      *)
(* member and who was revoked, stored under sync.group on every device.    *)
(* Every change of it is a read of the stored roster, a merge and a write  *)
(* back with awaits in between, made by the popup                          *)
(* (hooks/useSyncEnrollment.ts) or by the background for each roster a     *)
(* peer gossips (transport/roster-sync.ts, background/sync.ts); no lock    *)
(* orders them.                                                            *)
(*                                                                         *)
(* All devices run the code: a signature present is the owner's and is     *)
(* valid, an admission is valid for the stamp it was made over.  Stamps    *)
(* are drawn within one millisecond, Now.                                  *)
(***************************************************************************)
EXTENDS Merge

CONSTANTS Device,      \* installations; a device is also its public key
          Members,     \* devices in the group at the start, rosters in step
          Legacy,      \* members enrolled before entries were signed
          Admits,      \* devices whose user re-enters the password to invite
          Removable,   \* devices that some member may revoke
          BgTask,      \* gossiped rosters a background can handle at a time
          Now,         \* Date.now()
          MaxInvites,  \* bound: invitations
          MaxRemovals, \* bound: revocations
          MaxLeaves,   \* bound: disconnects
          MaxSignings  \* bound: signature backfills at unlock

ASSUME MembersAssumption == Members \subseteq Device /\ Device \subseteq Node
ASSUME NowAssumption == Now \in Nat \ {0}

VARIABLES group,   \* device -> the roster under sync.group
          self,    \* device -> its device id, the node of its stamps
          clock,   \* device -> its HybridClock
          offer,   \* device -> its open invitation, if any
          task,    \* device -> slot -> a change between read and write
          minted,  \* device ids generated so far
          used     \* bound counters

vars == <<group, self, clock, offer, task, minted, used>>

Slot == {"popup", "unlock", "enrolled"} \cup BgTask
Idle == [pc |-> "idle"]

Entry == [hlc : Stamp, pub : Device, signed : BOOLEAN, key : BOOLEAN,
          admission : SUBSET [by : Node, of : Stamp]]

IsRoster(r) ==
    /\ DOMAIN r = {"devices", "revoked"}
    /\ IsMap(r.devices, Node, Entry)
    /\ IsMap(r.revoked, Node, [hlc : Stamp])

EmptyRoster == [devices |-> NoMap, revoked |-> NoMap]

-----------------------------------------------------------------------------
\* Mutant: liveness by last writer, as for entries.
LiveDevicesByStamp(r) == LiveRecords(r)

\* liveDevices: a tombstone kills whatever the stamps.
LiveDevices(r) == Only(r.records, DOMAIN r.records \ DOMAIN r.tombstones)

MergeRosters(a, b) ==
    LET r == MergeReplicas([records |-> a.devices, tombstones |-> a.revoked],
                           [records |-> b.devices, tombstones |-> b.revoked])
    IN  [devices |-> LiveDevices(r), revoked |-> r.tombstones]

\* Mutant: the bare stamp is buried.
RevokingBare(i, s) == [EmptyRoster EXCEPT !.revoked = Put(i, s)]

\* What addDevice and revokeDevice merge in.
Adding(i, e) == [EmptyRoster EXCEPT !.devices = Put(i, e)]
Revoking(i, s) == [EmptyRoster EXCEPT !.revoked = Put(i, [hlc |-> s])]

SanitizeRemoteRoster(r) ==
    [devices |-> NotFuture(r.devices, Now), revoked |-> NotFuture(r.revoked, Now)]

\* isAdmissionValid: a listed admitter with a published key signed this entry.
IsAdmissionValid(local, e) ==
    \E a \in e.admission :
        /\ a.by \in DOMAIN local.devices
        /\ local.devices[a.by].key
        /\ a.of = e.hlc

\* Mutant: revocations of ids not listed here are dropped.
VerifyRemoteListedOnly(local, remote) ==
    [devices |-> Only(remote.devices, {i \in DOMAIN remote.devices :
        LET e == remote.devices[i]
        IN  /\ i \notin DOMAIN local.revoked
            /\ IF i \in DOMAIN local.devices /\ local.devices[i].signed
               THEN e.signed
               ELSE e.admission = {} \/ IsAdmissionValid(local, e)}),
     revoked |-> Only(remote.revoked, DOMAIN local.devices)]

\* verifyRemoteRoster with both flags off: what of a remote roster is merged.
VerifyRemoteRoster(local, remote) ==
    [devices |-> Only(remote.devices, {i \in DOMAIN remote.devices :
        LET e == remote.devices[i]
        IN  /\ i \notin DOMAIN local.revoked
            /\ IF i \in DOMAIN local.devices /\ local.devices[i].signed
               THEN e.signed
               ELSE e.admission = {} \/ IsAdmissionValid(local, e)}),
     revoked |-> remote.revoked]

\* The public keys inRoster accepts.
Pubs(r) == {r.devices[i].pub : i \in DOMAIN r.devices}

\* The ids under which a device finds its own entry, by public key.
OwnIds(d) == {i \in DOMAIN group[d].devices : group[d].devices[i].pub = d}

Fresh(d) == StampAt(Send(clock[d], Now), self[d])

-----------------------------------------------------------------------------
FirstClock == Send(FreshClock, Now)

FirstRoster ==
    [EmptyRoster EXCEPT !.devices = [d \in Members |->
        [hlc |-> StampAt(FirstClock, d), pub |-> d, signed |-> d \notin Legacy,
         key |-> FALSE, admission |-> {}]]]

Init ==
    /\ group = [d \in Device |-> IF d \in Members THEN FirstRoster ELSE EmptyRoster]
    /\ self = [d \in Device |-> d]
    /\ clock = [d \in Device |-> FirstClock]
    /\ offer = [d \in Device |-> {}]
    /\ task = [d \in Device |-> [s \in Slot |-> Idle]]
    /\ minted = Members
    /\ used = [invites |-> 0, removals |-> 0, leaves |-> 0, signings |-> 0]

Enrolled(d) == group[d] # EmptyRoster

Count(op, max) ==
    /\ used[op] < max
    /\ used' = [used EXCEPT ![op] = @ + 1]

\* A change to merge: from the read on, or from the write on once it is read.
Change(change, invite, admit) ==
    [pc |-> "read", change |-> change, invite |-> invite, admit |-> admit]
ReadChange(d, change) ==
    [pc |-> "write", base |-> group[d], change |-> change, invite |-> FALSE, admit |-> {}]

Start(d, s, t) ==
    /\ task[d][s] = Idle
    /\ task' = [task EXCEPT ![d][s] = t]

-----------------------------------------------------------------------------
\* After its change is stored an invitation goes on, other tasks end.
Done(t) == IF t.invite THEN [pc |-> "offer", admit |-> t.admit] ELSE Idle

\* The read of a read-merge-write; nothing is written if the group is gone.
ReadGroup(d, s) ==
    /\ task[d][s].pc = "read"
    /\ task' = [task EXCEPT ![d][s] =
          IF ~Enrolled(d) THEN Done(@)
          ELSE [pc |-> "write", base |-> group[d], change |-> @.change,
                invite |-> @.invite, admit |-> @.admit]]
    /\ UNCHANGED <<group, self, clock, offer, minted, used>>

\* Mutant: what is to be merged is stored as it is.
WriteGroupUnmerged(d, s) ==
    /\ task[d][s].pc = "write"
    /\ group' = [group EXCEPT ![d] = task[d][s].change]
    /\ task' = [task EXCEPT ![d][s] = Done(@)]
    /\ UNCHANGED <<self, clock, offer, minted, used>>

\* Its write.
WriteGroup(d, s) ==
    /\ task[d][s].pc = "write"
    /\ group' = [group EXCEPT ![d] = MergeRosters(task[d][s].base, task[d][s].change)]
    /\ task' = [task EXCEPT ![d][s] = Done(@)]
    /\ UNCHANGED <<self, clock, offer, minted, used>>

\* inviteDevice without a password: nothing is published.
Invite(d) ==
    /\ Enrolled(d)
    /\ offer[d] = {}
    /\ Count("invites", MaxInvites)
    /\ d \notin Admits \/ OwnIds(d) = {}
    /\ Start(d, "popup", [pc |-> "offer", admit |-> {}])
    /\ UNCHANGED <<group, self, clock, offer, minted>>

\* inviteDevice with one: publishAdmissionKey first puts the admission key on
\* the device's own entry, re-stamped and re-signed, unless it is there.
InviteAdmitting(d) ==
    \E i \in OwnIds(d) :
        LET own == group[d].devices[i]
        IN  /\ d \in Admits
            /\ offer[d] = {}
            /\ Count("invites", MaxInvites)
            /\ IF own.key
               THEN /\ Start(d, "popup", [pc |-> "offer", admit |-> {i}])
                    /\ UNCHANGED clock
               ELSE /\ Start(d, "popup", Change(
                          Adding(i, [own EXCEPT !.key = TRUE, !.signed = TRUE,
                                                !.hlc = Fresh(d)]), TRUE, {i}))
                    /\ clock' = [clock EXCEPT ![d] = Send(@, Now)]
            /\ UNCHANGED <<group, self, offer, minted>>

\* The pairing code is out: the roster to ship is the one stored now.
Offer(d) ==
    /\ task[d]["popup"].pc = "offer"
    /\ offer' = [offer EXCEPT ![d] = {[roster |-> group[d], admit |-> task[d]["popup"].admit]}]
    /\ task' = [task EXCEPT ![d]["popup"] = Idle]
    /\ UNCHANGED <<group, self, clock, minted, used>>

\* Mutant: the enrolled event leaves the signature out of the entry.
JoinUnsigned(j, d) ==
    \E o \in offer[d], i \in Node \ minted :
        LET own == [hlc |-> StampAt(FirstClock, i), pub |-> j, signed |-> TRUE,
                    key |-> FALSE, admission |-> {}]
        IN  /\ j # d
            /\ ~Enrolled(j)
            /\ minted' = minted \cup {i}
            /\ self' = [self EXCEPT ![j] = i]
            /\ clock' = [clock EXCEPT ![j] = FirstClock]
            /\ group' = [group EXCEPT ![j] = MergeRosters(o.roster, Adding(i, own))]
            /\ offer' = [offer EXCEPT ![d] = {}]
            /\ Start(d, "enrolled", Change(Adding(i, [own EXCEPT !.signed = FALSE]), FALSE, {}))
            /\ UNCHANGED used

\* joinGroup at j and the enrolled event at d: j takes a new device id and
\* stores the shipped roster with its own entry; d admits the same entry.
Join(j, d) ==
    \E o \in offer[d], i \in Node \ minted :
        LET own == [hlc |-> StampAt(FirstClock, i), pub |-> j, signed |-> TRUE,
                    key |-> FALSE, admission |-> {}]
        IN  /\ j # d
            /\ ~Enrolled(j)
            /\ minted' = minted \cup {i}
            /\ self' = [self EXCEPT ![j] = i]
            /\ clock' = [clock EXCEPT ![j] = FirstClock]
            /\ group' = [group EXCEPT ![j] = MergeRosters(o.roster, Adding(i, own))]
            /\ offer' = [offer EXCEPT ![d] = {}]
            /\ Start(d, "enrolled", Change(
                  Adding(i, [own EXCEPT !.admission =
                                {[by |-> a, of |-> own.hlc] : a \in o.admit}]), FALSE, {}))
            /\ UNCHANGED used

\* removeDevice: the roster is read, then the tombstone is stamped.
RemoveDevice(d, i) ==
    /\ i \in DOMAIN group[d].devices
    /\ group[d].devices[i].pub \in Removable \ {d}
    /\ Count("removals", MaxRemovals)
    /\ Start(d, "popup", ReadChange(d, Revoking(i, Fresh(d))))
    /\ clock' = [clock EXCEPT ![d] = Send(@, Now)]
    /\ UNCHANGED <<group, self, offer, minted>>

\* ensureOwnEntrySigned: witness, stamp and sign the unsigned own entry...
SignOwn(d) ==
    \E i \in OwnIds(d) :
        LET own == group[d].devices[i]
            c   == Send(Receive(clock[d], own.hlc, Now), Now)
        IN  /\ ~own.signed
            /\ Count("signings", MaxSignings)
            /\ clock' = [clock EXCEPT ![d] = c]
            /\ Start(d, "unlock", [pc |-> "check", id |-> i, own |-> own,
                  signed |-> [own EXCEPT !.signed = TRUE, !.hlc = StampAt(c, self[d])]])
            /\ UNCHANGED <<group, self, offer, minted>>

\* ... and store it only if what was signed is still what is there.  (The
\* second attempt is another SignOwn.)
SignCheck(d) ==
    LET t == task[d]["unlock"]
    IN  /\ t.pc = "check"
        /\ task' = [task EXCEPT ![d]["unlock"] =
              IF t.id \in DOMAIN group[d].devices /\ group[d].devices[t.id] = t.own
              THEN ReadChange(d, Adding(t.id, t.signed)) ELSE Idle]
        /\ UNCHANGED <<group, self, clock, offer, minted, used>>

\* disconnect: the group is forgotten; tasks already running are not stopped.
Leave(d) ==
    /\ Enrolled(d)
    /\ Count("leaves", MaxLeaves)
    /\ group' = [group EXCEPT ![d] = EmptyRoster]
    /\ offer' = [offer EXCEPT ![d] = {}]
    /\ UNCHANGED <<self, clock, task, minted>>

\* d and e list each other's key: their session passes both gates.
Connected(d, e) ==
    /\ d # e
    /\ e \in Pubs(group[d])
    /\ d \in Pubs(group[e])

\* A broadcast of d arrives at e and is verified against e's roster; the
\* merge into what is stored by then follows.
Gossip(d, e, s) ==
    /\ Connected(d, e)
    /\ Start(e, s, Change(
          SanitizeRemoteRoster(VerifyRemoteRoster(group[e], group[d])), FALSE, {}))
    /\ UNCHANGED <<group, self, clock, offer, minted, used>>

Step(d, s) == ReadGroup(d, s) \/ WriteGroup(d, s)

Next ==
    \E d \in Device :
        \/ \E s \in Slot : Step(d, s)
        \/ Invite(d) \/ InviteAdmitting(d) \/ Offer(d)
        \/ \E j \in Device : Join(j, d)
        \/ \E i \in Node : RemoveDevice(d, i)
        \/ SignOwn(d) \/ SignCheck(d)
        \/ Leave(d)
        \/ \E e \in Device, s \in BgTask : Gossip(d, e, s)

Spec == Init /\ [][Next]_vars

\* Started tasks run on, and every connected peer's rebroadcast is handled
\* again and again.
Fairness ==
    \A d \in Device :
        /\ \A s \in Slot : WF_vars(Step(d, s))
        /\ WF_vars(SignCheck(d))
        /\ \A e \in Device \ {d} : SF_vars(\E s \in BgTask : Gossip(e, d, s))

FairSpec == Spec /\ Fairness

-----------------------------------------------------------------------------
TypeOK ==
    /\ \A d \in Device : IsRoster(group[d])
    /\ self \in [Device -> Node]
    /\ clock \in [Device -> Clock]
    /\ \A d \in Device : \A o \in offer[d] : IsRoster(o.roster) /\ o.admit \subseteq Node
    /\ \A d \in Device, s \in Slot :
          /\ task[d][s].pc \in {"idle", "read", "write", "check", "offer"}
          /\ task[d][s].pc \in {"read", "write"} => IsRoster(task[d][s].change)
          /\ task[d][s].pc = "write" => IsRoster(task[d][s].base)
    /\ minted \subseteq Node

\* A revoked device is never listed again on a device that knows of the
\* revocation, not even where its own entry is re-stamped afterwards.
RevokedIsUnlisted ==
    \A d \in Device : DOMAIN group[d].devices \cap DOMAIN group[d].revoked = {}

\* A device in the group finds itself in its own roster until it learns that
\* it was revoked: publishAdmissionKey and ensureOwnEntrySigned look there.
\* (Not after a disconnect: a change that outlives it can store a roster from
\* before after the device has joined anew under another id.)
SelfListed ==
    used.leaves = 0 =>
        \A d \in Device : Enrolled(d) =>
            self[d] \in DOMAIN group[d].devices \cup DOMAIN group[d].revoked

\* Two versions of an entry differ at most in the admissions they bear.
SameEntry(a, b) == [a EXCEPT !.admission = b.admission] = b

\* Two devices that list an entry under one stamp list the same entry, up to
\* the admission an inviter adds to the entry a joiner made: mergeStamped
\* keeps its own of two records with equal stamps.
StampNamesEntry ==
    \A d, e \in Device : \A i \in DOMAIN group[d].devices \cap DOMAIN group[e].devices :
        LET a == group[d].devices[i]
            b == group[e].devices[i]
        IN  a.hlc = b.hlc => SameEntry(a, b)

\* A broadcast of d changes nothing at e.
NothingNew(d, e) ==
    MergeRosters(group[e], SanitizeRemoteRoster(VerifyRemoteRoster(group[e], group[d])))
        = group[e]

\* Devices whose broadcasts change nothing at each other have the same roster:
\* what verification refuses never keeps two rosters apart.  With admissions
\* it can, where the admission key is not listed.
SettledRostersAgree ==
    Admits = {} =>
        \A d, e \in Device :
            NothingNew(d, e) /\ NothingNew(e, d) => group[d] = group[e]

\* Nothing but verification keeps an entry that d lists from e: it bears an
\* admission, and no admission key that e lists made one for its stamp.
Refused(d, e, i) ==
    LET entry == group[d].devices[i]
    IN  entry.admission # {} /\ ~IsAdmissionValid(group[e], entry)

\* Devices that go on syncing with each other end up knowing the same
\* revocations and listing the same entries, whatever merges and local changes
\* overlapped.  Two things can remain: the joiner's copy of its entry is without
\* the admission its inviter added, and an entry whose admitter's key a device
\* does not list is refused there.
RostersConverge ==
    <>[](\A d, e \in Device : Connected(d, e) =>
            /\ group[d].revoked = group[e].revoked
            /\ \A i \in DOMAIN group[d].devices :
                  IF i \in DOMAIN group[e].devices
                  THEN SameEntry(group[d].devices[i], group[e].devices[i])
                  ELSE Refused(d, e, i))

\* "The roster syncs with the vault so every device knows the membership"
\* (roster.ts): devices that go on syncing list the same devices.
MembershipKnown ==
    <>[](\A d, e \in Device : Connected(d, e) =>
            DOMAIN group[d].devices = DOMAIN group[e].devices)

\* "Revocation is a tombstone, so a removed device stays removed across a
\* merge" (roster.ts): a device forgets one only by leaving the group.
RevocationSticks ==
    [][\A d \in Device :
          \/ group'[d] = EmptyRoster
          \/ DOMAIN group[d].revoked \subseteq DOMAIN group'[d].revoked]_vars
=============================================================================
