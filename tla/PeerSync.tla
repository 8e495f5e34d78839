------------------------------- MODULE PeerSync -------------------------------
(***************************************************************************)
(* The sync sessions of two devices of a group over the relay: discovery   *)
(* and the relay transport (core/src/sync/transport/mesh.ts), and on every *)
(* transport the exchange of keys, the roster gate, the Noise handshake    *)
(* and the envelopes (roster-sync.ts).  The relay keeps nothing: a frame   *)
(* lost is lost, and of a Noise session every later frame with it.  Both   *)
(* sides give up and start over on their own; nothing tells one of them    *)
(* what the other has given up.                                            *)
(*                                                                         *)
(* A device is its static key.  Every session it starts signs its events   *)
(* with a new key: its life, by which its peer tells its transports apart. *)
(* Timers fire when they have to: a handshake times out when no message    *)
(* of it is under way, a peer is stale when it cannot be heard again.      *)
(***************************************************************************)
EXTENDS Naturals, Sequences

CONSTANTS Device,       \* the two static keys
          Handshake,    \* names for Noise sessions, reused once forgotten
          MaxRestarts,  \* bound: lock and unlock of a device
          MaxDrops,     \* bound: frames lost
          MaxRevokes    \* bound: removals of the other device

ASSUME DeviceAssumption ==
    /\ Device \subseteq Nat
    /\ \E d, e \in Device : d # e /\ Device = {d, e}
ASSUME HandshakeAssumption == 0 \notin Handshake
ASSUME RestartsAssumption == MaxRestarts \in Nat

VARIABLES life,     \* device -> the signing key of its session
          listed,   \* device -> does its roster list the other one
          known,    \* device -> lives of the other it has answered a hello of
          link,     \* device -> life of the other -> transport and syncPeer
          peers,    \* device -> the life of the other that is authenticated
          casting,  \* device -> a broadcast between its check and its sends
          wire,     \* device -> events on their way to it
          cut,      \* <<h, d>>: a frame of h to d was lost
          restarts, drops, revokes

counters == <<restarts, drops, revokes>>
vars == <<life, listed, known, link, peers, casting, wire, cut, counters>>

Life == 0..MaxRestarts
Other(d) == CHOOSE e \in Device : e # d
NoLink == [pc |-> "none", hs |-> 0, queue |-> <<>>]

\* An event: a hello to the room, or a frame from one life to another.
Hello(d) == [kind |-> "hello", from |-> life'[d], to |-> 0, hs |-> 0, intact |-> TRUE]
Frame(kind, d, r, h) == [kind |-> kind, from |-> life[d], to |-> r, hs |-> h, intact |-> TRUE]

Post(d, events) == wire' = [wire EXCEPT ![Other(d)] = @ \o events]

Init ==
    /\ life = [d \in Device |-> 0]
    /\ listed = [d \in Device |-> TRUE]
    /\ known = [d \in Device |-> {}]
    /\ link = [d \in Device |-> [r \in Life |-> NoLink]]
    /\ peers = [d \in Device |-> {}]
    /\ casting = [d \in Device |-> FALSE]
    /\ wire = [d \in Device |-> <<[kind |-> "hello", from |-> 0, to |-> 0, hs |-> 0, intact |-> TRUE]>>]
    /\ cut = {}
    /\ restarts = 0 /\ drops = 0 /\ revokes = 0

-----------------------------------------------------------------------------
\* Transports.

\* ensureRelayPeer: syncPeer starts on a new one, by sending the static key.
Opened(l, events) == IF l.pc = "none" THEN [l EXCEPT !.pc = "pub", !.queue = events]
                     ELSE [l EXCEPT !.queue = IF l.pc = "dead" THEN @ ELSE @ \o events]
Greeting(d, r) == IF link[d][r].pc = "none" THEN <<Frame("pub", d, r, 0)>> ELSE <<>>

\* A transport is closed, its peer can be discovered again.
Close(d, r) ==
    /\ link' = [link EXCEPT ![d][r] = NoLink]
    /\ known' = [known EXCEPT ![d] = @ \ {r}]

Arrived(d) == wire[d] # <<>>
Take(d) == [wire EXCEPT ![d] = Tail(@)]

\* discover: a hello not answered yet is answered, and a transport opened.
HearHello(d) ==
    LET r == Head(wire[d]).from IN
    /\ Arrived(d) /\ Head(wire[d]).kind = "hello"
    /\ IF r \in known[d]
       THEN wire' = Take(d) /\ UNCHANGED <<known, link>>
       ELSE /\ known' = [known EXCEPT ![d] = @ \cup {r}]
            /\ link' = [link EXCEPT ![d][r] = Opened(@, <<>>)]
            /\ wire' = [Take(d) EXCEPT ![Other(d)] =
                          @ \o <<Frame("hello", d, 0, 0)>> \o Greeting(d, r)]
    /\ UNCHANGED <<life, listed, peers, casting, cut, counters>>

\* Mutant: frames are told apart by their sender alone.
HearFrameOfAnyLife(d) ==
    LET m == Head(wire[d]) IN
    /\ Arrived(d) /\ m.kind # "hello"
    /\ link' = [link EXCEPT ![d][m.from] =
                  Opened(@, <<[m EXCEPT !.intact = <<m.hs, d>> \notin cut]>>)]
    /\ wire' = [Take(d) EXCEPT ![Other(d)] = @ \o Greeting(d, m.from)]
    /\ UNCHANGED <<life, listed, known, peers, casting, cut, counters>>

\* routeData: frames of an earlier life are not for us.
HearFrame(d) ==
    LET m == Head(wire[d]) IN
    /\ Arrived(d) /\ m.kind # "hello"
    /\ IF m.to = life[d]
       THEN /\ link' = [link EXCEPT ![d][m.from] =
                          Opened(@, <<[m EXCEPT !.intact = <<m.hs, d>> \notin cut]>>)]
            /\ wire' = [Take(d) EXCEPT ![Other(d)] = @ \o Greeting(d, m.from)]
       ELSE wire' = Take(d) /\ UNCHANGED link
    /\ UNCHANGED <<life, listed, known, peers, casting, cut, counters>>

\* The relay loses an event.
Lose(d) ==
    LET m == Head(wire[d]) IN
    /\ Arrived(d) /\ drops < MaxDrops
    /\ drops' = drops + 1
    /\ wire' = Take(d)
    /\ cut' = IF m.kind = "envelope" THEN cut \cup {<<m.hs, d>>} ELSE cut
    /\ UNCHANGED <<life, listed, known, link, peers, casting, restarts, revokes>>

\* The timers are slower than the relay and than the device: what arrived
\* has been handled, and at most one event is on its way from the other side.
Busy(d) == \E r \in Life :
    link[d][r].pc = "send" \/ (link[d][r].pc # "none" /\ link[d][r].queue # <<>>)
Calm(d) ==
    /\ \A e \in Device : ~Busy(e)
    /\ wire[Other(d)] = <<>> /\ Len(wire[d]) <= 1

-----------------------------------------------------------------------------
\* syncPeer.

Next1(d, r) == Head(link[d][r].queue)
Waiting(d, r, pc) == link[d][r].pc = pc /\ link[d][r].queue # <<>>
Into(d, r, pc, h) ==
    link' = [link EXCEPT ![d][r] = [pc |-> pc, hs |-> h, queue |-> Tail(@.queue)]]

\* A name no frame and no transport bears.
Fresh(h) ==
    /\ \A d \in Device, r \in Life :
          /\ link[d][r].hs # h
          /\ \A i \in DOMAIN link[d][r].queue : link[d][r].queue[i].hs # h
    /\ \A d \in Device : \A i \in DOMAIN wire[d] : wire[d][i].hs # h

\* The lower key begins the handshake; bound: a name is free for it.
Begin(d, r) ==
    IF d < Other(d)
    THEN LET h == CHOOSE h \in Handshake : Fresh(h) IN
         /\ \E g \in Handshake : Fresh(g)
         /\ Into(d, r, "message", h)
         /\ Post(d, <<Frame("first", d, r, h)>>)
         /\ cut' = {c \in cut : c[1] # h}
    ELSE Into(d, r, "message", 0) /\ UNCHANGED <<wire, cut>>

\* Mutant: the gate looks at the roster the session started with.
RecvPubUngated(d, r) ==
    /\ Waiting(d, r, "pub")
    /\ IF Next1(d, r).kind = "pub" THEN Begin(d, r) /\ UNCHANGED known
       ELSE Close(d, r) /\ UNCHANGED <<wire, cut>>
    /\ UNCHANGED <<life, listed, peers, casting, counters>>

\* The other's key must be in the roster as it is now.
RecvPub(d, r) ==
    /\ Waiting(d, r, "pub")
    /\ IF Next1(d, r).kind = "pub" /\ listed[d]
       THEN Begin(d, r) /\ UNCHANGED known
       ELSE Close(d, r) /\ UNCHANGED <<wire, cut>>
    /\ UNCHANGED <<life, listed, peers, casting, counters>>

\* The handshake ends and the peer is entered, whoever is there, or it fails.
RecvMessage(d, r) ==
    LET m == Next1(d, r) IN
    /\ Waiting(d, r, "message")
    /\ IF m.kind = (IF d < Other(d) THEN "second" ELSE "first")
          /\ (d < Other(d) => m.hs = link[d][r].hs)
       THEN /\ Into(d, r, "send", m.hs)
            /\ peers' = [peers EXCEPT ![d] = {r}]
            /\ IF d < Other(d) THEN UNCHANGED wire ELSE Post(d, <<Frame("second", d, r, m.hs)>>)
            /\ UNCHANGED known
       ELSE Close(d, r) /\ UNCHANGED <<peers, wire>>
    /\ UNCHANGED <<life, listed, casting, cut, counters>>

\* The first envelope, without another look at the roster.
First(d, r) == IF link[d][r].pc = "send" THEN <<Frame("envelope", d, r, link[d][r].hs)>> ELSE <<>>
SendFirst(d, r) ==
    /\ link[d][r].pc = "send"
    /\ link' = [link EXCEPT ![d][r].pc = "receive"]
    /\ Post(d, First(d, r))
    /\ UNCHANGED <<life, listed, known, peers, casting, cut, counters>>

\* A frame that does not decrypt ends the loop and nothing else; an envelope
\* of a device that is not in the roster any more ends the session.
RecvEnvelope(d, r) ==
    LET m == Next1(d, r) IN
    /\ Waiting(d, r, "receive")
    /\ IF m.kind # "envelope" \/ m.hs # link[d][r].hs \/ ~m.intact
       THEN /\ link' = [link EXCEPT ![d][r].pc = "dead", ![d][r].queue = <<>>]
            /\ UNCHANGED <<known, peers>>
       ELSE IF listed[d] THEN Into(d, r, "receive", m.hs) /\ UNCHANGED <<known, peers>>
       ELSE Close(d, r) /\ peers' = [peers EXCEPT ![d] = {}]
    /\ UNCHANGED <<life, listed, casting, wire, cut, counters>>

\* HANDSHAKE_TIMEOUT_MS: nothing of this attempt is under way.
Talking(d, r) ==
    LET e == Other(d) IN
    \/ link[d][r].queue # <<>>
    \/ \E i \in DOMAIN wire[d] : wire[d][i].kind # "hello" /\ wire[d][i].from = r
    \/ /\ r = life[e]
       /\ \/ link[e][life[d]].queue # <<>>
          \/ \E i \in DOMAIN wire[e] : wire[e][i].kind # "hello" /\ wire[e][i].from = life[d]

\* Mutant: the handshake itself has no timeout.
TimedOutEarly(d, r) == Calm(d) /\ link[d][r].pc = "pub" /\ ~Talking(d, r)
TimedOut(d, r) == Calm(d) /\ link[d][r].pc \in {"pub", "message"} /\ ~Talking(d, r)
TimeOut(d, r) ==
    /\ TimedOut(d, r)
    /\ Close(d, r)
    /\ UNCHANGED <<life, listed, peers, casting, wire, cut, counters>>

-----------------------------------------------------------------------------
\* The timer of REBROADCAST_MS.

\* An envelope that this transport can decrypt may still come.
Heard(d, r) ==
    LET l == link[d][r]  m == link[Other(d)][life[d]] IN
    /\ l.pc \in {"send", "receive"} /\ <<l.hs, d>> \notin cut
    /\ \/ \E i \in DOMAIN l.queue : l.queue[i].hs = l.hs
       \/ \E i \in DOMAIN wire[d] : wire[d][i].hs = l.hs
       \/ /\ r = life[Other(d)] /\ m.hs = l.hs
          /\ m.pc = "message" \/ life[d] \in peers[Other(d)]

Silent(d, r) == Calm(d) /\ r \in peers[d] /\ ~Heard(d, r)

\* Mutant: the transport is closed, the peer is kept.
ReapStaleKept(d) ==
    \E r \in peers[d] :
        /\ Silent(d, r)
        /\ Close(d, r)
        /\ UNCHANGED <<life, listed, peers, casting, wire, cut, counters>>

\* reapStale: nothing was heard of the peer for STALE_MS.
ReapStale(d) ==
    \E r \in peers[d] :
        /\ Silent(d, r)
        /\ Close(d, r)
        /\ peers' = [peers EXCEPT ![d] = {}]
        /\ UNCHANGED <<life, listed, casting, wire, cut, counters>>

\* The longest of the timers.
StaleDue == \E e \in Device, r \in Life : TimedOut(e, r) \/ Silent(e, r)

Prune(d) == {r \in known[d] : link[d][r].pc # "none"}

\* announce, every ANNOUNCE_MS: peers without a transport are forgotten.
Announce(d) ==
    /\ Calm(d) /\ ~StaleDue /\ \A i \in DOMAIN wire[d] : wire[d][i].kind = "hello"
    /\ known' = [known EXCEPT ![d] = Prune(d)]
    /\ Post(d, <<Frame("hello", d, 0, 0)>>)
    /\ UNCHANGED <<life, listed, link, peers, casting, cut, counters>>

\* broadcast: removed devices are dropped (reapRevoked), however busy they
\* keep the relay, and a first envelope under way still goes out on the closed
\* transport; for the others the vault is read ...
Broadcast(d) ==
    /\ peers[d] # {} /\ ~casting[d]
    /\ IF listed[d]
       THEN /\ Calm(d)
            /\ casting' = [casting EXCEPT ![d] = TRUE]
            /\ UNCHANGED <<known, link, peers, wire>>
       ELSE /\ \E r \in peers[d] : Close(d, r) /\ Post(d, First(d, r))
            /\ peers' = [peers EXCEPT ![d] = {}]
            /\ UNCHANGED casting
    /\ UNCHANGED <<life, listed, cut, counters>>

\* ... and sent to the peers there are by then.
BroadcastSend(d) ==
    /\ casting[d]
    /\ casting' = [casting EXCEPT ![d] = FALSE]
    /\ IF peers[d] = {} THEN UNCHANGED wire
       ELSE \E r \in peers[d] : Post(d, <<Frame("envelope", d, r, link[d][r].hs)>>)
    /\ UNCHANGED <<life, listed, known, link, peers, cut, counters>>

-----------------------------------------------------------------------------
\* Lock and unlock: the session stops, a new one with a new key says hello.
Restart(d) ==
    /\ restarts < MaxRestarts
    /\ restarts' = restarts + 1
    /\ life' = [life EXCEPT ![d] = @ + 1]
    /\ known' = [known EXCEPT ![d] = {}]
    /\ link' = [link EXCEPT ![d] = [r \in Life |-> NoLink]]
    /\ peers' = [peers EXCEPT ![d] = {}]
    /\ casting' = [casting EXCEPT ![d] = FALSE]
    /\ Post(d, <<Hello(d)>>)
    /\ UNCHANGED <<listed, cut, drops, revokes>>

\* The other device is removed from the roster.
Revoke(d) ==
    /\ revokes < MaxRevokes /\ listed[d]
    /\ revokes' = revokes + 1
    /\ listed' = [listed EXCEPT ![d] = FALSE]
    /\ UNCHANGED <<life, known, link, peers, casting, wire, cut, restarts, drops>>

Hear(d) == HearHello(d) \/ HearFrame(d)
SyncPeer(d, r) == RecvPub(d, r) \/ RecvMessage(d, r) \/ SendFirst(d, r) \/ RecvEnvelope(d, r)
GiveUp(d) == ReapStale(d) \/ \E r \in Life : TimeOut(d, r)

Next ==
    \E d \in Device :
        \/ Hear(d) \/ Lose(d)
        \/ \E r \in Life : SyncPeer(d, r)
        \/ GiveUp(d) \/ Announce(d) \/ Broadcast(d) \/ BroadcastSend(d)
        \/ Restart(d) \/ Revoke(d)

Spec == Init /\ [][Next]_vars

\* The relay delivers and a device goes on with what it has; its timers, held
\* back only while the devices talk, come round again and again.
Fairness ==
    \A d \in Device :
        /\ WF_vars(Hear(d)) /\ WF_vars(\E r \in Life : SyncPeer(d, r))
        /\ WF_vars(BroadcastSend(d))
        /\ SF_vars(GiveUp(d)) /\ SF_vars(Announce(d)) /\ SF_vars(Broadcast(d))

FairSpec == Spec /\ Fairness

-----------------------------------------------------------------------------
Event == [kind : {"hello", "pub", "first", "second", "envelope"}, from : Life, to : Life,
          hs : Handshake \cup {0}, intact : BOOLEAN]

TypeOK ==
    /\ life \in [Device -> Life] /\ listed \in [Device -> BOOLEAN]
    /\ known \in [Device -> SUBSET Life]
    /\ link \in [Device -> [Life ->
          [pc : {"none", "pub", "message", "send", "receive", "dead"},
           hs : Handshake \cup {0}, queue : Seq(Event)]]]
    /\ \A d \in Device : \A r \in peers[d] : peers[d] = {r} /\ link[d][r].pc # "none"
    /\ casting \in [Device -> BOOLEAN]
    /\ wire \in [Device -> Seq(Event)]
    /\ cut \subseteq Handshake \X Device

\* A Noise session that both devices hold is between their present lives, and
\* on one transport of each, whichever lives their frames on the way are of.
SessionsPair ==
    \A d \in Device : \A r, s \in Life :
        link[d][r].hs # 0 =>
            /\ link[d][s].hs = link[d][r].hs => r = s
            /\ link[Other(d)][s].hs = link[d][r].hs => r = life[Other(d)] /\ s = life[d]

\* The other device is removed, and no transport to it is past the gate.
PastGate == {"message", "send", "receive"}
Out(d) == ~listed[d] /\ peers[d] = {} /\ \A r \in Life : link[d][r].pc \notin PastGate

\* A removed device that was dropped gets nowhere again, whatever it sends.
OutStaysOut == [][\A d \in Device : Out(d) => Out(d)']_vars

\* Each device holds the other's session, and envelopes pass both ways.
Linked ==
    \A d \in Device : LET e == Other(d) IN
        /\ peers[d] = {life[e]}
        /\ link[d][life[e]].pc = "receive"
        /\ link[d][life[e]].hs = link[e][life[d]].hs
        /\ <<link[d][life[e]].hs, d>> \notin cut

\* A transport to the other's present life is past the handshake and has no
\* entry in peers: the late handshake of an earlier life took its place, and
\* nobody is left to close it.
Orphaned(d) ==
    LET r == life[Other(d)]
    IN  link[d][r].pc \in {"send", "receive", "dead"} /\ r \notin peers[d]

\* Two devices that list each other find each other again, whatever was lost
\* and whoever restarted, unless a late handshake of a device's earlier life
\* orphaned the transport to its present one.
Relinked ==
    <>[]((\A d \in Device : listed[d]) => Linked \/ \E d \in Device : Orphaned(d))

\* "The next hello (ours or theirs) starts a fresh connection instead of being
\* ignored as a duplicate" (mesh.ts): they always find each other again.
RecoversAlone == <>[]((\A d \in Device : listed[d]) => Linked)

\* A removed device does not authenticate again, and is dropped.
RevokedStaysOut == \A d \in Device : <>[](~listed[d] => peers[d] = {})
================================================================================
