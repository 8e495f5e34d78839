---------------------------- MODULE Devices_proofs ----------------------------
(***************************************************************************)
(* How two devices deal with each other: theorems about their sync         *)
(* sessions (PeerSync), for any bounds and names, and about the ceremony   *)
(* that adds a device (Enroll), which implements Pairing for any number of *)
(* invitations, joiners and host deaths.                                   *)
(*                                                                         *)
(* IInv says why sessions do not get mixed up.  Every Noise session has an *)
(* end at each device, one of that device's lives, and nothing that bears  *)
(* the session's name, on the way, in a queue or in a transport, is of     *)
(* other lives: Agreed says so for some choice of ends.  A session that is *)
(* begun takes a name that nothing bears (FreshAgreed), so that its ends   *)
(* may be chosen then; every other step passes names on as they are.       *)
(***************************************************************************)
EXTENDS PeerSync, Enroll, SequenceTheorems, TLAPS

\* What Noise is needed for, and the transports that are done with it.
Noise == {"first", "second", "envelope"}
PastHandshake == {"send", "receive", "dead"}
LinkType == [pc : {"none", "pub", "message", "send", "receive", "dead"},
             hs : Handshake \cup {0}, queue : Seq(Event)]

\* ends[h][d]: the life of d that takes part in session h.
Ends == [Handshake -> [Device -> Life]]

\* An event of session h is from the one end of h to the other.
Frames(ends, e) ==
    {m \in Event :
        /\ m.kind \in Noise => m.hs # 0
        /\ m.hs # 0 => ends[m.hs][e] = m.to /\ ends[m.hs][Other(e)] = m.from}
FramesFrom(ends, e, own, x) == {m \in Frames(ends, e) : m.to = own /\ m.from = x}

\* A transport of e, in the life own, to the other's life x.
GoodLink(ends, e, own, x, l) ==
    /\ l \in LinkType
    /\ l.queue \in Seq(FramesFrom(ends, e, own, x))
    /\ l.hs # 0 => ends[l.hs][e] = own /\ ends[l.hs][Other(e)] = x
    /\ l.pc \in PastHandshake => l.hs # 0

Agreed(ends) == \A e \in Device :
    /\ wire[e] \in Seq(Frames(ends, e))
    /\ \A x \in Life : GoodLink(ends, e, life[e], x, link[e][x])

Shapes ==
    /\ life \in [Device -> Life] /\ listed \in [Device -> BOOLEAN]
    /\ known \in [Device -> SUBSET Life]
    /\ link = [e \in Device |-> [x \in Life |-> link[e][x]]]
    /\ casting \in [Device -> BOOLEAN]
    /\ wire = [e \in Device |-> wire[e]]
    /\ cut \subseteq Handshake \X Device
    /\ restarts \in Nat /\ \A d \in Device : life[d] <= restarts

PeersInv ==
    /\ peers \in [Device -> SUBSET Life]
    /\ \A d \in Device : \A r \in peers[d] :
          peers[d] = {r} /\ link[d][r].pc \in PastHandshake

IInv == Shapes /\ PeersInv /\ \E ends \in Ends : Agreed(ends)

-----------------------------------------------------------------------------
LEMMA TwoDevices ==
    ASSUME NEW d \in Device
    PROVE  /\ Other(d) \in Device /\ Other(d) # d /\ Other(Other(d)) = d
           /\ \A e \in Device : e = d \/ e = Other(d)
<1>1. PICK a \in Device, b \in Device : a # b /\ Device = {a, b}
  BY DeviceAssumption
<1>2. \A e \in Device : \E f \in Device : f # e
  BY <1>1
<1>3. \A e \in Device : Other(e) \in Device /\ Other(e) # e
  BY <1>2 DEF Other
<1> QED
  BY <1>1, <1>3

LEMMA FramesAreEvents ==
    ASSUME NEW ends, NEW e, NEW own, NEW x
    PROVE  /\ Seq(Frames(ends, e)) \subseteq Seq(Event)
           /\ Seq(FramesFrom(ends, e, own, x)) \subseteq Seq(Frames(ends, e))
<1>1. Frames(ends, e) \subseteq Event /\ FramesFrom(ends, e, own, x) \subseteq Frames(ends, e)
  BY DEF Frames, FramesFrom
<1> QED
  BY <1>1

LEMMA TypesFollow == IInv => TypeOK
<1> SUFFICES ASSUME IInv PROVE TypeOK
  OBVIOUS
<1>1. PICK ends \in Ends : Agreed(ends)
  BY DEF IInv
<1>2. \A e \in Device : wire[e] \in Seq(Event)
  BY <1>1, FramesAreEvents DEF Agreed
<1>3. \A e \in Device, x \in Life : link[e][x] \in LinkType
  BY <1>1 DEF Agreed, GoodLink
<1>4. link \in [Device -> [Life -> LinkType]]
  <2>1. link = [e \in Device |-> [x \in Life |-> link[e][x]]]
    BY DEF IInv, Shapes
  <2> QED
    BY <1>3, <2>1
<1>5. wire \in [Device -> Seq(Event)]
  BY <1>2 DEF IInv, Shapes
<1>6. \A d \in Device : \A r \in peers[d] : peers[d] = {r} /\ link[d][r].pc # "none"
  BY DEF IInv, PeersInv, PastHandshake
<1> QED
  BY <1>4, <1>5, <1>6 DEF TypeOK, IInv, Shapes, LinkType

LEMMA SessionsFollow == IInv => SessionsPair
<1> SUFFICES ASSUME IInv, NEW d \in Device, NEW r \in Life, NEW s \in Life, link[d][r].hs # 0
             PROVE  /\ link[d][s].hs = link[d][r].hs => r = s
                    /\ link[Other(d)][s].hs = link[d][r].hs =>
                          r = life[Other(d)] /\ s = life[d]
  BY DEF SessionsPair
<1>1. PICK ends \in Ends : Agreed(ends)
  BY DEF IInv
<1>2. \A e \in Device, x \in Life : link[e][x].hs # 0 =>
         ends[link[e][x].hs][e] = life[e] /\ ends[link[e][x].hs][Other(e)] = x
  BY <1>1 DEF Agreed, GoodLink
<1> QED
  BY <1>2, TwoDevices

-----------------------------------------------------------------------------
(* Steps: what they leave in the transports and on the way. *)

(* An empty transport and one that is opened. *)
LEMMA NoLinkIsGood ==
    ASSUME NEW ends, NEW e, NEW own, NEW x
    PROVE  GoodLink(ends, e, own, x, NoLink)
<1>1. <<>> \in Seq(FramesFrom(ends, e, own, x)) /\ <<>> \in Seq(Event)
  OBVIOUS
<1> QED
  BY <1>1 DEF GoodLink, NoLink, LinkType, PastHandshake

(* An open transport stays where it is. *)
Keeps(l, m) == l.pc # "none" => m.pc = l.pc

LEMMA OpenedIsGood ==
    ASSUME NEW ends, NEW e, NEW own, NEW x, NEW l, GoodLink(ends, e, own, x, l),
           NEW events \in Seq(FramesFrom(ends, e, own, x))
    PROVE  /\ GoodLink(ends, e, own, x, Opened(l, events))
           /\ Keeps(l, Opened(l, events))
<1>1. l \in LinkType /\ events \in Seq(Event)
  BY FramesAreEvents DEF GoodLink
<1>2. CASE l.pc = "none"
  <2>1. Opened(l, events) = [l EXCEPT !.pc = "pub", !.queue = events]
    BY <1>2 DEF Opened
  <2>2. /\ Opened(l, events) \in LinkType /\ Opened(l, events).queue = events
        /\ Opened(l, events).pc = "pub" /\ Opened(l, events).hs = l.hs
    BY <1>1, <2>1 DEF LinkType
  <2> HIDE DEF Opened
  <2> QED
    BY <1>2, <2>2 DEF GoodLink, PastHandshake, Keeps
<1>3. CASE l.pc # "none"
  <2> DEFINE q == IF l.pc = "dead" THEN l.queue ELSE l.queue \o events
  <2>1. q \in Seq(FramesFrom(ends, e, own, x))
    BY ConcatProperties DEF GoodLink
  <2>2. q \in Seq(Event)
    BY <2>1, FramesAreEvents
  <2>3. Opened(l, events) = [l EXCEPT !.queue = q]
    BY <1>3 DEF Opened
  <2> HIDE DEF q, Opened
  <2>4. /\ Opened(l, events) \in LinkType /\ Opened(l, events).queue = q
        /\ Opened(l, events).pc = l.pc /\ Opened(l, events).hs = l.hs
    BY <1>1, <2>2, <2>3 DEF LinkType
  <2> QED
    BY <2>1, <2>4 DEF GoodLink, Keeps
<1> QED
  BY <1>2, <1>3

(* What d sends to life r of the other. *)
LEMMA FrameIsSound ==
    ASSUME IInv, NEW ends, NEW d \in Device, NEW r \in Life, NEW h \in Handshake \cup {0},
           NEW kind \in {"hello", "pub", "first", "second", "envelope"},
           kind \in Noise => h # 0,
           h # 0 => ends[h][d] = life[d] /\ ends[h][Other(d)] = r
    PROVE  /\ Frame(kind, d, r, h) \in Frames(ends, Other(d))
           /\ <<Frame(kind, d, r, h)>> \in Seq(Frames(ends, Other(d)))
<1>1. Frame(kind, d, r, h) \in Event
  BY DEF Frame, Event, IInv, Shapes
<1>2. /\ Frame(kind, d, r, h).kind = kind /\ Frame(kind, d, r, h).from = life[d]
      /\ Frame(kind, d, r, h).to = r /\ Frame(kind, d, r, h).hs = h
  BY DEF Frame
<1> HIDE DEF Frame
<1>3. Frame(kind, d, r, h) \in Frames(ends, Other(d))
  BY <1>1, <1>2, TwoDevices DEF Frames
<1> QED
  BY <1>3

(* Events are sent to the other, one of d's may be taken. *)
WiresGood(ends) == wire' = [e \in Device |-> wire'[e]]
                   /\ \A e \in Device : wire'[e] \in Seq(Frames(ends, e))

LEMMA WiresKept ==
    ASSUME IInv, NEW ends \in Ends, Agreed(ends), NEW d \in Device,
           NEW events \in Seq(Frames(ends, Other(d))),
           \/ Post(d, events)
           \/ wire[d] # <<>> /\ wire' = Take(d)
           \/ wire[d] # <<>> /\ wire' = [Take(d) EXCEPT ![Other(d)] = @ \o events]
    PROVE  WiresGood(ends)
<1>1. wire = [e \in Device |-> wire[e]] /\ \A e \in Device : wire[e] \in Seq(Frames(ends, e))
  BY DEF IInv, Shapes, Agreed
<1>2. Other(d) \in Device /\ Other(d) # d /\ \A e \in Device : e = d \/ e = Other(d)
  BY TwoDevices
<1>3. wire[d] # <<>> => Tail(wire[d]) \in Seq(Frames(ends, d))
  BY <1>1, HeadTailProperties
<1>4. wire[Other(d)] \o events \in Seq(Frames(ends, Other(d)))
  BY <1>1, <1>2, ConcatProperties
<1>5. /\ wire' = [e \in Device |-> wire'[e]]
      /\ wire'[d] = wire[d] \/ (wire[d] # <<>> /\ wire'[d] = Tail(wire[d]))
      /\ wire'[Other(d)] \in {wire[Other(d)], wire[Other(d)] \o events}
  BY <1>1, <1>2 DEF Post, Take
<1> QED
  BY <1>1, <1>2, <1>3, <1>4, <1>5 DEF WiresGood

(* The invariant after a step, part by part. *)
LEMMA FollowUp ==
    ASSUME IInv, NEW ends \in Ends, WiresGood(ends), PeersInv',
           link' = [e \in Device |-> [x \in Life |-> link'[e][x]]],
           \A e \in Device, x \in Life : GoodLink(ends, e, life'[e], x, link'[e][x]),
           life' \in [Device -> Life], restarts' \in Nat,
           \A e \in Device : life'[e] <= restarts',
           listed' \in [Device -> BOOLEAN], known' \in [Device -> SUBSET Life],
           casting' \in [Device -> BOOLEAN], cut' \subseteq Handshake \X Device
    PROVE  IInv'
<1>1. Shapes'
  BY DEF Shapes, WiresGood
<1>2. Agreed(ends)'
  BY DEF Agreed, WiresGood
<1> QED
  BY <1>1, <1>2 DEF IInv

\* Nobody locks, unlocks, removes or casts.
Quiet == UNCHANGED <<life, restarts, listed, casting>>

(* A step that changes one transport of d, and whom d has authenticated. *)
LEMMA OneLinkStep ==
    ASSUME IInv, NEW ends \in Ends, Agreed(ends), NEW d \in Device, NEW r \in Life,
           NEW l, GoodLink(ends, d, life[d], r, l), link' = [link EXCEPT ![d][r] = l],
           WiresGood(ends), Quiet,
           known' \in [Device -> SUBSET Life], cut' \subseteq Handshake \X Device,
           \/ peers' = peers /\ (r \in peers[d] => l.pc \in PastHandshake)
           \/ peers' = [peers EXCEPT ![d] = {}]
           \/ peers' = [peers EXCEPT ![d] = {r}] /\ l.pc \in PastHandshake
    PROVE  IInv'
<1>1. /\ link' = [e \in Device |-> [x \in Life |-> link'[e][x]]]
      /\ \A e \in Device, x \in Life :
            /\ GoodLink(ends, e, life'[e], x, link'[e][x])
            /\ link'[e][x] = IF e = d /\ x = r THEN l ELSE link[e][x]
  <2>1. link = [e \in Device |-> [x \in Life |-> link[e][x]]]
    BY DEF IInv, Shapes
  <2>2. /\ link' = [e \in Device |-> [x \in Life |-> link'[e][x]]]
        /\ \A e \in Device, x \in Life : link'[e][x] = IF e = d /\ x = r THEN l ELSE link[e][x]
    BY <2>1
  <2>3. \A e \in Device, x \in Life : GoodLink(ends, e, life[e], x, link[e][x])
    BY DEF Agreed
  <2> QED
    BY <2>2, <2>3 DEF Quiet
<1>2. peers' \in [Device -> SUBSET Life]
  BY DEF IInv, PeersInv
<1>3. ASSUME NEW e \in Device, NEW x \in peers'[e]
      PROVE  peers'[e] = {x} /\ link'[e][x].pc \in PastHandshake
  <2>1. x \in Life
    BY <1>2
  <2>2. \A y \in peers[e] : peers[e] = {y} /\ link[e][y].pc \in PastHandshake
    BY DEF IInv, PeersInv
  <2>3. CASE e = d /\ peers' # peers
    <3>1. peers'[d] = {} \/ (peers'[d] = {r} /\ l.pc \in PastHandshake)
      BY <2>3 DEF IInv, PeersInv
    <3>2. x = r
      BY <1>3, <2>3, <3>1
    <3> QED
      BY <1>1, <1>3, <2>1, <2>3, <3>1, <3>2
  <2>4. CASE ~(e = d /\ peers' # peers)
    <3>1. peers'[e] = peers[e]
      BY <2>4 DEF IInv, PeersInv
    <3>2. e = d /\ x = r => l.pc \in PastHandshake
      <4> SUFFICES ASSUME e = d, x = r PROVE l.pc \in PastHandshake
        OBVIOUS
      <4>1. peers' = peers /\ r \in peers[d]
        BY <1>3, <2>4
      <4>2. peers[d] # {}
        BY <4>1
      <4> QED
        BY <4>1, <4>2 DEF IInv, PeersInv
    <3> QED
      BY <1>1, <1>3, <2>1, <2>2, <3>1, <3>2
  <2> QED
    BY <2>3, <2>4
<1>4. PeersInv'
  BY <1>2, <1>3 DEF PeersInv
<1>5. /\ life' \in [Device -> Life] /\ restarts' \in Nat
      /\ \A e \in Device : life'[e] <= restarts'
      /\ listed' \in [Device -> BOOLEAN] /\ casting' \in [Device -> BOOLEAN]
  BY DEF Quiet, IInv, Shapes
<1> QED
  BY <1>1, <1>4, <1>5, FollowUp

(* A step that leaves the transports and the authenticated peers as they are. *)
LEMMA NoLinkStep ==
    ASSUME IInv, NEW ends \in Ends, Agreed(ends), WiresGood(ends),
           UNCHANGED <<life, restarts, link, peers>>,
           listed' \in [Device -> BOOLEAN], casting' \in [Device -> BOOLEAN],
           known' \in [Device -> SUBSET Life], cut' \subseteq Handshake \X Device
    PROVE  IInv'
<1>1. PeersInv'
  BY DEF IInv, PeersInv
<1>2. /\ link' = [e \in Device |-> [x \in Life |-> link'[e][x]]]
      /\ \A e \in Device, x \in Life : GoodLink(ends, e, life'[e], x, link'[e][x])
  BY DEF IInv, Shapes, Agreed
<1>3. life' \in [Device -> Life] /\ restarts' \in Nat /\ \A e \in Device : life'[e] <= restarts'
  BY DEF IInv, Shapes
<1> QED
  BY <1>1, <1>2, <1>3, FollowUp

LEMMA WiresStay ==
    ASSUME IInv, NEW ends \in Ends, Agreed(ends), wire' = wire
    PROVE  WiresGood(ends)
BY DEF WiresGood, IInv, Shapes, Agreed

LEMMA OthersStay == IInv => /\ known \in [Device -> SUBSET Life]
                            /\ cut \subseteq Handshake \X Device
                            /\ listed \in [Device -> BOOLEAN]
                            /\ casting \in [Device -> BOOLEAN]
BY DEF IInv, Shapes

LEMMA GreetingIsSound ==
    ASSUME IInv, NEW ends, NEW d \in Device, NEW r \in Life
    PROVE  Greeting(d, r) \in Seq(Frames(ends, Other(d)))
<1>1. <<Frame("pub", d, r, 0)>> \in Seq(Frames(ends, Other(d)))
  BY FrameIsSound DEF Noise
<1> HIDE DEF Frame
<1> QED
  BY <1>1 DEF Greeting

LEMMA HeadIsSound ==
    ASSUME IInv, NEW ends \in Ends, Agreed(ends), NEW d \in Device, wire[d] # <<>>
    PROVE  /\ Head(wire[d]) \in Frames(ends, d) /\ Head(wire[d]) \in Event
           /\ Head(wire[d]).from \in Life
<1>1. wire[d] \in Seq(Frames(ends, d))
  BY DEF Agreed
<1>2. Head(wire[d]) \in Frames(ends, d)
  BY <1>1, HeadTailProperties
<1> QED
  BY <1>2 DEF Frames, Event

LEMMA HearHelloKeeps ==
    ASSUME IInv, NEW d \in Device, HearHello(d)
    PROVE  IInv'
<1> DEFINE r == Head(wire[d]).from
<1>1. PICK ends \in Ends : Agreed(ends)
  BY DEF IInv
<1>2. r \in Life /\ wire[d] # <<>>
  BY <1>1, HeadIsSound DEF HearHello, Arrived
<1> HIDE DEF r
<1>3. CASE r \in known[d]
  <2>1. /\ wire' = Take(d)
        /\ UNCHANGED <<known, link, life, listed, peers, casting, cut, restarts>>
    BY <1>3 DEF HearHello, counters, r
  <2>2. <<>> \in Seq(Frames(ends, Other(d)))
    OBVIOUS
  <2>3. WiresGood(ends)
    BY <1>1, <1>2, <2>1, <2>2, WiresKept
  <2> QED
    BY <1>1, <2>1, <2>3, NoLinkStep, OthersStay
<1>4. CASE r \notin known[d]
  <2> DEFINE l == Opened(link[d][r], <<>>)
             hello == <<Frame("hello", d, 0, 0)>>
  <2>1. /\ known' = [known EXCEPT ![d] = @ \cup {r}]
        /\ link' = [link EXCEPT ![d][r] = l]
        /\ wire' = [Take(d) EXCEPT ![Other(d)] = @ \o hello \o Greeting(d, r)]
        /\ UNCHANGED <<life, listed, peers, casting, cut, restarts>>
    BY <1>4 DEF HearHello, counters, r
  <2>2. /\ GoodLink(ends, d, life[d], r, l)
        /\ Keeps(link[d][r], l)
    <3>1. GoodLink(ends, d, life[d], r, link[d][r])
      BY <1>1, <1>2 DEF Agreed
    <3> DEFINE nil == <<>>
    <3>2. nil \in Seq(FramesFrom(ends, d, life[d], r))
      OBVIOUS
    <3> HIDE DEF nil
    <3>3. /\ GoodLink(ends, d, life[d], r, Opened(link[d][r], nil))
          /\ Keeps(link[d][r], Opened(link[d][r], nil))
      BY <3>1, <3>2, OpenedIsGood, Zenon
    <3> QED
      BY <3>3 DEF nil
  <2>3. hello \in Seq(Frames(ends, Other(d)))
    <3>1. 0 \in Life
      BY RestartsAssumption DEF Life
    <3> QED
      BY <3>1, FrameIsSound DEF Noise
  <2> HIDE DEF l, hello
  <2>4. WiresGood(ends)
    <3> DEFINE S == Frames(ends, Other(d))
    <3>1. wire[Other(d)] \in Seq(S) /\ Greeting(d, r) \in Seq(S)
      BY <1>1, <1>2, TwoDevices, GreetingIsSound DEF Agreed
    <3>2. wire[Other(d)] \o hello \in Seq(S)
      BY <2>3, <3>1, ConcatProperties
    <3>3. wire[Other(d)] \o hello \o Greeting(d, r) \in Seq(S)
      BY <3>1, <3>2, ConcatProperties
    <3>4. Tail(wire[d]) \in Seq(Frames(ends, d))
      BY <1>1, <1>2, HeadTailProperties DEF Agreed
    <3>5. wire = [e \in Device |-> wire[e]]
      BY DEF IInv, Shapes
    <3>6. /\ wire' = [e \in Device |-> wire'[e]]
          /\ wire'[d] = Tail(wire[d])
          /\ wire'[Other(d)] = wire[Other(d)] \o hello \o Greeting(d, r)
      BY <2>1, <3>5, TwoDevices DEF Take
    <3> QED
      BY <3>3, <3>4, <3>6, TwoDevices DEF WiresGood
  <2>5. known' \in [Device -> SUBSET Life]
    BY <1>2, <2>1, OthersStay
  <2>6. r \in peers[d] => l.pc \in PastHandshake
    BY <2>2 DEF IInv, PeersInv, PastHandshake, Keeps
  <2> QED
    BY <1>1, <1>2, <2>1, <2>2, <2>4, <2>5, <2>6, OneLinkStep, OthersStay DEF Quiet
<1> QED
  BY <1>3, <1>4

LEMMA HearFrameKeeps ==
    ASSUME IInv, NEW d \in Device, HearFrame(d)
    PROVE  IInv'
<1> DEFINE m == Head(wire[d])
<1>1. PICK ends \in Ends : Agreed(ends)
  BY DEF IInv
<1>2. wire[d] # <<>> /\ m \in Frames(ends, d) /\ m \in Event /\ m.from \in Life
  BY <1>1, HeadIsSound DEF HearFrame, Arrived
<1>3. UNCHANGED <<life, listed, known, peers, casting, cut, restarts>>
  BY DEF HearFrame, counters
<1>4. CASE m.to # life[d]
  <2>1. wire' = Take(d) /\ UNCHANGED link
    BY <1>4 DEF HearFrame
  <2>2. <<>> \in Seq(Frames(ends, Other(d)))
    OBVIOUS
  <2>3. WiresGood(ends)
    BY <1>1, <1>2, <2>1, <2>2, WiresKept
  <2> QED
    BY <1>1, <1>3, <2>1, <2>3, NoLinkStep, OthersStay
<1>5. CASE m.to = life[d]
  <2> DEFINE x == m.from
             events == <<[m EXCEPT !.intact = <<m.hs, d>> \notin cut]>>
             l == Opened(link[d][x], events)
  <2>1. /\ link' = [link EXCEPT ![d][x] = l]
        /\ wire' = [Take(d) EXCEPT ![Other(d)] = @ \o Greeting(d, x)]
    BY <1>5 DEF HearFrame
  <2>2. events \in Seq(FramesFrom(ends, d, life[d], x))
    <3> DEFINE m2 == [m EXCEPT !.intact = <<m.hs, d>> \notin cut]
    <3>1. /\ m2 \in Event /\ m2.kind = m.kind /\ m2.hs = m.hs
          /\ m2.from = m.from /\ m2.to = m.to
      BY <1>2 DEF Event
    <3> HIDE DEF m2
    <3>2. m2 \in FramesFrom(ends, d, life[d], x)
      BY <1>2, <1>5, <3>1 DEF FramesFrom, Frames
    <3> QED
      BY <3>2 DEF m2
  <2> HIDE DEF events
  <2>3. GoodLink(ends, d, life[d], x, link[d][x]) /\ x \in Life
    BY <1>1, <1>2 DEF Agreed
  <2> HIDE DEF m, x
  <2>4. GoodLink(ends, d, life[d], x, l) /\ Keeps(link[d][x], l)
    BY <2>2, <2>3, OpenedIsGood, Zenon
  <2> HIDE DEF l
  <2>5. Greeting(d, x) \in Seq(Frames(ends, Other(d)))
    BY <2>3, GreetingIsSound
  <2>6. WiresGood(ends)
    BY <1>1, <1>2, <2>1, <2>5, WiresKept
  <2>7. x \in peers[d] => l.pc \in PastHandshake
    BY <2>4 DEF IInv, PeersInv, PastHandshake, Keeps
  <2> QED
    BY <1>1, <1>3, <2>1, <2>3, <2>4, <2>6, <2>7, OneLinkStep, OthersStay DEF Quiet
<1> QED
  BY <1>4, <1>5

LEMMA LoseKeeps ==
    ASSUME IInv, NEW d \in Device, Lose(d)
    PROVE  IInv'
<1>1. PICK ends \in Ends : Agreed(ends)
  BY DEF IInv
<1>2. wire[d] # <<>> /\ Head(wire[d]) \in Frames(ends, d) /\ Head(wire[d]) \in Event
  BY <1>1, HeadIsSound DEF Lose, Arrived
<1>3. wire' = Take(d) /\ UNCHANGED <<life, restarts, link, peers, listed, known, casting>>
  BY DEF Lose
<1>4. <<>> \in Seq(Frames(ends, Other(d)))
  OBVIOUS
<1>5. WiresGood(ends)
  BY <1>1, <1>2, <1>3, <1>4, WiresKept
<1>6. cut' \subseteq Handshake \X Device
  <2>1. Head(wire[d]).kind = "envelope" => Head(wire[d]).hs \in Handshake
    BY <1>2 DEF Frames, Event, Noise
  <2> QED
    BY <2>1, OthersStay DEF Lose
<1> QED
  BY <1>1, <1>3, <1>5, <1>6, NoLinkStep, OthersStay

-----------------------------------------------------------------------------
(* syncPeer. *)

(* What a transport goes on with. *)
LEMMA HeadOfQueue ==
    ASSUME NEW ends, NEW e, NEW own, NEW x, NEW l, GoodLink(ends, e, own, x, l), l.queue # <<>>
    PROVE  /\ Head(l.queue) \in FramesFrom(ends, e, own, x) /\ Head(l.queue) \in Event
           /\ Tail(l.queue) \in Seq(FramesFrom(ends, e, own, x)) /\ Tail(l.queue) \in Seq(Event)
<1>1. /\ Head(l.queue) \in FramesFrom(ends, e, own, x)
      /\ Tail(l.queue) \in Seq(FramesFrom(ends, e, own, x))
  BY HeadTailProperties DEF GoodLink
<1> QED
  BY <1>1, FramesAreEvents DEF FramesFrom, Frames

LEMMA MovedIsGood ==
    ASSUME NEW ends, NEW e, NEW own, NEW x,
           NEW pc \in {"none", "pub", "message", "send", "receive", "dead"},
           NEW h \in Handshake \cup {0}, NEW q \in Seq(FramesFrom(ends, e, own, x)),
           h # 0 => ends[h][e] = own /\ ends[h][Other(e)] = x,
           pc \in PastHandshake => h # 0
    PROVE  GoodLink(ends, e, own, x, [pc |-> pc, hs |-> h, queue |-> q])
<1>1. q \in Seq(Event)
  BY FramesAreEvents
<1> DEFINE l == [pc |-> pc, hs |-> h, queue |-> q]
<1>2. l \in LinkType /\ l.pc = pc /\ l.hs = h /\ l.queue = q
  BY <1>1 DEF LinkType
<1> HIDE DEF l
<1>3. GoodLink(ends, e, own, x, l)
  BY <1>2 DEF GoodLink
<1> QED
  BY <1>3 DEF l

(* A transport is closed whose peer is not authenticated, or nobody is. *)
LEMMA CloseKeeps ==
    ASSUME IInv, NEW ends \in Ends, Agreed(ends), NEW d \in Device, NEW r \in Life, Close(d, r),
           WiresGood(ends), Quiet, cut' = cut,
           \/ peers' = peers /\ link[d][r].pc \notin PastHandshake
           \/ peers' = [peers EXCEPT ![d] = {}]
    PROVE  IInv'
<1>1. GoodLink(ends, d, life[d], r, NoLink)
  BY NoLinkIsGood
<1>2. link' = [link EXCEPT ![d][r] = NoLink] /\ known' \in [Device -> SUBSET Life]
  BY OthersStay DEF Close
<1>3. cut' \subseteq Handshake \X Device
  BY OthersStay
<1>4. link[d][r].pc \notin PastHandshake => r \notin peers[d]
  BY DEF IInv, PeersInv
<1> HIDE DEF NoLink
<1> QED
  BY <1>1, <1>2, <1>3, <1>4, OneLinkStep

(* A session that nothing is of yet may have any ends. *)
LEMMA EndsOfFresh ==
    ASSUME NEW ends, NEW ends2, NEW e, NEW h,
           \A g \in Handshake : g # h => ends2[g] = ends[g],
           NEW s \in Seq(Frames(ends, e)), \A i \in DOMAIN s : s[i].hs # h
    PROVE  s \in Seq(Frames(ends2, e))
<1>1. ASSUME NEW i \in 1..Len(s)
      PROVE  s[i] \in Frames(ends2, e)
  <2>1. s[i] \in Frames(ends, e) /\ s[i].hs # h
    BY ElementOfSeq
  <2>2. s[i].hs # 0 => s[i].hs \in Handshake
    BY <2>1 DEF Frames, Event
  <2>3. s[i].hs # 0 => ends2[s[i].hs] = ends[s[i].hs]
    BY <2>1, <2>2
  <2> QED
    BY <2>1, <2>3 DEF Frames
<1>2. s = [i \in 1..Len(s) |-> s[i]] /\ Len(s) \in Nat
  OBVIOUS
<1> QED
  BY <1>1, <1>2

LEMMA EndsOfFreshFrom ==
    ASSUME NEW ends, NEW ends2, NEW e, NEW h, NEW own, NEW x,
           \A g \in Handshake : g # h => ends2[g] = ends[g],
           NEW s \in Seq(FramesFrom(ends, e, own, x)), \A i \in DOMAIN s : s[i].hs # h
    PROVE  s \in Seq(FramesFrom(ends2, e, own, x))
<1>1. s \in Seq(Frames(ends, e))
  BY FramesAreEvents
<1>2. s \in Seq(Frames(ends2, e))
  BY <1>1, EndsOfFresh
<1>3. ASSUME NEW i \in 1..Len(s)
      PROVE  s[i] \in FramesFrom(ends2, e, own, x)
  <2>1. s[i] \in FramesFrom(ends, e, own, x) /\ s[i] \in Frames(ends2, e)
    BY <1>2, ElementOfSeq
  <2> QED
    BY <2>1 DEF FramesFrom
<1>4. s = [i \in 1..Len(s) |-> s[i]] /\ Len(s) \in Nat
  OBVIOUS
<1> QED
  BY <1>3, <1>4

LEMMA FreshAgreed ==
    ASSUME IInv, NEW ends \in Ends, Agreed(ends), NEW h \in Handshake, Fresh(h),
           NEW ends2, \A g \in Handshake : g # h => ends2[g] = ends[g]
    PROVE  Agreed(ends2)
<1> SUFFICES ASSUME NEW e \in Device
             PROVE  /\ wire[e] \in Seq(Frames(ends2, e))
                    /\ \A x \in Life : GoodLink(ends2, e, life[e], x, link[e][x])
  BY DEF Agreed
<1>1. wire[e] \in Seq(Frames(ends2, e))
  <2>1. wire[e] \in Seq(Frames(ends, e)) /\ \A i \in DOMAIN wire[e] : wire[e][i].hs # h
    BY DEF Agreed, Fresh
  <2> QED
    BY <2>1, EndsOfFresh
<1>2. ASSUME NEW x \in Life
      PROVE  GoodLink(ends2, e, life[e], x, link[e][x])
  <2> DEFINE l == link[e][x]
  <2>1. GoodLink(ends, e, life[e], x, l)
    BY DEF Agreed
  <2>2. l.hs # h /\ \A i \in DOMAIN l.queue : l.queue[i].hs # h
    BY DEF Fresh
  <2>3. l.queue \in Seq(FramesFrom(ends2, e, life[e], x))
    <3> DEFINE s == l.queue
    <3>1. s \in Seq(FramesFrom(ends, e, life[e], x)) /\ \A i \in DOMAIN s : s[i].hs # h
      BY <2>1, <2>2 DEF GoodLink
    <3> HIDE DEF s
    <3>2. s \in Seq(FramesFrom(ends2, e, life[e], x))
      BY <3>1, EndsOfFreshFrom
    <3> QED
      BY <3>2 DEF s
  <2>4. l.hs # 0 => l.hs \in Handshake
    BY <2>1 DEF GoodLink, LinkType
  <2> HIDE DEF l
  <2>5. GoodLink(ends2, e, life[e], x, l)
    BY <2>1, <2>2, <2>3, <2>4 DEF GoodLink
  <2> QED
    BY <2>5 DEF l
<1> QED
  BY <1>1, <1>2

LEMMA BeginKeeps ==
    ASSUME IInv, NEW d \in Device, NEW r \in Life, Waiting(d, r, "pub"), Begin(d, r),
           Quiet, UNCHANGED <<known, peers>>
    PROVE  IInv'
<1> DEFINE q == Tail(link[d][r].queue)
<1>1. PICK ends \in Ends : Agreed(ends)
  BY DEF IInv
<1>2. r \notin peers[d]
  BY DEF IInv, PeersInv, Waiting, PastHandshake
<1>3. CASE ~(d < Other(d))
  <2>1. GoodLink(ends, d, life[d], r, link[d][r]) /\ link[d][r].queue # <<>>
    BY <1>1 DEF Agreed, Waiting
  <2>2. q \in Seq(FramesFrom(ends, d, life[d], r))
    BY <2>1, HeadOfQueue
  <2> HIDE DEF q
  <2> DEFINE l == [pc |-> "message", hs |-> 0, queue |-> q]
  <2>3. GoodLink(ends, d, life[d], r, l)
    BY <2>2, MovedIsGood DEF PastHandshake
  <2>4. link' = [link EXCEPT ![d][r] = l] /\ wire' = wire /\ cut' = cut
    BY <1>3 DEF Begin, Into, q
  <2> HIDE DEF l
  <2>5. WiresGood(ends)
    BY <1>1, <2>4, WiresStay
  <2> QED
    BY <1>1, <1>2, <2>3, <2>4, <2>5, OneLinkStep, OthersStay
<1>4. CASE d < Other(d)
  <2> DEFINE h == CHOOSE h \in Handshake : Fresh(h)
  <2>1. h \in Handshake /\ Fresh(h) /\ h # 0
    BY <1>4, HandshakeAssumption DEF Begin
  <2> DEFINE l == [pc |-> "message", hs |-> h, queue |-> q]
             first == <<Frame("first", d, r, h)>>
  <2>2. link' = [link EXCEPT ![d][r] = l] /\ Post(d, first) /\ cut' \subseteq cut
    BY <1>4 DEF Begin, Into
  <2> HIDE DEF h, first
  <2> DEFINE ends2 == [ends EXCEPT ![h] = [e \in Device |-> IF e = d THEN life[d] ELSE r]]
  <2>3. /\ ends2 \in Ends
        /\ \A g \in Handshake : g # h => ends2[g] = ends[g]
        /\ ends2[h][d] = life[d] /\ ends2[h][Other(d)] = r
    BY <2>1, TwoDevices DEF Ends, IInv, Shapes
  <2> HIDE DEF ends2
  <2>4. Agreed(ends2)
    BY <1>1, <2>1, <2>3, FreshAgreed
  <2>5. GoodLink(ends2, d, life[d], r, link[d][r]) /\ link[d][r].queue # <<>>
    BY <2>4 DEF Agreed, Waiting
  <2>6. q \in Seq(FramesFrom(ends2, d, life[d], r))
    BY <2>5, HeadOfQueue
  <2> HIDE DEF q
  <2>7. GoodLink(ends2, d, life[d], r, l)
    BY <2>1, <2>3, <2>6, MovedIsGood
  <2> HIDE DEF l
  <2>8. first \in Seq(Frames(ends2, Other(d)))
    BY <2>1, <2>3, FrameIsSound DEF Noise, first
  <2>9. WiresGood(ends2)
    BY <2>2, <2>3, <2>4, <2>8, WiresKept
  <2>10. cut' \subseteq Handshake \X Device /\ known' \in [Device -> SUBSET Life]
    BY <2>2, OthersStay
  <2> QED
    BY <1>2, <2>2, <2>3, <2>4, <2>7, <2>9, <2>10, OneLinkStep
<1> QED
  BY <1>3, <1>4

LEMMA RecvPubKeeps ==
    ASSUME IInv, NEW d \in Device, NEW r \in Life, RecvPub(d, r)
    PROVE  IInv'
<1>1. Waiting(d, r, "pub") /\ Quiet /\ peers' = peers
  BY DEF RecvPub, Quiet, counters
<1>2. CASE Begin(d, r) /\ UNCHANGED known
  BY <1>1, <1>2, BeginKeeps
<1>3. CASE Close(d, r) /\ UNCHANGED <<wire, cut>>
  <2>1. PICK ends \in Ends : Agreed(ends)
    BY DEF IInv
  <2>2. WiresGood(ends)
    BY <1>3, <2>1, WiresStay
  <2>3. link[d][r].pc \notin PastHandshake
    BY <1>1 DEF Waiting, PastHandshake
  <2> QED
    BY <1>1, <1>3, <2>1, <2>2, <2>3, CloseKeeps
<1> QED
  BY <1>2, <1>3 DEF RecvPub

LEMMA RecvMessageKeeps ==
    ASSUME IInv, NEW d \in Device, NEW r \in Life, RecvMessage(d, r)
    PROVE  IInv'
<1> DEFINE m == Next1(d, r)
           done == /\ m.kind = (IF d < Other(d) THEN "second" ELSE "first")
                   /\ d < Other(d) => m.hs = link[d][r].hs
<1>1. PICK ends \in Ends : Agreed(ends)
  BY DEF IInv
<1>2. Waiting(d, r, "message") /\ Quiet /\ cut' = cut
  BY DEF RecvMessage, Quiet, counters
<1>3. CASE ~done
  <2>1. Close(d, r) /\ UNCHANGED <<peers, wire>>
    BY <1>3 DEF RecvMessage
  <2>2. WiresGood(ends)
    BY <1>1, <2>1, WiresStay
  <2>3. link[d][r].pc \notin PastHandshake
    BY <1>2 DEF Waiting, PastHandshake
  <2> QED
    BY <1>1, <1>2, <2>1, <2>2, <2>3, CloseKeeps
<1>4. CASE done
  <2> DEFINE q == Tail(link[d][r].queue)
             l == [pc |-> "send", hs |-> m.hs, queue |-> q]
             second == <<Frame("second", d, r, m.hs)>>
  <2>1. /\ link' = [link EXCEPT ![d][r] = l] /\ peers' = [peers EXCEPT ![d] = {r}]
        /\ wire' = wire \/ Post(d, second)
        /\ known' = known
    BY <1>4 DEF RecvMessage, Into
  <2>2. GoodLink(ends, d, life[d], r, link[d][r]) /\ link[d][r].queue # <<>>
    BY <1>1, <1>2 DEF Agreed, Waiting
  <2>3. /\ m \in FramesFrom(ends, d, life[d], r) /\ m \in Event
        /\ q \in Seq(FramesFrom(ends, d, life[d], r))
    BY <2>2, HeadOfQueue DEF Next1
  <2>4. /\ m.hs \in Handshake /\ m.hs # 0
        /\ ends[m.hs][d] = life[d] /\ ends[m.hs][Other(d)] = r
    BY <1>4, <2>3 DEF FramesFrom, Frames, Noise, Event
  <2> HIDE DEF m, q
  <2>5. GoodLink(ends, d, life[d], r, l)
    BY <2>3, <2>4, MovedIsGood
  <2>6. l.pc \in PastHandshake
    BY DEF PastHandshake
  <2> HIDE DEF l
  <2>7. second \in Seq(Frames(ends, Other(d)))
    BY <2>4, FrameIsSound
  <2> HIDE DEF second
  <2>8. WiresGood(ends)
    BY <1>1, <2>1, <2>7, WiresKept, WiresStay
  <2> QED
    BY <1>1, <1>2, <2>1, <2>5, <2>6, <2>8, OneLinkStep, OthersStay
<1> QED
  BY <1>3, <1>4

(* A first envelope that is still to be sent is of the session of its transport. *)
LEMMA FirstIsSound ==
    ASSUME IInv, NEW ends, Agreed(ends), NEW d \in Device, NEW r \in Life
    PROVE  First(d, r) \in Seq(Frames(ends, Other(d)))
<1>1. CASE link[d][r].pc = "send"
  <2> DEFINE h == link[d][r].hs
             events == <<Frame("envelope", d, r, h)>>
  <2>1. h \in Handshake /\ h # 0 /\ ends[h][d] = life[d] /\ ends[h][Other(d)] = r
    BY <1>1 DEF Agreed, GoodLink, LinkType, PastHandshake
  <2>2. First(d, r) = events
    BY <1>1 DEF First
  <2> HIDE DEF h
  <2> QED
    BY <2>1, <2>2, FrameIsSound
<1>2. CASE link[d][r].pc # "send"
  BY <1>2 DEF First
<1> QED
  BY <1>1, <1>2

LEMMA SendFirstKeeps ==
    ASSUME IInv, NEW d \in Device, NEW r \in Life, SendFirst(d, r)
    PROVE  IInv'
<1> DEFINE l0 == link[d][r]
           l  == [l0 EXCEPT !.pc = "receive"]
<1>1. PICK ends \in Ends : Agreed(ends)
  BY DEF IInv
<1>2. /\ link' = [link EXCEPT ![d][r] = l] /\ Post(d, First(d, r))
      /\ Quiet /\ UNCHANGED <<cut, known, peers>> /\ l0.pc = "send"
  BY DEF SendFirst, Quiet, counters
<1>3. GoodLink(ends, d, life[d], r, l0)
  BY <1>1 DEF Agreed
<1> HIDE DEF l0
<1>4. /\ l0 \in LinkType /\ l0.hs # 0 /\ l0.hs \in Handshake
      /\ ends[l0.hs][d] = life[d] /\ ends[l0.hs][Other(d)] = r
  BY <1>2, <1>3 DEF GoodLink, PastHandshake, LinkType
<1>5. l \in LinkType /\ l.pc = "receive" /\ l.hs = l0.hs /\ l.queue = l0.queue
  BY <1>4 DEF LinkType
<1> HIDE DEF l
<1>6. GoodLink(ends, d, life[d], r, l)
  BY <1>3, <1>4, <1>5 DEF GoodLink
<1>7. l.pc \in PastHandshake
  BY <1>5 DEF PastHandshake
<1>8. First(d, r) \in Seq(Frames(ends, Other(d)))
  BY <1>1, FirstIsSound
<1>9. WiresGood(ends)
  BY <1>1, <1>2, <1>8, WiresKept
<1> QED
  BY <1>1, <1>2, <1>6, <1>7, <1>9, OneLinkStep, OthersStay

LEMMA RecvEnvelopeKeeps ==
    ASSUME IInv, NEW d \in Device, NEW r \in Life, RecvEnvelope(d, r)
    PROVE  IInv'
<1> DEFINE m == Next1(d, r)
           l0 == link[d][r]
           unread == m.kind # "envelope" \/ m.hs # l0.hs \/ ~m.intact
<1>1. PICK ends \in Ends : Agreed(ends)
  BY DEF IInv
<1>2. /\ l0.pc = "receive" /\ l0.queue # <<>> /\ m = Head(l0.queue)
      /\ Quiet /\ UNCHANGED <<cut, wire>>
  BY DEF RecvEnvelope, Waiting, Quiet, counters, Next1
<1>3. WiresGood(ends)
  BY <1>1, <1>2, WiresStay
<1>4. GoodLink(ends, d, life[d], r, l0)
  BY <1>1 DEF Agreed
<1>5. CASE unread
  <2> DEFINE l == [l0 EXCEPT !.pc = "dead", !.queue = <<>>]
  <2>1. /\ link' = [link EXCEPT ![d][r].pc = "dead", ![d][r].queue = <<>>]
        /\ UNCHANGED <<known, peers>>
    BY <1>5 DEF RecvEnvelope
  <2>2. link' = [link EXCEPT ![d][r] = l]
    <3>1. link = [e \in Device |-> [x \in Life |-> link[e][x]]] /\ l0 \in LinkType
      BY <1>4 DEF IInv, Shapes, GoodLink
    <3> QED
      BY <2>1, <3>1
  <2> HIDE DEF l0, m
  <2>3. /\ l \in LinkType /\ l.pc = "dead" /\ l.hs = l0.hs /\ l.queue = <<>>
    <3>1. <<>> \in Seq(Event) /\ l0 \in LinkType
      BY <1>4 DEF GoodLink
    <3> QED
      BY <3>1 DEF LinkType
  <2> HIDE DEF l
  <2>4. l.queue \in Seq(FramesFrom(ends, d, life[d], r))
    BY <2>3
  <2>5. GoodLink(ends, d, life[d], r, l) /\ l.pc \in PastHandshake
    BY <1>2, <1>4, <2>3, <2>4 DEF GoodLink, PastHandshake
  <2> QED
    BY <1>1, <1>2, <1>3, <2>1, <2>2, <2>5, OneLinkStep, OthersStay
<1>6. CASE ~unread /\ listed[d]
  <2> DEFINE q == Tail(l0.queue)
             l == [pc |-> "receive", hs |-> m.hs, queue |-> q]
  <2>1. link' = [link EXCEPT ![d][r] = l] /\ UNCHANGED <<known, peers>>
    BY <1>6 DEF RecvEnvelope, Into
  <2>2. /\ m \in FramesFrom(ends, d, life[d], r) /\ m \in Event
        /\ q \in Seq(FramesFrom(ends, d, life[d], r))
    BY <1>2, <1>4, HeadOfQueue
  <2>3. /\ m.hs \in Handshake /\ m.hs # 0
        /\ ends[m.hs][d] = life[d] /\ ends[m.hs][Other(d)] = r
    BY <1>6, <2>2 DEF FramesFrom, Frames, Noise, Event
  <2> HIDE DEF m, q
  <2>4. GoodLink(ends, d, life[d], r, l)
    BY <2>2, <2>3, MovedIsGood
  <2>5. l.pc \in PastHandshake
    BY DEF PastHandshake
  <2> HIDE DEF l
  <2> QED
    BY <1>1, <1>2, <1>3, <2>1, <2>4, <2>5, OneLinkStep, OthersStay
<1>7. CASE ~unread /\ ~listed[d]
  <2>1. Close(d, r) /\ peers' = [peers EXCEPT ![d] = {}]
    BY <1>7 DEF RecvEnvelope
  <2> QED
    BY <1>1, <1>2, <1>3, <2>1, CloseKeeps
<1> QED
  BY <1>5, <1>6, <1>7

-----------------------------------------------------------------------------
(* The timers, the broadcast, lock and unlock, a removal. *)

LEMMA GiveUpKeeps ==
    ASSUME IInv, NEW d \in Device, GiveUp(d)
    PROVE  IInv'
<1>1. PICK ends \in Ends : Agreed(ends)
  BY DEF IInv
<1>2. CASE ReapStale(d)
  <2>1. PICK r \in peers[d] : Close(d, r)
    BY <1>2 DEF ReapStale
  <2>2. Quiet /\ UNCHANGED <<wire, cut>> /\ peers' = [peers EXCEPT ![d] = {}]
    BY <1>2 DEF ReapStale, Quiet, counters
  <2>3. r \in Life
    BY DEF IInv, PeersInv
  <2>4. WiresGood(ends)
    BY <1>1, <2>2, WiresStay
  <2> QED
    BY <1>1, <2>1, <2>2, <2>3, <2>4, CloseKeeps
<1>3. ASSUME NEW r \in Life, TimeOut(d, r)
      PROVE  IInv'
  <2>1. /\ Quiet /\ UNCHANGED <<wire, cut, peers>> /\ Close(d, r)
        /\ link[d][r].pc \notin PastHandshake
    BY <1>3 DEF TimeOut, TimedOut, Quiet, counters, PastHandshake
  <2>2. WiresGood(ends)
    BY <1>1, <2>1, WiresStay
  <2> QED
    BY <1>1, <2>1, <2>2, CloseKeeps
<1> QED
  BY <1>2, <1>3 DEF GiveUp

LEMMA AnnounceKeeps ==
    ASSUME IInv, NEW d \in Device, Announce(d)
    PROVE  IInv'
<1> DEFINE hello == <<Frame("hello", d, 0, 0)>>
<1>1. PICK ends \in Ends : Agreed(ends)
  BY DEF IInv
<1>2. /\ known' = [known EXCEPT ![d] = Prune(d)] /\ Post(d, hello)
      /\ UNCHANGED <<life, restarts, listed, link, peers, casting, cut>>
  BY DEF Announce, counters
<1>3. hello \in Seq(Frames(ends, Other(d)))
  <2>1. 0 \in Life
    BY RestartsAssumption DEF Life
  <2> QED
    BY <2>1, FrameIsSound DEF Noise
<1> HIDE DEF hello
<1>4. WiresGood(ends)
  BY <1>1, <1>2, <1>3, WiresKept
<1>5. known' \in [Device -> SUBSET Life]
  BY <1>2, OthersStay DEF Prune
<1> QED
  BY <1>1, <1>2, <1>4, <1>5, NoLinkStep, OthersStay

LEMMA BroadcastKeeps ==
    ASSUME IInv, NEW d \in Device, Broadcast(d)
    PROVE  IInv'
<1>1. PICK ends \in Ends : Agreed(ends)
  BY DEF IInv
<1>2. UNCHANGED <<life, restarts, listed, cut>>
  BY DEF Broadcast, counters
<1>4. CASE listed[d]
  <2>1. casting' = [casting EXCEPT ![d] = TRUE] /\ UNCHANGED <<known, link, peers, wire>>
    BY <1>4 DEF Broadcast
  <2>2. casting' \in [Device -> BOOLEAN]
    BY <2>1, OthersStay
  <2>3. WiresGood(ends)
    BY <1>1, <2>1, WiresStay
  <2> QED
    BY <1>1, <1>2, <2>1, <2>2, <2>3, NoLinkStep, OthersStay
<1>5. CASE ~listed[d]
  <2>1. PICK r \in peers[d] : Close(d, r) /\ Post(d, First(d, r))
    BY <1>5 DEF Broadcast
  <2>2. peers' = [peers EXCEPT ![d] = {}] /\ casting' = casting
    BY <1>5 DEF Broadcast
  <2>3. r \in Life
    BY DEF IInv, PeersInv
  <2>4. WiresGood(ends)
    BY <1>1, <2>1, <2>3, FirstIsSound, WiresKept
  <2> QED
    BY <1>1, <1>2, <2>1, <2>2, <2>3, <2>4, CloseKeeps DEF Quiet
<1> QED
  BY <1>4, <1>5

LEMMA BroadcastSendKeeps ==
    ASSUME IInv, NEW d \in Device, BroadcastSend(d)
    PROVE  IInv'
<1>1. PICK ends \in Ends : Agreed(ends)
  BY DEF IInv
<1>2. /\ casting' = [casting EXCEPT ![d] = FALSE]
      /\ UNCHANGED <<life, restarts, listed, known, link, peers, cut>>
  BY DEF BroadcastSend, counters
<1>3. WiresGood(ends)
  <2>1. CASE wire' = wire
    BY <1>1, <2>1, WiresStay
  <2>2. CASE wire' # wire
    <3>1. PICK r \in peers[d] : Post(d, <<Frame("envelope", d, r, link[d][r].hs)>>)
      BY <2>2 DEF BroadcastSend
    <3> DEFINE h == link[d][r].hs
               events == <<Frame("envelope", d, r, h)>>
    <3>2. r \in Life /\ link[d][r].pc \in PastHandshake
      BY DEF IInv, PeersInv
    <3>3. h \in Handshake /\ h # 0 /\ ends[h][d] = life[d] /\ ends[h][Other(d)] = r
      BY <1>1, <3>2 DEF Agreed, GoodLink, LinkType
    <3>4. Post(d, events)
      BY <3>1
    <3> HIDE DEF h
    <3>5. events \in Seq(Frames(ends, Other(d)))
      BY <3>2, <3>3, FrameIsSound
    <3> HIDE DEF events
    <3> QED
      BY <1>1, <3>4, <3>5, WiresKept
  <2> QED
    BY <2>1, <2>2
<1>4. casting' \in [Device -> BOOLEAN]
  BY <1>2, OthersStay
<1> QED
  BY <1>1, <1>2, <1>3, <1>4, NoLinkStep, OthersStay

LEMMA RestartKeeps ==
    ASSUME IInv, NEW d \in Device, Restart(d)
    PROVE  IInv'
<1> DEFINE hello == [kind |-> "hello", from |-> life[d] + 1, to |-> 0, hs |-> 0,
                     intact |-> TRUE]
<1>1. PICK ends \in Ends : Agreed(ends)
  BY DEF IInv
<1>2. /\ life \in [Device -> Life] /\ restarts \in Nat /\ \A e \in Device : life[e] <= restarts
      /\ link = [e \in Device |-> [x \in Life |-> link[e][x]]]
  BY DEF IInv, Shapes
<1>3. /\ life[d] + 1 \in Life /\ 0 \in Life /\ life' \in [Device -> Life]
      /\ life'[d] = life[d] + 1 /\ \A e \in Device : e # d => life'[e] = life[e]
      /\ restarts' \in Nat /\ \A e \in Device : life'[e] <= restarts'
  <2>1. life[d] \in 0..MaxRestarts /\ life[d] + 1 <= MaxRestarts /\ life[d] + 1 \in Nat
    BY <1>2, RestartsAssumption DEF Restart, Life
  <2>2. life[d] + 1 \in Life /\ 0 \in Life
    BY <2>1, RestartsAssumption DEF Life
  <2>3. \A e \in Device : life[e] \in Nat
    <3>1. \A x \in Life : x \in Nat
      BY RestartsAssumption DEF Life
    <3> QED
      BY <1>2, <3>1
  <2> QED
    BY <1>2, <2>2, <2>3 DEF Restart
<1>4. Post(d, <<hello>>)
  BY <1>3 DEF Restart, Hello
<1>5. <<hello>> \in Seq(Frames(ends, Other(d)))
  <2>1. hello \in Event /\ hello.kind = "hello" /\ hello.hs = 0
    BY <1>3 DEF Event
  <2> HIDE DEF hello
  <2>2. hello \in Frames(ends, Other(d))
    BY <2>1 DEF Frames, Noise
  <2> QED
    BY <2>2
<1> HIDE DEF hello
<1>6. WiresGood(ends)
  BY <1>1, <1>4, <1>5, WiresKept
<1>7. /\ link' = [e \in Device |-> [x \in Life |-> link'[e][x]]]
      /\ \A e \in Device, x \in Life : link'[e][x] = IF e = d THEN NoLink ELSE link[e][x]
  <2>1. link' = [link EXCEPT ![d] = [x \in Life |-> NoLink]]
    BY DEF Restart
  <2> HIDE DEF NoLink
  <2> QED
    BY <1>2, <2>1
<1>8. ASSUME NEW e \in Device, NEW x \in Life
      PROVE  GoodLink(ends, e, life'[e], x, link'[e][x])
  <2>1. CASE e = d
    <3>1. GoodLink(ends, e, life'[e], x, NoLink)
      BY NoLinkIsGood
    <3> HIDE DEF NoLink
    <3> QED
      BY <1>7, <2>1, <3>1
  <2>2. CASE e # d
    BY <1>1, <1>3, <1>7, <2>2 DEF Agreed
  <2> QED
    BY <2>1, <2>2
<1>9. PeersInv'
  <2>1. peers' = [peers EXCEPT ![d] = {}] /\ peers \in [Device -> SUBSET Life]
    BY DEF Restart, IInv, PeersInv
  <2>2. ASSUME NEW e \in Device, NEW x \in peers'[e]
        PROVE  peers'[e] = {x} /\ link'[e][x].pc \in PastHandshake
    <3>1. e # d /\ x \in peers[e] /\ peers'[e] = peers[e]
      BY <2>1, <2>2
    <3>2. x \in Life /\ peers[e] = {x} /\ link[e][x].pc \in PastHandshake
      BY <3>1 DEF IInv, PeersInv
    <3> QED
      BY <1>7, <3>1, <3>2
  <2> QED
    BY <2>1, <2>2 DEF PeersInv
<1>10. /\ listed' \in [Device -> BOOLEAN] /\ known' \in [Device -> SUBSET Life]
       /\ casting' \in [Device -> BOOLEAN] /\ cut' \subseteq Handshake \X Device
  BY OthersStay DEF Restart
<1> QED
  BY <1>3, <1>6, <1>7, <1>8, <1>9, <1>10, FollowUp

LEMMA RevokeKeeps ==
    ASSUME IInv, NEW d \in Device, Revoke(d)
    PROVE  IInv'
<1>1. PICK ends \in Ends : Agreed(ends)
  BY DEF IInv
<1>2. /\ UNCHANGED <<life, restarts, link, peers, wire, casting, known, cut>>
      /\ listed' = [listed EXCEPT ![d] = FALSE]
  BY DEF Revoke
<1>3. WiresGood(ends)
  BY <1>1, <1>2, WiresStay
<1>4. listed' \in [Device -> BOOLEAN]
  BY <1>2, OthersStay
<1> QED
  BY <1>1, <1>2, <1>3, <1>4, NoLinkStep, OthersStay

-----------------------------------------------------------------------------
(* The invariant and its theorems. *)

LEMMA InitIInv == Init => IInv
<1> SUFFICES ASSUME Init PROVE IInv
  OBVIOUS
<1> DEFINE ends == [h \in Handshake |-> [d \in Device |-> 0]]
           hello == [kind |-> "hello", from |-> 0, to |-> 0, hs |-> 0, intact |-> TRUE]
<1>1. 0 \in Life
  BY RestartsAssumption DEF Life
<1>2. ends \in Ends
  BY <1>1 DEF Ends
<1> HIDE DEF ends
<1>3. ASSUME NEW e \in Device
      PROVE  wire[e] \in Seq(Frames(ends, e))
  <2>1. hello \in Event /\ hello.kind = "hello" /\ hello.hs = 0
    BY <1>1 DEF Event
  <2>2. wire[e] = <<hello>>
    BY DEF Init
  <2> HIDE DEF hello
  <2>3. hello \in Frames(ends, e)
    BY <2>1 DEF Frames, Noise
  <2> QED
    BY <2>2, <2>3
<1>4. ASSUME NEW e \in Device, NEW x \in Life
      PROVE  GoodLink(ends, e, life[e], x, link[e][x])
  <2>1. GoodLink(ends, e, life[e], x, NoLink)
    BY NoLinkIsGood
  <2> HIDE DEF NoLink
  <2>2. link[e][x] = NoLink
    BY DEF Init
  <2> QED
    BY <2>1, <2>2
<1>5. Agreed(ends)
  BY <1>3, <1>4 DEF Agreed
<1> HIDE DEF hello, NoLink
<1>6. Shapes
  <2>1. life \in [Device -> Life] /\ \A d \in Device : life[d] = 0
    BY <1>1 DEF Init
  <2>2. known \in [Device -> SUBSET Life] /\ listed \in [Device -> BOOLEAN]
    BY DEF Init
  <2>3. casting \in [Device -> BOOLEAN] /\ cut \subseteq Handshake \X Device
    BY DEF Init
  <2>4. link = [e \in Device |-> [x \in Life |-> link[e][x]]]
    BY DEF Init
  <2>5. wire = [e \in Device |-> wire[e]]
    BY DEF Init
  <2>6. restarts \in Nat /\ \A d \in Device : life[d] <= restarts
    BY <2>1 DEF Init
  <2> QED
    BY <2>1, <2>2, <2>3, <2>4, <2>5, <2>6 DEF Shapes
<1>7. PeersInv
  BY DEF Init, PeersInv
<1> QED
  BY <1>2, <1>5, <1>6, <1>7 DEF IInv

LEMMA Inductive == IInv /\ [Next]_vars => IInv'
<1> SUFFICES ASSUME IInv, [Next]_vars PROVE IInv'
  OBVIOUS
<1>1. CASE UNCHANGED vars
  BY <1>1 DEF vars, counters, IInv, Shapes, PeersInv, Agreed
<1>2. CASE Next
  <2>1. PICK d \in Device :
           \/ Hear(d) \/ Lose(d)
           \/ \E r \in Life : SyncPeer(d, r)
           \/ GiveUp(d) \/ Announce(d) \/ Broadcast(d) \/ BroadcastSend(d)
           \/ Restart(d) \/ Revoke(d)
    BY <1>2 DEF Next
  <2>2. CASE Hear(d)
    BY <2>2, HearHelloKeeps, HearFrameKeeps DEF Hear
  <2>3. CASE \E r \in Life : SyncPeer(d, r)
    BY <2>3, RecvPubKeeps, RecvMessageKeeps, SendFirstKeeps, RecvEnvelopeKeeps DEF SyncPeer
  <2> QED
    BY <2>1, <2>2, <2>3, LoseKeeps, GiveUpKeeps, AnnounceKeeps, BroadcastKeeps,
       BroadcastSendKeeps, RestartKeeps, RevokeKeeps
<1> QED
  BY <1>1, <1>2

LEMMA Invariance == Spec => []IInv
<1> QED
  BY InitIInv, Inductive, PTL DEF Spec

\* Discovery, the handshake and its timers leave each device in a state of
\* its type; in particular one life of the other at most is authenticated,
\* and it has a transport.
THEOREM TypeCorrect == Spec => []TypeOK
<1> QED
  BY Invariance, TypesFollow, PTL

\* Whatever frames of earlier lives are still on their way, routeData keeps
\* the sessions of two lives apart.
THEOREM SessionsArePaired == Spec => []SessionsPair
<1> QED
  BY Invariance, SessionsFollow, PTL

-----------------------------------------------------------------------------
(* A removed device stays out. *)

StepOf(d) ==
    \/ Hear(d) \/ Lose(d)
    \/ \E r \in Life : SyncPeer(d, r)
    \/ GiveUp(d) \/ Announce(d) \/ Broadcast(d) \/ BroadcastSend(d)
    \/ Restart(d) \/ Revoke(d)

(* No device touches the transports, the peers or the roster of the other. *)
LEMMA Elsewhere ==
    ASSUME IInv, NEW f \in Device, NEW d \in Device, f # d, StepOf(f)
    PROVE  link'[d] = link[d] /\ peers'[d] = peers[d] /\ listed'[d] = listed[d]
<1>0. d \in DOMAIN link /\ d \in DOMAIN peers /\ d \in DOMAIN listed
  BY DEF IInv, Shapes, PeersInv
<1>1. CASE Hear(f)
  BY <1>0, <1>1 DEF Hear, HearHello, HearFrame
<1>2. CASE \E r \in Life : SyncPeer(f, r)
  <2>1. PICK r \in Life : SyncPeer(f, r)
    BY <1>2
  <2>2. CASE RecvPub(f, r)
    BY <1>0, <2>2 DEF RecvPub, Begin, Into, Close
  <2>3. CASE RecvMessage(f, r)
    BY <1>0, <2>3 DEF RecvMessage, Into, Close
  <2>4. CASE SendFirst(f, r)
    BY <1>0, <2>4 DEF SendFirst
  <2>5. CASE RecvEnvelope(f, r)
    BY <1>0, <2>5 DEF RecvEnvelope, Into, Close
  <2> QED
    BY <2>1, <2>2, <2>3, <2>4, <2>5 DEF SyncPeer
<1>3. CASE GiveUp(f)
  BY <1>0, <1>3 DEF GiveUp, ReapStale, TimeOut, Close
<1>4. CASE Broadcast(f)
  BY <1>0, <1>4 DEF Broadcast, Close
<1>5. CASE Lose(f) \/ Announce(f) \/ BroadcastSend(f) \/ Restart(f) \/ Revoke(f)
  BY <1>0, <1>5 DEF Lose, Announce, BroadcastSend, Restart, Revoke
<1> QED
  BY <1>1, <1>2, <1>3, <1>4, <1>5 DEF StepOf

LEMMA OutByLink ==
    ASSUME IInv, NEW d \in Device, Out(d), NEW r \in Life, NEW l, l.pc \notin PastGate,
           link' = [link EXCEPT ![d][r] = l], listed' = listed,
           peers' = peers \/ peers' = [peers EXCEPT ![d] = {}]
    PROVE  Out(d)'
<1>1. \A x \in Life : link'[d][x] = IF x = r THEN l ELSE link[d][x]
  <2>1. link = [e \in Device |-> [x \in Life |-> link[e][x]]]
    BY DEF IInv, Shapes
  <2> QED
    BY <2>1
<1>2. peers'[d] = {}
  BY DEF Out, IInv, PeersInv
<1> QED
  BY <1>1, <1>2 DEF Out

LEMMA OutOfOwnStep ==
    ASSUME IInv, NEW d \in Device, Out(d), StepOf(d)
    PROVE  Out(d)'
<1>1. /\ ~listed[d] /\ peers[d] = {}
      /\ \A x \in Life : link[d][x].pc \notin {"message", "send", "receive"}
  BY DEF Out, PastGate
<1>2. ASSUME NEW r \in Life, Close(d, r), listed' = listed,
             peers' = peers \/ peers' = [peers EXCEPT ![d] = {}]
      PROVE  Out(d)'
  <2>1. NoLink.pc \notin PastGate
    BY DEF NoLink, PastGate
  <2>2. link' = [link EXCEPT ![d][r] = NoLink]
    BY <1>2 DEF Close
  <2> HIDE DEF NoLink
  <2> QED
    BY <1>2, <2>1, <2>2, OutByLink
<1>3. CASE UNCHANGED <<link, peers, listed>>
  BY <1>3 DEF Out
<1>4. ASSUME NEW x \in Life, NEW events, link' = [link EXCEPT ![d][x] = Opened(@, events)],
             UNCHANGED <<listed, peers>>
      PROVE  Out(d)'
  <2> DEFINE l0 == link[d][x]
             l == Opened(l0, events)
  <2>1. l0.pc \notin PastGate
    BY DEF Out
  <2>2. \E ends : GoodLink(ends, d, life[d], x, l0)
    BY DEF IInv, Agreed
  <2>3. l0 \in LinkType
    BY <2>2 DEF GoodLink
  <2> HIDE DEF l0
  <2>4. l.pc \notin PastGate
    BY <2>1, <2>3 DEF Opened, LinkType, PastGate
  <2>5. link' = [link EXCEPT ![d][x] = l]
    BY <1>4 DEF l0
  <2> HIDE DEF l
  <2> QED
    BY <1>4, <2>4, <2>5, OutByLink
<1>5. CASE Hear(d)
  <2>1. wire[d] # <<>> /\ Head(wire[d]).from \in Life
    BY <1>5, HeadIsSound DEF Hear, HearHello, HearFrame, Arrived, IInv
  <2> DEFINE x == Head(wire[d]).from
  <2>2. CASE UNCHANGED link
    BY <1>3, <1>5, <2>2 DEF Hear, HearHello, HearFrame
  <2>3. CASE HearHello(d) /\ link' # link
    <3>1. link' = [link EXCEPT ![d][x] = Opened(@, <<>>)] /\ UNCHANGED <<listed, peers>>
      BY <2>3 DEF HearHello
    <3> HIDE DEF x
    <3> QED
      BY <1>4, <2>1, <3>1 DEF x
  <2>4. CASE HearFrame(d) /\ link' # link
    <3> DEFINE m == Head(wire[d])
               events == <<[m EXCEPT !.intact = <<m.hs, d>> \notin cut]>>
    <3>1. link' = [link EXCEPT ![d][x] = Opened(@, events)] /\ UNCHANGED <<listed, peers>>
      BY <2>4 DEF HearFrame
    <3> HIDE DEF events
    <3> QED
      BY <1>4, <2>1, <3>1
  <2> QED
    BY <1>5, <2>2, <2>3, <2>4 DEF Hear
<1>6. CASE \E r \in Life : SyncPeer(d, r)
  <2>1. PICK r \in Life : SyncPeer(d, r)
    BY <1>6
  <2>2. RecvPub(d, r)
    BY <1>1, <2>1 DEF SyncPeer, RecvMessage, SendFirst, RecvEnvelope, Waiting
  <2> QED
    BY <1>1, <1>2, <2>2 DEF RecvPub
<1>7. CASE GiveUp(d)
  BY <1>1, <1>2, <1>7 DEF GiveUp, ReapStale, TimeOut
<1>8. CASE Lose(d) \/ Announce(d) \/ BroadcastSend(d)
  BY <1>3, <1>8 DEF Lose, Announce, BroadcastSend
<1>9. CASE Restart(d)
  <2>1. link'[d] = [x \in Life |-> NoLink] /\ listed' = listed /\ peers'[d] = {}
    BY <1>9 DEF Restart, IInv, Shapes, PeersInv
  <2>2. NoLink.pc \notin PastGate
    BY DEF NoLink, PastGate
  <2> HIDE DEF NoLink
  <2> QED
    BY <1>1, <2>1, <2>2 DEF Out
<1> QED
  BY <1>1, <1>5, <1>6, <1>7, <1>8, <1>9 DEF StepOf, Broadcast, Revoke

\* The roster gate of syncPeer holds against whatever a removed device sends
\* or has sent.
THEOREM RemovedStaysOut == Spec => OutStaysOut
<1>1. IInv /\ [Next]_vars => [\A d \in Device : Out(d) => Out(d)']_vars
  <2> SUFFICES ASSUME IInv, Next, NEW d \in Device, Out(d)
               PROVE  Out(d)'
    OBVIOUS
  <2>1. PICK f \in Device : StepOf(f)
    BY DEF Next, StepOf
  <2>2. CASE f = d
    BY <2>1, <2>2, OutOfOwnStep
  <2>3. CASE f # d
    BY <2>1, <2>3, Elsewhere DEF Out
  <2> QED
    BY <2>2, <2>3
<1> QED
  BY Invariance, <1>1, PTL DEF Spec, OutStaysOut

-----------------------------------------------------------------------------
(* The ceremony that adds a device. *)

\* A handler serves a device that claimed an invite whose session was up;
\* until the user answers nothing is confirmed, and afterwards only the
\* device that was asked about.
AskedOnce ==
    \A i \in Invite :
        /\ confirmed[i] \subseteq claimed[i]
        /\ serving[i] # "none" => claimed[i] # {} /\ session[i] \in {"open", "stopped"}
        /\ serving[i] \in {"hello", "sas", "prompt"} => confirmed[i] = {}
        /\ serving[i] = "approved" => confirmed[i] = claimed[i]
        /\ i \in pending => serving[i] = "prompt"

\* A bundle in transit was given for the invite its receiver attends.
BundlesAreGiven ==
    \A p \in Joiner :
        /\ joiner[p].pc # "idle" => joiner[p].invite \in Invite
        /\ "bundle" \in frames[p] => p \in given[joiner[p].invite]

CeremonyInv == EnrollTypeOK /\ AskedOnce /\ BundlesAreGiven

-----------------------------------------------------------------------------
LEMMA StoppingKeepsTypes ==
    ASSUME EnrollTypeOK, NEW S
    PROVE  /\ Stopped(S) \in [Invite -> {"unused", "starting", "open", "stopped"}]
           /\ Dropped(S) \in [Joiner -> SUBSET {"auth", "hello", "bundle", "rejected",
                                                 "receipt"}]
           /\ Refused \in [Invite -> {"none", "hello", "sas", "prompt", "refused", "approved",
                                      "sent", "receipt", "notified", "ended"}]
  BY DEF EnrollTypeOK, Stopped, Dropped, Refused

LEMMA CeremonyTypePreserved == EnrollTypeOK /\ [EnrollNext]_enrollVars => EnrollTypeOK'
<1> SUFFICES ASSUME EnrollTypeOK, [EnrollNext]_enrollVars PROVE EnrollTypeOK'
  OBVIOUS
<1> USE StoppingKeepsTypes DEF EnrollTypeOK, Stop, SettleNo, Send, Reaches, At, Become,
                               history, hostVars
<1>1. CASE UNCHANGED enrollVars
  BY <1>1 DEF enrollVars
<1>2. ASSUME NEW i \in Invite, StartInvite(i) PROVE EnrollTypeOK'
  BY <1>2 DEF StartInvite
<1>3. ASSUME NEW i \in Invite, Started(i) PROVE EnrollTypeOK'
  BY <1>3 DEF Started
<1>4. ASSUME NEW i \in Invite, Expire(i) PROVE EnrollTypeOK'
  BY <1>4 DEF Expire
<1>5. ASSUME NEW i \in Invite, Approve(i) PROVE EnrollTypeOK'
  BY <1>5 DEF Approve
<1>6. ASSUME NEW i \in Invite, StopServing(i) PROVE EnrollTypeOK'
  BY <1>6 DEF StopServing
<1>7. ASSUME NEW i \in Invite, NEW p \in Joiner, RecvJoinerHello(i, p) PROVE EnrollTypeOK'
  BY <1>7 DEF RecvJoinerHello
<1>8. ASSUME NEW i \in Invite, NEW p \in Joiner, SendRejected(i, p) PROVE EnrollTypeOK'
  BY <1>8 DEF SendRejected
<1>9. ASSUME NEW i \in Invite, NEW p \in Joiner, SendBundle(i, p) PROVE EnrollTypeOK'
  BY <1>9 DEF SendBundle
<1>10. ASSUME NEW i \in Invite, NEW p \in Joiner, Enrolled(i, p) PROVE EnrollTypeOK'
  BY <1>10 DEF Enrolled
<1>11. ASSUME NEW i \in Invite, NEW p \in Joiner, RecvReceipt(i, p) PROVE EnrollTypeOK'
  BY <1>11 DEF RecvReceipt
<1>12. ASSUME NEW i \in Invite, NEW p \in Joiner, Authenticated(i, p) PROVE EnrollTypeOK'
  <2>1. /\ UNCHANGED <<session, current, pending, joiner, enrolled, deaths, confirmed, given>>
        /\ claimed' = claimed \/ claimed' = [claimed EXCEPT ![i] = {p}]
        /\ serving' = serving \/ serving' = [serving EXCEPT ![i] = "hello"]
        /\ \/ frames' = [frames EXCEPT ![p] = {}]
           \/ frames' = [frames EXCEPT ![p] = @ \ {"auth"}]
    BY <1>12 DEF Authenticated
  <2>2. claimed' \in [Invite -> SUBSET Joiner]
    BY <2>1
  <2>3. serving' \in [Invite -> {"none", "hello", "sas", "prompt", "refused", "approved",
                                  "sent", "receipt", "notified", "ended"}]
    BY <2>1
  <2>4. frames' \in [Joiner -> SUBSET {"auth", "hello", "bundle", "rejected", "receipt"}]
    BY <2>1
  <2> QED
    BY <2>1, <2>2, <2>3, <2>4
<1>13. ASSUME NEW i \in Invite, NEW p \in Joiner, JoinGroup(p, i) PROVE EnrollTypeOK'
  BY <1>13 DEF JoinGroup
<1>14. CASE StopEnrollInvite
  BY <1>14 DEF StopEnrollInvite
<1>15. CASE ApproveEnrollment
  BY <1>15 DEF ApproveEnrollment
<1>16. CASE RejectEnrollment
  BY <1>16 DEF RejectEnrollment
<1>17. CASE HostDies
  BY <1>17 DEF HostDies
<1>18. ASSUME NEW p \in Joiner, RecvRejected(p) PROVE EnrollTypeOK'
  <2>1. /\ joiner' = [joiner EXCEPT ![p].pc = "failed"]
        /\ UNCHANGED <<hostVars, enrolled, deaths, history>>
    BY <1>18 DEF RecvRejected
  <2>2. joiner' \in [Joiner -> [pc : {"idle", "seeking", "waiting", "building", "joined", "failed"},
                               invite : Invite \cup {0}]]
    BY <2>1
  <2>3. frames' \in [Joiner -> SUBSET {"auth", "hello", "bundle", "rejected", "receipt"}]
    BY <1>18 DEF RecvRejected
  <2> QED
    BY <2>1, <2>2, <2>3
<1>19. ASSUME NEW p \in Joiner, RecvBundle(p) PROVE EnrollTypeOK'
  BY <1>19 DEF RecvBundle, Is
<1>20. ASSUME NEW p \in Joiner, Joined(p) PROVE EnrollTypeOK'
  BY <1>20 DEF Joined, Is
<1>21. ASSUME NEW p \in Joiner, JoinTimesOut(p) PROVE EnrollTypeOK'
  BY <1>21 DEF JoinTimesOut, Is
<1>22. ASSUME NEW p \in Joiner, FinishHandshake(p) PROVE EnrollTypeOK'
  BY <1>22 DEF FinishHandshake, Is
<1>23. ASSUME NEW p \in Joiner, LoseFrames(p) PROVE EnrollTypeOK'
  BY <1>23 DEF LoseFrames, Is
<1> QED
  BY <1>1, <1>2, <1>3, <1>4, <1>5, <1>6, <1>7, <1>8, <1>9, <1>10, <1>11, <1>12, <1>13,
     <1>14, <1>15, <1>16, <1>17, <1>18, <1>19, <1>20, <1>21, <1>22, <1>23
        DEF EnrollNext, ServeStep, JoinStep

LEMMA AskedOncePreserved == CeremonyInv /\ [EnrollNext]_enrollVars => AskedOnce'
<1> SUFFICES ASSUME CeremonyInv, [EnrollNext]_enrollVars PROVE AskedOnce'
  OBVIOUS
<1> USE DEF CeremonyInv, EnrollTypeOK, AskedOnce
<1>1. CASE UNCHANGED enrollVars
  BY <1>1 DEF enrollVars, hostVars, history
<1>2. ASSUME NEW i \in Invite, StartInvite(i) PROVE AskedOnce'
  BY <1>2 DEF StartInvite, Stopped, SettleNo, Refused, history
<1>3. ASSUME NEW i \in Invite, Started(i) \/ Expire(i) PROVE AskedOnce'
  BY <1>3 DEF Started, Expire, Stop, Stopped, SettleNo, Refused, history
<1>4. ASSUME NEW i \in Invite, Approve(i) \/ StopServing(i) PROVE AskedOnce'
  BY <1>4 DEF Approve, StopServing, Stop, Stopped, history
<1>5. ASSUME NEW i \in Invite, NEW p \in Joiner,
             \/ RecvJoinerHello(i, p) \/ SendRejected(i, p) \/ SendBundle(i, p)
             \/ Enrolled(i, p) \/ RecvReceipt(i, p)
      PROVE  AskedOnce'
  BY <1>5 DEF RecvJoinerHello, SendRejected, SendBundle, Enrolled, RecvReceipt,
              Stop, Stopped, history
<1>6. ASSUME NEW i \in Invite, NEW p \in Joiner, Authenticated(i, p) PROVE AskedOnce'
  <2> USE <1>6 DEF Authenticated, history
  <2>1. CASE claimed[i] = {}
    <3>1. serving[i] = "none" /\ confirmed[i] = {} /\ i \notin pending
      BY <2>1
    <3>2. session[i] = "open" /\ UNCHANGED <<session, pending, confirmed>>
      OBVIOUS
    <3>3. claimed' = [claimed EXCEPT ![i] = {p}] /\ serving' = [serving EXCEPT ![i] = "hello"]
      BY <2>1
    <3> QED
      BY <3>1, <3>2, <3>3
  <2>2. CASE claimed[i] # {}
    BY <2>2
  <2> QED
    BY <2>1, <2>2
<1>7. ASSUME NEW i \in Invite, NEW p \in Joiner, JoinGroup(p, i) PROVE AskedOnce'
  BY <1>7 DEF JoinGroup, hostVars, history
<1>8. CASE StopEnrollInvite \/ RejectEnrollment
  BY <1>8 DEF StopEnrollInvite, RejectEnrollment, Stop, Stopped, SettleNo,
              Refused, history
<1>9. CASE ApproveEnrollment
  BY <1>9 DEF ApproveEnrollment
<1>10. CASE HostDies
  BY <1>10 DEF HostDies, Stop, Stopped, history
<1>11. ASSUME NEW p \in Joiner, JoinStep(p) \/ FinishHandshake(p) \/ LoseFrames(p)
       PROVE  AskedOnce'
  BY <1>11 DEF JoinStep, RecvRejected, RecvBundle, Joined, JoinTimesOut,
               FinishHandshake, LoseFrames,
               hostVars, history
<1> QED
  BY <1>1, <1>2, <1>3, <1>4, <1>5, <1>6, <1>7, <1>8, <1>9, <1>10, <1>11 DEF EnrollNext, ServeStep

LEMMA BundlesPreserved == CeremonyInv /\ [EnrollNext]_enrollVars => BundlesAreGiven'
<1> SUFFICES ASSUME CeremonyInv, [EnrollNext]_enrollVars PROVE BundlesAreGiven'
  OBVIOUS
<1> USE DEF CeremonyInv, EnrollTypeOK, BundlesAreGiven
<1>1. CASE UNCHANGED enrollVars
  BY <1>1 DEF enrollVars, hostVars, history
<1>2. ASSUME NEW i \in Invite, StartInvite(i) \/ Started(i) \/ Expire(i)
      PROVE  BundlesAreGiven'
  BY <1>2 DEF StartInvite, Started, Expire, Stop, Dropped, history
<1>3. ASSUME NEW i \in Invite, Approve(i) \/ StopServing(i) PROVE BundlesAreGiven'
  BY <1>3 DEF Approve, StopServing, Stop, Dropped, history
<1>4. ASSUME NEW i \in Invite, NEW p \in Joiner,
             \/ RecvJoinerHello(i, p) \/ SendRejected(i, p)
             \/ Enrolled(i, p) \/ RecvReceipt(i, p)
      PROVE  BundlesAreGiven'
  BY <1>4 DEF RecvJoinerHello, SendRejected, Enrolled, RecvReceipt, Send,
              Reaches, At, Stop, Dropped, history
<1>5. ASSUME NEW i \in Invite, NEW p \in Joiner, SendBundle(i, p) PROVE BundlesAreGiven'
  BY <1>5 DEF SendBundle, Send, Reaches, At
<1>6. ASSUME NEW i \in Invite, NEW p \in Joiner, Authenticated(i, p) \/ JoinGroup(p, i)
      PROVE  BundlesAreGiven'
  BY <1>6 DEF Authenticated, JoinGroup, hostVars, history
<1>7. CASE StopEnrollInvite \/ ApproveEnrollment \/ RejectEnrollment \/ HostDies
  BY <1>7 DEF StopEnrollInvite, ApproveEnrollment, RejectEnrollment, HostDies,
              Stop, Dropped, history
<1>8. ASSUME NEW p \in Joiner, JoinStep(p) \/ FinishHandshake(p) \/ LoseFrames(p)
      PROVE  BundlesAreGiven'
  BY <1>8 DEF JoinStep, RecvRejected, RecvBundle, Joined, JoinTimesOut,
              FinishHandshake, LoseFrames,
              Become, Send, Reaches, At, Is, hostVars, history
<1> QED
  BY <1>1, <1>2, <1>3, <1>4, <1>5, <1>6, <1>7, <1>8 DEF EnrollNext, ServeStep

LEMMA CeremonyInvHolds == EnrollSpec => []CeremonyInv
<1>1. EnrollInit => CeremonyInv
  BY DEF EnrollInit, CeremonyInv, EnrollTypeOK, AskedOnce, BundlesAreGiven
<1>2. CeremonyInv /\ [EnrollNext]_enrollVars => CeremonyInv'
  BY CeremonyTypePreserved, AskedOncePreserved, BundlesPreserved DEF CeremonyInv
<1> QED
  BY <1>1, <1>2, PTL DEF EnrollSpec

-----------------------------------------------------------------------------
\* The state of an invitation and of a device is always one the actions may
\* leave it in.
THEOREM CeremonyTypeCorrect == EnrollSpec => []EnrollTypeOK
BY CeremonyInvHolds, PTL DEF CeremonyInv

LEMMA CeremonyInitRefines == EnrollInit => Abstract!Init
BY DEF EnrollInit, Abstract!Init, Status, Holders, Is

LEMMA Closing ==
    ASSUME NEW S \in SUBSET Invite,
           \A k \in Invite : Status(k)' = IF k \in S THEN "closed" ELSE Status(k),
           \A k \in Invite : Holders(k)' = Holders(k),
           UNCHANGED history
    PROVE  Abstract!Close
BY DEF Abstract!Close, history

\* Sessions that stop only close windows.
LEMMA StoppingCloses ==
    ASSUME NEW S, session' = Stopped(S), EnrollTypeOK,
           UNCHANGED <<joiner, history>>
    PROVE  Abstract!Close
<1>1. \A k \in Invite : Status(k)' = IF k \in S \cap Invite THEN "closed" ELSE Status(k)
  BY DEF Status, Stopped, EnrollTypeOK
<1>2. \A k \in Invite : Holders(k)' = Holders(k)
  BY DEF Holders, Is, At
<1> QED
  BY <1>1, <1>2, Closing

LEMMA StandsStill ==
    ASSUME UNCHANGED <<session, joiner, history>>
    PROVE  UNCHANGED Abstract!vars
BY DEF Abstract!vars, Status, Holders, Is, At, history

LEMMA CeremonyStepRefines ==
    ASSUME CeremonyInv, [EnrollNext]_enrollVars
    PROVE  [Abstract!Next]_(Abstract!vars)
<1> USE DEF CeremonyInv, EnrollTypeOK, Stop, history, hostVars
<1>1. CASE UNCHANGED enrollVars
  BY <1>1, StandsStill DEF enrollVars
<1>2. ASSUME NEW i \in Invite, StartInvite(i) PROVE Abstract!Close
  <2>1. \A k \in Invite :
          Status(k)' = IF k \in current \ {i} THEN "closed" ELSE Status(k)
    BY <1>2 DEF StartInvite, Status, Stopped
  <2>2. \A k \in Invite : Holders(k)' = Holders(k)
    BY <1>2 DEF StartInvite, Holders, Is, At
  <2>3. current \ {i} \in SUBSET Invite /\ UNCHANGED history
    BY <1>2 DEF StartInvite
  <2> QED
    BY <2>1, <2>2, <2>3, Closing
<1>3. ASSUME NEW i \in Invite, Started(i) PROVE Abstract!Open(i)
  BY <1>3 DEF Started, Abstract!Open, Status, Holders, Is, At
<1>4. ASSUME NEW i \in Invite,
             Expire(i) \/ StopServing(i) \/ \E p \in Joiner : RecvReceipt(i, p)
      PROVE  Abstract!Close
  BY <1>4, StoppingCloses DEF Expire, StopServing, RecvReceipt
<1>5. ASSUME StopEnrollInvite \/ HostDies PROVE Abstract!Close
  BY <1>5, StoppingCloses DEF StopEnrollInvite, HostDies
<1>6. ASSUME NEW i \in Invite, NEW p \in Joiner,
             \/ RecvJoinerHello(i, p) \/ SendRejected(i, p)
             \/ Enrolled(i, p) \/ Authenticated(i, p)
      PROVE  UNCHANGED Abstract!vars
  BY <1>6, StandsStill DEF RecvJoinerHello, SendRejected, Enrolled, Authenticated
<1>7. ASSUME \/ RejectEnrollment
             \/ \E i \in Invite : Approve(i)
             \/ \E p \in Joiner : LoseFrames(p)
      PROVE  UNCHANGED Abstract!vars
  BY <1>7, StandsStill DEF RejectEnrollment, Approve, LoseFrames
<1>8. ASSUME NEW i \in Invite, NEW p \in Joiner, SendBundle(i, p)
      PROVE  [Abstract!Next]_(Abstract!vars)
  <2>1. CASE ~Reaches(i, p)
    BY <1>8, <2>1, StandsStill DEF SendBundle
  <2>2. CASE Reaches(i, p)
    <3>1. Abstract!Give(i, p)
      BY <1>8, <2>2 DEF SendBundle, Abstract!Give, Reaches, AskedOnce, Status,
                        Holders, Is, At
    <3> QED
      BY <3>1 DEF Abstract!Next
  <2> QED
    BY <2>1, <2>2
<1>9. CASE ApproveEnrollment
  <2>1. PICK i \in pending, p \in Joiner : 
          /\ claimed[i] = {p}
          /\ confirmed' = [confirmed EXCEPT ![i] = @ \cup {p}]
          /\ UNCHANGED <<session, joiner, given>>
    BY <1>9 DEF ApproveEnrollment
  <2>2. i \in Invite /\ serving[i] = "prompt" /\ confirmed[i] = {} /\ Status(i) # "unused"
    BY DEF AskedOnce, Status
  <2>3. Abstract!Confirm(i, p)
    BY <2>1, <2>2 DEF Abstract!Confirm, Status, Holders, Is, At
  <2> QED
    BY <2>2, <2>3 DEF Abstract!Next
<1>10. ASSUME NEW p \in Joiner,
              \/ \E i \in Invite : JoinGroup(p, i)
              \/ FinishHandshake(p) \/ RecvRejected(p) \/ Joined(p) \/ JoinTimesOut(p)
       PROVE  UNCHANGED Abstract!vars
  <2>1. UNCHANGED <<session, history>>
    BY <1>10 DEF JoinGroup, FinishHandshake, RecvRejected, Joined, JoinTimesOut
  <2>2. \A k \in Invite : Holders(k)' = Holders(k)
    <3>1. CASE Joined(p)
      BY <3>1 DEF Joined, Become, Holders, Is, At
    <3>2. CASE ~Joined(p)
      <4>1. /\ joiner[p].pc \notin {"building", "joined"}
            /\ joiner'[p].pc \notin {"building", "joined"}
            /\ \A q \in Joiner \ {p} : joiner'[q] = joiner[q]
        BY <1>10, <3>2 DEF JoinGroup, FinishHandshake, RecvRejected, JoinTimesOut,
                           Become, Is
      <4> QED
        BY <4>1 DEF Holders, At
    <3> QED
      BY <3>1, <3>2
  <2> QED
    BY <2>1, <2>2 DEF Abstract!vars, Status
<1>11. ASSUME NEW p \in Joiner, RecvBundle(p)
       PROVE  [Abstract!Next]_(Abstract!vars)
  <2> DEFINE k == joiner[p].invite
  <2>1. /\ k \in Invite /\ p \in given[k] /\ p \notin Holders(k)
        /\ UNCHANGED <<session, history>>
    BY <1>11 DEF RecvBundle, BundlesAreGiven, Is, Holders
  <2>2. CASE p \in WrongPass
    <3>1. \A i \in Invite : Holders(i)' = Holders(i)
      BY <1>11, <2>2 DEF RecvBundle, Become, Holders, Is, At
    <3> QED
      BY <2>1, <3>1 DEF Abstract!vars, Status
  <2>3. CASE p \notin WrongPass
    <3>1. \A i \in Invite :
            Holders(i)' = IF i = k THEN Holders(i) \cup {p} ELSE Holders(i)
      BY <1>11, <2>3 DEF RecvBundle, Become, Holders, Is, At
    <3>2. Abstract!Receive(k, p)
      BY <2>1, <3>1 DEF Abstract!Receive, Status
    <3> QED
      BY <2>1, <3>2 DEF Abstract!Next
  <2> QED
    BY <2>2, <2>3
<1>12. Abstract!Close => Abstract!Next
  BY DEF Abstract!Next
<1>13. ASSUME NEW i \in Invite, Abstract!Open(i) PROVE Abstract!Next
  BY <1>13 DEF Abstract!Next
<1>14. ASSUME NEW i \in Invite, ServeStep(i) PROVE [Abstract!Next]_(Abstract!vars)
  BY <1>14, <1>4, <1>6, <1>7, <1>8, <1>12 DEF ServeStep
<1>15. ASSUME NEW p \in Joiner, JoinStep(p) PROVE [Abstract!Next]_(Abstract!vars)
  BY <1>15, <1>10, <1>11 DEF JoinStep
<1>16. ASSUME NEW i \in Invite,
              \/ StartInvite(i) \/ Started(i) \/ Expire(i)
              \/ \E p \in Joiner : Authenticated(i, p) \/ JoinGroup(p, i)
       PROVE  [Abstract!Next]_(Abstract!vars)
  BY <1>16, <1>2, <1>3, <1>4, <1>6, <1>10, <1>12, <1>13
<1>17. ASSUME NEW p \in Joiner, FinishHandshake(p) \/ LoseFrames(p)
       PROVE  [Abstract!Next]_(Abstract!vars)
  BY <1>17, <1>7, <1>10
<1> QED
  BY <1>1, <1>5, <1>7, <1>9, <1>12, <1>14, <1>15, <1>16, <1>17 DEF EnrollNext

\* However handshakes, prompts, timers, superseding invitations, closed
\* dialogs and host deaths interleave: one invitation gives the vault to one
\* device, which the user confirmed, while its session was up.
THEOREM CeremonyRefinement == EnrollSpec => ImplementsPairing
<1>1. EnrollInit => Abstract!Init
  BY CeremonyInitRefines
<1>2. CeremonyInv /\ [EnrollNext]_enrollVars => [Abstract!Next]_(Abstract!vars)
  BY CeremonyStepRefines
<1> QED
  BY <1>1, <1>2, CeremonyInvHolds, PTL DEF EnrollSpec, ImplementsPairing, Abstract!Spec
===============================================================================
