---------------------------- MODULE Roster_proofs ----------------------------
(***************************************************************************)
(* The roster for any number of devices, ids, overlapping merges and       *)
(* bounds.  Revocation: what is stored anywhere is the result of a merge,  *)
(* and a merge lists no id it knows to be revoked.  Its converse: a merge  *)
(* forgets no id either, so that a member keeps its own entry.             *)
(***************************************************************************)
EXTENDS Roster, Merge_proofs

(* mergeRosters keeps the tombstones of both rosters and lists none of the
   ids in them. *)
LEMMA MergeUnlists ==
    ASSUME NEW a, NEW b
    PROVE  /\ DOMAIN MergeRosters(a, b).revoked = DOMAIN a.revoked \cup DOMAIN b.revoked
           /\ DOMAIN MergeRosters(a, b).devices \cap DOMAIN MergeRosters(a, b).revoked = {}
<1> DEFINE t == MergeStamped(a.revoked, b.revoked)
           m == MergeStamped(a.devices, b.devices)
<1>1. /\ MergeRosters(a, b).devices = Only(m, DOMAIN m \ DOMAIN t)
      /\ MergeRosters(a, b).revoked = t
  BY DEF MergeRosters, MergeReplicas, LiveDevices
<1>2. DOMAIN Only(m, DOMAIN m \ DOMAIN t) = DOMAIN m \ DOMAIN t
  BY DEF Only
<1>3. DOMAIN t = DOMAIN a.revoked \cup DOMAIN b.revoked
  BY DEF MergeStamped
<1> HIDE DEF t, m
<1> QED
  BY <1>1, <1>2, <1>3

(* The only changes of sync.group are the write of a merge result and its
   removal. *)
LEMMA GroupChanges ==
    ASSUME Next
    PROVE  \/ group' = group
           \/ \E e \in Device : group' = [group EXCEPT ![e] = EmptyRoster]
           \/ \E e \in Device : \E a, b : group' = [group EXCEPT ![e] = MergeRosters(a, b)]
<1>1. ASSUME NEW e \in Device, NEW s \in Slot, ReadGroup(e, s)
      PROVE  group' = group
  BY <1>1 DEF ReadGroup
<1>2. ASSUME NEW e \in Device, NEW s \in Slot, WriteGroup(e, s)
      PROVE  \/ group' = group
             \/ \E a, b : group' = [group EXCEPT ![e] = MergeRosters(a, b)]
  BY <1>2 DEF WriteGroup
<1>3. ASSUME NEW e \in Device, \/ Invite(e) \/ InviteAdmitting(e) \/ Offer(e)
      PROVE  group' = group
  BY <1>3 DEF Invite, InviteAdmitting, Offer
<1>4. ASSUME NEW e \in Device,
             \/ \E i \in Node : RemoveDevice(e, i)
             \/ SignOwn(e) \/ SignCheck(e)
             \/ \E f \in Device, s \in BgTask : Gossip(e, f, s)
      PROVE  group' = group
  BY <1>4 DEF RemoveDevice, SignOwn, SignCheck, Gossip
<1>5. ASSUME NEW e \in Device, NEW j \in Device, Join(j, e)
      PROVE  \E a, b : group' = [group EXCEPT ![j] = MergeRosters(a, b)]
  BY <1>5 DEF Join
<1>6. ASSUME NEW e \in Device, Leave(e)
      PROVE  group' = [group EXCEPT ![e] = EmptyRoster]
  BY <1>6 DEF Leave
<1> QED
  BY <1>1, <1>2, <1>3, <1>4, <1>5, <1>6 DEF Next, Step

(* The group is stored per device, and no stored roster lists a revoked id. *)
GroupInv ==
    /\ group = [d \in Device |-> group[d]]
    /\ RevokedIsUnlisted

(* Sticky liveness (liveDevices): no device lists an id it knows to be
   revoked, however merges, local changes, joins and disconnects overlap. *)
THEOREM RevokedStaysUnlisted == Spec => []RevokedIsUnlisted
<1>1. Init => GroupInv
  <2> SUFFICES ASSUME Init PROVE GroupInv
    OBVIOUS
  <2>1. DOMAIN FirstRoster.revoked = {} /\ DOMAIN EmptyRoster.revoked = {}
    BY DEF FirstRoster, EmptyRoster, NoMap
  <2>2. group = [d \in Device |-> IF d \in Members THEN FirstRoster ELSE EmptyRoster]
    BY DEF Init
  <2> QED
    BY <2>1, <2>2 DEF GroupInv, RevokedIsUnlisted
<1>2. GroupInv /\ [Next]_vars => GroupInv'
  <2> SUFFICES ASSUME GroupInv, [Next]_vars PROVE GroupInv'
    OBVIOUS
  <2>1. CASE UNCHANGED vars
    BY <2>1 DEF GroupInv, RevokedIsUnlisted, vars
  <2>2. CASE Next
    <3>0. \/ group' = group
          \/ \E e \in Device : \E r : group' = [group EXCEPT ![e] = r]
      BY <2>2, GroupChanges
    <3>1. group' = [d \in Device |-> group'[d]]
      BY <3>0 DEF GroupInv
    <3>2. ASSUME NEW d \in Device
          PROVE  DOMAIN group'[d].devices \cap DOMAIN group'[d].revoked = {}
      <4>1. \/ group'[d] = group[d]
            \/ group'[d] = EmptyRoster
            \/ \E a, b : group'[d] = MergeRosters(a, b)
        BY <2>2, GroupChanges DEF GroupInv
      <4>2. DOMAIN EmptyRoster.revoked = {}
        BY DEF EmptyRoster, NoMap
      <4> QED
        BY <4>1, <4>2, MergeUnlists DEF GroupInv, RevokedIsUnlisted
    <3> QED
      BY <3>1, <3>2 DEF GroupInv, RevokedIsUnlisted
  <2> QED
    BY <2>1, <2>2
<1>3. GroupInv => RevokedIsUnlisted
  BY DEF GroupInv
<1> QED
  BY <1>1, <1>2, <1>3, PTL DEF Spec

-----------------------------------------------------------------------------
(* Types. *)

(* Every stamp is of the one millisecond; an entry is unsigned only as first
   listed, and bears no admission, where no admission key is published. *)
DrawnStamp == {s \in Stamp : s.wall = Now}
DrawnClock == {c \in Clock : c.wall = Now}
Version == {e \in Entry : /\ e.hlc \in DrawnStamp
                          /\ Admits = {} => /\ e.admission = {}
                                            /\ ~e.signed => e.hlc.counter = 0}
Admitters == IF Admits = {} THEN {} ELSE Node

(* A roster as devices hold it. *)
IsHeld(r) ==
    /\ r = [devices |-> r.devices, revoked |-> r.revoked]
    /\ IsMap(r.devices, Node, Version)
    /\ IsMap(r.revoked, Node, [hlc : DrawnStamp])

LEMMA HeldIsRoster ==
    ASSUME NEW r, IsHeld(r)
    PROVE  IsRoster(r)
<1>1. DOMAIN r = {"devices", "revoked"}
  BY DEF IsHeld
<1> QED
  BY <1>1 DEF IsHeld, IsRoster, IsMap, Version, DrawnStamp

(* HybridClock.send() and receive() move the counter on. *)
LEMMA SendDraws ==
    ASSUME NEW c \in DrawnClock
    PROVE  /\ Send(c, Now) \in DrawnClock
           /\ Send(c, Now).counter > c.counter
           /\ \A i \in Node : StampAt(c, i) \in DrawnStamp
  BY NowAssumption DEF Send, StampAt, DrawnClock, DrawnStamp, Clock, Stamp

LEMMA FirstDraws ==
    /\ FirstClock = [wall |-> Now, counter |-> 0]
    /\ FirstClock \in DrawnClock
    /\ \A i \in Node : /\ StampAt(FirstClock, i) \in DrawnStamp
                       /\ StampAt(FirstClock, i).counter = 0
                       /\ StampAt(FirstClock, i).node = i
  BY NowAssumption DEF FirstClock, FreshClock, Send, StampAt, DrawnClock, DrawnStamp, Clock, Stamp

LEMMA ReceiveDraws ==
    ASSUME NEW c \in DrawnClock, NEW s \in DrawnStamp
    PROVE  /\ Receive(c, s, Now) \in DrawnClock
           /\ Receive(c, s, Now).counter > c.counter
<1> DEFINE rw == ReceivedWall(s, Now)
           W == {c.wall, rw, Now}
           w == CHOOSE m \in W : \A x \in W : x <= m
           n == IF w = c.wall /\ w = rw
                THEN 1 + IF c.counter > s.counter THEN c.counter ELSE s.counter
                ELSE IF w = c.wall THEN c.counter + 1
                ELSE IF w = rw THEN s.counter + 1
                ELSE 0
<1>1. /\ c.counter \in Nat /\ s.counter \in Nat
      /\ c.wall = Now /\ s.wall = Now /\ Now \in Nat
  BY NowAssumption DEF DrawnClock, DrawnStamp, Clock, Stamp
<1>2. rw = Now
  BY <1>1, DriftAssumption DEF ReceivedWall, IsFutureStamp
<1>3. W = {Now} /\ Now <= Now
  BY <1>1, <1>2
<1>4. w = Now
  <2> HIDE DEF W
  <2> QED
    BY <1>3
<1>5. Receive(c, s, Now) = [wall |-> w, counter |-> n]
  BY Zenon DEF Receive
<1> HIDE DEF w, rw
<1>6. n \in Nat /\ n > c.counter
  BY <1>1, <1>2, <1>4
<1> QED
  BY <1>1, <1>4, <1>5, <1>6 DEF DrawnClock, Clock

(* The ids a roster knows. *)
Known(r) == DOMAIN r.devices \cup DOMAIN r.revoked

(* A merge of rosters is a roster and knows what either knows. *)
LEMMA MergeOfRosters ==
    ASSUME NEW a, NEW b, IsRoster(a), IsRoster(b)
    PROVE  /\ IsRoster(MergeRosters(a, b))
           /\ Known(MergeRosters(a, b)) = Known(a) \cup Known(b)
<1> DEFINE t == MergeStamped(a.revoked, b.revoked)
           m == MergeStamped(a.devices, b.devices)
<1>1. MergeRosters(a, b) = [devices |-> Only(m, DOMAIN m \ DOMAIN t), revoked |-> t]
  BY DEF MergeRosters, MergeReplicas, LiveDevices
<1>2. /\ IsMap(t, Node, [hlc : Stamp])
      /\ DOMAIN t = DOMAIN a.revoked \cup DOMAIN b.revoked
  BY DEF MergeStamped, IsMap, IsRoster
<1>3. /\ IsMap(m, Node, Entry)
      /\ DOMAIN m = DOMAIN a.devices \cup DOMAIN b.devices
  BY DEF MergeStamped, IsMap, IsRoster
<1> HIDE DEF t, m
<1>4. /\ IsMap(Only(m, DOMAIN m \ DOMAIN t), Node, Entry)
      /\ DOMAIN Only(m, DOMAIN m \ DOMAIN t) = DOMAIN m \ DOMAIN t
  BY <1>3 DEF Only, IsMap
<1>5. IsRoster(MergeRosters(a, b))
  BY <1>1, <1>2, <1>4 DEF IsRoster
<1> QED
  BY <1>1, <1>2, <1>3, <1>4, <1>5 DEF Known

(* ... holding an entry of one of the two at every id. *)
LEMMA MergeLists ==
    ASSUME NEW a, NEW b
    PROVE  /\ \A i \in DOMAIN MergeRosters(a, b).devices :
                 \/ i \in DOMAIN a.devices /\ MergeRosters(a, b).devices[i] = a.devices[i]
                 \/ i \in DOMAIN b.devices /\ MergeRosters(a, b).devices[i] = b.devices[i]
           /\ \A i \in DOMAIN MergeRosters(a, b).revoked :
                 \/ i \in DOMAIN a.revoked /\ MergeRosters(a, b).revoked[i] = a.revoked[i]
                 \/ i \in DOMAIN b.revoked /\ MergeRosters(a, b).revoked[i] = b.revoked[i]
<1> DEFINE listed == MergeStamped(a.devices, b.devices)
           graves == MergeStamped(a.revoked, b.revoked)
<1>1. MergeRosters(a, b) = [devices |-> Only(listed, DOMAIN listed \ DOMAIN graves),
                            revoked |-> graves]
  BY DEF MergeRosters, MergeReplicas, LiveDevices
<1>2. \A i \in DOMAIN listed :
         \/ i \in DOMAIN a.devices /\ listed[i] = a.devices[i]
         \/ i \in DOMAIN b.devices /\ listed[i] = b.devices[i]
  BY DEF MergeStamped
<1>3. \A i \in DOMAIN graves :
         \/ i \in DOMAIN a.revoked /\ graves[i] = a.revoked[i]
         \/ i \in DOMAIN b.revoked /\ graves[i] = b.revoked[i]
  BY DEF MergeStamped
<1> HIDE DEF listed, graves
<1> QED
  BY <1>1, <1>2, <1>3 DEF Only

LEMMA MergeShape ==
    ASSUME NEW a, NEW b
    PROVE  LET m == MergeRosters(a, b)
           IN  /\ m = [devices |-> m.devices, revoked |-> m.revoked]
               /\ m.devices = [i \in DOMAIN m.devices |-> m.devices[i]]
               /\ m.revoked = [i \in DOMAIN m.revoked |-> m.revoked[i]]
<1> DEFINE r == MergeReplicas([records |-> a.devices, tombstones |-> a.revoked],
                              [records |-> b.devices, tombstones |-> b.revoked])
           live == LiveDevices(r)
           graves == MergeStamped(a.revoked, b.revoked)
<1>1. MergeRosters(a, b) = [devices |-> live, revoked |-> graves]
  BY DEF MergeRosters, MergeReplicas
<1>2. live = [i \in DOMAIN live |-> live[i]]
  <2> HIDE DEF r
  <2> QED
    BY DEF LiveDevices, Only
<1>3. graves = [i \in DOMAIN graves |-> graves[i]]
  BY DEF MergeStamped
<1> HIDE DEF live, graves
<1> QED
  BY <1>1, <1>2, <1>3

LEMMA MergeIsHeld ==
    ASSUME NEW a, NEW b, IsHeld(a), IsHeld(b)
    PROVE  IsHeld(MergeRosters(a, b))
<1> DEFINE m == MergeRosters(a, b)
<1>1. /\ m = [devices |-> m.devices, revoked |-> m.revoked]
      /\ m.devices = [i \in DOMAIN m.devices |-> m.devices[i]]
      /\ m.revoked = [i \in DOMAIN m.revoked |-> m.revoked[i]]
  BY MergeShape
<1>2. /\ \A i \in DOMAIN m.devices :
            \/ i \in DOMAIN a.devices /\ m.devices[i] = a.devices[i]
            \/ i \in DOMAIN b.devices /\ m.devices[i] = b.devices[i]
      /\ \A i \in DOMAIN m.revoked :
            \/ i \in DOMAIN a.revoked /\ m.revoked[i] = a.revoked[i]
            \/ i \in DOMAIN b.revoked /\ m.revoked[i] = b.revoked[i]
  BY MergeLists
<1> HIDE DEF m
<1>3. IsMap(m.devices, Node, Version)
  BY <1>1, <1>2 DEF IsHeld, IsMap
<1>4. IsMap(m.revoked, Node, [hlc : DrawnStamp])
  BY <1>1, <1>2 DEF IsHeld, IsMap
<1> QED
  BY <1>1, <1>3, <1>4 DEF IsHeld, m

-----------------------------------------------------------------------------
(* mergeRosters as an operation on rosters.  A revocation takes an entry away
   for good and whatever its stamp, so that it matters only which ids are
   revoked: entries may be thrown away as soon as their revocation is known. *)

(* Both maps of a roster are stamped. *)
LEMMA RosterIsStamped ==
    ASSUME NEW r, IsRoster(r)
    PROVE  IsStampedMap(r.devices) /\ IsStampedMap(r.revoked)
  BY DEF IsRoster, IsMap, IsStampedMap, Entry

(* A map without the ids in T. *)
Outside(f, T) == Only(f, DOMAIN f \ T)

(* The two fields of a merged roster. *)
LEMMA RosterFields ==
    ASSUME NEW a, NEW b
    PROVE  LET D == MergeStamped(a.devices, b.devices)
               t == MergeStamped(a.revoked, b.revoked)
           IN  MergeRosters(a, b) = [devices |-> Outside(D, DOMAIN t), revoked |-> t]
  BY DEF MergeRosters, MergeReplicas, LiveDevices, Outside

(* Entries of revoked ids do not influence later merges. *)
LEMMA RevokedDoNotMatter ==
    ASSUME NEW f, NEW h, NEW S, NEW T, S \subseteq T
    PROVE  /\ Outside(MergeStamped(Outside(f, S), h), T) = Outside(MergeStamped(f, h), T)
           /\ Outside(MergeStamped(h, Outside(f, S)), T) = Outside(MergeStamped(h, f), T)
<1> DEFINE g == Outside(f, S)
<1>1. /\ \A x \in DOMAIN g : g[x] = f[x]
      /\ \A x : x \notin T => (x \in DOMAIN g <=> x \in DOMAIN f)
  BY DEF Only, Outside
<1> HIDE DEF g
<1>2. ASSUME NEW u, NEW v, \/ u = MergeStamped(g, h) /\ v = MergeStamped(f, h)
                           \/ u = MergeStamped(h, g) /\ v = MergeStamped(h, f)
      PROVE  Outside(u, T) = Outside(v, T)
  <2>1. DOMAIN u \ T = DOMAIN v \ T
    BY <1>1, <1>2 DEF MergeStamped
  <2>2. \A x \in DOMAIN u \ T : u[x] = v[x]
    BY <1>1, <1>2 DEF MergeStamped
  <2> QED
    BY <2>1, <2>2 DEF Only, Outside
<1> QED
  BY <1>2 DEF g

(* mergeRosters does not depend on which of two devices merges, if they hold
   no two versions of an entry under one stamp.  (Joiner and inviter do, where
   invitations carry admissions.) *)
THEOREM RosterMergeCommutes ==
    ASSUME NEW a, NEW b, IsRoster(a), IsRoster(b), Agree(a.devices, b.devices)
    PROVE  MergeRosters(a, b) = MergeRosters(b, a)
<1>1. /\ IsStampedMap(a.devices) /\ IsStampedMap(a.revoked)
      /\ IsStampedMap(b.devices) /\ IsStampedMap(b.revoked)
  BY RosterIsStamped
<1>2. Agree(a.revoked, b.revoked)
  <2>1. \A x \in DOMAIN a.revoked : a.revoked[x] = [hlc |-> a.revoked[x].hlc]
    BY DEF IsRoster, IsMap
  <2>2. \A x \in DOMAIN b.revoked : b.revoked[x] = [hlc |-> b.revoked[x].hlc]
    BY DEF IsRoster, IsMap
  <2> QED
    BY <2>1, <2>2 DEF Agree
<1>3. /\ MergeStamped(a.devices, b.devices) = MergeStamped(b.devices, a.devices)
      /\ MergeStamped(a.revoked, b.revoked) = MergeStamped(b.revoked, a.revoked)
  BY <1>1, <1>2, MergeStampedCommutes
<1> QED
  BY <1>3, RosterFields

(* The order in which the rosters of several devices are merged does not
   matter: no late roster brings a revoked device back. *)
THEOREM RosterMergeAssociates ==
    ASSUME NEW a, NEW b, NEW c, IsRoster(a), IsRoster(b), IsRoster(c)
    PROVE  MergeRosters(MergeRosters(a, b), c) = MergeRosters(a, MergeRosters(b, c))
<1> DEFINE Dab == MergeStamped(a.devices, b.devices)
           Dbc == MergeStamped(b.devices, c.devices)
           tab == MergeStamped(a.revoked, b.revoked)
           tbc == MergeStamped(b.revoked, c.revoked)
           t == MergeStamped(tab, c.revoked)
           ab == Outside(Dab, DOMAIN tab)
           bc == Outside(Dbc, DOMAIN tbc)
<1>1. /\ IsStampedMap(a.devices) /\ IsStampedMap(a.revoked)
      /\ IsStampedMap(b.devices) /\ IsStampedMap(b.revoked)
      /\ IsStampedMap(c.devices) /\ IsStampedMap(c.revoked)
  BY RosterIsStamped
<1>2. /\ t = MergeStamped(a.revoked, tbc)
      /\ MergeStamped(Dab, c.devices) = MergeStamped(a.devices, Dbc)
  BY <1>1, MergeStampedAssociates
<1>3. DOMAIN tab \subseteq DOMAIN t /\ DOMAIN tbc \subseteq DOMAIN t
  BY <1>2 DEF MergeStamped
<1>4. /\ MergeRosters(a, b) = [devices |-> ab, revoked |-> tab]
      /\ MergeRosters(b, c) = [devices |-> bc, revoked |-> tbc]
  BY RosterFields
<1> HIDE DEF Dab, Dbc, tab, tbc
<1>5. /\ MergeRosters(MergeRosters(a, b), c)
           = [devices |-> Outside(MergeStamped(ab, c.devices), DOMAIN t), revoked |-> t]
      /\ MergeRosters(a, MergeRosters(b, c))
           = [devices |-> Outside(MergeStamped(a.devices, bc), DOMAIN t), revoked |-> t]
  <2> HIDE DEF ab, bc
  <2> QED
    BY <1>2, <1>4, RosterFields
<1> HIDE DEF t
<1>6. Outside(MergeStamped(ab, c.devices), DOMAIN t)
        = Outside(MergeStamped(Dab, c.devices), DOMAIN t)
  BY <1>3, RevokedDoNotMatter
<1>7. Outside(MergeStamped(a.devices, bc), DOMAIN t)
        = Outside(MergeStamped(a.devices, Dbc), DOMAIN t)
  BY <1>3, RevokedDoNotMatter
<1> HIDE DEF ab, bc
<1> QED
  BY <1>2, <1>5, <1>6, <1>7

(* Gossip that arrives twice does nothing the second time: what it revoked
   stays revoked, what it lists cannot come back against its revocation. *)
THEOREM RosterMergeAbsorbs ==
    ASSUME NEW a, NEW b, IsRoster(a), IsRoster(b)
    PROVE  MergeRosters(MergeRosters(a, b), b) = MergeRosters(a, b)
<1> DEFINE D == MergeStamped(a.devices, b.devices)
           t == MergeStamped(a.revoked, b.revoked)
           live == Outside(D, DOMAIN t)
<1>1. /\ IsStampedMap(a.devices) /\ IsStampedMap(a.revoked)
      /\ IsStampedMap(b.devices) /\ IsStampedMap(b.revoked)
  BY RosterIsStamped
<1>2. ASSUME NEW f, NEW g, IsStampedMap(f), IsStampedMap(g)
      PROVE  MergeStamped(MergeStamped(f, g), g) = MergeStamped(f, g)
  BY <1>2, BeforeIsTotalOrder DEF MergeStamped, IsStampedMap
<1>3. MergeStamped(D, b.devices) = D /\ MergeStamped(t, b.revoked) = t
  BY <1>1, <1>2
<1>4. MergeRosters(a, b) = [devices |-> live, revoked |-> t]
  BY RosterFields
<1> HIDE DEF D, t
<1>5. MergeRosters(MergeRosters(a, b), b)
         = [devices |-> Outside(MergeStamped(live, b.devices), DOMAIN t), revoked |-> t]
  <2> HIDE DEF live
  <2> QED
    BY <1>3, <1>4, RosterFields
<1>6. Outside(MergeStamped(live, b.devices), DOMAIN t)
         = Outside(MergeStamped(D, b.devices), DOMAIN t)
  BY RevokedDoNotMatter
<1> QED
  BY <1>3, <1>4, <1>5, <1>6

-----------------------------------------------------------------------------
(* The rosters that changes are merged in as. *)
LEMMA ChangeTypes ==
    /\ IsHeld(EmptyRoster) /\ Known(EmptyRoster) = {}
    /\ \A i \in Node, e \in Version : IsHeld(Adding(i, e)) /\ Known(Adding(i, e)) = {i}
    /\ \A i \in Node, s \in DrawnStamp : IsHeld(Revoking(i, s))
<1>1. EmptyRoster = [devices |-> NoMap, revoked |-> NoMap] /\ DOMAIN NoMap = {}
  BY DEF EmptyRoster, NoMap
<1>2. \A S, T : IsMap(NoMap, S, T)
  BY DEF NoMap, IsMap
<1>3. ASSUME NEW i \in Node, NEW e \in Version
      PROVE  IsHeld(Adding(i, e)) /\ Known(Adding(i, e)) = {i}
  <2>1. Adding(i, e) = [devices |-> Put(i, e), revoked |-> NoMap]
    BY <1>1 DEF Adding
  <2>2. IsMap(Put(i, e), Node, Version) /\ DOMAIN Put(i, e) = {i}
    BY DEF IsMap, Put
  <2> QED
    BY <1>1, <1>2, <2>1, <2>2 DEF IsHeld, Known
<1>4. ASSUME NEW i \in Node, NEW s \in DrawnStamp
      PROVE  IsHeld(Revoking(i, s))
  <2>1. Revoking(i, s) = [devices |-> NoMap, revoked |-> Put(i, [hlc |-> s])]
    BY <1>1 DEF Revoking
  <2>2. IsMap(Put(i, [hlc |-> s]), Node, [hlc : DrawnStamp])
    BY DEF IsMap, Put
  <2> QED
    BY <1>2, <2>1, <2>2 DEF IsHeld
<1> QED
  BY <1>1, <1>2, <1>3, <1>4 DEF IsHeld, Known

(* What is left of a roster after verification and sanitising. *)
LEMMA VerifiedType ==
    ASSUME NEW l, NEW r, IsHeld(r)
    PROVE  IsHeld(SanitizeRemoteRoster(VerifyRemoteRoster(l, r)))
<1>1. \A f, S, T, K : IsMap(f, S, T) => IsMap(Only(f, K), S, T)
  BY DEF IsMap, Only
<1> DEFINE v == VerifyRemoteRoster(l, r)
<1>2. IsMap(v.devices, Node, Version) /\ IsMap(v.revoked, Node, [hlc : DrawnStamp])
  BY <1>1 DEF VerifyRemoteRoster, IsHeld
<1> HIDE DEF v
<1>3. /\ IsMap(NotFuture(v.devices, Now), Node, Version)
      /\ IsMap(NotFuture(v.revoked, Now), Node, [hlc : DrawnStamp])
  BY <1>1, <1>2 DEF NotFuture
<1>4. IsHeld(SanitizeRemoteRoster(v))
  BY <1>3 DEF SanitizeRemoteRoster, IsHeld
<1> QED
  BY <1>4 DEF v

-----------------------------------------------------------------------------
(* Type correctness. *)

GoodTask(t) ==
    \/ t = Idle
    \/ /\ t = [pc |-> "read", change |-> t.change, invite |-> t.invite, admit |-> t.admit]
       /\ IsHeld(t.change) /\ t.admit \subseteq Admitters
    \/ /\ t = [pc |-> "write", base |-> t.base, change |-> t.change,
               invite |-> t.invite, admit |-> t.admit]
       /\ IsHeld(t.base) /\ IsHeld(t.change) /\ t.admit \subseteq Admitters
    \/ /\ t = [pc |-> "check", id |-> t.id, own |-> t.own, signed |-> t.signed]
       /\ t.id \in Node /\ t.signed \in Version
    \/ /\ t = [pc |-> "offer", admit |-> t.admit]
       /\ t.admit \subseteq Admitters

AreOffers(O) == \A o \in O : IsHeld(o.roster) /\ o.admit \subseteq Admitters

TypeInv ==
    /\ group = [d \in Device |-> group[d]]
    /\ \A d \in Device : IsHeld(group[d])
    /\ self \in [Device -> Node]
    /\ clock \in [Device -> DrawnClock]
    /\ offer = [d \in Device |-> offer[d]]
    /\ \A d \in Device : AreOffers(offer[d])
    /\ task = [d \in Device |-> [s \in Slot |-> task[d][s]]]
    /\ \A d \in Device, s \in Slot : GoodTask(task[d][s])
    /\ minted \subseteq Node
    /\ used \in [invites : Nat, removals : Nat, leaves : Nat, signings : Nat]

(* Every step stores a roster at most at one device, sets at most one task and
   moves at most one clock. *)
LEMMA StoreKeepsTypes ==
    ASSUME TypeInv,
           NEW d \in Device, NEW s \in Slot, NEW e \in Device,
           task' = task \/ \E t : GoodTask(t) /\ task' = [task EXCEPT ![d][s] = t],
           group' = group \/ \E r : IsHeld(r) /\ group' = [group EXCEPT ![e] = r],
           clock' = clock \/ \E c \in DrawnClock : clock' = [clock EXCEPT ![e] = c],
           offer' = offer \/ \E O : AreOffers(O) /\ offer' = [offer EXCEPT ![d] = O],
           self' \in [Device -> Node], minted' \subseteq Node,
           used' \in [invites : Nat, removals : Nat, leaves : Nat, signings : Nat]
    PROVE  TypeInv'
<1>1. /\ task' = [x \in Device |-> [y \in Slot |-> task'[x][y]]]
      /\ \A x \in Device, y \in Slot : GoodTask(task'[x][y])
  <2>1. CASE task' = task
    BY <2>1 DEF TypeInv
  <2>2. CASE task' # task
    <3>1. PICK t : GoodTask(t) /\ task' = [task EXCEPT ![d][s] = t]
      BY <2>2
    <3>2. task' = [x \in Device |->
                     IF x = d THEN [y \in Slot |-> IF y = s THEN t ELSE task[d][y]]
                              ELSE task[x]]
      BY <3>1 DEF TypeInv
    <3>3. ASSUME NEW x \in Device
          PROVE  /\ task'[x] = [y \in Slot |-> task'[x][y]]
                 /\ \A y \in Slot : GoodTask(task'[x][y])
      <4>1. CASE x = d
        <5>1. task'[x] = [y \in Slot |-> IF y = s THEN t ELSE task[d][y]]
          BY <3>2, <4>1
        <5>2. \A y \in Slot : GoodTask(task[d][y])
          BY DEF TypeInv
        <5>3. \A y \in Slot : GoodTask(IF y = s THEN t ELSE task[d][y])
          BY <3>1, <5>2
        <5> QED
          BY <5>1, <5>3
      <4>2. CASE x # d
        <5>1. task'[x] = task[x]
          BY <3>2, <4>2
        <5>2. task[x] = [y \in Slot |-> task[x][y]]
          BY DEF TypeInv
        <5> QED
          BY <5>1, <5>2 DEF TypeInv
      <4> QED
        BY <4>1, <4>2
    <3>4. task' = [x \in Device |-> task'[x]]
      BY <3>2
    <3> QED
      BY <3>3, <3>4
  <2> QED
    BY <2>1, <2>2
<1>2. /\ group' = [x \in Device |-> group'[x]]
      /\ \A x \in Device : IsHeld(group'[x])
  BY DEF TypeInv
<1>3. clock' \in [Device -> DrawnClock]
  BY DEF TypeInv
<1>4. /\ offer' = [x \in Device |-> offer'[x]]
      /\ \A x \in Device : AreOffers(offer'[x])
  BY DEF TypeInv
<1> QED
  BY <1>1, <1>2, <1>3, <1>4 DEF TypeInv

(* What can be counted keeps its type. *)
LEMMA CountType ==
    ASSUME TypeInv, NEW op \in {"invites", "removals", "leaves", "signings"}, NEW max,
           Count(op, max)
    PROVE  used' \in [invites : Nat, removals : Nat, leaves : Nat, signings : Nat]
  BY DEF TypeInv, Count

(* Stamps and entries that are drawn. *)
LEMMA FreshType ==
    ASSUME TypeInv, NEW d \in Device
    PROVE  /\ Fresh(d) \in DrawnStamp
           /\ Send(clock[d], Now) \in DrawnClock
           /\ \A i \in OwnIds(d) : i \in Node /\ group[d].devices[i] \in Version
           /\ \A i \in DOMAIN group[d].devices : i \in Node
<1>1. clock[d] \in DrawnClock /\ self[d] \in Node
  BY DEF TypeInv
<1>2. Send(clock[d], Now) \in DrawnClock
  BY <1>1, SendDraws
<1>3. IsMap(group[d].devices, Node, Version)
  BY DEF TypeInv, IsHeld
<1> QED
  BY <1>1, <1>2, <1>3, SendDraws DEF Fresh, OwnIds, IsMap

LEMMA TaskStepKeepsTypes ==
    ASSUME TypeInv, NEW d \in Device, NEW s \in Slot, Step(d, s)
    PROVE  TypeInv'
<1> DEFINE t == task[d][s]
<1>1. GoodTask(t) /\ used' = used /\ self' = self /\ minted' = minted
      /\ offer' = offer /\ clock' = clock
  BY DEF TypeInv, Step, ReadGroup, WriteGroup
<1>2. t.pc \in {"read", "write"} => GoodTask(Done(t))
  BY <1>1 DEF GoodTask, Done, Idle
<1>3. IsHeld(group[d])
  BY DEF TypeInv
<1>4. CASE ReadGroup(d, s)
  <2> DEFINE w == [pc |-> "write", base |-> group[d], change |-> t.change,
                   invite |-> t.invite, admit |-> t.admit]
  <2>1. t.pc = "read" => GoodTask(w)
    BY <1>1, <1>3 DEF GoodTask, Idle
  <2>2. \/ task' = [task EXCEPT ![d][s] = Done(t)]
        \/ task' = [task EXCEPT ![d][s] = w]
    BY <1>4 DEF ReadGroup, TypeInv
  <2>3. t.pc = "read" /\ group' = group
    BY <1>4 DEF ReadGroup
  <2> HIDE DEF w, t
  <2>4. \E t2 : GoodTask(t2) /\ task' = [task EXCEPT ![d][s] = t2]
    BY <1>2, <2>1, <2>2, <2>3
  <2>5. /\ clock' = clock /\ offer' = offer
        /\ self' \in [Device -> Node] /\ minted' \subseteq Node
        /\ used' \in [invites : Nat, removals : Nat, leaves : Nat, signings : Nat]
    BY <1>1 DEF TypeInv
  <2> QED
    BY <2>3, <2>4, <2>5, StoreKeepsTypes
<1>5. CASE WriteGroup(d, s)
  <2> DEFINE r == MergeRosters(t.base, t.change)
  <2>1. t.pc = "write"
    BY <1>5 DEF WriteGroup
  <2>2. IsHeld(r)
    BY <1>1, <2>1, MergeIsHeld DEF GoodTask, Idle
  <2>3. group' = [group EXCEPT ![d] = r] /\ task' = [task EXCEPT ![d][s] = Done(t)]
    BY <1>5 DEF WriteGroup, TypeInv
  <2> HIDE DEF r, t
  <2>4. \E t2 : GoodTask(t2) /\ task' = [task EXCEPT ![d][s] = t2]
    BY <1>2, <2>1, <2>3
  <2>5. \E r2 : IsHeld(r2) /\ group' = [group EXCEPT ![d] = r2]
    BY <2>2, <2>3
  <2>6. /\ clock' = clock /\ offer' = offer
        /\ self' \in [Device -> Node] /\ minted' \subseteq Node
        /\ used' \in [invites : Nat, removals : Nat, leaves : Nat, signings : Nat]
    BY <1>1 DEF TypeInv
  <2> QED
    BY <2>4, <2>5, <2>6, StoreKeepsTypes
<1> QED
  BY <1>4, <1>5 DEF Step

LEMMA InviteKeepsTypes ==
    ASSUME TypeInv, NEW d \in Device, Invite(d) \/ InviteAdmitting(d) \/ Offer(d)
    PROVE  TypeInv'
<1>1. "popup" \in Slot
  BY DEF Slot
<1>2. CASE Invite(d)
  <2>1. GoodTask([pc |-> "offer", admit |-> {}])
    BY DEF GoodTask
  <2>2. /\ Count("invites", MaxInvites) /\ UNCHANGED <<group, self, clock, offer, minted>>
        /\ task' = [task EXCEPT ![d]["popup"] = [pc |-> "offer", admit |-> {}]]
    BY <1>2 DEF Invite, Start
  <2>3. \E t : GoodTask(t) /\ task' = [task EXCEPT ![d]["popup"] = t]
    BY <2>1, <2>2
  <2>4. /\ group' = group /\ clock' = clock /\ offer' = offer
        /\ self' \in [Device -> Node] /\ minted' \subseteq Node
    BY <2>2 DEF TypeInv
  <2>5. used' \in [invites : Nat, removals : Nat, leaves : Nat, signings : Nat]
    BY <2>2, CountType
  <2> QED
    BY <1>1, <2>3, <2>4, <2>5, StoreKeepsTypes
<1>3. CASE InviteAdmitting(d)
  <2>1. PICK i \in OwnIds(d) :
          LET own == group[d].devices[i]
          IN  /\ Count("invites", MaxInvites)
              /\ IF own.key
                 THEN /\ Start(d, "popup", [pc |-> "offer", admit |-> {i}])
                      /\ UNCHANGED clock
                 ELSE /\ Start(d, "popup", Change(
                            Adding(i, [own EXCEPT !.key = TRUE, !.signed = TRUE,
                                                  !.hlc = Fresh(d)]), TRUE, {i}))
                      /\ clock' = [clock EXCEPT ![d] = Send(@, Now)]
              /\ UNCHANGED <<group, self, offer, minted>>
    BY <1>3 DEF InviteAdmitting
  <2> DEFINE own == group[d].devices[i]
             e == [own EXCEPT !.key = TRUE, !.signed = TRUE, !.hlc = Fresh(d)]
  <2>2. i \in Node /\ own \in Version /\ Fresh(d) \in DrawnStamp /\ Send(clock[d], Now) \in DrawnClock
    BY FreshType
  <2>3. e \in Version /\ {i} \subseteq Admitters
    <3>1. Admits # {}
      BY <1>3 DEF InviteAdmitting
    <3>2. e \in Entry /\ e.hlc \in DrawnStamp
      <4> HIDE DEF own
      <4> QED
        BY <2>2 DEF Version, Entry, DrawnStamp
    <3> QED
      BY <2>2, <3>1, <3>2 DEF Version, Admitters
  <2>4. /\ GoodTask([pc |-> "offer", admit |-> {i}])
        /\ GoodTask(Change(Adding(i, e), TRUE, {i}))
    <3> HIDE DEF e
    <3> QED
      BY <2>2, <2>3, ChangeTypes DEF GoodTask, Change
  <2>5. \/ task' = [task EXCEPT ![d]["popup"] = [pc |-> "offer", admit |-> {i}]]
        \/ task' = [task EXCEPT ![d]["popup"] = Change(Adding(i, e), TRUE, {i})]
    BY <2>1 DEF Start
  <2>6. clock' = clock \/ clock' = [clock EXCEPT ![d] = Send(clock[d], Now)]
    BY <2>1 DEF TypeInv
  <2>7. Count("invites", MaxInvites) /\ UNCHANGED <<group, self, offer, minted>>
    BY <2>1
  <2> HIDE DEF e, own
  <2>8. \E t : GoodTask(t) /\ task' = [task EXCEPT ![d]["popup"] = t]
    BY <2>4, <2>5
  <2>9. clock' = clock \/ \E c \in DrawnClock : clock' = [clock EXCEPT ![d] = c]
    BY <2>2, <2>6
  <2>10. /\ group' = group /\ offer' = offer
         /\ self' \in [Device -> Node] /\ minted' \subseteq Node
    BY <2>7 DEF TypeInv
  <2>11. used' \in [invites : Nat, removals : Nat, leaves : Nat, signings : Nat]
    BY <2>7, CountType
  <2> QED
    BY <1>1, <2>8, <2>9, <2>10, <2>11, StoreKeepsTypes
<1>4. CASE Offer(d)
  <2> DEFINE t == task[d]["popup"]
             O == {[roster |-> group[d], admit |-> t.admit]}
  <2>1. GoodTask(t) /\ t.pc = "offer" /\ IsHeld(group[d])
    BY <1>1, <1>4 DEF TypeInv, Offer
  <2>2. AreOffers(O) /\ GoodTask(Idle)
    BY <2>1 DEF GoodTask, Idle, AreOffers
  <2>3. /\ offer' = [offer EXCEPT ![d] = O] /\ task' = [task EXCEPT ![d]["popup"] = Idle]
        /\ UNCHANGED <<group, self, clock, minted, used>>
    BY <1>4 DEF Offer
  <2> HIDE DEF O, t
  <2>4. \E t2 : GoodTask(t2) /\ task' = [task EXCEPT ![d]["popup"] = t2]
    BY <2>2, <2>3
  <2>5. \E O2 : AreOffers(O2) /\ offer' = [offer EXCEPT ![d] = O2]
    BY <2>2, <2>3
  <2>6. /\ group' = group /\ clock' = clock
        /\ self' \in [Device -> Node] /\ minted' \subseteq Node
        /\ used' \in [invites : Nat, removals : Nat, leaves : Nat, signings : Nat]
    BY <2>3 DEF TypeInv
  <2> QED
    BY <1>1, <2>4, <2>5, <2>6, StoreKeepsTypes
<1> QED
  BY <1>2, <1>3, <1>4

LEMMA JoinKeepsTypes ==
    ASSUME TypeInv, NEW d \in Device, NEW j \in Device, Join(j, d)
    PROVE  TypeInv'
<1> DEFINE own(i) == [hlc |-> StampAt(FirstClock, i), pub |-> j, signed |-> TRUE,
                      key |-> FALSE, admission |-> {}]
           admitted(o, i) == [own(i) EXCEPT !.admission =
                                {[by |-> a, of |-> own(i).hlc] : a \in o.admit}]
           t(o, i) == Change(Adding(i, admitted(o, i)), FALSE, {})
           r(o, i) == MergeRosters(o.roster, Adding(i, own(i)))
<1>1. PICK o \in offer[d], i \in Node \ minted :
         /\ minted' = minted \cup {i}
         /\ self' = [self EXCEPT ![j] = i]
         /\ clock' = [clock EXCEPT ![j] = FirstClock]
         /\ group' = [group EXCEPT ![j] = r(o, i)]
         /\ offer' = [offer EXCEPT ![d] = {}]
         /\ task' = [task EXCEPT ![d]["enrolled"] = t(o, i)]
         /\ UNCHANGED used
  BY Zenon DEF Join, Start
<1>2. IsHeld(o.roster) /\ o.admit \subseteq Admitters
  BY DEF TypeInv, AreOffers
<1>3. FirstClock \in DrawnClock /\ StampAt(FirstClock, i) \in DrawnStamp
  BY FirstDraws
<1>4. own(i) \in Version /\ own(i).hlc \in DrawnStamp
  BY <1>3 DEF Version, Entry, DrawnStamp
<1>5. admitted(o, i) \in Version
  <2> HIDE DEF own
  <2> DEFINE A == {[by |-> a, of |-> own(i).hlc] : a \in o.admit}
  <2>2. A \in SUBSET [by : Node, of : Stamp] /\ (Admits = {} => A = {})
    BY <1>2, <1>4 DEF Admitters, DrawnStamp
  <2> HIDE DEF A
  <2>3. [own(i) EXCEPT !.admission = A] \in Version
    BY <1>4, <2>2 DEF Version, Entry
  <2> QED
    BY <2>3 DEF A
<1> HIDE DEF own, admitted
<1>6. GoodTask(t(o, i))
  BY <1>5, ChangeTypes DEF GoodTask, Change
<1>7. IsHeld(r(o, i))
  BY <1>2, <1>4, ChangeTypes, MergeIsHeld
<1> HIDE DEF t, r
<1>8. "enrolled" \in Slot /\ AreOffers({})
  BY DEF Slot, AreOffers
<1>9. /\ self' \in [Device -> Node] /\ minted' \subseteq Node
      /\ used' \in [invites : Nat, removals : Nat, leaves : Nat, signings : Nat]
  BY <1>1 DEF TypeInv
<1>10. task' = task \/ \E t2 : GoodTask(t2) /\ task' = [task EXCEPT ![d]["enrolled"] = t2]
  BY <1>1, <1>6
<1>11. group' = group \/ \E r2 : IsHeld(r2) /\ group' = [group EXCEPT ![j] = r2]
  BY <1>1, <1>7
<1>12. clock' = clock \/ \E c \in DrawnClock : clock' = [clock EXCEPT ![j] = c]
  BY <1>1, <1>3
<1>13. offer' = offer \/ \E O : AreOffers(O) /\ offer' = [offer EXCEPT ![d] = O]
  BY <1>1, <1>8
<1> QED
  BY <1>8, <1>9, <1>10, <1>11, <1>12, <1>13, StoreKeepsTypes

LEMMA RemoveKeepsTypes ==
    ASSUME TypeInv, NEW d \in Device, NEW i \in Node, RemoveDevice(d, i)
    PROVE  TypeInv'
<1> DEFINE t == ReadChange(d, Revoking(i, Fresh(d)))
<1>1. Fresh(d) \in DrawnStamp /\ Send(clock[d], Now) \in DrawnClock /\ IsHeld(group[d])
  BY FreshType DEF TypeInv
<1>2. GoodTask(t)
  BY <1>1, ChangeTypes DEF GoodTask, ReadChange
<1>3. /\ Count("removals", MaxRemovals) /\ task' = [task EXCEPT ![d]["popup"] = t]
      /\ clock' = [clock EXCEPT ![d] = Send(clock[d], Now)]
      /\ UNCHANGED <<group, self, offer, minted>>
  BY DEF RemoveDevice, Start, TypeInv
<1> HIDE DEF t
<1>4. "popup" \in Slot
  BY DEF Slot
<1>5. /\ \E t2 : GoodTask(t2) /\ task' = [task EXCEPT ![d]["popup"] = t2]
      /\ \E c \in DrawnClock : clock' = [clock EXCEPT ![d] = c]
  BY <1>1, <1>2, <1>3
<1>6. /\ group' = group /\ offer' = offer
      /\ self' \in [Device -> Node] /\ minted' \subseteq Node
  BY <1>3 DEF TypeInv
<1>7. used' \in [invites : Nat, removals : Nat, leaves : Nat, signings : Nat]
  BY <1>3, CountType
<1> QED
  BY <1>4, <1>5, <1>6, <1>7, StoreKeepsTypes

LEMMA SignKeepsTypes ==
    ASSUME TypeInv, NEW d \in Device, SignOwn(d) \/ SignCheck(d)
    PROVE  TypeInv'
<1>1. "unlock" \in Slot
  BY DEF Slot
<1>2. CASE SignOwn(d)
  <2> DEFINE own(i) == group[d].devices[i]
             c(i) == Send(Receive(clock[d], own(i).hlc, Now), Now)
             e(i) == [own(i) EXCEPT !.signed = TRUE, !.hlc = StampAt(c(i), self[d])]
             t(i) == [pc |-> "check", id |-> i, own |-> own(i), signed |-> e(i)]
  <2>1. PICK i \in OwnIds(d) :
           /\ Count("signings", MaxSignings)
           /\ clock' = [clock EXCEPT ![d] = c(i)]
           /\ task' = [task EXCEPT ![d]["unlock"] = t(i)]
           /\ UNCHANGED <<group, self, offer, minted>>
    BY <1>2, Zenon DEF SignOwn, Start
  <2>2. i \in Node /\ own(i) \in Version /\ own(i).hlc \in DrawnStamp
    BY FreshType DEF Version
  <2>3. c(i) \in DrawnClock
    <3>1. clock[d] \in DrawnClock
      BY DEF TypeInv
    <3> HIDE DEF own
    <3> QED
      BY <2>2, <3>1, ReceiveDraws, SendDraws
  <2>4. StampAt(c(i), self[d]) \in DrawnStamp
    <3> HIDE DEF c
    <3> QED
      BY <2>3, SendDraws DEF TypeInv
  <2>5. e(i) \in Version
    <3> HIDE DEF c, own
    <3> QED
      BY <2>2, <2>4 DEF Version, Entry, DrawnStamp
  <2> HIDE DEF c, e, own
  <2>6. GoodTask(t(i))
    BY <2>2, <2>5 DEF GoodTask
  <2> HIDE DEF t
  <2>7. /\ \E t2 : GoodTask(t2) /\ task' = [task EXCEPT ![d]["unlock"] = t2]
        /\ \E c2 \in DrawnClock : clock' = [clock EXCEPT ![d] = c2]
    BY <2>1, <2>3, <2>6
  <2>8. /\ group' = group /\ offer' = offer
        /\ self' \in [Device -> Node] /\ minted' \subseteq Node
    BY <2>1 DEF TypeInv
  <2>9. used' \in [invites : Nat, removals : Nat, leaves : Nat, signings : Nat]
    BY <2>1, CountType
  <2> QED
    BY <1>1, <2>7, <2>8, <2>9, StoreKeepsTypes
<1>3. CASE SignCheck(d)
  <2> DEFINE t == task[d]["unlock"]
             w == ReadChange(d, Adding(t.id, t.signed))
  <2>1. GoodTask(t) /\ t.pc = "check" /\ IsHeld(group[d])
    BY <1>1, <1>3 DEF TypeInv, SignCheck
  <2>2. t.id \in Node /\ t.signed \in Version
    BY <2>1 DEF GoodTask, Idle
  <2>3. task' = [task EXCEPT ![d]["unlock"] = w] \/ task' = [task EXCEPT ![d]["unlock"] = Idle]
    BY <1>3 DEF SignCheck
  <2>4. GoodTask(Idle) /\ GoodTask(w)
    <3> HIDE DEF t
    <3> QED
      BY <2>1, <2>2, ChangeTypes DEF GoodTask, ReadChange
  <2>5. UNCHANGED <<group, self, clock, offer, minted, used>>
    BY <1>3 DEF SignCheck
  <2> HIDE DEF w, t
  <2>6. \E t2 : GoodTask(t2) /\ task' = [task EXCEPT ![d]["unlock"] = t2]
    BY <2>3, <2>4
  <2>7. /\ group' = group /\ clock' = clock /\ offer' = offer
        /\ self' \in [Device -> Node] /\ minted' \subseteq Node
        /\ used' \in [invites : Nat, removals : Nat, leaves : Nat, signings : Nat]
    BY <2>5 DEF TypeInv
  <2> QED
    BY <1>1, <2>6, <2>7, StoreKeepsTypes
<1> QED
  BY <1>2, <1>3

LEMMA LeaveKeepsTypes ==
    ASSUME TypeInv, NEW d \in Device, Leave(d)
    PROVE  TypeInv'
<1>1. "popup" \in Slot /\ AreOffers({}) /\ Count("leaves", MaxLeaves)
  BY DEF Slot, AreOffers, Leave
<1> QED
  BY <1>1, ChangeTypes, CountType, StoreKeepsTypes DEF Leave, TypeInv

LEMMA GossipKeepsTypes ==
    ASSUME TypeInv, NEW d \in Device, NEW e \in Device, NEW s \in BgTask, Gossip(d, e, s)
    PROVE  TypeInv'
<1> DEFINE r == SanitizeRemoteRoster(VerifyRemoteRoster(group[e], group[d]))
           t == Change(r, FALSE, {})
<1>1. IsHeld(r)
  BY VerifiedType DEF TypeInv
<1> HIDE DEF r
<1>2. GoodTask(t)
  BY <1>1 DEF GoodTask, Change
<1>3. task' = [task EXCEPT ![e][s] = t] /\ UNCHANGED <<group, self, clock, offer, minted, used>>
  BY DEF Gossip, Start, r
<1> HIDE DEF t
<1>4. s \in Slot
  BY DEF Slot
<1> QED
  BY <1>2, <1>3, <1>4, StoreKeepsTypes DEF TypeInv

LEMMA FirstTypes == Init => TypeInv
<1> SUFFICES ASSUME Init PROVE TypeInv
  OBVIOUS
<1>1. FirstClock \in DrawnClock /\ \A d \in Node : /\ StampAt(FirstClock, d) \in DrawnStamp
                                                  /\ StampAt(FirstClock, d).counter = 0
  BY FirstDraws
<1>2. IsHeld(FirstRoster)
  <2> DEFINE e(d) == [hlc |-> StampAt(FirstClock, d), pub |-> d, signed |-> d \notin Legacy,
                      key |-> FALSE, admission |-> {}]
  <2> DEFINE first == [d \in Members |-> e(d)]
  <2>0. FirstRoster = [EmptyRoster EXCEPT !.devices = first]
    BY Zenon DEF FirstRoster
  <2> HIDE DEF first
  <2>1. FirstRoster = [devices |-> first, revoked |-> NoMap]
    BY <2>0 DEF EmptyRoster
  <2>2. \A d \in Members : e(d) \in Version
    BY <1>1, MembersAssumption DEF Version, Entry, DrawnStamp
  <2> HIDE DEF e
  <2>3. IsMap(first, Node, Version) /\ IsMap(NoMap, Node, [hlc : DrawnStamp])
    BY <2>2, MembersAssumption DEF IsMap, NoMap, first
  <2> QED
    BY <2>1, <2>3 DEF IsHeld
<1>3. /\ group = [d \in Device |-> group[d]]
      /\ \A d \in Device : IsHeld(group[d])
  BY <1>2, ChangeTypes DEF Init
<1>4. \A d \in Device : AreOffers(offer[d])
  BY DEF Init, AreOffers
<1>5. /\ task = [d \in Device |-> [s \in Slot |-> task[d][s]]]
      /\ \A d \in Device, s \in Slot : GoodTask(task[d][s])
  BY DEF Init, GoodTask
<1> QED
  BY <1>1, <1>3, <1>4, <1>5, MembersAssumption DEF Init, TypeInv

LEMMA TypesAreKept == TypeInv /\ [Next]_vars => TypeInv'
<1> SUFFICES ASSUME TypeInv, [Next]_vars PROVE TypeInv'
  OBVIOUS
<1>1. CASE UNCHANGED vars
  BY <1>1 DEF vars, TypeInv
<1>2. CASE Next
  BY <1>2, TaskStepKeepsTypes, InviteKeepsTypes, JoinKeepsTypes, RemoveKeepsTypes,
     SignKeepsTypes, LeaveKeepsTypes, GossipKeepsTypes DEF Next
<1> QED
  BY <1>1, <1>2

(* What sync.group, the invitations and the running changes hold are rosters
   and entries, for any devices, ids and bounds. *)
THEOREM TypeCorrect == Spec => []TypeOK
<1>1. TypeInv => TypeOK
  <2> SUFFICES ASSUME TypeInv PROVE TypeOK
    OBVIOUS
  <2>1. ASSUME NEW t, GoodTask(t)
        PROVE  /\ t.pc \in {"idle", "read", "write", "check", "offer"}
               /\ t.pc \in {"read", "write"} => IsRoster(t.change)
               /\ t.pc = "write" => IsRoster(t.base)
    BY <2>1, HeldIsRoster DEF GoodTask, Idle
  <2>2. clock \in [Device -> Clock]
    BY DEF TypeInv, DrawnClock
  <2>3. Admitters \subseteq Node
    BY DEF Admitters
  <2> QED
    BY <2>1, <2>2, <2>3, HeldIsRoster DEF TypeInv, TypeOK, AreOffers
<1> QED
  BY <1>1, FirstTypes, TypesAreKept, PTL DEF Spec

-----------------------------------------------------------------------------
(* A device's own entry. *)

(* As long as no device has left: what a device is about to write is based on
   a roster that knows it, and only members write. *)
BaseKnows(d, t) == t.pc = "write" => Enrolled(d) /\ self[d] \in Known(t.base)

SelfInv ==
    used.leaves = 0 =>
        /\ \A d \in Device : Enrolled(d) => self[d] \in Known(group[d])
        /\ \A d \in Device, s \in Slot : BaseKnows(d, task[d][s])

LEMMA WhoIsKnownIsEnrolled ==
    ASSUME NEW d \in Device, NEW i \in Known(group[d])
    PROVE  Enrolled(d)
  BY ChangeTypes DEF Enrolled

(* A step that only starts or ends a change, based on the roster it read. *)
LEMMA TaskKeepsSelf ==
    ASSUME TypeInv, SelfInv, group' = group, self' = self,
           used'.leaves = 0 => used.leaves = 0,
           NEW d \in Device, NEW s \in Slot, NEW t,
           task' = [task EXCEPT ![d][s] = t],
           t.pc = "write" => Enrolled(d) /\ t.base = group[d]
    PROVE  SelfInv'
<1> SUFFICES ASSUME used'.leaves = 0
             PROVE  /\ \A x \in Device : Enrolled(x)' => self[x] \in Known(group[x])
                    /\ \A x \in Device, y \in Slot : BaseKnows(x, task[x][y])'
  BY DEF SelfInv
<1>1. \A x \in Device : Enrolled(x) => self[x] \in Known(group[x])
  BY DEF SelfInv
<1>2. \A x \in Device : Enrolled(x)' = Enrolled(x)
  BY DEF Enrolled
<1>3. ASSUME NEW x \in Device, NEW y \in Slot
      PROVE  BaseKnows(x, task[x][y])'
  <2>1. task'[x][y] = task[x][y] \/ (x = d /\ task'[x][y] = t)
    <3>1. task' = [u \in Device |->
                     IF u = d THEN [v \in Slot |-> IF v = s THEN t ELSE task[d][v]]
                              ELSE task[u]]
      BY DEF TypeInv
    <3> QED
      BY <3>1
  <2>2. BaseKnows(x, task[x][y])
    BY DEF SelfInv
  <2> QED
    BY <1>1, <1>2, <2>1, <2>2 DEF BaseKnows
<1> QED
  BY <1>1, <1>2, <1>3

LEMMA WriteKeepsSelf ==
    ASSUME TypeInv, SelfInv, NEW d \in Device, NEW s \in Slot, WriteGroup(d, s)
    PROVE  SelfInv'
<1> SUFFICES ASSUME used.leaves = 0
             PROVE  /\ \A x \in Device : Enrolled(x)' => self[x] \in Known(group'[x])
                    /\ \A x \in Device, y \in Slot : BaseKnows(x, task[x][y])'
  BY DEF SelfInv, WriteGroup
<1> DEFINE t == task[d][s]
           r == MergeRosters(t.base, t.change)
<1>1. GoodTask(t) /\ t.pc = "write" /\ BaseKnows(d, t)
  BY DEF TypeInv, SelfInv, WriteGroup
<1>2. self[d] \in Known(r)
  BY <1>1, HeldIsRoster, MergeOfRosters DEF GoodTask, Idle, BaseKnows
<1>3. group' = [group EXCEPT ![d] = r] /\ self' = self
  BY DEF WriteGroup
<1>4. task' = [u \in Device |->
                 IF u = d THEN [v \in Slot |-> IF v = s THEN Done(t) ELSE task[d][v]]
                          ELSE task[u]]
  BY DEF WriteGroup, TypeInv
<1>5. Done(t).pc # "write"
  BY DEF Done, Idle
<1> HIDE DEF t, r
<1>6. ASSUME NEW x \in Device
      PROVE  /\ Enrolled(x)' => self[x] \in Known(group'[x])
             /\ Enrolled(x) => Enrolled(x)'
  <2>1. CASE x = d
    <3>1. group'[x] = r
      BY <1>3, <2>1 DEF TypeInv
    <3> QED
      BY <1>2, <2>1, <3>1, ChangeTypes DEF Enrolled
  <2>2. CASE x # d
    <3>1. group'[x] = group[x]
      BY <1>3, <2>2 DEF TypeInv
    <3> QED
      BY <3>1 DEF Enrolled, SelfInv
  <2> QED
    BY <2>1, <2>2
<1>7. ASSUME NEW x \in Device, NEW y \in Slot
      PROVE  BaseKnows(x, task[x][y])'
  <2>1. task'[x][y] = task[x][y] \/ task'[x][y] = Done(t)
    BY <1>4
  <2>2. BaseKnows(x, task[x][y])
    BY DEF SelfInv
  <2> QED
    BY <1>3, <1>5, <1>6, <2>1, <2>2 DEF BaseKnows
<1> QED
  BY <1>6, <1>7

LEMMA JoinKeepsSelf ==
    ASSUME TypeInv, SelfInv, NEW d \in Device, NEW j \in Device, Join(j, d)
    PROVE  SelfInv'
<1> SUFFICES ASSUME used.leaves = 0
             PROVE  /\ \A x \in Device : Enrolled(x)' => self'[x] \in Known(group'[x])
                    /\ \A x \in Device, y \in Slot : BaseKnows(x, task[x][y])'
  BY DEF SelfInv, Join
<1> DEFINE own(i) == [hlc |-> StampAt(FirstClock, i), pub |-> j, signed |-> TRUE,
                      key |-> FALSE, admission |-> {}]
           r(o, i) == MergeRosters(o.roster, Adding(i, own(i)))
<1>1. PICK o \in offer[d], i \in Node \ minted :
         /\ j # d /\ ~Enrolled(j)
         /\ self' = [self EXCEPT ![j] = i]
         /\ group' = [group EXCEPT ![j] = r(o, i)]
         /\ \E c : task' = [task EXCEPT ![d]["enrolled"] = Change(c, FALSE, {})]
  BY Zenon DEF Join, Start
<1>2. own(i) \in Version
  BY FirstDraws DEF Version, Entry, DrawnStamp
<1>3. i \in Known(r(o, i))
  <2> HIDE DEF own
  <2>1. IsRoster(o.roster)
    BY HeldIsRoster DEF TypeInv, AreOffers
  <2> QED
    BY <1>2, <2>1, ChangeTypes, HeldIsRoster, MergeOfRosters
<1> HIDE DEF r
<1>4. ASSUME NEW x \in Device
      PROVE  /\ Enrolled(x)' => self'[x] \in Known(group'[x])
             /\ Enrolled(x) => Enrolled(x)' /\ self'[x] = self[x]
  <2>1. CASE x = j
    BY <1>1, <1>3, <2>1 DEF TypeInv
  <2>2. CASE x # j
    <3>1. group'[x] = group[x] /\ self'[x] = self[x]
      BY <1>1, <2>2 DEF TypeInv
    <3> QED
      BY <3>1 DEF Enrolled, SelfInv
  <2> QED
    BY <2>1, <2>2
<1>5. ASSUME NEW x \in Device, NEW y \in Slot
      PROVE  BaseKnows(x, task[x][y])'
  <2>1. task'[x][y] = task[x][y] \/ task'[x][y].pc = "read"
    <3>1. PICK t : t.pc = "read" /\ task' = [task EXCEPT ![d]["enrolled"] = t]
      BY <1>1 DEF Change
    <3>2. task' = [u \in Device |->
                     IF u = d THEN [v \in Slot |-> IF v = "enrolled" THEN t ELSE task[d][v]]
                              ELSE task[u]]
      BY <3>1 DEF TypeInv
    <3> QED
      BY <3>1, <3>2
  <2>2. BaseKnows(x, task[x][y])
    BY DEF SelfInv
  <2> QED
    BY <1>4, <2>1, <2>2 DEF BaseKnows
<1> QED
  BY <1>4, <1>5

LEMMA CountGrows ==
    ASSUME TypeInv, NEW op \in {"invites", "removals", "signings"}, NEW max, Count(op, max)
    PROVE  used'.leaves = used.leaves
  BY DEF TypeInv, Count

LEMMA TaskStepsKeepSelf ==
    ASSUME TypeInv, SelfInv, NEW d \in Device,
           \/ \E s \in Slot : ReadGroup(d, s)
           \/ Invite(d) \/ InviteAdmitting(d) \/ Offer(d)
           \/ \E i \in Node : RemoveDevice(d, i)
           \/ SignOwn(d) \/ SignCheck(d)
           \/ \E e \in Device, s \in BgTask : Gossip(d, e, s)
    PROVE  SelfInv'
<1>0. {"popup", "unlock", "enrolled"} \subseteq Slot /\ BgTask \subseteq Slot
  BY DEF Slot
<1>1. ASSUME NEW s \in Slot, ReadGroup(d, s) PROVE SelfInv'
  <2> DEFINE t == task[d][s]
             w == [pc |-> "write", base |-> group[d], change |-> t.change,
                   invite |-> t.invite, admit |-> t.admit]
             n == IF ~Enrolled(d) THEN Done(t) ELSE w
  <2>1. task' = [task EXCEPT ![d][s] = n]
    BY <1>1 DEF ReadGroup, TypeInv
  <2>2. Done(t).pc # "write" /\ w.base = group[d]
    BY DEF Done, Idle
  <2>3. n.pc = "write" => Enrolled(d) /\ n.base = group[d]
    <3> HIDE DEF t, w
    <3> QED
      BY <2>2
  <2>4. group' = group /\ self' = self /\ used' = used
    BY <1>1 DEF ReadGroup
  <2> HIDE DEF n
  <2> QED
    BY <2>1, <2>3, <2>4, TaskKeepsSelf
<1>2. CASE Invite(d)
  <2> DEFINE t == [pc |-> "offer", admit |-> {}]
  <2>1. task' = [task EXCEPT ![d]["popup"] = t] /\ t.pc # "write"
    BY <1>2 DEF Invite, Start
  <2>2. Count("invites", MaxInvites) /\ group' = group /\ self' = self
    BY <1>2 DEF Invite
  <2> HIDE DEF t
  <2> QED
    BY <1>0, <2>1, <2>2, CountGrows, TaskKeepsSelf
<1>3. CASE InviteAdmitting(d)
  <2> DEFINE own(i) == group[d].devices[i]
             c(i) == Change(Adding(i, [own(i) EXCEPT !.key = TRUE, !.signed = TRUE,
                                                     !.hlc = Fresh(d)]), TRUE, {i})
             o(i) == [pc |-> "offer", admit |-> {i}]
  <2>1. \A i : c(i).pc # "write" /\ o(i).pc # "write"
    BY DEF Change
  <2> HIDE DEF c, o
  <2>2. \E i : \/ task' = [task EXCEPT ![d]["popup"] = c(i)]
               \/ task' = [task EXCEPT ![d]["popup"] = o(i)]
    BY <1>3 DEF InviteAdmitting, Start, c, o
  <2>3. Count("invites", MaxInvites) /\ group' = group /\ self' = self
    BY <1>3 DEF InviteAdmitting
  <2> QED
    BY <1>0, <2>1, <2>2, <2>3, CountGrows, TaskKeepsSelf
<1>4. CASE Offer(d)
  <2>1. Idle.pc # "write"
    BY DEF Idle
  <2> QED
    BY <1>0, <1>4, <2>1, TaskKeepsSelf DEF Offer
<1>5. ASSUME NEW i \in Node, RemoveDevice(d, i) PROVE SelfInv'
  <2> DEFINE t == ReadChange(d, Revoking(i, Fresh(d)))
  <2>1. Enrolled(d)
    BY <1>5, WhoIsKnownIsEnrolled DEF RemoveDevice, Known
  <2>2. task' = [task EXCEPT ![d]["popup"] = t] /\ t.base = group[d]
    BY <1>5 DEF RemoveDevice, Start, ReadChange
  <2>3. Count("removals", MaxRemovals) /\ group' = group /\ self' = self
    BY <1>5 DEF RemoveDevice
  <2> HIDE DEF t
  <2> QED
    BY <1>0, <2>1, <2>2, <2>3, CountGrows, TaskKeepsSelf
<1>6. CASE SignOwn(d)
  <2> DEFINE own(i) == group[d].devices[i]
             c(i) == Send(Receive(clock[d], own(i).hlc, Now), Now)
             t(i) == [pc |-> "check", id |-> i, own |-> own(i),
                      signed |-> [own(i) EXCEPT !.signed = TRUE,
                                                !.hlc = StampAt(c(i), self[d])]]
  <2>1. \A i : t(i).pc # "write"
    OBVIOUS
  <2>2. \E i : task' = [task EXCEPT ![d]["unlock"] = t(i)]
    BY <1>6, Zenon DEF SignOwn, Start
  <2>3. Count("signings", MaxSignings) /\ group' = group /\ self' = self
    BY <1>6 DEF SignOwn
  <2> HIDE DEF t
  <2> QED
    BY <1>0, <2>1, <2>2, <2>3, CountGrows, TaskKeepsSelf
<1>7. CASE SignCheck(d)
  <2> DEFINE t == task[d]["unlock"]
             w == ReadChange(d, Adding(t.id, t.signed))
             n == IF t.id \in DOMAIN group[d].devices /\ group[d].devices[t.id] = t.own
                  THEN w ELSE Idle
  <2>1. task' = [task EXCEPT ![d]["unlock"] = n]
    BY <1>7, Zenon DEF SignCheck
  <2>2. w.base = group[d] /\ Idle.pc # "write"
    BY DEF ReadChange, Idle
  <2>3. t.id \in DOMAIN group[d].devices => Enrolled(d)
    BY WhoIsKnownIsEnrolled DEF Known
  <2>4. n.pc = "write" => Enrolled(d) /\ n.base = group[d]
    <3> HIDE DEF t, w
    <3> QED
      BY <2>2, <2>3
  <2>5. group' = group /\ self' = self /\ used' = used
    BY <1>7 DEF SignCheck
  <2> HIDE DEF n
  <2> QED
    BY <1>0, <2>1, <2>4, <2>5, TaskKeepsSelf
<1>8. ASSUME NEW e \in Device, NEW s \in BgTask, Gossip(d, e, s) PROVE SelfInv'
  <2> DEFINE t == Change(SanitizeRemoteRoster(VerifyRemoteRoster(group[e], group[d])), FALSE, {})
  <2>1. task' = [task EXCEPT ![e][s] = t] /\ t.pc # "write"
    BY <1>8 DEF Gossip, Start, Change
  <2>2. group' = group /\ self' = self /\ used' = used
    BY <1>8 DEF Gossip
  <2> HIDE DEF t
  <2> QED
    BY <1>0, <2>1, <2>2, TaskKeepsSelf
<1> QED
  BY <1>1, <1>2, <1>3, <1>4, <1>5, <1>6, <1>7, <1>8

(* A member is listed in its own roster or knows that it was revoked, whatever
   changes of the roster overlap, as long as nobody has left the group: a
   change that outlives a disconnect can store a roster after the device has
   joined anew under another id. *)
THEOREM SelfStaysListed == Spec => []SelfListed
<1>1. Init => TypeInv /\ SelfInv
  <2> SUFFICES ASSUME Init PROVE SelfInv
    BY FirstTypes
  <2>1. DOMAIN FirstRoster.devices = Members
    BY DEF FirstRoster, EmptyRoster
  <2>2. \A d \in Device : Enrolled(d) => self[d] \in Known(group[d])
    BY <2>1 DEF Init, Enrolled, Known
  <2>3. \A d \in Device, s \in Slot : BaseKnows(d, task[d][s])
    BY DEF Init, BaseKnows, Idle
  <2> QED
    BY <2>2, <2>3 DEF SelfInv
<1>2. TypeInv /\ SelfInv /\ [Next]_vars => (TypeInv /\ SelfInv)'
  <2> SUFFICES ASSUME TypeInv, SelfInv, [Next]_vars PROVE SelfInv'
    BY TypesAreKept
  <2>1. CASE UNCHANGED vars
    BY <2>1 DEF vars, SelfInv, BaseKnows, Enrolled
  <2>2. ASSUME NEW d \in Device, NEW s \in Slot, Step(d, s) PROVE SelfInv'
    BY <2>2, TaskStepsKeepSelf, WriteKeepsSelf DEF Step
  <2>3. ASSUME NEW d \in Device, Leave(d) PROVE SelfInv'
    <3>1. used'.leaves = used.leaves + 1 /\ used.leaves \in Nat
      BY <2>3 DEF Leave, Count, TypeInv
    <3> QED
      BY <3>1 DEF SelfInv
  <2> QED
    BY <2>1, <2>2, <2>3, TaskStepsKeepSelf, JoinKeepsSelf DEF Next
<1>3. SelfInv => SelfListed
  BY DEF SelfInv, SelfListed, Known
<1> QED
  BY <1>1, <1>2, <1>3, PTL DEF Spec
-----------------------------------------------------------------------------
(* One entry per id and stamp. *)

(* The entries a roster, a running change and a device hold. *)
Lists(r, i, e) == i \in DOMAIN r.devices /\ e = r.devices[i]

InTask(t, i, e) ==
    \/ t.pc = "read" /\ Lists(t.change, i, e)
    \/ t.pc = "write" /\ (Lists(t.base, i, e) \/ Lists(t.change, i, e))
    \/ t.pc = "check" /\ i = t.id /\ e = t.signed

InOffers(O, i, e) == \E o \in O : Lists(o.roster, i, e)

Holds(d, i, e) ==
    \/ Lists(group[d], i, e)
    \/ InOffers(offer[d], i, e)
    \/ \E s \in Slot : InTask(task[d][s], i, e)

Held(i, e) == \E d \in Device : Holds(d, i, e)

(* A device that may still draw stamps. *)
Active(d) == \/ Enrolled(d)
             \/ offer[d] # {}
             \/ \E s \in Slot : task[d][s] # Idle

(* Stamps come from ids in use; where the device of the id is active, its
   clock is not behind them. *)
Drawn(s) ==
    /\ s.node \in minted
    /\ \A d \in Device : Active(d) /\ self[d] = s.node => s.counter <= clock[d].counter

(* Versions of an entry: one per stamp, and a signed one replaces an unsigned
   one where no admission key is published. *)
Consistent(e, f) ==
    /\ e.hlc = f.hlc => [e EXCEPT !.admission = f.admission] = f
    /\ Admits = {} /\ ~e.signed /\ f.signed => e.hlc.counter < f.hlc.counter

VersionInv ==
    /\ \A d \in Device : Active(d) => self[d] \in minted
    /\ \A d, e \in Device : Active(d) /\ Active(e) /\ self[d] = self[e] => d = e
    /\ \A i, e : Held(i, e) => i \in minted /\ Drawn(e.hlc)
    /\ \A i, e, f : Held(i, e) /\ Held(i, f) => Consistent(e, f)

LEMMA HeldVersions ==
    ASSUME TypeInv, NEW i, NEW e, Held(i, e)
    PROVE  e \in Version /\ i \in Node
<1>1. ASSUME NEW r, IsHeld(r), Lists(r, i, e)
      PROVE  e \in Version /\ i \in Node
  BY <1>1 DEF IsHeld, IsMap, Lists
<1>2. ASSUME NEW t, GoodTask(t), InTask(t, i, e)
      PROVE  e \in Version /\ i \in Node
  BY <1>1, <1>2 DEF GoodTask, InTask, Idle
<1>3. PICK d \in Device : Holds(d, i, e)
  BY DEF Held
<1>4. IsHeld(group[d]) /\ AreOffers(offer[d]) /\ \A s \in Slot : GoodTask(task[d][s])
  BY DEF TypeInv
<1> QED
  BY <1>1, <1>2, <1>3, <1>4 DEF Holds, AreOffers, InOffers

(* What the rosters that are stored and merged in list. *)
LEMMA WhatIsListed ==
    ASSUME NEW i, NEW e
    PROVE  /\ ~Lists(EmptyRoster, i, e)
           /\ ~InTask(Idle, i, e)
           /\ \A j, f : Lists(Adding(j, f), i, e) => i = j /\ e = f
           /\ \A j, s : ~Lists(Revoking(j, s), i, e)
           /\ \A a, b : Lists(MergeRosters(a, b), i, e) => Lists(a, i, e) \/ Lists(b, i, e)
           /\ \A l, r : Lists(SanitizeRemoteRoster(VerifyRemoteRoster(l, r)), i, e)
                            => Lists(r, i, e)
<1>1. EmptyRoster = [devices |-> NoMap, revoked |-> NoMap] /\ DOMAIN NoMap = {}
  BY DEF EmptyRoster, NoMap
<1>2. ASSUME NEW j, NEW f
      PROVE  Lists(Adding(j, f), i, e) => i = j /\ e = f
  BY <1>1 DEF Adding, Lists, Put
<1>3. ASSUME NEW j, NEW s
      PROVE  ~Lists(Revoking(j, s), i, e)
  BY <1>1 DEF Revoking, Lists
<1>4. ASSUME NEW a, NEW b
      PROVE  Lists(MergeRosters(a, b), i, e) => Lists(a, i, e) \/ Lists(b, i, e)
  BY MergeLists DEF Lists
<1>5. ASSUME NEW l, NEW r
      PROVE  Lists(SanitizeRemoteRoster(VerifyRemoteRoster(l, r)), i, e) => Lists(r, i, e)
  BY DEF SanitizeRemoteRoster, VerifyRemoteRoster, NotFuture, Only, Lists
<1> QED
  BY <1>1, <1>2, <1>3, <1>4, <1>5 DEF Lists, InTask, Idle

(* What is held after a step that sets one task, one roster and one offer. *)
LEMMA HeldAfter ==
    ASSUME TypeInv, NEW d \in Device, NEW s \in Slot, NEW g \in Device,
           NEW t, NEW r, NEW O,
           task' = task \/ task' = [task EXCEPT ![d][s] = t],
           group' = group \/ group' = [group EXCEPT ![g] = r],
           offer' = offer \/ offer' = [offer EXCEPT ![d] = O]
    PROVE  /\ \A i, e : Held(i, e)' => \/ Held(i, e)
                                       \/ InTask(t, i, e)
                                       \/ Lists(r, i, e)
                                       \/ InOffers(O, i, e)
           /\ \A x \in Device : Active(x)' => Active(x) \/ x = d \/ x = g
<1>1. ASSUME NEW x \in Device, NEW y \in Slot
      PROVE  task'[x][y] = task[x][y] \/ (x = d /\ task'[x][y] = t)
  <2>1. CASE task' = [task EXCEPT ![d][s] = t]
    <3>1. task' = [u \in Device |->
                     IF u = d THEN [v \in Slot |-> IF v = s THEN t ELSE task[d][v]]
                              ELSE task[u]]
      BY <2>1 DEF TypeInv
    <3> QED
      BY <3>1
  <2> QED
    BY <2>1
<1>2. ASSUME NEW x \in Device
      PROVE  /\ group'[x] = group[x] \/ (x = g /\ group'[x] = r)
             /\ offer'[x] = offer[x] \/ (x = d /\ offer'[x] = O)
  BY DEF TypeInv
<1>3. ASSUME NEW i, NEW e, Held(i, e)'
      PROVE  Held(i, e) \/ InTask(t, i, e) \/ Lists(r, i, e) \/ InOffers(O, i, e)
  <2>1. PICK x \in Device : \/ Lists(group'[x], i, e)
                            \/ InOffers(offer'[x], i, e)
                            \/ \E y \in Slot : InTask(task'[x][y], i, e)
    BY <1>3 DEF Held, Holds
  <2>2. CASE Lists(group'[x], i, e)
    BY <1>2, <2>2 DEF Held, Holds
  <2>3. CASE InOffers(offer'[x], i, e)
    BY <1>2, <2>3 DEF Held, Holds
  <2>4. CASE \E y \in Slot : InTask(task'[x][y], i, e)
    BY <1>1, <2>4 DEF Held, Holds
  <2> QED
    BY <2>1, <2>2, <2>3, <2>4
<1>4. ASSUME NEW x \in Device, Active(x)'
      PROVE  Active(x) \/ x = d \/ x = g
  BY <1>1, <1>2, <1>4 DEF Active, Enrolled
<1> QED
  BY <1>3, <1>4

(* A step that draws no stamp for an entry. *)
LEMMA QuietKeepsVersions ==
    ASSUME TypeInv, TypeInv', VersionInv, self' = self, minted' = minted,
           \A i, e : Held(i, e)' => Held(i, e),
           \A d \in Device : Active(d)' => Active(d),
           \A d \in Device : clock'[d].counter >= clock[d].counter
    PROVE  VersionInv'
<1>1. ASSUME NEW i, NEW e, Held(i, e)'
      PROVE  i \in minted /\ Drawn(e.hlc)'
  <2>1. i \in minted /\ Drawn(e.hlc) /\ e \in Version
    BY <1>1, HeldVersions DEF VersionInv
  <2>2. ASSUME NEW d \in Device, Active(d)', self[d] = e.hlc.node
        PROVE  e.hlc.counter <= clock'[d].counter
    <3>1. e.hlc.counter <= clock[d].counter /\ clock'[d].counter >= clock[d].counter
      BY <2>1, <2>2 DEF Drawn
    <3>2. /\ e.hlc.counter \in Nat /\ clock[d].counter \in Nat
          /\ clock'[d].counter \in Nat
      BY <2>1 DEF TypeInv, Version, DrawnStamp, Stamp, DrawnClock, Clock
    <3> QED
      BY <3>1, <3>2
  <2> QED
    BY <2>1, <2>2 DEF Drawn
<1>2. \A i, e, f : Held(i, e)' /\ Held(i, f)' => Consistent(e, f)
  BY DEF VersionInv
<1>3. \A d \in Device : Active(d)' => self[d] \in minted
  BY DEF VersionInv
<1>4. \A d, e \in Device : Active(d)' /\ Active(e)' /\ self[d] = self[e] => d = e
  BY DEF VersionInv
<1> QED
  BY <1>1, <1>2, <1>3, <1>4 DEF VersionInv, Consistent

(* An active device re-stamps an entry. *)
LEMMA RestampKeepsVersions ==
    ASSUME TypeInv, TypeInv', VersionInv, self' = self, minted' = minted,
           NEW d \in Device, Active(d), NEW c \in DrawnClock,
           c.counter > clock[d].counter, clock' = [clock EXCEPT ![d] = c],
           NEW i, NEW own, Held(i, own),
           NEW n \in Version, n.hlc = StampAt(c, self[d]), Admits = {} => n.signed,
           \A j, e : Held(j, e)' => Held(j, e) \/ (j = i /\ e = n),
           \A x \in Device : Active(x)' => Active(x)
    PROVE  VersionInv'
<1>0. /\ c.counter \in Nat /\ clock[d].counter \in Nat
      /\ n.hlc.node = self[d] /\ n.hlc.counter = c.counter
  BY DEF TypeInv, DrawnClock, Clock, StampAt
<1>1. /\ clock'[d] = c
      /\ \A x \in Device : x # d => clock'[x] = clock[x]
      /\ \A x \in Device : clock[x].counter \in Nat
  BY DEF TypeInv, DrawnClock, Clock
<1>2. \A x, y \in Device : Active(x) /\ Active(y) /\ self[x] = self[y] => x = y
  BY DEF VersionInv
<1>3. i \in minted /\ self[d] \in minted
  BY DEF VersionInv
<1>4. ASSUME NEW f, Held(i, f)
      PROVE  Consistent(f, n) /\ Consistent(n, f)
  <2>1. f \in Version /\ Drawn(f.hlc)
    BY <1>4, HeldVersions DEF VersionInv
  <2>2. f.hlc.counter \in Nat
    BY <2>1 DEF Version, DrawnStamp, Stamp
  <2>3. f.hlc # n.hlc
    <3> SUFFICES ASSUME f.hlc = n.hlc PROVE FALSE
      OBVIOUS
    <3>1. f.hlc.node = self[d] /\ f.hlc.counter = c.counter
      BY <1>0
    <3>2. f.hlc.counter <= clock[d].counter
      BY <2>1, <3>1 DEF Drawn
    <3> QED
      BY <1>0, <2>2, <3>1, <3>2
  <2>4. Admits = {} /\ ~f.signed => f.hlc.counter = 0
    BY <2>1 DEF Version
  <2>5. 0 < n.hlc.counter
    BY <1>0
  <2> QED
    BY <2>3, <2>4, <2>5 DEF Consistent
<1>5. Consistent(n, n)
  <2>1. [n EXCEPT !.admission = n.admission] = n
    BY DEF Version, Entry
  <2>2. ~(~n.signed /\ n.signed)
    OBVIOUS
  <2> QED
    BY <2>1, <2>2 DEF Consistent
<1>6. ASSUME NEW j, NEW e, Held(j, e)'
      PROVE  j \in minted /\ Drawn(e.hlc)'
  <2>1. CASE Held(j, e)
    <3>1. j \in minted /\ Drawn(e.hlc) /\ e \in Version
      BY <2>1, HeldVersions DEF VersionInv
    <3>2. e.hlc.counter \in Nat
      BY <3>1 DEF Version, DrawnStamp, Stamp
    <3>3. ASSUME NEW x \in Device, Active(x)', self[x] = e.hlc.node
          PROVE  e.hlc.counter <= clock'[x].counter
      <4>1. e.hlc.counter <= clock[x].counter
        BY <3>1, <3>3 DEF Drawn
      <4> QED
        BY <1>0, <1>1, <3>2, <4>1
    <3> QED
      BY <3>1, <3>3 DEF Drawn
  <2>2. CASE j = i /\ e = n
    <3>1. ASSUME NEW x \in Device, Active(x)', self[x] = n.hlc.node
          PROVE  n.hlc.counter <= clock'[x].counter
      <4>1. x = d
        BY <1>0, <1>2, <3>1
      <4> QED
        BY <1>0, <1>1, <4>1
    <3> QED
      BY <1>0, <1>3, <2>2, <3>1 DEF Drawn
  <2> QED
    BY <1>6, <2>1, <2>2
<1>7. ASSUME NEW j, NEW e, NEW f, Held(j, e)', Held(j, f)'
      PROVE  Consistent(e, f)
  BY <1>4, <1>5, <1>7 DEF VersionInv
<1>8. \A x \in Device : Active(x)' => self[x] \in minted
  BY DEF VersionInv
<1>9. \A x, y \in Device : Active(x)' /\ Active(y)' /\ self[x] = self[y] => x = y
  BY <1>2
<1> QED
  BY <1>6, <1>7, <1>8, <1>9 DEF VersionInv, Consistent

(* The steps that draw no stamp for an entry set one task to what it was
   made of. *)
LEMMA MergeStepsKeepVersions ==
    ASSUME TypeInv, TypeInv', VersionInv, NEW d \in Device, NEW s \in Slot, Step(d, s)
    PROVE  VersionInv'
<1> DEFINE t == task[d][s]
<1>1. GoodTask(t) /\ t.pc \in {"read", "write"} /\ Active(d)
  BY DEF TypeInv, Step, ReadGroup, WriteGroup, Active, Idle
<1>2. /\ self' = self /\ minted' = minted /\ clock' = clock /\ offer' = offer
      /\ \A x \in Device : clock'[x].counter >= clock[x].counter
  BY DEF Step, ReadGroup, WriteGroup, TypeInv, DrawnClock, Clock
<1>3. \A i, e : ~InTask(Done(t), i, e)
  BY DEF InTask, Done, Idle
<1>4. \A i, e : InTask(t, i, e) \/ Lists(group[d], i, e) => Held(i, e)
  BY DEF Held, Holds
<1>5. CASE ReadGroup(d, s)
  <2> DEFINE w == [pc |-> "write", base |-> group[d], change |-> t.change,
                   invite |-> t.invite, admit |-> t.admit]
             n == IF ~Enrolled(d) THEN Done(t) ELSE w
  <2>1. task' = [task EXCEPT ![d][s] = n] /\ group' = group /\ t.pc = "read"
    BY <1>5 DEF ReadGroup, TypeInv
  <2>2. \A i, e : InTask(w, i, e) => InTask(t, i, e) \/ Lists(group[d], i, e)
    BY <2>1 DEF InTask
  <2> HIDE DEF t, w
  <2>3. \A i, e : InTask(n, i, e) => Held(i, e)
    BY <1>3, <1>4, <2>2
  <2> HIDE DEF n
  <2>4. /\ \A i, e : Held(i, e)' => \/ Held(i, e) \/ InTask(n, i, e)
                                    \/ Lists(EmptyRoster, i, e) \/ InOffers({}, i, e)
        /\ \A x \in Device : Active(x)' => Active(x) \/ x = d \/ x = d
    BY <1>2, <2>1, HeldAfter
  <2>5. \A i, e : Held(i, e)' => Held(i, e)
    BY <2>3, <2>4, WhatIsListed DEF InOffers
  <2> QED
    BY <1>1, <1>2, <2>4, <2>5, QuietKeepsVersions
<1>6. CASE WriteGroup(d, s)
  <2> DEFINE r == MergeRosters(t.base, t.change)
  <2>1. /\ task' = [task EXCEPT ![d][s] = Done(t)] /\ t.pc = "write"
        /\ group' = [group EXCEPT ![d] = r]
    BY <1>6 DEF WriteGroup, TypeInv
  <2>2. \A i, e : Lists(r, i, e) => InTask(t, i, e)
    BY <2>1, WhatIsListed DEF InTask
  <2> HIDE DEF r, t
  <2>3. /\ \A i, e : Held(i, e)' => \/ Held(i, e) \/ InTask(Done(t), i, e)
                                    \/ Lists(r, i, e) \/ InOffers({}, i, e)
        /\ \A x \in Device : Active(x)' => Active(x) \/ x = d \/ x = d
    BY <1>2, <2>1, HeldAfter
  <2>4. \A i, e : Held(i, e)' => Held(i, e)
    BY <1>3, <1>4, <2>2, <2>3 DEF InOffers
  <2> QED
    BY <1>1, <1>2, <2>3, <2>4, QuietKeepsVersions
<1> QED
  BY <1>5, <1>6 DEF Step

(* Whoever lists itself, lists anything or is about to sign is active. *)
LEMMA WhoIsActive ==
    ASSUME NEW d \in Device
    PROVE  /\ Enrolled(d) => Active(d)
           /\ DOMAIN group[d].devices # {} => Active(d)
           /\ OwnIds(d) # {} => Active(d)
           /\ offer[d] # {} => Active(d)
           /\ \A s \in Slot : task[d][s] # Idle => Active(d)
<1>1. DOMAIN EmptyRoster.devices = {}
  BY DEF EmptyRoster, NoMap
<1> QED
  BY <1>1 DEF Active, Enrolled, OwnIds

LEMMA InviteKeepsVersions ==
    ASSUME TypeInv, TypeInv', VersionInv, NEW d \in Device,
           Invite(d) \/ Offer(d) \/ InviteAdmitting(d)
    PROVE  VersionInv'
<1>0. /\ "popup" \in Slot
      /\ \A x \in Device : clock[x] \in DrawnClock /\ clock[x].counter >= clock[x].counter
      /\ \A i, e : ~InOffers({}, i, e)
  BY DEF Slot, TypeInv, DrawnClock, Clock, InOffers
<1>1. CASE Invite(d)
  <2> DEFINE n == [pc |-> "offer", admit |-> {}]
  <2>1. /\ Active(d) /\ task' = [task EXCEPT ![d]["popup"] = n]
        /\ UNCHANGED <<group, self, offer, minted, clock>>
    BY <1>1 DEF Invite, Start, Active
  <2>2. \A i, e : ~InTask(n, i, e)
    BY DEF InTask
  <2> HIDE DEF n
  <2>3. /\ \A i, e : Held(i, e)' => \/ Held(i, e) \/ InTask(n, i, e)
                                    \/ Lists(EmptyRoster, i, e) \/ InOffers({}, i, e)
        /\ \A x \in Device : Active(x)' => Active(x) \/ x = d \/ x = d
    BY <1>0, <2>1, HeldAfter
  <2>4. \A i, e : Held(i, e)' => Held(i, e)
    BY <1>0, <2>2, <2>3, WhatIsListed
  <2> QED
    BY <1>0, <2>1, <2>3, <2>4, QuietKeepsVersions
<1>2. CASE Offer(d)
  <2> DEFINE O == {[roster |-> group[d], admit |-> task[d]["popup"].admit]}
  <2>1. /\ Active(d) /\ task' = [task EXCEPT ![d]["popup"] = Idle]
        /\ offer' = [offer EXCEPT ![d] = O]
        /\ UNCHANGED <<group, self, minted, clock>>
    BY <1>0, <1>2 DEF Offer, Idle, Active
  <2>2. \A i, e : InOffers(O, i, e) => Held(i, e)
    BY DEF InOffers, Held, Holds
  <2> HIDE DEF O
  <2>3. /\ \A i, e : Held(i, e)' => \/ Held(i, e) \/ InTask(Idle, i, e)
                                    \/ Lists(EmptyRoster, i, e) \/ InOffers(O, i, e)
        /\ \A x \in Device : Active(x)' => Active(x) \/ x = d \/ x = d
    BY <1>0, <2>1, HeldAfter
  <2>4. \A i, e : Held(i, e)' => Held(i, e)
    BY <2>2, <2>3, WhatIsListed
  <2> QED
    BY <1>0, <2>1, <2>3, <2>4, QuietKeepsVersions
<1>3. CASE InviteAdmitting(d)
  <2>1. PICK i \in OwnIds(d) :
          LET own == group[d].devices[i]
          IN  /\ d \in Admits
              /\ IF own.key
                 THEN /\ Start(d, "popup", [pc |-> "offer", admit |-> {i}])
                      /\ UNCHANGED clock
                 ELSE /\ Start(d, "popup", Change(
                            Adding(i, [own EXCEPT !.key = TRUE, !.signed = TRUE,
                                                  !.hlc = Fresh(d)]), TRUE, {i}))
                      /\ clock' = [clock EXCEPT ![d] = Send(@, Now)]
              /\ UNCHANGED <<group, self, offer, minted>>
    BY <1>3 DEF InviteAdmitting
  <2> DEFINE own == group[d].devices[i]
             v == [own EXCEPT !.key = TRUE, !.signed = TRUE, !.hlc = Fresh(d)]
             quiet == [pc |-> "offer", admit |-> {i}]
             n == Change(Adding(i, v), TRUE, {i})
  <2>2. /\ Active(d) /\ Held(i, own) /\ own \in Version
        /\ Admits # {} /\ UNCHANGED <<group, self, offer, minted>>
    <3>1. Held(i, own)
      BY DEF OwnIds, Held, Holds, Lists
    <3> QED
      BY <2>1, <3>1, WhoIsActive, HeldVersions
  <2>3. CASE own.key
    <3>1. /\ task' = [task EXCEPT ![d]["popup"] = quiet]
          /\ clock' = clock
      BY <2>1, <2>3 DEF Start
    <3>2. \A j, e : ~InTask(quiet, j, e)
      BY DEF InTask
    <3> HIDE DEF quiet
    <3>3. /\ \A j, e : Held(j, e)' => \/ Held(j, e) \/ InTask(quiet, j, e)
                                      \/ Lists(EmptyRoster, j, e) \/ InOffers({}, j, e)
          /\ \A x \in Device : Active(x)' => Active(x) \/ x = d \/ x = d
      BY <1>0, <2>2, <3>1, HeldAfter
    <3>4. \A j, e : Held(j, e)' => Held(j, e)
      BY <1>0, <3>2, <3>3, WhatIsListed
    <3> QED
      BY <1>0, <2>2, <3>1, <3>3, <3>4, QuietKeepsVersions
  <2>4. CASE ~own.key
    <3>1. /\ task' = [task EXCEPT ![d]["popup"] = n]
          /\ clock' = [clock EXCEPT ![d] = Send(clock[d], Now)]
      BY <2>1, <2>4 DEF Start, TypeInv
    <3>2. /\ Send(clock[d], Now) \in DrawnClock
          /\ Send(clock[d], Now).counter > clock[d].counter
          /\ Fresh(d) = StampAt(Send(clock[d], Now), self[d])
          /\ Fresh(d) \in DrawnStamp
      BY <1>0, SendDraws, FreshType DEF Fresh
    <3> HIDE DEF own
    <3>3. v \in Version /\ v.hlc = Fresh(d)
      BY <2>2, <3>2 DEF Version, Entry, DrawnStamp
    <3> HIDE DEF v
    <3>4. \A j, e : InTask(n, j, e) => j = i /\ e = v
      BY WhatIsListed DEF InTask, Change
    <3> HIDE DEF n
    <3>5. /\ \A j, e : Held(j, e)' => \/ Held(j, e) \/ InTask(n, j, e)
                                      \/ Lists(EmptyRoster, j, e) \/ InOffers({}, j, e)
          /\ \A x \in Device : Active(x)' => Active(x) \/ x = d \/ x = d
      BY <1>0, <2>2, <3>1, HeldAfter
    <3>6. \A j, e : Held(j, e)' => Held(j, e) \/ (j = i /\ e = v)
      BY <1>0, <3>4, <3>5, WhatIsListed
    <3> QED
      BY <2>2, <3>1, <3>2, <3>3, <3>5, <3>6, RestampKeepsVersions
  <2> QED
    BY <2>3, <2>4
<1> QED
  BY <1>1, <1>2, <1>3

LEMMA RemoveKeepsVersions ==
    ASSUME TypeInv, TypeInv', VersionInv, NEW d \in Device, NEW i \in Node, RemoveDevice(d, i)
    PROVE  VersionInv'
<1> DEFINE n == ReadChange(d, Revoking(i, Fresh(d)))
<1>1. /\ Active(d) /\ task' = [task EXCEPT ![d]["popup"] = n] /\ "popup" \in Slot
      /\ clock' = [clock EXCEPT ![d] = Send(clock[d], Now)]
      /\ UNCHANGED <<group, self, offer, minted>>
  BY WhoIsActive DEF RemoveDevice, Start, TypeInv, Slot
<1>2. \A j, e : InTask(n, j, e) => Held(j, e)
  BY WhatIsListed DEF InTask, ReadChange, Held, Holds
<1> HIDE DEF n
<1>3. /\ \A j, e : Held(j, e)' => \/ Held(j, e) \/ InTask(n, j, e)
                                  \/ Lists(EmptyRoster, j, e) \/ InOffers({}, j, e)
      /\ \A x \in Device : Active(x)' => Active(x) \/ x = d \/ x = d
  BY <1>1, HeldAfter
<1>4. \A j, e : Held(j, e)' => Held(j, e)
  BY <1>2, <1>3, WhatIsListed DEF InOffers
<1>5. \A x \in Device : clock'[x].counter >= clock[x].counter
  <2>1. \A x \in Device : clock[x] \in DrawnClock /\ clock[x].counter \in Nat
    BY DEF TypeInv, DrawnClock, Clock
  <2>2. Send(clock[d], Now).counter > clock[d].counter /\ Send(clock[d], Now).counter \in Nat
    BY <2>1, SendDraws DEF DrawnClock, Clock
  <2>3. \A x \in Device : clock'[x] = IF x = d THEN Send(clock[d], Now) ELSE clock[x]
    BY <1>1 DEF TypeInv
  <2> QED
    BY <2>1, <2>2, <2>3
<1> QED
  BY <1>1, <1>3, <1>4, <1>5, QuietKeepsVersions

LEMMA SignKeepsVersions ==
    ASSUME TypeInv, TypeInv', VersionInv, NEW d \in Device, SignOwn(d) \/ SignCheck(d)
    PROVE  VersionInv'
<1>0. /\ "unlock" \in Slot
      /\ \A x \in Device : clock[x] \in DrawnClock /\ clock[x].counter >= clock[x].counter
      /\ \A i, e : ~InOffers({}, i, e)
  BY DEF Slot, TypeInv, DrawnClock, Clock, InOffers
<1>1. CASE SignOwn(d)
  <2> DEFINE own(i) == group[d].devices[i]
             c(i) == Send(Receive(clock[d], own(i).hlc, Now), Now)
             v(i) == [own(i) EXCEPT !.signed = TRUE, !.hlc = StampAt(c(i), self[d])]
             n(i) == [pc |-> "check", id |-> i, own |-> own(i), signed |-> v(i)]
  <2>1. PICK i \in OwnIds(d) :
           /\ clock' = [clock EXCEPT ![d] = c(i)]
           /\ task' = [task EXCEPT ![d]["unlock"] = n(i)]
           /\ UNCHANGED <<group, self, offer, minted>>
    BY <1>1, Zenon DEF SignOwn, Start
  <2>2. Active(d) /\ Held(i, own(i)) /\ own(i) \in Version
    <3>1. Held(i, own(i))
      BY DEF OwnIds, Held, Holds, Lists
    <3> QED
      BY <3>1, WhoIsActive, HeldVersions
  <2>3. c(i) \in DrawnClock /\ c(i).counter > clock[d].counter
    <3> DEFINE r == Receive(clock[d], own(i).hlc, Now)
    <3>1. own(i).hlc \in DrawnStamp
      BY <2>2 DEF Version
    <3> HIDE DEF own
    <3>2. r \in DrawnClock /\ r.counter > clock[d].counter
      BY <1>0, <3>1, ReceiveDraws
    <3> HIDE DEF r
    <3>3. Send(r, Now) \in DrawnClock /\ Send(r, Now).counter > r.counter
      BY <3>2, SendDraws
    <3>4. /\ r.counter \in Nat /\ clock[d].counter \in Nat
          /\ Send(r, Now).counter \in Nat
      BY <1>0, <3>2, <3>3 DEF DrawnClock, Clock
    <3> QED
      BY <3>2, <3>3, <3>4 DEF r
  <2>4. StampAt(c(i), self[d]) \in DrawnStamp
    <3> HIDE DEF c
    <3> QED
      BY <2>3, SendDraws DEF TypeInv
  <2> HIDE DEF own, c
  <2>5. v(i) \in Version /\ v(i).hlc = StampAt(c(i), self[d]) /\ v(i).signed
    BY <2>2, <2>4 DEF Version, Entry, DrawnStamp
  <2> HIDE DEF v
  <2>6. \A j, e : InTask(n(i), j, e) => j = i /\ e = v(i)
    BY DEF InTask
  <2> HIDE DEF n
  <2>7. /\ \A j, e : Held(j, e)' => \/ Held(j, e) \/ InTask(n(i), j, e)
                                    \/ Lists(EmptyRoster, j, e) \/ InOffers({}, j, e)
        /\ \A x \in Device : Active(x)' => Active(x) \/ x = d \/ x = d
    BY <1>0, <2>1, HeldAfter
  <2>8. \A j, e : Held(j, e)' => Held(j, e) \/ (j = i /\ e = v(i))
    BY <1>0, <2>6, <2>7, WhatIsListed
  <2> QED
    BY <2>1, <2>2, <2>3, <2>5, <2>7, <2>8, RestampKeepsVersions
<1>2. CASE SignCheck(d)
  <2> DEFINE t == task[d]["unlock"]
             w == ReadChange(d, Adding(t.id, t.signed))
  <2>1. /\ t.pc = "check" /\ Active(d)
        /\ UNCHANGED <<group, self, clock, offer, minted>>
    BY <1>0, <1>2 DEF SignCheck, Active, Idle
  <2>2. \E n \in {w, Idle} : task' = [task EXCEPT ![d]["unlock"] = n]
    BY <1>2 DEF SignCheck
  <2>3. \A j, e : InTask(t, j, e) => Held(j, e)
    BY <1>0 DEF Held, Holds
  <2> HIDE DEF t
  <2>4. \A j, e : InTask(w, j, e) => Held(j, e)
    <3>1. \A j, e : InTask(w, j, e) => Lists(group[d], j, e) \/ Lists(Adding(t.id, t.signed), j, e)
      BY DEF InTask, ReadChange
    <3>2. \A j, e : Lists(Adding(t.id, t.signed), j, e) => InTask(t, j, e)
      BY <2>1, WhatIsListed DEF InTask
    <3> QED
      BY <2>3, <3>1, <3>2 DEF Held, Holds
  <2> HIDE DEF w
  <2>5. PICK n \in {w, Idle} : task' = [task EXCEPT ![d]["unlock"] = n]
    BY <2>2
  <2>6. /\ \A j, e : Held(j, e)' => \/ Held(j, e) \/ InTask(n, j, e)
                                    \/ Lists(EmptyRoster, j, e) \/ InOffers({}, j, e)
        /\ \A x \in Device : Active(x)' => Active(x) \/ x = d \/ x = d
    BY <1>0, <2>1, <2>5, HeldAfter
  <2>7. \A j, e : Held(j, e)' => Held(j, e)
    BY <1>0, <2>4, <2>6, WhatIsListed
  <2> QED
    BY <1>0, <2>1, <2>6, <2>7, QuietKeepsVersions
<1> QED
  BY <1>1, <1>2

LEMMA LeaveKeepsVersions ==
    ASSUME TypeInv, TypeInv', VersionInv, NEW d \in Device, Leave(d)
    PROVE  VersionInv'
<1>1. /\ Active(d) /\ "popup" \in Slot
      /\ group' = [group EXCEPT ![d] = EmptyRoster] /\ offer' = [offer EXCEPT ![d] = {}]
      /\ UNCHANGED <<self, clock, task, minted>>
  BY WhoIsActive DEF Leave, Slot
<1>2. /\ \A j, e : Held(j, e)' => \/ Held(j, e) \/ InTask(Idle, j, e)
                                  \/ Lists(EmptyRoster, j, e) \/ InOffers({}, j, e)
      /\ \A x \in Device : Active(x)' => Active(x) \/ x = d \/ x = d
  BY <1>1, HeldAfter
<1>3. \A j, e : Held(j, e)' => Held(j, e)
  BY <1>2, WhatIsListed DEF InOffers
<1>4. \A x \in Device : clock'[x].counter >= clock[x].counter
  BY <1>1 DEF TypeInv, DrawnClock, Clock
<1> QED
  BY <1>1, <1>2, <1>3, <1>4, QuietKeepsVersions

LEMMA GossipKeepsVersions ==
    ASSUME TypeInv, TypeInv', VersionInv, NEW d \in Device, NEW e \in Device,
           NEW s \in BgTask, Gossip(d, e, s)
    PROVE  VersionInv'
<1> DEFINE r == SanitizeRemoteRoster(VerifyRemoteRoster(group[e], group[d]))
           n == Change(r, FALSE, {})
<1>1. /\ task' = [task EXCEPT ![e][s] = n] /\ s \in Slot
      /\ UNCHANGED <<group, self, clock, offer, minted>>
  BY DEF Gossip, Start, Slot
<1>2. \A j, f : Lists(r, j, f) => Held(j, f)
  BY WhatIsListed DEF Held, Holds
<1> HIDE DEF r
<1>3. \A j, f : InTask(n, j, f) => Held(j, f)
  BY <1>2 DEF InTask, Change
<1> HIDE DEF n
<1>4. Active(e)
  <2>1. DOMAIN group[e].devices # {}
    BY DEF Gossip, Connected, Pubs
  <2> QED
    BY <2>1, WhoIsActive
<1>5. /\ \A j, f : Held(j, f)' => \/ Held(j, f) \/ InTask(n, j, f)
                                  \/ Lists(EmptyRoster, j, f) \/ InOffers({}, j, f)
      /\ \A x \in Device : Active(x)' => Active(x) \/ x = e \/ x = e
  BY <1>1, HeldAfter
<1>6. \A j, f : Held(j, f)' => Held(j, f)
  BY <1>3, <1>5, WhatIsListed DEF InOffers
<1>7. \A x \in Device : clock'[x].counter >= clock[x].counter
  BY <1>1 DEF TypeInv, DrawnClock, Clock
<1> QED
  BY <1>1, <1>4, <1>5, <1>6, <1>7, QuietKeepsVersions

(* The joiner's id and with it the stamp of its entry are new; joiner and
   inviter list the entry with and without the admission. *)
LEMMA JoinKeepsVersions ==
    ASSUME TypeInv, TypeInv', VersionInv, NEW d \in Device, NEW j \in Device, Join(j, d)
    PROVE  VersionInv'
<1> DEFINE own(i) == [hlc |-> StampAt(FirstClock, i), pub |-> j, signed |-> TRUE,
                      key |-> FALSE, admission |-> {}]
           admitted(o, i) == [own(i) EXCEPT !.admission =
                                {[by |-> a, of |-> own(i).hlc] : a \in o.admit}]
           t(o, i) == Change(Adding(i, admitted(o, i)), FALSE, {})
           r(o, i) == MergeRosters(o.roster, Adding(i, own(i)))
<1>1. PICK o \in offer[d], i \in Node \ minted :
         /\ j # d
         /\ minted' = minted \cup {i}
         /\ self' = [self EXCEPT ![j] = i]
         /\ clock' = [clock EXCEPT ![j] = FirstClock]
         /\ group' = [group EXCEPT ![j] = r(o, i)]
         /\ offer' = [offer EXCEPT ![d] = {}]
         /\ task' = [task EXCEPT ![d]["enrolled"] = t(o, i)]
  BY Zenon DEF Join, Start
<1>2. /\ \A x \in Device : self'[x] = IF x = j THEN i ELSE self[x]
      /\ \A x \in Device : clock'[x] = IF x = j THEN FirstClock ELSE clock[x]
      /\ \A x \in Device : clock'[x].counter \in Nat
  BY <1>1 DEF TypeInv, DrawnClock, Clock
<1> DEFINE mine == own(i)
           theirs == admitted(o, i)
<1>3. /\ mine.hlc.node = i /\ theirs.hlc.node = i
      /\ mine.hlc.counter = 0 /\ theirs.hlc.counter = 0
      /\ mine.signed /\ theirs.signed
  BY FirstDraws
<1>4. /\ \A e, f \in {mine, theirs} : [e EXCEPT !.admission = f.admission] = f
      /\ \A e \in {mine, theirs} : e.signed
  <2>1. mine \in Version
    BY FirstDraws DEF Version, Entry, DrawnStamp
  <2>2. PICK A : theirs = [mine EXCEPT !.admission = A]
    OBVIOUS
  <2> HIDE DEF mine, theirs
  <2>3. /\ [mine EXCEPT !.admission = mine.admission] = mine
        /\ [mine EXCEPT !.admission = theirs.admission] = theirs
        /\ [theirs EXCEPT !.admission = mine.admission] = mine
        /\ [theirs EXCEPT !.admission = theirs.admission] = theirs
    BY <2>1, <2>2 DEF Version, Entry
  <2> QED
    BY <1>3, <2>3
<1> HIDE DEF own, admitted
<1>5. /\ \A k, e : InTask(t(o, i), k, e) => k = i /\ e = theirs
      /\ \A k, e : Lists(r(o, i), k, e) => Held(k, e) \/ (k = i /\ e = mine)
  <2>1. \A k, e : InTask(t(o, i), k, e) => k = i /\ e = theirs
    BY WhatIsListed DEF InTask, Change
  <2>2. \A k, e : Lists(r(o, i), k, e) => Lists(o.roster, k, e) \/ (k = i /\ e = mine)
    BY WhatIsListed
  <2>3. \A k, e : Lists(o.roster, k, e) => Held(k, e)
    BY DEF Held, Holds, InOffers
  <2> QED
    BY <2>1, <2>2, <2>3
<1> HIDE DEF t, r, mine, theirs
<1>6. "enrolled" \in Slot /\ Active(d) /\ \A k, e : ~InOffers({}, k, e)
  BY DEF Slot, Active, InOffers
<1>7. /\ \A k, e : Held(k, e)' => \/ Held(k, e) \/ InTask(t(o, i), k, e)
                                  \/ Lists(r(o, i), k, e) \/ InOffers({}, k, e)
      /\ \A x \in Device : Active(x)' => Active(x) \/ x = d \/ x = j
  BY <1>1, <1>6, HeldAfter
<1>8. \A k, e : Held(k, e)' => Held(k, e) \/ (k = i /\ e \in {mine, theirs})
  BY <1>5, <1>6, <1>7
<1>9. \A x \in Device : x # j /\ Active(x)' => Active(x) /\ self'[x] = self[x]
                                                  /\ self[x] \in minted
  BY <1>2, <1>6, <1>7 DEF VersionInv
<1>10. \A x \in Device : Active(x)' => self'[x] \in minted'
  BY <1>1, <1>2, <1>9
<1>11. ASSUME NEW x \in Device, NEW y \in Device, Active(x)', Active(y)', self'[x] = self'[y]
       PROVE  x = y
  BY <1>2, <1>9, <1>11 DEF VersionInv
<1>12. ASSUME NEW k, NEW e, Held(k, e)'
       PROVE  k \in minted' /\ Drawn(e.hlc)'
  <2>1. CASE Held(k, e)
    <3>1. k \in minted /\ Drawn(e.hlc)
      BY <2>1 DEF VersionInv
    <3>2. ASSUME NEW x \in Device, Active(x)', self'[x] = e.hlc.node
          PROVE  e.hlc.counter <= clock'[x].counter
      <4>1. x # j
        BY <1>2, <3>1, <3>2 DEF Drawn
      <4> QED
        BY <1>2, <1>9, <3>1, <3>2, <4>1 DEF Drawn
    <3> QED
      BY <1>1, <3>1, <3>2 DEF Drawn
  <2>2. CASE k = i /\ e \in {mine, theirs}
    <3>1. e.hlc.node = i /\ e.hlc.counter = 0
      BY <1>3, <2>2
    <3>2. \A x \in Device : e.hlc.counter <= clock'[x].counter
      BY <1>2, <3>1
    <3> QED
      BY <1>1, <2>2, <3>1, <3>2 DEF Drawn
  <2> QED
    BY <1>8, <1>12, <2>1, <2>2
<1>13. ASSUME NEW k, NEW e, NEW f, Held(k, e)', Held(k, f)'
       PROVE  Consistent(e, f)
  <2>1. \A g : ~Held(i, g)
    BY DEF VersionInv
  <2>2. CASE k = i
    <3>1. e \in {mine, theirs} /\ f \in {mine, theirs}
      BY <1>8, <1>13, <2>1, <2>2
    <3>2. [e EXCEPT !.admission = f.admission] = f /\ e.signed
      BY <1>4, <3>1
    <3> QED
      BY <3>2 DEF Consistent
  <2>3. CASE k # i
    <3>1. Held(k, e) /\ Held(k, f)
      BY <1>8, <1>13, <2>3
    <3> QED
      BY <3>1 DEF VersionInv
  <2> QED
    BY <2>2, <2>3
<1> QED
  BY <1>10, <1>11, <1>12, <1>13 DEF VersionInv, Consistent

LEMMA FirstVersions == Init => VersionInv
<1> SUFFICES ASSUME Init PROVE VersionInv
  OBVIOUS
<1> DEFINE v(i) == [hlc |-> StampAt(FirstClock, i), pub |-> i, signed |-> i \notin Legacy,
                    key |-> FALSE, admission |-> {}]
<1>1. \A i, e : Lists(FirstRoster, i, e) => i \in Members /\ e = v(i)
  <2> DEFINE first == [i \in Members |-> v(i)]
  <2>1. FirstRoster = [EmptyRoster EXCEPT !.devices = first]
    BY Zenon DEF FirstRoster
  <2> HIDE DEF first
  <2>2. FirstRoster.devices = first
    BY <2>1 DEF EmptyRoster
  <2> USE DEF first
  <2> QED
    BY <2>2 DEF Lists
<1>2. \A i \in Members : v(i).hlc.node = i /\ v(i).hlc.counter = 0
  BY FirstDraws, MembersAssumption
<1> HIDE DEF v
<1>3. \A i, e : Held(i, e) => i \in Members /\ e = v(i)
  <2>1. \A i, e : ~Lists(EmptyRoster, i, e) /\ ~InTask(Idle, i, e) /\ ~InOffers({}, i, e)
    BY WhatIsListed DEF InOffers
  <2> QED
    BY <1>1, <2>1 DEF Init, Held, Holds
<1>4. \A d \in Device : Active(d) => d \in Members
  BY DEF Init, Active, Enrolled
<1>5. \A d \in Device : self[d] = d /\ clock[d].counter = 0
  BY FirstDraws DEF Init
<1>6. minted = Members
  BY DEF Init
<1>7. \A i \in Members : Consistent(v(i), v(i))
  <2>1. \A i \in Members : [v(i) EXCEPT !.admission = v(i).admission] = v(i)
    BY DEF v
  <2> QED
    BY <2>1 DEF Consistent
<1>8. \A i, e : Held(i, e) => i \in minted /\ Drawn(e.hlc)
  BY <1>2, <1>3, <1>5, <1>6 DEF Drawn
<1> QED
  BY <1>3, <1>4, <1>5, <1>6, <1>7, <1>8 DEF VersionInv

LEMMA VersionsAreKept == TypeInv /\ VersionInv /\ [Next]_vars => (TypeInv /\ VersionInv)'
<1> SUFFICES ASSUME TypeInv, VersionInv, [Next]_vars PROVE VersionInv'
  BY TypesAreKept
<1>1. TypeInv'
  BY TypesAreKept
<1>2. CASE UNCHANGED vars
  <2>1. /\ \A i, e : Held(i, e)' => Held(i, e)
        /\ \A d \in Device : Active(d)' => Active(d)
    BY <1>2 DEF vars, Held, Holds, Active, Enrolled
  <2>2. \A d \in Device : clock'[d].counter >= clock[d].counter
    BY <1>2 DEF vars, TypeInv, DrawnClock, Clock
  <2> QED
    BY <1>1, <1>2, <2>1, <2>2, QuietKeepsVersions DEF vars
<1>3. CASE Next
  BY <1>1, <1>3, MergeStepsKeepVersions, InviteKeepsVersions, JoinKeepsVersions,
     RemoveKeepsVersions, SignKeepsVersions, LeaveKeepsVersions, GossipKeepsVersions
     DEF Next
<1> QED
  BY <1>2, <1>3

(* Two devices that list an entry under the same stamp list the same entry,
   up to the admission: a device re-stamps whatever it changes, and draws no
   stamp twice, not even where a change outlives a disconnect. *)
THEOREM EntriesAgree == Spec => []StampNamesEntry
<1>1. VersionInv => StampNamesEntry
  <2> SUFFICES ASSUME VersionInv, NEW d \in Device, NEW e \in Device,
                      NEW i \in DOMAIN group[d].devices \cap DOMAIN group[e].devices,
                      group[d].devices[i].hlc = group[e].devices[i].hlc
               PROVE  [group[d].devices[i] EXCEPT !.admission = group[e].devices[i].admission]
                         = group[e].devices[i]
    BY DEF StampNamesEntry, SameEntry
  <2>1. Held(i, group[d].devices[i]) /\ Held(i, group[e].devices[i])
    BY DEF Held, Holds, Lists
  <2> QED
    BY <2>1 DEF VersionInv, Consistent
<1> QED
  BY <1>1, FirstTypes, FirstVersions, VersionsAreKept, PTL DEF Spec

-----------------------------------------------------------------------------
(* Settled devices. *)

(* What e holds if a broadcast of d changes nothing at it: every revocation d
   knows, every entry d lists, under no earlier stamp. *)
LEMMA NothingNewIsKnown ==
    ASSUME TypeInv, VersionInv, RevokedIsUnlisted, Admits = {},
           NEW d \in Device, NEW e \in Device, NothingNew(d, e)
    PROVE  LET a == group[d]
               b == group[e]
           IN  /\ \A i \in DOMAIN a.revoked :
                     /\ i \in DOMAIN b.revoked
                     /\ ~Before(b.revoked[i].hlc, a.revoked[i].hlc)
               /\ \A i \in DOMAIN a.devices :
                     i \notin DOMAIN b.revoked =>
                        /\ i \in DOMAIN b.devices
                        /\ ~Before(b.devices[i].hlc, a.devices[i].hlc)
<1> DEFINE a == group[d]
           b == group[e]
           K == {i \in DOMAIN a.devices :
                    /\ i \notin DOMAIN b.revoked
                    /\ IF i \in DOMAIN b.devices /\ b.devices[i].signed
                       THEN a.devices[i].signed
                       ELSE \/ a.devices[i].admission = {}
                            \/ IsAdmissionValid(b, a.devices[i])}
           v == [devices |-> Only(a.devices, K), revoked |-> a.revoked]
           n == SanitizeRemoteRoster(v)
           D == MergeStamped(b.devices, n.devices)
           t == MergeStamped(b.revoked, n.revoked)
<1>1. /\ IsHeld(a) /\ IsHeld(b)
      /\ DOMAIN b.devices \cap DOMAIN b.revoked = {}
  BY DEF TypeInv, RevokedIsUnlisted
<1>2. VerifyRemoteRoster(b, a) = v
  BY DEF VerifyRemoteRoster
<1>3. MergeRosters(b, n) = b
  BY <1>2 DEF NothingNew
<1>4. /\ \A i \in DOMAIN a.devices : a.devices[i] \in Version
      /\ \A i \in DOMAIN b.devices : b.devices[i] \in Version
      /\ \A i \in DOMAIN a.revoked : a.revoked[i].hlc \in DrawnStamp
      /\ \A i \in DOMAIN b.revoked : b.revoked[i].hlc \in DrawnStamp
  BY <1>1 DEF IsHeld, IsMap
<1>5. \A s \in DrawnStamp : ~IsFutureStamp(s, Now)
  BY NowAssumption, DriftAssumption DEF DrawnStamp, IsFutureStamp
<1>6. \A i, f, g : Held(i, f) /\ Held(i, g) => Consistent(f, g)
  BY DEF VersionInv
<1>7. /\ \A i \in DOMAIN a.devices : Held(i, a.devices[i])
      /\ \A i \in DOMAIN b.devices : Held(i, b.devices[i])
  BY DEF Held, Holds, Lists
<1> HIDE DEF a, b
<1>8. /\ DOMAIN n.devices = K /\ \A i \in K : n.devices[i] = a.devices[i]
      /\ DOMAIN n.revoked = DOMAIN a.revoked
      /\ \A i \in DOMAIN a.revoked : n.revoked[i] = a.revoked[i]
  <2>1. K \subseteq DOMAIN a.devices
    OBVIOUS
  <2> HIDE DEF K
  <2> QED
    BY <1>4, <1>5, <2>1 DEF SanitizeRemoteRoster, NotFuture, Only, Version
<1> HIDE DEF n
<1>9. b.devices = Outside(D, DOMAIN t) /\ b.revoked = t
  <2>1. b = [devices |-> Outside(D, DOMAIN t), revoked |-> t]
    BY <1>3, RosterFields
  <2> HIDE DEF D, t
  <2> QED
    BY <2>1
<1>10. /\ DOMAIN t = DOMAIN b.revoked \cup DOMAIN a.revoked
       /\ \A i \in DOMAIN a.revoked \cap DOMAIN b.revoked :
             Before(b.revoked[i].hlc, a.revoked[i].hlc) => t[i] = a.revoked[i]
  BY <1>8 DEF MergeStamped
<1>11. /\ DOMAIN D = DOMAIN b.devices \cup K
       /\ \A i \in K \cap DOMAIN b.devices :
             Before(b.devices[i].hlc, a.devices[i].hlc) => D[i] = a.devices[i]
  <2> HIDE DEF K
  <2> QED
    BY <1>8 DEF MergeStamped
<1>12. /\ DOMAIN b.devices = DOMAIN D \ DOMAIN t
       /\ \A i \in DOMAIN b.devices : b.devices[i] = D[i]
  <2> HIDE DEF D, t
  <2> QED
    BY <1>9 DEF Outside, Only
<1> HIDE DEF D, t
<1>13. \A s \in DrawnStamp : ~Before(s, s)
  BY BeforeIsTotalOrder DEF DrawnStamp
<1>14. ASSUME NEW i \in DOMAIN a.revoked
       PROVE  /\ i \in DOMAIN b.revoked
              /\ ~Before(b.revoked[i].hlc, a.revoked[i].hlc)
  <2>1. i \in DOMAIN b.revoked
    BY <1>9, <1>10
  <2>2. ASSUME Before(b.revoked[i].hlc, a.revoked[i].hlc)
        PROVE  FALSE
    <3>1. b.revoked[i] = a.revoked[i]
      BY <1>9, <1>10, <2>1, <2>2
    <3> QED
      BY <1>4, <1>13, <2>1, <2>2, <3>1
  <2> QED
    BY <2>1, <2>2
<1>15. ASSUME NEW i \in DOMAIN a.devices, i \notin DOMAIN b.revoked
       PROVE  /\ i \in DOMAIN b.devices
              /\ ~Before(b.devices[i].hlc, a.devices[i].hlc)
  <2>0. a.devices[i].admission = {}
    BY <1>4 DEF Version
  <2>1. CASE i \in K
    <3>1. i \in DOMAIN b.devices
      BY <1>9, <1>11, <1>12, <1>15, <2>1
    <3>2. ASSUME Before(b.devices[i].hlc, a.devices[i].hlc)
          PROVE  FALSE
      <4>1. b.devices[i] = a.devices[i]
        BY <1>11, <1>12, <2>1, <3>1, <3>2
      <4> QED
        BY <1>4, <1>13, <3>1, <3>2, <4>1 DEF Version
    <3> QED
      BY <3>1, <3>2
  <2>2. CASE i \notin K
    <3>1. i \in DOMAIN b.devices /\ b.devices[i].signed /\ ~a.devices[i].signed
      BY <1>15, <2>0, <2>2
    <3>2. a.devices[i].hlc.counter < b.devices[i].hlc.counter
      BY <1>6, <1>7, <3>1 DEF Consistent
    <3>3. a.devices[i].hlc \in DrawnStamp /\ b.devices[i].hlc \in DrawnStamp
      BY <1>4, <3>1 DEF Version
    <3> QED
      BY <3>1, <3>2, <3>3 DEF Before, DrawnStamp, Stamp
  <2> QED
    BY <2>1, <2>2
<1> QED
  BY <1>14, <1>15 DEF a, b

(* Devices whose broadcasts change nothing at each other have one roster,
   whatever verification refused on the way, as long as no invitation carries
   an admission. *)
THEOREM SettledRostersAreOne == Spec => []SettledRostersAgree
<1>1. TypeInv /\ VersionInv /\ RevokedIsUnlisted => SettledRostersAgree
  <2> SUFFICES ASSUME TypeInv, VersionInv, RevokedIsUnlisted, Admits = {},
                      NEW d \in Device, NEW e \in Device,
                      NothingNew(d, e), NothingNew(e, d)
               PROVE  group[d] = group[e]
    BY DEF SettledRostersAgree
  <2> DEFINE a == group[d]
             b == group[e]
  <2>1. /\ \A i \in DOMAIN a.revoked : /\ i \in DOMAIN b.revoked
                                       /\ ~Before(b.revoked[i].hlc, a.revoked[i].hlc)
        /\ \A i \in DOMAIN b.revoked : /\ i \in DOMAIN a.revoked
                                       /\ ~Before(a.revoked[i].hlc, b.revoked[i].hlc)
        /\ \A i \in DOMAIN a.devices : i \notin DOMAIN b.revoked =>
                    /\ i \in DOMAIN b.devices
                    /\ ~Before(b.devices[i].hlc, a.devices[i].hlc)
        /\ \A i \in DOMAIN b.devices : i \notin DOMAIN a.revoked =>
                    /\ i \in DOMAIN a.devices
                    /\ ~Before(a.devices[i].hlc, b.devices[i].hlc)
    BY NothingNewIsKnown
  <2>2. /\ IsHeld(a) /\ IsHeld(b)
        /\ DOMAIN a.devices \cap DOMAIN a.revoked = {}
        /\ DOMAIN b.devices \cap DOMAIN b.revoked = {}
    BY DEF TypeInv, RevokedIsUnlisted
  <2>3. /\ \A i \in DOMAIN a.devices : Held(i, a.devices[i])
        /\ \A i \in DOMAIN b.devices : Held(i, b.devices[i])
    BY DEF Held, Holds, Lists
  <2>4. \A i, f, g : Held(i, f) /\ Held(i, g) => Consistent(f, g)
    BY DEF VersionInv
  <2> HIDE DEF a, b
  <2>5. \A s, u \in DrawnStamp : ~Before(s, u) /\ ~Before(u, s) => s = u
    BY BeforeIsTotalOrder DEF DrawnStamp
  <2>6. a.revoked = b.revoked
    <3>1. /\ a.revoked \in [DOMAIN a.revoked -> [hlc : DrawnStamp]]
          /\ b.revoked \in [DOMAIN b.revoked -> [hlc : DrawnStamp]]
      BY <2>2 DEF IsHeld, IsMap
    <3>2. DOMAIN a.revoked = DOMAIN b.revoked
      BY <2>1
    <3>3. ASSUME NEW i \in DOMAIN a.revoked
          PROVE  a.revoked[i] = b.revoked[i]
      <4>1. a.revoked[i] \in [hlc : DrawnStamp] /\ b.revoked[i] \in [hlc : DrawnStamp]
        BY <3>1, <3>2
      <4>2. a.revoked[i].hlc = b.revoked[i].hlc
        BY <2>1, <2>5, <3>2, <4>1
      <4> QED
        BY <4>1, <4>2
    <3> QED
      BY <3>1, <3>2, <3>3
  <2>7. a.devices = b.devices
    <3>1. /\ a.devices \in [DOMAIN a.devices -> Version]
          /\ b.devices \in [DOMAIN b.devices -> Version]
      BY <2>2 DEF IsHeld, IsMap
    <3>2. DOMAIN a.devices = DOMAIN b.devices
      BY <2>1, <2>2, <2>6
    <3>3. ASSUME NEW i \in DOMAIN a.devices
          PROVE  a.devices[i] = b.devices[i]
      <4> DEFINE f == a.devices[i]
                 g == b.devices[i]
      <4>1. f \in Version /\ g \in Version /\ i \notin DOMAIN a.revoked
        BY <2>2, <3>1, <3>2
      <4>2. f.hlc = g.hlc
        <5>1. ~Before(g.hlc, f.hlc) /\ ~Before(f.hlc, g.hlc)
          BY <2>1, <2>6, <3>2, <4>1
        <5> HIDE DEF f, g
        <5> QED
          BY <2>5, <4>1, <5>1 DEF Version
      <4>3. Consistent(f, g)
        BY <2>3, <2>4, <3>2
      <4> HIDE DEF f, g
      <4>4. f.admission = {} /\ g.admission = {} /\ f \in Entry
        BY <4>1 DEF Version
      <4>5. [f EXCEPT !.admission = {}] = g
        BY <4>2, <4>3, <4>4 DEF Consistent
      <4>6. [f EXCEPT !.admission = {}] = f
        BY <4>4 DEF Entry
      <4> QED
        BY <4>5, <4>6 DEF f, g
    <3> QED
      BY <3>1, <3>2, <3>3
  <2>8. /\ a = [devices |-> a.devices, revoked |-> a.revoked]
        /\ b = [devices |-> b.devices, revoked |-> b.revoked]
    BY <2>2 DEF IsHeld
  <2> QED
    BY <2>6, <2>7, <2>8 DEF a, b
<1> QED
  BY <1>1, FirstTypes, FirstVersions, VersionsAreKept, RevokedStaysUnlisted, PTL DEF Spec
=============================================================================
