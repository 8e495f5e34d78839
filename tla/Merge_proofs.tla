---------------------------- MODULE Merge_proofs ----------------------------
(***************************************************************************)
(* What the clock and the merge promise for all stamps and payloads.       *)
(***************************************************************************)
EXTENDS Merge, FiniteSetTheorems, TLAPS

(* HybridClock.send(): the reading stays a clock, what it issues sorts after
   everything the clock covered, and its wall stays within the drift budget. *)
LEMMA SendAdvances ==
    ASSUME NEW c \in Clock, NEW pt \in Nat
    PROVE  /\ Send(c, pt) \in Clock
           /\ \A s \in Stamp : Covers(c, s) => Before(s, StampAt(Send(c, pt), s.node))
           /\ \A s \in Stamp : Covers(c, s) => Covers(Send(c, pt), s)
           /\ Send(c, pt).wall >= c.wall
           /\ c.wall <= pt + Drift => Send(c, pt).wall <= pt + Drift
  BY DriftAssumption DEF Send, Clock, Stamp, Covers, Before, StampAt

(* witness() of a list of stamps: the clock covers what it covered before and
   every stamp that receive() does not clamp, and stays within the budget. *)
LEMMA WitnessAllAdvances ==
    ASSUME NEW c \in Clock, NEW pt \in Nat, NEW S \in SUBSET Stamp, IsFiniteSet(S),
           NEW r \in WitnessAll(c, S, pt)
    PROVE  /\ r \in Clock
           /\ \A s \in Stamp : Covers(c, s) => Covers(r, s)
           /\ \A s \in S : ~IsFutureStamp(s, pt) => Covers(r, s)
           /\ c.wall <= pt + Drift => r.wall <= pt + Drift
<1> DEFINE n == Cardinality(S)
           walls == {c.wall, pt} \cup {ReceivedWall(s, pt) : s \in S}
           lows(w) == {s.counter + 1 : s \in {t \in S : ReceivedWall(t, pt) = w}}
                      \cup {k \in {c.counter + n} : c.wall = w}
                      \cup {k \in {n - 1} : pt = w}
<1>1. CASE S = {}
  <2>1. r = c
    BY <1>1 DEF WitnessAll
  <2> QED
    BY <1>1, <2>1
<1>2. CASE S # {}
  <2>1. n \in Nat /\ n >= 1
    BY <1>2, FS_CardinalityType, FS_EmptySet
  <2>2. \A s \in S : ReceivedWall(s, pt) \in Nat /\ ReceivedWall(s, pt) <= pt + Drift
    BY DriftAssumption DEF ReceivedWall, IsFutureStamp, Stamp
  <2>3. r \in UNION {[wall : {w}, counter : UNION {k..(k + n - 1) : k \in Top(lows(w))}]
                       : w \in Top(walls)}
    BY <1>2 DEF WitnessAll
  <2>4. PICK w \in Top(walls) :
           r \in [wall : {w}, counter : UNION {k..(k + n - 1) : k \in Top(lows(w))}]
    BY <2>3
  <2>5. PICK k \in Top(lows(w)) : r.counter \in k..(k + n - 1)
    BY <2>4
  <2>6. r.wall = w
    BY <2>4
  <2>7. w \in Nat /\ w >= c.wall /\ w >= pt /\ (c.wall <= pt + Drift => w <= pt + Drift)
    BY <2>2, <2>4, DriftAssumption DEF Top, Clock
  <2>8. \A s \in S : w >= ReceivedWall(s, pt)
    BY <2>4 DEF Top
  <2>9. k \in lows(w) /\ \A x \in lows(w) : x <= k
    BY <2>5 DEF Top
  <2>10. k \in Nat
    BY <2>9, <2>1 DEF Clock, Stamp
  <2>11. c.wall = w => k >= c.counter + n
    BY <2>9
  <2>12. \A s \in S : ReceivedWall(s, pt) = w => k >= s.counter + 1
    BY <2>9
  <2>13. r \in Clock /\ r.counter >= k
    BY <2>4, <2>5, <2>6, <2>7, <2>10, <2>1 DEF Clock
  <2>14. \A s \in Stamp : Covers(c, s) => Covers(r, s)
    BY <2>1, <2>6, <2>7, <2>10, <2>11, <2>13 DEF Covers, Clock, Stamp
  <2>15. \A s \in S : ~IsFutureStamp(s, pt) => Covers(r, s)
    <3> SUFFICES ASSUME NEW s \in S, ~IsFutureStamp(s, pt)
                 PROVE  Covers(r, s)
      OBVIOUS
    <3>1. ReceivedWall(s, pt) = s.wall
      BY DEF ReceivedWall
    <3> QED
      BY <3>1, <2>6, <2>7, <2>8, <2>10, <2>12, <2>13 DEF Covers, Clock, Stamp
  <2> QED
    BY <2>6, <2>7, <2>13, <2>14, <2>15
<1> QED
  BY <1>1, <1>2

-----------------------------------------------------------------------------
(* The order of compareHlc. *)

(* compareHlc is a strict total order on stamps. *)
LEMMA BeforeIsTotalOrder ==
    ASSUME NEW a \in Stamp, NEW b \in Stamp, NEW c \in Stamp
    PROVE  /\ ~Before(a, a)
           /\ Before(a, b) \/ Before(b, a) \/ a = b
           /\ Before(a, b) => ~Before(b, a)
           /\ Before(a, b) /\ Before(b, c) => Before(a, c)
           /\ ~Before(a, b) /\ ~Before(b, c) => ~Before(a, c)
<1>1. \A s \in Stamp : s.wall \in Nat /\ s.counter \in Nat /\ s.node \in Nat
  BY NodeAssumption DEF Stamp
<1>2. Before(a, b) \/ Before(b, a) \/ a = b
  <2>1. SUFFICES ASSUME a.wall = b.wall, a.counter = b.counter, a.node = b.node
                 PROVE  a = b
    BY <1>1 DEF Before
  <2> QED
    BY <2>1 DEF Stamp
<1> QED
  BY <1>1, <1>2 DEF Before

(* A map of stamped records. *)
IsStampedMap(f) == f = [x \in DOMAIN f |-> f[x]] /\ \A x \in DOMAIN f : f[x].hlc \in Stamp

(* Two maps agree where they hold the same stamp: it names one write. *)
Agree(f, g) == \A x \in DOMAIN f \cap DOMAIN g : f[x].hlc = g[x].hlc => f[x] = g[x]

(* Each record of a merged map is the record of one of the two sources. *)
LEMMA MergeStampedHolds ==
    ASSUME NEW f, NEW g, IsStampedMap(f), IsStampedMap(g)
    PROVE  /\ IsStampedMap(MergeStamped(f, g))
           /\ DOMAIN MergeStamped(f, g) = DOMAIN f \cup DOMAIN g
           /\ \A x \in DOMAIN MergeStamped(f, g) :
                 \/ x \in DOMAIN f /\ MergeStamped(f, g)[x] = f[x]
                 \/ x \in DOMAIN g /\ MergeStamped(f, g)[x] = g[x]
  BY DEF MergeStamped, IsStampedMap

(* A merged map is nowhere behind either source. *)
LEMMA MergeStampedAbove ==
    ASSUME NEW f, NEW g, IsStampedMap(f), IsStampedMap(g)
    PROVE  /\ \A x \in DOMAIN f : /\ x \in DOMAIN MergeStamped(f, g)
                                  /\ ~Before(MergeStamped(f, g)[x].hlc, f[x].hlc)
           /\ \A x \in DOMAIN g : /\ x \in DOMAIN MergeStamped(f, g)
                                  /\ ~Before(MergeStamped(f, g)[x].hlc, g[x].hlc)
  BY BeforeIsTotalOrder DEF MergeStamped, IsStampedMap

(* mergeReplicas does not depend on the order of its sources where equal
   stamps name equal records; otherwise the first source wins the tie. *)
LEMMA MergeStampedCommutes ==
    ASSUME NEW f, NEW g, IsStampedMap(f), IsStampedMap(g), Agree(f, g)
    PROVE  MergeStamped(f, g) = MergeStamped(g, f)
  BY BeforeIsTotalOrder DEF MergeStamped, IsStampedMap, Agree

(* mergeReplicas folds any number of sources: the grouping does not matter. *)
LEMMA MergeStampedAssociates ==
    ASSUME NEW f, NEW g, NEW h,
           IsStampedMap(f), IsStampedMap(g), IsStampedMap(h)
    PROVE  MergeStamped(MergeStamped(f, g), h) = MergeStamped(f, MergeStamped(g, h))
<1> DEFINE fg == MergeStamped(f, g)
           gh == MergeStamped(g, h)
           l == MergeStamped(fg, h)
           r == MergeStamped(f, gh)
<1>1. DOMAIN l = DOMAIN r /\ l = [x \in DOMAIN l |-> l[x]] /\ r = [x \in DOMAIN r |-> r[x]]
  BY DEF MergeStamped
<1>2. ASSUME NEW x \in DOMAIN l PROVE l[x] = r[x]
  BY <1>2, BeforeIsTotalOrder DEF MergeStamped, IsStampedMap
<1> QED
  BY <1>1, <1>2

-----------------------------------------------------------------------------
(* The merge of whole payloads. *)

IsStampedPayload(p) ==
    /\ p = [entries |-> p.entries, tombstones |-> p.tombstones, settings |-> p.settings]
    /\ IsStampedMap(p.entries) /\ IsStampedMap(p.tombstones) /\ IsStampedMap(p.settings)

Live(f, t) == LiveRecords([records |-> f, tombstones |-> t])

(* A map without the records its graveyard T has overtaken. *)
DropsDead(f, g, T) ==
    /\ g = Only(f, DOMAIN g) /\ DOMAIN g \subseteq DOMAIN f
    /\ \A x \in DOMAIN f \ DOMAIN g : x \in DOMAIN T /\ ~Before(T[x].hlc, f[x].hlc)

(* liveRecords keeps exactly the ids whose record beats its tombstone. *)
LEMMA LiveDomain ==
    ASSUME NEW f, NEW t, NEW x
    PROVE  x \in DOMAIN Live(f, t)
             <=> x \in DOMAIN f /\ (x \in DOMAIN t => Before(t[x].hlc, f[x].hlc))
  BY DEF Live, LiveRecords, Only

(* Two record maps with the same live ids and records have equal live parts. *)
LEMMA LiveExtensional ==
    ASSUME NEW f, NEW g, NEW t,
           \A x : /\ x \in DOMAIN Live(f, t) <=> x \in DOMAIN Live(g, t)
                  /\ x \in DOMAIN Live(f, t) => f[x] = g[x]
    PROVE  Live(f, t) = Live(g, t)
<1>1. DOMAIN Live(f, t) = DOMAIN Live(g, t)
  OBVIOUS
<1>2. /\ Live(f, t) = [x \in DOMAIN Live(f, t) |-> f[x]]
      /\ Live(g, t) = [x \in DOMAIN Live(g, t) |-> g[x]]
  BY DEF Live, LiveRecords, Only
<1> QED
  BY <1>1, <1>2

(* The live part of a map is a map that lacks dead records only. *)
LEMMA LiveHolds ==
    ASSUME NEW f, NEW t, IsStampedMap(f), IsStampedMap(t)
    PROVE  /\ IsStampedMap(Live(f, t))
           /\ DropsDead(f, Live(f, t), t)
           /\ \A x \in DOMAIN f : x \in DOMAIN Live(f, t)
                  <=> (x \in DOMAIN t => Before(t[x].hlc, f[x].hlc))
  BY DEF Live, LiveRecords, Only, DropsDead, IsStampedMap

(* Records that a tombstone has overtaken do not influence later merges, so it
   is safe that replicaToPayload drops them. *)
LEMMA DeadRecordsDoNotMatter ==
    ASSUME NEW f, NEW g, NEW h, NEW T,
           IsStampedMap(f), IsStampedMap(g), IsStampedMap(h), IsStampedMap(T),
           DropsDead(f, g, T)
    PROVE  /\ Live(MergeStamped(g, h), T) = Live(MergeStamped(f, h), T)
           /\ Live(MergeStamped(h, g), T) = Live(MergeStamped(h, f), T)
<1> DEFINE gh == MergeStamped(g, h)
           fh == MergeStamped(f, h)
           hg == MergeStamped(h, g)
           hf == MergeStamped(h, f)
<1>1. \A x \in DOMAIN g : x \in DOMAIN f /\ g[x] = f[x]
  BY DEF DropsDead, Only
<1>2. /\ DOMAIN gh = DOMAIN g \cup DOMAIN h /\ DOMAIN fh = DOMAIN f \cup DOMAIN h
      /\ DOMAIN hg = DOMAIN h \cup DOMAIN g /\ DOMAIN hf = DOMAIN h \cup DOMAIN f
  BY DEF MergeStamped
<1>3. \A x \in DOMAIN g : gh[x] = fh[x] /\ hg[x] = hf[x]
  BY <1>1 DEF MergeStamped
<1>4. \A x \in DOMAIN f \ DOMAIN g :
         /\ x \in DOMAIN h /\ Before(f[x].hlc, h[x].hlc) => gh[x] = fh[x] /\ hg[x] = hf[x]
         /\ x \in DOMAIN h => gh[x] = h[x] /\ hg[x] = h[x]
         /\ x \notin DOMAIN h => fh[x] = f[x] /\ hf[x] = f[x]
         /\ x \in DOMAIN h /\ ~Before(f[x].hlc, h[x].hlc) =>
                fh[x] = f[x] /\ (hf[x] = f[x] \/ hf[x] = h[x])
  BY BeforeIsTotalOrder DEF MergeStamped, IsStampedMap
<1>5. \A x \in DOMAIN h \ DOMAIN f : gh[x] = fh[x] /\ hg[x] = hf[x]
  BY <1>1 DEF MergeStamped
<1>6. \A x \in DOMAIN f \ DOMAIN g :
         /\ x \in DOMAIN T
         /\ ~Before(T[x].hlc, f[x].hlc)
         /\ x \in DOMAIN h /\ ~Before(f[x].hlc, h[x].hlc) => ~Before(T[x].hlc, h[x].hlc)
  BY BeforeIsTotalOrder DEF DropsDead, IsStampedMap
<1>7. ASSUME NEW x
      PROVE  /\ x \in DOMAIN Live(gh, T) <=> x \in DOMAIN Live(fh, T)
             /\ x \in DOMAIN Live(gh, T) => gh[x] = fh[x]
             /\ x \in DOMAIN Live(hg, T) <=> x \in DOMAIN Live(hf, T)
             /\ x \in DOMAIN Live(hg, T) => hg[x] = hf[x]
  <2>1. CASE x \in DOMAIN g
    BY <2>1, <1>1, <1>2, <1>3, LiveDomain
  <2>2. CASE x \in DOMAIN f \ DOMAIN g
    BY <2>2, <1>2, <1>4, <1>6, LiveDomain
  <2>3. CASE x \in DOMAIN h \ DOMAIN f
    BY <2>3, <1>1, <1>2, <1>5, LiveDomain
  <2>4. CASE x \notin DOMAIN f /\ x \notin DOMAIN h
    BY <2>4, <1>1, <1>2, LiveDomain
  <2> QED
    BY <2>1, <2>2, <2>3, <2>4
<1> HIDE DEF gh, fh, hg, hf
<1>8. Live(gh, T) = Live(fh, T)
  BY <1>7, LiveExtensional
<1>9. Live(hg, T) = Live(hf, T)
  BY <1>7, LiveExtensional
<1> QED
  BY <1>8, <1>9 DEF gh, fh, hg, hf

PayloadsAgree(a, b) == /\ Agree(a.entries, b.entries)
                       /\ Agree(a.tombstones, b.tombstones)
                       /\ Agree(a.settings, b.settings)

(* The three fields of a merged payload. *)
LEMMA MergeFields ==
    ASSUME NEW a, NEW b
    PROVE  LET m == MergeEntriesPayload(a, b)
           IN  /\ m = [entries |-> m.entries, tombstones |-> m.tombstones,
                       settings |-> m.settings]
               /\ m.entries = Live(MergeStamped(a.entries, b.entries),
                                   MergeStamped(a.tombstones, b.tombstones))
               /\ m.tombstones = MergeStamped(a.tombstones, b.tombstones)
               /\ m.settings = MergeStamped(a.settings, b.settings)
  BY DEF MergeEntriesPayload, MergeReplicas, PayloadToReplica, Live

(* mergeEntriesPayload is commutative where equal stamps name equal content:
   it does not matter which of two devices merges the other's payload. *)
THEOREM MergeCommutes ==
    ASSUME NEW a, NEW b, IsStampedPayload(a), IsStampedPayload(b), PayloadsAgree(a, b)
    PROVE  MergeEntriesPayload(a, b) = MergeEntriesPayload(b, a)
<1>1. /\ MergeStamped(a.entries, b.entries) = MergeStamped(b.entries, a.entries)
      /\ MergeStamped(a.tombstones, b.tombstones) = MergeStamped(b.tombstones, a.tombstones)
      /\ MergeStamped(a.settings, b.settings) = MergeStamped(b.settings, a.settings)
  BY MergeStampedCommutes DEF IsStampedPayload, PayloadsAgree
<1> QED
  BY <1>1, MergeFields

(* mergeEntriesPayload is associative for all payloads, although it throws
   away records a tombstone has overtaken: the order in which payloads of
   several devices are merged does not matter. *)
THEOREM MergeAssociates ==
    ASSUME NEW a, NEW b, NEW c,
           IsStampedPayload(a), IsStampedPayload(b), IsStampedPayload(c)
    PROVE  MergeEntriesPayload(MergeEntriesPayload(a, b), c)
             = MergeEntriesPayload(a, MergeEntriesPayload(b, c))
<1> DEFINE ab == MergeEntriesPayload(a, b)
           bc == MergeEntriesPayload(b, c)
           tab == MergeStamped(a.tombstones, b.tombstones)
           tbc == MergeStamped(b.tombstones, c.tombstones)
           eab == MergeStamped(a.entries, b.entries)
           ebc == MergeStamped(b.entries, c.entries)
           T == MergeStamped(tab, c.tombstones)
<1>1. T = MergeStamped(a.tombstones, tbc)
  BY MergeStampedAssociates DEF IsStampedPayload
<1>2. /\ IsStampedMap(eab) /\ IsStampedMap(ebc) /\ IsStampedMap(T)
      /\ IsStampedMap(tab) /\ IsStampedMap(tbc)
  BY MergeStampedHolds DEF IsStampedPayload
<1>3. /\ \A x \in DOMAIN tab : x \in DOMAIN T /\ ~Before(T[x].hlc, tab[x].hlc)
      /\ \A x \in DOMAIN tbc : x \in DOMAIN T /\ ~Before(T[x].hlc, tbc[x].hlc)
  <2>1. IsStampedMap(a.tombstones) /\ IsStampedMap(c.tombstones)
    BY DEF IsStampedPayload
  <2>2. \A x \in DOMAIN tab : x \in DOMAIN T /\ ~Before(T[x].hlc, tab[x].hlc)
    <3> HIDE DEF tab
    <3> QED
      BY <1>2, <2>1, MergeStampedAbove
  <2>3. \A x \in DOMAIN tbc : x \in DOMAIN T /\ ~Before(T[x].hlc, tbc[x].hlc)
    <3> HIDE DEF tbc, T
    <3> QED
      BY <1>1, <1>2, <2>1, MergeStampedAbove
  <2> QED
    BY <2>2, <2>3
<1>4. /\ DropsDead(eab, Live(eab, tab), tab) /\ IsStampedMap(Live(eab, tab))
      /\ DropsDead(ebc, Live(ebc, tbc), tbc) /\ IsStampedMap(Live(ebc, tbc))
  BY <1>2, LiveHolds
<1> HIDE DEF tab, tbc, eab, ebc, T
<1>5. DropsDead(eab, Live(eab, tab), T)
  <2>1. \A x \in DOMAIN eab \ DOMAIN Live(eab, tab) :
           x \in DOMAIN T /\ ~Before(T[x].hlc, eab[x].hlc)
    BY <1>2, <1>3, <1>4, BeforeIsTotalOrder DEF DropsDead, IsStampedMap
  <2> QED
    BY <2>1, <1>4 DEF DropsDead
<1>6. DropsDead(ebc, Live(ebc, tbc), T)
  <2>1. \A x \in DOMAIN ebc \ DOMAIN Live(ebc, tbc) :
           x \in DOMAIN T /\ ~Before(T[x].hlc, ebc[x].hlc)
    BY <1>2, <1>3, <1>4, BeforeIsTotalOrder DEF DropsDead, IsStampedMap
  <2> QED
    BY <2>1, <1>4 DEF DropsDead
<1>7. Live(MergeStamped(Live(eab, tab), c.entries), T) = Live(MergeStamped(eab, c.entries), T)
  BY <1>2, <1>4, <1>5, DeadRecordsDoNotMatter DEF IsStampedPayload
<1>8. Live(MergeStamped(a.entries, Live(ebc, tbc)), T) = Live(MergeStamped(a.entries, ebc), T)
  BY <1>2, <1>4, <1>6, DeadRecordsDoNotMatter DEF IsStampedPayload
<1>9. MergeStamped(eab, c.entries) = MergeStamped(a.entries, ebc)
  BY MergeStampedAssociates DEF IsStampedPayload, eab, ebc
<1>10. MergeStamped(MergeStamped(a.settings, b.settings), c.settings)
         = MergeStamped(a.settings, MergeStamped(b.settings, c.settings))
  BY MergeStampedAssociates DEF IsStampedPayload
<1>11. /\ ab.entries = Live(eab, tab) /\ ab.tombstones = tab
       /\ ab.settings = MergeStamped(a.settings, b.settings)
       /\ bc.entries = Live(ebc, tbc) /\ bc.tombstones = tbc
       /\ bc.settings = MergeStamped(b.settings, c.settings)
  BY MergeFields DEF tab, tbc, eab, ebc
<1> HIDE DEF ab, bc
<1>12. MergeEntriesPayload(ab, c).entries = MergeEntriesPayload(a, bc).entries
  <2>1. MergeEntriesPayload(ab, c).entries = Live(MergeStamped(Live(eab, tab), c.entries), T)
    BY <1>11, MergeFields DEF T
  <2>2. MergeEntriesPayload(a, bc).entries = Live(MergeStamped(a.entries, Live(ebc, tbc)), T)
    BY <1>1, <1>11, MergeFields
  <2> QED
    BY <2>1, <2>2, <1>7, <1>8, <1>9
<1>13. MergeEntriesPayload(ab, c).tombstones = MergeEntriesPayload(a, bc).tombstones
  BY <1>1, <1>11, MergeFields DEF T
<1>14. MergeEntriesPayload(ab, c).settings = MergeEntriesPayload(a, bc).settings
  BY <1>10, <1>11, MergeFields
<1>15. MergeEntriesPayload(ab, c) = MergeEntriesPayload(a, bc)
  BY <1>12, <1>13, <1>14, MergeFields
<1> QED
  BY <1>15 DEF ab, bc

(* mergeEntriesPayload is idempotent on every payload it can have produced (no
   entry is dead under the payload's own graveyard): a payload delivered
   twice changes nothing the second time. *)
THEOREM MergeIdempotent ==
    ASSUME NEW a, IsStampedPayload(a), Live(a.entries, a.tombstones) = a.entries
    PROVE  MergeEntriesPayload(a, a) = a
<1>1. \A f : IsStampedMap(f) => MergeStamped(f, f) = f
  BY DEF MergeStamped, IsStampedMap
<1>2. /\ MergeStamped(a.entries, a.entries) = a.entries
      /\ MergeStamped(a.tombstones, a.tombstones) = a.tombstones
      /\ MergeStamped(a.settings, a.settings) = a.settings
  BY <1>1 DEF IsStampedPayload
<1> QED
  BY <1>2, MergeFields DEF IsStampedPayload

(* A payload delivered twice in a row changes nothing the second time
   (applyRemotePayload then skips the write):
   no condition on either payload is needed. *)
THEOREM MergeAbsorbs ==
    ASSUME NEW a, NEW b, IsStampedPayload(a), IsStampedPayload(b)
    PROVE  MergeEntriesPayload(MergeEntriesPayload(a, b), b) = MergeEntriesPayload(a, b)
<1> DEFINE R == MergeStamped(a.entries, b.entries)
           T == MergeStamped(a.tombstones, b.tombstones)
           S == MergeStamped(a.settings, b.settings)
           m == MergeEntriesPayload(a, b)
<1>1. /\ IsStampedMap(a.entries) /\ IsStampedMap(a.tombstones) /\ IsStampedMap(a.settings)
      /\ IsStampedMap(b.entries) /\ IsStampedMap(b.tombstones) /\ IsStampedMap(b.settings)
  BY DEF IsStampedPayload
<1>2. ASSUME NEW f, NEW g, IsStampedMap(f), IsStampedMap(g)
      PROVE  MergeStamped(MergeStamped(f, g), g) = MergeStamped(f, g)
  BY <1>2, BeforeIsTotalOrder DEF MergeStamped, IsStampedMap
<1>3. /\ MergeStamped(R, b.entries) = R
      /\ MergeStamped(T, b.tombstones) = T
      /\ MergeStamped(S, b.settings) = S
  BY <1>1, <1>2
<1>4. m.entries = Live(R, T) /\ m.tombstones = T /\ m.settings = S
      /\ m = [entries |-> m.entries, tombstones |-> m.tombstones, settings |-> m.settings]
  BY MergeFields
<1>5. IsStampedMap(R) /\ IsStampedMap(T)
  BY <1>1, MergeStampedHolds
<1> HIDE DEF R, T, S, m
<1>6. DropsDead(R, Live(R, T), T) /\ IsStampedMap(Live(R, T))
  BY <1>5, LiveHolds
<1>7. Live(MergeStamped(Live(R, T), b.entries), T) = Live(R, T)
  BY <1>1, <1>3, <1>5, <1>6, DeadRecordsDoNotMatter
<1>8. MergeEntriesPayload(m, b) = m
  BY <1>3, <1>4, <1>7, MergeFields
<1> QED
  BY <1>8 DEF m
=============================================================================
