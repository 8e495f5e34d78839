-------------------------- MODULE VaultSync_proofs --------------------------
(***************************************************************************)
(* Proofs about VaultSync, for any number of devices, ids and settings and *)
(* any drift budget.  The argument: a device's clock always covers what is *)
(* on its disk and what it ever wrote (IInv), so a local write outranks    *)
(* both and reuses no stamp.  A restart rebuilds the clock from the disk   *)
(* alone; that is enough because the disk remembers every write of its     *)
(* own device (WriterRemembers) and nothing on it is far enough in the     *)
(* future to be clamped (NearNow).                                         *)
(***************************************************************************)
EXTENDS VaultSync, Merge_proofs

-----------------------------------------------------------------------------
(* Stamps drawn by a mutation. *)

(* A selection has a size, and its ids are stamped in some order. *)
LEMMA SelectionSize ==
    ASSUME NEW ids \in SUBSET Id, ids # {}
    PROVE  /\ Cardinality(ids) \in Nat /\ Cardinality(ids) >= 1
           /\ \A r \in Orders(ids) : \A i \in ids : r[i] \in 0..(Cardinality(ids) - 1)
<1>1. IsFiniteSet(ids)
  BY IdAssumption, FS_Subset
<1>2. Cardinality(ids) \in Nat /\ Cardinality(ids) # 0
  BY <1>1, FS_CardinalityType, FS_EmptySet
<1> QED
  BY <1>2 DEF Orders

(* The stamps send() draws for a selection carry the node of the device, sort
   after all its clock covered, and are covered afterwards. *)
LEMMA NthStampIsFresh ==
    ASSUME TypeOK, NEW d \in Node, NEW n \in Nat, n >= 1, NEW k \in 0..(n - 1)
    PROVE  /\ NthStamp(d, k) \in Stamp
           /\ NthStamp(d, k).node = d
           /\ SendMany(clock[d], now[d], n) \in Clock
           /\ Covers(SendMany(clock[d], now[d], n), NthStamp(d, k))
           /\ \A s \in Stamp : Covers(clock[d], s) =>
                 /\ Before(s, NthStamp(d, k))
                 /\ s # NthStamp(d, k)
                 /\ Covers(SendMany(clock[d], now[d], n), s)
           /\ clock[d].wall <= now[d] + Drift =>
                 /\ SendMany(clock[d], now[d], n).wall <= now[d] + Drift
                 /\ ~IsFutureStamp(NthStamp(d, k), now[d])
<1>1. clock[d] \in Clock /\ now[d] \in Nat /\ k \in Nat /\ k <= n - 1
  BY DEF TypeOK
<1> DEFINE c == Send(clock[d], now[d])
<1>2. c \in Clock
  BY <1>1, SendAdvances
<1>3. SendMany(clock[d], now[d], n) = [wall |-> c.wall, counter |-> c.counter + (n - 1)]
  BY <1>2 DEF SendMany, Clock
<1>4. NthStamp(d, k) = [wall |-> c.wall, counter |-> c.counter + k, node |-> d]
  BY DEF NthStamp
<1>5. /\ c.wall \in Nat /\ c.counter \in Nat /\ clock[d].wall \in Nat /\ clock[d].counter \in Nat
      /\ c.wall > clock[d].wall \/ (c.wall = clock[d].wall /\ c.counter > clock[d].counter)
      /\ c.wall = clock[d].wall \/ c.wall = now[d]
  BY <1>1 DEF Send, Clock
<1> HIDE DEF c
<1>6. \A s \in Stamp : Covers(clock[d], s) => Before(s, NthStamp(d, k)) /\ s # NthStamp(d, k)
  BY <1>1, <1>4, <1>5 DEF Covers, Before, Stamp
<1>7. \A s \in Stamp : Covers(clock[d], s) => Covers(SendMany(clock[d], now[d], n), s)
  BY <1>1, <1>3, <1>5 DEF Covers, Stamp
<1>8. /\ NthStamp(d, k) \in Stamp
      /\ NthStamp(d, k).node = d
      /\ SendMany(clock[d], now[d], n) \in Clock
  BY <1>1, <1>3, <1>4, <1>5 DEF Stamp, Clock
<1>9. Covers(SendMany(clock[d], now[d], n), NthStamp(d, k))
  BY <1>1, <1>3, <1>4, <1>5 DEF Covers
<1>10. clock[d].wall <= now[d] + Drift =>
                 /\ SendMany(clock[d], now[d], n).wall <= now[d] + Drift
                 /\ ~IsFutureStamp(NthStamp(d, k), now[d])
  BY <1>1, <1>3, <1>4, <1>5, DriftAssumption DEF IsFutureStamp
<1> QED
  BY <1>6, <1>7, <1>8, <1>9, <1>10

-----------------------------------------------------------------------------
(* What a payload holds. *)

(* A payload is a stamped payload in the sense of the merge lemmas and holds
   finitely many stamps. *)
LEMMA PayloadTypes ==
    ASSUME NEW p, IsPayload(p)
    PROVE  /\ IsStampedPayload(p)
           /\ PayloadStamps(p) \in SUBSET Stamp /\ IsFiniteSet(PayloadStamps(p))
           /\ \A i : StampsFor(p, i) \subseteq PayloadStamps(p)
<1>1. /\ \A i \in DOMAIN p.entries : i \in Id /\ p.entries[i] \in Entry
      /\ \A i \in DOMAIN p.tombstones : i \in Id /\ p.tombstones[i] \in Tombstone
      /\ \A i \in DOMAIN p.settings : p.settings[i] \in Setting
  BY DEF IsPayload, IsMap
<1>2. IsStampedPayload(p)
  BY <1>1 DEF IsStampedPayload, IsPayload, IsStampedMap, Entry, Tombstone, Setting, IsMap
<1>3. PayloadStamps(p) \in SUBSET Stamp
  BY <1>1 DEF PayloadStamps, StampsIn, Entry, Tombstone
<1>4. IsFiniteSet(DOMAIN p.entries) /\ IsFiniteSet(DOMAIN p.tombstones)
  BY IdAssumption, FS_Subset DEF IsPayload, IsMap
<1>5. \A f : IsFiniteSet(DOMAIN f) => IsFiniteSet(StampsIn(f))
  <2> SUFFICES ASSUME NEW f, IsFiniteSet(DOMAIN f) PROVE IsFiniteSet(StampsIn(f))
    OBVIOUS
  <2>1. [x \in DOMAIN f |-> f[x].hlc] \in Surjection(DOMAIN f, StampsIn(f))
    BY DEF Surjection, StampsIn
  <2> QED
    BY <2>1, FS_Surjection
<1>6. IsFiniteSet(PayloadStamps(p))
  BY <1>4, <1>5, FS_Union DEF PayloadStamps
<1>7. \A i : StampsFor(p, i) \subseteq PayloadStamps(p)
  BY DEF StampsFor, PayloadStamps, StampsIn
<1> QED
  BY <1>2, <1>3, <1>6, <1>7

-----------------------------------------------------------------------------
(* What one step may do to a device's disk. *)

Keeps(p, q) ==
    \A i \in Id : \A s \in StampsFor(p, i) : \E t \in StampsFor(q, i) : ~Before(t, s)

KeepsGraves(p, q) ==
    \A i \in DOMAIN p.tombstones :
        i \in DOMAIN q.tombstones /\ ~Before(q.tombstones[i].hlc, p.tombstones[i].hlc)

(* Device d moves to disk q and clock c, keeping what the disk knew, and makes
   the writes W with stamps the old clock does not cover and the new one does. *)
Advance(d, q, c, W) ==
    /\ IsPayload(q) /\ c \in Clock /\ W \in SUBSET Write
    /\ now' = now /\ wire' = wire /\ ops' \in Nat /\ restarts' \in Nat
    /\ disk' = [disk EXCEPT ![d] = q]
    /\ clock' = [clock EXCEPT ![d] = c]
    /\ writes' = writes \cup W
    /\ \A w \in W : /\ w.hlc.node = d
                    /\ ~Covers(clock[d], w.hlc)
                    /\ Covers(c, w.hlc)
                    /\ \E s \in StampsFor(q, w.id) : ~Before(s, w.hlc)
    /\ \A v, w \in W : v.id = w.id /\ v.hlc = w.hlc => v = w
    /\ \A s \in Stamp : Covers(clock[d], s) => Covers(c, s)
    /\ c.wall <= now[d] + Drift
    /\ \A s \in PayloadStamps(q) : ~IsFutureStamp(s, now[d]) /\ Covers(c, s)
    /\ Keeps(disk[d], q) /\ KeepsGraves(disk[d], q)
    /\ \A i \in DOMAIN q.entries :
          [id |-> i, hlc |-> q.entries[i].hlc, data |-> <<q.entries[i].data>>] \in writes \cup W
    /\ \A i \in DOMAIN q.tombstones :
          [id |-> i, hlc |-> q.tombstones[i].hlc, data |-> <<>>] \in writes \cup W
    /\ \A w \in W : w.data = <<>> =>
          w.id \in DOMAIN q.tombstones /\ ~Before(q.tombstones[w.id].hlc, w.hlc)
    /\ NoneDead(q)

(* Any step that advances one device keeps the inductive invariant. *)
LEMMA AdvanceKeepsInvariant ==
    ASSUME IInv, NEW d \in Node, NEW q, NEW c, NEW W, Advance(d, q, c, W)
    PROVE  IInv'
<1>1. TypeOK'
  BY DEF IInv, TypeOK, Advance
<1>2. NearNow'
  BY DEF IInv, TypeOK, NearNow, Advance
<1>3. ClockCoversDisk'
  BY DEF IInv, TypeOK, ClockCoversDisk, Advance
<1>0. \A w \in writes' : w \in Write /\ w.id \in Id /\ w.hlc \in Stamp /\ w.hlc.node \in Node
  BY <1>1 DEF TypeOK, Write, Stamp
<1>4. ClockCoversWrites'
  <2> SUFFICES ASSUME NEW w \in writes' PROVE Covers(clock'[w.hlc.node], w.hlc)
    BY DEF ClockCoversWrites
  <2>1. CASE w \in W
    BY <2>1 DEF Advance, IInv, TypeOK
  <2>2. CASE w \in writes
    BY <2>2, <1>0 DEF Advance, IInv, TypeOK, ClockCoversWrites
  <2> QED
    BY <2>1, <2>2 DEF Advance
<1>5. WriterRemembers'
  <2> SUFFICES ASSUME NEW w \in writes'
               PROVE  \E s \in StampsFor(disk'[w.hlc.node], w.id) : ~Before(s, w.hlc)
    BY DEF WriterRemembers
  <2>1. CASE w \in W
    BY <2>1 DEF Advance, IInv, TypeOK
  <2>2. CASE w \in writes /\ w.hlc.node # d
    BY <2>2, <1>0 DEF Advance, IInv, TypeOK, WriterRemembers
  <2>3. CASE w \in writes /\ w.hlc.node = d
    <3>1. PICK s \in StampsFor(disk[d], w.id) : ~Before(s, w.hlc)
      BY <2>3 DEF IInv, WriterRemembers
    <3>2. PICK t \in StampsFor(q, w.id) : ~Before(t, s)
      BY <3>1, <1>0 DEF Advance, Keeps
    <3>3. s \in Stamp /\ t \in Stamp
      BY <3>1, <3>2, PayloadTypes DEF Advance, IInv, TypeOK
    <3>4. ~Before(t, w.hlc)
      BY <3>1, <3>2, <3>3, <1>0, BeforeIsTotalOrder
    <3> QED
      BY <2>3, <3>2, <3>4 DEF Advance, IInv, TypeOK
  <2> QED
    BY <2>1, <2>2, <2>3 DEF Advance
<1>6. HeldIsWritten'
  <2>1. \A e \in Node : disk'[e] = disk[e] \/ disk'[e] = q
    BY DEF Advance, IInv, TypeOK
  <2> QED
    BY <2>1 DEF HeldIsWritten, WrittenIn, Advance, IInv
<1>7. WritesUnique'
  <2> SUFFICES ASSUME NEW v \in writes', NEW w \in writes', v.id = w.id, v.hlc = w.hlc
               PROVE  v = w
    BY DEF WritesUnique
  <2>1. \A u \in writes, x \in W : u.hlc # x.hlc
    BY DEF Advance, IInv, ClockCoversWrites
  <2> QED
    BY <2>1 DEF Advance, IInv, WritesUnique
<1>8. WriterBuries'
  <2> SUFFICES ASSUME NEW w \in writes', w.data = <<>>
               PROVE  /\ w.id \in DOMAIN disk'[w.hlc.node].tombstones
                      /\ ~Before(disk'[w.hlc.node].tombstones[w.id].hlc, w.hlc)
    BY DEF WriterBuries
  <2>1. CASE w \in W
    BY <2>1 DEF Advance, IInv, TypeOK
  <2>2. CASE w \in writes /\ w.hlc.node # d
    BY <2>2, <1>0 DEF Advance, IInv, TypeOK, WriterBuries
  <2>3. CASE w \in writes /\ w.hlc.node = d
    <3>1. /\ w.id \in DOMAIN disk[d].tombstones
          /\ ~Before(disk[d].tombstones[w.id].hlc, w.hlc)
      BY <2>3 DEF IInv, WriterBuries
    <3>2. /\ w.id \in DOMAIN q.tombstones
          /\ ~Before(q.tombstones[w.id].hlc, disk[d].tombstones[w.id].hlc)
      BY <3>1 DEF Advance, KeepsGraves
    <3>3. disk[d].tombstones[w.id].hlc \in Stamp /\ q.tombstones[w.id].hlc \in Stamp
      BY <3>1, <3>2 DEF Advance, IInv, TypeOK, IsPayload, IsMap, Tombstone
    <3>4. ~Before(q.tombstones[w.id].hlc, w.hlc)
      BY <3>1, <3>2, <3>3, <1>0, BeforeIsTotalOrder
    <3> QED
      BY <2>3, <3>2, <3>4 DEF Advance, IInv, TypeOK
  <2> QED
    BY <2>1, <2>2, <2>3 DEF Advance
<1>9. DisksAreLive'
  <2>1. \A e \in Node : disk'[e] = disk[e] \/ disk'[e] = q
    BY DEF Advance, IInv, TypeOK
  <2> QED
    BY <2>1 DEF DisksAreLive, NoneDead, Advance, IInv
<1> QED
  BY <1>1, <1>2, <1>3, <1>4, <1>5, <1>6, <1>7, <1>8, <1>9 DEF IInv
-----------------------------------------------------------------------------
(* The mutations of entry-mutations.ts. *)

(* The common part of a mutation that stamps the ids of a selection: the clock
   moves past its stamps, which sort after all the device knew. *)
LEMMA StampingIsFresh ==
    ASSUME IInv, NEW d \in Node, NEW n \in Nat, n >= 1, Stamping(d, n),
           NEW c, c = SendMany(clock[d], now[d], n)
    PROVE  /\ c \in Clock /\ ops' \in Nat /\ clock' = [clock EXCEPT ![d] = c]
           /\ c.wall <= now[d] + Drift
           /\ \A s \in Stamp : Covers(clock[d], s) => Covers(c, s)
           /\ \A s \in PayloadStamps(disk[d]) : ~IsFutureStamp(s, now[d]) /\ Covers(c, s)
           /\ \A k \in 0..(n - 1) :
                 /\ NthStamp(d, k) \in Stamp /\ NthStamp(d, k).node = d
                 /\ ~Covers(clock[d], NthStamp(d, k)) /\ Covers(c, NthStamp(d, k))
                 /\ ~IsFutureStamp(NthStamp(d, k), now[d])
                 /\ ~Before(NthStamp(d, k), NthStamp(d, k))
                 /\ \A s \in PayloadStamps(disk[d]) :
                       ~Before(NthStamp(d, k), s) /\ Before(s, NthStamp(d, k))
<1>1. PayloadStamps(disk[d]) \subseteq Stamp
  BY PayloadTypes DEF IInv, TypeOK
<1>2. /\ clock[d].wall <= now[d] + Drift
      /\ \A s \in PayloadStamps(disk[d]) : Covers(clock[d], s) /\ ~IsFutureStamp(s, now[d])
  BY DEF IInv, NearNow, ClockCoversDisk
<1>3. 0 \in 0..(n - 1) /\ TypeOK
  BY DEF IInv
<1>4. /\ c \in Clock /\ c.wall <= now[d] + Drift
      /\ \A s \in Stamp : Covers(clock[d], s) => Covers(c, s)
  BY <1>2, <1>3, NthStampIsFresh
<1>5. ops' \in Nat /\ clock' = [clock EXCEPT ![d] = c]
  BY <1>3 DEF Stamping, TypeOK
<1>6. ASSUME NEW k \in 0..(n - 1)
      PROVE  /\ NthStamp(d, k) \in Stamp /\ NthStamp(d, k).node = d
             /\ ~Covers(clock[d], NthStamp(d, k)) /\ Covers(c, NthStamp(d, k))
             /\ ~IsFutureStamp(NthStamp(d, k), now[d])
             /\ ~Before(NthStamp(d, k), NthStamp(d, k))
             /\ \A s \in PayloadStamps(disk[d]) :
                   ~Before(NthStamp(d, k), s) /\ Before(s, NthStamp(d, k))
  <2>1. NthStamp(d, k) \in Stamp /\ NthStamp(d, k).node = d /\ Covers(c, NthStamp(d, k))
    BY <1>3, NthStampIsFresh
  <2>2. ~IsFutureStamp(NthStamp(d, k), now[d])
    BY <1>2, <1>3, NthStampIsFresh
  <2>3. \A s \in Stamp : Covers(clock[d], s) => Before(s, NthStamp(d, k)) /\ s # NthStamp(d, k)
    BY <1>3, NthStampIsFresh
  <2>4. ~Covers(clock[d], NthStamp(d, k))
    BY <2>1, <2>3
  <2>5. \A s \in PayloadStamps(disk[d]) :
           ~Before(NthStamp(d, k), s) /\ Before(s, NthStamp(d, k))
    BY <1>1, <1>2, <2>1, <2>3, BeforeIsTotalOrder
  <2> QED
    BY <2>1, <2>2, <2>4, <2>5, BeforeIsTotalOrder
<1> QED
  BY <1>1, <1>2, <1>4, <1>5, <1>6

(* add, importMany, update, touch, setArchived, setTags. *)
LEMMA PutAdvances ==
    ASSUME IInv, NEW d \in Node, NEW ids \in SUBSET Id, ids # {}, NEW x \in Data,
           Stamping(d, Cardinality(ids)), PutEntries(d, ids, x),
           UNCHANGED <<now, wire, restarts>>
    PROVE  \E q, c, W : Advance(d, q, c, W)
<1> DEFINE n == Cardinality(ids)
           c == SendMany(clock[d], now[d], n)
<1>1. n \in Nat /\ n >= 1
  BY SelectionSize
<1>2. PICK r \in Orders(ids) :
        /\ disk' = [disk EXCEPT ![d] =
              BuildPayload(Overlay(@.entries, FreshEntries(d, r, x)), @.tombstones, @.settings)]
        /\ writes' = writes \cup
              {[id |-> i, hlc |-> NthStamp(d, r[i]), data |-> <<x>>] : i \in ids}
  BY DEF PutEntries
<1> DEFINE p == disk[d]
           st(i) == NthStamp(d, r[i])
           E == Overlay(p.entries, FreshEntries(d, r, x))
           q == [entries |-> E, tombstones |-> p.tombstones, settings |-> p.settings]
           W == {[id |-> i, hlc |-> st(i), data |-> <<x>>] : i \in ids}
<1>3. \A i \in ids : r[i] \in 0..(n - 1)
  BY SelectionSize
<1>4. /\ c \in Clock /\ ops' \in Nat /\ clock' = [clock EXCEPT ![d] = c]
      /\ c.wall <= now[d] + Drift
      /\ \A s \in Stamp : Covers(clock[d], s) => Covers(c, s)
      /\ \A s \in PayloadStamps(p) : ~IsFutureStamp(s, now[d]) /\ Covers(c, s)
  <2> HIDE DEF c, n
  <2> QED
    BY <1>1, StampingIsFresh DEF n, c
<1>5. \A i \in ids :
         /\ st(i) \in Stamp /\ st(i).node = d
         /\ ~Covers(clock[d], st(i)) /\ Covers(c, st(i))
         /\ ~IsFutureStamp(st(i), now[d])
         /\ ~Before(st(i), st(i))
         /\ \A s \in PayloadStamps(p) : ~Before(st(i), s) /\ Before(s, st(i))
  <2> HIDE DEF c, n
  <2> QED
    BY <1>1, <1>3, StampingIsFresh DEF n, c
<1>6. IsPayload(p)
  BY DEF IInv, TypeOK
<1>7. disk' = [disk EXCEPT ![d] = q] /\ writes' = writes \cup W
  BY <1>2 DEF BuildPayload
<1>8. /\ DOMAIN E = DOMAIN p.entries \cup ids
      /\ \A i \in ids : E[i].hlc = st(i) /\ E[i].data = x /\ E[i] \in Entry
      /\ \A i \in DOMAIN p.entries \ ids : E[i] = p.entries[i]
  <2>1. DOMAIN r = ids
    BY DEF Orders
  <2> QED
    BY <2>1, <1>5 DEF Entry, Overlay, FreshEntries
<1>9. IsPayload(q)
  <2>1. IsMap(E, Id, Entry)
    <3>1. \A i \in DOMAIN E : i \in Id /\ E[i] \in Entry
      BY <1>6, <1>8 DEF IsPayload, IsMap
    <3> QED
      BY <3>1 DEF IsMap, Overlay
  <2> QED
    BY <1>6, <2>1 DEF IsPayload
<1> HIDE DEF E, c
<1>10. \A s \in PayloadStamps(q) : s \in PayloadStamps(p) \/ \E i \in ids : s = st(i)
  BY <1>7, <1>8 DEF PayloadStamps, StampsIn
<1>11. \A s \in PayloadStamps(q) : ~IsFutureStamp(s, now[d]) /\ Covers(c, s)
  BY <1>4, <1>5, <1>10
<1>12. /\ \A i \in ids : st(i) \in StampsFor(q, i)
       /\ \A i \in Id \ ids : StampsFor(q, i) = StampsFor(p, i)
  BY <1>7, <1>8 DEF StampsFor
<1>13. Keeps(p, q)
  <2> SUFFICES ASSUME NEW i \in Id, NEW s \in StampsFor(p, i)
               PROVE  \E t \in StampsFor(q, i) : ~Before(t, s)
    BY DEF Keeps
  <2>1. s \in PayloadStamps(p) /\ s \in Stamp
    BY <1>6, PayloadTypes
  <2>2. CASE i \in ids
    BY <2>1, <2>2, <1>5, <1>12
  <2>3. CASE i \notin ids
    BY <2>1, <2>3, <1>12, BeforeIsTotalOrder
  <2> QED
    BY <2>2, <2>3
<1>14. KeepsGraves(p, q)
  <2>1. \A i \in DOMAIN p.tombstones : p.tombstones[i].hlc \in Stamp
    BY <1>6 DEF IsPayload, IsMap, Tombstone
  <2> QED
    BY <1>7, <2>1, BeforeIsTotalOrder DEF KeepsGraves
<1>15. \A w \in W : /\ w.hlc.node = d
                     /\ ~Covers(clock[d], w.hlc)
                     /\ Covers(c, w.hlc)
                     /\ \E s \in StampsFor(q, w.id) : ~Before(s, w.hlc)
  BY <1>5, <1>12
<1>16. W \in SUBSET Write /\ \A v, w \in W : v.id = w.id /\ v.hlc = w.hlc => v = w
  BY <1>5 DEF Write
<1>17. \A i \in DOMAIN q.entries :
          [id |-> i, hlc |-> q.entries[i].hlc, data |-> <<q.entries[i].data>>] \in writes \cup W
  BY <1>7, <1>8 DEF IInv, HeldIsWritten, WrittenIn
<1>18. restarts' \in Nat
  BY DEF IInv, TypeOK
<1>19. /\ \A i \in DOMAIN q.tombstones :
             [id |-> i, hlc |-> q.tombstones[i].hlc, data |-> <<>>] \in writes \cup W
       /\ \A w \in W : w.data # <<>>
  BY DEF IInv, HeldIsWritten, WrittenIn
<1>20. NoneDead(q)
  <2> SUFFICES ASSUME NEW i \in DOMAIN E, i \in DOMAIN p.tombstones
               PROVE  Before(p.tombstones[i].hlc, E[i].hlc)
    BY DEF NoneDead
  <2>1. p.tombstones[i].hlc \in PayloadStamps(p)
    BY DEF PayloadStamps, StampsIn
  <2> QED
    BY <2>1, <1>5, <1>8 DEF IInv, DisksAreLive, NoneDead
<1> HIDE DEF q, W
<1>21. Advance(d, q, c, W)
  BY <1>4, <1>7, <1>9, <1>11, <1>13, <1>14, <1>15, <1>16, <1>17, <1>18, <1>19, <1>20 DEF Advance
<1> QED
  BY <1>21

(* removeMany. *)
LEMMA RemoveAdvances ==
    ASSUME IInv, NEW d \in Node, NEW ids \in SUBSET Id, RemoveMany(d, ids)
    PROVE  \E q, c, W : Advance(d, q, c, W)
<1> DEFINE n == Cardinality(ids)
           c == SendMany(clock[d], now[d], n)
<1>1. n \in Nat /\ n >= 1
  BY SelectionSize DEF RemoveMany
<1>2. PICK r \in Orders(ids) :
        /\ disk' = [disk EXCEPT ![d] =
              BuildPayload(Only(@.entries, Id \ ids),
                           Overlay(@.tombstones, FreshTombstones(d, r)), @.settings)]
        /\ writes' = writes \cup
              {[id |-> i, hlc |-> NthStamp(d, r[i]), data |-> <<>>] : i \in ids}
  BY DEF RemoveMany
<1> DEFINE p == disk[d]
           st(i) == NthStamp(d, r[i])
           E == Only(p.entries, Id \ ids)
           T == Overlay(p.tombstones, FreshTombstones(d, r))
           q == [entries |-> E, tombstones |-> T, settings |-> p.settings]
           W == {[id |-> i, hlc |-> st(i), data |-> <<>>] : i \in ids}
<1>3. \A i \in ids : r[i] \in 0..(n - 1)
  BY SelectionSize DEF RemoveMany
<1>4. /\ c \in Clock /\ ops' \in Nat /\ clock' = [clock EXCEPT ![d] = c]
      /\ c.wall <= now[d] + Drift
      /\ \A s \in Stamp : Covers(clock[d], s) => Covers(c, s)
      /\ \A s \in PayloadStamps(p) : ~IsFutureStamp(s, now[d]) /\ Covers(c, s)
  <2> HIDE DEF c, n
  <2> QED
    BY <1>1, StampingIsFresh DEF n, c, RemoveMany
<1>5. \A i \in ids :
         /\ st(i) \in Stamp /\ st(i).node = d
         /\ ~Covers(clock[d], st(i)) /\ Covers(c, st(i))
         /\ ~IsFutureStamp(st(i), now[d])
         /\ ~Before(st(i), st(i))
         /\ \A s \in PayloadStamps(p) : ~Before(st(i), s) /\ Before(s, st(i))
  <2> HIDE DEF c, n
  <2> QED
    BY <1>1, <1>3, StampingIsFresh DEF n, c, RemoveMany
<1>6. IsPayload(p)
  BY DEF IInv, TypeOK
<1>7. disk' = [disk EXCEPT ![d] = q] /\ writes' = writes \cup W
  BY <1>2 DEF BuildPayload
<1>8. /\ DOMAIN T = DOMAIN p.tombstones \cup ids
      /\ \A i \in ids : T[i].hlc = st(i) /\ T[i] \in Tombstone
      /\ \A i \in DOMAIN p.tombstones \ ids : T[i] = p.tombstones[i]
      /\ DOMAIN E = DOMAIN p.entries \ ids
      /\ \A i \in DOMAIN E : E[i] = p.entries[i]
  <2>1. DOMAIN r = ids
    BY DEF Orders
  <2>2. DOMAIN p.entries \subseteq Id
    BY <1>6 DEF IsPayload, IsMap
  <2> QED
    BY <2>1, <2>2, <1>5 DEF Tombstone, Overlay, FreshTombstones, Only
<1>9. IsPayload(q)
  <2>1. IsMap(E, Id, Entry)
    BY <1>6, <1>8 DEF IsPayload, IsMap, Only
  <2>2. IsMap(T, Id, Tombstone)
    <3>1. \A i \in DOMAIN T : i \in Id /\ T[i] \in Tombstone
      BY <1>6, <1>8 DEF IsPayload, IsMap
    <3> QED
      BY <3>1 DEF IsMap, Overlay
  <2> QED
    BY <1>6, <2>1, <2>2 DEF IsPayload
<1> HIDE DEF E, T, c
<1>10. \A s \in PayloadStamps(q) : s \in PayloadStamps(p) \/ \E i \in ids : s = st(i)
  BY <1>8 DEF PayloadStamps, StampsIn
<1>11. \A s \in PayloadStamps(q) : ~IsFutureStamp(s, now[d]) /\ Covers(c, s)
  BY <1>4, <1>5, <1>10
<1>12. /\ \A i \in ids : st(i) \in StampsFor(q, i)
       /\ \A i \in Id \ ids : StampsFor(q, i) = StampsFor(p, i)
  BY <1>8 DEF StampsFor
<1>13. Keeps(p, q)
  <2> SUFFICES ASSUME NEW i \in Id, NEW s \in StampsFor(p, i)
               PROVE  \E t \in StampsFor(q, i) : ~Before(t, s)
    BY DEF Keeps
  <2>1. s \in PayloadStamps(p) /\ s \in Stamp
    BY <1>6, PayloadTypes
  <2>2. CASE i \in ids
    BY <2>1, <2>2, <1>5, <1>12
  <2>3. CASE i \notin ids
    BY <2>1, <2>3, <1>12, BeforeIsTotalOrder
  <2> QED
    BY <2>2, <2>3
<1>14. KeepsGraves(p, q)
  <2>1. \A i \in DOMAIN p.tombstones :
           p.tombstones[i].hlc \in Stamp /\ p.tombstones[i].hlc \in PayloadStamps(p)
    BY <1>6 DEF IsPayload, IsMap, Tombstone, PayloadStamps, StampsIn
  <2> QED
    BY <1>5, <1>8, <2>1, BeforeIsTotalOrder DEF KeepsGraves
<1>15. \A w \in W : /\ w.hlc.node = d
                     /\ ~Covers(clock[d], w.hlc)
                     /\ Covers(c, w.hlc)
                     /\ \E s \in StampsFor(q, w.id) : ~Before(s, w.hlc)
  BY <1>5, <1>12
<1>16. W \in SUBSET Write /\ \A v, w \in W : v.id = w.id /\ v.hlc = w.hlc => v = w
  BY <1>5 DEF Write
<1>17. \A i \in DOMAIN q.entries :
          [id |-> i, hlc |-> q.entries[i].hlc, data |-> <<q.entries[i].data>>] \in writes \cup W
  BY <1>8 DEF IInv, HeldIsWritten, WrittenIn
<1>18. restarts' \in Nat /\ now' = now /\ wire' = wire
  BY DEF IInv, TypeOK, RemoveMany
<1>19. /\ \A i \in DOMAIN q.tombstones :
             [id |-> i, hlc |-> q.tombstones[i].hlc, data |-> <<>>] \in writes \cup W
       /\ \A w \in W : w.id \in DOMAIN q.tombstones /\ ~Before(q.tombstones[w.id].hlc, w.hlc)
  BY <1>5, <1>8 DEF IInv, HeldIsWritten, WrittenIn
<1>20. NoneDead(q)
  BY <1>8 DEF IInv, DisksAreLive, NoneDead
<1> HIDE DEF q, W
<1>21. Advance(d, q, c, W)
  BY <1>4, <1>7, <1>9, <1>11, <1>13, <1>14, <1>15, <1>16, <1>17, <1>18, <1>19, <1>20 DEF Advance
<1> QED
  BY <1>21

(* A step that leaves entries and tombstones alone keeps what the disk knew. *)
LEMMA SameRecordsKeep ==
    ASSUME NEW p, NEW q, IsPayload(p), q.entries = p.entries, q.tombstones = p.tombstones
    PROVE  Keeps(p, q) /\ KeepsGraves(p, q) /\ PayloadStamps(q) = PayloadStamps(p)
<1>1. \A i \in Id : StampsFor(q, i) = StampsFor(p, i) /\ StampsFor(p, i) \subseteq Stamp
  BY PayloadTypes DEF StampsFor
<1>2. \A i \in DOMAIN p.tombstones : p.tombstones[i].hlc \in Stamp
  BY DEF IsPayload, IsMap, Tombstone
<1> QED
  BY <1>1, <1>2, BeforeIsTotalOrder DEF Keeps, KeepsGraves, PayloadStamps

(* A touch that is coalesced away, or an update of an id no longer listed. *)
LEMMA DrawUnusedAdvances ==
    ASSUME IInv, NEW d \in Node, DrawUnused(d)
    PROVE  \E q, c, W : Advance(d, q, c, W)
<1> DEFINE c == SendMany(clock[d], now[d], 1)
<1>1. /\ c \in Clock /\ ops' \in Nat /\ clock' = [clock EXCEPT ![d] = c]
      /\ c.wall <= now[d] + Drift
      /\ \A s \in Stamp : Covers(clock[d], s) => Covers(c, s)
      /\ \A s \in PayloadStamps(disk[d]) : ~IsFutureStamp(s, now[d]) /\ Covers(c, s)
  BY StampingIsFresh DEF DrawUnused
<1>2. IsPayload(disk[d])
  BY DEF IInv, TypeOK
<1>3. Keeps(disk[d], disk[d]) /\ KeepsGraves(disk[d], disk[d])
  BY <1>2, SameRecordsKeep
<1>4. /\ disk' = [disk EXCEPT ![d] = disk[d]] /\ writes' = writes \cup {}
      /\ now' = now /\ wire' = wire /\ restarts' \in Nat
  BY DEF DrawUnused, IInv, TypeOK
<1>5. \A i \in DOMAIN disk[d].entries :
         [id |-> i, hlc |-> disk[d].entries[i].hlc, data |-> <<disk[d].entries[i].data>>]
            \in writes \cup {}
  BY DEF IInv, HeldIsWritten, WrittenIn
<1>6. /\ \A i \in DOMAIN disk[d].tombstones :
            [id |-> i, hlc |-> disk[d].tombstones[i].hlc, data |-> <<>>] \in writes \cup {}
      /\ NoneDead(disk[d])
  BY DEF IInv, HeldIsWritten, WrittenIn, DisksAreLive
<1> HIDE DEF c
<1>7. Advance(d, disk[d], c, {})
  BY <1>1, <1>2, <1>3, <1>4, <1>5, <1>6 DEF Advance
<1> QED
  BY <1>7

(* setSetting. *)
LEMMA SettingAdvances ==
    ASSUME IInv, NEW d \in Node, NEW k \in Key, NEW v \in Value, SetSetting(d, k, v)
    PROVE  \E q, c, W : Advance(d, q, c, W)
<1> DEFINE c == SendMany(clock[d], now[d], 1)
           p == disk[d]
           S == Overlay(p.settings, [y \in {k} |-> [hlc |-> NthStamp(d, 0), value |-> v]])
           q == [entries |-> p.entries, tombstones |-> p.tombstones, settings |-> S]
<1>1. /\ c \in Clock /\ ops' \in Nat /\ clock' = [clock EXCEPT ![d] = c]
      /\ c.wall <= now[d] + Drift
      /\ \A s \in Stamp : Covers(clock[d], s) => Covers(c, s)
      /\ \A s \in PayloadStamps(disk[d]) : ~IsFutureStamp(s, now[d]) /\ Covers(c, s)
      /\ NthStamp(d, 0) \in Stamp
  BY StampingIsFresh DEF SetSetting
<1>2. IsPayload(p)
  BY DEF IInv, TypeOK
<1>3. IsPayload(q)
  <2>1. IsMap(S, Key, Setting)
    BY <1>1, <1>2 DEF IsPayload, IsMap, Overlay, Setting
  <2> QED
    BY <1>2, <2>1 DEF IsPayload
<1>4. /\ disk' = [disk EXCEPT ![d] = q] /\ writes' = writes \cup {}
      /\ now' = now /\ wire' = wire /\ restarts' \in Nat
  BY DEF SetSetting, BuildPayload, IInv, TypeOK
<1> HIDE DEF S, c
<1>5. Keeps(p, q) /\ KeepsGraves(p, q) /\ PayloadStamps(q) = PayloadStamps(p)
  BY <1>2, SameRecordsKeep
<1>6. \A i \in DOMAIN q.entries :
          [id |-> i, hlc |-> q.entries[i].hlc, data |-> <<q.entries[i].data>>] \in writes \cup {}
  BY DEF IInv, HeldIsWritten, WrittenIn
<1>7. /\ \A i \in DOMAIN q.tombstones :
            [id |-> i, hlc |-> q.tombstones[i].hlc, data |-> <<>>] \in writes \cup {}
      /\ NoneDead(q)
  BY DEF IInv, HeldIsWritten, WrittenIn, DisksAreLive, NoneDead
<1> HIDE DEF q
<1>8. Advance(d, q, c, {})
  BY <1>1, <1>3, <1>4, <1>5, <1>6, <1>7 DEF Advance
<1> QED
  BY <1>8
-----------------------------------------------------------------------------
(* applyRemotePayload. *)

(* sanitizeRemoteEntriesPayload only drops items, the future-dated ones. *)
LEMMA SanitizeDrops ==
    ASSUME NEW p, IsPayload(p), NEW t, NEW s, s = SanitizeRemoteEntriesPayload(p, t)
    PROVE  /\ IsPayload(s)
           /\ \A i \in DOMAIN s.entries : i \in DOMAIN p.entries /\ s.entries[i] = p.entries[i]
           /\ \A i \in DOMAIN s.tombstones :
                 i \in DOMAIN p.tombstones /\ s.tombstones[i] = p.tombstones[i]
           /\ \A x \in PayloadStamps(s) : ~IsFutureStamp(x, t)
<1>1. s = [entries |-> NotFuture(p.entries, t), tombstones |-> NotFuture(p.tombstones, t),
           settings |-> NotFuture(p.settings, t)]
  BY DEF SanitizeRemoteEntriesPayload
<1>2. \A f : \A i \in DOMAIN NotFuture(f, t) :
         i \in DOMAIN f /\ NotFuture(f, t)[i] = f[i] /\ ~IsFutureStamp(f[i].hlc, t)
  BY DEF NotFuture, Only
<1>3. \A f, S, T : IsMap(f, S, T) => IsMap(NotFuture(f, t), S, T)
  BY DEF NotFuture, Only, IsMap
<1>4. IsPayload(s)
  BY <1>1, <1>3 DEF IsPayload
<1> QED
  BY <1>1, <1>2, <1>4 DEF PayloadStamps, StampsIn

(* mergeEntriesPayload of two payloads is a payload whose records come from
   one of the two, and which has forgotten nothing of the first. *)
LEMMA MergeKeeps ==
    ASSUME NEW p, NEW s, IsPayload(p), IsPayload(s), NEW m, m = MergeEntriesPayload(p, s)
    PROVE  /\ IsPayload(m)
           /\ \A i \in DOMAIN m.entries :
                 \/ i \in DOMAIN p.entries /\ m.entries[i] = p.entries[i]
                 \/ i \in DOMAIN s.entries /\ m.entries[i] = s.entries[i]
           /\ \A i \in DOMAIN m.tombstones :
                 \/ i \in DOMAIN p.tombstones /\ m.tombstones[i] = p.tombstones[i]
                 \/ i \in DOMAIN s.tombstones /\ m.tombstones[i] = s.tombstones[i]
           /\ NoneDead(m)
           /\ PayloadStamps(m) \subseteq PayloadStamps(p) \cup PayloadStamps(s)
           /\ Keeps(p, m)
           /\ KeepsGraves(p, m)
<1> DEFINE R == MergeStamped(p.entries, s.entries)
           T == MergeStamped(p.tombstones, s.tombstones)
           S == MergeStamped(p.settings, s.settings)
<1>1. IsStampedPayload(p) /\ IsStampedPayload(s)
  BY PayloadTypes
<1>2. m = [entries |-> Live(R, T), tombstones |-> T, settings |-> S]
  BY DEF MergeEntriesPayload, MergeReplicas, PayloadToReplica, Live
<1>3. /\ IsStampedMap(R) /\ IsStampedMap(T)
      /\ \A i \in DOMAIN R : \/ i \in DOMAIN p.entries /\ R[i] = p.entries[i]
                             \/ i \in DOMAIN s.entries /\ R[i] = s.entries[i]
      /\ \A i \in DOMAIN T : \/ i \in DOMAIN p.tombstones /\ T[i] = p.tombstones[i]
                             \/ i \in DOMAIN s.tombstones /\ T[i] = s.tombstones[i]
      /\ \A i \in DOMAIN S : \/ i \in DOMAIN p.settings /\ S[i] = p.settings[i]
                             \/ i \in DOMAIN s.settings /\ S[i] = s.settings[i]
  <2>1. /\ IsStampedMap(p.entries) /\ IsStampedMap(p.tombstones) /\ IsStampedMap(p.settings)
        /\ IsStampedMap(s.entries) /\ IsStampedMap(s.tombstones) /\ IsStampedMap(s.settings)
    BY <1>1 DEF IsStampedPayload
  <2>2. /\ IsStampedMap(R)
        /\ \A i \in DOMAIN R : \/ i \in DOMAIN p.entries /\ R[i] = p.entries[i]
                               \/ i \in DOMAIN s.entries /\ R[i] = s.entries[i]
    BY <2>1 DEF MergeStamped, IsStampedMap
  <2>3. /\ IsStampedMap(T)
        /\ \A i \in DOMAIN T : \/ i \in DOMAIN p.tombstones /\ T[i] = p.tombstones[i]
                               \/ i \in DOMAIN s.tombstones /\ T[i] = s.tombstones[i]
    BY <2>1 DEF MergeStamped, IsStampedMap
  <2>4. /\ IsStampedMap(S)
        /\ \A i \in DOMAIN S : \/ i \in DOMAIN p.settings /\ S[i] = p.settings[i]
                               \/ i \in DOMAIN s.settings /\ S[i] = s.settings[i]
    BY <2>1 DEF MergeStamped, IsStampedMap
  <2> QED
    BY <2>2, <2>3, <2>4
<1>4. /\ \A i \in DOMAIN p.entries : i \in DOMAIN R /\ ~Before(R[i].hlc, p.entries[i].hlc)
      /\ \A i \in DOMAIN p.tombstones : i \in DOMAIN T /\ ~Before(T[i].hlc, p.tombstones[i].hlc)
  BY <1>1, MergeStampedAbove DEF IsStampedPayload
<1>5. R = [i \in DOMAIN R |-> R[i]] /\ T = [i \in DOMAIN T |-> T[i]] /\ S = [i \in DOMAIN S |-> S[i]]
  BY DEF MergeStamped
<1> HIDE DEF R, T, S
<1>6. /\ DOMAIN Live(R, T) \subseteq DOMAIN R
      /\ \A i \in DOMAIN Live(R, T) : Live(R, T)[i] = R[i]
      /\ Live(R, T) = [i \in DOMAIN Live(R, T) |-> Live(R, T)[i]]
  BY DEF Live, LiveRecords, Only
<1>7. \A i \in DOMAIN R : i \in DOMAIN Live(R, T) \/ (i \in DOMAIN T /\ ~Before(T[i].hlc, R[i].hlc))
  BY LiveDomain
<1>8. IsPayload(m)
  <2>1. \A i \in DOMAIN Live(R, T) : i \in Id /\ Live(R, T)[i] \in Entry
    BY <1>3, <1>6 DEF IsPayload, IsMap
  <2>2. \A i \in DOMAIN T : i \in Id /\ T[i] \in Tombstone
    BY <1>3 DEF IsPayload, IsMap
  <2>3. \A i \in DOMAIN S : i \in Key /\ S[i] \in Setting
    BY <1>3 DEF IsPayload, IsMap
  <2>4. IsMap(Live(R, T), Id, Entry) /\ IsMap(T, Id, Tombstone) /\ IsMap(S, Key, Setting)
    BY <2>1, <2>2, <2>3, <1>5, <1>6 DEF IsMap
  <2> QED
    BY <1>2, <2>4 DEF IsPayload
<1>9. \A i \in DOMAIN m.entries :
                 \/ i \in DOMAIN p.entries /\ m.entries[i] = p.entries[i]
                 \/ i \in DOMAIN s.entries /\ m.entries[i] = s.entries[i]
  BY <1>2, <1>3, <1>6
<1>10. PayloadStamps(m) \subseteq PayloadStamps(p) \cup PayloadStamps(s)
  <2>1. \A i \in DOMAIN m.tombstones :
           \/ i \in DOMAIN p.tombstones /\ m.tombstones[i] = p.tombstones[i]
           \/ i \in DOMAIN s.tombstones /\ m.tombstones[i] = s.tombstones[i]
    BY <1>2, <1>3
  <2> QED
    BY <2>1, <1>9 DEF PayloadStamps, StampsIn
<1>11. KeepsGraves(p, m)
  BY <1>2, <1>4 DEF KeepsGraves
<1>12. Keeps(p, m)
  <2> SUFFICES ASSUME NEW i \in Id, NEW x \in StampsFor(p, i)
               PROVE  \E t \in StampsFor(m, i) : ~Before(t, x)
    BY DEF Keeps
  <2>0. /\ i \in DOMAIN m.tombstones => m.tombstones[i].hlc \in StampsFor(m, i)
        /\ i \in DOMAIN m.entries => m.entries[i].hlc \in StampsFor(m, i)
    BY DEF StampsFor
  <2>1. CASE i \in DOMAIN p.tombstones /\ x = p.tombstones[i].hlc
    BY <2>0, <2>1, <1>2, <1>4
  <2>2. CASE i \in DOMAIN p.entries /\ x = p.entries[i].hlc
    <3>1. i \in DOMAIN R /\ ~Before(R[i].hlc, x) /\ R[i].hlc \in Stamp /\ x \in Stamp
      BY <2>2, <1>1, <1>3, <1>4 DEF IsStampedMap, IsStampedPayload
    <3>2. CASE i \in DOMAIN Live(R, T)
      BY <3>1, <3>2, <2>0, <1>2, <1>6
    <3>3. CASE i \in DOMAIN T /\ ~Before(T[i].hlc, R[i].hlc)
      <4>1. T[i].hlc \in Stamp
        BY <3>3, <1>3 DEF IsStampedMap
      <4>2. ~Before(T[i].hlc, x)
        BY <3>1, <3>3, <4>1, BeforeIsTotalOrder
      <4> QED
        BY <4>2, <3>3, <2>0, <1>2
    <3> QED
      BY <3>1, <3>2, <3>3, <1>7
  <2> QED
    BY <2>1, <2>2 DEF StampsFor
<1>13. NoneDead(m)
  BY <1>2, <1>6, LiveDomain DEF NoneDead
<1>14. \A i \in DOMAIN m.tombstones :
          \/ i \in DOMAIN p.tombstones /\ m.tombstones[i] = p.tombstones[i]
          \/ i \in DOMAIN s.tombstones /\ m.tombstones[i] = s.tombstones[i]
  BY <1>2, <1>3
<1> QED
  BY <1>8, <1>9, <1>10, <1>11, <1>12, <1>13, <1>14

(* applyRemotePayload. *)
LEMMA DeliverAdvances ==
    ASSUME IInv, NEW d \in Node, NEW e \in Node, Deliver(d, e)
    PROVE  \E q, c, W : Advance(e, q, c, W)
<1> DEFINE p == disk[e]
           s == SanitizeRemoteEntriesPayload(wire[d][e], now[e])
           m == MergeEntriesPayload(p, s)
<1>1. PICK c \in WitnessAll(clock[e], PayloadStamps(s), now[e]) :
         clock' = [clock EXCEPT ![e] = c]
  BY DEF Deliver
<1>2. /\ disk' = [disk EXCEPT ![e] = m] /\ writes' = writes \cup {}
      /\ now' = now /\ wire' = wire /\ ops' \in Nat /\ restarts' \in Nat
  BY DEF Deliver, IInv, TypeOK
<1>3. IsPayload(p) /\ IsPayload(wire[d][e]) /\ now[e] \in Nat /\ clock[e] \in Clock
  BY DEF IInv, TypeOK
<1>4. /\ IsPayload(s)
      /\ \A i \in DOMAIN s.entries :
            i \in DOMAIN wire[d][e].entries /\ s.entries[i] = wire[d][e].entries[i]
      /\ \A i \in DOMAIN s.tombstones :
            i \in DOMAIN wire[d][e].tombstones /\ s.tombstones[i] = wire[d][e].tombstones[i]
      /\ \A x \in PayloadStamps(s) : ~IsFutureStamp(x, now[e])
  BY <1>3, SanitizeDrops
<1> HIDE DEF s
<1>5. /\ IsPayload(m)
      /\ \A i \in DOMAIN m.entries :
            \/ i \in DOMAIN p.entries /\ m.entries[i] = p.entries[i]
            \/ i \in DOMAIN s.entries /\ m.entries[i] = s.entries[i]
      /\ \A i \in DOMAIN m.tombstones :
            \/ i \in DOMAIN p.tombstones /\ m.tombstones[i] = p.tombstones[i]
            \/ i \in DOMAIN s.tombstones /\ m.tombstones[i] = s.tombstones[i]
      /\ NoneDead(m)
      /\ PayloadStamps(m) \subseteq PayloadStamps(p) \cup PayloadStamps(s)
      /\ Keeps(p, m) /\ KeepsGraves(p, m)
  BY <1>3, <1>4, MergeKeeps
<1>6. PayloadStamps(s) \in SUBSET Stamp /\ IsFiniteSet(PayloadStamps(s))
      /\ PayloadStamps(p) \in SUBSET Stamp
  BY <1>3, <1>4, PayloadTypes
<1>7. /\ c \in Clock
      /\ \A x \in Stamp : Covers(clock[e], x) => Covers(c, x)
      /\ \A x \in PayloadStamps(s) : ~IsFutureStamp(x, now[e]) => Covers(c, x)
      /\ clock[e].wall <= now[e] + Drift => c.wall <= now[e] + Drift
  BY <1>1, <1>3, <1>6, WitnessAllAdvances
<1> HIDE DEF m
<1>8. c.wall <= now[e] + Drift
  BY <1>7 DEF IInv, NearNow
<1>9. \A x \in PayloadStamps(m) : ~IsFutureStamp(x, now[e]) /\ Covers(c, x)
  <2>1. \A x \in PayloadStamps(p) : ~IsFutureStamp(x, now[e]) /\ Covers(c, x)
    BY <1>6, <1>7 DEF IInv, NearNow, ClockCoversDisk
  <2> QED
    BY <2>1, <1>4, <1>5, <1>7
<1>10. \A i \in DOMAIN m.entries :
          [id |-> i, hlc |-> m.entries[i].hlc, data |-> <<m.entries[i].data>>] \in writes \cup {}
  BY <1>4, <1>5 DEF IInv, HeldIsWritten, WrittenIn
<1>11. \A i \in DOMAIN m.tombstones :
          [id |-> i, hlc |-> m.tombstones[i].hlc, data |-> <<>>] \in writes \cup {}
  BY <1>4, <1>5 DEF IInv, HeldIsWritten, WrittenIn
<1>12. Advance(e, m, c, {})
  BY <1>1, <1>2, <1>5, <1>7, <1>8, <1>9, <1>10, <1>11 DEF Advance
<1> QED
  BY <1>12

-----------------------------------------------------------------------------
(* loadEntries after a restart: the clock rebuilt from the disk alone still
   covers every write of the device, because the disk remembers them. *)
LEMMA RestartKeepsInvariant ==
    ASSUME IInv, NEW d \in Node, Restart(d)
    PROVE  IInv'
<1>1. PICK c \in WitnessAll(FreshClock, PayloadStamps(disk[d]), now[d]) :
         clock' = [clock EXCEPT ![d] = c]
  BY DEF Restart
<1>2. /\ FreshClock \in Clock /\ now[d] \in Nat /\ IsPayload(disk[d])
      /\ FreshClock.wall <= now[d] + Drift
  BY DriftAssumption DEF FreshClock, Clock, IInv, TypeOK
<1>3. PayloadStamps(disk[d]) \in SUBSET Stamp /\ IsFiniteSet(PayloadStamps(disk[d]))
  BY <1>2, PayloadTypes
<1>4. /\ c \in Clock
      /\ \A s \in PayloadStamps(disk[d]) : ~IsFutureStamp(s, now[d]) => Covers(c, s)
      /\ c.wall <= now[d] + Drift
  BY <1>1, <1>2, <1>3, WitnessAllAdvances
<1>5. \A s \in PayloadStamps(disk[d]) : Covers(c, s)
  BY <1>4 DEF IInv, NearNow
<1>6. /\ now' = now /\ disk' = disk /\ wire' = wire /\ writes' = writes
      /\ ops' = ops /\ restarts' \in Nat
  BY DEF Restart, IInv, TypeOK
<1>7. TypeOK'
  BY <1>1, <1>4, <1>6 DEF IInv, TypeOK
<1>8. NearNow' /\ ClockCoversDisk'
  BY <1>1, <1>4, <1>5, <1>6 DEF IInv, NearNow, ClockCoversDisk, TypeOK
<1>9. ClockCoversWrites'
  <2> SUFFICES ASSUME NEW w \in writes PROVE Covers(clock'[w.hlc.node], w.hlc)
    BY <1>6 DEF ClockCoversWrites
  <2>1. w.hlc \in Stamp /\ w.hlc.node \in Node /\ w.id \in Id
    BY DEF IInv, TypeOK, Write, Stamp
  <2>2. CASE w.hlc.node # d
    BY <1>1, <2>1, <2>2 DEF IInv, TypeOK, ClockCoversWrites
  <2>3. CASE w.hlc.node = d
    <3>1. PICK s \in StampsFor(disk[d], w.id) : ~Before(s, w.hlc)
      BY <2>3 DEF IInv, WriterRemembers
    <3>2. s \in PayloadStamps(disk[d]) /\ s \in Stamp /\ Covers(c, s)
      BY <1>2, <1>5, <3>1, PayloadTypes
    <3>3. \A x \in Stamp : x.wall \in Nat /\ x.counter \in Nat /\ x.node \in Nat
      BY NodeAssumption DEF Stamp
    <3>4. Covers(c, w.hlc)
      BY <1>4, <2>1, <3>1, <3>2, <3>3 DEF Covers, Before, Clock
    <3> QED
      BY <1>1, <2>3, <3>4 DEF IInv, TypeOK
  <2> QED
    BY <2>2, <2>3
<1>10. /\ WriterRemembers' /\ HeldIsWritten' /\ WritesUnique'
       /\ WriterBuries' /\ DisksAreLive'
  BY <1>6 DEF IInv, WriterRemembers, HeldIsWritten, WrittenIn, WritesUnique, WriterBuries,
              DisksAreLive, NoneDead
<1> QED
  BY <1>7, <1>8, <1>9, <1>10 DEF IInv

(* Physical time moves what is near now only nearer. *)
LEMMA TickKeepsInvariant ==
    ASSUME IInv, NEW d \in Node, Tick(d)
    PROVE  IInv'
<1>1. TypeOK'
  BY DEF IInv, TypeOK, Tick
<1>2. NearNow'
  <2>1. \A e \in Node : now[e] \in Nat /\ now'[e] \in Nat /\ now'[e] >= now[e]
    BY DEF IInv, TypeOK, Tick
  <2>2. \A e \in Node : clock[e].wall \in Nat /\ PayloadStamps(disk[e]) \subseteq Stamp
    BY PayloadTypes DEF IInv, TypeOK, Clock
  <2> QED
    BY <2>1, <2>2, DriftAssumption DEF IInv, NearNow, Tick, IsFutureStamp, Stamp
<1>3. /\ ClockCoversDisk' /\ ClockCoversWrites' /\ WriterRemembers' /\ HeldIsWritten'
      /\ WritesUnique' /\ WriterBuries' /\ DisksAreLive'
  BY DEF IInv, Tick, ClockCoversDisk, ClockCoversWrites, WriterRemembers, HeldIsWritten,
         WrittenIn, WritesUnique, WriterBuries, DisksAreLive, NoneDead
<1> QED
  BY <1>1, <1>2, <1>3 DEF IInv

(* A broadcast copies a disk whose entries were all written. *)
LEMMA TransmitKeepsInvariant ==
    ASSUME IInv, NEW d \in Node, NEW e \in Node, Transmit(d, e)
    PROVE  IInv'
<1>1. /\ \A a, b \in Node : wire'[a][b] = wire[a][b] \/ wire'[a][b] = disk[d]
      /\ DOMAIN wire' = Node /\ \A a \in Node : DOMAIN wire'[a] = Node
  BY DEF IInv, TypeOK, Transmit
<1>2. TypeOK'
  BY <1>1 DEF IInv, TypeOK, Transmit
<1>3. HeldIsWritten'
  BY <1>1 DEF IInv, HeldIsWritten, WrittenIn, Transmit
<1>4. /\ NearNow' /\ ClockCoversDisk' /\ ClockCoversWrites' /\ WriterRemembers'
      /\ WritesUnique' /\ WriterBuries' /\ DisksAreLive'
  BY DEF IInv, Transmit, NearNow, ClockCoversDisk, ClockCoversWrites, WriterRemembers,
         WritesUnique, WriterBuries, DisksAreLive, NoneDead
<1> QED
  BY <1>2, <1>3, <1>4 DEF IInv
-----------------------------------------------------------------------------
(* The theorems. *)

(* A step that advances a device neither forgets a write nor loses a tombstone
   anywhere. *)
LEMMA AdvanceForgetsNothing ==
    ASSUME IInv, NEW d \in Node, NEW q, NEW c, NEW W, Advance(d, q, c, W)
    PROVE  \A e \in Node : Keeps(disk[e], disk'[e]) /\ KeepsGraves(disk[e], disk'[e])
<1> SUFFICES ASSUME NEW e \in Node
             PROVE  Keeps(disk[e], disk'[e]) /\ KeepsGraves(disk[e], disk'[e])
  OBVIOUS
<1>1. CASE e = d
  BY <1>1 DEF Advance, IInv, TypeOK
<1>2. CASE e # d
  <2>1. disk'[e] = disk[e] /\ IsPayload(disk[e])
    BY <1>2 DEF Advance, IInv, TypeOK
  <2> QED
    BY <2>1, SameRecordsKeep
<1> QED
  BY <1>1, <1>2

(* What every step of VaultSync does. *)
LEMMA StepIsSafe ==
    ASSUME IInv, [Next]_vars
    PROVE  IInv' /\ \A e \in Node : Keeps(disk[e], disk'[e]) /\ KeepsGraves(disk[e], disk'[e])
<1> DEFINE Good == IInv' /\ \A e \in Node : Keeps(disk[e], disk'[e]) /\ KeepsGraves(disk[e], disk'[e])
<1>1. ASSUME NEW d \in Node, \E q, c, W : Advance(d, q, c, W) PROVE Good
  <2>1. PICK q, c, W : Advance(d, q, c, W)
    BY <1>1
  <2> QED
    BY <2>1, AdvanceKeepsInvariant, AdvanceForgetsNothing
<1>2. ASSUME disk' = disk, IInv' PROVE Good
  <2>1. \A e \in Node : IsPayload(disk[e])
    BY DEF IInv, TypeOK
  <2> QED
    BY <1>2, <2>1, SameRecordsKeep
<1> SUFFICES Good
  OBVIOUS
<1> HIDE DEF Good
<1>3. ASSUME NEW d \in Node, Tick(d) PROVE Good
  BY <1>2, <1>3, TickKeepsInvariant DEF Tick
<1>4. ASSUME NEW d \in Node, NEW ids \in SUBSET Id, NEW x \in Data, Add(d, ids, x) PROVE Good
  BY <1>1, <1>4, PutAdvances DEF Add
<1>5. ASSUME NEW d \in Node, NEW ids \in SUBSET Id, NEW x \in Data, Update(d, ids, x) PROVE Good
  BY <1>1, <1>5, PutAdvances DEF Update
<1>6. ASSUME NEW d \in Node, NEW ids \in SUBSET Id, RemoveMany(d, ids) PROVE Good
  BY <1>1, <1>6, RemoveAdvances
<1>7. ASSUME NEW d \in Node, DrawUnused(d) PROVE Good
  BY <1>1, <1>7, DrawUnusedAdvances
<1>8. ASSUME NEW d \in Node, NEW k \in Key, NEW v \in Value, SetSetting(d, k, v) PROVE Good
  BY <1>1, <1>8, SettingAdvances
<1>9. ASSUME NEW d \in Node, Restart(d) PROVE Good
  BY <1>2, <1>9, RestartKeepsInvariant DEF Restart
<1>10. ASSUME NEW d \in Node, NEW e \in Node, Transmit(d, e) PROVE Good
  BY <1>2, <1>10, TransmitKeepsInvariant DEF Transmit
<1>11. ASSUME NEW d \in Node, NEW e \in Node, Deliver(d, e) PROVE Good
  BY <1>1, <1>11, DeliverAdvances
<1>12. CASE UNCHANGED vars
  <2>1. TypeOK' /\ NearNow' /\ ClockCoversDisk' /\ ClockCoversWrites'
    BY <1>12 DEF vars, IInv, TypeOK, NearNow, ClockCoversDisk, ClockCoversWrites
  <2>2. WriterRemembers' /\ WriterBuries'
    BY <1>12 DEF vars, IInv, WriterRemembers, WriterBuries
  <2>3. HeldIsWritten'
    BY <1>12 DEF vars, IInv, HeldIsWritten, WrittenIn
  <2>4. WritesUnique' /\ DisksAreLive'
    BY <1>12 DEF vars, IInv, WritesUnique, DisksAreLive, NoneDead
  <2>5. IInv'
    BY <2>1, <2>2, <2>3, <2>4 DEF IInv
  <2> QED
    BY <2>5, <1>2, <1>12 DEF vars
<1>13. CASE Next
  BY <1>13, <1>3, <1>4, <1>5, <1>6, <1>7, <1>8, <1>9, <1>10, <1>11 DEF Next
<1> QED
  BY <1>12, <1>13

(* Empty disks and fresh clocks satisfy the inductive invariant. *)
LEMMA InitIsSafe == Init => IInv
<1> SUFFICES ASSUME Init PROVE IInv
  OBVIOUS
<1>1. IsPayload(EmptyPayload) /\ PayloadStamps(EmptyPayload) = {}
  BY DEF EmptyPayload, NoMap, IsPayload, IsMap, PayloadStamps, StampsIn
<1>2. TypeOK
  BY <1>1 DEF Init, TypeOK, FreshClock, Clock
<1>3. NearNow /\ ClockCoversDisk
  BY <1>1, DriftAssumption DEF Init, NearNow, ClockCoversDisk, FreshClock
<1>4. HeldIsWritten /\ DisksAreLive
  BY DEF Init, HeldIsWritten, WrittenIn, DisksAreLive, NoneDead, EmptyPayload, NoMap
<1>5. ClockCoversWrites /\ WriterRemembers /\ WritesUnique /\ WriterBuries
  BY DEF Init, ClockCoversWrites, WriterRemembers, WritesUnique, WriterBuries
<1> QED
  BY <1>2, <1>3, <1>4, <1>5 DEF IInv

(* In every reachable state of VaultSync, whatever the devices, ids and drift
   budget: the types hold, every clock covers the disk and the writes of its
   device, and the disk remembers each write of its own device. *)
THEOREM InvariantHolds == Spec => []IInv
<1>1. IInv /\ [Next]_vars => IInv'
  BY StepIsSafe
<1> QED
  BY <1>1, InitIsSafe, PTL DEF Spec

(* The type invariant of VaultSync. *)
THEOREM TypeCorrect == Spec => []TypeOK
<1>1. IInv => TypeOK
  BY DEF IInv
<1> QED
  BY <1>1, InvariantHolds, PTL

(* No device ever loses one of its own writes (persist, applyRemotePayload and
   loadEntries together): its disk holds it or a later one for the id. *)
THEOREM WritesSurvive == Spec => []WriterRemembers
<1>1. IInv => WriterRemembers
  BY DEF IInv
<1> QED
  BY <1>1, InvariantHolds, PTL

(* One (id, stamp) pair names one content on every disk and wire: the premise
   of mergeEntriesPayload and payloadsEquivalent, which compare stamps only. *)
THEOREM ContentIsNamedByItsStamp == Spec => []StampNamesContent
<1>1. IInv => StampNamesContent
  <2> SUFFICES ASSUME IInv, NEW a \in AllHeld, NEW b \in AllHeld, a[1] = b[1], a[2] = b[2]
               PROVE  a[3] = b[3]
    BY DEF StampNamesContent
  <2>1. \A h \in AllHeld : [id |-> h[1], hlc |-> h[2], data |-> <<h[3]>>] \in writes
    <3>1. ASSUME NEW p, WrittenIn(p), NEW h \in Held(p)
          PROVE  [id |-> h[1], hlc |-> h[2], data |-> <<h[3]>>] \in writes
      BY <3>1 DEF WrittenIn, Held
    <3>2. \A h \in AllHeld : \E p : WrittenIn(p) /\ h \in Held(p)
      BY DEF AllHeld, IInv, HeldIsWritten
    <3> QED
      BY <3>1, <3>2
  <2>2. [id |-> a[1], hlc |-> a[2], data |-> <<a[3]>>] = [id |-> b[1], hlc |-> b[2], data |-> <<b[3]>>]
    BY <2>1 DEF IInv, WritesUnique
  <2>3. <<a[3]>> = <<b[3]>>
    BY <2>2
  <2> QED
    BY <2>3
<1> QED
  BY <1>1, InvariantHolds, PTL

(* No step makes a device's knowledge of an id go back: local writes outrank
   what the disk holds, merges keep the maximum, restarts touch nothing. *)
THEOREM KnowledgeGrows == Spec => NeverForgets
<1>1. IInv /\ [Next]_vars =>
        [\A d \in Node, i \in Id :
            \A s \in StampsFor(disk[d], i) : \E t \in StampsFor(disk'[d], i) : ~Before(t, s)]_vars
  BY StepIsSafe DEF Keeps
<1> QED
  BY <1>1, InvariantHolds, PTL DEF Spec, NeverForgets

(* The graveyard of a device never loses or sets back a tombstone. *)
THEOREM GraveyardGrows == Spec => TombstonesGrow
<1>1. IInv /\ [Next]_vars =>
        [\A d \in Node : \A i \in DOMAIN disk[d].tombstones :
            /\ i \in DOMAIN disk'[d].tombstones
            /\ ~Before(disk'[d].tombstones[i].hlc, disk[d].tombstones[i].hlc)]_vars
  BY StepIsSafe DEF KeepsGraves
<1> QED
  BY <1>1, InvariantHolds, PTL DEF Spec, TombstonesGrow
-----------------------------------------------------------------------------
(* Where merges come to rest. *)

(* Stamps of which neither is before the other are the same. *)
LEMMA TiedStamps ==
    ASSUME NEW a \in Stamp, NEW b \in Stamp, ~Before(a, b), ~Before(b, a)
    PROVE  a = b
  BY BeforeIsTotalOrder

(* Two payloads without dead entries that each find the other redundant have
   the same stamps. *)
LEMMA RedundantBothWays ==
    ASSUME NEW p, NEW q, IsPayload(p), IsPayload(q), NoneDead(p), NoneDead(q),
           PayloadsEquivalent(p, MergeEntriesPayload(p, q)),
           PayloadsEquivalent(q, MergeEntriesPayload(q, p))
    PROVE  StampMapsEqual(p.entries, q.entries) /\ StampMapsEqual(p.tombstones, q.tombstones)
<1>1. IsStampedPayload(p) /\ IsStampedPayload(q)
  BY PayloadTypes
<1>2. ASSUME NEW a, NEW b, IsStampedPayload(a), IsStampedPayload(b), NoneDead(b),
             PayloadsEquivalent(a, MergeEntriesPayload(a, b))
      PROVE  /\ \A i \in DOMAIN b.tombstones :
                   i \in DOMAIN a.tombstones /\ ~Before(a.tombstones[i].hlc, b.tombstones[i].hlc)
             /\ StampMapsEqual(a.tombstones, b.tombstones) =>
                   \A i \in DOMAIN b.entries :
                       i \in DOMAIN a.entries /\ ~Before(a.entries[i].hlc, b.entries[i].hlc)
  <2> DEFINE R == MergeStamped(a.entries, b.entries)
             T == MergeStamped(a.tombstones, b.tombstones)
  <2>1. /\ IsStampedMap(a.entries) /\ IsStampedMap(b.entries)
        /\ IsStampedMap(a.tombstones) /\ IsStampedMap(b.tombstones)
    BY <1>2 DEF IsStampedPayload
  <2>2. /\ \A i \in DOMAIN b.entries : i \in DOMAIN R /\ ~Before(R[i].hlc, b.entries[i].hlc)
        /\ \A i \in DOMAIN b.tombstones : i \in DOMAIN T /\ ~Before(T[i].hlc, b.tombstones[i].hlc)
        /\ IsStampedMap(R) /\ IsStampedMap(T)
    BY <2>1, MergeStampedAbove, MergeStampedHolds
  <2>3. StampMapsEqual(a.entries, Live(R, T)) /\ StampMapsEqual(a.tombstones, T)
    BY <1>2, MergeFields DEF PayloadsEquivalent
  <2> HIDE DEF R, T
  <2>4. \A i \in DOMAIN b.tombstones :
           i \in DOMAIN a.tombstones /\ ~Before(a.tombstones[i].hlc, b.tombstones[i].hlc)
    BY <2>2, <2>3 DEF StampMapsEqual
  <2>5. ASSUME StampMapsEqual(a.tombstones, b.tombstones), NEW i \in DOMAIN b.entries
        PROVE  i \in DOMAIN a.entries /\ ~Before(a.entries[i].hlc, b.entries[i].hlc)
    <3>1. i \in DOMAIN R /\ ~Before(R[i].hlc, b.entries[i].hlc)
      BY <2>2
    <3>2. i \in DOMAIN T => i \in DOMAIN b.tombstones /\ T[i].hlc = b.tombstones[i].hlc
      BY <2>3, <2>5 DEF StampMapsEqual
    <3>3. i \in DOMAIN T => Before(T[i].hlc, R[i].hlc)
      <4> SUFFICES ASSUME i \in DOMAIN T PROVE Before(T[i].hlc, R[i].hlc)
        OBVIOUS
      <4>1. Before(T[i].hlc, b.entries[i].hlc)
        BY <1>2, <3>2 DEF NoneDead
      <4>2. T[i].hlc \in Stamp /\ R[i].hlc \in Stamp /\ b.entries[i].hlc \in Stamp
        BY <2>1, <2>2, <3>1 DEF IsStampedMap
      <4> QED
        BY <3>1, <4>1, <4>2, BeforeIsTotalOrder
    <3>4. i \in DOMAIN Live(R, T) /\ Live(R, T)[i] = R[i]
      BY <3>1, <3>3, LiveDomain DEF Live, LiveRecords, Only
    <3> QED
      BY <3>1, <3>4, <2>3 DEF StampMapsEqual
  <2> QED
    BY <2>4, <2>5
<1>3. /\ \A i \in DOMAIN p.tombstones : p.tombstones[i].hlc \in Stamp
      /\ \A i \in DOMAIN q.tombstones : q.tombstones[i].hlc \in Stamp
      /\ \A i \in DOMAIN p.entries : p.entries[i].hlc \in Stamp
      /\ \A i \in DOMAIN q.entries : q.entries[i].hlc \in Stamp
  BY <1>1 DEF IsStampedPayload, IsStampedMap
<1>4. /\ \A i \in DOMAIN q.tombstones :
            i \in DOMAIN p.tombstones /\ ~Before(p.tombstones[i].hlc, q.tombstones[i].hlc)
      /\ \A i \in DOMAIN p.tombstones :
            i \in DOMAIN q.tombstones /\ ~Before(q.tombstones[i].hlc, p.tombstones[i].hlc)
  BY <1>1, <1>2
<1>5. StampMapsEqual(p.tombstones, q.tombstones) /\ StampMapsEqual(q.tombstones, p.tombstones)
  BY <1>3, <1>4, TiedStamps DEF StampMapsEqual
<1>6. /\ \A i \in DOMAIN q.entries :
            i \in DOMAIN p.entries /\ ~Before(p.entries[i].hlc, q.entries[i].hlc)
      /\ \A i \in DOMAIN p.entries :
            i \in DOMAIN q.entries /\ ~Before(q.entries[i].hlc, p.entries[i].hlc)
  BY <1>1, <1>2, <1>5
<1>7. StampMapsEqual(p.entries, q.entries)
  BY <1>3, <1>6, TiedStamps DEF StampMapsEqual
<1> QED
  BY <1>5, <1>7

(* A payload of written, living records holds the reference result if it
   knows of every write something that is not older, of deletions a deletion. *)
LEMMA KnowingAllIsReference ==
    ASSUME IInv, NEW p, IsPayload(p), WrittenIn(p), NoneDead(p),
           \A w \in writes : \E s \in StampsFor(p, w.id) : ~Before(s, w.hlc),
           \A w \in writes : w.data = <<>> =>
              w.id \in DOMAIN p.tombstones /\ ~Before(p.tombstones[w.id].hlc, w.hlc)
    PROVE  HoldsReference(p)
<1> DEFINE dead(i) == [id |-> i, hlc |-> p.tombstones[i].hlc, data |-> <<>>]
           put(i) == [id |-> i, hlc |-> p.entries[i].hlc, data |-> <<p.entries[i].data>>]
<1>1. /\ \A i \in DOMAIN p.tombstones : dead(i) \in writes /\ p.tombstones[i].hlc \in Stamp
      /\ \A i \in DOMAIN p.entries : put(i) \in writes /\ p.entries[i].hlc \in Stamp
      /\ \A w \in writes : w \in Write /\ w.hlc \in Stamp
  BY DEF WrittenIn, IsPayload, IsMap, Tombstone, Entry, IInv, TypeOK, Write
<1>2. \A i \in DOMAIN p.tombstones : dead(i) \in Deletions
  BY <1>1 DEF Deletions, Newest
<1>3. \A w \in Deletions : w.id \in DOMAIN p.tombstones /\ w.hlc = p.tombstones[w.id].hlc
  <2> SUFFICES ASSUME NEW w \in Deletions
               PROVE  w.id \in DOMAIN p.tombstones /\ w.hlc = p.tombstones[w.id].hlc
    OBVIOUS
  <2>1. w \in writes /\ w.data = <<>>
    BY DEF Deletions, Newest
  <2>2. w.id \in DOMAIN p.tombstones /\ ~Before(p.tombstones[w.id].hlc, w.hlc)
    BY <2>1
  <2>3. ~Before(w.hlc, dead(w.id).hlc)
    BY <1>1, <2>2 DEF Deletions, Newest
  <2> QED
    BY <1>1, <2>1, <2>2, <2>3, TiedStamps
<1>4. {<<i, p.tombstones[i].hlc>> : i \in DOMAIN p.tombstones} = Reference.tombstones
  <2>1. ASSUME NEW i \in DOMAIN p.tombstones
        PROVE  \E w \in Deletions : <<i, p.tombstones[i].hlc>> = <<w.id, w.hlc>>
    BY <1>2
  <2>2. ASSUME NEW w \in Deletions
        PROVE  \E i \in DOMAIN p.tombstones : <<w.id, w.hlc>> = <<i, p.tombstones[i].hlc>>
    BY <1>3
  <2> QED
    BY <2>1, <2>2 DEF Reference
<1>5. ASSUME NEW i \in DOMAIN p.entries
      PROVE  put(i) \in Living
  <2>1. put(i) \in writes /\ put(i).data # <<>>
    BY <1>1
  <2>2. ASSUME NEW v \in writes, v.id = i
        PROVE  ~Before(p.entries[i].hlc, v.hlc)
    <3>1. PICK s \in StampsFor(p, i) : ~Before(s, v.hlc)
      BY <2>2
    <3>2. CASE s = p.entries[i].hlc
      BY <3>1, <3>2
    <3>3. CASE i \in DOMAIN p.tombstones /\ s = p.tombstones[i].hlc
      <4>1. Before(s, p.entries[i].hlc) /\ s \in Stamp
        BY <3>3, <1>1 DEF NoneDead
      <4> QED
        BY <3>1, <4>1, <1>1, BeforeIsTotalOrder
    <3> QED
      BY <3>1, <3>2, <3>3 DEF StampsFor
  <2>3. ASSUME NEW v \in Deletions, v.id = i
        PROVE  Before(v.hlc, p.entries[i].hlc)
    BY <1>3, <2>3 DEF NoneDead
  <2> QED
    BY <2>1, <2>2, <2>3 DEF Living, Newest
<1>6. ASSUME NEW w \in Living
      PROVE  w.id \in DOMAIN p.entries /\ w = put(w.id)
  <2>1. w \in writes /\ w.data # <<>>
    BY DEF Living, Newest
  <2>2. PICK s \in StampsFor(p, w.id) : ~Before(s, w.hlc)
    BY <2>1
  <2>3. ~(w.id \in DOMAIN p.tombstones /\ s = p.tombstones[w.id].hlc)
    <3> SUFFICES ASSUME w.id \in DOMAIN p.tombstones, s = p.tombstones[w.id].hlc PROVE FALSE
      OBVIOUS
    <3>1. dead(w.id) \in Deletions /\ dead(w.id).id = w.id /\ dead(w.id).hlc = s
      BY <1>2
    <3>2. Before(s, w.hlc)
      BY <3>1 DEF Living
    <3> QED
      BY <2>2, <3>2
  <2>4. w.id \in DOMAIN p.entries /\ s = p.entries[w.id].hlc
    BY <2>2, <2>3 DEF StampsFor
  <2>5. put(w.id) \in writes /\ put(w.id).data # <<>> /\ put(w.id).id = w.id
        /\ put(w.id).hlc = s /\ s \in Stamp
    BY <1>1, <2>4
  <2>6. ~Before(w.hlc, s)
    BY <2>5 DEF Living, Newest
  <2>7. w.hlc = s
    BY <1>1, <2>1, <2>2, <2>5, <2>6, TiedStamps
  <2> HIDE DEF put
  <2> QED
    BY <2>1, <2>4, <2>5, <2>7 DEF IInv, WritesUnique
<1>7. Held(p) = Reference.entries
  <2>1. ASSUME NEW i \in DOMAIN p.entries
        PROVE  \E w \in Living :
                  <<i, p.entries[i].hlc, p.entries[i].data>> = <<w.id, w.hlc, w.data[1]>>
    BY <1>5
  <2>2. ASSUME NEW w \in Living
        PROVE  \E i \in DOMAIN p.entries :
                  <<w.id, w.hlc, w.data[1]>> = <<i, p.entries[i].hlc, p.entries[i].data>>
    BY <1>6
  <2> QED
    BY <2>1, <2>2 DEF Held, Reference
<1> QED
  BY <1>4, <1>7 DEF HoldsReference

(* Where all merges are redundant, every device has what all writes prescribe
   (applyRemotePayload, payloadsEquivalent): with fairness, which only TLC
   considers, devices get there. *)
THEOREM SettledHoldsReference == Spec => []SettledIsReference
<1>1. IInv => SettledIsReference
  <2> SUFFICES ASSUME IInv, Settled, NEW d \in Node PROVE HoldsReference(disk[d])
    BY DEF SettledIsReference
  <2>1. \A e \in Node : IsPayload(disk[e]) /\ WrittenIn(disk[e]) /\ NoneDead(disk[e])
    BY DEF IInv, TypeOK, HeldIsWritten, DisksAreLive
  <2>2. ASSUME NEW e \in Node
        PROVE  /\ StampMapsEqual(disk[e].entries, disk[d].entries)
               /\ StampMapsEqual(disk[e].tombstones, disk[d].tombstones)
    <3>1. CASE e = d
      BY <3>1 DEF StampMapsEqual
    <3>2. CASE e # d
      BY <3>2, <2>1, RedundantBothWays DEF Settled
    <3> QED
      BY <3>1, <3>2
  <2>3. \A w \in writes : w.hlc.node \in Node
    BY DEF IInv, TypeOK, Write, Stamp
  <2>4. \A w \in writes : \E s \in StampsFor(disk[d], w.id) : ~Before(s, w.hlc)
    <3>1. \A e \in Node : \A i : StampsFor(disk[e], i) = StampsFor(disk[d], i)
      BY <2>2 DEF StampMapsEqual, StampsFor
    <3> QED
      BY <3>1, <2>3 DEF IInv, WriterRemembers
  <2>5. \A w \in writes : w.data = <<>> =>
           /\ w.id \in DOMAIN disk[d].tombstones
           /\ ~Before(disk[d].tombstones[w.id].hlc, w.hlc)
    BY <2>2, <2>3 DEF IInv, WriterBuries, StampMapsEqual
  <2> QED
    BY <2>1, <2>4, <2>5, KnowingAllIsReference
<1> QED
  BY <1>1, InvariantHolds, PTL
=============================================================================
