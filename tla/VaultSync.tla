----------------------------- MODULE VaultSync -----------------------------
(***************************************************************************)
(* Pairwise gossip of one vault between its devices.  Each device keeps    *)
(* the decrypted payload of its vault blob on disk and a hybrid clock in   *)
(* memory; its physical clock runs at its own pace.  A local mutation      *)
(* (core/src/vault/entry-mutations.ts) stamps and persists in one step;    *)
(* a broadcast (transport/roster-sync.ts) puts the current payload on the  *)
(* wire; its arrival runs applyRemotePayload (sync/apply-remote.ts).  The  *)
(* wire keeps the last payload sent to a peer: it may arrive late, many    *)
(* times, or be overwritten before it arrives.  Restarting the app loses   *)
(* the clock, which loadEntries (hooks/useVault.tsx) rebuilds from disk.   *)
(*                                                                         *)
(* On a device the steps of different writers are atomic here; LocalVault  *)
(* opens them up.                                                          *)
(***************************************************************************)
EXTENDS Merge

CONSTANTS Id,           \* entry ids (UUIDs)
          Data,         \* what an entry's envelope decrypts to
          Key,          \* keys of vault-scoped settings
          Value,        \* values of settings
          MaxTime,      \* bound: the last instant of a physical clock
          MaxOps,       \* bound: local mutations, over all devices
          MaxRestarts   \* bound: restarts, over all devices

ASSUME IdAssumption == IsFiniteSet(Id)

VARIABLES now,        \* device -> its physical clock, Date.now()
          clock,      \* device -> its HybridClock
          disk,       \* device -> the payload in its vault blob
          wire,       \* sender -> receiver -> the payload in flight
          ops,        \* local mutations so far
          restarts,   \* restarts so far
          writes      \* history: every entry write and deletion ever made

vars == <<now, clock, disk, wire, ops, restarts, writes>>

Entry == [hlc : Stamp, data : Data]
Tombstone == [hlc : Stamp]
Setting == [hlc : Stamp, value : Value]

IsPayload(p) ==
    /\ p = [entries |-> p.entries, tombstones |-> p.tombstones, settings |-> p.settings]
    /\ IsMap(p.entries, Id, Entry)
    /\ IsMap(p.tombstones, Id, Tombstone)
    /\ IsMap(p.settings, Key, Setting)

\* An entry write records its data; a deletion records none.
Write == [id : Id, hlc : Stamp, data : {<<x>> : x \in Data} \cup {<<>>}]

TypeOK ==
    /\ now \in [Node -> Nat]
    /\ clock \in [Node -> Clock]
    /\ disk = [d \in Node |-> disk[d]] /\ \A d \in Node : IsPayload(disk[d])
    /\ DOMAIN wire = Node
    /\ \A d \in Node : DOMAIN wire[d] = Node /\ \A e \in Node : IsPayload(wire[d][e])
    /\ ops \in Nat
    /\ restarts \in Nat
    /\ writes \in SUBSET Write

Init ==
    /\ now = [d \in Node |-> 1]
    /\ clock = [d \in Node |-> FreshClock]
    /\ disk = [d \in Node |-> EmptyPayload]
    /\ wire = [d \in Node |-> [e \in Node |-> EmptyPayload]]
    /\ ops = 0
    /\ restarts = 0
    /\ writes = {}

-----------------------------------------------------------------------------
\* Physical time passes on d.
Tick(d) ==
    /\ now[d] < MaxTime
    /\ now' = [now EXCEPT ![d] = @ + 1]
    /\ UNCHANGED <<clock, disk, wire, ops, restarts, writes>>

\* The orders in which one mutation can stamp a selection of ids.
Orders(ids) ==
    {r \in [ids -> 0..(Cardinality(ids) - 1)] :
        \A x, y \in ids : r[x] = r[y] => x = y}

\* Mutant: the first id gets no send() of its own.
NthStampEarly(d, k) ==
    LET c == Send(clock[d], now[d])
    IN  [wall |-> c.wall, counter |-> c.counter + k - 1, node |-> d]

\* The stamp the x-th id of a selection gets: one send() per id.
NthStamp(d, k) ==
    LET c == Send(clock[d], now[d])
    IN  [wall |-> c.wall, counter |-> c.counter + k, node |-> d]

\* What every mutation does to the clock: n calls of send().
Stamping(d, n) ==
    /\ ops < MaxOps
    /\ ops' = ops + 1
    /\ clock' = [clock EXCEPT ![d] = SendMany(@, now[d], n)]
    /\ Guard(clock'[d])

\* The records one mutation writes: fresh envelopes, or tombstones.
FreshEntries(d, r, x) == [i \in DOMAIN r |-> [hlc |-> NthStamp(d, r[i]), data |-> x]]
FreshTombstones(d, r) == [i \in DOMAIN r |-> [hlc |-> NthStamp(d, r[i])]]

\* buildPayload: what persist() encodes, tombstones and settings always along.
BuildPayload(entries, tombstones, settings) ==
    [entries |-> entries, tombstones |-> tombstones, settings |-> settings]

\* persist() of entries: the selected ids get data x and fresh stamps.
PutEntries(d, ids, x) ==
    \E r \in Orders(ids) :
        /\ disk' = [disk EXCEPT ![d] =
              BuildPayload(Overlay(@.entries, FreshEntries(d, r, x)), @.tombstones, @.settings)]
        /\ writes' = writes \cup
              {[id |-> i, hlc |-> NthStamp(d, r[i]), data |-> <<x>>] : i \in ids}

\* add, importMany: new entries under fresh UUIDs, none ever used before.
Add(d, ids, x) ==
    /\ ids # {}
    /\ \A w \in writes : w.id \notin ids
    /\ Stamping(d, Cardinality(ids))
    /\ PutEntries(d, ids, x)
    /\ UNCHANGED <<now, wire, restarts>>

\* update, touch (one id) and setArchived, setTags (a selection).
Update(d, ids, x) ==
    /\ ids # {}
    /\ ids \subseteq DOMAIN disk[d].entries
    /\ Stamping(d, Cardinality(ids))
    /\ PutEntries(d, ids, x)
    /\ UNCHANGED <<now, wire, restarts>>

\* removeMany: the entries go, a tombstone with its own stamp stays for each,
\* also for an id that a merge has already removed from the list.
RemoveMany(d, ids) ==
    /\ ids # {}
    /\ ids \subseteq DOMAIN disk[d].entries \cup DOMAIN disk[d].tombstones
    /\ Stamping(d, Cardinality(ids))
    /\ \E r \in Orders(ids) :
        /\ disk' = [disk EXCEPT ![d] =
              BuildPayload(Only(@.entries, Id \ ids),
                           Overlay(@.tombstones, FreshTombstones(d, r)), @.settings)]
        /\ writes' = writes \cup
              {[id |-> i, hlc |-> NthStamp(d, r[i]), data |-> <<>>] : i \in ids}
    /\ UNCHANGED <<now, wire, restarts>>

\* A stamp is drawn that no record gets: touch within USE_COALESCE_MS of the
\* last use, or update of an id that a merge has removed from the list.
DrawUnused(d) ==
    /\ DOMAIN disk[d].entries \cup DOMAIN disk[d].tombstones # {}
    /\ Stamping(d, 1)
    /\ UNCHANGED <<now, disk, wire, restarts, writes>>

\* setSetting: the key's record is replaced whatever stamp it had.
SetSetting(d, k, v) ==
    /\ Stamping(d, 1)
    /\ disk' = [disk EXCEPT ![d] =
          BuildPayload(@.entries, @.tombstones,
                Overlay(@.settings, [q \in {k} |-> [hlc |-> NthStamp(d, 0), value |-> v]]))]
    /\ UNCHANGED <<now, wire, restarts, writes>>

\* Mutant: the new clock is not fed the stamps on disk.
RestartUnwitnessed(d) ==
    /\ restarts < MaxRestarts
    /\ restarts' = restarts + 1
    /\ clock' = [clock EXCEPT ![d] = FreshClock]
    /\ UNCHANGED <<now, disk, wire, ops, writes>>

\* The app is closed and unlocked again: loadEntries feeds a new clock the
\* stamps of the entries and tombstones it finds on disk.
Restart(d) ==
    /\ restarts < MaxRestarts
    /\ restarts' = restarts + 1
    /\ \E c \in WitnessAll(FreshClock, PayloadStamps(disk[d]), now[d]) :
          /\ Guard(c)
          /\ clock' = [clock EXCEPT ![d] = c]
    /\ UNCHANGED <<now, disk, wire, ops, writes>>

\* broadcast() / the first envelope of a session: d sends what it has to e.
Transmit(d, e) ==
    /\ d # e
    /\ wire[d][e] # disk[d]
    /\ wire' = [wire EXCEPT ![d][e] = disk[d]]
    /\ UNCHANGED <<now, clock, disk, ops, restarts, writes>>

\* Mutant: the merge is written without witnessRemote.
DeliverUnwitnessed(d, e) ==
    LET merged == MergeEntriesPayload(disk[e],
                      SanitizeRemoteEntriesPayload(wire[d][e], now[e]))
    IN  /\ d # e
        /\ ~PayloadsEquivalent(disk[e], merged)
        /\ disk' = [disk EXCEPT ![e] = merged]
        /\ UNCHANGED <<now, clock, wire, ops, restarts, writes>>

\* applyRemotePayload at e.  Nothing is written or witnessed when the merge
\* changes no stamp.
Deliver(d, e) ==
    \E safe \in {SanitizeRemoteEntriesPayload(wire[d][e], now[e])} :
    \E merged \in {MergeEntriesPayload(disk[e], safe)} :
        /\ d # e
        /\ ~PayloadsEquivalent(disk[e], merged)
        /\ \E c \in WitnessAll(clock[e], PayloadStamps(safe), now[e]) :
              /\ Guard(c)
              /\ clock' = [clock EXCEPT ![e] = c]
        /\ disk' = [disk EXCEPT ![e] = merged]
        /\ UNCHANGED <<now, wire, ops, restarts, writes>>

Next ==
    \E d \in Node :
        \/ Tick(d)
        \/ \E ids \in SUBSET Id, x \in Data : Add(d, ids, x) \/ Update(d, ids, x)
        \/ \E ids \in SUBSET Id : RemoveMany(d, ids)
        \/ DrawUnused(d)
        \/ \E k \in Key, v \in Value : SetSetting(d, k, v)
        \/ Restart(d)
        \/ \E e \in Node : Transmit(d, e) \/ Deliver(d, e)

Spec == Init /\ [][Next]_vars

\* Time goes on, connected peers rebroadcast every REBROADCAST_MS and what
\* is on an open channel is processed.
Fairness ==
    \A d \in Node :
        /\ WF_vars(Tick(d))
        /\ \A e \in Node \ {d} : WF_vars(Transmit(d, e)) /\ WF_vars(Deliver(d, e))

FairSpec == Spec /\ Fairness

-----------------------------------------------------------------------------
\* Two envelopes with the same id and stamp, on whatever disk or wire, hold
\* the same data: the invariant mergeEntriesPayload relies on to compare
\* stamps only (vault-merge.ts).
Held(p) == {<<i, p.entries[i].hlc, p.entries[i].data>> : i \in DOMAIN p.entries}

AllHeld == UNION ({Held(disk[d]) : d \in Node}
                  \cup {Held(wire[d][e]) : d \in Node, e \in Node})

StampNamesContent ==
    \A a, b \in AllHeld : a[1] = b[1] /\ a[2] = b[2] => a[3] = b[3]

\* A write is never lost by the device that made it: its disk always holds it
\* or something for the same id that sorts after it, across merges and
\* restarts.
WriterRemembers ==
    \A w \in writes :
        \E s \in StampsFor(disk[w.hlc.node], w.id) : ~Before(s, w.hlc)

\* No step makes a device forget: for every id the highest stamp on its disk
\* only grows.  A local write outranks all the device has seen of the id
\* (apply-remote.ts, witnessRemote), a merge keeps the maximum.
NeverForgets ==
    [][\A d \in Node, i \in Id :
          \A s \in StampsFor(disk[d], i) :
             \E t \in StampsFor(disk'[d], i) : ~Before(t, s)]_vars

\* The graveyard only grows: a tombstone is never dropped nor set back, so a
\* stale peer cannot bring the entry back (entries-payload.ts).
TombstonesGrow ==
    [][\A d \in Node : \A i \in DOMAIN disk[d].tombstones :
          /\ i \in DOMAIN disk'[d].tombstones
          /\ ~Before(disk'[d].tombstones[i].hlc, disk[d].tombstones[i].hlc)]_vars

\* The inductive invariant behind these: what the clock has to stay ahead of.
\* A clock covers the entries and tombstones of its disk, so that whatever it
\* issues next outranks them; it covers all its device ever wrote, so that it
\* never issues a stamp twice; and nothing it has to cover is so far ahead of
\* physical time that receive() would clamp it when the clock is rebuilt.
ClockCoversDisk ==
    \A d \in Node : \A s \in PayloadStamps(disk[d]) : Covers(clock[d], s)

ClockCoversWrites ==
    \A w \in writes : Covers(clock[w.hlc.node], w.hlc)

NearNow ==
    \A d \in Node :
        /\ clock[d].wall <= now[d] + Drift
        /\ \A s \in PayloadStamps(disk[d]) : ~IsFutureStamp(s, now[d])

\* What a payload holds was written: entries as entries, tombstones as
\* deletions.
WrittenIn(p) ==
    /\ \A i \in DOMAIN p.entries :
          [id |-> i, hlc |-> p.entries[i].hlc, data |-> <<p.entries[i].data>>] \in writes
    /\ \A i \in DOMAIN p.tombstones :
          [id |-> i, hlc |-> p.tombstones[i].hlc, data |-> <<>>] \in writes

HeldIsWritten ==
    \A d \in Node : WrittenIn(disk[d]) /\ \A e \in Node : WrittenIn(wire[d][e])

WritesUnique ==
    \A v, w \in writes : v.id = w.id /\ v.hlc = w.hlc => v = w

\* A deletion is remembered as such, also when the entry lives again.
WriterBuries ==
    \A w \in writes : w.data = <<>> =>
        /\ w.id \in DOMAIN disk[w.hlc.node].tombstones
        /\ ~Before(disk[w.hlc.node].tombstones[w.id].hlc, w.hlc)

\* Each entry on a disk beats its tombstone.
NoneDead(p) ==
    \A i \in DOMAIN p.entries \cap DOMAIN p.tombstones :
        Before(p.tombstones[i].hlc, p.entries[i].hlc)

DisksAreLive == \A d \in Node : NoneDead(disk[d])

IInv == /\ TypeOK
        /\ NearNow
        /\ ClockCoversDisk
        /\ ClockCoversWrites
        /\ WriterRemembers
        /\ HeldIsWritten
        /\ WritesUnique
        /\ WriterBuries
        /\ DisksAreLive

\* The entries and graveyard that the set of all writes prescribes: the
\* highest deletion of each id, and the highest write where it beats that.
Newest(W) == {w \in W : \A v \in W : v.id = w.id => ~Before(w.hlc, v.hlc)}
Deletions == Newest({w \in writes : w.data = <<>>})
Living == {w \in Newest({v \in writes : v.data # <<>>}) :
              \A v \in Deletions : v.id = w.id => Before(v.hlc, w.hlc)}

Reference ==
    [entries |-> {<<w.id, w.hlc, w.data[1]>> : w \in Living},
     tombstones |-> {<<w.id, w.hlc>> : w \in Deletions}]

HoldsReference(p) ==
    /\ Held(p) = Reference.entries
    /\ {<<i, p.tombstones[i].hlc>> : i \in DOMAIN p.tombstones} = Reference.tombstones

\* Devices have nothing more to tell each other: no payload is refused in part
\* as future-dated, and applyRemotePayload would skip each as redundant.
Settled ==
    \A d, e \in Node : d # e =>
        /\ SanitizeRemoteEntriesPayload(disk[d], now[e]) = disk[d]
        /\ PayloadsEquivalent(disk[e], MergeEntriesPayload(disk[e], disk[d]))

\* When merges come to rest they rest at the right place: where every merge
\* is skipped, since stamps are equal (payloadsEquivalent), every device has the
\* entries and the graveyard that the set of all writes prescribes, contents
\* included.  No resting point keeps an old write or brings back a deleted
\* entry.
SettledIsReference == Settled => \A d \in Node : HoldsReference(disk[d])

\* Once writing stops every device ends up with the reference result: the
\* same live entries with the same content, whatever was delayed, repeated,
\* lost or refused as future-dated on the way.
EventuallyReference ==
    <>[](\A d \in Node : HoldsReference(disk[d]))

\* All devices end up with the same entries and tombstones and with settings
\* of the same stamps, although a merge is skipped whenever payloadsEquivalent
\* sees the same stamps.  Of a setting the stamp is all that merges settle:
\* no clock witnesses settings, so that a device can draw a stamp twice.
EventuallyAgree ==
    <>[](\A d, e \in Node :
            /\ disk[d].entries = disk[e].entries
            /\ disk[d].tombstones = disk[e].tombstones
            /\ StampMapsEqual(disk[d].settings, disk[e].settings))
=============================================================================
