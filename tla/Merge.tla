------------------------------- MODULE Merge -------------------------------
(***************************************************************************)
(* The convergent merge of core/src/sync/merge.ts and its use on the       *)
(* entries payload (vault-merge.ts, entries-payload.ts, apply-remote.ts).  *)
(* A Map from ids to stamped records is a function whose domain is the set *)
(* of ids present; a tombstone is a record that carries only its stamp; an *)
(* absent settings map is the empty function.                              *)
(***************************************************************************)
EXTENDS Hlc

\* f is a Map with keys in S and values in T.
IsMap(f, S, T) == DOMAIN f \subseteq S /\ f \in [DOMAIN f -> T]

\* A Map restricted to the keys in K.
Only(f, K) == [x \in DOMAIN f \cap K |-> f[x]]

NoMap == [x \in {} |-> x]

\* A Map of one record.
Put(x, r) == [y \in {x} |-> r]

\* Map.set of every record of g into f.
Overlay(f, g) ==
    [x \in DOMAIN f \cup DOMAIN g |-> IF x \in DOMAIN g THEN g[x] ELSE f[x]]

\* Mutant: the comparison is the wrong way round.
MergeStampedOldest(f, g) ==
    [x \in DOMAIN f \cup DOMAIN g |->
        IF x \notin DOMAIN g THEN f[x]
        ELSE IF x \notin DOMAIN f THEN g[x]
        ELSE IF Before(g[x].hlc, f[x].hlc) THEN g[x] ELSE f[x]]

\* One source folded onto another: per id the higher stamp, the first on a tie.
MergeStamped(f, g) ==
    [x \in DOMAIN f \cup DOMAIN g |->
        IF x \notin DOMAIN g THEN f[x]
        ELSE IF x \notin DOMAIN f THEN g[x]
        ELSE IF Before(f[x].hlc, g[x].hlc) THEN g[x] ELSE f[x]]

\* mergeReplicas: records and graveyard, each by highest stamp.
MergeReplicas(a, b) ==
    [records    |-> MergeStamped(a.records, b.records),
     tombstones |-> MergeStamped(a.tombstones, b.tombstones)]

\* liveRecords: a record lives when it beats its tombstone; deletion wins ties.
LiveRecords(r) ==
    Only(r.records, {x \in DOMAIN r.records :
                        \/ x \notin DOMAIN r.tombstones
                        \/ Before(r.tombstones[x].hlc, r.records[x].hlc)})

-----------------------------------------------------------------------------
\* The decrypted payload of a vault blob.
EmptyPayload == [entries |-> NoMap, tombstones |-> NoMap, settings |-> NoMap]

\* payloadToReplica: the stored lists as a replica.
PayloadToReplica(p) == [records |-> p.entries, tombstones |-> p.tombstones]

\* Mutant: the graveyard is pruned of ids that live again.
MergeEntriesPayloadPruned(a, b) ==
    LET r == MergeReplicas(PayloadToReplica(a), PayloadToReplica(b))
    IN  [entries    |-> LiveRecords(r),
         tombstones |-> Only(r.tombstones,
                             DOMAIN r.tombstones \ DOMAIN LiveRecords(r)),
         settings   |-> MergeStamped(a.settings, b.settings)]

\* mergeEntriesPayload: live entries of the merged replica, the graveyard, and
\* the settings map merged key by key (mergeSyncedSettings).
MergeEntriesPayload(a, b) ==
    LET r == MergeReplicas(PayloadToReplica(a), PayloadToReplica(b))
    IN  [entries    |-> LiveRecords(r),
         tombstones |-> r.tombstones,
         settings   |-> MergeStamped(a.settings, b.settings)]

NotFuture(f, now) == Only(f, {x \in DOMAIN f : ~IsFutureStamp(f[x].hlc, now)})

\* Mutant: tombstones and settings are checked, entries are let through.
SanitizeAllButEntries(p, now) ==
    [entries    |-> p.entries,
     tombstones |-> NotFuture(p.tombstones, now),
     settings   |-> NotFuture(p.settings, now)]

\* sanitizeRemoteEntriesPayload: future-dated items are dropped one by one.
SanitizeRemoteEntriesPayload(p, now) ==
    [entries    |-> NotFuture(p.entries, now),
     tombstones |-> NotFuture(p.tombstones, now),
     settings   |-> NotFuture(p.settings, now)]

\* stampMapsEqual: same keys, same stamps; content is not looked at.
StampMapsEqual(f, g) ==
    /\ DOMAIN f = DOMAIN g
    /\ \A x \in DOMAIN f : f[x].hlc = g[x].hlc

\* Mutants: a part of the payload is not compared.
EquivalentButTombstones(a, b) ==
    /\ StampMapsEqual(a.entries, b.entries)
    /\ StampMapsEqual(a.settings, b.settings)

EquivalentButSettings(a, b) ==
    /\ StampMapsEqual(a.entries, b.entries)
    /\ StampMapsEqual(a.tombstones, b.tombstones)

\* payloadsEquivalent: a merge that would change no stamp is not written.
PayloadsEquivalent(a, b) ==
    /\ StampMapsEqual(a.entries, b.entries)
    /\ StampMapsEqual(a.tombstones, b.tombstones)
    /\ StampMapsEqual(a.settings, b.settings)

StampsIn(f) == {f[x].hlc : x \in DOMAIN f}

\* remoteStamps, and the stamps loadEntries witnesses: entries and tombstones.
PayloadStamps(p) == StampsIn(p.entries) \cup StampsIn(p.tombstones)

\* What a payload knows of an id: the stamps of its entry and tombstone.
StampsFor(p, i) == {p.entries[j].hlc : j \in DOMAIN p.entries \cap {i}}
                   \cup {p.tombstones[j].hlc : j \in DOMAIN p.tombstones \cap {i}}
=============================================================================
