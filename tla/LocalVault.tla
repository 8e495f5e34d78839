----------------------------- MODULE LocalVault -----------------------------
(***************************************************************************)
(* One extension installation: the vault blob on disk and the tasks that   *)
(* read, change and rewrite it.  The popup (hooks/useVault.tsx) keeps the  *)
(* decrypted vault in memory and writes it back whole on every mutation    *)
(* (core/src/vault/entry-mutations.ts); the background merges what peers   *)
(* send (background/sync.ts) and saves captured logins                     *)
(* (background/corner-prompt.ts, vault-io.ts) through a blob of its own    *)
(* reading.  Every task is cut at the awaits between its read and its      *)
(* write; no lock orders them.                                             *)
(*                                                                         *)
(* The content of an entry or setting is named by the stamp of the write   *)
(* that put it there.  Popup and background have a clock each and share    *)
(* one device id: where both draw one stamp, contents are not told apart.  *)
(* All stamps are drawn within one millisecond, Now, the worst case for    *)
(* the clocks: later on send() outranks the past by itself.                *)
(***************************************************************************)
EXTENDS Merge

CONSTANTS OwnNode,       \* the device id, the node of both the device's clocks
          PeerNode,      \* the node of the peer's clock
          Old,           \* the entry every device starts from
          New,           \* ids a task may draw for a new entry
          Key,           \* keys of vault-scoped settings
          Now,           \* Date.now() of all devices
          UiTask,        \* mutations that can be in flight in the popup
          LoadTask,      \* loadEntries calls that can be in flight
          MergeTask,     \* applyRemotePayload calls that can be in flight
          SaveTask,      \* corner prompt writes that can be in flight
          MaxMutations,  \* bound: mutations started in the popup
          MaxSaves,      \* bound: corner prompt writes
          MaxPeerWrites, \* bound: writes made on the peer
          MaxFailures    \* bound: storage errors and service worker restarts

ASSUME NodesAssumption == {OwnNode, PeerNode} \subseteq Node
ASSUME NowAssumption == Now \in Nat \ {0}
ASSUME IdAssumption == Old \notin New /\ IsFiniteSet(New)
ASSUME BoundAssumption == {MaxMutations, MaxSaves, MaxPeerWrites, MaxFailures} \subseteq Nat

VARIABLES disk,       \* the payload in the vault blob
          ui,         \* the popup's entries state and its three refs
          uiClock,    \* the popup's HybridClock
          jobs,       \* popup mutations between snapshot and commit
          loads,      \* loadEntries calls between their awaits
          changed,    \* VAULT_CHANGED messages the popup has not handled
          bgClock,    \* the background's HybridClock
          merges,     \* merges between readLocal and writeMerged
          saves,      \* corner prompt writes between read and write
          peer,       \* the payload of the peer
          peerClock,  \* the peer's HybridClock
          drawn,      \* ids drawn for new entries so far
          used        \* bound counters

uiVars == <<ui, uiClock, jobs, loads>>
bgVars == <<bgClock, merges, saves>>
peerVars == <<peer, peerClock>>
vars == <<disk, ui, uiClock, jobs, loads, changed, bgClock, merges, saves,
          peer, peerClock, drawn, used>>

Id == {Old} \cup New
Idle == [pc |-> "idle"]

IsPayload(p) ==
    /\ DOMAIN p = {"entries", "tombstones", "settings"}
    /\ IsMap(p.entries, Id, [hlc : Stamp, data : Stamp])
    /\ IsMap(p.tombstones, Id, [hlc : Stamp])
    /\ IsMap(p.settings, Key, [hlc : Stamp])

\* VaultEntries: decrypted contents, and stamps held apart from them.
IsVaultEntries(u) ==
    /\ DOMAIN u = {"entries", "stamps", "tombstones", "settings"}
    /\ IsMap(u.entries, Id, Stamp) /\ IsMap(u.stamps, Id, Stamp)
    /\ IsMap(u.tombstones, Id, [hlc : Stamp])
    /\ IsMap(u.settings, Key, [hlc : Stamp])

TypeOK ==
    /\ IsPayload(disk) /\ IsPayload(peer) /\ IsVaultEntries(ui)
    /\ {uiClock, bgClock, peerClock} \subseteq Clock
    /\ \A t \in UiTask : jobs[t] = Idle \/ IsVaultEntries(jobs[t].next)
    /\ \A t \in LoadTask : loads[t] = Idle \/ IsPayload(loads[t].payload)
    /\ \A t \in MergeTask : merges[t] = Idle \/ IsPayload(merges[t].payload)
    /\ \A t \in SaveTask : saves[t] = Idle \/ IsPayload(saves[t].payload)
    /\ changed \in Nat
    /\ drawn \subseteq New
    /\ used \in [mutations : 0..MaxMutations, saves : 0..MaxSaves,
                 peer : 0..MaxPeerWrites, failures : 0..MaxFailures]

-----------------------------------------------------------------------------
\* Plaintexts and stamps of a payload, as loadEntries splits them.
Contents(p) == [i \in DOMAIN p.entries |-> p.entries[i].data]
Stamps(p) == [i \in DOMAIN p.entries |-> p.entries[i].hlc]

FirstStamp == [wall |-> Now - 1, counter |-> 0, node |-> PeerNode]
FirstPayload ==
    [EmptyPayload EXCEPT !.entries = Put(Old, [hlc |-> FirstStamp, data |-> FirstStamp])]

Init ==
    /\ disk = FirstPayload
    /\ peer = FirstPayload
    /\ ui = [entries |-> Contents(disk), stamps |-> Stamps(disk),
             tombstones |-> NoMap, settings |-> NoMap]
    /\ uiClock = Receive(FreshClock, FirstStamp, Now)
    /\ peerClock = Receive(FreshClock, FirstStamp, Now)
    /\ bgClock = FreshClock
    /\ jobs = [t \in UiTask |-> Idle]
    /\ loads = [t \in LoadTask |-> Idle]
    /\ merges = [t \in MergeTask |-> Idle]
    /\ saves = [t \in SaveTask |-> Idle]
    /\ changed = 0
    /\ drawn = {}
    /\ used = [mutations |-> 0, saves |-> 0, peer |-> 0, failures |-> 0]

-----------------------------------------------------------------------------
(* Mutations of the popup. *)

UiStamp == StampAt(Send(uiClock, Now), OwnNode)

\* A handler takes its snapshot, draws a stamp and computes the next state.
Mutate(t, next) ==
    /\ jobs[t] = Idle
    /\ used.mutations < MaxMutations
    /\ used' = [used EXCEPT !.mutations = @ + 1]
    /\ uiClock' = Send(uiClock, Now)
    /\ Guard(uiClock')
    /\ jobs' = [jobs EXCEPT ![t] = [pc |-> "persist", next |-> next]]
    /\ UNCHANGED <<disk, ui, loads, changed, bgVars, peerVars>>

\* add: a fresh id.
UiAdd(t, i) ==
    /\ i \in New \ drawn
    /\ drawn' = drawn \cup {i}
    /\ Mutate(t, [ui EXCEPT !.entries = Overlay(@, Put(i, UiStamp)),
                            !.stamps = Overlay(@, Put(i, UiStamp))])

\* update, touch, setArchived, setTags: the new content replaces the entry if
\* the snapshot has it; update stamps the id in any case.
UiUpdate(t, i) ==
    /\ i \in DOMAIN ui.entries \cup DOMAIN ui.tombstones
    /\ UNCHANGED drawn
    /\ Mutate(t, [ui EXCEPT !.entries = [j \in DOMAIN @ |-> IF j = i THEN UiStamp ELSE @[j]],
                            !.stamps = Overlay(@, Put(i, UiStamp))])

\* removeMany.
UiRemove(t, i) ==
    /\ i \in DOMAIN ui.entries \cup DOMAIN ui.tombstones
    /\ UNCHANGED drawn
    /\ Mutate(t, [ui EXCEPT !.entries = Only(@, Id \ {i}),
                            !.stamps = Only(@, Id \ {i}),
                            !.tombstones = Overlay(@, Put(i, [hlc |-> UiStamp]))])

\* setSetting.
UiSetSetting(t, k) ==
    /\ UNCHANGED drawn
    /\ Mutate(t, [ui EXCEPT !.settings = Overlay(@, Put(k, [hlc |-> UiStamp]))])

\* buildPayload: contents and stamps are paired by id.
BuildPayload(n) ==
    [entries |-> [i \in DOMAIN n.entries |-> [hlc |-> n.stamps[i], data |-> n.entries[i]]],
     tombstones |-> n.tombstones,
     settings |-> n.settings]

\* persist: build, seal and write the blob.  It throws when an entry of the
\* snapshot has no stamp, and the mutation is abandoned.
UiPersist(t) ==
    /\ jobs[t].pc = "persist"
    /\ IF DOMAIN jobs[t].next.entries \subseteq DOMAIN jobs[t].next.stamps
       THEN /\ disk' = BuildPayload(jobs[t].next)
            /\ jobs' = [jobs EXCEPT ![t].pc = "commit"]
       ELSE /\ jobs' = [jobs EXCEPT ![t] = Idle]
            /\ UNCHANGED disk
    /\ UNCHANGED <<ui, uiClock, loads, changed, bgVars, peerVars, drawn, used>>

\* commitEntries: the next state becomes the current one.
UiCommit(t) ==
    /\ jobs[t].pc = "commit"
    /\ ui' = jobs[t].next
    /\ jobs' = [jobs EXCEPT ![t] = Idle]
    /\ UNCHANGED <<disk, uiClock, loads, changed, bgVars, peerVars, drawn, used>>

-----------------------------------------------------------------------------
(* loadEntries, run for every VAULT_CHANGED message. *)

LoadRead(t) ==
    /\ changed > 0
    /\ loads[t] = Idle
    /\ changed' = changed - 1
    /\ loads' = [loads EXCEPT ![t] = [pc |-> "refs", payload |-> disk]]
    /\ UNCHANGED <<disk, ui, uiClock, jobs, bgVars, peerVars, drawn, used>>

\* Mutant: the refs are set and no stamp is witnessed.
LoadRefsUnwitnessed(t) ==
    LET p == loads[t].payload
    IN  /\ loads[t].pc = "refs"
        /\ ui' = [ui EXCEPT !.stamps = Stamps(p), !.tombstones = p.tombstones,
                            !.settings = p.settings]
        /\ loads' = [loads EXCEPT ![t].pc = "entries"]
        /\ UNCHANGED <<disk, uiClock, jobs, changed, bgVars, peerVars, drawn, used>>

\* The refs are set and the clock moved before the entries are decrypted.
LoadRefs(t) ==
    LET p == loads[t].payload
    IN  /\ loads[t].pc = "refs"
        /\ ui' = [ui EXCEPT !.stamps = Stamps(p), !.tombstones = p.tombstones,
                            !.settings = p.settings]
        /\ \E c \in WitnessAll(uiClock, PayloadStamps(p), Now) : Guard(c) /\ uiClock' = c
        /\ loads' = [loads EXCEPT ![t].pc = "entries"]
        /\ UNCHANGED <<disk, jobs, changed, bgVars, peerVars, drawn, used>>

LoadEntries(t) ==
    /\ loads[t].pc = "entries"
    /\ ui' = [ui EXCEPT !.entries = Contents(loads[t].payload)]
    /\ loads' = [loads EXCEPT ![t] = Idle]
    /\ UNCHANGED <<disk, uiClock, jobs, changed, bgVars, peerVars, drawn, used>>

-----------------------------------------------------------------------------
(* The background. *)

\* syncApplyRemote up to the write: read, merge, and witness if it changes.
MergeRead(t) ==
    LET safe   == SanitizeRemoteEntriesPayload(peer, Now)
        merged == MergeEntriesPayload(disk, safe)
    IN  /\ merges[t] = Idle
        /\ ~PayloadsEquivalent(disk, merged)
        /\ \E c \in WitnessAll(bgClock, PayloadStamps(safe), Now) : Guard(c) /\ bgClock' = c
        /\ merges' = [merges EXCEPT ![t] = [pc |-> "write", payload |-> merged]]
        /\ UNCHANGED <<disk, uiVars, changed, saves, peerVars, drawn, used>>

\* writeMerged and broadcastVaultChanged.
MergeWrite(t) ==
    /\ merges[t].pc = "write"
    /\ disk' = merges[t].payload
    /\ changed' = changed + 1
    /\ merges' = [merges EXCEPT ![t] = Idle]
    /\ UNCHANGED <<uiVars, bgClock, saves, peerVars, drawn, used>>

\* A corner prompt write in preparation: what will be written, without the
\* settings (reencryptOuterWithEntryChange encodes entries and tombstones).
Save(t, entries, c) ==
    /\ saves[t] = Idle
    /\ used.saves < MaxSaves
    /\ used' = [used EXCEPT !.saves = @ + 1]
    /\ bgClock' = c /\ Guard(c)
    /\ saves' = [saves EXCEPT ![t] =
          [pc |-> "write", payload |->
              [entries |-> entries, tombstones |-> disk.tombstones, settings |-> NoMap]]]
    /\ UNCHANGED <<disk, uiVars, changed, merges, peerVars>>

\* commitCornerSave: the new entry is stamped before the clock has seen the
\* disk, and appended to the list read.
SaveNew(t, i) ==
    LET c == Send(bgClock, Now)
        s == StampAt(c, OwnNode)
    IN  /\ i \in New \ drawn
        /\ drawn' = drawn \cup {i}
        /\ \E w \in WitnessAll(c, PayloadStamps(disk), Now) :
              Save(t, Overlay(disk.entries, Put(i, [hlc |-> s, data |-> s])), w)

\* Mutant: the rewritten envelope is stored without a stamp.
SaveUpdateUnstamped(t, i) ==
    \E w \in WitnessAll(bgClock, PayloadStamps(disk), Now) :
        /\ Save(t, [j \in DOMAIN disk.entries |->
                      IF j = i THEN [data |-> StampAt(Send(w, Now), OwnNode)]
                      ELSE disk.entries[j]], Send(w, Now))
        /\ UNCHANGED drawn

\* commitCornerUpdate: witness the disk, then stamp the entry if it is there.
SaveUpdate(t, i) ==
    \E w \in WitnessAll(bgClock, PayloadStamps(disk), Now) :
        LET c == IF i \in DOMAIN disk.entries THEN Send(w, Now) ELSE w
            s == StampAt(c, OwnNode)
        IN  /\ Save(t, [j \in DOMAIN disk.entries |->
                          IF j = i THEN [hlc |-> s, data |-> s] ELSE disk.entries[j]], c)
            /\ UNCHANGED drawn

SaveWrite(t) ==
    /\ saves[t].pc = "write"
    /\ disk' = saves[t].payload
    /\ changed' = changed + 1
    /\ saves' = [saves EXCEPT ![t] = Idle]
    /\ UNCHANGED <<uiVars, bgClock, merges, peerVars, drawn, used>>

-----------------------------------------------------------------------------
(* Failures. *)

Fail == /\ used.failures < MaxFailures
        /\ used' = [used EXCEPT !.failures = @ + 1]

\* writeVaultBlob rejects: the mutation ends without a commit.
UiWriteFails(t) ==
    /\ Fail
    /\ jobs[t].pc = "persist"
    /\ jobs' = [jobs EXCEPT ![t] = Idle]
    /\ UNCHANGED <<disk, ui, uiClock, loads, changed, bgVars, peerVars, drawn>>

\* The service worker is stopped: its tasks and its clock are gone.
BgRestart ==
    /\ Fail
    /\ bgClock' = FreshClock
    /\ merges' = [t \in MergeTask |-> Idle]
    /\ saves' = [t \in SaveTask |-> Idle]
    /\ UNCHANGED <<disk, uiVars, changed, peerVars, drawn>>

-----------------------------------------------------------------------------
(* The peer edits, deletes and sets on its own copy. *)

PeerWrites(p) ==
    /\ used.peer < MaxPeerWrites
    /\ used' = [used EXCEPT !.peer = @ + 1]
    /\ peerClock' = Send(peerClock, Now)
    /\ peer' = p
    /\ UNCHANGED <<disk, uiVars, changed, bgVars, drawn>>

PeerStamp == StampAt(Send(peerClock, Now), PeerNode)

PeerUpdate ==
    /\ Old \in DOMAIN peer.entries
    /\ PeerWrites([peer EXCEPT !.entries[Old] = [hlc |-> PeerStamp, data |-> PeerStamp]])

PeerRemove ==
    /\ Old \in DOMAIN peer.entries
    /\ PeerWrites([peer EXCEPT !.entries = Only(@, Id \ {Old}),
                               !.tombstones = Overlay(@, Put(Old, [hlc |-> PeerStamp]))])

PeerSetSetting(k) ==
    PeerWrites([peer EXCEPT !.settings = Overlay(@, Put(k, [hlc |-> PeerStamp]))])

-----------------------------------------------------------------------------
UiStep(t) == UiPersist(t) \/ UiCommit(t)
LoadStep(t) == LoadRead(t) \/ LoadRefs(t) \/ LoadEntries(t)
MergeStep(t) == MergeRead(t) \/ MergeWrite(t)

Next ==
    \/ \E t \in UiTask :
          \/ \E i \in Id : UiAdd(t, i) \/ UiUpdate(t, i) \/ UiRemove(t, i)
          \/ \E k \in Key : UiSetSetting(t, k)
          \/ UiStep(t)
          \/ UiWriteFails(t)
    \/ \E t \in LoadTask : LoadStep(t)
    \/ \E t \in MergeTask : MergeStep(t)
    \/ \E t \in SaveTask :
          \/ \E i \in Id : SaveNew(t, i) \/ SaveUpdate(t, i)
          \/ SaveWrite(t)
    \/ BgRestart
    \/ PeerUpdate \/ PeerRemove \/ \E k \in Key : PeerSetSetting(k)

Spec == Init /\ [][Next]_vars

\* Of the tasks that are under way some one always runs on, and the peer
\* rebroadcasts every REBROADCAST_MS.
Work ==
    \/ \E t \in UiTask : UiStep(t)
    \/ \E t \in LoadTask : LoadStep(t)
    \/ \E t \in SaveTask : SaveWrite(t)
    \/ \E t \in MergeTask : MergeStep(t)

Fairness == WF_vars(Work)

FairSpec == Spec /\ Fairness

-----------------------------------------------------------------------------
\* No payload on disk holds an entry its own graveyard has overtaken,
\* whichever tasks overlapped: every write of an id is stamped by a clock that
\* has seen the graveyard written with it (loadEntries, witnessRemote,
\* reencryptOuterWithEntryChange).  mergeEntriesPayload is idempotent on such
\* payloads only, and payloadsEquivalent would otherwise never settle.
NoDeadEntries ==
    \A i \in DOMAIN disk.entries \cap DOMAIN disk.tombstones :
        Before(disk.tombstones[i].hlc, disk.entries[i].hlc)

\* What the peer holds ends up on disk or is superseded there, although any
\* local write may overwrite a merge: it is merged again on the next
\* rebroadcast.
PeerWritesLand ==
    <>[](/\ \A i \in Id : \A s \in StampsFor(peer, i) :
               \E t \in StampsFor(disk, i) : ~Before(t, s)
         /\ \A k \in DOMAIN peer.settings :
               /\ k \in DOMAIN disk.settings
               /\ ~Before(disk.settings[k].hlc, peer.settings[k].hlc))
=============================================================================
