--------------------------- MODULE LocalVault_proofs ---------------------------
(***************************************************************************)
(* LocalVault for any number of ids, tasks and writers: whichever tasks    *)
(* overlap, no entry is stored behind its own tombstone.                   *)
(***************************************************************************)
EXTENDS LocalVault, Merge_proofs

-----------------------------------------------------------------------------
(* What tasks hand on to each other.  Ids in use are Old and those drawn. *)

Near(f) == \A i \in DOMAIN f : ~IsFutureStamp(f[i].hlc, Now)

(* A payload without dead entries and within the drift. *)
GoodPayload(p, D) ==
    /\ IsPayload(p)
    /\ Near(p.entries) /\ Near(p.tombstones)
    /\ \A i \in DOMAIN p.entries \cap DOMAIN p.tombstones :
          Before(p.tombstones[i].hlc, p.entries[i].hlc)
    /\ DOMAIN p.entries \cup DOMAIN p.tombstones \subseteq {Old} \cup D

(* The popup's state: stamps and tombstones fit, and the clock has seen the
   tombstones.  Contents may lag behind the stamps. *)
GoodState(u, c, D) ==
    /\ IsVaultEntries(u)
    /\ \A i \in DOMAIN u.stamps : ~IsFutureStamp(u.stamps[i], Now)
    /\ Near(u.tombstones)
    /\ \A i \in DOMAIN u.tombstones : Covers(c, u.tombstones[i].hlc)
    /\ \A i \in DOMAIN u.stamps \cap DOMAIN u.tombstones :
          Before(u.tombstones[i].hlc, u.stamps[i])
    /\ DOMAIN u.entries \cup DOMAIN u.stamps \cup DOMAIN u.tombstones \subseteq {Old} \cup D

GoodJob(j, c, D) ==
    \/ j = Idle
    \/ /\ j = [pc |-> j.pc, next |-> j.next]
       /\ j.pc \in {"persist", "commit"} /\ GoodState(j.next, c, D)

(* A load, a merge or a save. *)
GoodTask(k, D) ==
    \/ k = Idle
    \/ /\ k = [pc |-> k.pc, payload |-> k.payload]
       /\ k.pc \in {"refs", "entries", "write"} /\ GoodPayload(k.payload, D)

GoodClock(c) == c \in Clock /\ c.wall <= Now + Drift

GoodTasks(c, D) ==
    /\ jobs = [t \in UiTask |-> jobs[t]] /\ loads = [t \in LoadTask |-> loads[t]]
    /\ merges = [t \in MergeTask |-> merges[t]] /\ saves = [t \in SaveTask |-> saves[t]]
    /\ \A t \in UiTask : GoodJob(jobs[t], c, D)
    /\ \A t \in LoadTask : GoodTask(loads[t], D)
    /\ \A t \in MergeTask : GoodTask(merges[t], D)
    /\ \A t \in SaveTask : GoodTask(saves[t], D)

Others ==
    /\ IsPayload(peer) /\ peerClock \in Clock
    /\ DOMAIN peer.entries \cup DOMAIN peer.tombstones \subseteq {Old}
    /\ GoodClock(uiClock) /\ GoodClock(bgClock)
    /\ changed \in Nat /\ drawn \subseteq New
    /\ used \in [mutations : 0..MaxMutations, saves : 0..MaxSaves,
                 peer : 0..MaxPeerWrites, failures : 0..MaxFailures]

(* The inductive invariant. *)
IInv ==
    /\ Others
    /\ GoodPayload(disk, drawn)
    /\ GoodState(ui, uiClock, drawn)
    /\ GoodTasks(uiClock, drawn)

-----------------------------------------------------------------------------
(* The stamps of a payload are finitely many. *)
LEMMA PayloadStampTypes ==
    ASSUME NEW p, IsPayload(p)
    PROVE  PayloadStamps(p) \in SUBSET Stamp /\ IsFiniteSet(PayloadStamps(p))
<1>1. /\ \A i \in DOMAIN p.entries : i \in Id /\ p.entries[i].hlc \in Stamp
      /\ \A i \in DOMAIN p.tombstones : i \in Id /\ p.tombstones[i].hlc \in Stamp
  BY DEF IsPayload, IsMap
<1>2. PayloadStamps(p) \in SUBSET Stamp
  BY <1>1 DEF PayloadStamps, StampsIn
<1>3. IsFiniteSet(Id)
  BY IdAssumption, FS_Singleton, FS_Union DEF Id
<1>4. IsFiniteSet(DOMAIN p.entries) /\ IsFiniteSet(DOMAIN p.tombstones)
  BY <1>1, <1>3, FS_Subset
<1>5. \A f : IsFiniteSet(DOMAIN f) => IsFiniteSet(StampsIn(f))
  <2> SUFFICES ASSUME NEW f, IsFiniteSet(DOMAIN f) PROVE IsFiniteSet(StampsIn(f))
    OBVIOUS
  <2>1. [x \in DOMAIN f |-> f[x].hlc] \in Surjection(DOMAIN f, StampsIn(f))
    BY DEF Surjection, StampsIn
  <2> QED
    BY <2>1, FS_Surjection
<1> QED
  BY <1>2, <1>4, <1>5, FS_Union DEF PayloadStamps

(* What is good stays good when the clock advances and ids are drawn. *)
LEMMA GoodStays ==
    ASSUME NEW c, NEW c2, NEW D, NEW D2, D \subseteq D2,
           \A s \in Stamp : Covers(c, s) => Covers(c2, s)
    PROVE  /\ \A p : GoodPayload(p, D) => GoodPayload(p, D2)
           /\ \A u : GoodState(u, c, D) => GoodState(u, c2, D2)
           /\ \A j : GoodJob(j, c, D) => GoodJob(j, c2, D2)
           /\ \A k : GoodTask(k, D) => GoodTask(k, D2)
           /\ GoodTasks(c, D) => GoodTasks(c2, D2)
<1>1. ASSUME NEW p, GoodPayload(p, D) PROVE GoodPayload(p, D2)
  BY <1>1 DEF GoodPayload
<1>2. ASSUME NEW u, GoodState(u, c, D) PROVE GoodState(u, c2, D2)
  BY <1>2 DEF GoodState, IsVaultEntries, IsMap
<1>3. ASSUME NEW j, GoodJob(j, c, D) PROVE GoodJob(j, c2, D2)
  BY <1>2, <1>3 DEF GoodJob
<1>4. ASSUME NEW k, GoodTask(k, D) PROVE GoodTask(k, D2)
  BY <1>1, <1>4 DEF GoodTask
<1> QED
  BY <1>1, <1>2, <1>3, <1>4 DEF GoodTasks

-----------------------------------------------------------------------------
(* Mutations of the popup. *)

(* A stamp the popup draws sorts after every tombstone it knows. *)
LEMMA DrawingIsFresh ==
    ASSUME IInv
    PROVE  LET c == Send(uiClock, Now) IN
           /\ GoodClock(c)
           /\ \A s \in Stamp : Covers(uiClock, s) => Covers(c, s) /\ Before(s, UiStamp)
           /\ UiStamp \in Stamp /\ ~IsFutureStamp(UiStamp, Now) /\ Covers(c, UiStamp)
<1> DEFINE c == Send(uiClock, Now)
<1>1. uiClock \in Clock /\ uiClock.wall <= Now + Drift /\ OwnNode \in Node /\ Now \in Nat
  BY NodesAssumption, NowAssumption DEF IInv, Others, GoodClock
<1>2. c \in Clock /\ c.wall <= Now + Drift
  BY <1>1, SendAdvances
<1>3. \A s \in Stamp : Covers(uiClock, s) => Covers(c, s) /\ Before(s, UiStamp)
  BY <1>1, NodeAssumption DEF Send, StampAt, UiStamp, Covers, Before, Clock, Stamp
<1>4. UiStamp \in Stamp /\ ~IsFutureStamp(UiStamp, Now) /\ Covers(c, UiStamp)
  BY <1>1, <1>2, DriftAssumption DEF UiStamp, StampAt, Stamp, Clock, IsFutureStamp, Covers
<1> QED
  BY <1>2, <1>3, <1>4 DEF GoodClock

(* A mutation that computes a good state is a good job. *)
LEMMA MutateKeeps ==
    ASSUME IInv, NEW t \in UiTask, NEW next, Mutate(t, next),
           GoodState(next, Send(uiClock, Now), drawn'),
           drawn \subseteq drawn', drawn' \subseteq New
    PROVE  IInv'
<1> DEFINE c == Send(uiClock, Now)
<1>1. /\ uiClock' = c /\ jobs' = [jobs EXCEPT ![t] = [pc |-> "persist", next |-> next]]
      /\ UNCHANGED <<disk, ui, loads, changed, bgClock, merges, saves, peer, peerClock>>
  BY DEF Mutate, bgVars, peerVars
<1>2. GoodClock(c) /\ \A s \in Stamp : Covers(uiClock, s) => Covers(c, s)
  BY DrawingIsFresh
<1>3. /\ GoodPayload(disk, drawn') /\ GoodState(ui, c, drawn') /\ GoodTasks(c, drawn')
  BY <1>2, GoodStays DEF IInv
<1>4. Others'
  BY <1>1, <1>2, BoundAssumption DEF IInv, Others, Mutate
<1>5. GoodJob([pc |-> "persist", next |-> next], c, drawn')
  BY DEF GoodJob
<1>6. GoodTasks(uiClock, drawn)'
  <2>1. /\ jobs' = [s \in UiTask |-> jobs'[s]]
        /\ \A s \in UiTask : GoodJob(jobs'[s], c, drawn')
    BY <1>1, <1>3, <1>5 DEF GoodTasks
  <2> QED
    BY <1>1, <1>3, <2>1 DEF GoodTasks
<1> QED
  BY <1>1, <1>3, <1>4, <1>6 DEF IInv

LEMMA UiAddKeeps ==
    ASSUME IInv, NEW t \in UiTask, NEW i \in Id, UiAdd(t, i)
    PROVE  IInv'
<1> DEFINE c == Send(uiClock, Now)
           next == [ui EXCEPT !.entries = Overlay(@, Put(i, UiStamp)),
                              !.stamps = Overlay(@, Put(i, UiStamp))]
<1>1. Mutate(t, next) /\ i \in New \ drawn /\ drawn' = drawn \cup {i}
  BY DEF UiAdd
<1>2. GoodState(ui, c, drawn')
  BY <1>1, DrawingIsFresh, GoodStays DEF IInv
<1>3. /\ next.entries = Overlay(ui.entries, Put(i, UiStamp))
      /\ next.stamps = Overlay(ui.stamps, Put(i, UiStamp))
      /\ next.tombstones = ui.tombstones /\ next.settings = ui.settings
      /\ DOMAIN next = {"entries", "stamps", "tombstones", "settings"}
  BY <1>2 DEF GoodState, IsVaultEntries
<1>4. IsVaultEntries(next)
  BY <1>2, <1>3, DrawingIsFresh DEF GoodState, IsVaultEntries, IsMap, Overlay, Put
<1>5. i \notin DOMAIN ui.tombstones
  BY <1>1, IdAssumption DEF IInv, GoodState
<1>6. GoodState(next, c, drawn')
  BY <1>1, <1>2, <1>3, <1>4, <1>5, DrawingIsFresh DEF GoodState, Overlay, Put
<1> QED
  BY <1>1, <1>6, MutateKeeps DEF IInv, Others

LEMMA UiUpdateKeeps ==
    ASSUME IInv, NEW t \in UiTask, NEW i \in Id, UiUpdate(t, i)
    PROVE  IInv'
<1> DEFINE c == Send(uiClock, Now)
           next == [ui EXCEPT
                      !.entries = [j \in DOMAIN @ |-> IF j = i THEN UiStamp ELSE @[j]],
                      !.stamps = Overlay(@, Put(i, UiStamp))]
<1>1. /\ Mutate(t, next) /\ drawn' = drawn
      /\ i \in DOMAIN ui.entries \cup DOMAIN ui.tombstones
  BY DEF UiUpdate
<1>2. GoodState(ui, c, drawn')
  BY <1>1, DrawingIsFresh, GoodStays DEF IInv
<1>3. /\ next.entries = [j \in DOMAIN ui.entries |-> IF j = i THEN UiStamp ELSE ui.entries[j]]
      /\ next.stamps = Overlay(ui.stamps, Put(i, UiStamp))
      /\ next.tombstones = ui.tombstones /\ next.settings = ui.settings
      /\ DOMAIN next = {"entries", "stamps", "tombstones", "settings"}
  BY <1>2 DEF GoodState, IsVaultEntries
<1>4. IsVaultEntries(next)
  BY <1>2, <1>3, DrawingIsFresh DEF GoodState, IsVaultEntries, IsMap, Overlay, Put
<1>5. i \in DOMAIN ui.tombstones => Before(ui.tombstones[i].hlc, UiStamp)
  BY DrawingIsFresh DEF IInv, GoodState, IsVaultEntries, IsMap
<1>6. GoodState(next, c, drawn')
  BY <1>1, <1>2, <1>3, <1>4, <1>5, DrawingIsFresh DEF GoodState, Overlay, Put
<1> QED
  BY <1>1, <1>6, MutateKeeps DEF IInv, Others

LEMMA UiRemoveKeeps ==
    ASSUME IInv, NEW t \in UiTask, NEW i \in Id, UiRemove(t, i)
    PROVE  IInv'
<1> DEFINE c == Send(uiClock, Now)
           next == [ui EXCEPT !.entries = Only(@, Id \ {i}),
                              !.stamps = Only(@, Id \ {i}),
                              !.tombstones = Overlay(@, Put(i, [hlc |-> UiStamp]))]
<1>1. /\ Mutate(t, next) /\ drawn' = drawn
      /\ i \in DOMAIN ui.entries \cup DOMAIN ui.tombstones
  BY DEF UiRemove
<1>2. GoodState(ui, c, drawn')
  BY <1>1, DrawingIsFresh, GoodStays DEF IInv
<1>3. /\ next.entries = Only(ui.entries, Id \ {i})
      /\ next.stamps = Only(ui.stamps, Id \ {i})
      /\ next.tombstones = Overlay(ui.tombstones, Put(i, [hlc |-> UiStamp]))
      /\ next.settings = ui.settings
      /\ DOMAIN next = {"entries", "stamps", "tombstones", "settings"}
  BY <1>2 DEF GoodState, IsVaultEntries
<1>4. IsVaultEntries(next)
  BY <1>2, <1>3, DrawingIsFresh DEF GoodState, IsVaultEntries, IsMap, Overlay, Put, Only
<1>5. GoodState(next, c, drawn')
  BY <1>1, <1>2, <1>3, <1>4, DrawingIsFresh DEF GoodState, Overlay, Put, Only, Near
<1> QED
  BY <1>1, <1>5, MutateKeeps DEF IInv, Others

LEMMA UiSetSettingKeeps ==
    ASSUME IInv, NEW t \in UiTask, NEW k \in Key, UiSetSetting(t, k)
    PROVE  IInv'
<1> DEFINE c == Send(uiClock, Now)
           next == [ui EXCEPT !.settings = Overlay(@, Put(k, [hlc |-> UiStamp]))]
<1>1. Mutate(t, next) /\ drawn' = drawn
  BY DEF UiSetSetting
<1>2. GoodState(ui, c, drawn')
  BY <1>1, DrawingIsFresh, GoodStays DEF IInv
<1>3. /\ next.entries = ui.entries /\ next.stamps = ui.stamps
      /\ next.tombstones = ui.tombstones
      /\ next.settings = Overlay(ui.settings, Put(k, [hlc |-> UiStamp]))
      /\ DOMAIN next = {"entries", "stamps", "tombstones", "settings"}
  BY <1>2 DEF GoodState, IsVaultEntries
<1>4. IsVaultEntries(next)
  BY <1>2, <1>3, DrawingIsFresh DEF GoodState, IsVaultEntries, IsMap, Overlay, Put
<1>5. GoodState(next, c, drawn')
  BY <1>2, <1>3, <1>4 DEF GoodState
<1> QED
  BY <1>1, <1>5, MutateKeeps DEF IInv, Others

(* What a good state writes is a good payload. *)
LEMMA BuildPayloadGood ==
    ASSUME NEW u, NEW c, NEW D, GoodState(u, c, D), DOMAIN u.entries \subseteq DOMAIN u.stamps
    PROVE  GoodPayload(BuildPayload(u), D)
<1> DEFINE p == BuildPayload(u)
<1>1. /\ p.entries = [i \in DOMAIN u.entries |-> [hlc |-> u.stamps[i], data |-> u.entries[i]]]
      /\ p.tombstones = u.tombstones /\ p.settings = u.settings
      /\ DOMAIN p = {"entries", "tombstones", "settings"}
  BY DEF BuildPayload
<1>2. IsPayload(p)
  BY <1>1 DEF IsPayload, GoodState, IsVaultEntries, IsMap
<1> QED
  BY <1>1, <1>2 DEF GoodPayload, GoodState, Near

LEMMA UiPersistKeeps ==
    ASSUME IInv, NEW t \in UiTask, UiPersist(t)
    PROVE  IInv'
<1>1. /\ jobs[t] = [pc |-> "persist", next |-> jobs[t].next]
      /\ GoodState(jobs[t].next, uiClock, drawn)
      /\ UNCHANGED <<ui, uiClock, loads, changed, bgClock, merges, saves, peer, peerClock, drawn, used>>
  BY DEF UiPersist, IInv, GoodTasks, GoodJob, Idle, bgVars, peerVars
<1>2. \/ disk' = disk /\ jobs' = [jobs EXCEPT ![t] = Idle]
      \/ /\ disk' = BuildPayload(jobs[t].next)
         /\ DOMAIN jobs[t].next.entries \subseteq DOMAIN jobs[t].next.stamps
         /\ jobs' = [jobs EXCEPT ![t] = [pc |-> "commit", next |-> jobs[t].next]]
  BY <1>1 DEF UiPersist
<1>3. GoodPayload(disk', drawn)
  BY <1>1, <1>2, BuildPayloadGood DEF IInv
<1>4. \A j : GoodJob(j, uiClock, drawn) /\ jobs' = [jobs EXCEPT ![t] = j] => GoodTasks(uiClock, drawn)'
  BY <1>1 DEF IInv, GoodTasks
<1>5. GoodJob(Idle, uiClock, drawn)
      /\ GoodJob([pc |-> "commit", next |-> jobs[t].next], uiClock, drawn)
  BY <1>1 DEF GoodJob
<1> QED
  BY <1>1, <1>2, <1>3, <1>4, <1>5 DEF IInv, Others

LEMMA UiCommitKeeps ==
    ASSUME IInv, NEW t \in UiTask, UiCommit(t) \/ UiWriteFails(t)
    PROVE  IInv'
<1>1. /\ jobs[t] # Idle /\ GoodJob(jobs[t], uiClock, drawn)
      /\ ui' \in {ui, jobs[t].next} /\ jobs' = [jobs EXCEPT ![t] = Idle]
      /\ UNCHANGED <<disk, uiClock, loads, changed, bgClock, merges, saves, peer, peerClock, drawn>>
  BY DEF UiCommit, UiWriteFails, IInv, GoodTasks, Idle, bgVars, peerVars
<1>2. GoodState(ui', uiClock, drawn)
  BY <1>1 DEF GoodJob, IInv
<1>3. GoodTasks(uiClock, drawn)'
  BY <1>1 DEF IInv, GoodTasks, GoodJob
<1>4. Others'
  BY <1>1, BoundAssumption DEF IInv, Others, UiCommit, UiWriteFails, Fail
<1> QED
  BY <1>1, <1>2, <1>3, <1>4 DEF IInv

-----------------------------------------------------------------------------
(* loadEntries. *)

LEMMA LoadReadKeeps ==
    ASSUME IInv, NEW t \in LoadTask, LoadRead(t)
    PROVE  IInv'
<1>1. /\ loads' = [loads EXCEPT ![t] = [pc |-> "refs", payload |-> disk]]
      /\ changed' = changed - 1 /\ changed > 0
      /\ UNCHANGED <<disk, ui, uiClock, jobs, bgClock, merges, saves, peer, peerClock, drawn, used>>
  BY DEF LoadRead, uiVars, bgVars, peerVars
<1>2. GoodTask([pc |-> "refs", payload |-> disk], drawn)
  BY DEF GoodTask, IInv
<1>3. GoodTasks(uiClock, drawn)'
  BY <1>1, <1>2 DEF IInv, GoodTasks
<1> QED
  BY <1>1, <1>3 DEF IInv, Others

LEMMA LoadRefsKeeps ==
    ASSUME IInv, NEW t \in LoadTask, LoadRefs(t)
    PROVE  IInv'
<1> DEFINE p == loads[t].payload
<1>1. /\ loads[t] = [pc |-> "refs", payload |-> p] /\ GoodPayload(p, drawn)
      /\ ui' = [ui EXCEPT !.stamps = Stamps(p), !.tombstones = p.tombstones,
                          !.settings = p.settings]
      /\ uiClock' \in WitnessAll(uiClock, PayloadStamps(p), Now)
      /\ loads' = [loads EXCEPT ![t] = [pc |-> "entries", payload |-> p]]
      /\ UNCHANGED <<disk, jobs, changed, bgClock, merges, saves, peer, peerClock, drawn, used>>
  <2>1. loads[t] = [pc |-> "refs", payload |-> p] /\ GoodPayload(p, drawn)
    BY DEF LoadRefs, IInv, GoodTasks, GoodTask, Idle
  <2>2. loads' = [loads EXCEPT ![t] = [loads[t] EXCEPT !.pc = "entries"]]
    BY DEF LoadRefs
  <2>3. [loads[t] EXCEPT !.pc = "entries"] = [pc |-> "entries", payload |-> p]
    BY <2>1
  <2>4. uiClock' \in WitnessAll(uiClock, PayloadStamps(p), Now)
    BY DEF LoadRefs
  <2> QED
    BY <2>1, <2>2, <2>3, <2>4 DEF LoadRefs, bgVars, peerVars
<1>2. PayloadStamps(p) \in SUBSET Stamp /\ IsFiniteSet(PayloadStamps(p))
  BY <1>1, PayloadStampTypes DEF GoodPayload
<1>3. /\ uiClock' \in Clock
      /\ \A s \in Stamp : Covers(uiClock, s) => Covers(uiClock', s)
      /\ \A s \in PayloadStamps(p) : ~IsFutureStamp(s, Now) => Covers(uiClock', s)
      /\ uiClock'.wall <= Now + Drift
  BY <1>1, <1>2, WitnessAllAdvances, NowAssumption DEF IInv, Others, GoodClock
<1>4. /\ GoodPayload(disk, drawn) /\ GoodState(ui, uiClock', drawn) /\ GoodTasks(uiClock', drawn)
  BY <1>3, GoodStays DEF IInv
<1>5. \A i \in DOMAIN p.tombstones : Covers(uiClock', p.tombstones[i].hlc)
  BY <1>1, <1>3 DEF GoodPayload, Near, PayloadStamps, StampsIn
<1>6. /\ ui'.entries = ui.entries /\ ui'.stamps = Stamps(p)
      /\ ui'.tombstones = p.tombstones /\ ui'.settings = p.settings
      /\ DOMAIN ui' = {"entries", "stamps", "tombstones", "settings"}
  BY <1>1, <1>4 DEF GoodState, IsVaultEntries
<1>7. IsVaultEntries(ui')
  BY <1>1, <1>4, <1>6 DEF GoodState, GoodPayload, IsVaultEntries, IsPayload, IsMap, Stamps
<1>8. GoodState(ui', uiClock', drawn)
  BY <1>1, <1>4, <1>5, <1>6, <1>7 DEF GoodState, GoodPayload, Near, Stamps
<1>9. GoodTask([pc |-> "entries", payload |-> p], drawn)
  BY <1>1 DEF GoodTask
<1>10. GoodTasks(uiClock, drawn)'
  BY <1>1, <1>4, <1>9 DEF GoodTasks
<1> QED
  BY <1>1, <1>3, <1>4, <1>8, <1>10 DEF IInv, Others, GoodClock

LEMMA LoadEntriesKeeps ==
    ASSUME IInv, NEW t \in LoadTask, LoadEntries(t)
    PROVE  IInv'
<1> DEFINE p == loads[t].payload
<1>1. /\ GoodPayload(p, drawn)
      /\ ui' = [ui EXCEPT !.entries = Contents(p)]
      /\ loads' = [loads EXCEPT ![t] = Idle]
      /\ UNCHANGED <<disk, uiClock, jobs, changed, bgClock, merges, saves, peer, peerClock, drawn, used>>
  BY DEF LoadEntries, IInv, GoodTasks, GoodTask, Idle, bgVars, peerVars
<1>2. /\ ui'.entries = Contents(p) /\ ui'.stamps = ui.stamps
      /\ ui'.tombstones = ui.tombstones /\ ui'.settings = ui.settings
      /\ DOMAIN ui' = {"entries", "stamps", "tombstones", "settings"}
  BY <1>1 DEF IInv, GoodState, IsVaultEntries
<1>3. IsVaultEntries(ui')
  BY <1>1, <1>2 DEF IInv, GoodState, GoodPayload, IsVaultEntries, IsPayload, IsMap, Contents
<1>4. GoodState(ui', uiClock, drawn)
  BY <1>1, <1>2, <1>3 DEF IInv, GoodState, GoodPayload, Contents
<1>5. GoodTasks(uiClock, drawn)'
  BY <1>1 DEF IInv, GoodTasks, GoodTask
<1> QED
  BY <1>1, <1>4, <1>5 DEF IInv, Others

-----------------------------------------------------------------------------
(* The background. *)

(* mergeEntriesPayload of a good payload and a sanitised one is good. *)
LEMMA MergeGood ==
    ASSUME NEW p, NEW q, NEW D, GoodPayload(p, D), IsPayload(q),
           DOMAIN q.entries \cup DOMAIN q.tombstones \subseteq {Old}
    PROVE  /\ GoodPayload(MergeEntriesPayload(p, SanitizeRemoteEntriesPayload(q, Now)), D)
           /\ IsPayload(SanitizeRemoteEntriesPayload(q, Now))
<1> DEFINE safe == SanitizeRemoteEntriesPayload(q, Now)
           m == MergeEntriesPayload(p, safe)
           t == MergeStamped(p.tombstones, safe.tombstones)
           r == MergeStamped(p.entries, safe.entries)
           s == MergeStamped(p.settings, safe.settings)
<1>1. /\ safe.entries = NotFuture(q.entries, Now)
      /\ safe.tombstones = NotFuture(q.tombstones, Now)
      /\ safe.settings = NotFuture(q.settings, Now)
      /\ DOMAIN safe = {"entries", "tombstones", "settings"}
  BY DEF SanitizeRemoteEntriesPayload
<1>2. ASSUME NEW f, NEW K, NEW T, IsMap(f, K, T)
      PROVE  /\ IsMap(NotFuture(f, Now), K, T) /\ Near(NotFuture(f, Now))
             /\ DOMAIN NotFuture(f, Now) \subseteq DOMAIN f
  BY <1>2 DEF IsMap, NotFuture, Only, Near
<1>3. IsPayload(safe)
  BY <1>1, <1>2 DEF IsPayload
<1>4. ASSUME NEW f, NEW g, NEW K, NEW T, IsMap(f, K, T), IsMap(g, K, T)
      PROVE  /\ IsMap(MergeStamped(f, g), K, T)
             /\ DOMAIN MergeStamped(f, g) = DOMAIN f \cup DOMAIN g
             /\ Near(f) /\ Near(g) => Near(MergeStamped(f, g))
  BY <1>4 DEF IsMap, MergeStamped, Near
<1>5. /\ m.entries = Live(r, t) /\ m.tombstones = t /\ m.settings = s
      /\ DOMAIN m = {"entries", "tombstones", "settings"}
  BY MergeFields DEF MergeEntriesPayload, MergeReplicas, PayloadToReplica, Live
<1>6. /\ IsMap(r, Id, [hlc : Stamp, data : Stamp]) /\ Near(r)
      /\ IsMap(t, Id, [hlc : Stamp]) /\ Near(t)
      /\ IsMap(s, Key, [hlc : Stamp])
      /\ DOMAIN r \cup DOMAIN t \subseteq {Old} \cup D
  <2>1. /\ IsMap(p.entries, Id, [hlc : Stamp, data : Stamp]) /\ Near(p.entries)
        /\ IsMap(p.tombstones, Id, [hlc : Stamp]) /\ Near(p.tombstones)
        /\ IsMap(p.settings, Key, [hlc : Stamp])
        /\ DOMAIN p.entries \cup DOMAIN p.tombstones \subseteq {Old} \cup D
    BY DEF GoodPayload, IsPayload
  <2>2. /\ IsMap(safe.entries, Id, [hlc : Stamp, data : Stamp]) /\ Near(safe.entries)
        /\ IsMap(safe.tombstones, Id, [hlc : Stamp]) /\ Near(safe.tombstones)
        /\ IsMap(safe.settings, Key, [hlc : Stamp])
        /\ DOMAIN safe.entries \cup DOMAIN safe.tombstones \subseteq {Old}
    BY <1>1, <1>2 DEF IsPayload
  <2>3. /\ IsMap(r, Id, [hlc : Stamp, data : Stamp]) /\ Near(r)
        /\ DOMAIN r = DOMAIN p.entries \cup DOMAIN safe.entries
    BY <2>1, <2>2, <1>4
  <2>4. /\ IsMap(t, Id, [hlc : Stamp]) /\ Near(t)
        /\ DOMAIN t = DOMAIN p.tombstones \cup DOMAIN safe.tombstones
    BY <2>1, <2>2, <1>4
  <2>5. IsMap(s, Key, [hlc : Stamp])
    BY <2>1, <2>2, <1>4
  <2> HIDE DEF r, t, s, safe
  <2> QED
    BY <2>1, <2>2, <2>3, <2>4, <2>5
<1>7. /\ DOMAIN Live(r, t) \subseteq DOMAIN r
      /\ Live(r, t) = [i \in DOMAIN Live(r, t) |-> r[i]]
      /\ \A i \in DOMAIN Live(r, t) \cap DOMAIN t : Before(t[i].hlc, r[i].hlc)
  BY DEF Live, LiveRecords, Only
<1>8. IsMap(Live(r, t), Id, [hlc : Stamp, data : Stamp])
  BY <1>6, <1>7 DEF IsMap
<1>9. Near(Live(r, t))
  BY <1>6, <1>7 DEF Near
<1>10. IsPayload(m)
  BY <1>5, <1>6, <1>8 DEF IsPayload
<1> QED
  BY <1>3, <1>5, <1>6, <1>7, <1>9, <1>10 DEF GoodPayload

(* The background's clock after it witnessed a payload. *)
LEMMA BgWitnesses ==
    ASSUME IInv, NEW p, IsPayload(p), NEW c \in WitnessAll(bgClock, PayloadStamps(p), Now)
    PROVE  /\ GoodClock(c)
           /\ \A s \in PayloadStamps(p) : ~IsFutureStamp(s, Now) => Covers(c, s)
<1>1. PayloadStamps(p) \in SUBSET Stamp /\ IsFiniteSet(PayloadStamps(p))
  BY PayloadStampTypes
<1> QED
  BY <1>1, WitnessAllAdvances, NowAssumption DEF IInv, Others, GoodClock

LEMMA MergeReadKeeps ==
    ASSUME IInv, NEW t \in MergeTask, MergeRead(t)
    PROVE  IInv'
<1> DEFINE safe == SanitizeRemoteEntriesPayload(peer, Now)
           merged == MergeEntriesPayload(disk, safe)
<1>1. /\ bgClock' \in WitnessAll(bgClock, PayloadStamps(safe), Now)
      /\ merges' = [merges EXCEPT ![t] = [pc |-> "write", payload |-> merged]]
      /\ UNCHANGED <<disk, ui, uiClock, jobs, loads, changed, saves, peer, peerClock, drawn, used>>
  BY DEF MergeRead, uiVars, peerVars
<1>2. GoodPayload(merged, drawn) /\ IsPayload(safe)
  BY MergeGood DEF IInv, Others
<1>3. GoodClock(bgClock')
  BY <1>1, <1>2, BgWitnesses
<1>4. GoodTask([pc |-> "write", payload |-> merged], drawn)
  BY <1>2 DEF GoodTask
<1>5. GoodTasks(uiClock, drawn)'
  BY <1>1, <1>4 DEF IInv, GoodTasks
<1> QED
  BY <1>1, <1>3, <1>5 DEF IInv, Others

LEMMA WritingKeeps ==
    ASSUME IInv, \/ \E t \in MergeTask : MergeWrite(t)
                 \/ \E t \in SaveTask : SaveWrite(t)
    PROVE  IInv'
<1>1. CASE \E t \in MergeTask : MergeWrite(t)
  <2>1. PICK t \in MergeTask : MergeWrite(t)
    BY <1>1
  <2>2. /\ GoodPayload(disk', drawn)
        /\ merges' = [merges EXCEPT ![t] = Idle] /\ changed' = changed + 1
        /\ UNCHANGED <<ui, uiClock, jobs, loads, bgClock, saves, peer, peerClock, drawn, used>>
    BY <2>1 DEF MergeWrite, IInv, GoodTasks, GoodTask, Idle, uiVars, peerVars
  <2>3. GoodTasks(uiClock, drawn)'
    BY <2>2 DEF IInv, GoodTasks, GoodTask
  <2> QED
    BY <2>2, <2>3 DEF IInv, Others
<1>2. CASE \E t \in SaveTask : SaveWrite(t)
  <2>1. PICK t \in SaveTask : SaveWrite(t)
    BY <1>2
  <2>2. /\ GoodPayload(disk', drawn)
        /\ saves' = [saves EXCEPT ![t] = Idle] /\ changed' = changed + 1
        /\ UNCHANGED <<ui, uiClock, jobs, loads, bgClock, merges, peer, peerClock, drawn, used>>
    BY <2>1 DEF SaveWrite, IInv, GoodTasks, GoodTask, Idle, uiVars, peerVars
  <2>3. GoodTasks(uiClock, drawn)'
    BY <2>2 DEF IInv, GoodTasks, GoodTask
  <2> QED
    BY <2>2, <2>3 DEF IInv, Others
<1> QED
  BY <1>1, <1>2

(* A corner prompt write whose entries fit the graveyard it read. *)
LEMMA SaveKeeps ==
    ASSUME IInv, NEW t \in SaveTask, NEW entries, NEW c, Save(t, entries, c),
           drawn \subseteq drawn', drawn' \subseteq New, GoodClock(c),
           IsMap(entries, Id, [hlc : Stamp, data : Stamp]), Near(entries),
           \A i \in DOMAIN entries \cap DOMAIN disk.tombstones :
              Before(disk.tombstones[i].hlc, entries[i].hlc),
           DOMAIN entries \subseteq {Old} \cup drawn'
    PROVE  IInv'
<1> DEFINE p == [entries |-> entries, tombstones |-> disk.tombstones, settings |-> NoMap]
<1>1. /\ bgClock' = c /\ saves' = [saves EXCEPT ![t] = [pc |-> "write", payload |-> p]]
      /\ UNCHANGED <<disk, ui, uiClock, jobs, loads, changed, merges, peer, peerClock>>
  BY DEF Save, uiVars, peerVars
<1>2. /\ GoodPayload(disk, drawn') /\ GoodState(ui, uiClock, drawn')
      /\ GoodTasks(uiClock, drawn')
  BY GoodStays DEF IInv
<1>3. IsPayload(p)
  BY <1>2 DEF GoodPayload, IsPayload, IsMap, NoMap
<1>4. GoodPayload(p, drawn')
  BY <1>2, <1>3 DEF GoodPayload
<1>5. GoodTask([pc |-> "write", payload |-> p], drawn')
  BY <1>4 DEF GoodTask
<1>6. GoodTasks(uiClock, drawn)'
  BY <1>1, <1>2, <1>5 DEF GoodTasks
<1>7. Others'
  BY <1>1, BoundAssumption DEF IInv, Others, Save
<1> QED
  BY <1>1, <1>2, <1>6, <1>7 DEF IInv

(* The stamp of a background clock's next send(). *)
LEMMA BgStampTypes ==
    ASSUME NEW c, GoodClock(c)
    PROVE  /\ GoodClock(Send(c, Now))
           /\ StampAt(Send(c, Now), OwnNode) \in Stamp
           /\ ~IsFutureStamp(StampAt(Send(c, Now), OwnNode), Now)
           /\ \A s \in Stamp : Covers(c, s) => Before(s, StampAt(Send(c, Now), OwnNode))
<1>1. c \in Clock /\ c.wall <= Now + Drift /\ OwnNode \in Node /\ Now \in Nat
  BY NodesAssumption, NowAssumption DEF GoodClock
<1>2. Send(c, Now) \in Clock /\ Send(c, Now).wall <= Now + Drift
  BY <1>1, SendAdvances
<1> QED
  BY <1>1, <1>2, DriftAssumption, NodeAssumption
     DEF GoodClock, Send, StampAt, Covers, Before, Clock, Stamp, IsFutureStamp

LEMMA SaveNewKeeps ==
    ASSUME IInv, NEW t \in SaveTask, NEW i \in Id, SaveNew(t, i)
    PROVE  IInv'
<1> DEFINE c == Send(bgClock, Now)
           s == StampAt(c, OwnNode)
           entries == Overlay(disk.entries, Put(i, [hlc |-> s, data |-> s]))
<1>1. i \in New \ drawn /\ drawn' = drawn \cup {i} /\ drawn \subseteq New
  BY DEF SaveNew, IInv, Others
<1>2. PICK w \in WitnessAll(c, PayloadStamps(disk), Now) : Save(t, entries, w)
  BY DEF SaveNew
<1>3. GoodClock(c) /\ s \in Stamp /\ ~IsFutureStamp(s, Now)
  BY BgStampTypes DEF IInv, Others
<1>4. PayloadStamps(disk) \in SUBSET Stamp /\ IsFiniteSet(PayloadStamps(disk))
  BY PayloadStampTypes DEF IInv, GoodPayload
<1>5. GoodClock(w)
  BY <1>3, <1>4, WitnessAllAdvances, NowAssumption DEF GoodClock
<1>6. GoodPayload(disk, drawn)
  BY DEF IInv
<1>7. i \notin DOMAIN disk.tombstones
  BY <1>1, <1>6, IdAssumption DEF GoodPayload
<1> HIDE DEF c, s
<1>8. IsMap(entries, Id, [hlc : Stamp, data : Stamp])
  BY <1>3, <1>6 DEF GoodPayload, IsPayload, IsMap, Overlay, Put
<1>9. /\ Near(entries) /\ DOMAIN entries = DOMAIN disk.entries \cup {i}
      /\ \A j \in DOMAIN entries \cap DOMAIN disk.tombstones : entries[j] = disk.entries[j]
  BY <1>3, <1>6, <1>7 DEF GoodPayload, Overlay, Put, Near
<1> QED
  BY <1>1, <1>2, <1>5, <1>6, <1>7, <1>8, <1>9, SaveKeeps DEF GoodPayload

LEMMA SaveUpdateKeeps ==
    ASSUME IInv, NEW t \in SaveTask, NEW i \in Id, SaveUpdate(t, i)
    PROVE  IInv'
<1>1. drawn' = drawn /\ drawn \subseteq New /\ GoodPayload(disk, drawn)
  BY DEF SaveUpdate, IInv, Others
<1>2. PICK w \in WitnessAll(bgClock, PayloadStamps(disk), Now) :
          LET c == IF i \in DOMAIN disk.entries THEN Send(w, Now) ELSE w
              s == StampAt(c, OwnNode)
          IN  Save(t, [j \in DOMAIN disk.entries |->
                          IF j = i THEN [hlc |-> s, data |-> s] ELSE disk.entries[j]], c)
  BY DEF SaveUpdate
<1> DEFINE c == IF i \in DOMAIN disk.entries THEN Send(w, Now) ELSE w
           s == StampAt(c, OwnNode)
           entries == [j \in DOMAIN disk.entries |->
                          IF j = i THEN [hlc |-> s, data |-> s] ELSE disk.entries[j]]
<1>3. /\ GoodClock(w)
      /\ \A x \in PayloadStamps(disk) : ~IsFutureStamp(x, Now) => Covers(w, x)
  BY <1>1, BgWitnesses DEF GoodPayload
<1>4. GoodClock(c)
  BY <1>3, BgStampTypes
<1>5. i \in DOMAIN disk.entries => /\ s \in Stamp /\ ~IsFutureStamp(s, Now)
                                   /\ \A x \in Stamp : Covers(w, x) => Before(x, s)
  BY <1>3, BgStampTypes
<1>6. \A j \in DOMAIN disk.tombstones :
          disk.tombstones[j].hlc \in Stamp /\ Covers(w, disk.tombstones[j].hlc)
  BY <1>1, <1>3 DEF GoodPayload, Near, PayloadStamps, StampsIn, IsPayload, IsMap
<1> HIDE DEF c, s
<1>7. IsMap(entries, Id, [hlc : Stamp, data : Stamp])
  BY <1>1, <1>5 DEF GoodPayload, IsPayload, IsMap
<1>8. Near(entries) /\ DOMAIN entries = DOMAIN disk.entries
  BY <1>1, <1>5 DEF GoodPayload, Near
<1>9. \A j \in DOMAIN entries \cap DOMAIN disk.tombstones :
          Before(disk.tombstones[j].hlc, entries[j].hlc)
  BY <1>1, <1>5, <1>6 DEF GoodPayload
<1>10. Save(t, entries, c)
  BY <1>2 DEF c, s
<1> QED
  BY <1>1, <1>4, <1>7, <1>8, <1>9, <1>10, SaveKeeps DEF GoodPayload

LEMMA BgRestartKeeps ==
    ASSUME IInv, BgRestart
    PROVE  IInv'
<1>1. /\ bgClock' = FreshClock
      /\ merges' = [t \in MergeTask |-> Idle] /\ saves' = [t \in SaveTask |-> Idle]
      /\ UNCHANGED <<disk, ui, uiClock, jobs, loads, changed, peer, peerClock, drawn>>
  BY DEF BgRestart, uiVars, peerVars
<1>2. GoodClock(FreshClock)
  BY NowAssumption, DriftAssumption DEF GoodClock, FreshClock, Clock
<1>3. GoodTasks(uiClock, drawn)'
  BY <1>1 DEF IInv, GoodTasks, GoodTask
<1>4. Others'
  BY <1>1, <1>2, BoundAssumption DEF IInv, Others, BgRestart, Fail
<1> QED
  BY <1>1, <1>3, <1>4 DEF IInv

-----------------------------------------------------------------------------
(* The peer, and the beginning. *)

(* A peer that writes a payload of its own. *)
LEMMA PeerWritesKeep ==
    ASSUME IInv, NEW p, PeerWrites(p), IsPayload(p),
           DOMAIN p.entries \cup DOMAIN p.tombstones \subseteq {Old}
    PROVE  IInv'
<1>1. /\ peer' = p /\ peerClock' = Send(peerClock, Now)
      /\ UNCHANGED <<disk, ui, uiClock, jobs, loads, changed, bgClock, merges, saves, drawn>>
  BY DEF PeerWrites, uiVars, bgVars
<1>2. peerClock' \in Clock
  BY <1>1, SendAdvances, NowAssumption DEF IInv, Others
<1>3. Others'
  BY <1>1, <1>2, BoundAssumption DEF IInv, Others, PeerWrites
<1> QED
  BY <1>1, <1>3 DEF IInv, GoodTasks

LEMMA PeerKeeps ==
    ASSUME IInv, PeerUpdate \/ PeerRemove \/ \E k \in Key : PeerSetSetting(k)
    PROVE  IInv'
<1>1. IsPayload(peer) /\ DOMAIN peer.entries \cup DOMAIN peer.tombstones \subseteq {Old}
  BY DEF IInv, Others
<1>2. PeerStamp \in Stamp
  BY SendAdvances, NodesAssumption, NowAssumption
     DEF IInv, Others, PeerStamp, StampAt, Stamp, Clock
<1>3. CASE PeerUpdate
  <2> DEFINE p == [peer EXCEPT !.entries[Old] = [hlc |-> PeerStamp, data |-> PeerStamp]]
  <2>1. /\ p.entries = [peer.entries EXCEPT ![Old] = [hlc |-> PeerStamp, data |-> PeerStamp]]
        /\ p.tombstones = peer.tombstones /\ p.settings = peer.settings
        /\ DOMAIN p = {"entries", "tombstones", "settings"}
    BY <1>1 DEF IsPayload
  <2>2. IsPayload(p) /\ DOMAIN p.entries = DOMAIN peer.entries
    BY <1>1, <1>2, <2>1 DEF IsPayload, IsMap
  <2> QED
    BY <1>1, <1>3, <2>1, <2>2, PeerWritesKeep DEF PeerUpdate
<1>4. CASE PeerRemove
  <2> DEFINE p == [peer EXCEPT !.entries = Only(@, Id \ {Old}),
                               !.tombstones = Overlay(@, Put(Old, [hlc |-> PeerStamp]))]
  <2>1. /\ p.entries = Only(peer.entries, Id \ {Old})
        /\ p.tombstones = Overlay(peer.tombstones, Put(Old, [hlc |-> PeerStamp]))
        /\ p.settings = peer.settings
        /\ DOMAIN p = {"entries", "tombstones", "settings"}
    BY <1>1 DEF IsPayload
  <2>2. IsPayload(p) /\ DOMAIN p.entries \cup DOMAIN p.tombstones \subseteq {Old}
    BY <1>1, <1>2, <2>1 DEF IsPayload, IsMap, Only, Overlay, Put, Id
  <2> QED
    BY <1>4, <2>2, PeerWritesKeep DEF PeerRemove
<1>5. ASSUME NEW k \in Key, PeerSetSetting(k) PROVE IInv'
  <2> DEFINE p == [peer EXCEPT !.settings = Overlay(@, Put(k, [hlc |-> PeerStamp]))]
  <2>1. /\ p.entries = peer.entries /\ p.tombstones = peer.tombstones
        /\ p.settings = Overlay(peer.settings, Put(k, [hlc |-> PeerStamp]))
        /\ DOMAIN p = {"entries", "tombstones", "settings"}
    BY <1>1 DEF IsPayload
  <2>2. IsPayload(p)
    BY <1>1, <1>2, <2>1 DEF IsPayload, IsMap, Overlay, Put
  <2> QED
    BY <1>1, <1>5, <2>1, <2>2, PeerWritesKeep DEF PeerSetSetting
<1> QED
  BY <1>3, <1>4, <1>5

LEMMA InitIsGood == Init => IInv
<1> SUFFICES ASSUME Init PROVE IInv
  OBVIOUS
<1> DEFINE first == [hlc |-> FirstStamp, data |-> FirstStamp]
<1>1. FirstStamp \in Stamp /\ ~IsFutureStamp(FirstStamp, Now)
  BY NowAssumption, NodesAssumption, DriftAssumption DEF FirstStamp, Stamp, IsFutureStamp
<1>2. /\ FirstPayload.entries = Put(Old, first)
      /\ FirstPayload.tombstones = NoMap /\ FirstPayload.settings = NoMap
      /\ DOMAIN FirstPayload = {"entries", "tombstones", "settings"}
  BY DEF FirstPayload, EmptyPayload
<1>3. DOMAIN NoMap = {} /\ NoMap = [x \in {} |-> x]
  BY DEF NoMap
<1>4. IsPayload(FirstPayload)
  BY <1>1, <1>2, <1>3 DEF IsPayload, IsMap, Put, Id
<1>5. GoodPayload(FirstPayload, {})
  BY <1>1, <1>2, <1>3, <1>4 DEF GoodPayload, Near, Put
<1>6. GoodClock(Receive(FreshClock, FirstStamp, Now)) /\ GoodClock(FreshClock)
  <2> DEFINE W == {0, Now - 1, Now}
             w == CHOOSE m \in W : \A x \in W : x <= m
  <2>1. ReceivedWall(FirstStamp, Now) = Now - 1
    BY <1>1 DEF ReceivedWall, FirstStamp
  <2>2. Now \in W /\ \A x \in W : x <= Now
    BY NowAssumption
  <2>3. w \in W /\ \A x \in W : x <= w
    BY <2>2
  <2>4. w = Now
    BY <2>2, <2>3, NowAssumption
  <2> HIDE DEF w
  <2>5. Now # 0 /\ Now # Now - 1
    BY NowAssumption
  <2>6. Receive(FreshClock, FirstStamp, Now) = [wall |-> Now, counter |-> 0]
    <3> DEFINE f == FreshClock
    <3>1. f.wall = 0 /\ f.counter = 0
      BY DEF FreshClock
    <3>2. w = CHOOSE m \in {f.wall, ReceivedWall(FirstStamp, Now), Now} :
                 \A x \in {f.wall, ReceivedWall(FirstStamp, Now), Now} : x <= m
      BY <2>1, <3>1 DEF w
    <3> HIDE DEF f
    <3>3. Receive(f, FirstStamp, Now)
             = [wall |-> w,
                counter |->
                  IF w = f.wall /\ w = ReceivedWall(FirstStamp, Now)
                  THEN 1 + IF f.counter > FirstStamp.counter THEN f.counter ELSE FirstStamp.counter
                  ELSE IF w = f.wall THEN f.counter + 1
                  ELSE IF w = ReceivedWall(FirstStamp, Now) THEN FirstStamp.counter + 1
                  ELSE 0]
      BY <3>2, Zenon DEF Receive
    <3>4. Receive(f, FirstStamp, Now) = [wall |-> Now, counter |-> 0]
      BY <2>1, <2>4, <2>5, <3>1, <3>3
    <3> QED
      BY <3>4 DEF f
  <2> QED
    BY <2>6, NowAssumption, DriftAssumption DEF GoodClock, Clock, FreshClock
<1>7. IsVaultEntries(ui)
  BY <1>1, <1>2, <1>3 DEF Init, IsVaultEntries, IsMap, Contents, Stamps, Put, Id
<1>8. GoodState(ui, uiClock, {})
  BY <1>1, <1>2, <1>3, <1>7 DEF Init, GoodState, Contents, Stamps, Put, Near
<1>9. GoodTasks(uiClock, {})
  BY DEF Init, GoodTasks, GoodJob, GoodTask
<1>10. DOMAIN FirstPayload.entries \cup DOMAIN FirstPayload.tombstones \subseteq {Old}
  BY <1>2, <1>3 DEF Put
<1>11. used \in [mutations : 0..MaxMutations, saves : 0..MaxSaves,
                 peer : 0..MaxPeerWrites, failures : 0..MaxFailures]
  BY BoundAssumption DEF Init
<1>12. Others
  BY <1>4, <1>6, <1>10, <1>11 DEF Init, Others, GoodClock
<1> QED
  BY <1>5, <1>8, <1>9, <1>12 DEF Init, IInv

LEMMA StepKeeps == IInv /\ [Next]_vars => IInv'
<1> SUFFICES ASSUME IInv, [Next]_vars PROVE IInv'
  OBVIOUS
<1>1. CASE UNCHANGED vars
  BY <1>1 DEF vars, IInv, Others, GoodTasks
<1>2. ASSUME NEW t \in UiTask, NEW i \in Id, UiAdd(t, i) \/ UiUpdate(t, i) \/ UiRemove(t, i)
      PROVE  IInv'
  BY <1>2, UiAddKeeps, UiUpdateKeeps, UiRemoveKeeps
<1>3. ASSUME NEW t \in UiTask, NEW k \in Key, UiSetSetting(t, k) PROVE IInv'
  BY <1>3, UiSetSettingKeeps
<1>4. ASSUME NEW t \in UiTask, UiStep(t) \/ UiWriteFails(t) PROVE IInv'
  BY <1>4, UiPersistKeeps, UiCommitKeeps DEF UiStep
<1>5. ASSUME NEW t \in LoadTask, LoadStep(t) PROVE IInv'
  BY <1>5, LoadReadKeeps, LoadRefsKeeps, LoadEntriesKeeps DEF LoadStep
<1>6. ASSUME NEW t \in MergeTask, MergeStep(t) PROVE IInv'
  BY <1>6, MergeReadKeeps, WritingKeeps DEF MergeStep
<1>7. ASSUME NEW t \in SaveTask, NEW i \in Id, SaveNew(t, i) \/ SaveUpdate(t, i) PROVE IInv'
  BY <1>7, SaveNewKeeps, SaveUpdateKeeps
<1>8. ASSUME NEW t \in SaveTask, SaveWrite(t) PROVE IInv'
  BY <1>8, WritingKeeps
<1>9. CASE BgRestart
  BY <1>9, BgRestartKeeps
<1>10. CASE PeerUpdate \/ PeerRemove \/ \E k \in Key : PeerSetSetting(k)
  BY <1>10, PeerKeeps
<1> QED
  BY <1>1, <1>2, <1>3, <1>4, <1>5, <1>6, <1>7, <1>8, <1>9, <1>10 DEF Next

LEMMA InvariantHolds == Spec => []IInv
<1> QED
  BY InitIsGood, StepKeeps, PTL DEF Spec

-----------------------------------------------------------------------------
(* Blob, popup and tasks always hold what the code's types say. *)
THEOREM TypeCorrect == Spec => []TypeOK
<1>1. IInv => TypeOK
  BY DEF IInv, Others, GoodClock, GoodPayload, GoodState, GoodTasks, GoodJob, GoodTask, TypeOK
<1> QED
  BY <1>1, InvariantHolds, PTL

(* However popup, merges and corner prompt saves overwrite each other's blob,
   every write is stamped by a clock that has seen the graveyard written with
   it: no entry on disk is behind its own tombstone. *)
THEOREM NoEntryIsDead == Spec => []NoDeadEntries
<1>1. IInv => NoDeadEntries
  BY DEF IInv, GoodPayload, NoDeadEntries
<1> QED
  BY <1>1, InvariantHolds, PTL
=============================================================================
