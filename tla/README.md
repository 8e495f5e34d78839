# A TLA+ model of Vautix

Vautix is a password manager (browser extension, mobile and desktop apps) whose
devices hold one encrypted vault each and synchronise pairwise, without a
server that could order anything. This directory holds TLA+ modules for the
part of it that carries the promises to the user (nothing saved is lost,
nothing deleted comes back, removed devices stay removed, all devices end up
equal), configurations with which TLC checks them on small instances, and
proofs of theorems that TLAPS checks for every instance.

Paths below are relative to `src/packages/` unless they start with `docs/`.
`PROJECT.json` lists the runs, the mutants each property catches, the map from
definitions to source lines, the findings and the hazards.

## 1. The system

| Component | State | Operations | Interacts through |
|---|---|---|---|
| Hybrid clock and merge kernel: `core/src/sync/{hlc,merge,vault-merge,entries-payload,apply-remote}.ts` | `HybridClock` (wall, counter) in memory | `send`, `receive`/`witness`, `mergeReplicas`, `mergeEntriesPayload`, `sanitize…`, `applyRemotePayload` | called by every writer of a vault blob |
| Local mutations: `core/src/vault/entry-mutations.ts`, `entries-blob.ts`, `core/src/hooks/useVault.tsx` | decrypted entries (React state), stamps, tombstones and settings (refs), clock | add, importMany, update, touch, setArchived, setTags, removeMany, setSetting, persist, commit, loadEntries | the vault blob; `VAULT_CHANGED` messages |
| Extension background: `platform-extension/src/background/{sync,vault-io,sync-clock,corner-prompt}.ts` | its own clock, lost with the service worker | merge a peer's payload, merge a peer's roster, save or update a captured login | the same vault blob and `sync.group`, with no lock |
| Device roster: `core/src/sync/roster.ts` | devices and revocations under `sync.group` | merge, add, revoke, sanitise, verify | gossiped beside the payload; gates sessions |
| Enrollment: `core/src/hooks/useSyncEnrollment.ts`, `core/src/sync/transport/enroll-host.ts` | an open invitation, single use, with expiry | invite, publish admission key, join, admit, remove, backfill signature | roster; handshake over the mesh |
| Sessions and transport: `core/src/sync/transport/*.ts`, `signaling-client.ts` | peers map, sessions, timers | authenticate, broadcast, receive, reap | relay or WebRTC; host callbacks |
| Mobile sync host: `platform-mobile/src/sync/sync-manager.ts`, repeated by `platform-desktop/src/sync/roster.ts` | session, generation, queue of merges | start, stop, retarget, queued merge | as the extension background, one process |
| Extension key store and sessions: `background/{vek-store,session,offscreen-client,view-lock}.ts` | keys per vault in memory and session storage, epoch, lock marker, active vault | install, lock, remove, hydrate, choose the active vault | session storage, messages, crypto host |
| Extension offscreen host: `offscreen-core.ts` | the crypto host's keys, an enrollment session | crypto calls, enrollment host | messages |
| Desktop: `platform-desktop/src-tauri/src` | vault file, paired extensions, link | atomic storage, pairing, relaying frames | sockets, Tauri IPC |
| Vault file and slots: `core/src/vault/{slot-policy,recover-entries,vault-registry}.ts`, `vault-format.ts` | slots, entries, snapshot of the last write | create, add and remove unlock methods, change the password, rotate the key, recover | storage |
| Backups: `core/src/backup`, `core/src/hooks/useBackup.ts`, `background/backup.ts` | a list of targets per vault with what each holds, when it is due again, and its credentials; the folders of the providers | timer run, button, add, change and remove a target, prune | cloud targets; the same list from timer, button and panel |
| Everything else (crypto primitives, parsers, aliases, UI, content scripts, native shells, relay, website) | – | pure functions or I/O | – |

What is hard here:

* **No order.** Payloads arrive late, repeatedly, out of order or never; the
  physical clocks of the devices disagree; records that seem to come from the
  future are dropped one by one.
* **No lock.** Popup and background read, change and rewrite the same blob and
  the same roster, each with awaits in between; `entries-blob.ts` speaks of a
  write queue of the background, which does not exist in this tree.
* **Forgetting.** The clock is rebuilt from disk after each restart, the
  background's clock and tasks vanish with the service worker.
* **No cancellation.** A handler that awaits runs on after the lock, the switch
  of vault or the closed dialog that made its result wrong. The code guards
  itself by epochs, generations and checks of the current session, each at
  certain places and not at others.
* **No news of failure.** A relay frame that is lost is lost, and a peer that
  has given up does not say so; only timers find out.
* **Comparison by stamp.** Content is encrypted under fresh keys on every
  write, so a merge compares stamps and never contents. Everything rests on
  stamps naming contents.

What makes the components correct:

* clock: what it issues outranks everything it is supposed to know;
* merge: a semilattice operation on what devices really hold;
* vault gossip: no write lost by its writer, nothing forgotten, no resurrection,
  one agreed result;
* local vault: no stored state that the merge cannot settle, contents under
  their own stamps, settings kept, peers' writes arriving despite overwriting;
* roster: revocation for good, members listed everywhere, agreement;
* enrollment: one confirmed device per invitation, no wait without end;
* peer sessions: devices that list each other find each other again, frames of
  earlier sessions do not get into later ones, a removed device stays out;
* key store: a lock forgets, an unlock that was confirmed holds;
* vault host: slots and entries of a file are always under one key, and a
  session only runs for the vault that is loaded;
* backups: what is skipped is held, what is pruned is superseded, what rests is
  backed up.

## 2. Modules

| Module | Models | State and actions |
|---|---|---|
| `Hlc` | `hlc.ts` | operators only: `Before`, `Send`, `Receive`, `Guard`, `IsFutureStamp`; `WitnessAll` is a loop of `witness()` over a set of stamps |
| `Merge` | `merge.ts`, `vault-merge.ts`, `entries-payload.ts`, `apply-remote.ts` | operators on Maps as functions: `MergeEntriesPayload`, `SanitizeRemoteEntriesPayload`, `PayloadsEquivalent` |
| `VaultSync` | several devices and the wire | `now`, `clock`, `disk`, `wire`; one action per mutation, `Restart`, `Transmit`, `Deliver`, `Tick`; `writes` is a history variable |
| `LocalVault` | one extension installation and one peer | `disk`, the popup's `ui`, tasks of popup and background cut at their awaits; two clocks |
| `Roster` | `roster.ts`, the roster changes of `useSyncEnrollment.ts`, gossip | `group` per device, tasks between read and write, invitations |
| `Pairing` | what an invitation promises | `window`, `confirmed`, `given`, `holders` per invitation: an abstract specification |
| `Enroll` | `enroll-host.ts`, the enrollment part of `sync-manager.ts` and `offscreen-core.ts`, `joinGroup` | mesh sessions, the serving handler, the pending prompt, joiners, frames in transit; implements `Pairing` |
| `PeerSync` | `mesh.ts` (relay transport), `roster-sync.ts` | per device the transports of the other's lives, `peers`, a broadcast under way; the relay's events |
| `VekStore` | `vek-store.ts`, the handlers of `session.ts` around it | keys in memory and storage, marker, epoch, the queue of commits, the active vault and its notifications |
| `VaultHost` | `sync-manager.ts`, and of `useVault.tsx` unlock, lock, creation, edits, password change, key rotation; `entries-blob.ts` | the process's key, files and snapshots as pairs of keys, starting and running sessions, queue of merges, the screens' operation; `alone` and `risked` are history |
| `Backup` | `core/src/backup`, `useBackup.ts`, `background/backup.ts` | vaults and their targets, the panel's copy, the providers' folders, a timer run and a button run cut at their awaits |
| `MCVaultSync` | – | instance of `VaultSync`; checks `WitnessAll` against the loop it stands for |
| `Merge_proofs`, `VaultSync_proofs`, `LocalVault_proofs`, `Roster_proofs`, `Devices_proofs`, `VekStore_proofs`, `VaultHost_proofs`, `Backup_proofs` | – | theorems |

`VaultSync`, `LocalVault` and `Roster` use `Hlc`; the first two use `Merge`.
`VaultSync` and `LocalVault` are two cuts of the same writers: the one composes
devices, the other opens up one device. `Enroll` hands a device to `Roster`,
whose tasks store it; `PeerSync` reads the roster as one bit, `VaultHost` the
merge as one write.

Correspondence in brief:

* **Hlc.** A node id is a string in the code and is only compared, so it is a
  number here, its rank. `WitnessAll` returns the *set* of readings the clock
  may have after witnessing a set of stamps, since the payload's list order is
  not kept; `MCVaultSync` has TLC evaluate that every order of up to three
  stamps from a small grid gives a member of it, and that one stamp leaves one.
* **Merge.** An absent `settings` map is the empty function. A tombstone is a
  record with only a stamp, so one operator stands for both loops of
  `mergeReplicas`.
* **VaultSync.** A mutation stamps a selection of ids with one `send()` each, in
  any order (`Orders`), and rewrites the payload. `Update` stands for `update`,
  `touch`, `setArchived` and `setTags`, which differ in the content they write;
  `DrawUnused` for the calls that draw a stamp and use it for no record.
  `Deliver` is `applyRemotePayload` with the popup's reload; one clock per
  device. The wire between two devices keeps the last payload sent: it can be
  delivered any number of times, late, or be overwritten before it arrives.
  Payloads are whole states, so an older payload delivered after a newer one
  is the case of a peer whose transmission is late.
* **LocalVault** opens up what `VaultSync` does in one step. Popup and
  background have a clock each and one device id (`OwnNode`), as in the code.
  Popup mutations are snapshot, persist, commit; reloads are read, refs,
  entries; merges and saves are read and write. The content of an entry is
  named by the stamp of the write it comes from, so that "contents and stamps
  belong together" can be said at all. All stamps are drawn within one
  millisecond (`Now`), the case in which the physical clock does not help to
  order anything. A mutation of an id that has left the list is possible (an
  open form, a selection).
* **Roster.** `task[d][slot]` holds a change between the read and the write of
  `sync.group`: three slots for the popup (its buttons, the backfill at unlock,
  the enrolled event) and one per gossip the background handles. The revocation
  and the backfill read first and then only write; publishing an admission key
  (which signs the own entry again) and gossip have work before the read.
  Signature checks are reduced to whether a signature is there; an admission is
  valid for the stamp it was made over, if the verifier knows the admitter's
  key.

* **Enroll.** `serving[i]` is where `serveJoiner` stands between two awaits,
  `pending` the one `pendingApproval` of the host, `current` its
  `enrollSession`. Stopping a session drops its frames and makes later sends
  vanish, but ends no wait of `Channel.recv`: a handler whose session is gone
  goes on to its own timeout. `confirmed` and `given` are history variables,
  which the refinement of `Pairing` reads. The user's answer is atomic with the
  prompt it answers. Peers that connect before `startMeshSession` has resolved,
  wrong pins and broken handshakes do not occur: the second are refused before
  anything is decided.
* **PeerSync.** A life is the signing key of one session, by which a peer tells
  transports apart; a device is its static key. A frame carries the Noise
  session it belongs to and whether all before it arrived. Timers fire when
  nothing is under way that could still end what they time (`Calm`), in the
  order of the constants: an announce (30 s) comes after a stale peer was
  reaped (20 s), that after a handshake timed out (15 s), and a rebroadcast (4
  s) between. Events of the relay are handled at any time, also while a
  handshake is between two of its awaits. Reconnects of the relay socket and
  changes of the room's epoch are lost events followed by a hello.
* **VekStore.** An operation has taken its epoch when it begins, waits for the
  crypto host, and enters the queue of `mutationTail`; each storage call of a
  commit is a step and may fail before or after it took effect. Keys are named
  by the operation that installed them, so that "an older key" can be said.
  Hydration reads storage in one step and puts what it read in place in a
  later one. Messages wait for it; alarm, command, lock screen and the last
  view that closes do not, so a lock may begin, run and end beside it. `early`
  is history: the locks that began before the running worker was ready.
  Reads of the active id always succeed; most recently used vaults and autofill
  tokens are left out; a view chooses the vault again in the step in which it
  gets the reply. `MaxReceipts` is `MAX_PENDING_ACTIVE_CHANGES`: of more receipts
  than that the oldest is forgotten.
* **VaultHost.** A file is the pair of the keys its slots and its entries are
  under, with a revision; a key is a number. The screens run one operation at
  a time; session start and merges run beside it. A start reads the active
  vault, then takes the generation it is pinned to, then connects; locks and
  switches come between these steps as they like, and another start may begin.
  `alone` (history) says of a start, and of its session, that no stop and no
  other start met it; `risked` has the vaults in reach of one that was met.
  A write is atomic, or fails before or after the snapshot was taken.
* **Backup.** A snapshot is named by folder, tag and time, and holds a vault's
  bytes, named by vault and revision: each write gives new bytes, since sealing
  uses fresh nonces, so equal hashes mean equal revisions. `age` and `wait` are
  the time since a target's last backup and what is left of its backoff, in
  units of the retry base; `on` is a frequency other than off. `owner` is the
  vault under whose key the credentials are sealed: it differs from the list's
  vault for targets carried over from the one list for all vaults. The timer's
  uploads run one after the other, the button's all at once. A timer run that
  finds its session gone records nothing and ends: from then on each of the
  dependencies in `background/backup.ts` returns an empty list or skips the
  save.

## 3. Runs

All runs disable deadlock checking: a device with nothing to do stops, and
every bound makes TLC reach such states.

| Run | Question | Bounds | Distinct states |
|---|---|---|---|
| `vaultsync` | Does any interleaving of mutations, restarts and gossip lose a write, forget a stamp, reuse one, drop a tombstone, or let merges come to rest at a wrong result? Do devices end up with the result that the set of all writes prescribes? | 2 devices, 1 id, 2 contents, 1 setting, 3 mutations, 1 restart, times 1..2, drift 0 | 601 k |
| `localvault_safety` | Does any overlap of the tasks store an entry behind its own tombstone, or keep the peer's writes out for good? | 1 task of each kind at a time, 1 mutation, 1 save, 1 peer write, 1 failure | 1.26 M |
| `roster_safety` | Can overlapping roster changes list a revoked device, unlist the own one, keep two versions of an entry under one stamp, or rest while the rosters differ? | 3 devices, 1 invitation without admission, 1 removal, 1 leave, 1 backfill | 1.49 M |
| `roster_admission` | Do rosters converge where the invitation admits by password? | 3 devices, 1 invitation with admission, 1 removal | 101 k |
| `roster_lost` (violation) | Can a revocation be lost? | 1 removal among 3 members | – |
| `enroll` | Does the ceremony keep the promise of `Pairing`, does every wait end, and is a device that joined put on the roster? | 2 invitations, 2 joiners, one with a wrong password, 1 death of the host | 194 k |
| `vekstore` | Can anything bring a key back that a lock was to forget, or take away one that an unlock confirmed? | 1 vault, 3 operations, 1 mishap, 2 choices of a vault, 1 receipt kept | 4.33 M |
| `vekstore_wake` (violation) | Does a lock forget the keys when it was the lock's event that woke the worker? | as above, 1 choice of a vault | – |
| `vaulthost` | Can merges, locks, switches and failing writes leave a file that does not open or a session of another vault? Do operations end? | 3 vaults, 3 operations of the screens, 2 sessions starting at a time, 1 lock in the background, 2 payloads, 1 failing write | 2.57 M |
| `vaulthost_rotate` (violation) | The same, when the key of a vault that syncs is replaced. | 5 operations, 1 session starting at a time, else as above | – |
| `peersync` | Do two devices find each other again after any loss, restart or removal, are the sessions of two lives kept apart, and does a removed device stay out? | 1 restart, 1 lost frame, 1 removal | 240 k |
| `backup` | Is a skipped target up to date, does retention keep the newest, and is every vault backed up in the end? | 2 vaults, 1 target id, 1 folder, 2 snapshots kept, 2 writes, 1 event of user or fault | 1.54 M |

Why the bounds are enough for the cases that matter.

* `VaultSync`: with two ids the records of one would not influence the other
  (the merge works id by id; what they share is the clock, and a second id acts
  on it as a further mutation does, which `SetSetting` and `DrawUnused` also
  provide; the proofs cover every number of ids). Three mutations allow write,
  delete and rewrite of one id from both sides around a restart. Times 1..2
  with drift 0 let one device be ahead by more than the drift, so payloads are
  refused and later accepted. With times 1..3 and drift 1 the safety properties
  were run once (1.09 M states under a symmetry of ids and contents) and passed.
  `MaxCounter` has the code's value; no run comes near it.
* `LocalVault`: one task of each kind is enough for the overlap of two writers;
  two concurrent reloads are not covered.
* `Roster`: `roster_safety` starts with a member that predates signatures, so
  that backfill, revocation and gossip re-stamp or bury the same entry, and lets
  a device leave and rejoin. In `roster_admission` the same member invites, so
  that publishing its admission key stamps and signs its entry. Both together
  exceed the time of a run and are covered by the theorems only.
* `Enroll`: two invitations so that the second replaces the first at each of its
  steps; two joiners so that they race for one; one that fails at the handshake.
* `VekStore`: three operations allow an unlock, a lock during it and an unlock
  after it, or a lock that wakes the worker beside two others. With room for
  one receipt (8 in the code) the list overflows whenever two changes of the
  active vault are on their way.
* `VaultHost`: one vault to stay in, one to go to, one that is created and, as it
  does not sync, may have its key replaced. Three operations are an unlock, a
  switch or a lock by the user during the start or a merge, and what comes
  after it; the one lock in the background comes on top. Two starts are enough
  for one that overtakes the other.
* `PeerSync`: one restart gives a device an earlier life, frames of which meet
  each stage of the present one; one lost frame is enough to leave either end
  waiting at each stage.
* `Backup`: two vaults so that a shared folder has two writers; retention acts
  the same for 2 as for the 5 the panel offers at least. `MaxEvents` bounds
  actions of the user other than unlocking, and faults, taken together. A run of
  the button is such an event itself, so in `backup` every single fault and every
  single change meets every stage of the timer's run only, and the button's run
  meets the timer's and writes. A fault or change during a button's run needs two
  events: with these and one vault `SkippedIsHeld` and `BackedUp` were run once
  (526 k states), with two vaults and one write the safety properties (6.4 M);
  `SkippedHold` and `RetentionCorrect` are proved for any number of events. All
  four properties were also run with an interval of two retry periods.

Cases a constant leaves out of the passing runs, each with what happens
otherwise in section 4: `Rotates` (vault `vc` is the one that does not sync),
`Moves`, `Deletable` (`vb` is not the default vault) and `Keep`. No constant
restrains the order of events: what an unlucky order breaks is excepted in the
statement of the property. The property without the exception is defined
beside it: `WalkAwayForgets` and `RestingVaultsOpen` are violated in runs,
`RecoversAlone` and `MembershipKnown` in section 4.

**Fairness.**

* `VaultSync`: time goes on; `Transmit` and `Deliver` are weakly fair for each
  pair, since every healthy peer rebroadcasts every `REBROADCAST_MS`
  (`roster-sync.ts`) and an open channel is read in a loop; mutations, restarts
  and everything else are not fair.
* `LocalVault`: of the tasks under way some one always runs on (promises settle),
  and the peer's payload is merged again, for the same rebroadcast.
* `Roster`: tasks run on, and the gossip of each connected pair is strongly fair,
  because each peer's receive loop handles one frame after another
  independently of other peers, while the model lends all of them one slot.
  Rosters from two peers handled at the same moment are therefore not part of
  the roster runs.
* `Enroll`: handlers and joiners run on, invitations expire (both have timers);
  users need not do anything.
* `VaultHost`: promises settle.
* `PeerSync`: what has arrived is handled; the timers are strongly fair, as
  `Calm` holds them back only while the devices talk to each other.
* `Backup`: runs go on; the alarm is periodic; time is strongly fair, as the model
  holds it back during a run; a user who uses a vault unlocks it at some time.
  That the vault stays unlocked long enough is not assumed of any one unlock:
  locks are among the bounded events.

`VekStore` has no liveness property.

**Mutants.** Each property of a passing run is broken by a definition marked
`Mutant` in the modules, e.g. a restart that does not witness the disk, a merge
that prunes tombstones, an equivalence test that forgets the settings, an
enrollment that serves without a check of the claim, a key commit without a
check of its epoch, a drain that does not wait, retention that counts whatever
is in the folder.

## 4. What the models found

### Runs

1. *Lost revocation* (`roster_lost`): the background's unconditional write of a
   merged roster can overwrite a revocation that no other device has seen.
2. *Rotation during a merge* (`vaulthost_rotate`): `rotateSecret` does not stop
   sync. A merge that has verified the loaded key before and seals after the
   rotation stores the old slots with entries under the new key; the file opens
   with neither password nor recovery code, and only the snapshot helps.
3. *Lock that wakes the worker* (`vekstore_wake`): alarm, lock command, idle state
   (`background.ts:99-141`) and `view-lock.ts` call `clearSession` without awaiting
   `whenReady()`, which messages do and `router.ts:64` asks of all others. The lock
   empties a memory that is empty still, and clears storage; hydration, which
   had read storage before, puts the keys into memory and forgets the marker.
   The lock has reported success, and the keys stay until the worker dies. Never
   longer: storage is empty, as `LockForgets` says also of these locks.

### Violations without a run

Each of these was obtained from a module here, with the properties and
constants named, or by the definition given; the runs are not kept because
they show one race each and their number is limited.

* *Session of a vault that was left* (`VaultHost`; `RestingVaultsOpen` with
  `Start = {s1}`, `Rotates = {vc}`, `MaxOps = 3`): `startRoster` takes the
  generation it is pinned to only after several awaits (`sync-manager.ts:396`). A
  lock or a switch of vault before that finds no session to stop and goes
  unnoticed: the session of the vault that was left starts. When the switch is
  to a vault that is being created, a merge of that session verifies the old
  vault's key and seals under the new one's, and the old vault's file opens
  with nothing. `SlotsOpenEntries` and `SessionIsOfLoadedVault` hold for all vaults
  and sessions such a start does not reach.
* *Overtaken session* (`PeerSync`; `RecoversAlone`, without loss, `MaxRestarts = 1`):
  the handshake of a peer's old life may finish after that of its new one and
  overwrite the entry in `peers` (`roster-sync.ts:320`). When that is reaped, the
  new life's transport stays with nobody to close it, its life stays known, and
  its hellos are duplicates. `Relinked` holds but for such a transport
  (`Orphaned`).
* *Membership split* (`Roster`; `MembershipKnown` with `Admits = {1}`, `Removable =
  {}`): the race of `roster_lost` on the admission key
  (`useSyncEnrollment.ts:161`). The inviter admits the joiner with a key that is
  in no roster any more, and the other members refuse the joiner's entry for
  good.
* *Settings and the clock* (`VaultSync`; "a setting written last sorts last"):
  neither `remoteStamps` (`apply-remote.ts:24`) nor `loadEntries` includes the
  stamps of settings, so a setting can be replaced under a lower stamp and comes
  back with the next merge. After a restart while the logical clock is ahead of
  the physical one the same stamp can even be drawn for a second value; devices
  then rest with different settings ("settled devices agree on settings"), as
  merges compare stamps. Hence `EventuallyAgree` asks for equal stamps of settings,
  and not for equal values.
* *Load window* (`LocalVault`; "content on disk is under its own stamp"):
  `loadEntries` (`useVault.tsx:600`) sets the stamps before and the entries after
  an await; a mutation in between stores old content under a new stamp, which no
  later merge repairs, since stamps are equal.
* *Settings dropped* (`LocalVault`; "settings survive local writes"): a captured
  login saved by the background (`vault-io.ts:61`) removes all synced settings
  from the blob. Two overlapping popup mutations lose the first one's as well.
* *Two clocks, one device id* (`LocalVault`; "a stamp names one content"): popup and
  background each have a clock and draw stamps under the same id
  (`sync-clock.ts:1-3`), so two writes within one millisecond, neither of which has
  seen the other, get one stamp. Contents under it are then told apart by no
  merge; `LocalVault` keeps them under that one name.
* *Admitter revoked* (`Roster`; `MembershipKnown` with `Removable`): the admitter is
  revoked on a peer before the joiner's entry arrives there; the peer refuses
  the entry. `RostersConverge` allows for it (`Refused`).
* *Admission and equality* (`Roster`; "rosters become equal" with `Admits`): joiner
  and inviter store the joiner's entry without and with the admission under one
  stamp (`useSyncEnrollment.ts:286`, `:400`), so that the rosters never become
  equal. `RostersConverge` compares entries up to the admission (`SameEntry`), and
  `roster_admission` checks it with admissions; `SettledRostersAgree`, about equal
  rosters, supposes there are none.
* *Cut transfer* (`Enroll`; "a confirmed transfer is not cut"): the expiry timer
  can stop the mesh session while the bundle is in transit; the joiner then
  fails although it was confirmed in time.
* *Screen lock during hydration* (`VekStore`; "a lock by the screen forgets"): it
  is skipped while the active id has not been read, as nothing seems unlocked.
* *Failed rotation* (`VaultHost`; "a rotation that fails loses nothing"): the
  rollback restores the snapshot, which may be older than the file the rotation
  read, although the message (`useVault.tsx:1302`) says nothing was changed.
* *Moved target* (`Backup`, `Moves = TRUE`, two folders; `SkippedIsHeld`):
  `updateTarget` keeps `lastVaultHash`, so a target moved to another folder or
  server is skipped as up to date (`run.ts:73`) until the vault changes, though
  nothing is there. `docs/cloud-storage-backups.md:165` explains the skip by
  "the previous backup already captures the current state".
* *One snapshot kept* (`Backup`, `Keep = 1`; `SkippedIsHeld`): timer and button
  run at once, one has read the vault before a write and uploads after the
  other. Its outdated snapshot has the newer name, and retention takes the
  current one, which the list records as backed up. With more snapshots kept
  than the vault has targets this cannot happen, as `SkippedHold` proves. The
  panel offers 5 at least (`BackupSection.tsx:893`), so that up to four targets
  are safe.
* *Deleted default vault* (`Backup`, `Deletable = {va}`; `SkippedIsHeld` and
  `RetentionHolds`): the next vault becomes the default one. The folder of its
  carried-over target changes from `<base>-<id>` to `<base>` with the hash kept,
  and its untagged snapshots meet the deleted vault's, which retention then
  removes, although `config.ts:199` calls the folder exclusive to one vault.

Two more were read in the code without a model: `makeVaultScopedStorage`
(`useVaultRegistry.tsx:193-210`) passes no `readVaultBackup` on, so that recovery
from the snapshot is out of reach of the screens; a clock that steps back lets a
new snapshot sort before the old ones, so that retention takes it at once.

`roster.ts` also says that "re-enrolling a device (a strictly newer stamp)
brings it back"; liveness is sticky since, and `joinGroup` takes a fresh id.

## 5. What is proved

TLAPS proves, for any set of devices, ids, contents and settings and without
the bounds (the bounds are guards, so the theorems hold for all their values):

* `Merge_proofs`: `MergeCommutes`, `MergeAssociates`, `MergeIdempotent`,
  `MergeAbsorbs` (a payload merged twice in a row). The merge
  drops dead records, so it is not simply a pointwise maximum: associativity
  rests on `DeadRecordsDoNotMatter` (a record that some tombstone has overtaken
  can be dropped early, because the graveyard only rises). Commutativity needs
  equal stamps to name equal contents, idempotence needs payloads without dead
  entries. The first is what `ContentIsNamedByItsStamp` proves of `VaultSync`,
  the second what `NoEntryIsDead` proves of `LocalVault`. It also holds the
  facts about clocks: `SendAdvances`, `WitnessAllAdvances`.
* `VaultSync_proofs`: `InvariantHolds`, and from it `TypeCorrect`,
  `WritesSurvive`, `ContentIsNamedByItsStamp`, `KnowledgeGrows`,
  `GraveyardGrows`, `SettledHoldsReference` (`SettledIsReference`).
* `LocalVault_proofs`: `TypeCorrect`, `NoEntryIsDead`.
* `Roster_proofs`: `RevokedStaysUnlisted`, `TypeCorrect`, `SelfStaysListed`
  (`SelfListed`, which speaks of runs in which nobody has left). `EntriesAgree` (`StampNamesEntry`)
  and `SettledRostersAreOne` (`SettledRostersAgree`). Of `mergeRosters` itself
  `RosterMergeCommutes`, `RosterMergeAssociates`, `RosterMergeAbsorbs`. A
  revocation acts whatever its stamp, so it matters only which ids are revoked,
  and entries may be dropped early (`RevokedDoNotMatter`). Commutativity needs
  one version of an entry per stamp, which admissions break (section 4).
* `Devices_proofs`, of `PeerSync`: `TypeCorrect`, `SessionsArePaired`
  (`SessionsPair`), `RemovedStaysOut` (`OutStaysOut`), for any number of
  restarts, losses, removals and session names. Of
  `Enroll`, which the module extends as well: `CeremonyTypeCorrect`, and
  `CeremonyRefinement`: the ceremony implements `Pairing`.
* `VekStore_proofs`: `TypeCorrect`, `LocksForget`, `SealedLocksForget` and
  `UnlocksAreTrue` (`UnlockedIsTrue`), with locks at any time, during hydration too.
* `VaultHost_proofs`: `FilesOpen` (`SlotsOpenEntries`), `SessionsMatchKey`
  (`SessionIsOfLoadedVault`), `TypeCorrect`, with locks and switches at any
  time, if no vault that syncs has its key replaced (`SyncedKeysStay`); section
  4 has what happens otherwise.
* `Backup_proofs`: `RetentionCorrect` (`RetentionHolds`), `TypeCorrect`, both if the
  default vault is not deleted (`Stays`), and `SkippedHold` (`SkippedIsHeld`) if
  moreover no target is moved (`~Moves`) and more snapshots are kept than there
  are targets, or all (`Ample`); section 4 has what happens in each other case.

The argument for `VaultSync`. That a device does not lose what it wrote is not
inductive: it needs every later local write of the id to get a higher stamp,
hence the clock to be ahead of the disk (`ClockCoversDisk`). The clock is
rebuilt from the disk at a restart; `receive()` clamps stamps beyond the drift,
so nothing on disk may be beyond it (`NearNow`), which in turn holds because
remote records are sanitised by the same limit and the clock itself never runs
ahead by more. That stamps are never reused (`WritesUnique`) needs the clock to
be ahead of everything the device ever wrote, across restarts
(`ClockCoversWrites`): this follows because `WriterRemembers` says that disk
holds, for each own write, something that sorts at or after it.
`HeldIsWritten` ties contents on disks and wires to the history, which turns
uniqueness of stamps into `StampNamesContent`. `IInv` is the conjunction; it is
also an invariant of `vaultsync`. Most actions are handled by one lemma,
`AdvanceKeepsInvariant`: a step that moves one device's clock forward and its
disk to records at or above the old ones, backed by writes of its own, keeps
`IInv`. Each mutation and `Deliver` is then shown to be such a step.

The argument for `SettledIsReference`, the part of convergence that is not
liveness. Two payloads without dead entries that each find the other redundant
have the same stamps (`RedundantBothWays`): first the same tombstones, as a merge
would raise the lower one, and under the same tombstones each entry of one lives
in the merge. So what one device holds against a write, all do. Each writer's
disk has something that is not older than its write, and of a deletion a
tombstone (`WriterRemembers`, `WriterBuries`); everything held was written
(`HeldIsWritten`) and no entry is dead (`DisksAreLive`). A payload with these
properties is the reference result (`KnowingAllIsReference`), its contents by
`WritesUnique`. That devices do come to rest is fairness and left to the run
`vaultsync`; settings are not part of the statement, since their
stamps can be drawn twice (section 4).

Assumptions: node ids are numbers, drift and counter bound are naturals, ids
form a finite set (`IdAssumption`: a selection of ids has a size); for the
roster, initial members are devices, and every device has a node id to begin
with; for `LocalVault`, the ids to be drawn are finitely many and not the
existing one, and the bounds are naturals. For `VekStore`, operations are
positive numbers in the order they begin, `None` is no vault, and there is room
for a receipt; for `VaultHost`, 0 is no vault and `None` neither a file nor a
session; for `Backup`, vaults are finitely many, `None` is neither one of them
nor a hash, and a frequency is positive.

The argument for `NoEntryIsDead`. The blob is written whole, by the popup from
its memory and by the background from a merge or a save, so whatever is in a
task is a future blob: `IInv` of `LocalVault_proofs` says of every payload in a
task what it says of the disk (no dead entries, stamps within the drift, ids
that exist). Of the popup it says that stamps and tombstones fit each other and
that its clock covers its tombstones, also of the states its tasks have yet to
store, since `BuildPayload` writes the stamp a state holds and an update draws
the next one from the clock; contents may lag behind stamps, which the load's
second read makes possible and `NoDeadEntries` does not depend on. The save of
a new entry is the exception: it is stamped before the disk is witnessed, and
is not dead only because its id is drawn afresh (`DrawingIsFresh`). A merge is
safe by `MergeGood`, from the lemmas of `Merge_proofs`.

The argument for `RevokedStaysUnlisted`: every value stored under `sync.group`
is a result of `mergeRosters`, the first roster or the empty one, whatever
snapshot it was computed from.

The argument for `SelfStaysListed`: a merge knows every id either roster knows
(`MergeOfRosters`), so an own entry can get lost only by a write based on a
roster that never had it. Such a base was read before the device took its id
(`BaseKnows`), which needs a disconnect with a change still running and a new
enrollment before its write; hence the condition.

The argument for `EntriesAgree`. Entries are held in stored rosters, in the rosters
of open invitations and in running changes, including those that outlive a
disconnect; `VersionInv` speaks of all of them (`Held`). A device that may still
draw stamps (`Active`) has an id in use that no other such device has, and its
clock is not behind any stamp with that id (`Drawn`); so a stamp it draws is new
(`RestampKeepsVersions`), and every other step holds only what was held before
(`QuietKeepsVersions`, with `HeldAfter` for what a step may set). An enrollment
starts a clock anew, but under an id that is in no stamp yet. The one pair of
versions under one stamp are the joiner's and the inviter's copies of the
joiner's entry, which differ in the admission.

The argument for `SettledRostersAreOne`. Of a roster it is sent a device leaves out
entries whose revocation it knows, which it does not need, and unsigned entries
where it lists a signed one. Where no admission key is published an unsigned
entry is as it was first listed, and each signed version is later (`Consistent`,
`Version`), so that what is left out would have lost the merge as well. Hence of
two settled devices each knows all revocations and lists all living entries of
the other, under no earlier stamps (`NothingNewIsKnown`); the stamps are equal,
and by `EntriesAgree` the entries. That devices settle is fairness and left to
`roster_admission`.

The argument for `CeremonyRefinement`: until the user answers, nothing is
confirmed for the invitation, and afterwards only the device that claimed it
(`AskedOnce`: a handler serves only who consumed the invitation, and a second
one finds it consumed); a bundle in transit was given for the invitation its
receiver attends (`BundlesAreGiven`). With this, each action of `Enroll` is a
step of `Pairing` or changes none of its variables; stopping a session closes
windows and drops frames, so that a bundle is received only by whom it was
given to.

The argument for `SessionsArePaired`. Two transports may share a Noise session only
if they are its two ends, but that is not inductive: frames of a session outlive
the transport and the life they were sent by, on the relay and in queues, and
the session of a transport is what some frame said. So each session gets its
ends, a life of each device, which nothing in the state records: `Agreed(ends)`
says that whatever bears a session's name, on the way, in a queue or in a
transport, is of its ends, and `IInv` that some `ends` agree. The step that needs
care is `Begin`: its name is one that nothing bears (`Fresh`; the bound on names
is a guard), so its ends may be chosen anew (`FreshAgreed`). All other steps keep
the choice: `routeData` lets in only frames to the life the device has now, which
go to the transport of the life they are from (`HearFrameKeeps`), and a restart
leaves no transport that could remember. That two transports of one device do
not share a session, and that both ends are the present lives, is then a matter
of one function. Types are part of it: a transport past the handshake has a
session (`Authenticated`), so an envelope bears one. Of the assumptions on
constants it needs that there are two devices, that 0 names no session and that
`MaxRestarts` is a number.

The argument for `RemovedStaysOut`: only `RecvPub` takes a transport past the gate,
and it reads the roster of that moment; no step of the other device touches this
one's transports, peers or roster (`Elsewhere`).

The argument for `LocksForget`, with any number of failing storage calls and
deaths of the service worker. Operations begin in order, and whatever begins
outdates the epochs of the unlocks before it (`InOrder`), so an unlock that
stores its key is ahead in the queue of every lock that began after it. The
queue holds each operation once, the working one in front, and none while a
worker starts (`QueueInv`). `KeyInv` then follows the keys: a lock in its turn
has emptied memory, unless hydration came after it, and knows what storage
still holds (`Sealing`, `Clearing`); an unlock in its turn stores what no later
lock has outdated (`Storing`); while storage holds a key older than a sealed
lock, the marker is there, so that hydration does not take it back into memory,
and the marker goes only when whoever set it is done (`MarkerCovers`). Of what
hydration has read and not yet put in place `SnapshotCovers` says the same:
nothing in it is older than a lock that ended before the worker started; the
locks that began since are `early`, and all that they may find undone is
memory. The two properties are read off `KeyInv`; neither is inductive without
the marker's part.

The argument for `UnlocksAreTrue`. What a view was told is that its unlock stored
the key; what could undo it is a later lock, which the property excepts, or one
that began before and comes after it in the queue. There is none: behind the
latest unlock in the queue there are only earlier unlocks, and those find their
epoch outdated. For the active vault, what views apply is a sequence of
announcements, and the last to go round is of what storage has: an announcement
in between is of a removal. A worker that starts knows nothing yet and one that
cleans up has a marker, so that what hydration drops was to be dropped. Which
receipts the list forgets does not matter, as long as it keeps the newest.

The argument for `FilesOpen`. A merge takes the slots from the file and seals the
entries under whatever key is loaded two awaits after it verified it, so what is
needed is that the key loaded stays that of the payload's vault. `VekInv`: the
key loaded is the active vault's (but for the moment in which a new vault has
been recorded and its key not been made). A start may be overtaken by whatever
comes, so nothing is known of starts and sessions as such, only of those that
matter (`SessionInv`): while a start is `Alone`, it is the only one, of the active
vault, unlocked and not being left, for whatever would change that disturbs it;
when it is pinned alone, its generation becomes that of the app, and the session
it becomes is the one that the app stops before anything else (`Owned`). A start
that was disturbed and pins itself to the present generation puts its vault at
risk. Hence a payload of the present generation and of a vault not at risk is of
the owned session (`MergeInv`), and passes the check of its turn only for the
active vault; whoever leaves that vault has counted it and waits. So the key
does not change under a merge, unless its vault is at risk, which it becomes, too,
when a disturbed start is pinned during it: a switch to that start's vault then
finds sync pointed there already, and does not wait. `UiInv` says the same
for the screens: what an edit or a new password holds between its steps has the
keys of the file, since a merge does not change them; a rotation does, and is
alone with its file because its vault does not sync. A snapshot put back has one
key too (`FileInv`), though perhaps an old one, and then the app is locked.

The argument for `RetentionHolds`. A snapshot that was selected for pruning has
`Keep` newer ones of its folder and tag when it is listed, and has them still when
it is its turn (`RunInv`), although another run may prune there in between: what
that run takes has `Keep` newer ones itself, which are newer than the first one
too (`RemovalSpares`). That these are snapshots of the same vault is `StoreInv`: a
tag names its vault, a folder with a vault's name in it does, and without either a
snapshot is the default vault's, which is `First` as long as it stays (`RegInv`).
The condition is needed: section 4 says what happens when that vault is deleted.
What the run does not tell and the theorem does: the user may move targets,
several of them may share a folder, and any number of events may go between.

The argument for `SkippedHold`. A run works on a copy of the list that it read at
its beginning and saves parts of, and so does an edit in the panel: all copies
agree on where a target's folder is (`TurnsInv`, `PastInv`; hence `~Moves`), and
what any of them records as backed up was uploaded there (`SaysInv`,
`UploadsInv`). What remains is that retention does not take it while the vault
still has these bytes. Snapshots of the vault's present bytes can be older by name
than snapshots of former ones, but only than those of a run that had read the
vault before its last write (`LateInv`). There is one such run at most, as a
run that begins later reads what is there now, and it uploads each target once.
So fewer than `Keep` names are newer than the last current one
(`LateCounts`), and by `PruneSpares` retention never selects it. Neither half
is inductive alone: a run's uploads to come have to be counted with those done
(`LatePays`).

Only model-checked: all liveness properties, `Relinked` and `RevokedStaysOut` of
`PeerSync` among them (fairness and ENABLED are out of the prover's reach). Not
provable with the tools here: what recursive definitions compute for all inputs,
since the induction theorems of the library cannot be instantiated; the modules
have no recursive operators, and loops are closed forms.

## 6. Abstractions and assumptions

* Devices run the code. A device that forges stamps, signatures or rosters is
  outside the models; sanitising and verification appear as what they do to
  honest data. Both roster flags (`rosterRequireSignatures`,
  `rosterRequireAdmission`) are off, as shipped in `flags.json`.
* Physical clocks never step back in `VaultSync`; `NearNow` and with it the
  proof depend on it. Clocks do not restart in `Roster`, where all stamps
  are drawn in one millisecond: the counter orders what a device draws.
* A step of one device is atomic in `VaultSync`; `LocalVault` shows what that
  abstraction hides (the load window, dropped settings, merges that are
  overwritten and arrive with a later rebroadcast).
* `Roster` starts with a group; `ensureGroup` is its initial state. Of the
  ceremony it has one step, its event is not lost; password changes and with
  them new admission keys are left out. `Enroll` has the ceremony and one bit of
  the roster.
* `PeerSync` has two devices and the relay. WebRTC, the fallback to the relay
  and the splitting of frames are left out. A relay channel still publishes
  after it was closed (`mesh.ts:418-432`); in the model a first envelope that was
  about to be sent is, and the other frames that could be are left out, as
  their session is over on this side.
* `VekStore` stores keys, not what they open. `VaultHost` has one key per process
  and no recovery or passkey slots of their own: a slot is right or wrong with
  the key it wraps.
* `Backup` is the extension's. The desktop's scheduler differs in having no
  session to check and in taking credentials from the operating system. The
  number of snapshots to keep is one constant, where the code has one per
  target. One run of the button at a time; an edit in the panel is atomic, on a
  copy that may be old; signing in to a provider, the one-time migration,
  credentials moved to the operating system and a second device writing to the
  same folder are left out. Two snapshots never fall into one second.
* Encryption, encoding, sizes and framing are left out: no property is about
  them.

## 7. Not modelled, and plan

Not modelled, as there is no protocol in it or its core is outside the source:
the content scripts and the detection of forms, the import and export of other
formats, the clients of alias services, the WebAuthn proxy, the user interface,
the cryptographic primitives, the shells of the platforms, the release scripts
and the website. Together they are most of the repository's lines: rendering,
parsing and I/O whose correctness is not a matter of states and their order.

What a continuation would add, with the hazards of `PROJECT.json` that no property
covers as the guide:

1. The autofill index and its lease, with lock and unlock in `LocalVault`; a
   smaller instance of it with two reloads.
2. Start and stop of the extension's sync host (`syncRunning`, the connectivity
   of the phone), composed with `VaultHost`'s sessions.
3. The desktop's link to the browser: pairing, its handshake, the queue of
   requests while the app is locked.
4. WebRTC beside the relay in `PeerSync`, more than two devices.
5. Recovery and passkey slots, and recovery from the snapshot, in `VaultHost`.
6. The desktop's schedule and a second device in `Backup`.
7. Tags and the password changelog as operators against a reference.
8. A proof of the condition under which rosters with admissions settle on one
   list of members.
