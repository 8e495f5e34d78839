------------------------------- MODULE VekStore -------------------------------
(***************************************************************************)
(* The vault keys of the extension's background worker                     *)
(* (platform-extension/src/background/vek-store.ts), with the handlers of  *)
(* session.ts and the seam of offscreen-client.ts that install and drop    *)
(* them.                                                                   *)
(*                                                                         *)
(* Keys live in memory and, for a worker that restarts, in                 *)
(* chrome.storage.session.  Unlocks and locks overlap: each takes the next *)
(* epoch when it begins, waits for the crypto host, and commits in a queue *)
(* whose steps are storage calls.  Any such call may fail, before or after *)
(* it took effect, and the worker may die between any two.                 *)
(*                                                                         *)
(* A key is named by the operation that installed it.                      *)
(***************************************************************************)
EXTENDS Naturals, Sequences

CONSTANTS Vault,
          Op,          \* operations, numbered in the order they begin
          None,        \* no vault
          MaxReceipts, \* MAX_PENDING_ACTIVE_CHANGES
          MaxMishaps,  \* bound: failing storage calls and deaths of the worker
          MaxSelects   \* bound: choices of the active vault by a view

ASSUME OpAssumption == Op \subseteq Nat \ {0}
ASSUME VaultAssumption == None \notin Vault
ASSUME ReceiptsAssumption == MaxReceipts \in Nat \ {0}

VARIABLES veks,      \* vault -> the key in memory; 0: none
          durable,   \* vault -> the key in session storage; 0: none
          candidates,\* durableVekCandidates
          marked,    \* lockMarkerPresent
          marker,    \* LOCKED_MARKER_KEY in storage
          poisoned,  \* persistencePoisoned
          epoch,     \* mutationEpoch
          op,        \* operation -> [kind, vault, epoch, pc]
          queue,     \* the commits chained on mutationTail, in order
          clearing,  \* locals of clearAllVeks: [keys, active, failed]
          activeId,  \* the mirror of the active vault
          stored,    \* ACTIVE_VAULT_SESSION_KEY in storage
          notes,     \* storage.onChanged of that key under way: <<old, new>>
          expected,  \* pendingActiveStorageChanges: <<old, new, whose>>
          hydration, \* of the running worker: "reading", "read", "cleaning", "ready"
          snapshot,  \* what hydration read of storage: [keys, marker, active]
          mishaps, selects,
          sealed,    \* history: the locks whose marker reached storage
          early,     \* history: locks begun before the running worker was ready
          told       \* history: the unlock a view may still rely on

keyVars == <<veks, durable, candidates>>
lockVars == <<marked, marker, poisoned>>
opVars == <<op, queue, clearing>>
activeVars == <<activeId, stored, notes, expected>>
counters == <<mishaps, selects, sealed>>
wakeVars == <<hydration, snapshot, early>>
vars == <<keyVars, lockVars, epoch, opVars, activeVars, wakeVars, counters, told>>

NoKeys == [v \in Vault |-> 0]
NoClearing == [keys |-> {}, active |-> None, failed |-> FALSE]
NoSnapshot == [keys |-> NoKeys, marker |-> FALSE, active |-> None]

Init ==
    /\ veks = NoKeys /\ durable = NoKeys /\ candidates = {}
    /\ marked = FALSE /\ marker = FALSE /\ poisoned = FALSE
    /\ epoch = 0
    /\ op = [o \in Op |-> [kind |-> "none", vault |-> None, epoch |-> 0, pc |-> "unused"]]
    /\ queue = <<>> /\ clearing = NoClearing
    /\ activeId = None /\ stored = None /\ notes = <<>> /\ expected = <<>>
    /\ hydration = "ready" /\ snapshot = NoSnapshot /\ early = {}
    /\ mishaps = 0 /\ selects = 0 /\ sealed = {} /\ told = {}

-----------------------------------------------------------------------------
\* The active vault.

\* applyActiveVaultId: the mirror and the epoch after the value v is seen.
EpochAfter(v) == IF v = activeId THEN epoch ELSE epoch + 1

\* A write of the stored id is announced to everybody, also to its writer.
WriteActive(v) ==
    /\ stored' = v
    /\ notes' = IF v = stored THEN notes ELSE Append(notes, <<stored, v>>)

\* setActiveVault: a view chooses the vault it is about to unlock, or none
\* after it deleted one.
SetActiveVault(v) ==
    /\ selects < MaxSelects
    /\ selects' = selects + 1
    /\ WriteActive(v)
    /\ told' = {}
    /\ UNCHANGED <<keyVars, lockVars, epoch, opVars, activeId, expected, wakeVars,
                   mishaps, sealed>>

Matches(i, n) == expected[i][1] = n[1] /\ expected[i][2] = n[2]
FirstMatch(n) == CHOOSE i \in DOMAIN expected :
                    /\ Matches(i, n)
                    /\ \A j \in DOMAIN expected : j < i => ~Matches(j, n)

Without(s, i) == SubSeq(s, 1, i - 1) \o SubSeq(s, i + 1, Len(s))

\* The worker announces a change it is about to make; the oldest of too many
\* announcements is given up.
Announce(old, o) ==
    LET s == Append(expected, <<old, None, o>>) IN
    IF Len(s) > MaxReceipts THEN Tail(s) ELSE s

\* ... and withdraws it.
IsOf(i, o) == expected[i][3] = o
Withdraw(o) ==
    IF \E i \in DOMAIN expected : IsOf(i, o)
    THEN Without(expected, CHOOSE i \in DOMAIN expected : IsOf(i, o))
    ELSE expected

\* storage.onChanged: a change the worker made itself is consumed, another
\* one applied.
OnActiveChanged ==
    /\ notes # <<>>
    /\ notes' = Tail(notes)
    /\ LET n == Head(notes) IN
       IF \E i \in DOMAIN expected : Matches(i, n)
       THEN /\ expected' = Without(expected, FirstMatch(n))
            /\ UNCHANGED <<epoch, activeId>>
       ELSE /\ activeId' = n[2]
            /\ epoch' = EpochAfter(n[2])
            /\ UNCHANGED expected
    /\ UNCHANGED <<keyVars, lockVars, opVars, stored, wakeVars, counters, told>>

\* activeVaultLocked
ActiveVaultLocked == poisoned \/ marked \/ activeId = None \/ veks[activeId] = 0

-----------------------------------------------------------------------------
\* Operations before and after their commit.

Fresh(o) == op[o].pc = "unused" /\ \A k \in Op : k < o => op[k].pc # "unused"

Begin(o, kind, v, e, pc) ==
    op' = [op EXCEPT ![o] = [kind |-> kind, vault |-> v, epoch |-> e, pc |-> pc]]

\* cryptoHandler of an operation that replaces the vault's key: it sees the
\* active vault, then takes its epoch.
BeginInstall(o) ==
    /\ hydration = "ready" /\ Fresh(o) /\ stored # None
    /\ activeId' = stored
    /\ epoch' = EpochAfter(stored) + 1
    /\ Begin(o, "install", stored, EpochAfter(stored) + 1, "crypto")
    /\ told' = {}
    /\ UNCHANGED <<keyVars, lockVars, queue, clearing, stored, notes, expected,
                   wakeVars, counters>>

\* The crypto host replies, with the key or without one.
CryptoReply(o) ==
    /\ op[o].pc = "crypto"
    /\ \/ /\ op' = [op EXCEPT ![o].pc = "queued"]
          /\ queue' = Append(queue, o)
       \/ /\ op' = [op EXCEPT ![o].pc = "denied"]
          /\ UNCHANGED queue
    /\ UNCHANGED <<keyVars, lockVars, epoch, clearing, activeVars, wakeVars, counters, told>>

\* The key is installed: the answer depends on whether anything newer began.
\* The view that shows the vault chooses it once more.
Answer(o) ==
    /\ op[o].pc = "installed"
    /\ activeId' = stored
    /\ epoch' = EpochAfter(stored)
    /\ IF EpochAfter(stored) = op[o].epoch
       THEN /\ op' = [op EXCEPT ![o].pc = "unlocked"]
            /\ WriteActive(op[o].vault)
            /\ told' = {o}
       ELSE /\ op' = [op EXCEPT ![o].pc = "stale"]
            /\ UNCHANGED <<stored, notes, told>>
    /\ UNCHANGED <<keyVars, lockVars, queue, clearing, expected, wakeVars, counters>>

\* CRYPTO_LOCK from a view: the epoch moves before anything is awaited.
BeginLock(o) ==
    /\ hydration = "ready" /\ Fresh(o)
    /\ epoch' = epoch + 1
    /\ Begin(o, "lock", stored, 0, "zeroize")
    /\ told' = {}
    /\ UNCHANGED <<keyVars, lockVars, queue, clearing, activeVars, wakeVars, counters>>

\* ... lockVault once the crypto host is cleared: the active vault's lock
\* clears everything, another vault's lock only its key.
LockVault(o) ==
    /\ op[o].pc = "zeroize"
    /\ activeId' = stored
    /\ epoch' = EpochAfter(stored) + 1
    /\ op' = [op EXCEPT ![o].pc = "queued",
                        ![o].kind = IF @ = "lock" /\ op[o].vault \in {stored, None}
                                    THEN "clear" ELSE "remove"]
    /\ queue' = Append(queue, o)
    /\ told' = {}
    /\ UNCHANGED <<keyVars, lockVars, clearing, stored, notes, expected, wakeVars, counters>>

\* A lock by an event: nothing has it wait for a worker that the event woke.
EarlyWith(o) == IF hydration = "ready" THEN early ELSE early \cup {o}

\* clearSession from the auto-lock alarm, the lock command, the last view
\* that closes.
ClearSession(o) ==
    /\ Fresh(o)
    /\ epoch' = epoch + 1
    /\ Begin(o, "clear", None, 0, "queued")
    /\ queue' = Append(queue, o)
    /\ early' = EarlyWith(o)
    /\ told' = {}
    /\ UNCHANGED <<keyVars, lockVars, clearing, activeVars, hydration, snapshot, counters>>

\* The operating system's lock screen: skipped if nothing is unlocked.
ScreenLock(o) ==
    /\ Fresh(o)
    /\ IF ActiveVaultLocked
       THEN /\ Begin(o, "screen", None, 0, "skipped")
            /\ UNCHANGED <<epoch, queue>>
       ELSE /\ epoch' = epoch + 1
            /\ Begin(o, "clear", None, 0, "queued")
            /\ queue' = Append(queue, o)
    /\ early' = EarlyWith(o)
    /\ told' = IF ActiveVaultLocked THEN told ELSE {}
    /\ UNCHANGED <<keyVars, lockVars, clearing, activeVars, hydration, snapshot, counters>>

-----------------------------------------------------------------------------
\* The commits, one at a time (serializeMutation).

Runs(o, pc) == queue # <<>> /\ Head(queue) = o /\ op[o].pc = pc
Go(o, pc) == op' = [op EXCEPT ![o].pc = pc] /\ UNCHANGED queue
Done(o, pc) == op' = [op EXCEPT ![o].pc = pc] /\ queue' = Tail(queue)

\* A storage call takes effect ("done") or not and succeeds ("ok") or not.
Call(ok, done) ==
    /\ ok => done
    /\ IF ok THEN UNCHANGED mishaps ELSE mishaps < MaxMishaps /\ mishaps' = mishaps + 1

\* Mutant: the epoch is not looked at when the commit's turn comes.
InstallCommitUnchecked(o) ==
    /\ Runs(o, "queued") /\ op[o].kind = "install"
    /\ IF poisoned
       THEN Done(o, "failed") /\ UNCHANGED <<veks, candidates>>
       ELSE /\ veks' = [veks EXCEPT ![op[o].vault] = o]
            /\ candidates' = candidates \cup {op[o].vault}
            /\ Go(o, "storing")
    /\ UNCHANGED <<durable, lockVars, epoch, clearing, activeVars, wakeVars, counters, told>>

\* setVek, its turn: stale, refused, or the key is in memory at once.
InstallCommit(o) ==
    /\ Runs(o, "queued") /\ op[o].kind = "install"
    /\ IF op[o].epoch # epoch
       THEN Done(o, "stale") /\ UNCHANGED <<veks, candidates>>
       ELSE IF poisoned
       THEN Done(o, "failed") /\ UNCHANGED <<veks, candidates>>
       ELSE /\ veks' = [veks EXCEPT ![op[o].vault] = o]
            /\ candidates' = candidates \cup {op[o].vault}
            /\ Go(o, "storing")
    /\ UNCHANGED <<durable, lockVars, epoch, clearing, activeVars, wakeVars, counters, told>>

\* Mutant: a write that failed is not noticed.
SettleAnyway(o, ok) ==
    IF op[o].epoch = epoch
    THEN Done(o, "installed") /\ UNCHANGED veks
    ELSE /\ Go(o, "undoStale")
         /\ veks' = [veks EXCEPT ![op[o].vault] = 0]

\* The end of setVek's try: rolled back at once in memory if it failed or a
\* newer operation began.
Settle(o, ok) ==
    IF ok /\ op[o].epoch = epoch
    THEN Done(o, "installed") /\ UNCHANGED veks
    ELSE /\ Go(o, IF ok THEN "undoStale" ELSE "undoFailed")
         /\ veks' = [veks EXCEPT ![op[o].vault] = 0]

\* setVek: the key is written, with the list of unlocked vaults.
InstallStore(o) ==
    /\ Runs(o, "storing")
    /\ \E ok, done \in BOOLEAN :
          /\ Call(ok, done)
          /\ durable' = IF done THEN [durable EXCEPT ![op[o].vault] = o] ELSE durable
          /\ IF ok /\ marked THEN Go(o, "unmarking") /\ UNCHANGED veks ELSE Settle(o, ok)
    /\ UNCHANGED <<candidates, lockVars, epoch, clearing, activeVars, wakeVars,
                   selects, sealed, told>>

\* ... and a marker that an interrupted lock left is removed.
InstallUnmark(o) ==
    /\ Runs(o, "unmarking")
    /\ \E ok, done \in BOOLEAN :
          /\ Call(ok, done)
          /\ marker' = (marker /\ ~done)
          /\ marked' = (marked /\ ~ok)
          /\ Settle(o, ok)
    /\ UNCHANGED <<durable, candidates, poisoned, epoch, clearing, activeVars, wakeVars,
                   selects, sealed, told>>

\* removeVek, its turn.
RemoveCommit(o) ==
    /\ Runs(o, "queued") /\ op[o].kind = "remove"
    /\ IF poisoned
       THEN Done(o, "failed") /\ UNCHANGED veks
       ELSE Go(o, "removing") /\ veks' = [veks EXCEPT ![op[o].vault] = 0]
    /\ UNCHANGED <<durable, candidates, lockVars, epoch, clearing, activeVars, wakeVars,
                   counters, told>>

\* What rollbackInstall and removeVek share: the stored key and its place in
\* the list go; if that is uncertain the marker is left first.
RemoveStored(o) ==
    /\ \E pc \in {"removing", "undoStale", "undoFailed"} :
       /\ Runs(o, pc)
       /\ \E ok, done \in BOOLEAN :
          /\ Call(ok, done)
          /\ durable' = IF done THEN [durable EXCEPT ![op[o].vault] = 0] ELSE durable
          /\ candidates' = IF ok THEN candidates \ {op[o].vault} ELSE candidates
          /\ marked' = (marked \/ ~ok)
          /\ IF ~ok THEN Go(o, "leaving")
             ELSE Done(o, CASE pc = "removing" -> "removed"
                            [] pc = "undoStale" -> "stale"
                            [] OTHER -> "failed")
    /\ UNCHANGED <<veks, marker, poisoned, epoch, clearing, activeVars, wakeVars,
                   selects, sealed, told>>

\* Mutant: the mirror is left undefined.
FailClosedUndefined == poisoned' = TRUE /\ veks' = NoKeys /\ activeId' = 0

\* failClosed
FailClosed == poisoned' = TRUE /\ veks' = NoKeys /\ activeId' = None

\* leaveLockMarker, best effort, and failClosed.
LeaveLockMarker(o) ==
    /\ Runs(o, "leaving")
    /\ \E ok, done \in BOOLEAN : Call(ok, done) /\ marker' = (marker \/ done)
    /\ FailClosed
    /\ Done(o, "failed")
    /\ UNCHANGED <<durable, candidates, marked, epoch, clearing, stored, notes, expected,
                   wakeVars, selects, sealed, told>>

\* clearAllVeks, its turn: memory is cleared before anything is awaited.
ClearCommit(o) ==
    /\ Runs(o, "queued") /\ op[o].kind = "clear"
    /\ clearing' = [keys |-> candidates \cup {v \in Vault : veks[v] # 0},
                    active |-> activeId, failed |-> FALSE]
    /\ veks' = NoKeys
    /\ activeId' = None
    /\ marked' = TRUE
    /\ Go(o, "marking")
    /\ UNCHANGED <<durable, candidates, marker, poisoned, epoch, stored, notes, expected,
                   wakeVars, counters, told>>

\* ... the marker is set,
ClearMark(o) ==
    /\ Runs(o, "marking")
    /\ \E ok, done \in BOOLEAN :
          /\ Call(ok, done)
          /\ marker' = (marker \/ done)
          /\ sealed' = IF done THEN sealed \cup {o} ELSE sealed
          /\ clearing' = [clearing EXCEPT !.failed = ~ok]
    /\ Go(o, "listing")
    /\ UNCHANGED <<keyVars, marked, poisoned, epoch, activeVars, wakeVars, selects, told>>

\* ... the stored keys are listed and the removal of the active id announced,
\* which is the one remembered if storage cannot be read,
ClearList(o) ==
    /\ Runs(o, "listing")
    /\ \E ok \in BOOLEAN :
          /\ Call(ok, ok)
          /\ clearing' = IF ok
                         THEN [clearing EXCEPT !.keys = @ \cup {v \in Vault : durable[v] # 0}]
                         ELSE [clearing EXCEPT !.failed = TRUE]
          /\ expected' = IF ok /\ stored = None THEN expected
                         ELSE Announce(IF ok THEN stored ELSE clearing.active, o)
    /\ Go(o, "clearing")
    /\ UNCHANGED <<keyVars, lockVars, epoch, activeId, stored, notes, wakeVars,
                   selects, sealed, told>>

\* ... and all is well only if all three calls were.
ClearEnd(o, ok) ==
    IF ok /\ ~clearing.failed
    THEN poisoned' = FALSE /\ Done(o, "locked") /\ UNCHANGED <<veks, activeId>>
    ELSE FailClosed /\ Done(o, "failed")

\* ... everything is removed,
ClearRemove(o) ==
    /\ Runs(o, "clearing")
    /\ \E ok, done \in BOOLEAN :
          /\ Call(ok, done)
          /\ durable' = IF done
                        THEN [v \in Vault |-> IF v \in clearing.keys THEN 0 ELSE durable[v]]
                        ELSE durable
          /\ IF done THEN WriteActive(None) ELSE UNCHANGED <<stored, notes>>
          /\ candidates' = IF ok THEN candidates \ clearing.keys ELSE candidates
          /\ expected' = IF ok THEN expected ELSE Withdraw(o)
          /\ ClearEnd(o, ok)
    /\ clearing' = NoClearing
    /\ UNCHANGED <<marked, marker, epoch, wakeVars, selects, sealed, told>>

-----------------------------------------------------------------------------
\* The worker dies, with its memory and every operation under way, and is
\* started again.
Unanswered == {"crypto", "queued", "zeroize", "storing", "unmarking", "undoStale",
               "undoFailed", "removing", "leaving", "marking", "listing", "clearing",
               "installed"}

WorkerDies ==
    /\ mishaps < MaxMishaps
    /\ mishaps' = mishaps + 1
    /\ veks' = NoKeys /\ candidates' = {} /\ activeId' = None
    /\ marked' = FALSE /\ poisoned' = FALSE
    /\ expected' = <<>> /\ queue' = <<>> /\ clearing' = NoClearing
    /\ epoch' = epoch + 1
    /\ op' = [o \in Op |-> IF op[o].pc \in Unanswered THEN [op[o] EXCEPT !.pc = "lost"]
                           ELSE op[o]]
    /\ hydration' = "reading" /\ snapshot' = NoSnapshot /\ early' = {}
    /\ UNCHANGED <<durable, marker, stored, notes, selects, sealed, told>>

\* vekStoreHydration: storage is read,
HydrateRead ==
    /\ hydration = "reading"
    /\ \E ok \in BOOLEAN :
       /\ Call(ok, ok)
       /\ IF ok
          THEN /\ snapshot' = [keys |-> durable, marker |-> marker, active |-> stored]
               /\ hydration' = "read"
          ELSE hydration' = "ready" /\ UNCHANGED snapshot
    /\ UNCHANGED <<keyVars, lockVars, epoch, opVars, activeVars, early, selects, sealed, told>>

\* Mutant: the marker is not looked at.
HydrateUnmarked ==
    /\ hydration = "read"
    /\ veks' = snapshot.keys
    /\ candidates' = {v \in Vault : snapshot.keys[v] # 0}
    /\ activeId' = snapshot.active
    /\ hydration' = "ready"
    /\ snapshot' = NoSnapshot
    /\ UNCHANGED <<durable, lockVars, epoch, opVars, stored, notes, expected, early,
                   counters, told>>

\* ... and what was read is put in place, whatever has happened since, but
\* nothing over a marker.
Hydrate ==
    /\ hydration = "read"
    /\ marked' = snapshot.marker
    /\ IF snapshot.marker
       THEN /\ hydration' = "cleaning"
            /\ UNCHANGED <<veks, candidates, activeId, snapshot>>
       ELSE LET found == {v \in Vault : snapshot.keys[v] # 0} IN
            /\ veks' = [v \in Vault |-> IF v \in found THEN snapshot.keys[v] ELSE veks[v]]
            /\ candidates' = candidates \cup found
            /\ activeId' = snapshot.active
            /\ hydration' = "ready"
            /\ snapshot' = NoSnapshot
    /\ UNCHANGED <<durable, marker, poisoned, epoch, opVars, stored, notes, expected, early,
                   counters, told>>

\* ... an interrupted lock is completed.
HydrateClean ==
    /\ hydration = "cleaning"
    /\ \E ok, done \in BOOLEAN :
       /\ Call(ok, done)
       /\ durable' = IF done
                     THEN [v \in Vault |-> IF snapshot.keys[v] # 0 THEN 0 ELSE durable[v]]
                     ELSE durable
       /\ IF done THEN WriteActive(None) ELSE UNCHANGED <<stored, notes>>
       /\ IF ok THEN UNCHANGED <<poisoned, veks, activeId>> ELSE FailClosed
    /\ hydration' = "ready"
    /\ snapshot' = NoSnapshot
    /\ UNCHANGED <<candidates, marked, marker, epoch, opVars, expected, early, selects,
                   sealed, told>>

-----------------------------------------------------------------------------
Commit(o) ==
    \/ InstallCommit(o) \/ InstallStore(o) \/ InstallUnmark(o)
    \/ RemoveCommit(o) \/ RemoveStored(o) \/ LeaveLockMarker(o)
    \/ ClearCommit(o) \/ ClearMark(o) \/ ClearList(o) \/ ClearRemove(o)

Step(o) == CryptoReply(o) \/ LockVault(o) \/ Answer(o) \/ Commit(o)

Next ==
    \/ \E o \in Op :
          BeginInstall(o) \/ BeginLock(o) \/ ClearSession(o) \/ ScreenLock(o) \/ Step(o)
    \/ \E v \in Vault \cup {None} : SetActiveVault(v)
    \/ OnActiveChanged \/ WorkerDies \/ HydrateRead \/ Hydrate \/ HydrateClean

Spec == Init /\ [][Next]_vars

-----------------------------------------------------------------------------
TypeOK ==
    /\ veks \in [Vault -> Op \cup {0}] /\ durable \in [Vault -> Op \cup {0}]
    /\ candidates \in SUBSET Vault
    /\ marked \in BOOLEAN /\ marker \in BOOLEAN /\ poisoned \in BOOLEAN
    /\ epoch \in Nat
    /\ op \in [Op -> [kind : {"none", "install", "lock", "clear", "remove", "screen"},
                      vault : Vault \cup {None}, epoch : Nat,
                      pc : Unanswered \cup {"unused", "denied", "unlocked", "stale",
                                            "failed", "removed", "locked", "skipped", "lost"}]]
    /\ queue \in Seq(Op)
    /\ clearing \in [keys : SUBSET Vault, active : Vault \cup {None}, failed : BOOLEAN]
    /\ activeId \in Vault \cup {None} /\ stored \in Vault \cup {None}
    /\ notes \in Seq((Vault \cup {None}) \X (Vault \cup {None}))
    /\ expected \in Seq((Vault \cup {None}) \X (Vault \cup {None}) \X Op)
    /\ hydration \in {"reading", "read", "cleaning", "ready"}
    /\ snapshot \in [keys : [Vault -> Op \cup {0}], marker : BOOLEAN, active : Vault \cup {None}]
    /\ mishaps \in Nat /\ selects \in Nat
    /\ sealed \in SUBSET Op /\ early \in SUBSET Op /\ told \in SUBSET Op

\* A lock that reported success leaves no key installed by an operation that
\* began before it, in memory or in storage: no late reply of the crypto
\* host, failed write or restart brings one back.  (Excepted: a lock that
\* began before the running worker was ready clears storage, but hydration
\* may put the keys back in memory, for as long as this worker lives.)
LockForgets ==
    \A o \in Op : op[o].pc = "locked" =>
        \A v \in Vault :
            /\ durable[v] # 0 => durable[v] > o
            /\ veks[v] # 0 => veks[v] > o \/ o \in early

\* A lock that failed or was interrupted after its marker was stored keeps
\* older keys out of memory all the same, whatever is still in storage and
\* however often the worker restarts; one that began before its worker was
\* ready, from the next restart on.
SealedLockForgets ==
    \A o \in sealed \ early, v \in Vault : veks[v] # 0 => veks[v] > o

\* "Walk-away lock: forget every vault's VEK" (vek-store.ts): whenever a lock
\* reports success, no older key is in memory.
WalkAwayForgets ==
    \A o \in Op : op[o].pc = "locked" => \A v \in Vault : veks[v] # 0 => veks[v] > o

\* A view that was told its vault is open can rely on it until the next
\* unlock, lock or choice of a vault: the key is stored for the next worker
\* and, once the last change of the active vault has gone round, nothing
\* takes the vault for locked.  (Excepted: a worker that could not read
\* storage when it started.)
UnlockedIsTrue ==
    \A o \in told :
        LET v == op[o].vault IN
        ~marker => /\ durable[v] = o
                   /\ hydration = "ready" /\ candidates # {} /\ notes = <<>> =>
                          veks[v] = o /\ ~ActiveVaultLocked
=============================================================================
