------------------------------- MODULE VaultHost -------------------------------
(***************************************************************************)
(* The app of a phone (platform-mobile/src/sync/sync-manager.ts; the       *)
(* desktop's src/sync/roster.ts repeats it), with several vaults, one      *)
(* vault key for the whole process, one file per vault with a snapshot of  *)
(* its bytes before the last write, and one sync session that merges into  *)
(* the file of the vault it was started for.                               *)
(*                                                                         *)
(* The screens (core/src/hooks/useVault.tsx) run one operation at a time;  *)
(* starting a session and merging run beside it, each cut at its awaits.   *)
(* A file opens only if its slots and its entries are under one key.       *)
(*                                                                         *)
(* A vault's first key is named by the vault, later ones are numbered.     *)
(***************************************************************************)
EXTENDS Naturals, Sequences

CONSTANTS Vault,
          Existing,    \* the vaults there are to begin with
          Enrolled,    \* the vaults in a sync group
          Rotates,     \* the vaults whose key the user replaces
          Start,       \* bound: sessions that may be starting at a time
          None,        \* no vault, no session
          MaxOps,      \* bound: operations of the screens
          MaxLocks,    \* bound: locks when the app goes to the background
          MaxMerges,   \* bound: payloads of peers
          MaxFaults    \* bound: writes that fail

ASSUME VaultAssumption == Existing \subseteq Vault /\ Enrolled \subseteq Existing /\ None \notin Vault
ASSUME KeyAssumption == 0 \notin Vault

Key == Vault \cup Nat
FileType == [slots : Key, entries : Key, rev : Nat]
Session == [vault : Vault, gen : Nat, by : Start, alone : BOOLEAN]
StartType == [pc : {"idle", "reading", "pinning", "connecting"},
              vault : Vault \cup {None}, gen : Nat, alone : BOOLEAN]
MergeType == [pc : {"idle", "slots", "verify", "seal", "write"}, slots : Key, key : Key]
UiType == [op : {"none", "unlock", "create", "edit", "password", "rotate"},
           pc : {"idle", "retarget", "drain", "record", "unwrap", "generate", "wrap", "read",
                 "rewrap", "rotate", "seal", "write", "verify", "restore"},
           vault : Vault \cup {None}, await : Nat, file : FileType \cup {None}]

ASSUME NoneAssumption == None \notin FileType /\ None \notin Session

VARIABLES vek,        \* the process's key; 0: locked
          minted,     \* keys generated so far
          active,     \* ACTIVE_VAULT_KEY
          live,       \* vault -> its file: [slots, entries, rev]; None: no file
          bak,        \* vault -> the snapshot; None: no snapshot
          rosterSession, sessionVaultId, sessionGen,
          running,    \* sessions that were started and not stopped: [vault, gen, by, alone]
          start,      \* starting sessions: [pc, vault, gen, alone]; alone: no session was
                      \* stopped, and no other starting, since this one began (history)
          risked,     \* vaults a session was pinned to, or merging into, when one
                      \* that did not start alone was pinned (history)
          merges,     \* applyInFlight: payloads, by their session, in order
          merge,      \* locals of the first of them: [pc, slots, key]
          ui,         \* the screens: [op, pc, vault, await, file]
          ops, locks, payloads, faults

keyVars == <<vek, minted, active>>
fileVars == <<live, bak>>
sessionVars == <<rosterSession, sessionVaultId, sessionGen, running>>
startVars == <<start, risked>>
mergeVars == <<merges, merge>>
counters == <<ops, locks, payloads, faults>>
vars == <<keyVars, fileVars, sessionVars, startVars, mergeVars, ui, counters>>

File(slots, entries, rev) == [slots |-> slots, entries |-> entries, rev |-> rev]
NoMerge == [pc |-> "idle", slots |-> 0, key |-> 0]
NoStart == [pc |-> "idle", vault |-> None, gen |-> 0, alone |-> FALSE]
Idle == [op |-> "none", pc |-> "idle", vault |-> None, await |-> 0, file |-> None]

Init ==
    /\ vek = 0 /\ minted = 0 /\ active = None
    /\ live = [v \in Vault |-> IF v \in Existing THEN File(v, v, 0) ELSE None]
    /\ bak = [v \in Vault |-> None]
    /\ rosterSession = None /\ sessionVaultId = None /\ sessionGen = 0 /\ running = {}
    /\ start = [s \in Start |-> NoStart] /\ risked = {}
    /\ merges = <<>> /\ merge = NoMerge
    /\ ui = Idle
    /\ ops = 0 /\ locks = 0 /\ payloads = 0 /\ faults = 0

Fault == faults < MaxFaults /\ faults' = faults + 1

\* writeVaultBlob: the bytes it replaces become the snapshot; then the write
\* takes place, or it has failed before or after the snapshot.
Write(v, f, ok) ==
    LET snapshot == IF live[v] = None THEN bak ELSE [bak EXCEPT ![v] = live[v]] IN
    IF ok THEN live' = [live EXCEPT ![v] = f] /\ bak' = snapshot /\ UNCHANGED faults
    ELSE Fault /\ bak' \in {bak, snapshot} /\ UNCHANGED live

\* restoreVaultFromBackup
Restore(v) ==
    /\ live' = IF bak[v] = None THEN live ELSE [live EXCEPT ![v] = bak[v]]
    /\ UNCHANGED bak

-----------------------------------------------------------------------------
\* Sync sessions.

Starting == \E s \in Start : start[s].pc # "idle"
Disturbed == [s \in Start |-> [start[s] EXCEPT !.alone = FALSE]]

\* stopRosterSync; a session that is starting is not told.
StopRosterSync ==
    /\ running' = running \ {rosterSession}
    /\ rosterSession' = None
    /\ sessionVaultId' = None
    /\ sessionGen' = sessionGen + 1
    /\ start' = Disturbed

\* maybeStartRosterSync, on the signal that the vault was unlocked; it asks
\* for a session that runs, not for one that is starting.
MaybeStart ==
    IF rosterSession # None THEN UNCHANGED start
    ELSE \E s \in Start :
            /\ start[s].pc = "idle"
            /\ start' = [Disturbed EXCEPT ![s] =
                            [NoStart EXCEPT !.pc = "reading", !.alone = ~Starting]]

\* Mutant: the session is not pinned to the vault it was started for.
StartReadUnpinned(s) ==
    /\ start[s].pc = "reading"
    /\ start' = [start EXCEPT ![s].pc = IF active \in Enrolled THEN "pinning" ELSE "idle",
                              ![s].alone = @ /\ active \in Enrolled]
    /\ UNCHANGED <<keyVars, fileVars, sessionVars, risked, mergeVars, ui, counters>>

\* startRoster: the active vault is read, and its group.
StartRead(s) ==
    /\ start[s].pc = "reading"
    /\ start' = [start EXCEPT ![s] = IF active \in Enrolled
                                     THEN [@ EXCEPT !.pc = "pinning", !.vault = active]
                                     ELSE NoStart]
    /\ UNCHANGED <<keyVars, fileVars, sessionVars, risked, mergeVars, ui, counters>>

\* ... the keys, the relay and the crypto module are there: the running
\* session ends, the new one gets its vault and the generation, which is the
\* present one also after a lock or a switch of vault.
StartPin(s) ==
    /\ start[s].pc = "pinning"
    /\ start' = [start EXCEPT ![s].pc = "connecting", ![s].gen = sessionGen]
    /\ running' = running \ {rosterSession}
    /\ sessionVaultId' = start[s].vault
    /\ risked' = IF start[s].alone THEN risked
                 ELSE risked \cup {start[s].vault}
                             \cup {v \in Vault : merge.pc # "idle" /\ v = Head(merges).vault}
    /\ UNCHANGED <<keyVars, fileVars, rosterSession, sessionGen, mergeVars, ui, counters>>

\* ... startRosterSync resolves or fails.
StartEnd(s) ==
    /\ start[s].pc = "connecting"
    /\ start' = [start EXCEPT ![s] = NoStart]
    /\ \/ LET r == [vault |-> start[s].vault, gen |-> start[s].gen,
                    by |-> s, alone |-> start[s].alone] IN
          rosterSession' = r /\ running' = running \cup {r}
       \/ UNCHANGED <<rosterSession, running>>
    /\ UNCHANGED <<keyVars, fileVars, sessionVaultId, sessionGen, risked, mergeVars, ui, counters>>

-----------------------------------------------------------------------------
\* Merging (pushRemotePayload, applyRemotePayload, createEntriesBlobStore).

PushRemotePayload(r) ==
    /\ payloads < MaxMerges
    /\ payloads' = payloads + 1
    /\ merges' = Append(merges, r)
    /\ UNCHANGED <<keyVars, fileVars, sessionVars, startVars, merge, ui, ops, locks, faults>>

Merging(pc) == merges # <<>> /\ merge.pc = pc
File1 == live[Head(merges).vault]

\* Mutant: a waiting operation is not told that a merge is done.
MergeEndUncounted == merges' = Tail(merges) /\ merge' = NoMerge /\ UNCHANGED ui

\* A wait for applyInFlight counts the payloads it is behind.
MergeEnd ==
    /\ merges' = Tail(merges)
    /\ merge' = NoMerge
    /\ ui' = [ui EXCEPT !.await = IF @ = 0 THEN 0 ELSE @ - 1]

MergeGo(m) == merge' = m /\ UNCHANGED <<merges, ui>>

\* Its turn: dropped if its session is over; then the entries are read.
MergeTurn ==
    /\ Merging("idle")
    /\ IF Head(merges).gen = sessionGen /\ vek = File1.entries
       THEN MergeGo([merge EXCEPT !.pc = "slots"])
       ELSE MergeEnd
    /\ UNCHANGED <<keyVars, fileVars, sessionVars, startVars, counters>>

\* writeEntriesBlob: the file is read again, for its slots,
MergeRead ==
    /\ Merging("slots")
    /\ MergeGo([pc |-> "verify", slots |-> File1.slots, key |-> File1.entries])
    /\ UNCHANGED <<keyVars, fileVars, sessionVars, startVars, counters>>

\* ... its entries must open,
MergeVerify ==
    /\ Merging("verify")
    /\ IF vek = merge.key THEN MergeGo([merge EXCEPT !.pc = "seal"]) ELSE MergeEnd
    /\ UNCHANGED <<keyVars, fileVars, sessionVars, startVars, counters>>

\* ... the merged entries are sealed under whatever key is loaded,
MergeSeal ==
    /\ Merging("seal")
    /\ IF vek # 0 THEN MergeGo([merge EXCEPT !.pc = "write", !.key = vek]) ELSE MergeEnd
    /\ UNCHANGED <<keyVars, fileVars, sessionVars, startVars, counters>>

\* ... and written with the slots.
MergeWrite ==
    /\ Merging("write")
    /\ \E ok \in BOOLEAN :
          Write(Head(merges).vault, File(merge.slots, merge.key, File1.rev + 1), ok)
    /\ MergeEnd
    /\ UNCHANGED <<keyVars, sessionVars, startVars, ops, locks, payloads>>

MergeStep == MergeTurn \/ MergeRead \/ MergeVerify \/ MergeSeal \/ MergeWrite

-----------------------------------------------------------------------------
\* The screens.

BeginOp(op, pc, v) ==
    /\ ui.pc = "idle" /\ ops < MaxOps
    /\ ops' = ops + 1
    /\ ui' = [Idle EXCEPT !.op = op, !.pc = pc, !.vault = v]
    /\ UNCHANGED <<keyVars, fileVars, sessionVars, startVars, mergeVars, locks, payloads, faults>>

At(op, pc) == ui.op \in op /\ ui.pc = pc
Go(pc) == ui' = [ui EXCEPT !.pc = pc]

\* unlock, finishWebauthnUnlock; createVault; an edit, a new password, a new
\* key of the vault on the screen.
Unlock(v) == live[v] # None /\ vek = 0 /\ BeginOp("unlock", "retarget", v)
CreateVault(v) == live[v] = None /\ BeginOp("create", "retarget", v)
Opened == vek # 0 /\ live[active] # None
Edit == Opened /\ BeginOp("edit", "read", active)
ChangePassword == Opened /\ BeginOp("password", "read", active)
RotateSecret == Opened /\ active \in Rotates /\ BeginOp("rotate", "read", active)

\* retargetActiveVault: nothing to do for the session's own vault.
Retarget ==
    /\ At({"unlock", "create"}, "retarget")
    /\ IF sessionVaultId = ui.vault
       THEN Go("record") /\ UNCHANGED <<sessionVars, start>>
       ELSE StopRosterSync /\ ui' = [ui EXCEPT !.pc = "drain", !.await = Len(merges)]
    /\ UNCHANGED <<keyVars, fileVars, risked, mergeVars, counters>>

\* Mutant: merges are not waited for.
Drained == TRUE

\* The merges there were are done.
AwaitMerges == ui.await = 0

\* ... then the active vault is recorded.
Record ==
    /\ \/ At({"unlock", "create"}, "drain") /\ AwaitMerges
       \/ At({"unlock", "create"}, "record")
    /\ active' = ui.vault
    /\ Go(IF ui.op = "unlock" THEN "unwrap" ELSE "generate")
    /\ UNCHANGED <<vek, minted, fileVars, sessionVars, startVars, mergeVars, counters>>

\* The key comes out of a slot; sync is told.
Unwrap ==
    /\ At({"unlock"}, "unwrap")
    /\ \/ vek' = live[ui.vault].slots /\ MaybeStart
       \/ UNCHANGED <<vek, start>>
    /\ ui' = Idle
    /\ UNCHANGED <<minted, active, fileVars, sessionVars, risked, mergeVars, counters>>

\* A new vault's key replaces the one loaded.
GenerateVek ==
    /\ At({"create"}, "generate")
    /\ vek' = ui.vault
    /\ MaybeStart
    /\ Go("wrap")
    /\ UNCHANGED <<minted, active, fileVars, sessionVars, risked, mergeVars, counters>>

\* Slots are made, then entries sealed, then both written; any of them fails
\* if the key has gone.
Wrap ==
    /\ At({"create"}, "wrap")
    /\ IF vek = 0 THEN ui' = Idle
       ELSE ui' = [ui EXCEPT !.pc = "seal", !.file = File(vek, 0, 0)]
    /\ UNCHANGED <<keyVars, fileVars, sessionVars, startVars, mergeVars, counters>>

\* The file is read for what the operation keeps of it.
Read ==
    /\ At({"edit", "password", "rotate"}, "read")
    /\ ui' = [ui EXCEPT !.file = live[ui.vault],
                        !.pc = CASE ui.op = "edit" -> "seal"
                                 [] ui.op = "password" -> "rewrap"
                                 [] OTHER -> "rotate"]
    /\ UNCHANGED <<keyVars, fileVars, sessionVars, startVars, mergeVars, counters>>

\* wrapPasswordSlot around the loaded key.
Rewrap ==
    /\ At({"password"}, "rewrap")
    /\ IF vek = 0 THEN ui' = Idle
       ELSE ui' = [ui EXCEPT !.pc = "write", !.file.slots = vek]
    /\ UNCHANGED <<keyVars, fileVars, sessionVars, startVars, mergeVars, counters>>

\* rotateVek: refused, with nothing changed, if the app was locked.
RotateVek ==
    /\ At({"rotate"}, "rotate")
    /\ IF vek = 0 THEN ui' = Idle /\ UNCHANGED <<vek, minted>>
       ELSE Go("seal") /\ vek' = minted + 1 /\ minted' = minted + 1
    /\ UNCHANGED <<active, fileVars, sessionVars, startVars, mergeVars, counters>>

\* Entries are sealed under the loaded key; a rotation also wraps it.
Seal ==
    /\ At({"create", "edit", "rotate"}, "seal")
    /\ IF vek = 0 THEN IF ui.op = "rotate" THEN Go("restore") ELSE ui' = Idle
       ELSE ui' = [ui EXCEPT !.pc = "write", !.file.entries = vek,
                             !.file.slots = IF ui.op = "rotate" THEN vek ELSE @]
    /\ UNCHANGED <<keyVars, fileVars, sessionVars, startVars, mergeVars, counters>>

\* ... and written; a new password and a new key are verified.
UiWrite ==
    /\ At({"create", "edit", "password", "rotate"}, "write")
    /\ \E ok \in BOOLEAN :
       /\ Write(ui.vault, [ui.file EXCEPT !.rev = @ + 1], ok)
       /\ IF ui.op = "rotate"
          THEN Go(IF ok THEN "verify" ELSE "restore")
          ELSE IF ui.op = "password" /\ ok THEN Go("verify") ELSE ui' = Idle
    /\ UNCHANGED <<keyVars, sessionVars, startVars, mergeVars, ops, locks, payloads>>

\* The password's verifier is tried and, after a rotation, the entries.
Verify ==
    /\ At({"password", "rotate"}, "verify")
    /\ IF ui.op = "rotate" /\ vek # live[ui.vault].entries THEN Go("restore") ELSE ui' = Idle
    /\ UNCHANGED <<keyVars, fileVars, sessionVars, startVars, mergeVars, counters>>

\* ... or cannot be read back: the snapshot is put back.
VerifyFails ==
    /\ At({"password", "rotate"}, "verify")
    /\ Fault
    /\ IF ui.op = "rotate" THEN Go("restore") /\ UNCHANGED fileVars
       ELSE Restore(ui.vault) /\ ui' = Idle
    /\ UNCHANGED <<keyVars, sessionVars, startVars, mergeVars, ops, locks, payloads>>

\* A rotation that failed: the snapshot is put back, the vault locked.
RestoreAndLock ==
    /\ At({"rotate"}, "restore")
    /\ Restore(ui.vault)
    /\ vek' = 0
    /\ StopRosterSync
    /\ ui' = Idle
    /\ UNCHANGED <<minted, active, risked, mergeVars, counters>>

\* Lock, from the screen.
Lock ==
    /\ ui.pc = "idle" /\ vek # 0
    /\ vek' = 0
    /\ StopRosterSync
    /\ UNCHANGED <<minted, active, fileVars, risked, mergeVars, ui, counters>>

\* Mutant: sync is not told of the lock.
LockForLifecycleSilent ==
    /\ locks < MaxLocks /\ vek # 0
    /\ locks' = locks + 1
    /\ vek' = 0
    /\ UNCHANGED <<minted, active, fileVars, sessionVars, startVars, mergeVars, ui, ops, payloads, faults>>

\* lockForLifecycle: the app went to the background, whatever is under way.
LockForLifecycle ==
    /\ locks < MaxLocks /\ vek # 0
    /\ locks' = locks + 1
    /\ vek' = 0
    /\ StopRosterSync
    /\ UNCHANGED <<minted, active, fileVars, risked, mergeVars, ui, ops, payloads, faults>>

-----------------------------------------------------------------------------
UiStep ==
    \/ Retarget \/ Record \/ Unwrap \/ GenerateVek \/ Wrap \/ Read \/ Rewrap
    \/ RotateVek \/ Seal \/ UiWrite \/ Verify \/ VerifyFails \/ RestoreAndLock

StartStep(s) == StartRead(s) \/ StartPin(s) \/ StartEnd(s)

Next ==
    \/ \E v \in Vault : Unlock(v) \/ CreateVault(v)
    \/ Edit \/ ChangePassword \/ RotateSecret \/ UiStep \/ Lock \/ LockForLifecycle
    \/ \E s \in Start : StartStep(s)
    \/ \E r \in running : PushRemotePayload(r)
    \/ MergeStep

Spec == Init /\ [][Next]_vars

\* Promises settle: of the screens, of a start, of a merge.
Fairness ==
    /\ WF_vars(UiStep) /\ WF_vars(MergeStep)
    /\ \A s \in Start : WF_vars(StartStep(s))

FairSpec == Spec /\ Fairness

-----------------------------------------------------------------------------
TypeOK ==
    /\ vek \in Key /\ minted \in Nat /\ active \in Vault \cup {None}
    /\ live \in [Vault -> FileType \cup {None}] /\ bak \in [Vault -> FileType \cup {None}]
    /\ rosterSession \in Session \cup {None} /\ sessionVaultId \in Vault \cup {None}
    /\ sessionGen \in Nat /\ running \in SUBSET Session
    /\ start \in [Start -> StartType] /\ risked \in SUBSET Vault
    /\ merges \in Seq(Session) /\ merge \in MergeType
    /\ ui \in UiType

\* A merge never leaves slots and entries under different keys, which no
\* password or recovery code opens (issue #27): whatever locks, switches of
\* vault, new vaults and failing writes come between its steps.  Only a session
\* that was still starting while the app was locked or left, and is pinned
\* after that, puts files at risk: its vault's, and that of a merge under way.
SlotsOpenEntries ==
    \A v \in Vault \ risked : \A f \in {live[v], bak[v]} \ {None} : f.slots = f.entries

\* Sync runs for the vault whose key is loaded and for no other: a session of
\* a vault that was left, or of a locked app, has been stopped, unless that
\* happened before it had started.
SessionIsOfLoadedVault ==
    \A r \in running : r.alone => vek # 0 /\ vek = live[r.vault].slots

\* Recording another vault waits for the merges there are, but never for
\* ever: every operation of the screens comes to an end.
OperationsEnd == ui.pc # "idle" ~> ui.pc = "idle"

\* When nothing is under way, every vault's file opens: no operation of the
\* user and no merge has left it with slots of another key than its entries.
RestingVaultsOpen ==
    ui.pc = "idle" /\ merges = <<>> =>
        \A v \in Vault : live[v] # None => live[v].slots = live[v].entries
================================================================================
