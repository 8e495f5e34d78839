--------------------------- MODULE VaultHost_proofs ---------------------------
(***************************************************************************)
(* Theorems about VaultHost, for any vaults, sessions and bounds: a merge   *)
(* leaves slots and entries of a file under one key, and a session runs     *)
(* only for the vault whose key is loaded.                                  *)
(*                                                                          *)
(* HostInv says why.  A payload whose session is not over, of a vault not   *)
(* at risk, comes from the session that the app owns, and while it owns     *)
(* one no other starts, no vault is being left and a key is loaded          *)
(* (SessionInv).  A merge that has passed the check of its session is for   *)
(* the active vault until it ends, as leaving that vault waits for it       *)
(* (MergeInv).  The key loaded is the active vault's (VekInv), so what a    *)
(* merge seals under is the key it verified; and what a screen holds        *)
(* between two steps fits the file (UiInv), as only the screens replace     *)
(* keys, and merges of the same vault do not.                               *)
(***************************************************************************)
EXTENDS VaultHost, TLAPS

\* The user replaces no key of a vault that syncs.
SyncedKeysStay == Rotates \cap Enrolled = {}

\* Between the end of the old vault's session and the new vault's key.
Leaving == ui.pc \in {"drain", "record", "unwrap", "generate"}

\* Payloads of this session are merged, and its vault is not at risk.
Current(vault, gen) == gen = sessionGen /\ vault \notin risked

\* The session that the app has, of the active vault, which is unlocked; no
\* other is starting.
Owned(r) ==
    /\ r = rosterSession /\ r.vault = active /\ sessionVaultId = active
    /\ vek # 0 /\ ~Leaving
    /\ \A s \in Start : start[s].pc = "idle"

\* A start that nothing has disturbed is the only one, for the active vault,
\* which is unlocked and has no session.
Alone(s) ==
    /\ \A t \in Start : start[t].pc # "idle" <=> t = s
    /\ rosterSession = None /\ vek # 0 /\ ~Leaving
    /\ start[s].pc # "reading" => start[s].vault = active
    /\ start[s].pc = "connecting" => start[s].gen = sessionGen /\ sessionVaultId = active

SessionInv ==
    /\ sessionVaultId \in Enrolled \cup {None} /\ risked \subseteq Enrolled
    /\ \A s \in Start :
          /\ start[s].pc \in {"pinning", "connecting"} => start[s].vault \in Enrolled
          /\ start[s].alone => Alone(s)
          /\ start[s].pc = "connecting" =>
                /\ start[s].gen <= sessionGen
                /\ Current(start[s].vault, start[s].gen) => start[s].alone
    /\ \A r \in running :
          /\ r.vault \in Enrolled /\ r.gen <= sessionGen
          /\ r.alone \/ Current(r.vault, r.gen) => Owned(r)

\* A payload is for a vault that syncs; the one being merged is for the active
\* vault, and whoever leaves that vault waits for it.
MergeInv ==
    /\ \A i \in 1..Len(merges) :
          /\ merges[i].vault \in Enrolled /\ merges[i].gen <= sessionGen
          /\ Current(merges[i].vault, merges[i].gen) => Owned(merges[i])
    /\ merges = <<>> => merge.pc = "idle"
    /\ merge.pc \in {"verify", "seal", "write"} => merge.slots = Head(merges).vault
    /\ merge.pc # "idle" /\ Head(merges).vault \notin risked =>
          /\ Head(merges).vault = active
          /\ vek = 0 => sessionVaultId \in {None, active}
          /\ ui.pc = "drain" => ui.await # 0
          /\ ui.pc = "record" => ui.vault = active
          /\ ui.pc # "generate"
          /\ merge.pc = "write" => merge.key = active

\* A file has one key, its vault's first unless that is ever replaced.
GoodFile(v, f) == f # None =>
    /\ f.slots # 0
    /\ v \notin Rotates => f.slots = v
    /\ v \notin risked => f.slots = f.entries

FileInv ==
    /\ \A v \in Vault : GoodFile(v, live[v]) /\ GoodFile(v, bak[v])
    /\ \A v \in Existing : live[v] # None

\* What a screen holds between its steps.
UiInv ==
    /\ ui.op = "none" <=> ui.pc = "idle"
    /\ ui.op # "none" => ui.vault \in Vault
    /\ ui.op = "unlock" =>
          /\ ui.pc \in {"retarget", "drain", "record", "unwrap"}
          /\ vek = 0 /\ live[ui.vault] # None
          /\ ui.pc = "unwrap" => active = ui.vault
    /\ ui.op = "create" =>
          /\ ui.pc \in {"retarget", "drain", "generate", "wrap", "seal", "write"}
          /\ live[ui.vault] = None
          /\ ui.pc \in {"generate", "wrap", "seal", "write"} => active = ui.vault
          /\ ui.pc \in {"wrap", "seal", "write"} => vek \in {0, ui.vault}
          /\ ui.pc \in {"seal", "write"} => ui.file # None /\ ui.file.slots = ui.vault
          /\ ui.pc = "write" => ui.file.entries = ui.vault
    /\ ui.op \in {"edit", "password", "rotate"} =>
          /\ ui.pc \in {"read", "seal", "rewrap", "rotate", "write", "verify", "restore"}
          /\ ui.vault = active /\ live[active] # None
    /\ ui.op \in {"edit", "password"} =>
          /\ ui.pc \in {"read", "seal", "rewrap", "write", "verify"}
          /\ ui.pc \in {"seal", "rewrap", "write"} =>
                GoodFile(active, ui.file) /\ ui.file # None /\ ui.file.slots = live[active].slots
          /\ ui.pc = "verify" /\ bak[active] # None => bak[active].slots = live[active].slots
    /\ ui.op = "edit" => ui.pc \in {"read", "seal", "write"}
    /\ ui.op = "rotate" =>
          /\ active \in Rotates
          /\ ui.pc \in {"rotate", "seal", "write"} => ui.file # None
          /\ ui.pc = "write" => ui.file.slots = ui.file.entries /\ ui.file.slots # 0

Rotating == ui.op = "rotate" /\ ui.pc \in {"seal", "write", "verify", "restore"}

\* The key loaded is that of the active vault.
VekInv ==
    vek # 0 /\ ui.pc # "generate" =>
        /\ active \in Vault
        /\ active \notin Rotates => vek = active
        /\ live[active] # None /\ ~Rotating => vek = live[active].slots

HostInv == SessionInv /\ MergeInv /\ FileInv /\ UiInv /\ VekInv

-----------------------------------------------------------------------------
(* Sessions are as good as they were while neither the vault nor its key goes. *)
LEMMA SessionKeeps ==
    ASSUME SessionInv, UNCHANGED <<active, sessionVars, startVars>>,
           vek # 0 => vek' # 0, Leaving' => Leaving
    PROVE  /\ SessionInv'
           /\ \A r : Owned(r) => Owned(r)'
           /\ \A v, g : Current(v, g)' <=> Current(v, g)
<1>1. UNCHANGED <<rosterSession, sessionVaultId, sessionGen, running, start, risked, active>>
  BY DEF sessionVars, startVars
<1>2. \A v, g : Current(v, g)' <=> Current(v, g)
  BY <1>1 DEF Current
<1>3. \A r : Owned(r) => Owned(r)'
  BY <1>1 DEF Owned
<1>4. \A s : Alone(s) => Alone(s)'
  BY <1>1 DEF Alone
<1>5. SessionInv'
  BY <1>1, <1>2, <1>3, <1>4 DEF SessionInv
<1>6. QED
  BY <1>2, <1>3, <1>5

(* What a step of the screens needs that touches nothing but their state. *)
LEMMA UiOnly ==
    ASSUME TypeOK, HostInv, ui' \in UiType, UiInv',
           UNCHANGED <<keyVars, fileVars, sessionVars, startVars, mergeVars>>,
           ~Leaving', ui.pc # "generate",
           vek # 0 /\ live[active] # None /\ ~Rotating' => vek = live[active].slots
    PROVE  TypeOK' /\ HostInv'
<1>1. TypeOK'
  BY DEF TypeOK, keyVars, fileVars, sessionVars, startVars, mergeVars
<1>2. /\ SessionInv'
      /\ \A r : Owned(r) => Owned(r)'
      /\ \A v, g : Current(v, g)' <=> Current(v, g)
  BY SessionKeeps DEF HostInv, keyVars
<1>3. MergeInv'
  BY <1>2 DEF HostInv, MergeInv, Leaving, keyVars, sessionVars, startVars, mergeVars
<1>4. FileInv'
  BY DEF HostInv, FileInv, GoodFile, fileVars, startVars
<1>5. VekInv'
  BY DEF HostInv, VekInv, Leaving, keyVars, fileVars
<1>6. QED
  BY <1>1, <1>2, <1>3, <1>4, <1>5 DEF HostInv

LEMMA IdleFields ==
    /\ Idle \in UiType
    /\ Idle.op = "none" /\ Idle.pc = "idle"
BY VaultAssumption DEF Idle, UiType

(* Back at rest the screens hold nothing. *)
LEMMA RestKeeps ==
    ASSUME TypeOK, HostInv, ui' = Idle, ui.pc # "generate",
           UNCHANGED <<keyVars, fileVars, sessionVars, startVars, mergeVars>>,
           vek # 0 /\ live[active] # None => vek = live[active].slots
    PROVE  TypeOK' /\ HostInv'
<1>1. ui' \in UiType /\ ui'.op = "none" /\ ui'.pc = "idle" /\ ~Leaving'
  BY IdleFields DEF Leaving
<1>2. UiInv'
  BY <1>1 DEF UiInv
<1>3. QED
  BY <1>1, <1>2, UiOnly

(* The key loaded opens the active vault's file. *)
LEMMA VekOpens ==
    ASSUME HostInv, vek # 0, ui.pc # "generate", live[active] # None, ~Rotating
    PROVE  active \in Vault /\ vek = live[active].slots
BY DEF HostInv, VekInv

-----------------------------------------------------------------------------
(* The screens: operations begin. *)
LEMMA BeginFields ==
    ASSUME NEW op \in {"unlock", "create", "edit", "password", "rotate"},
           NEW pc \in {"retarget", "read"}, NEW v \in Vault, BeginOp(op, pc, v)
    PROVE  /\ ui' \in UiType /\ ui'.op = op /\ ui'.pc = pc /\ ui'.vault = v
           /\ ui.pc = "idle"
           /\ UNCHANGED <<keyVars, fileVars, sessionVars, startVars, mergeVars>>
BY DEF BeginOp, Idle, UiType

LEMMA UnlockKeeps ==
    ASSUME TypeOK, HostInv, NEW v \in Vault, Unlock(v)
    PROVE  TypeOK' /\ HostInv'
<1>1. /\ ui' \in UiType /\ ui'.op = "unlock" /\ ui'.pc = "retarget" /\ ui'.vault = v
      /\ ui.pc = "idle"
      /\ UNCHANGED <<keyVars, fileVars, sessionVars, startVars, mergeVars>>
  BY BeginFields DEF Unlock
<1>2. vek = 0 /\ live[v] # None
  BY DEF Unlock
<1>3. UiInv'
  BY <1>1, <1>2 DEF UiInv, keyVars, fileVars
<1>4. QED
  BY <1>1, <1>2, <1>3, UiOnly DEF Leaving

LEMMA CreateVaultKeeps ==
    ASSUME TypeOK, HostInv, NEW v \in Vault, CreateVault(v)
    PROVE  TypeOK' /\ HostInv'
<1>1. /\ ui' \in UiType /\ ui'.op = "create" /\ ui'.pc = "retarget" /\ ui'.vault = v
      /\ ui.pc = "idle"
      /\ UNCHANGED <<keyVars, fileVars, sessionVars, startVars, mergeVars>>
  BY BeginFields DEF CreateVault
<1>2. live[v] = None
  BY DEF CreateVault
<1>3. UiInv'
  BY <1>1, <1>2 DEF UiInv, keyVars, fileVars
<1>4. vek # 0 /\ live[active] # None => vek = live[active].slots
  BY <1>1, VekOpens DEF HostInv, UiInv, Rotating
<1>5. QED
  BY <1>1, <1>3, <1>4, UiOnly DEF Leaving

LEMMA EditKeeps ==
    ASSUME TypeOK, HostInv, Edit \/ ChangePassword \/ RotateSecret
    PROVE  TypeOK' /\ HostInv'
<1>1. /\ vek # 0 /\ live[active] # None /\ ui.pc = "idle"
  BY DEF Edit, ChangePassword, RotateSecret, Opened, BeginOp
<1>2. active \in Vault /\ vek = live[active].slots
  BY <1>1, VekOpens DEF HostInv, UiInv, Rotating
<1>3. PICK op \in {"edit", "password", "rotate"} :
        BeginOp(op, "read", active) /\ (op = "rotate" => active \in Rotates)
  BY DEF Edit, ChangePassword, RotateSecret
<1>4. /\ ui' \in UiType /\ ui'.op = op /\ ui'.pc = "read" /\ ui'.vault = active
      /\ UNCHANGED <<keyVars, fileVars, sessionVars, startVars, mergeVars>>
  BY <1>2, <1>3, BeginFields
<1>5. UiInv'
  BY <1>1, <1>2, <1>3, <1>4 DEF UiInv, keyVars, fileVars
<1>6. QED
  BY <1>1, <1>2, <1>4, <1>5, UiOnly DEF Leaving

-----------------------------------------------------------------------------
(* The screens: a vault is unlocked or created. *)
(* stopRosterSync ends the session there is, and what is queued for it; no
   start is undisturbed after it. *)
LEMMA StopKeeps ==
    ASSUME TypeOK, SessionInv, StopRosterSync, UNCHANGED risked
    PROVE  /\ SessionInv' /\ sessionVaultId' = None
           /\ rosterSession' \in Session \cup {None} /\ sessionVaultId' \in Vault \cup {None}
           /\ sessionGen' \in Nat /\ running' \in SUBSET Session
           /\ start' \in [Start -> StartType]
           /\ \A v : \A g \in Nat : g <= sessionGen => g <= sessionGen' /\ ~Current(v, g)'
<1>1. /\ running' = running \ {rosterSession} /\ rosterSession' = None
      /\ sessionVaultId' = None /\ sessionGen' = sessionGen + 1 /\ start' = Disturbed
  BY DEF StopRosterSync
<1>2. start \in [Start -> StartType] /\ sessionGen \in Nat /\ running \in SUBSET Session
  BY DEF TypeOK
<1>3. \A s \in Start : /\ start'[s] \in StartType /\ ~start'[s].alone
                        /\ start'[s].pc = start[s].pc /\ start'[s].vault = start[s].vault
                        /\ start'[s].gen = start[s].gen
  BY <1>1, <1>2 DEF Disturbed, StartType
<1>4. start' \in [Start -> StartType]
  BY <1>1, <1>3 DEF Disturbed
<1>5. \A v : \A g \in Nat : g <= sessionGen => g <= sessionGen' /\ ~Current(v, g)'
  BY <1>1, <1>2 DEF Current
<1>6. \A r \in running' : /\ r \in running /\ r # rosterSession /\ r.gen \in Nat
                           /\ r.vault \in Enrolled /\ r.gen <= sessionGen /\ ~r.alone
  BY <1>1, <1>2 DEF SessionInv, Owned, Session
<1>7. \A s \in Start : start[s].gen \in Nat
  BY <1>2 DEF StartType
<1>8. SessionInv'
  BY <1>1, <1>3, <1>5, <1>6, <1>7 DEF SessionInv
<1>9. QED
  BY <1>1, <1>2, <1>4, <1>5, <1>8

LEMMA QueueTypes ==
    ASSUME TypeOK, NEW i \in 1..Len(merges)
    PROVE  merges[i] \in Session /\ merges[i].gen \in Nat
<1>1. merges \in Seq(Session)
  BY DEF TypeOK
<1>2. merges[i] \in Session
  BY <1>1
<1>3. QED
  BY <1>2 DEF Session

LEMMA RetargetKeeps ==
    ASSUME TypeOK, HostInv, Retarget
    PROVE  TypeOK' /\ HostInv'
<1>1. /\ ui.op \in {"unlock", "create"} /\ ui.pc = "retarget" /\ ui.vault \in Vault
      /\ UNCHANGED <<keyVars, fileVars, risked, mergeVars>>
      /\ ui \in UiType /\ Len(merges) \in Nat
  BY DEF Retarget, At, HostInv, UiInv, TypeOK
<1>2. CASE sessionVaultId = ui.vault
  <2>1. /\ UNCHANGED <<sessionVars, start>>
        /\ ui' \in UiType /\ ui'.pc = "record" /\ ui'.op = ui.op /\ ui'.vault = ui.vault
    BY <1>1, <1>2 DEF Retarget, Go, UiType
  <2>2. ui.op = "unlock" /\ vek = 0 /\ live[ui.vault] # None
    BY <1>1, <1>2, VaultAssumption DEF HostInv, UiInv, SessionInv, FileInv
  <2>3. TypeOK'
    BY <1>1, <2>1 DEF TypeOK, keyVars, fileVars, sessionVars, mergeVars
  <2>4. SessionInv'
    BY <1>1, <2>1, <2>2 DEF HostInv, SessionInv, Owned, Alone, Current, keyVars, sessionVars
  <2>5. \A r : ~Owned(r)
    BY <2>2 DEF Owned
  <2>6. MergeInv'
    BY <1>1, <1>2, <2>1, <2>2, <2>5, VaultAssumption
       DEF HostInv, MergeInv, Current, keyVars, sessionVars, mergeVars
  <2>7. UiInv' /\ VekInv' /\ FileInv'
    BY <1>1, <2>1, <2>2 DEF HostInv, UiInv, VekInv, FileInv, GoodFile, keyVars, fileVars
  <2>8. QED
    BY <2>3, <2>4, <2>6, <2>7 DEF HostInv
<1>3. CASE sessionVaultId # ui.vault
  <2>1. StopRosterSync /\ ui' = [ui EXCEPT !.pc = "drain", !.await = Len(merges)]
    BY <1>3 DEF Retarget
  <2>2. /\ ui' \in UiType /\ ui'.pc = "drain" /\ ui'.await = Len(merges)
        /\ ui'.op = ui.op /\ ui'.vault = ui.vault
    BY <1>1, <2>1 DEF UiType
  <2>3. /\ SessionInv' /\ sessionVaultId' = None
        /\ rosterSession' \in Session \cup {None} /\ sessionVaultId' \in Vault \cup {None}
        /\ sessionGen' \in Nat /\ running' \in SUBSET Session
        /\ start' \in [Start -> StartType]
        /\ \A v : \A g \in Nat : g <= sessionGen => g <= sessionGen' /\ ~Current(v, g)'
    BY <1>1, <2>1, StopKeeps DEF HostInv
  <2>4. TypeOK'
    BY <1>1, <2>2, <2>3 DEF TypeOK, keyVars, fileVars, mergeVars
  <2>5. MergeInv'
    <3>1. \A i \in 1..Len(merges) : merges[i].gen \in Nat
      BY QueueTypes
    <3>2. merge.pc # "idle" => Len(merges) # 0
      BY DEF HostInv, MergeInv, TypeOK
    <3>3. QED
      BY <1>1, <2>2, <2>3, <3>1, <3>2 DEF HostInv, MergeInv, keyVars, mergeVars
  <2>6. FileInv' /\ VekInv' /\ UiInv'
    BY <1>1, <2>2 DEF HostInv, FileInv, VekInv, UiInv, GoodFile, Rotating, keyVars, fileVars
  <2>7. QED
    BY <2>3, <2>4, <2>5, <2>6 DEF HostInv
<1>4. QED
  BY <1>2, <1>3

LEMMA RecordKeeps ==
    ASSUME TypeOK, HostInv, Record
    PROVE  TypeOK' /\ HostInv'
<1>1. /\ ui.op \in {"unlock", "create"} /\ active' = ui.vault /\ ui.vault \in Vault
      /\ (ui.pc = "drain" /\ ui.await = 0) \/ ui.pc = "record"
      /\ UNCHANGED <<vek, minted, fileVars, sessionVars, startVars, mergeVars>>
  BY DEF Record, At, AwaitMerges, HostInv, UiInv, TypeOK
<1>2. /\ ui' \in UiType /\ ui'.op = ui.op /\ ui'.vault = ui.vault
      /\ ui'.pc = IF ui.op = "unlock" THEN "unwrap" ELSE "generate"
  BY DEF Record, Go, TypeOK, UiType
<1>3. Leaving
  BY <1>1 DEF Leaving
<1>4. TypeOK'
  BY <1>1, <1>2 DEF TypeOK, fileVars, sessionVars, startVars, mergeVars
<1>5. SessionInv'
  BY <1>1, <1>3 DEF HostInv, SessionInv, Owned, Alone, Current, sessionVars, startVars
<1>6. MergeInv'
  <2>1. merge.pc # "idle" /\ Head(merges).vault \notin risked =>
           ui.pc = "record" /\ ui.vault = active /\ ui.op = "unlock"
    BY <1>1 DEF HostInv, MergeInv, UiInv
  <2>2. QED
    BY <1>1, <1>2, <1>3, <2>1
       DEF HostInv, MergeInv, Owned, Current, sessionVars, startVars, mergeVars
<1>7. FileInv'
  BY <1>1 DEF HostInv, FileInv, GoodFile, fileVars, startVars
<1>8. UiInv'
  BY <1>1, <1>2 DEF HostInv, UiInv, fileVars
<1>9. VekInv'
  BY <1>1, <1>2 DEF HostInv, VekInv, UiInv
<1>10. QED
  BY <1>4, <1>5, <1>6, <1>7, <1>8, <1>9 DEF HostInv

(* A start: undisturbed if it is the only one. *)
LEMMA MaybeStartKeeps ==
    ASSUME TypeOK, SessionInv, MaybeStart, Leaving, ~Leaving', vek' # 0,
           UNCHANGED <<active, sessionVars, risked>>
    PROVE  start' \in [Start -> StartType] /\ SessionInv'
<1>1. /\ \A r : ~Owned(r)
      /\ \A s \in Start : ~start[s].alone
      /\ UNCHANGED <<rosterSession, sessionVaultId, sessionGen, running>>
  BY DEF Owned, SessionInv, Alone, sessionVars
<1>2. start \in [Start -> StartType]
  BY DEF TypeOK
<1>3. CASE UNCHANGED start
  BY <1>1, <1>2, <1>3 DEF SessionInv, Current
<1>4. CASE rosterSession = None /\ ~UNCHANGED start
  <2>1. PICK s \in Start :
          /\ start[s].pc = "idle"
          /\ start' = [Disturbed EXCEPT ![s] = [NoStart EXCEPT !.pc = "reading", !.alone = ~Starting]]
    BY <1>4 DEF MaybeStart
  <2>2. Disturbed \in [Start -> StartType]
    BY <1>2 DEF Disturbed, StartType
  <2> DEFINE new == [NoStart EXCEPT !.pc = "reading", !.alone = ~Starting]
  <2>3. new \in StartType /\ new.pc = "reading" /\ new.alone = ~Starting
    BY DEF NoStart, StartType, Starting
  <2> HIDE DEF new
  <2>4. start' = [Disturbed EXCEPT ![s] = new]
    BY <2>1 DEF new
  <2>5. start' \in [Start -> StartType] /\ start'[s] = new
    BY <2>2, <2>3, <2>4
  <2>6. \A u \in Start : u # s =>
          /\ start'[u].pc = start[u].pc /\ start'[u].vault = start[u].vault
          /\ start'[u].gen = start[u].gen /\ ~start'[u].alone
    BY <1>2, <2>2, <2>4 DEF Disturbed, StartType
  <2>7. start'[s].alone => Alone(s)'
    BY <1>1, <1>4, <2>3, <2>5, <2>6 DEF Alone, Starting
  <2>8. SessionInv'
    BY <1>1, <2>3, <2>5, <2>6, <2>7 DEF SessionInv, Current
  <2>9. QED
    BY <2>5, <2>8
<1>5. QED
  BY <1>3, <1>4 DEF MaybeStart

LEMMA UnwrapKeeps ==
    ASSUME TypeOK, HostInv, Unwrap
    PROVE  TypeOK' /\ HostInv'
<1>1. /\ ui.op = "unlock" /\ ui.pc = "unwrap" /\ ui' = Idle
      /\ UNCHANGED <<minted, active, fileVars, sessionVars, risked, mergeVars>>
  BY DEF Unwrap, At
<1>2. /\ vek = 0 /\ active = ui.vault /\ ui.vault \in Vault /\ live[active] # None
  BY <1>1 DEF HostInv, UiInv
<1>3. CASE UNCHANGED <<vek, start>>
  BY <1>1, <1>2, <1>3, RestKeeps DEF keyVars, startVars
<1>4. CASE vek' = live[ui.vault].slots /\ MaybeStart
  <2>1. ui' \in UiType /\ ui'.op = "none" /\ ui'.pc = "idle"
    BY <1>1, IdleFields
  <2>2. live[active] \in FileType /\ GoodFile(active, live[active])
    BY <1>2 DEF TypeOK, HostInv, FileInv
  <2>3. vek' \in Key /\ vek' # 0
    BY <1>2, <1>4, <2>2 DEF FileType, GoodFile
  <2>4. start' \in [Start -> StartType] /\ SessionInv'
    BY <1>1, <1>4, <2>1, <2>3, MaybeStartKeeps DEF HostInv, Leaving
  <2>5. TypeOK'
    BY <1>1, <2>1, <2>3, <2>4 DEF TypeOK, fileVars, sessionVars, mergeVars
  <2>6. \A r : ~Owned(r)
    BY <1>2 DEF Owned
  <2>7. MergeInv'
    BY <1>1, <2>1, <2>3, <2>6 DEF HostInv, MergeInv, Current, sessionVars, mergeVars
  <2>8. FileInv'
    BY <1>1 DEF HostInv, FileInv, GoodFile, fileVars
  <2>9. UiInv'
    BY <2>1 DEF UiInv
  <2>10. VekInv'
    BY <1>1, <1>2, <1>4, <2>2 DEF VekInv, GoodFile, fileVars
  <2>11. QED
    BY <2>4, <2>5, <2>7, <2>8, <2>9, <2>10 DEF HostInv
<1>5. QED
  BY <1>3, <1>4 DEF Unwrap

LEMMA GenerateVekKeeps ==
    ASSUME TypeOK, HostInv, GenerateVek
    PROVE  TypeOK' /\ HostInv'
<1>1. /\ ui.op = "create" /\ ui.pc = "generate" /\ vek' = ui.vault /\ MaybeStart
      /\ UNCHANGED <<minted, active, fileVars, sessionVars, risked, mergeVars>>
  BY DEF GenerateVek, At
<1>2. /\ active = ui.vault /\ ui.vault \in Vault /\ live[ui.vault] = None
  BY <1>1 DEF HostInv, UiInv
<1>3. vek' # 0 /\ vek' \in Key
  BY <1>1, <1>2, KeyAssumption DEF Key
<1>4. ui' \in UiType /\ ui'.op = "create" /\ ui'.pc = "wrap" /\ ui'.vault = ui.vault
  BY <1>1 DEF GenerateVek, Go, TypeOK, UiType
<1>5. start' \in [Start -> StartType] /\ SessionInv'
  BY <1>1, <1>3, <1>4, MaybeStartKeeps DEF HostInv, Leaving
<1>6. TypeOK'
  BY <1>1, <1>3, <1>4, <1>5 DEF TypeOK, fileVars, sessionVars, mergeVars
<1>7. \A r : ~Owned(r)
  BY <1>1 DEF Owned, Leaving
<1>8. MergeInv'
  BY <1>1, <1>4, <1>7 DEF HostInv, MergeInv, Current, sessionVars, mergeVars
<1>9. FileInv'
  BY <1>1 DEF HostInv, FileInv, GoodFile, fileVars
<1>10. UiInv'
  BY <1>1, <1>2, <1>4 DEF UiInv, fileVars
<1>11. VekInv'
  BY <1>1, <1>2 DEF VekInv, fileVars
<1>12. QED
  BY <1>5, <1>6, <1>8, <1>9, <1>10, <1>11 DEF HostInv

LEMMA WrapKeeps ==
    ASSUME TypeOK, HostInv, Wrap
    PROVE  TypeOK' /\ HostInv'
<1>1. /\ ui.op = "create" /\ ui.pc = "wrap"
      /\ UNCHANGED <<keyVars, fileVars, sessionVars, startVars, mergeVars>>
  BY DEF Wrap, At
<1>2. /\ vek \in {0, ui.vault} /\ active = ui.vault /\ ui.vault \in Vault
      /\ live[ui.vault] = None
  BY <1>1 DEF HostInv, UiInv
<1>3. CASE vek = 0
  BY <1>1, <1>3, RestKeeps DEF Wrap
<1>4. CASE vek # 0
  <2>1. ui' = [ui EXCEPT !.pc = "seal", !.file = File(vek, 0, 0)]
    BY <1>4 DEF Wrap
  <2>2. File(vek, 0, 0) \in FileType /\ File(vek, 0, 0).slots = vek
    BY DEF File, FileType, Key, TypeOK
  <2>3. /\ ui' \in UiType /\ ui'.op = "create" /\ ui'.pc = "seal" /\ ui'.vault = ui.vault
        /\ ui'.file = File(vek, 0, 0)
    BY <1>1, <2>1, <2>2 DEF TypeOK, UiType
  <2>4. UiInv'
    BY <1>1, <1>2, <1>4, <2>2, <2>3, NoneAssumption DEF UiInv, keyVars, fileVars
  <2>5. QED
    BY <1>1, <1>2, <2>3, <2>4, UiOnly DEF Leaving
<1>5. QED
  BY <1>3, <1>4

-----------------------------------------------------------------------------
(* The screens: a vault's file is rewritten. *)
LEMMA ReadKeeps ==
    ASSUME TypeOK, HostInv, Read
    PROVE  TypeOK' /\ HostInv'
<1>1. /\ ui.op \in {"edit", "password", "rotate"} /\ ui.pc = "read"
      /\ UNCHANGED <<keyVars, fileVars, sessionVars, startVars, mergeVars>>
  BY DEF Read, At
<1>2. ui.vault = active /\ ui.vault \in Vault /\ live[active] # None
  BY <1>1 DEF HostInv, UiInv
<1>3. live[active] \in FileType /\ GoodFile(active, live[active])
  BY <1>2 DEF TypeOK, HostInv, FileInv
<1>4. /\ ui' \in UiType /\ ui'.op = ui.op /\ ui'.vault = ui.vault
      /\ ui'.file = live[active]
      /\ ui.op = "edit" => ui'.pc = "seal"
      /\ ui.op = "password" => ui'.pc = "rewrap"
      /\ ui.op = "rotate" => ui'.pc = "rotate"
  BY <1>1, <1>2, <1>3 DEF Read, TypeOK, UiType
<1>5. ui.op = "rotate" => active \in Rotates
  BY DEF HostInv, UiInv
<1>6. UiInv'
  BY <1>1, <1>2, <1>3, <1>4, <1>5 DEF UiInv, GoodFile, keyVars, fileVars, startVars
<1>7. vek # 0 => vek = live[active].slots
  BY <1>1, <1>2, VekOpens DEF Rotating
<1>8. QED
  BY <1>1, <1>4, <1>6, <1>7, UiOnly DEF Leaving

LEMMA RewrapKeeps ==
    ASSUME TypeOK, HostInv, Rewrap
    PROVE  TypeOK' /\ HostInv'
<1>1. /\ ui.op = "password" /\ ui.pc = "rewrap"
      /\ UNCHANGED <<keyVars, fileVars, sessionVars, startVars, mergeVars>>
  BY DEF Rewrap, At
<1>2. /\ ui.vault = active /\ ui.vault \in Vault /\ live[active] # None
      /\ GoodFile(active, ui.file) /\ ui.file # None /\ ui.file.slots = live[active].slots
  BY <1>1 DEF HostInv, UiInv
<1>3. vek # 0 => vek = live[active].slots
  BY <1>1, <1>2, VekOpens DEF Rotating
<1>4. CASE vek = 0
  BY <1>1, <1>4, RestKeeps DEF Rewrap
<1>5. CASE vek # 0
  <2>1. ui' = [ui EXCEPT !.pc = "write", !.file.slots = vek]
    BY <1>5 DEF Rewrap
  <2>2. ui.file \in FileType /\ vek \in Key
    BY <1>2 DEF TypeOK, UiType
  <2>3. ui'.file = [ui.file EXCEPT !.slots = vek]
    BY <2>1 DEF TypeOK, UiType
  <2>4. [ui.file EXCEPT !.slots = vek] \in FileType /\ [ui.file EXCEPT !.slots = vek] = ui.file
    BY <1>2, <1>3, <1>5, <2>2 DEF FileType
  <2>5. ui' \in UiType /\ ui'.op = "password" /\ ui'.pc = "write" /\ ui'.vault = ui.vault
    BY <1>1, <2>1, <2>2, <2>3, <2>4 DEF TypeOK, UiType
  <2>6. ui'.file = ui.file /\ active' = active /\ live' = live
    BY <1>1, <2>3, <2>4 DEF keyVars, fileVars
  <2>7. UiInv'
    BY <1>1, <1>2, <2>5, <2>6 DEF UiInv, GoodFile, startVars
  <2>8. QED
    BY <1>1, <1>3, <2>5, <2>7, UiOnly DEF Leaving
<1>6. QED
  BY <1>4, <1>5

LEMMA RotateVekKeeps ==
    ASSUME TypeOK, HostInv, RotateVek
    PROVE  TypeOK' /\ HostInv'
<1>1. /\ ui.op = "rotate" /\ ui.pc = "rotate"
      /\ UNCHANGED <<active, fileVars, sessionVars, startVars, mergeVars>>
  BY DEF RotateVek, At
<1>2. /\ ui.vault = active /\ ui.vault \in Vault /\ live[active] # None
      /\ active \in Rotates
  BY <1>1 DEF HostInv, UiInv
<1>3. CASE vek = 0
  BY <1>1, <1>3, RestKeeps DEF RotateVek, keyVars
<1>4. CASE vek # 0
  <2>1. /\ vek' = minted + 1 /\ minted' = minted + 1
        /\ ui' = [ui EXCEPT !.pc = "seal"]
    BY <1>4 DEF RotateVek, Go
  <2>2. vek' # 0 /\ vek' \in Key /\ minted' \in Nat
    BY <2>1 DEF TypeOK, Key
  <2>3. /\ ui' \in UiType /\ ui'.op = "rotate" /\ ui'.pc = "seal" /\ ui'.vault = ui.vault
        /\ ui'.file = ui.file
    BY <1>1, <2>1 DEF TypeOK, UiType
  <2>4. TypeOK'
    BY <1>1, <2>2, <2>3 DEF TypeOK, fileVars, sessionVars, startVars, mergeVars
  <2>5. /\ SessionInv'
        /\ \A q : Owned(q) => Owned(q)'
        /\ \A v, g : Current(v, g)' <=> Current(v, g)
    BY <1>1, <2>2, <2>3, SessionKeeps DEF HostInv, Leaving
  <2>6. MergeInv'
    BY <1>1, <2>2, <2>3, <2>5 DEF HostInv, MergeInv, sessionVars, startVars, mergeVars
  <2>7. FileInv'
    BY <1>1 DEF HostInv, FileInv, GoodFile, fileVars, startVars
  <2>8. UiInv'
    BY <1>1, <1>2, <2>3 DEF HostInv, UiInv, fileVars
  <2>9. VekInv'
    BY <1>1, <1>2, <2>3 DEF VekInv, Rotating
  <2>10. QED
    BY <2>4, <2>5, <2>6, <2>7, <2>8, <2>9 DEF HostInv
<1>5. QED
  BY <1>3, <1>4

LEMMA SealKeeps ==
    ASSUME TypeOK, HostInv, Seal
    PROVE  TypeOK' /\ HostInv'
<1>1. /\ ui.op \in {"create", "edit", "rotate"} /\ ui.pc = "seal"
      /\ UNCHANGED <<keyVars, fileVars, sessionVars, startVars, mergeVars>>
  BY DEF Seal, At
<1>2. /\ ui.vault = active /\ ui.vault \in Vault /\ ui.file # None
      /\ ui.op = "rotate" => active \in Rotates
      /\ ui.op = "create" => live[active] = None /\ vek \in {0, active} /\ ui.file.slots = active
      /\ ui.op # "create" => live[active] # None
      /\ ui.op = "edit" => GoodFile(active, ui.file) /\ ui.file.slots = live[active].slots
  BY <1>1 DEF HostInv, UiInv
<1>3. vek # 0 /\ ui.op = "edit" => vek = live[active].slots
  BY <1>1, <1>2, VekOpens DEF Rotating
<1>4. CASE vek = 0 /\ ui.op # "rotate"
  BY <1>1, <1>4, RestKeeps DEF Seal
<1>5. CASE vek = 0 /\ ui.op = "rotate"
  <2>1. /\ ui' \in UiType /\ ui'.op = "rotate" /\ ui'.pc = "restore" /\ ui'.vault = ui.vault
    BY <1>1, <1>5 DEF Seal, Go, TypeOK, UiType
  <2>2. UiInv'
    BY <1>1, <1>2, <1>5, <2>1 DEF UiInv, keyVars, fileVars
  <2>3. QED
    BY <1>1, <1>5, <2>1, <2>2, UiOnly DEF Leaving
<1>6. CASE vek # 0
  <2>1. ui' = [ui EXCEPT !.pc = "write", !.file.entries = vek,
                         !.file.slots = IF ui.op = "rotate" THEN vek ELSE @]
    BY <1>6 DEF Seal
  <2>2. ui.file \in FileType /\ vek \in Key /\ ui \in UiType
    BY <1>2 DEF TypeOK, UiType
  <2> DEFINE f == [ui.file EXCEPT !.entries = vek,
                                  !.slots = IF ui.op = "rotate" THEN vek ELSE @]
  <2>3. ui' = [ui EXCEPT !.pc = "write", !.file = f]
    BY <2>1, <2>2 DEF UiType, FileType
  <2>4. /\ f \in FileType /\ f.entries = vek
        /\ f.slots = IF ui.op = "rotate" THEN vek ELSE ui.file.slots
    BY <2>2 DEF FileType
  <2>5. /\ ui' \in UiType /\ ui'.op = ui.op /\ ui'.pc = "write" /\ ui'.vault = ui.vault
        /\ ui'.file = f
    BY <2>2, <2>3, <2>4 DEF UiType
  <2> HIDE DEF f
  <2>6. f # None
    BY <2>4, NoneAssumption
  <2>7. UiInv'
    BY <1>1, <1>2, <1>3, <1>6, <2>4, <2>5, <2>6 DEF UiInv, GoodFile, keyVars, fileVars
  <2>8. vek # 0 /\ live[active] # None /\ ~Rotating' => vek = live[active].slots
    BY <1>1, <1>2, <1>3, <2>5 DEF Rotating
  <2>9. QED
    BY <1>1, <2>5, <2>7, <2>8, UiOnly DEF Leaving
<1>7. QED
  BY <1>4, <1>5, <1>6

LEMMA UiWriteKeeps ==
    ASSUME TypeOK, HostInv, UiWrite
    PROVE  TypeOK' /\ HostInv'
<1> DEFINE f == [ui.file EXCEPT !.rev = @ + 1]
           snapshot == IF live[active] = None THEN bak ELSE [bak EXCEPT ![active] = live[active]]
<1>1. /\ ui.op \in {"create", "edit", "password", "rotate"} /\ ui.pc = "write"
      /\ UNCHANGED <<keyVars, sessionVars, startVars, mergeVars>>
  BY DEF UiWrite, At
<1>2. /\ ui.vault = active /\ active \in Vault /\ ui.file # None
      /\ ui.op = "rotate" => active \in Rotates
      /\ ui.op = "create" => live[active] = None /\ vek \in {0, active}
      /\ ui.op # "create" => live[active] # None
      /\ ui.op \in {"edit", "password"} => ui.file.slots = live[active].slots
  BY <1>1 DEF HostInv, UiInv
<1>3. GoodFile(active, ui.file)
  BY <1>1, <1>2, KeyAssumption DEF HostInv, UiInv, GoodFile
<1>4. vek # 0 /\ ui.op \in {"edit", "password"} => vek = live[active].slots
  BY <1>1, <1>2, VekOpens DEF Rotating
<1>5. ui.file \in FileType /\ ui \in UiType
  BY <1>2 DEF TypeOK, UiType
<1>6. /\ f \in FileType /\ f # None
      /\ f.slots = ui.file.slots /\ f.entries = ui.file.entries
  BY <1>5, NoneAssumption DEF FileType
<1>7. GoodFile(active, f)
  BY <1>2, <1>3, <1>6 DEF GoodFile
<1>8. PICK ok \in BOOLEAN :
        /\ Write(active, f, ok)
        /\ IF ui.op = "rotate" THEN Go(IF ok THEN "verify" ELSE "restore")
           ELSE IF ui.op = "password" /\ ok THEN Go("verify") ELSE ui' = Idle
  BY <1>2 DEF UiWrite
<1> HIDE DEF f
<1>9. /\ live' = IF ok THEN [live EXCEPT ![active] = f] ELSE live
      /\ bak' = snapshot \/ (~ok /\ bak' = bak)
  <2>1. Write(active, f, ok)
    BY <1>8
  <2>2. CASE ok
    BY <2>1, <2>2 DEF Write
  <2>3. CASE ~ok
    BY <2>1, <2>3 DEF Write
  <2>4. QED
    BY <2>2, <2>3
<1>10. /\ snapshot \in [Vault -> FileType \cup {None}]
       /\ \A v \in Vault : GoodFile(v, snapshot[v])
       /\ live[active] # None => snapshot[active] = live[active]
  BY <1>2 DEF TypeOK, HostInv, FileInv
<1> HIDE DEF snapshot
<1>11. /\ live' \in [Vault -> FileType \cup {None}] /\ bak' \in [Vault -> FileType \cup {None}]
       /\ \A v \in Vault : v # active => live'[v] = live[v]
       /\ live'[active] = IF ok THEN f ELSE live[active]
  <2>1. live \in [Vault -> FileType \cup {None}] /\ bak \in [Vault -> FileType \cup {None}]
    BY DEF TypeOK
  <2>2. CASE ok
    BY <1>2, <1>6, <1>9, <1>10, <2>1, <2>2
  <2>3. CASE ~ok
    BY <1>9, <1>10, <2>1, <2>3
  <2>4. QED
    BY <2>2, <2>3
<1>12. /\ ui' \in UiType
       /\ \/ ui'.op = "none" /\ ui'.pc = "idle" /\ ui.op # "rotate"
          \/ /\ ui'.op = ui.op /\ ui'.vault = ui.vault
             /\ \/ ok /\ ui'.pc = "verify" /\ ui.op \in {"password", "rotate"}
                \/ ui'.pc = "restore" /\ ui.op = "rotate"
  <2>1. CASE ui' = Idle /\ ui.op # "rotate"
    BY <2>1, IdleFields
  <2>2. CASE ok /\ Go("verify") /\ ui.op \in {"password", "rotate"}
    BY <1>5, <2>2 DEF Go, UiType
  <2>3. CASE Go("restore") /\ ui.op = "rotate"
    BY <1>5, <2>3 DEF Go, UiType
  <2>4. QED
    BY <1>1, <1>8, <2>1, <2>2, <2>3
<1>13. TypeOK'
  BY <1>1, <1>11, <1>12 DEF TypeOK, keyVars, sessionVars, startVars, mergeVars
<1>14. /\ SessionInv'
       /\ \A q : Owned(q) => Owned(q)'
       /\ \A v, g : Current(v, g)' <=> Current(v, g)
  BY <1>1, <1>12, SessionKeeps DEF HostInv, Leaving, keyVars
<1>15. MergeInv'
  BY <1>1, <1>12, <1>14 DEF HostInv, MergeInv, keyVars, sessionVars, startVars, mergeVars
<1>16. FileInv'
  <2>1. \A v \in Vault : GoodFile(v, live'[v])
    BY <1>7, <1>11 DEF HostInv, FileInv
  <2>2. \A v \in Vault : GoodFile(v, bak'[v])
    BY <1>9, <1>10 DEF HostInv, FileInv
  <2>3. \A v \in Existing : live'[v] # None
    BY <1>6, <1>11, VaultAssumption DEF HostInv, FileInv
  <2>4. QED
    BY <1>1, <2>1, <2>2, <2>3 DEF FileInv, GoodFile, startVars
<1>17. UiInv'
  <2>1. CASE ui'.op = "none"
    BY <1>12, <2>1 DEF UiInv
  <2>2. CASE ui'.op = "rotate"
    BY <1>1, <1>2, <1>6, <1>11, <1>12, <2>2 DEF UiInv, keyVars
  <2>3. CASE ui'.op = "password"
    <3>1. ok /\ ui'.pc = "verify" /\ ui'.vault = active /\ ui.op = "password"
      BY <1>2, <1>12, <2>3
    <3>2. bak'[active].slots = live'[active].slots
      BY <1>2, <1>6, <1>9, <1>10, <1>11, <3>1
    <3>3. live'[active] # None
      BY <1>6, <1>11, <3>1
    <3>4. QED
      BY <1>1, <1>2, <2>3, <3>1, <3>2, <3>3 DEF UiInv, keyVars
  <2>4. QED
    BY <1>12, <2>1, <2>2, <2>3
<1>18. VekInv'
  <2>1. active \in Vault /\ (vek # 0 /\ active \notin Rotates => vek = active)
    BY <1>1, <1>2 DEF HostInv, VekInv
  <2>2. vek # 0 /\ live'[active] # None /\ ~Rotating' => vek = live'[active].slots
    <3>1. CASE ui.op = "create"
      <4>1. ui.file.slots = active
        BY <1>1, <1>2, <3>1 DEF HostInv, UiInv
      <4>2. QED
        BY <1>2, <1>6, <1>11, <3>1, <4>1
    <3>2. CASE ui.op \in {"edit", "password"}
      BY <1>2, <1>4, <1>6, <1>11, <3>2
    <3>3. CASE ui.op = "rotate"
      BY <1>12, <3>3 DEF Rotating
    <3>4. QED
      BY <1>1, <3>1, <3>2, <3>3
  <2>3. QED
    BY <1>1, <2>1, <2>2 DEF VekInv, keyVars
<1>19. QED
  BY <1>13, <1>14, <1>15, <1>16, <1>17, <1>18 DEF HostInv

LEMMA VerifyKeeps ==
    ASSUME SyncedKeysStay, TypeOK, HostInv, Verify
    PROVE  TypeOK' /\ HostInv'
<1>1. /\ ui.op \in {"password", "rotate"} /\ ui.pc = "verify"
      /\ UNCHANGED <<keyVars, fileVars, sessionVars, startVars, mergeVars>>
  BY DEF Verify, At
<1>2. /\ ui.vault = active /\ active \in Vault /\ live[active] # None
      /\ ui.op = "rotate" => active \in Rotates
  BY <1>1 DEF HostInv, UiInv
<1>3. CASE ui.op = "rotate" /\ vek # live[ui.vault].entries
  <2>1. ui' \in UiType /\ ui'.op = "rotate" /\ ui'.pc = "restore" /\ ui'.vault = ui.vault
    BY <1>3 DEF Verify, Go, TypeOK, UiType
  <2>2. UiInv'
    BY <1>1, <1>2, <1>3, <2>1 DEF UiInv, keyVars, fileVars
  <2>3. Rotating'
    BY <2>1 DEF Rotating
  <2>4. QED
    BY <1>1, <2>1, <2>2, <2>3, UiOnly DEF Leaving
<1>4. CASE ~(ui.op = "rotate" /\ vek # live[ui.vault].entries)
  <2>1. vek # 0 => vek = live[active].slots
    <3>1. active \in Rotates => active \notin risked
      BY DEF SyncedKeysStay, HostInv, SessionInv
    <3>2. QED
      BY <1>1, <1>2, <1>4, <3>1, VekOpens DEF HostInv, FileInv, GoodFile, Rotating
  <2>2. ui' = Idle
    BY <1>4 DEF Verify
  <2>3. QED
    BY <1>1, <2>1, <2>2, RestKeeps
<1>5. QED
  BY <1>3, <1>4

(* A snapshot put back is as good as the file it replaces. *)
LEMMA RestoreFields ==
    ASSUME TypeOK, FileInv, NEW v \in Vault, Restore(v), live[v] # None, UNCHANGED risked
    PROVE  /\ live' \in [Vault -> FileType \cup {None}] /\ bak' = bak
           /\ FileInv'
           /\ live'[v] = IF bak[v] = None THEN live[v] ELSE bak[v]
           /\ live'[v] # None
<1>1. live \in [Vault -> FileType \cup {None}] /\ bak \in [Vault -> FileType \cup {None}]
  BY DEF TypeOK
<1>2. /\ live' \in [Vault -> FileType \cup {None}] /\ bak' = bak
      /\ \A w \in Vault : w # v => live'[w] = live[w]
      /\ live'[v] = IF bak[v] = None THEN live[v] ELSE bak[v]
  BY <1>1 DEF Restore
<1>3. FileInv'
  BY <1>2, VaultAssumption DEF FileInv, GoodFile
<1>4. QED
  BY <1>2, <1>3

LEMMA VerifyFailsKeeps ==
    ASSUME TypeOK, HostInv, VerifyFails
    PROVE  TypeOK' /\ HostInv'
<1>1. /\ ui.op \in {"password", "rotate"} /\ ui.pc = "verify"
      /\ UNCHANGED <<keyVars, sessionVars, startVars, mergeVars>>
  BY DEF VerifyFails, At
<1>2. /\ ui.vault = active /\ active \in Vault /\ live[active] # None
      /\ ui.op = "rotate" => active \in Rotates
      /\ ui.op = "password" /\ bak[active] # None => bak[active].slots = live[active].slots
  BY <1>1 DEF HostInv, UiInv
<1>3. CASE ui.op = "rotate"
  <2>1. ui' \in UiType /\ ui'.op = "rotate" /\ ui'.pc = "restore" /\ ui'.vault = ui.vault
    BY <1>3 DEF VerifyFails, Go, TypeOK, UiType
  <2>2. UNCHANGED fileVars
    BY <1>3 DEF VerifyFails
  <2>3. UiInv'
    BY <1>1, <1>2, <1>3, <2>1, <2>2 DEF UiInv, keyVars, fileVars
  <2>4. Rotating'
    BY <2>1 DEF Rotating
  <2>5. QED
    BY <1>1, <2>1, <2>2, <2>3, <2>4, UiOnly DEF Leaving
<1>4. CASE ui.op = "password"
  <2>1. Restore(active) /\ ui' = Idle
    BY <1>2, <1>4 DEF VerifyFails
  <2>2. /\ live' \in [Vault -> FileType \cup {None}] /\ bak' = bak /\ FileInv'
        /\ live'[active] = IF bak[active] = None THEN live[active] ELSE bak[active]
        /\ live'[active] # None
    BY <1>1, <1>2, <2>1, RestoreFields DEF HostInv, startVars
  <2>3. ui' \in UiType /\ ui'.op = "none" /\ ui'.pc = "idle"
    BY <2>1, IdleFields
  <2>4. TypeOK'
    BY <1>1, <2>2, <2>3 DEF TypeOK, keyVars, sessionVars, startVars, mergeVars
  <2>5. /\ SessionInv'
        /\ \A q : Owned(q) => Owned(q)'
        /\ \A v, g : Current(v, g)' <=> Current(v, g)
    BY <1>1, <2>3, SessionKeeps DEF HostInv, Leaving, keyVars
  <2>6. MergeInv'
    BY <1>1, <2>3, <2>5 DEF HostInv, MergeInv, keyVars, sessionVars, startVars, mergeVars
  <2>7. UiInv'
    BY <2>3 DEF UiInv
  <2>8. live'[active].slots = live[active].slots
    BY <1>2, <1>4, <2>2
  <2>9. VekInv'
    BY <1>1, <1>2, <1>4, <2>8, VekOpens DEF HostInv, VekInv, Rotating, keyVars
  <2>10. QED
    BY <2>2, <2>4, <2>5, <2>6, <2>7, <2>9 DEF HostInv
<1>5. QED
  BY <1>1, <1>3, <1>4

-----------------------------------------------------------------------------
(* The screens: the vault is locked. *)
(* What a lock leaves behind. *)
LEMMA LockStops ==
    ASSUME TypeOK, HostInv, vek' = 0, StopRosterSync, ui' = ui \/ ui'.pc = "idle",
           UNCHANGED <<minted, active, risked, mergeVars>>,
           ui' \in UiType, FileInv', UiInv',
           live' \in [Vault -> FileType \cup {None}], bak' \in [Vault -> FileType \cup {None}]
    PROVE  TypeOK' /\ HostInv'
<1>1. /\ SessionInv' /\ sessionVaultId' = None
      /\ rosterSession' \in Session \cup {None} /\ sessionVaultId' \in Vault \cup {None}
      /\ sessionGen' \in Nat /\ running' \in SUBSET Session
      /\ start' \in [Start -> StartType]
      /\ \A v : \A g \in Nat : g <= sessionGen => g <= sessionGen' /\ ~Current(v, g)'
  BY StopKeeps DEF HostInv
<1>2. TypeOK'
  BY <1>1 DEF TypeOK, Key, mergeVars
<1>3. MergeInv'
  <2>1. \A i \in 1..Len(merges) : merges[i].gen \in Nat
    BY QueueTypes
  <2>2. QED
    BY <1>1, <2>1 DEF HostInv, MergeInv, mergeVars
<1>4. VekInv'
  BY DEF VekInv
<1>5. QED
  BY <1>1, <1>2, <1>3, <1>4 DEF HostInv

LEMMA RestoreAndLockKeeps ==
    ASSUME TypeOK, HostInv, RestoreAndLock
    PROVE  TypeOK' /\ HostInv'
<1>1. /\ ui.op = "rotate" /\ ui.pc = "restore"
      /\ Restore(ui.vault) /\ vek' = 0 /\ StopRosterSync /\ ui' = Idle
      /\ UNCHANGED <<minted, active, risked, mergeVars>>
  BY DEF RestoreAndLock, At
<1>2. ui.vault \in Vault /\ live[ui.vault] # None
  BY <1>1 DEF HostInv, UiInv
<1>3. /\ live' \in [Vault -> FileType \cup {None}] /\ bak' = bak /\ FileInv'
      /\ bak \in [Vault -> FileType \cup {None}]
  BY <1>1, <1>2, RestoreFields DEF HostInv, TypeOK
<1>4. ui' \in UiType /\ ui'.op = "none" /\ ui'.pc = "idle"
  BY <1>1, IdleFields
<1>5. UiInv'
  BY <1>4 DEF UiInv
<1>6. QED
  BY <1>1, <1>3, <1>4, <1>5, LockStops

LEMMA LockKeeps ==
    ASSUME TypeOK, HostInv, Lock \/ LockForLifecycle
    PROVE  TypeOK' /\ HostInv'
<1>1. /\ vek' = 0 /\ StopRosterSync
      /\ UNCHANGED <<minted, active, fileVars, risked, mergeVars, ui>>
  BY DEF Lock, LockForLifecycle
<1>2. /\ live' \in [Vault -> FileType \cup {None}] /\ bak' \in [Vault -> FileType \cup {None}]
      /\ ui' \in UiType
  BY <1>1 DEF TypeOK, fileVars
<1>3. FileInv'
  BY <1>1 DEF HostInv, FileInv, GoodFile, fileVars
<1>4. UiInv'
  BY <1>1 DEF HostInv, UiInv, GoodFile, fileVars
<1>5. QED
  BY <1>1, <1>2, <1>3, <1>4, LockStops

-----------------------------------------------------------------------------
(* Sessions start. *)
(* What a step of a start needs, while no session is owned. *)
LEMMA StartOnly ==
    ASSUME HostInv, UNCHANGED <<keyVars, fileVars, mergeVars, ui>>, risked \subseteq risked',
           SessionInv', sessionGen' = sessionGen,
           \A r : ~Owned(r),
           vek = 0 /\ merge.pc # "idle" =>
              sessionVaultId' = sessionVaultId \/ Head(merges).vault \in risked'
    PROVE  HostInv'
<1>1. \A v, g : Current(v, g)' => Current(v, g)
  BY DEF Current
<1>2. MergeInv'
  BY <1>1 DEF HostInv, MergeInv, keyVars, mergeVars
<1>3. FileInv'
  BY DEF HostInv, FileInv, GoodFile, fileVars
<1>4. UiInv' /\ VekInv'
  BY DEF HostInv, UiInv, VekInv, GoodFile, Rotating, keyVars, fileVars
<1>5. QED
  BY <1>2, <1>3, <1>4 DEF HostInv

LEMMA StartReadKeeps ==
    ASSUME TypeOK, HostInv, NEW s \in Start, StartRead(s)
    PROVE  TypeOK' /\ HostInv'
<1>1. /\ start[s].pc = "reading"
      /\ UNCHANGED <<keyVars, fileVars, sessionVars, risked, mergeVars, ui>>
  BY DEF StartRead
<1>2. start \in [Start -> StartType] /\ start[s] \in StartType
  BY DEF TypeOK
<1> DEFINE new == IF active \in Enrolled
                  THEN [start[s] EXCEPT !.pc = "pinning", !.vault = active] ELSE NoStart
<1>3. start' = [start EXCEPT ![s] = new]
  BY DEF StartRead
<1>4. /\ new \in StartType
      /\ active \in Enrolled => /\ new.pc = "pinning" /\ new.vault = active
                                /\ new.alone = start[s].alone
      /\ active \notin Enrolled => new.pc = "idle" /\ ~new.alone
  BY <1>2, VaultAssumption DEF StartType, NoStart
<1> HIDE DEF new
<1>5. /\ start' \in [Start -> StartType] /\ start'[s] = new
      /\ \A u \in Start : u # s => start'[u] = start[u]
  BY <1>2, <1>3, <1>4
<1>6. \A r : ~Owned(r)
  BY <1>1 DEF Owned
<1>7. \A u \in Start : start'[u].alone => Alone(u)'
  BY <1>1, <1>4, <1>5 DEF HostInv, SessionInv, Alone, Leaving, keyVars, sessionVars
<1>8. SessionInv'
  BY <1>1, <1>4, <1>5, <1>6, <1>7 DEF HostInv, SessionInv, Current, keyVars, sessionVars
<1>9. TypeOK'
  BY <1>1, <1>5 DEF TypeOK, keyVars, fileVars, sessionVars, mergeVars
<1>10. QED
  BY <1>1, <1>6, <1>8, <1>9, StartOnly DEF sessionVars

LEMMA StartPinKeeps ==
    ASSUME TypeOK, HostInv, NEW s \in Start, StartPin(s)
    PROVE  TypeOK' /\ HostInv'
<1>1. /\ start[s].pc = "pinning"
      /\ running' = running \ {rosterSession} /\ sessionVaultId' = start[s].vault
      /\ UNCHANGED <<keyVars, fileVars, rosterSession, sessionGen, mergeVars, ui>>
  BY DEF StartPin
<1>2. start \in [Start -> StartType] /\ start[s] \in StartType /\ sessionGen \in Nat
  BY DEF TypeOK
<1> DEFINE new == [start[s] EXCEPT !.pc = "connecting", !.gen = sessionGen]
<1>3. start' = [start EXCEPT ![s] = new]
  BY <1>2 DEF StartPin, StartType
<1>4. /\ new \in StartType /\ new.pc = "connecting" /\ new.vault = start[s].vault
      /\ new.gen = sessionGen /\ new.alone = start[s].alone
  BY <1>2 DEF StartType
<1> HIDE DEF new
<1>5. /\ start' \in [Start -> StartType] /\ start'[s] = new
      /\ \A u \in Start : u # s => start'[u] = start[u]
  BY <1>2, <1>3, <1>4
<1>6. start[s].vault \in Enrolled /\ start[s].vault \in Vault
  BY <1>1, VaultAssumption DEF HostInv, SessionInv
<1>7. /\ risked \subseteq risked' /\ risked' \subseteq Enrolled
      /\ start[s].alone => risked' = risked
      /\ ~start[s].alone => start[s].vault \in risked'
      /\ ~start[s].alone /\ merge.pc # "idle" => Head(merges).vault \in risked'
  <2>1. merge.pc # "idle" => Head(merges).vault \in Enrolled /\ Head(merges).vault \in Vault
    BY VaultAssumption DEF HostInv, MergeInv, TypeOK
  <2>2. QED
    BY <1>6, <2>1 DEF StartPin, HostInv, SessionInv
<1>8. /\ \A r : ~Owned(r)
      /\ start[s].alone => Alone(s)
      /\ \A u \in Start : u # s => ~start[u].alone
  BY <1>1 DEF Owned, HostInv, SessionInv, Alone
<1>9. \A u \in Start : start'[u].alone => Alone(u)'
  BY <1>1, <1>4, <1>5, <1>8 DEF Alone, Leaving, keyVars
<1>10. \A v, g : Current(v, g)' => Current(v, g)
  BY <1>1, <1>7 DEF Current
<1>11. \A v, g : ~start[s].alone /\ v = start[s].vault => ~Current(v, g)'
  BY <1>4, <1>7 DEF Current
<1>12. SessionInv'
  BY <1>1, <1>2, <1>4, <1>5, <1>6, <1>7, <1>8, <1>9, <1>10, <1>11 DEF HostInv, SessionInv
<1>13. TypeOK'
  BY <1>1, <1>5, <1>6, <1>7, VaultAssumption DEF TypeOK, keyVars, fileVars, mergeVars
<1>14. vek = 0 => ~start[s].alone
  BY <1>8 DEF Alone
<1>15. QED
  BY <1>1, <1>7, <1>8, <1>12, <1>13, <1>14, StartOnly

LEMMA StartEndKeeps ==
    ASSUME TypeOK, HostInv, NEW s \in Start, StartEnd(s)
    PROVE  TypeOK' /\ HostInv'
<1> DEFINE r == [vault |-> start[s].vault, gen |-> start[s].gen,
                 by |-> s, alone |-> start[s].alone]
<1>1. /\ start[s].pc = "connecting"
      /\ start' = [start EXCEPT ![s] = NoStart]
      /\ \/ rosterSession' = r /\ running' = running \cup {r}
         \/ UNCHANGED <<rosterSession, running>>
      /\ UNCHANGED <<keyVars, fileVars, sessionVaultId, sessionGen, risked, mergeVars, ui>>
  BY DEF StartEnd
<1>2. start \in [Start -> StartType] /\ start[s] \in StartType
  BY DEF TypeOK
<1>3. NoStart \in StartType /\ NoStart.pc = "idle" /\ ~NoStart.alone
  BY DEF StartType, NoStart
<1>4. /\ start' \in [Start -> StartType] /\ start'[s] = NoStart
      /\ \A u \in Start : u # s => start'[u] = start[u]
  BY <1>1, <1>2, <1>3
<1>5. /\ start[s].vault \in Enrolled /\ start[s].gen <= sessionGen
      /\ Current(start[s].vault, start[s].gen) => start[s].alone
      /\ start[s].alone => Alone(s)
  BY <1>1 DEF HostInv, SessionInv
<1>6. /\ r \in Session /\ r.vault = start[s].vault /\ r.gen = start[s].gen
      /\ r.alone = start[s].alone
  BY <1>2, <1>5, VaultAssumption DEF Session, StartType
<1> HIDE DEF r
<1>7. /\ \A q : ~Owned(q)
      /\ \A u \in Start : u # s => ~start[u].alone
      /\ \A v, g : Current(v, g)' <=> Current(v, g)
  BY <1>1 DEF Owned, HostInv, SessionInv, Alone, Current
<1>8. \A q : q = r /\ start[s].alone /\ rosterSession' = r => Owned(q)'
  BY <1>1, <1>3, <1>4, <1>5, <1>6 DEF Alone, Owned, Leaving, keyVars
<1>9. \A u \in Start : ~start'[u].alone
  BY <1>3, <1>4, <1>7
<1>10. SessionInv'
  BY <1>1, <1>3, <1>4, <1>5, <1>6, <1>7, <1>8, <1>9 DEF HostInv, SessionInv
<1>11. TypeOK'
  BY <1>1, <1>4, <1>6 DEF TypeOK, keyVars, fileVars, mergeVars
<1>12. QED
  BY <1>1, <1>7, <1>10, <1>11, StartOnly

-----------------------------------------------------------------------------
(* Merging. *)
LEMMA PushKeeps ==
    ASSUME TypeOK, HostInv, NEW r \in running, PushRemotePayload(r)
    PROVE  TypeOK' /\ HostInv'
<1>1. /\ merges' = Append(merges, r)
      /\ UNCHANGED <<keyVars, fileVars, sessionVars, startVars, merge, ui>>
  BY DEF PushRemotePayload
<1>2. /\ r \in Session /\ r.vault \in Enrolled /\ r.gen <= sessionGen
      /\ Current(r.vault, r.gen) => Owned(r)
  BY DEF TypeOK, HostInv, SessionInv
<1>3. /\ merges \in Seq(Session) /\ merges' \in Seq(Session)
      /\ Len(merges') = Len(merges) + 1
      /\ \A i \in 1..Len(merges) : merges'[i] = merges[i]
      /\ merges'[Len(merges) + 1] = r
      /\ merges # <<>> => Head(merges') = Head(merges)
  BY <1>1, <1>2 DEF TypeOK
<1>4. TypeOK'
  BY <1>1, <1>3 DEF TypeOK, keyVars, fileVars, sessionVars, startVars
<1>5. /\ SessionInv'
      /\ \A q : Owned(q) => Owned(q)'
      /\ \A v, g : Current(v, g)' <=> Current(v, g)
  BY <1>1, SessionKeeps DEF HostInv, Leaving, keyVars
<1>6. \A i \in 1..Len(merges') :
          /\ merges'[i].vault \in Enrolled /\ merges'[i].gen <= sessionGen
          /\ Current(merges'[i].vault, merges'[i].gen) => Owned(merges'[i])
  BY <1>2, <1>3 DEF HostInv, MergeInv
<1>7. merges' # <<>> /\ (merges = <<>> => merge.pc = "idle")
  BY <1>3 DEF HostInv, MergeInv
<1>8. MergeInv'
  BY <1>1, <1>3, <1>5, <1>6, <1>7 DEF HostInv, MergeInv, keyVars, sessionVars, startVars
<1>9. FileInv' /\ UiInv' /\ VekInv'
  BY <1>1 DEF HostInv, FileInv, UiInv, VekInv, GoodFile, Rotating, keyVars, fileVars, startVars
<1>10. QED
  BY <1>4, <1>5, <1>8, <1>9 DEF HostInv

(* The payload in front is for a vault that has a file, under its first key. *)
LEMMA HeadIsSynced ==
    ASSUME SyncedKeysStay, TypeOK, HostInv, merges # <<>>
    PROVE  /\ Head(merges) = merges[1] /\ 1 \in 1..Len(merges)
           /\ Head(merges).vault \in Enrolled /\ Head(merges).vault \in Existing
           /\ Head(merges).vault \in Vault /\ Head(merges).vault \notin Rotates
           /\ live[Head(merges).vault] \in FileType
           /\ live[Head(merges).vault].slots = Head(merges).vault
<1>1. 1 \in 1..Len(merges) /\ Head(merges) = merges[1]
  BY DEF TypeOK
<1>2. Head(merges).vault \in Enrolled
  BY <1>1 DEF HostInv, MergeInv
<1>3. /\ Head(merges).vault \in Vault /\ Head(merges).vault \in Existing
      /\ Head(merges).vault \notin Rotates
  BY <1>2, VaultAssumption DEF SyncedKeysStay
<1>4. live[Head(merges).vault] # None /\ GoodFile(Head(merges).vault, live[Head(merges).vault])
  BY <1>3 DEF HostInv, FileInv
<1>5. QED
  BY <1>1, <1>2, <1>3, <1>4 DEF GoodFile, TypeOK

(* A step of a merge before its last. *)
LEMMA MergeOnly ==
    ASSUME TypeOK, HostInv, merges # <<>>, merge' \in MergeType,
           UNCHANGED <<keyVars, fileVars, sessionVars, startVars, merges, ui>>,
           merge.pc = "idle" => Owned(Head(merges)) \/ Head(merges).vault \in risked,
           merge'.pc \in {"verify", "seal", "write"} => merge'.slots = Head(merges).vault,
           merge'.pc = "write" /\ Head(merges).vault \notin risked => merge'.key = active
    PROVE  TypeOK' /\ HostInv'
<1>1. TypeOK'
  BY DEF TypeOK, keyVars, fileVars, sessionVars, startVars
<1>2. /\ SessionInv'
      /\ \A q : Owned(q) => Owned(q)'
      /\ \A v, g : Current(v, g)' <=> Current(v, g)
  BY SessionKeeps DEF HostInv, Leaving, keyVars
<1>3. MergeInv'
  BY <1>2 DEF HostInv, MergeInv, Owned, Leaving, keyVars, sessionVars, startVars
<1>4. FileInv' /\ UiInv' /\ VekInv'
  BY DEF HostInv, FileInv, UiInv, VekInv, GoodFile, Rotating, keyVars, fileVars, startVars
<1>5. QED
  BY <1>1, <1>2, <1>3, <1>4 DEF HostInv

(* The end of a merge, with a write of its vault's file or without. *)
LEMMA MergeEndKeeps ==
    ASSUME SyncedKeysStay, TypeOK, HostInv, merges # <<>>, MergeEnd,
           UNCHANGED <<keyVars, sessionVars, startVars>>,
           live' \in [Vault -> FileType \cup {None}], bak' \in [Vault -> FileType \cup {None}],
           FileInv', \A v \in Vault : v # Head(merges).vault => live'[v] = live[v] /\ bak'[v] = bak[v]
    PROVE  TypeOK' /\ HostInv'
<1> DEFINE h == Head(merges).vault
<1>1. /\ h \in Vault /\ h \in Existing /\ h \notin Rotates
      /\ live[h] # None /\ live[h].slots = h
  BY HeadIsSynced, NoneAssumption
<1>2. /\ live'[h] # None /\ live'[h].slots = h
      /\ bak'[h] # None => bak'[h].slots = h
  BY <1>1 DEF FileInv, GoodFile
<1>3. /\ merges \in Seq(Session) /\ merges' \in Seq(Session)
      /\ Len(merges') = Len(merges) - 1 /\ Len(merges) \in Nat /\ Len(merges) > 0
      /\ \A i \in 1..Len(merges') : merges'[i] = merges[i + 1]
  BY DEF MergeEnd, TypeOK
<1>4. merge' \in MergeType /\ merge'.pc = "idle"
  BY DEF MergeEnd, NoMerge, MergeType, Key
<1>5. /\ ui' \in UiType /\ ui'.op = ui.op /\ ui'.pc = ui.pc /\ ui'.vault = ui.vault
      /\ ui'.file = ui.file
      /\ ui'.await = IF ui.await = 0 THEN 0 ELSE ui.await - 1
  <2>1. ui.await \in Nat /\ ui \in UiType
    BY DEF TypeOK, UiType
  <2>2. (IF ui.await = 0 THEN 0 ELSE ui.await - 1) \in Nat
    BY <2>1
  <2>3. ui' = [ui EXCEPT !.await = IF ui.await = 0 THEN 0 ELSE ui.await - 1]
    BY <2>1 DEF MergeEnd, UiType
  <2>4. QED
    BY <2>1, <2>2, <2>3 DEF UiType
<1> HIDE DEF h
<1>6. TypeOK'
  BY <1>3, <1>4, <1>5 DEF TypeOK, keyVars, sessionVars, startVars
<1>7. /\ SessionInv'
      /\ \A q : Owned(q) => Owned(q)'
      /\ \A v, g : Current(v, g)' <=> Current(v, g)
  BY <1>5, SessionKeeps DEF HostInv, Leaving, keyVars
<1>8. MergeInv'
  <2>1. \A i \in 1..Len(merges') :
          /\ merges'[i].vault \in Enrolled /\ merges'[i].gen <= sessionGen
          /\ Current(merges'[i].vault, merges'[i].gen) => Owned(merges'[i])
    <3>1. \A i \in 1..Len(merges') : i + 1 \in 1..Len(merges)
      BY <1>3
    <3>2. QED
      BY <1>3, <3>1 DEF HostInv, MergeInv
  <2>2. QED
    BY <1>4, <1>7, <2>1 DEF MergeInv, sessionVars
<1>9. /\ \A v \in Vault : live[v] # None => live'[v] # None /\ live'[v].slots = live[v].slots
      /\ \A v \in Vault : live[v] = None => live'[v] = None
  BY <1>1, <1>2 DEF h
<1>10. UiInv'
  <2>1. ui.pc = "verify" /\ bak'[active] # None /\ ui.op \in {"edit", "password"} =>
           bak'[active].slots = live'[active].slots
    BY <1>1, <1>2 DEF HostInv, UiInv, h
  <2>2. ui.op # "none" => ui.vault \in Vault
    BY DEF HostInv, UiInv
  <2>3. QED
    BY <1>5, <1>9, <2>1, <2>2 DEF HostInv, UiInv, GoodFile, keyVars, startVars
<1>11. VekInv'
  BY <1>5, <1>9 DEF HostInv, VekInv, Rotating, keyVars
<1>12. QED
  BY <1>6, <1>7, <1>8, <1>10, <1>11 DEF HostInv

LEMMA MergeEndsUnwritten ==
    ASSUME SyncedKeysStay, TypeOK, HostInv, merges # <<>>, MergeEnd,
           UNCHANGED <<keyVars, fileVars, sessionVars, startVars>>
    PROVE  TypeOK' /\ HostInv'
<1>1. /\ live' \in [Vault -> FileType \cup {None}] /\ bak' \in [Vault -> FileType \cup {None}]
      /\ \A v \in Vault : live'[v] = live[v] /\ bak'[v] = bak[v]
  BY DEF TypeOK, fileVars
<1>2. FileInv'
  BY DEF HostInv, FileInv, GoodFile, fileVars, startVars
<1>3. QED
  BY <1>1, <1>2, MergeEndKeeps

LEMMA MergeTurnKeeps ==
    ASSUME SyncedKeysStay, TypeOK, HostInv, MergeTurn
    PROVE  TypeOK' /\ HostInv'
<1>1. merges # <<>> /\ UNCHANGED <<keyVars, fileVars, sessionVars, startVars>>
  BY DEF MergeTurn, Merging
<1>2. CASE MergeEnd
  BY <1>1, <1>2, MergeEndsUnwritten
<1>3. CASE Head(merges).gen = sessionGen /\ MergeGo([merge EXCEPT !.pc = "slots"])
  <2>1. merge' \in MergeType /\ merge'.pc = "slots" /\ UNCHANGED <<merges, ui>>
    BY <1>3 DEF MergeGo, TypeOK, MergeType
  <2>2. Owned(Head(merges)) \/ Head(merges).vault \in risked
    BY <1>1, <1>3, HeadIsSynced DEF HostInv, MergeInv, Current
  <2>3. QED
    BY <1>1, <2>1, <2>2, MergeOnly
<1>4. QED
  BY <1>2, <1>3 DEF MergeTurn

LEMMA MergeReadKeeps ==
    ASSUME SyncedKeysStay, TypeOK, HostInv, MergeRead
    PROVE  TypeOK' /\ HostInv'
<1>1. /\ merges # <<>> /\ merge.pc = "slots"
      /\ UNCHANGED <<keyVars, fileVars, sessionVars, startVars>>
  BY DEF MergeRead, Merging
<1>2. File1 \in FileType /\ File1.slots = Head(merges).vault
  BY <1>1, HeadIsSynced DEF File1
<1>3. /\ merge' \in MergeType /\ merge'.pc = "verify" /\ merge'.slots = Head(merges).vault
      /\ UNCHANGED <<merges, ui>>
  BY <1>2 DEF MergeRead, MergeGo, MergeType, FileType
<1>4. QED
  BY <1>1, <1>3, MergeOnly

LEMMA MergeVerifyKeeps ==
    ASSUME SyncedKeysStay, TypeOK, HostInv, MergeVerify
    PROVE  TypeOK' /\ HostInv'
<1>1. /\ merges # <<>> /\ merge.pc = "verify"
      /\ UNCHANGED <<keyVars, fileVars, sessionVars, startVars>>
  BY DEF MergeVerify, Merging
<1>2. CASE MergeEnd
  BY <1>1, <1>2, MergeEndsUnwritten
<1>3. CASE MergeGo([merge EXCEPT !.pc = "seal"])
  <2>1. /\ merge' \in MergeType /\ merge'.pc = "seal" /\ merge'.slots = merge.slots
        /\ UNCHANGED <<merges, ui>>
    BY <1>3 DEF MergeGo, TypeOK, MergeType
  <2>2. merge.slots = Head(merges).vault
    BY <1>1 DEF HostInv, MergeInv
  <2>3. QED
    BY <1>1, <2>1, <2>2, MergeOnly
<1>4. QED
  BY <1>2, <1>3 DEF MergeVerify

(* The key loaded while a merge seals is the one it verified: nobody leaves
   the vault before the merge is done. *)
LEMMA MergeSealKeeps ==
    ASSUME SyncedKeysStay, TypeOK, HostInv, MergeSeal
    PROVE  TypeOK' /\ HostInv'
<1>1. /\ merges # <<>> /\ merge.pc = "seal"
      /\ UNCHANGED <<keyVars, fileVars, sessionVars, startVars>>
  BY DEF MergeSeal, Merging
<1>2. CASE MergeEnd
  BY <1>1, <1>2, MergeEndsUnwritten
<1>3. CASE vek # 0 /\ MergeGo([merge EXCEPT !.pc = "write", !.key = vek])
  <2>1. /\ merge' \in MergeType /\ merge'.pc = "write" /\ merge'.slots = merge.slots
        /\ merge'.key = vek /\ UNCHANGED <<merges, ui>>
    BY <1>3 DEF MergeGo, TypeOK, MergeType
  <2>2. merge.slots = Head(merges).vault
    BY <1>1 DEF HostInv, MergeInv
  <2>3. Head(merges).vault \notin risked => vek = active
    BY <1>1, <1>3, HeadIsSynced DEF HostInv, MergeInv, VekInv
  <2>4. QED
    BY <1>1, <2>1, <2>2, <2>3, MergeOnly
<1>4. QED
  BY <1>2, <1>3 DEF MergeSeal

LEMMA MergeWriteKeeps ==
    ASSUME SyncedKeysStay, TypeOK, HostInv, MergeWrite
    PROVE  TypeOK' /\ HostInv'
<1> DEFINE h == Head(merges).vault
           f == File(merge.slots, merge.key, live[h].rev + 1)
           snapshot == IF live[h] = None THEN bak ELSE [bak EXCEPT ![h] = live[h]]
<1>1. /\ merges # <<>> /\ merge.pc = "write" /\ MergeEnd
      /\ UNCHANGED <<keyVars, sessionVars, startVars>>
  BY DEF MergeWrite, Merging
<1>2. h \in Vault /\ h \in Existing /\ h \notin Rotates /\ live[h] \in FileType
  BY <1>1, HeadIsSynced
<1>3. merge.slots = h /\ (h \notin risked => merge.key = h) /\ merge.key \in Key
  BY <1>1 DEF HostInv, MergeInv, TypeOK, MergeType
<1> HIDE DEF h
<1>4. /\ f \in FileType /\ f.slots = h /\ f # None
      /\ h \notin risked => f.entries = h
  BY <1>2, <1>3, NoneAssumption DEF File, FileType, Key
<1>5. GoodFile(h, f)
  BY <1>2, <1>4, KeyAssumption DEF GoodFile
<1>6. PICK ok \in BOOLEAN : Write(h, f, ok)
  BY DEF MergeWrite, File1, h
<1>7. /\ live' = IF ok THEN [live EXCEPT ![h] = f] ELSE live
      /\ bak' = snapshot \/ bak' = bak
  <2>1. CASE ok
    BY <1>6, <2>1 DEF Write
  <2>2. CASE ~ok
    BY <1>6, <2>2 DEF Write
  <2>3. QED
    BY <2>1, <2>2
<1> HIDE DEF f
<1>8. /\ snapshot \in [Vault -> FileType \cup {None}]
      /\ \A v \in Vault : GoodFile(v, snapshot[v]) /\ (v # h => snapshot[v] = bak[v])
  BY <1>2 DEF TypeOK, HostInv, FileInv
<1> HIDE DEF snapshot
<1>9. /\ bak' \in [Vault -> FileType \cup {None}]
      /\ \A v \in Vault : GoodFile(v, bak'[v]) /\ (v # h => bak'[v] = bak[v])
  BY <1>7, <1>8 DEF TypeOK, HostInv, FileInv
<1>10. /\ live' \in [Vault -> FileType \cup {None}]
       /\ \A v \in Vault : v # h => live'[v] = live[v]
       /\ live'[h] = IF ok THEN f ELSE live[h]
  <2>1. live \in [Vault -> FileType \cup {None}]
    BY DEF TypeOK
  <2>2. QED
    BY <1>2, <1>4, <1>7, <2>1
<1>11. FileInv'
  <2>1. \A v \in Vault : GoodFile(v, live'[v])
    BY <1>5, <1>10 DEF HostInv, FileInv
  <2>2. \A v \in Existing : live'[v] # None
    BY <1>4, <1>10, VaultAssumption DEF HostInv, FileInv
  <2>3. QED
    BY <1>1, <1>9, <2>1, <2>2 DEF FileInv, GoodFile, startVars
<1>12. QED
  BY <1>1, <1>9, <1>10, <1>11, MergeEndKeeps DEF h

-----------------------------------------------------------------------------
LEMMA InitHolds ==
    ASSUME Init
    PROVE  TypeOK /\ HostInv
<1>1. live \in [Vault -> FileType \cup {None}] /\ bak \in [Vault -> FileType \cup {None}]
  BY DEF Init, File, FileType, Key
<1>2. \A v \in Existing : live[v] = File(v, v, 0) /\ File(v, v, 0) \in FileType
  BY VaultAssumption DEF Init, File, FileType, Key
<1>3. FileInv
  <2>1. \A v \in Vault : GoodFile(v, live[v])
    BY VaultAssumption, KeyAssumption DEF Init, File, GoodFile
  <2>2. \A v \in Vault : GoodFile(v, bak[v])
    BY DEF Init, GoodFile
  <2>3. QED
    BY <1>2, <2>1, <2>2, NoneAssumption DEF FileInv
<1>4. ui \in UiType /\ ui.op = "none" /\ ui.pc = "idle"
  BY IdleFields DEF Init
<1>5. merge \in MergeType /\ merge.pc = "idle" /\ start \in [Start -> StartType]
  BY DEF Init, NoMerge, NoStart, MergeType, StartType, Key
<1>6. merges \in Seq(Session) /\ Len(merges) = 0
  BY DEF Init
<1>7. TypeOK
  BY <1>1, <1>4, <1>5, <1>6 DEF Init, TypeOK, Key
<1>8. SessionInv
  BY DEF Init, SessionInv, NoStart
<1>9. MergeInv
  BY <1>4, <1>5, <1>6 DEF MergeInv
<1>10. UiInv /\ VekInv
  BY <1>4 DEF Init, UiInv, VekInv
<1>11. QED
  BY <1>3, <1>7, <1>8, <1>9, <1>10 DEF HostInv

LEMMA StepKeeps ==
    ASSUME SyncedKeysStay, TypeOK, HostInv, [Next]_vars
    PROVE  TypeOK' /\ HostInv'
<1>1. ASSUME NEW v \in Vault, Unlock(v) \/ CreateVault(v) PROVE TypeOK' /\ HostInv'
  BY <1>1, UnlockKeeps, CreateVaultKeeps
<1>2. CASE Edit \/ ChangePassword \/ RotateSecret
  BY <1>2, EditKeeps
<1>3. CASE UiStep
  BY <1>3, RetargetKeeps, RecordKeeps, UnwrapKeeps, GenerateVekKeeps, WrapKeeps, ReadKeeps,
     RewrapKeeps, RotateVekKeeps, SealKeeps, UiWriteKeeps, VerifyKeeps, VerifyFailsKeeps,
     RestoreAndLockKeeps DEF UiStep
<1>4. CASE Lock \/ LockForLifecycle
  BY <1>4, LockKeeps
<1>5. ASSUME NEW s \in Start, StartStep(s) PROVE TypeOK' /\ HostInv'
  BY <1>5, StartReadKeeps, StartPinKeeps, StartEndKeeps DEF StartStep
<1>6. ASSUME NEW r \in running, PushRemotePayload(r) PROVE TypeOK' /\ HostInv'
  BY <1>6, PushKeeps
<1>7. CASE MergeStep
  BY <1>7, MergeTurnKeeps, MergeReadKeeps, MergeVerifyKeeps, MergeSealKeeps, MergeWriteKeeps
     DEF MergeStep
<1>8. CASE UNCHANGED vars
  <2>1. UNCHANGED <<vek, minted, active, live, bak, rosterSession, sessionVaultId, sessionGen,
                    running, start, risked, merges, merge, ui>>
    BY <1>8 DEF vars, keyVars, fileVars, sessionVars, startVars, mergeVars
  <2>2. TypeOK'
    BY <2>1 DEF TypeOK
  <2>3. SessionInv' /\ MergeInv' /\ FileInv'
    BY <2>1 DEF HostInv, SessionInv, Owned, Alone, Current, Leaving, MergeInv, FileInv, GoodFile
  <2>4. UiInv' /\ VekInv'
    BY <2>1 DEF HostInv, UiInv, VekInv, GoodFile, Rotating
  <2>5. QED
    BY <2>2, <2>3, <2>4 DEF HostInv
<1>9. QED
  BY <1>1, <1>2, <1>3, <1>4, <1>5, <1>6, <1>7, <1>8 DEF Next

(* HostInv is an invariant: no step of the screens, of a start or of a merge,
   no lock and no failing write takes it away. *)
THEOREM InvariantHolds == SyncedKeysStay => (Spec => [](TypeOK /\ HostInv))
<1> SUFFICES ASSUME SyncedKeysStay PROVE Spec => [](TypeOK /\ HostInv)
  OBVIOUS
<1>1. Init => TypeOK /\ HostInv
  BY InitHolds
<1>2. TypeOK /\ HostInv /\ [Next]_vars => (TypeOK /\ HostInv)'
  BY StepKeeps
<1>3. QED
  BY <1>1, <1>2, PTL DEF Spec

(* Type correctness of the process, its files, sessions and screens. *)
THEOREM TypeCorrect == SyncedKeysStay => (Spec => []TypeOK)
<1> SUFFICES ASSUME SyncedKeysStay PROVE Spec => []TypeOK
  OBVIOUS
<1>1. Spec => [](TypeOK /\ HostInv)
  BY InvariantHolds
<1>2. QED
  BY <1>1, PTL

(* writeEntriesBlob takes the slots from the file and seals the entries under
   the loaded key; for any number of vaults, sessions, merges, operations,
   locks at any time and failing writes the two are of one key, in every vault
   that no session was pinned to or merging into when a disturbed start was pinned. *)
THEOREM FilesOpen == SyncedKeysStay => (Spec => []SlotsOpenEntries)
<1> SUFFICES ASSUME SyncedKeysStay PROVE Spec => []SlotsOpenEntries
  OBVIOUS
<1>1. Spec => [](TypeOK /\ HostInv)
  BY InvariantHolds
<1>2. HostInv => SlotsOpenEntries
  BY DEF HostInv, FileInv, GoodFile, SlotsOpenEntries
<1>3. QED
  BY <1>1, <1>2, PTL

(* retargetActiveVault and the locks stop the session before the key changes:
   every session whose start they did not interrupt. *)
THEOREM SessionsMatchKey == SyncedKeysStay => (Spec => []SessionIsOfLoadedVault)
<1> SUFFICES ASSUME SyncedKeysStay PROVE Spec => []SessionIsOfLoadedVault
  OBVIOUS
<1>1. Spec => [](TypeOK /\ HostInv)
  BY InvariantHolds
<1>2. TypeOK /\ HostInv => SessionIsOfLoadedVault
  <2>1. SUFFICES ASSUME TypeOK, HostInv, NEW r \in running, r.alone
                 PROVE  vek # 0 /\ vek = live[r.vault].slots
    BY DEF SessionIsOfLoadedVault
  <2>2. Owned(r) /\ r.vault \in Enrolled
    BY <2>1 DEF HostInv, SessionInv
  <2>3. r.vault = active /\ vek # 0 /\ ui.pc # "generate"
    BY <2>2 DEF Owned, Leaving
  <2>4. live[active] # None /\ active \notin Rotates
    BY <2>1, <2>2, <2>3, VaultAssumption DEF HostInv, FileInv, SyncedKeysStay
  <2>5. ~Rotating
    BY <2>1, <2>4 DEF HostInv, UiInv, Rotating
  <2>6. QED
    BY <2>1, <2>3, <2>4, <2>5, VekOpens
<1>3. QED
  BY <1>1, <1>2, PTL
===============================================================================
