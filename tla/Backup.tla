-------------------------------- MODULE Backup --------------------------------
(***************************************************************************)
(* Cloud backups of one device (core/src/backup, core/src/hooks/useBackup, *)
(* platform-extension/src/background/backup.ts): every vault has its own   *)
(* targets; a timer uploads a vault to those that are due and do not hold  *)
(* it yet, a button uploads it to any; both prune what they find in the    *)
(* target's folder.  Timer, button and panel read, change and write back   *)
(* the list of targets and know nothing of each other.                     *)
(*                                                                         *)
(* A snapshot holds the vault's sealed bytes, named by vault and revision: *)
(* every write of a vault gives bytes that never were before.  Time is     *)
(* what has passed since a target's last backup or failure; a run is short *)
(* against it, and no two snapshots are named in the same second.          *)
(***************************************************************************)
EXTENDS Naturals, Sequences, FiniteSets, FiniteSetsExt, SequencesExt

CONSTANTS Vault, Target, Folder,
          None,       \* no vault, no target, no hash
          First,      \* the first vault of the registry
          Keep,       \* snapshots to retain, at every target; 0: all
          Interval,   \* a frequency, in units of RETRY_BASE_MS
          Deletable,  \* vaults the user may delete
          Moves,      \* does the user move targets to other folders
          MaxEdits,   \* bound: writes of vaults
          MaxEvents   \* bound: what the user does and what fails, taken together

ASSUME VaultAssumption ==
    First \in Vault /\ None \notin Vault /\ None \notin Vault \X Nat /\ IsFiniteSet(Vault)
ASSUME KeepAssumption == Keep \in Nat /\ Interval \in Nat \ {0} /\ Moves \in BOOLEAN

VARIABLES reg,      \* the registry; its first vault is the default one
          blob,     \* vault -> revision of its bytes
          stored,   \* vault -> target -> its configuration
          panel,    \* the panel and its copy of a vault's list: [vault, list]
          unlocked, \* vaults whose key is resident
          active,   \* the active vault
          store,    \* the provider's folders: a set of snapshots
          stamp,    \* the last timestamp given to a snapshot
          session,  \* timer and button -> the run under way
          job,      \* timer and button -> target -> its upload
          edits, events

keyVars == <<unlocked, active>>
runVars == <<session, job>>
counters == <<edits, events>>
vars == <<reg, blob, stored, panel, keyVars, store, stamp, runVars, counters>>

Runner == {"timer", "button"}
NoList == [t \in Target |-> None]
NoPanel == [vault |-> None, list |-> NoList]
NoJob == [pc |-> "none", stamp |-> 0, doomed |-> {}]
NoJobs == [t \in Target |-> NoJob]
NoSession == [pc |-> "idle", pin |-> "none", left |-> <<>>, list |-> NoList]

Bytes(v) == <<v, blob[v]>>
Config(dest, shared, owner) ==
    [dest |-> dest, shared |-> shared, owner |-> owner, on |-> TRUE,
     hash |-> None, age |-> Interval, failures |-> 0, wait |-> 0]

Listed(list) == {t \in Target : list[t] # None}

\* Targets carried over from the time of one list for all vaults, sealed
\* under the vault that was active then, or targets of some vaults' own.
Init ==
    /\ reg = <<First>> \o SetToSeq(Vault \ {First})
    /\ blob = [v \in Vault |-> 0]
    /\ \E f \in Folder, t \in Target, shared \in BOOLEAN, S \in SUBSET Vault, o \in Vault :
          /\ IF shared THEN S = Vault ELSE o = First
          /\ stored = [v \in Vault |-> [NoList EXCEPT ![t] =
                IF v \in S THEN Config(f, shared, IF shared THEN o ELSE v) ELSE None]]
    /\ panel = NoPanel
    /\ unlocked = {} /\ active = None
    /\ store = {} /\ stamp = 0
    /\ session = [r \in Runner |-> NoSession]
    /\ job = [r \in Runner |-> NoJobs]
    /\ edits = 0 /\ events = 0

Event == events < MaxEvents /\ events' = events + 1
Faulty(fault) == IF fault THEN Event ELSE UNCHANGED events

-----------------------------------------------------------------------------
\* Where snapshots go, which are pruned and what is due (config.ts,
\* orchestrator.ts, schedule.ts).

\* targetPrefixFor, keyVaultIdFor
Dir(cfg, v, isDefault) == <<cfg.dest, IF cfg.shared /\ ~isDefault THEN v ELSE None>>
Tag(cfg, v) == IF cfg.shared THEN None ELSE v

AllButNewest(S) == {s \in S : Keep > 0 /\ Quantify(S, LAMBDA q : q.stamp > s.stamp) >= Keep}

\* Mutant: retention counts whatever is in the folder.
SelectAnyForPruning(dir, tag) == AllButNewest({s \in store : s.dir = dir})

\* selectForPruning: of the snapshots with this tag, or with none.
SelectForPruning(dir, tag) == AllButNewest({s \in store : s.dir = dir /\ s.tag = tag})

\* Doubled with every failure, at most a period of the target.
RetryDelay(failures) ==
    LET delay == 2 ^ (failures - 1) IN IF delay \in 1..Interval THEN delay ELSE Interval

\* Mutant: a target that failed is never due again.
IsDueUnlessFailed(cfg) == cfg.on /\ cfg.failures = 0 /\ cfg.age >= Interval

IsDue(cfg) == cfg.on /\ cfg.wait = 0 /\ cfg.age >= Interval
SelectDue(list, hash) == {t \in Listed(list) : IsDue(list[t]) /\ list[t].hash # hash}

ClearBackoff(cfg) == [cfg EXCEPT !.failures = 0, !.wait = 0]

\* applyBackupOutcomes
Outcome(cfg, result, hash) ==
    CASE result = "ok" -> [ClearBackoff(cfg) EXCEPT !.hash = hash, !.age = 0]
      [] result = "failed" -> [cfg EXCEPT !.failures = @ + 1,
                                          !.wait = RetryDelay(cfg.failures + 1)]
      [] OTHER -> cfg
ApplyOutcomes(list, jobs, hash) ==
    [t \in Target |-> IF list[t] = None THEN None ELSE Outcome(list[t], jobs[t].pc, hash)]

\* Time passes for every copy of a list.
Older(list) == [t \in Target |-> IF list[t] = None THEN None ELSE
    [list[t] EXCEPT !.age = IF @ < Interval THEN @ + 1 ELSE @,
                    !.wait = IF @ > 0 THEN @ - 1 ELSE 0]]

Tick ==
    /\ \A r \in Runner : session[r].pc = "idle"
    /\ stored' = [v \in Vault |-> Older(stored[v])]
    /\ panel' = [panel EXCEPT !.list = Older(@)]
    /\ <<stored', panel'>> # <<stored, panel>>
    /\ UNCHANGED <<reg, blob, keyVars, store, stamp, runVars, counters>>

-----------------------------------------------------------------------------
\* Runs.  One begun by an unlock is pinned to that session of the keys, one
\* begun by the alarm goes on while the active vault is unlocked.

Current(r) ==
    \/ session[r].pin \in {"panel", "session"}
    \/ session[r].pin = "alarm" /\ active \in unlocked

At(r, pc) == session[r].pc = pc
This(r) == Head(session[r].left)   \* the vault whose turn it is, as it was read

\* The run goes on; one that finds its session gone records nothing more.
Go(r, s, jobs) ==
    /\ session' = [session EXCEPT ![r] = IF Current(r) THEN s ELSE NoSession]
    /\ job' = [job EXCEPT ![r] = IF Current(r) THEN jobs ELSE NoJobs]

NextVault(r) ==
    Go(r, IF Len(session[r].left) = 1 THEN NoSession
          ELSE [session[r] EXCEPT !.pc = "load", !.left = Tail(@), !.list = NoList],
       NoJobs)

Begin(pin) == [NoSession EXCEPT !.pc = "list", !.pin = pin]

\* The alarm, or the start of a worker that finds its keys.
BackupAlarm ==
    /\ At("timer", "idle") /\ active \in unlocked
    /\ session' = [session EXCEPT !["timer"] = Begin("alarm")]
    /\ UNCHANGED <<reg, blob, stored, panel, keyVars, store, stamp, job, counters>>

\* Every vault's bytes are read first.
ListVaults ==
    /\ At("timer", "list")
    /\ IF reg = <<>> THEN Go("timer", NoSession, NoJobs)
       ELSE Go("timer", [session["timer"] EXCEPT
                !.pc = "load",
                !.left = [i \in DOMAIN reg |->
                    [vault |-> reg[i], bytes |-> Bytes(reg[i]), isDefault |-> i = 1]]], NoJobs)
    /\ UNCHANGED <<reg, blob, stored, panel, keyVars, store, stamp, counters>>

Opening(todo) == [t \in Target |-> IF t \in todo THEN [NoJob EXCEPT !.pc = "open"] ELSE NoJob]

\* A vault's targets are read, those selected that are due and changed.
LoadTargets ==
    LET list == stored[This("timer").vault]
        todo == SelectDue(list, This("timer").bytes) IN
    /\ At("timer", "load")
    /\ IF todo = {} THEN NextVault("timer")
       ELSE Go("timer", [session["timer"] EXCEPT !.pc = "upload", !.list = list], Opening(todo))
    /\ UNCHANGED <<reg, blob, stored, panel, keyVars, store, stamp, counters>>

\* Once nothing is left to do there the panel is closed (a bound).
LeftPanel == IF events' < MaxEvents THEN panel ELSE NoPanel

\* backupNow: one target or all of the panel's list, due or not.
BackupNow ==
    /\ At("button", "idle") /\ Event
    /\ \E todo \in SUBSET Listed(panel.list) :
          /\ todo = Listed(panel.list) \/ Cardinality(todo) = 1
          /\ todo # {}
          /\ job' = [job EXCEPT !["button"] = Opening(todo)]
    /\ session' = [session EXCEPT !["button"] =
          [pc |-> "list", pin |-> "panel", list |-> panel.list,
           left |-> <<[vault |-> panel.vault, bytes |-> None,
                       isDefault |-> panel.vault = reg[1]]>>]]
    /\ panel' = LeftPanel
    /\ UNCHANGED <<reg, blob, stored, keyVars, store, stamp, edits>>

\* readVaultBlob, which rejects for a vault that was deleted.
ReadVaultBlob ==
    LET v == This("button").vault IN
    /\ At("button", "list")
    /\ IF v \in Range(reg)
       THEN Go("button", [session["button"] EXCEPT !.pc = "upload", !.left[1].bytes = Bytes(v)],
               job["button"])
       ELSE Go("button", NoSession, NoJobs)
    /\ UNCHANGED <<reg, blob, stored, panel, keyVars, store, stamp, counters>>

-----------------------------------------------------------------------------
\* An upload: the timer's one after the other, the button's at once.

Its(r, t) == session[r].list[t]
ItsDir(r, t) == Dir(Its(r, t), This(r).vault, This(r).isDefault)
ItsTag(r, t) == Tag(Its(r, t), This(r).vault)

Uploads(r, pcs) == {t \in Target : job[r][t].pc \in pcs}
Is(r, t, pc) == At(r, "upload") /\ job[r][t].pc = pc
Become(r, t, j) == job' = [job EXCEPT ![r][t] = j] /\ UNCHANGED session
Finish(r, t, result) == Go(r, session[r], [job[r] EXCEPT ![t] = [NoJob EXCEPT !.pc = result]])

\* The timer tries every resident key, the button the active vault's.
Opens(r, cfg) == cfg.owner \in unlocked /\ (r = "button" => cfg.owner = active)

\* Credentials are unwrapped and the snapshot is named.  For the timer a
\* vault that is locked is not a failure.
OpenCreds(r, t) ==
    /\ Is(r, t, "open")
    /\ r = "timer" => Uploads(r, {"put", "list", "prune"}) = {}
    /\ IF Opens(r, Its(r, t)) /\ Current(r)
       THEN /\ stamp' = stamp + 1
            /\ Become(r, t, [pc |-> "put", stamp |-> stamp + 1, doomed |-> {}])
       ELSE /\ Finish(r, t, IF r = "timer" THEN "none" ELSE "failed")
            /\ UNCHANGED stamp
    /\ UNCHANGED <<reg, blob, stored, panel, keyVars, store, counters>>

\* put: it may fail, before or after it took effect.
Put(r, t) ==
    /\ Is(r, t, "put")
    /\ \E ok, done \in BOOLEAN :
          /\ ok => done
          /\ Faulty(~ok)
          /\ store' = IF done
                      THEN store \cup {[dir |-> ItsDir(r, t), tag |-> ItsTag(r, t),
                                        stamp |-> job[r][t].stamp, content |-> This(r).bytes]}
                      ELSE store
          /\ IF ok /\ Keep > 0 THEN Become(r, t, [job[r][t] EXCEPT !.pc = "list"])
             ELSE Finish(r, t, IF ok THEN "ok" ELSE "failed")
    /\ UNCHANGED <<reg, blob, stored, panel, keyVars, stamp, edits>>

\* list: if it fails the backup was made all the same.
ListRemote(r, t) ==
    LET doomed == SelectForPruning(ItsDir(r, t), ItsTag(r, t)) IN
    /\ Is(r, t, "list")
    /\ \E fault \in BOOLEAN :
          /\ Faulty(fault)
          /\ IF fault \/ doomed = {} THEN Finish(r, t, "ok")
             ELSE Become(r, t, [job[r][t] EXCEPT !.pc = "prune", !.doomed = doomed])
    /\ UNCHANGED <<reg, blob, stored, panel, keyVars, store, stamp, edits>>

\* remove, the newest first; so is one that fails.
Prune(r, t) ==
    LET doomed == job[r][t].doomed IN
    /\ Is(r, t, "prune")
    /\ \E s \in doomed, fault \in BOOLEAN :
          /\ \A q \in doomed : q.stamp <= s.stamp
          /\ Faulty(fault)
          /\ store' = IF fault THEN store ELSE store \ {s}
          /\ IF doomed = {s} THEN Finish(r, t, "ok")
             ELSE Become(r, t, [job[r][t] EXCEPT !.doomed = @ \ {s}])
    /\ UNCHANGED <<reg, blob, stored, panel, keyVars, stamp, edits>>

\* Mutant: what is recorded is the vault as it is by then.
FoldReadCurrent(r) ==
    LET v == This(r).vault IN
    /\ At(r, "upload") /\ Uploads(r, {"none", "ok", "failed"}) = Target
    /\ IF Uploads(r, {"ok", "failed"}) = {} THEN NextVault(r)
       ELSE Go(r, [session[r] EXCEPT !.pc = "save",
                                     !.list = ApplyOutcomes(stored[v], job[r], Bytes(v))], job[r])
    /\ UNCHANGED <<reg, blob, stored, panel, keyVars, store, stamp, counters>>

\* The list is read again and the results are folded into it; the button
\* falls back on its own copy if the list is gone with its vault.
FoldRead(r) ==
    LET v == This(r).vault
        latest == IF r = "button" /\ v \notin Range(reg) /\ stored[v] = NoList
                  THEN session[r].list ELSE stored[v] IN
    /\ At(r, "upload") /\ Uploads(r, {"none", "ok", "failed"}) = Target
    /\ IF Uploads(r, {"ok", "failed"}) = {} THEN NextVault(r)
       ELSE Go(r, [session[r] EXCEPT !.pc = "save",
                                     !.list = ApplyOutcomes(latest, job[r], This(r).bytes)], job[r])
    /\ UNCHANGED <<reg, blob, stored, panel, keyVars, store, stamp, counters>>

\* ... and written.
FoldSave(r) ==
    LET v == This(r).vault IN
    /\ At(r, "save")
    /\ stored' = [stored EXCEPT ![v] = session[r].list]
    /\ panel' = IF r = "button" /\ panel.vault = v THEN [panel EXCEPT !.list = session[r].list]
                ELSE panel
    /\ NextVault(r)
    /\ UNCHANGED <<reg, blob, keyVars, store, stamp, counters>>

Step(r) ==
    \/ r = "timer" /\ (ListVaults \/ LoadTargets)
    \/ r = "button" /\ ReadVaultBlob
    \/ \E t \in Target : OpenCreds(r, t) \/ Put(r, t) \/ ListRemote(r, t) \/ Prune(r, t)
    \/ FoldRead(r) \/ FoldSave(r)

-----------------------------------------------------------------------------
\* The panel, which changes its copy of the list and writes it whole.

OpenPanel ==
    /\ panel = NoPanel /\ active \in unlocked /\ events < MaxEvents
    /\ panel' = [vault |-> active, list |-> stored[active]]
    /\ UNCHANGED <<reg, blob, stored, keyVars, store, stamp, runVars, counters>>

\* The list was written by somebody else.
Reload ==
    /\ panel # NoPanel /\ panel.list # stored[panel.vault]
    /\ panel' = [panel EXCEPT !.list = stored[panel.vault]]
    /\ UNCHANGED <<reg, blob, stored, keyVars, store, stamp, runVars, counters>>

\* The user leaves the settings, or closes the popup and with it a run.
ClosePanel ==
    /\ panel # NoPanel
    /\ panel' = NoPanel
    /\ \/ UNCHANGED runVars
       \/ /\ session' = [session EXCEPT !["button"] = NoSession]
          /\ job' = [job EXCEPT !["button"] = NoJobs]
    /\ UNCHANGED <<reg, blob, stored, keyVars, store, stamp, counters>>

Persist(t, cfg) ==
    /\ panel # NoPanel /\ Event
    /\ panel' = [LeftPanel EXCEPT !.list[t] = IF LeftPanel = NoPanel THEN None ELSE cfg]
    /\ stored' = [stored EXCEPT ![panel.vault] = [panel.list EXCEPT ![t] = cfg]]
    /\ UNCHANGED <<reg, blob, keyVars, store, stamp, runVars, edits>>

SetFrequency(t) ==
    /\ panel.list[t] # None
    /\ Persist(t, [ClearBackoff(panel.list[t]) EXCEPT !.on = ~@])

\* Any field, perhaps with new credentials; a folder of its own ends the
\* shared layout.
UpdateTarget(t) ==
    LET cur == panel.list[t] IN
    /\ cur # None
    /\ \E f \in IF Moves THEN Folder ELSE {cur.dest}, owner \in {cur.owner, panel.vault} :
          Persist(t, [ClearBackoff(cur) EXCEPT !.dest = f, !.owner = owner,
                                               !.shared = @ /\ f = cur.dest])

\* Under an id that nothing bears.
AddTarget(t) ==
    /\ panel.list[t] = None
    /\ panel # NoPanel => stored[panel.vault][t] = None
    /\ \A r \in Runner : session[r].list[t] = None
    /\ \E f \in Folder : Persist(t, Config(f, FALSE, panel.vault))

RemoveTarget(t) == panel.list[t] # None /\ Persist(t, None)

-----------------------------------------------------------------------------
\* Keys, vaults and the worker.

\* The keys or the active vault change: pinned runs are not current any more.
Lapsed == [session EXCEPT !["timer"].pin = IF @ = "session" THEN "lapsed" ELSE @]

\* A vault is unlocked, which starts a run unless one is under way.
Unlock(v) ==
    /\ v \in Range(reg) \ unlocked
    /\ unlocked' = unlocked \cup {v} /\ active' = v
    /\ panel' = NoPanel
    /\ session' = IF At("timer", "idle") THEN [session EXCEPT !["timer"] = Begin("session")]
                  ELSE Lapsed
    /\ UNCHANGED <<reg, blob, stored, store, stamp, job, counters>>

\* Another unlocked vault is chosen.
SelectVault(v) ==
    /\ Event /\ v \in unlocked \ {active}
    /\ active' = v
    /\ panel' = NoPanel
    /\ session' = Lapsed
    /\ UNCHANGED <<reg, blob, stored, unlocked, store, stamp, job, edits>>

\* Mutant: the active vault stays chosen.
LockedStillActive ==
    unlocked' = {} /\ UNCHANGED active /\ panel' = NoPanel /\ session' = Lapsed

Locked == unlocked' = {} /\ active' = None /\ panel' = NoPanel /\ session' = Lapsed

Lock ==
    /\ Event /\ unlocked # {}
    /\ Locked
    /\ UNCHANGED <<reg, blob, stored, store, stamp, job, edits>>

\* deleteVault locks, then erases the vault, its targets and its record.
DeleteVault ==
    /\ Event /\ active \in unlocked \cap Deletable
    /\ \E i \in DOMAIN reg : reg[i] = active /\ reg' = RemoveAt(reg, i)
    /\ stored' = [stored EXCEPT ![active] = NoList]
    /\ Locked
    /\ UNCHANGED <<blob, store, stamp, job, edits>>

\* A mutation or a merge writes the vault.
Edit(v) ==
    /\ v \in unlocked /\ edits < MaxEdits
    /\ edits' = edits + 1
    /\ blob' = [blob EXCEPT ![v] = @ + 1]
    /\ UNCHANGED <<reg, stored, panel, keyVars, store, stamp, runVars, events>>

WorkerDies ==
    /\ ~At("timer", "idle") /\ Faulty(TRUE)
    /\ session' = [session EXCEPT !["timer"] = NoSession]
    /\ job' = [job EXCEPT !["timer"] = NoJobs]
    /\ UNCHANGED <<reg, blob, stored, panel, keyVars, store, stamp, edits>>

Next ==
    \/ \E r \in Runner : Step(r)
    \/ BackupAlarm \/ BackupNow \/ Tick
    \/ OpenPanel \/ Reload \/ ClosePanel
    \/ \E t \in Target : SetFrequency(t) \/ UpdateTarget(t) \/ AddTarget(t) \/ RemoveTarget(t)
    \/ \E v \in Vault : Unlock(v) \/ SelectVault(v) \/ Edit(v)
    \/ Lock \/ DeleteVault \/ WorkerDies

Spec == Init /\ [][Next]_vars

\* Runs go on, the alarm and the time come again and again, and the user
\* unlocks each vault at some time.
Fairness ==
    /\ \A r \in Runner : WF_vars(Step(r))
    /\ WF_vars(BackupAlarm) /\ SF_vars(Tick)
    /\ \A v \in Vault : WF_vars(Unlock(v))

FairSpec == Spec /\ Fairness

-----------------------------------------------------------------------------
Hash == {None} \cup (Vault \X Nat)
Cfg == [dest : Folder, shared : BOOLEAN, owner : Vault, on : BOOLEAN, hash : Hash,
        age : 0..Interval, failures : Nat, wait : 0..Interval]
List == [Target -> Cfg \cup {None}]
Snapshot == [dir : Folder \X (Vault \cup {None}), tag : Vault \cup {None},
             stamp : Nat, content : Vault \X Nat]
Turn == [vault : Vault, bytes : Hash, isDefault : BOOLEAN]
SessionType == [pc : {"idle", "list", "load", "upload", "save"}, list : List,
                pin : {"none", "panel", "alarm", "session", "lapsed"}, left : Seq(Turn)]
JobType == [pc : {"none", "open", "put", "list", "prune", "ok", "failed"},
            stamp : Nat, doomed : SUBSET Snapshot]

TypeOK ==
    /\ reg \in Seq(Vault)
    /\ blob \in [Vault -> Nat] /\ stored \in [Vault -> List]
    /\ panel \in [vault : Vault \cup {None}, list : List]
    /\ unlocked \in SUBSET Range(reg) /\ active \in unlocked \cup {None}
    /\ store \in SUBSET Snapshot /\ stamp \in Nat
    /\ session \in [Runner -> SessionType]
    /\ job \in [Runner -> [Target -> JobType]]

\* A snapshot of the vault as it is, where the target puts it.
Held(v, t) ==
    \E s \in store : s.content = Bytes(v) /\ s.dir = Dir(stored[v][t], v, v = reg[1])

\* run.ts:73, "every due target already holds this vault": a target that is
\* skipped because it recorded the vault's hash does hold it, whatever was
\* uploaded and pruned beside it.  So it is as long as no target is moved
\* (Moves), the default vault is not deleted (Deletable) and more snapshots
\* are kept than a vault has targets (Keep); without one of these it is not.
SkippedIsHeld ==
    \A v \in Range(reg) : \A t \in Listed(stored[v]) :
        stored[v][t].hash = Bytes(v) => Held(v, t)

\* orchestrator.ts:26, "a prune can only ever delete its own vault's files":
\* nothing goes that has not Keep newer snapshots of the same vault beside it.
RetentionHolds ==
    [][\A s \in store \ store' :
          Quantify(store', LAMBDA q : /\ q.dir = s.dir /\ q.content[1] = s.content[1]
                                      /\ q.stamp > s.stamp) >= Keep]_vars

\* A vault that no longer changes gets to every target with a schedule whose
\* credentials some vault still opens, whatever failed, lapsed or was
\* overwritten on the way.
BackedUp ==
    \A v \in Vault, t \in Target :
        <>[](/\ v \in Range(reg) /\ stored[v][t] # None /\ stored[v][t].on
             /\ stored[v][t].owner \in Range(reg)
             => Held(v, t))
================================================================================
