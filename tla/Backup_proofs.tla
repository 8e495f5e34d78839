---------------------------- MODULE Backup_proofs ----------------------------
(***************************************************************************)
(* Theorems about Backup, for any vaults, targets, folders and bounds, as   *)
(* long as the default vault is not deleted: retention never takes one of   *)
(* the Keep newest snapshots of a vault; and a target that is skipped       *)
(* because it recorded a vault's hash holds the vault, if targets stay in   *)
(* their folders and more snapshots are retained than a vault has targets.  *)
(*                                                                          *)
(* BackupInv says why.  What a run means to prune has Keep newer snapshots  *)
(* of its folder and tag (RunInv), and keeps them whatever the other run    *)
(* prunes, for that has Keep newer ones as well (RemovalSpares).  Folder    *)
(* and tag tell the vault (StoreInv), since one vault alone is the default  *)
(* one and stays it (RegInv).                                               *)
(***************************************************************************)
EXTENDS Backup, FiniteSetTheorems, SequenceTheorems, TLAPS

\* The default vault stays.
Stays == First \notin Deletable

\* The snapshots in S that retention would keep before q.
NewerIn(S, q) == {p \in S : p.dir = q.dir /\ p.tag = q.tag /\ p.stamp > q.stamp}
Superseded(S, q) == Cardinality(NewerIn(S, q)) >= Keep

\* Whose snapshot it is can be told from its tag and its folder.
VaultOf(s) == IF s.tag # None THEN s.tag ELSE IF s.dir[2] # None THEN s.dir[2] ELSE First

RegInv == reg \in Seq(Vault) /\ reg # <<>> /\ reg[1] = First

KeysInv == unlocked \in SUBSET Range(reg) /\ active \in unlocked \cup {None}

ListsInv ==
    /\ blob \in [Vault -> Nat] /\ stored \in [Vault -> List] /\ stamp \in Nat
    /\ panel \in [vault : Vault \cup {None}, list : List]
    /\ panel.vault = None => panel.list = NoList

StoreInv ==
    /\ store \in SUBSET Snapshot /\ IsFiniteSet(store)
    /\ \A s \in store : s.content[1] = VaultOf(s)

GoodSession(r, s) ==
    /\ s.pc = "idle" => s.list = NoList
    /\ s.pc \in {"load", "upload", "save"} => s.left # <<>>
    /\ r = "button" /\ s.pc = "list" => Len(s.left) = 1
    /\ \A i \in 1..Len(s.left) :
          /\ s.left[i].isDefault => s.left[i].vault = First
          /\ r = "timer" \/ s.pc # "list" =>
                s.left[i].bytes \in Vault \X Nat /\ s.left[i].bytes[1] = s.left[i].vault

GoodJobs(S, s, jobs) == \A t \in Target :
    /\ jobs[t].pc \in {"open", "put", "list", "prune"} => s.list[t] # None
    /\ \A q \in jobs[t].doomed : Superseded(S, q)

RunInv == \A r \in Runner : GoodSession(r, session[r]) /\ GoodJobs(store, session[r], job[r])

RunTypes ==
    /\ session \in [Runner -> SessionType]
    /\ job \in [Runner -> [Target -> JobType]]

BackupInv == RegInv /\ KeysInv /\ ListsInv /\ StoreInv /\ RunTypes /\ RunInv

-----------------------------------------------------------------------------
(* What retention would keep before a snapshot. *)
LEMMA NewerGrows ==
    ASSUME NEW T, IsFiniteSet(T), NEW S \in SUBSET T, NEW q
    PROVE  Cardinality(NewerIn(S, q)) <= Cardinality(NewerIn(T, q))
<1>1. IsFiniteSet(NewerIn(T, q))
  BY FS_Subset DEF NewerIn
<1>2. NewerIn(S, q) \in SUBSET NewerIn(T, q)
  BY DEF NewerIn
<1>3. QED
  BY <1>1, <1>2, FS_Subset

(* They can be counted. *)
LEMMA NewerCounts ==
    ASSUME NEW T, IsFiniteSet(T), NEW q
    PROVE  IsFiniteSet(NewerIn(T, q)) /\ Cardinality(NewerIn(T, q)) \in Nat
BY FS_Subset, FS_CardinalityType DEF NewerIn

(* Taking out a snapshot that has Keep newer ones takes them from nobody: if
   it was among those before q, so are they. *)
LEMMA RemovalSpares ==
    ASSUME NEW S \in SUBSET Snapshot, IsFiniteSet(S), NEW s \in Snapshot, NEW q \in Snapshot,
           Superseded(S, q), Superseded(S, s)
    PROVE  Superseded(S \ {s}, q)
<1>1. IsFiniteSet(S \ {s})
  BY FS_RemoveElement
<1>2. CASE s \in NewerIn(S, q)
  <2>1. NewerIn(S, s) \in SUBSET NewerIn(S \ {s}, q)
    BY <1>2 DEF NewerIn, Snapshot
  <2>2. Cardinality(NewerIn(S, s)) <= Cardinality(NewerIn(S \ {s}, q))
    BY <1>1, <2>1, NewerCounts, FS_Subset
  <2>3. QED
    BY <1>1, <2>2, NewerCounts, KeepAssumption DEF Superseded
<1>3. CASE s \notin NewerIn(S, q)
  <2>1. NewerIn(S \ {s}, q) = NewerIn(S, q)
    BY <1>3 DEF NewerIn
  <2>2. QED
    BY <2>1 DEF Superseded
<1>4. QED
  BY <1>2, <1>3

(* A snapshot that is added takes them from nobody either. *)
LEMMA GrowthSpares ==
    ASSUME NEW T, IsFiniteSet(T), NEW S \in SUBSET T, NEW q, Superseded(S, q)
    PROVE  Superseded(T, q)
<1>1. Cardinality(NewerIn(S, q)) <= Cardinality(NewerIn(T, q))
  BY NewerGrows
<1>2. IsFiniteSet(S)
  BY FS_Subset
<1>3. QED
  BY <1>1, <1>2, NewerCounts, KeepAssumption DEF Superseded

-----------------------------------------------------------------------------
(* What is left of a queue. *)
LEMMA EmptyLength == Len(<<>>) = 0
OBVIOUS

(* A queue without its head. *)
LEMMA TailOf ==
    ASSUME NEW S, NEW q \in Seq(S), q # <<>>, Len(q) # 1
    PROVE  /\ Tail(q) \in Seq(S) /\ Tail(q) # <<>>
           /\ \A i \in 1..Len(Tail(q)) : i + 1 \in 1..Len(q) /\ Tail(q)[i] = q[i + 1]
<1>1. Len(q) \in Nat \ {0}
  BY EmptySeq
<1>2. /\ Tail(q) \in Seq(S) /\ Len(Tail(q)) = Len(q) - 1
      /\ \A i \in 1..Len(Tail(q)) : Tail(q)[i] = q[i + 1]
  BY HeadTailProperties
<1>3. Len(Tail(q)) # 0
  BY <1>1, <1>2
<1>4. Tail(q) # <<>>
  BY <1>3, EmptyLength
<1>5. \A i \in 1..Len(Tail(q)) : i + 1 \in 1..Len(q)
  BY <1>1, <1>2
<1>6. QED
  BY <1>2, <1>4, <1>5

-----------------------------------------------------------------------------
(* Runs that do nothing. *)
LEMMA Nothing ==
    /\ NoList \in List
    /\ NoJob \in JobType /\ NoJobs \in [Target -> JobType]
    /\ NoSession \in SessionType /\ \A r : GoodSession(r, NoSession)
    /\ \A S, s : GoodJobs(S, s, NoJobs)
<1>1. NoList \in List
  BY DEF NoList, List
<1>2. NoJob \in JobType
  BY DEF NoJob, JobType
<1>3. NoJobs \in [Target -> JobType]
  BY <1>2 DEF NoJobs
<1>4. /\ NoSession.pc = "idle" /\ NoSession.list = NoList /\ NoSession.left = <<>>
      /\ NoSession \in SessionType
  BY <1>1 DEF NoSession, SessionType
<1>5. \A r : GoodSession(r, NoSession)
  BY <1>4 DEF GoodSession
<1>6. \A t \in Target : NoJobs[t].pc = "none" /\ NoJobs[t].doomed = {}
  BY DEF NoJobs, NoJob
<1>7. QED
  BY <1>1, <1>2, <1>3, <1>4, <1>5, <1>6 DEF GoodJobs

(* Uploads that begin. *)
LEMMA OpeningJobs ==
    ASSUME NEW todo, NEW S, NEW s, \A t \in todo : s.list[t] # None
    PROVE  Opening(todo) \in [Target -> JobType] /\ GoodJobs(S, s, Opening(todo))
<1>1. ASSUME NEW t \in Target
      PROVE  /\ Opening(todo)[t] \in JobType /\ Opening(todo)[t].doomed = {}
             /\ t \notin todo => Opening(todo)[t].pc = "none"
  BY DEF Opening, NoJob, JobType
<1>2. Opening(todo) \in [Target -> JobType]
  BY <1>1 DEF Opening
<1>3. QED
  BY <1>1, <1>2 DEF GoodJobs

(* Of a run that is idle nothing is left. *)
LEMMA IdleJobs ==
    ASSUME NEW r \in Runner, GoodSession(r, session[r]), GoodJobs(store, session[r], job[r]),
           session[r].pc = "idle", NEW s
    PROVE  GoodJobs(store, s, job[r])
BY DEF GoodSession, GoodJobs, NoList

(* One run has a new state, and no snapshot lost what supersedes it. *)
LEMMA RunChanges ==
    ASSUME RunTypes, RunInv, NEW r \in Runner,
           NEW s \in SessionType, NEW jobs \in [Target -> JobType],
           session' = [session EXCEPT ![r] = s], job' = [job EXCEPT ![r] = jobs],
           GoodSession(r, s), GoodJobs(store', s, jobs),
           \A q \in Snapshot : Superseded(store, q) => Superseded(store', q)
    PROVE  RunTypes' /\ RunInv'
<1>1. RunTypes'
  BY DEF RunTypes
<1>2. /\ session'[r] = s /\ job'[r] = jobs
      /\ \A k \in Runner : k # r => session'[k] = session[k] /\ job'[k] = job[k]
  BY DEF RunTypes
<1>3. ASSUME NEW k \in Runner
      PROVE  GoodSession(k, session'[k]) /\ GoodJobs(store', session'[k], job'[k])
  <2>1. CASE k = r
    BY <1>2, <2>1
  <2>2. CASE k # r
    <3>1. GoodSession(k, session[k]) /\ GoodJobs(store, session[k], job[k])
      BY DEF RunInv
    <3>2. \A t \in Target : job[k][t].doomed \in SUBSET Snapshot
      BY DEF RunTypes, JobType
    <3>3. GoodJobs(store', session[k], job[k])
      BY <3>1, <3>2 DEF GoodJobs
    <3>4. QED
      BY <1>2, <2>2, <3>1, <3>3
  <2>3. QED
    BY <2>1, <2>2
<1>4. RunInv'
  BY <1>3 DEF RunInv, GoodSession, GoodJobs, Superseded, NewerIn
<1>5. QED
  BY <1>1, <1>4

(* A run goes on or, its session gone, ends. *)
LEMMA GoKeeps ==
    ASSUME RunTypes, RunInv, NEW r \in Runner,
           NEW s \in SessionType, NEW jobs \in [Target -> JobType], Go(r, s, jobs),
           GoodSession(r, s), GoodJobs(store', s, jobs),
           \A q \in Snapshot : Superseded(store, q) => Superseded(store', q)
    PROVE  RunTypes' /\ RunInv'
<1>1. CASE Current(r)
  BY <1>1, RunChanges DEF Go
<1>2. CASE ~Current(r)
  <2>1. session' = [session EXCEPT ![r] = NoSession] /\ job' = [job EXCEPT ![r] = NoJobs]
    BY <1>2 DEF Go
  <2>2. QED
    BY <2>1, Nothing, RunChanges
<1>3. QED
  BY <1>1, <1>2

(* An upload has a new state. *)
LEMMA BecomeKeeps ==
    ASSUME RunTypes, RunInv, NEW r \in Runner, NEW t \in Target, NEW j \in JobType,
           Become(r, t, j), session[r].list[t] # None,
           \A q \in j.doomed : Superseded(store', q),
           \A q \in Snapshot : Superseded(store, q) => Superseded(store', q)
    PROVE  RunTypes' /\ RunInv'
<1> DEFINE jobs == [job[r] EXCEPT ![t] = j]
<1>1. job[r] \in [Target -> JobType] /\ session[r] \in SessionType
  BY DEF RunTypes
<1>2. /\ job' = [job EXCEPT ![r] = jobs]
      /\ session' = [session EXCEPT ![r] = session[r]]
  BY DEF Become, RunTypes
<1>3. /\ jobs \in [Target -> JobType] /\ jobs[t] = j
      /\ \A u \in Target : u # t => jobs[u] = job[r][u]
  BY <1>1
<1> HIDE DEF jobs
<1>4. GoodSession(r, session[r]) /\ GoodJobs(store, session[r], job[r])
  BY DEF RunInv
<1>5. \A u \in Target : job[r][u].doomed \in SUBSET Snapshot
  BY <1>1 DEF JobType
<1>6. GoodJobs(store', session[r], jobs)
  BY <1>3, <1>4, <1>5 DEF GoodJobs
<1>7. QED
  BY <1>1, <1>2, <1>3, <1>4, <1>6, RunChanges

(* An upload is over. *)
LEMMA FinishKeeps ==
    ASSUME RunTypes, RunInv, NEW r \in Runner, NEW t \in Target,
           NEW result \in {"none", "ok", "failed"}, Finish(r, t, result),
           \A q \in Snapshot : Superseded(store, q) => Superseded(store', q)
    PROVE  RunTypes' /\ RunInv'
<1> DEFINE j == [NoJob EXCEPT !.pc = result]
           jobs == [job[r] EXCEPT ![t] = j]
<1>1. job[r] \in [Target -> JobType] /\ session[r] \in SessionType
  BY DEF RunTypes
<1>2. j \in JobType /\ j.pc = result /\ j.doomed = {}
  BY DEF NoJob, JobType
<1>3. Go(r, session[r], jobs)
  BY DEF Finish
<1> HIDE DEF j
<1>4. /\ jobs \in [Target -> JobType] /\ jobs[t] = j
      /\ \A u \in Target : u # t => jobs[u] = job[r][u]
  BY <1>1, <1>2
<1> HIDE DEF jobs
<1>5. GoodSession(r, session[r]) /\ GoodJobs(store, session[r], job[r])
  BY DEF RunInv
<1>6. \A u \in Target : job[r][u].doomed \in SUBSET Snapshot
  BY <1>1 DEF JobType
<1>7. GoodJobs(store', session[r], jobs)
  BY <1>2, <1>4, <1>5, <1>6 DEF GoodJobs
<1>8. QED
  BY <1>1, <1>3, <1>4, <1>5, <1>7, GoKeeps

(* A vault is done. *)
LEMMA NextVaultKeeps ==
    ASSUME RunTypes, RunInv, NEW r \in Runner, NextVault(r), store' = store,
           session[r].pc \in {"load", "upload", "save"}
    PROVE  RunTypes' /\ RunInv'
<1>1. /\ session[r] \in SessionType /\ session[r].left \in Seq(Turn) /\ session[r].left # <<>>
      /\ GoodSession(r, session[r])
  BY DEF RunTypes, SessionType, RunInv, GoodSession
<1>2. CASE Len(session[r].left) = 1
  BY <1>2, Nothing, GoKeeps DEF NextVault
<1>3. CASE Len(session[r].left) # 1
  <2> DEFINE s == [session[r] EXCEPT !.pc = "load", !.left = Tail(@), !.list = NoList]
  <2>1. /\ Tail(session[r].left) \in Seq(Turn) /\ Tail(session[r].left) # <<>>
        /\ \A i \in 1..Len(Tail(session[r].left)) :
              /\ i + 1 \in 1..Len(session[r].left)
              /\ Tail(session[r].left)[i] = session[r].left[i + 1]
    BY <1>1, <1>3, TailOf
  <2>2. /\ s \in SessionType /\ s.pc = "load" /\ s.left = Tail(session[r].left)
    BY <1>1, <2>1, Nothing DEF SessionType
  <2>3. Go(r, s, NoJobs)
    BY <1>3 DEF NextVault
  <2> HIDE DEF s
  <2>4. GoodSession(r, s)
    BY <1>1, <2>1, <2>2 DEF GoodSession
  <2>5. QED
    BY <2>2, <2>3, <2>4, Nothing, GoKeeps
<1>4. QED
  BY <1>2, <1>3

-----------------------------------------------------------------------------
(* What a target's configuration becomes. *)
LEMMA RetryDelayBound ==
    ASSUME NEW failures
    PROVE  RetryDelay(failures) \in 0..Interval
BY KeepAssumption DEF RetryDelay

(* Fields of a configuration are set. *)
LEMMA SetBackoff ==
    ASSUME NEW cfg \in Cfg, NEW n \in Nat, NEW w \in 0..Interval
    PROVE  [cfg EXCEPT !.failures = n, !.wait = w] \in Cfg
BY DEF Cfg

(* ... those that record a backup. *)
LEMMA SetHash ==
    ASSUME NEW cfg \in Cfg, NEW hash \in Hash, NEW age \in 0..Interval
    PROVE  [cfg EXCEPT !.hash = hash, !.age = age] \in Cfg
BY DEF Cfg

(* A backoff is forgotten. *)
LEMMA ClearBackoffType ==
    ASSUME NEW cfg \in Cfg
    PROVE  ClearBackoff(cfg) \in Cfg
<1>1. 0 \in Nat /\ 0 \in 0..Interval
  BY KeepAssumption
<1>2. QED
  BY <1>1, SetBackoff DEF ClearBackoff

(* A result is recorded. *)
LEMMA OutcomeType ==
    ASSUME NEW cfg \in Cfg, NEW result, NEW hash \in Hash
    PROVE  Outcome(cfg, result, hash) \in Cfg
<1>1. CASE result = "ok"
  <2>1. 0 \in 0..Interval
    BY KeepAssumption
  <2>2. [ClearBackoff(cfg) EXCEPT !.hash = hash, !.age = 0] \in Cfg
    BY <2>1, ClearBackoffType, SetHash
  <2>3. QED
    BY <1>1, <2>2 DEF Outcome
<1>2. CASE result = "failed"
  <2>1. cfg.failures + 1 \in Nat
    BY DEF Cfg
  <2>2. [cfg EXCEPT !.failures = cfg.failures + 1,
                    !.wait = RetryDelay(cfg.failures + 1)] \in Cfg
    BY <2>1, RetryDelayBound, SetBackoff
  <2>3. QED
    BY <1>2, <2>2 DEF Outcome
<1>3. CASE result \notin {"ok", "failed"}
  BY <1>3 DEF Outcome
<1>4. QED
  BY <1>1, <1>2, <1>3

(* All the results of a run are. *)
LEMMA ApplyOutcomesType ==
    ASSUME NEW list \in List, NEW jobs, NEW hash \in Hash
    PROVE  ApplyOutcomes(list, jobs, hash) \in List
<1>1. \A t \in Target : list[t] # None => list[t] \in Cfg
  BY DEF List
<1>2. QED
  BY <1>1, OutcomeType DEF ApplyOutcomes, List

(* Time passes. *)
LEMMA OlderType ==
    ASSUME NEW list \in List
    PROVE  Older(list) \in List
<1>1. ASSUME NEW t \in Target, list[t] # None
      PROVE  [list[t] EXCEPT !.age = IF @ < Interval THEN @ + 1 ELSE @,
                             !.wait = IF @ > 0 THEN @ - 1 ELSE 0] \in Cfg
  <2>1. list[t] \in Cfg
    BY <1>1 DEF List
  <2> DEFINE age == IF list[t].age < Interval THEN list[t].age + 1 ELSE list[t].age
             wait == IF list[t].wait > 0 THEN list[t].wait - 1 ELSE 0
  <2>2. age \in 0..Interval /\ wait \in 0..Interval
    BY <2>1, KeepAssumption DEF Cfg
  <2> HIDE DEF age, wait
  <2>3. [list[t] EXCEPT !.age = age, !.wait = wait] \in Cfg
    BY <2>1, <2>2 DEF Cfg
  <2>4. QED
    BY <2>3 DEF age, wait
<1>2. QED
  BY <1>1 DEF Older, List

(* A snapshot is named for its vault. *)
LEMMA Named ==
    ASSUME NEW cfg \in Cfg, NEW v \in Vault, NEW isDefault \in BOOLEAN,
           isDefault => v = First, NEW n \in Nat, NEW c \in Vault \X Nat, c[1] = v,
           NEW s, s = [dir |-> Dir(cfg, v, isDefault), tag |-> Tag(cfg, v),
                       stamp |-> n, content |-> c]
    PROVE  s \in Snapshot /\ s.content[1] = VaultOf(s)
<1>1. cfg.dest \in Folder /\ cfg.shared \in BOOLEAN
  BY DEF Cfg
<1>2. s \in Snapshot
  BY <1>1 DEF Snapshot, Dir, Tag
<1>3. /\ s.content[1] = v /\ s.tag = Tag(cfg, v)
      /\ s.dir[2] = IF cfg.shared /\ ~isDefault THEN v ELSE None
  BY DEF Dir
<1>4. VaultOf(s) = v
  BY <1>1, <1>3, VaultAssumption DEF VaultOf, Tag
<1>5. QED
  BY <1>2, <1>3, <1>4

-----------------------------------------------------------------------------
(* Nothing happened to the store. *)
LEMMA Unmoved ==
    ASSUME StoreInv, store' = store
    PROVE  /\ StoreInv'
           /\ \A q \in Snapshot : Superseded(store, q) => Superseded(store', q)
BY DEF StoreInv, VaultOf

(* What a step of a run does not touch. *)
LEMMA Untouched ==
    ASSUME BackupInv, UNCHANGED <<reg, blob, stored, panel, keyVars, stamp>>
    PROVE  RegInv' /\ KeysInv' /\ ListsInv'
BY DEF BackupInv, RegInv, KeysInv, ListsInv, keyVars

(* The vault whose turn it is. *)
LEMMA ThisTurn ==
    ASSUME BackupInv, NEW r \in Runner,
           \/ session[r].pc \in {"load", "upload", "save"}
           \/ session[r].pc = "list" /\ r = "button"
    PROVE  /\ session[r] \in SessionType /\ GoodSession(r, session[r])
           /\ session[r].left # <<>>
           /\ session[r].left \in Seq(Turn)
           /\ This(r) \in Turn
           /\ This(r).isDefault => This(r).vault = First
           /\ session[r].pc # "list" => This(r).bytes \in Vault \X Nat
                                       /\ This(r).bytes[1] = This(r).vault
<1>1. /\ session[r] \in SessionType /\ GoodSession(r, session[r])
      /\ session[r].left \in Seq(Turn)
  BY DEF BackupInv, RunTypes, RunInv, SessionType
<1>2. session[r].left # <<>>
  BY <1>1, EmptyLength DEF GoodSession
<1>3. Len(session[r].left) \in Nat \ {0} /\ This(r) = session[r].left[1] /\ This(r) \in Turn
  BY <1>1, <1>2 DEF This
<1>4. 1 \in 1..Len(session[r].left)
  BY <1>3
<1>5. QED
  BY <1>1, <1>2, <1>3, <1>4 DEF GoodSession, Runner

(* The timer has begun a run. *)
LEMMA BegunKeeps ==
    ASSUME BackupInv, NEW pin \in {"alarm", "session"}, At("timer", "idle"),
           session' = [session EXCEPT !["timer"] = Begin(pin)], UNCHANGED <<store, job>>
    PROVE  StoreInv' /\ RunTypes' /\ RunInv'
<1> DEFINE s == Begin(pin)
<1>1. "timer" \in Runner /\ StoreInv
  BY DEF Runner, BackupInv
<1>2. s \in SessionType /\ GoodSession("timer", s)
  BY Nothing DEF Begin, NoSession, SessionType, GoodSession
<1>3. /\ job["timer"] \in [Target -> JobType] /\ job' = [job EXCEPT !["timer"] = job["timer"]]
      /\ session' = [session EXCEPT !["timer"] = s]
  BY <1>1 DEF BackupInv, RunTypes
<1> HIDE DEF s
<1>4. GoodJobs(store', s, job["timer"])
  BY <1>1, IdleJobs DEF BackupInv, RunInv, At
<1>5. QED
  BY <1>1, <1>2, <1>3, <1>4, Unmoved, RunChanges DEF BackupInv

(* The alarm begins a run. *)
LEMMA BackupAlarmKeeps == BackupInv /\ BackupAlarm => BackupInv'
<1> SUFFICES ASSUME BackupInv, BackupAlarm
             PROVE  BackupInv'
  OBVIOUS
<1>1. RegInv' /\ KeysInv' /\ ListsInv'
  BY Untouched DEF BackupAlarm
<1>2. StoreInv' /\ RunTypes' /\ RunInv'
  BY BegunKeeps DEF BackupAlarm
<1>3. QED
  BY <1>1, <1>2 DEF BackupInv

(* The timer's vaults are listed; only the first is the default one. *)
LEMMA ListVaultsKeeps == BackupInv /\ ListVaults => BackupInv'
<1> SUFFICES ASSUME BackupInv, ListVaults
             PROVE  BackupInv'
  OBVIOUS
<1> DEFINE turn(i) == [vault |-> reg[i], bytes |-> Bytes(reg[i]), isDefault |-> i = 1]
           left == [i \in DOMAIN reg |-> turn(i)]
           s == [session["timer"] EXCEPT !.pc = "load", !.left = left]
<1>1. RegInv' /\ KeysInv' /\ ListsInv' /\ store' = store /\ StoreInv
  BY Untouched DEF BackupInv, ListVaults
<1>2. reg \in Seq(Vault) /\ reg # <<>> /\ reg[1] = First
  BY DEF BackupInv, RegInv
<1>3. /\ Len(reg) \in Nat \ {0} /\ DOMAIN reg = 1..Len(reg)
      /\ \A i \in 1..Len(reg) : reg[i] \in Vault
  BY <1>2
<1>4. /\ \A i \in 1..Len(reg) : Bytes(reg[i]) \in Vault \X Nat /\ Bytes(reg[i])[1] = reg[i]
      /\ session["timer"] \in SessionType
  BY <1>3 DEF BackupInv, ListsInv, Bytes, RunTypes, Runner
<1>5. \A i \in 1..Len(reg) :
         /\ turn(i) \in Turn
         /\ turn(i).isDefault => turn(i).vault = First
         /\ turn(i).bytes \in Vault \X Nat /\ turn(i).bytes[1] = turn(i).vault
  BY <1>2, <1>3, <1>4 DEF Turn, Hash
<1> HIDE DEF turn
<1>6. left \in Seq(Turn) /\ Len(left) = Len(reg) /\ \A i \in 1..Len(reg) : left[i] = turn(i)
  BY <1>3, <1>5
<1> HIDE DEF left
<1>7. left # <<>>
  BY <1>3, <1>6, EmptyLength
<1>8. s \in SessionType /\ s.pc = "load" /\ s.left = left
  BY <1>4, <1>6 DEF SessionType
<1>9. Go("timer", s, NoJobs)
  BY <1>2 DEF ListVaults, left, turn
<1> HIDE DEF s
<1>10. GoodSession("timer", s)
  BY <1>5, <1>6, <1>7, <1>8 DEF GoodSession
<1>11. RunTypes' /\ RunInv'
  BY <1>1, <1>8, <1>9, <1>10, Nothing, Unmoved, GoKeeps DEF BackupInv, Runner
<1>12. QED
  BY <1>1, <1>11, Unmoved DEF BackupInv

(* Uploads begin for targets of the list that was read. *)
LEMMA LoadTargetsKeeps == BackupInv /\ LoadTargets => BackupInv'
<1> SUFFICES ASSUME BackupInv, LoadTargets
             PROVE  BackupInv'
  OBVIOUS
<1> DEFINE list == stored[This("timer").vault]
           todo == SelectDue(list, This("timer").bytes)
           s == [session["timer"] EXCEPT !.pc = "upload", !.list = list]
<1>1. RegInv' /\ KeysInv' /\ ListsInv' /\ store' = store /\ StoreInv
  BY Untouched DEF BackupInv, LoadTargets
<1>2. session["timer"].pc \in {"load", "upload", "save"} /\ "timer" \in Runner
  BY DEF LoadTargets, At, Runner
<1>3. CASE todo = {}
  BY <1>1, <1>2, <1>3, Unmoved, NextVaultKeeps DEF BackupInv, LoadTargets
<1>4. CASE todo # {}
  <2>1. /\ session["timer"] \in SessionType /\ GoodSession("timer", session["timer"])
        /\ session["timer"].left # <<>> /\ This("timer") \in Turn
    BY <1>2, ThisTurn
  <2>2. list \in List
    BY <2>1 DEF BackupInv, ListsInv, Turn
  <2>3. \A t \in todo : list[t] # None
    BY DEF SelectDue, Listed
  <2>4. Go("timer", s, Opening(todo))
    BY <1>4 DEF LoadTargets
  <2> HIDE DEF list, todo
  <2>5. /\ s \in SessionType /\ s.pc = "upload" /\ s.left = session["timer"].left
        /\ s.list = list
    BY <2>1, <2>2 DEF SessionType
  <2> HIDE DEF s
  <2>6. GoodSession("timer", s)
    BY <2>1, <2>5 DEF GoodSession
  <2>7. Opening(todo) \in [Target -> JobType] /\ GoodJobs(store', s, Opening(todo))
    BY <2>3, <2>5, OpeningJobs
  <2>8. RunTypes' /\ RunInv'
    BY <1>1, <1>2, <2>4, <2>5, <2>6, <2>7, Unmoved, GoKeeps DEF BackupInv
  <2>9. QED
    BY <1>1, <2>8, Unmoved DEF BackupInv
<1>5. QED
  BY <1>3, <1>4

(* The button's vault is read. *)
LEMMA ReadVaultBlobKeeps == BackupInv /\ ReadVaultBlob => BackupInv'
<1> SUFFICES ASSUME BackupInv, ReadVaultBlob
             PROVE  BackupInv'
  OBVIOUS
<1> DEFINE v == This("button").vault
           left == session["button"].left
           s == [session["button"] EXCEPT !.pc = "upload", !.left[1].bytes = Bytes(v)]
<1>1. RegInv' /\ KeysInv' /\ ListsInv' /\ store' = store /\ StoreInv
  BY Untouched DEF BackupInv, ReadVaultBlob
<1>2. session["button"].pc = "list" /\ "button" \in Runner
  BY DEF ReadVaultBlob, At, Runner
<1>3. CASE v \notin Range(reg)
  <2>1. Go("button", NoSession, NoJobs)
    BY <1>3 DEF ReadVaultBlob
  <2>2. RunTypes' /\ RunInv'
    BY <1>1, <1>2, <2>1, Nothing, Unmoved, GoKeeps DEF BackupInv
  <2>3. QED
    BY <1>1, <2>2, Unmoved DEF BackupInv
<1>4. CASE v \in Range(reg)
  <2>1. Go("button", s, job["button"])
    BY <1>4 DEF ReadVaultBlob
  <2>2. /\ session["button"] \in SessionType /\ left \in Seq(Turn) /\ Len(left) = 1
        /\ left[1] \in Turn /\ left[1].vault = v
        /\ left[1].isDefault => v = First
    BY <1>2, ThisTurn DEF GoodSession, This
  <2>3. Bytes(v) \in Vault \X Nat /\ Bytes(v)[1] = v
    BY <2>2 DEF BackupInv, ListsInv, Bytes, Turn
  <2> DEFINE turn == [left[1] EXCEPT !.bytes = Bytes(v)]
             next == [left EXCEPT ![1] = turn]
  <2>4. /\ turn \in Turn /\ turn.bytes = Bytes(v) /\ turn.vault = v
        /\ turn.isDefault => v = First
    BY <2>2, <2>3 DEF Turn, Hash
  <2> HIDE DEF turn
  <2>5. next \in Seq(Turn) /\ Len(next) = 1 /\ next[1] = turn
    BY <2>2, <2>4
  <2>6. s = [session["button"] EXCEPT !.pc = "upload", !.left = next]
    BY DEF turn
  <2> HIDE DEF next, s
  <2>7. /\ s \in SessionType /\ s.pc = "upload" /\ s.left = next
        /\ s.list = session["button"].list
    BY <2>2, <2>5, <2>6 DEF SessionType
  <2>8. next # <<>> /\ \A i \in 1..Len(next) : next[i] = turn
    BY <2>5, EmptyLength
  <2>9. GoodSession("button", s)
    BY <2>3, <2>4, <2>7, <2>8 DEF GoodSession
  <2>10. job["button"] \in [Target -> JobType] /\ GoodJobs(store', s, job["button"])
    BY <1>1, <1>2, <2>7 DEF BackupInv, RunTypes, RunInv, GoodJobs
  <2>11. RunTypes' /\ RunInv'
    BY <1>1, <1>2, <2>1, <2>7, <2>9, <2>10, Unmoved, GoKeeps DEF BackupInv
  <2>12. QED
    BY <1>1, <2>11, Unmoved DEF BackupInv
<1>5. QED
  BY <1>3, <1>4

-----------------------------------------------------------------------------
(* The steps of an upload. *)
LEMMA Uploading ==
    ASSUME BackupInv, NEW r \in Runner, NEW t \in Target,
           Is(r, t, "open") \/ Is(r, t, "put") \/ Is(r, t, "list") \/ Is(r, t, "prune")
    PROVE  /\ session[r].list[t] # None /\ Its(r, t) \in Cfg /\ This(r) \in Turn
           /\ This(r).isDefault => This(r).vault = First
           /\ This(r).bytes \in Vault \X Nat /\ This(r).bytes[1] = This(r).vault
           /\ job[r][t] \in JobType /\ \A q \in job[r][t].doomed : Superseded(store, q)
<1>1. /\ session[r].pc = "upload" /\ job[r][t].pc \in {"open", "put", "list", "prune"}
      /\ session[r].pc \in {"load", "upload", "save"}
  BY DEF Is, At
<1>2. /\ session[r] \in SessionType /\ GoodJobs(store, session[r], job[r])
      /\ job[r][t] \in JobType
  BY DEF BackupInv, RunTypes, RunInv
<1>3. session[r].list[t] # None /\ \A q \in job[r][t].doomed : Superseded(store, q)
  BY <1>1, <1>2 DEF GoodJobs
<1>4. Its(r, t) \in Cfg
  BY <1>2, <1>3 DEF Its, SessionType, List
<1>5. QED
  BY <1>1, <1>2, <1>3, <1>4, ThisTurn

(* Credentials are unwrapped, and the snapshot is named. *)
LEMMA OpenCredsKeeps ==
    ASSUME BackupInv, NEW r \in Runner, NEW t \in Target, OpenCreds(r, t)
    PROVE  BackupInv'
<1>1. store' = store /\ StoreInv
  BY DEF OpenCreds, BackupInv
<1>2. session[r].list[t] # None
  BY Uploading DEF OpenCreds
<1>3. CASE Opens(r, Its(r, t)) /\ Current(r)
  <2> DEFINE j == [pc |-> "put", stamp |-> stamp + 1, doomed |-> {}]
  <2>1. stamp' \in Nat /\ j \in JobType /\ j.doomed = {}
    BY <1>3 DEF OpenCreds, BackupInv, ListsInv, JobType
  <2>2. Become(r, t, j)
    BY <1>3 DEF OpenCreds
  <2> HIDE DEF j
  <2>3. RunTypes' /\ RunInv'
    BY <1>1, <1>2, <2>1, <2>2, Unmoved, BecomeKeeps DEF BackupInv
  <2>4. RegInv' /\ KeysInv' /\ ListsInv'
    BY <2>1 DEF BackupInv, OpenCreds, RegInv, KeysInv, ListsInv, keyVars
  <2>5. QED
    BY <1>1, <2>3, <2>4, Unmoved DEF BackupInv
<1>4. CASE ~(Opens(r, Its(r, t)) /\ Current(r))
  <2>1. Finish(r, t, "none") \/ Finish(r, t, "failed")
    BY <1>4 DEF OpenCreds
  <2>2. RunTypes' /\ RunInv'
    BY <1>1, <2>1, Unmoved, FinishKeeps DEF BackupInv
  <2>3. UNCHANGED <<reg, blob, stored, panel, keyVars, stamp>>
    BY <1>4 DEF OpenCreds
  <2>4. QED
    BY <1>1, <2>2, <2>3, Untouched, Unmoved DEF BackupInv
<1>5. QED
  BY <1>3, <1>4

(* A snapshot is put: it is named for its vault, and none goes. *)
LEMMA PutKeeps ==
    ASSUME BackupInv, NEW r \in Runner, NEW t \in Target, Put(r, t)
    PROVE  BackupInv' /\ store \in SUBSET store'
<1> DEFINE s == [dir |-> ItsDir(r, t), tag |-> ItsTag(r, t),
                 stamp |-> job[r][t].stamp, content |-> This(r).bytes]
<1>1. StoreInv /\ RegInv' /\ KeysInv' /\ ListsInv'
  BY Untouched DEF BackupInv, Put
<1>2. /\ session[r].list[t] # None /\ Its(r, t) \in Cfg /\ This(r) \in Turn
      /\ This(r).isDefault => This(r).vault = First
      /\ This(r).bytes \in Vault \X Nat /\ This(r).bytes[1] = This(r).vault
      /\ job[r][t] \in JobType
  BY Uploading DEF Put
<1>3. /\ This(r).vault \in Vault /\ This(r).isDefault \in BOOLEAN /\ job[r][t].stamp \in Nat
      /\ ItsDir(r, t) = Dir(Its(r, t), This(r).vault, This(r).isDefault)
      /\ ItsTag(r, t) = Tag(Its(r, t), This(r).vault)
  BY <1>2 DEF Turn, JobType, ItsDir, ItsTag
<1>4. s \in Snapshot /\ s.content[1] = VaultOf(s)
  BY <1>2, <1>3, Named
<1>5. store' = store \/ store' = store \cup {s}
  BY DEF Put
<1>6. \/ Become(r, t, [job[r][t] EXCEPT !.pc = "list"])
      \/ Finish(r, t, "ok") \/ Finish(r, t, "failed")
  BY DEF Put
<1> HIDE DEF s
<1>7. StoreInv' /\ store \in SUBSET store' /\ IsFiniteSet(store')
  BY <1>1, <1>4, <1>5, FS_AddElement DEF StoreInv, VaultOf
<1>8. \A q \in Snapshot : Superseded(store, q) => Superseded(store', q)
  BY <1>7, GrowthSpares
<1>9. CASE Become(r, t, [job[r][t] EXCEPT !.pc = "list"])
  <2> DEFINE j == [job[r][t] EXCEPT !.pc = "list"]
  <2>1. j \in JobType /\ j.doomed = job[r][t].doomed /\ j.doomed \in SUBSET Snapshot
    BY <1>2 DEF JobType
  <2>2. Become(r, t, j)
    BY <1>9
  <2> HIDE DEF j
  <2>3. \A q \in j.doomed : Superseded(store', q)
    BY <1>8, <2>1, Uploading DEF Put
  <2>4. RunTypes' /\ RunInv'
    BY <1>2, <1>8, <2>1, <2>2, <2>3, BecomeKeeps DEF BackupInv
  <2>5. QED
    BY <1>1, <1>7, <2>4 DEF BackupInv
<1>10. CASE Finish(r, t, "ok") \/ Finish(r, t, "failed")
  <2>1. RunTypes' /\ RunInv'
    BY <1>8, <1>10, FinishKeeps DEF BackupInv
  <2>2. QED
    BY <1>1, <1>7, <2>1 DEF BackupInv
<1>11. QED
  BY <1>6, <1>9, <1>10

(* What retention selects has Keep newer ones beside it. *)
LEMMA DoomedSuperseded ==
    ASSUME StoreInv, NEW dir, NEW tag, NEW q \in SelectForPruning(dir, tag)
    PROVE  q \in store /\ Superseded(store, q)
<1> DEFINE S == {s \in store : s.dir = dir /\ s.tag = tag}
<1>1. q \in S /\ Quantify(S, LAMBDA p : p.stamp > q.stamp) >= Keep
  BY DEF SelectForPruning, AllButNewest
<1>2. Quantify(S, LAMBDA p : p.stamp > q.stamp) = Cardinality({p \in S : p.stamp > q.stamp})
  BY DEF Quantify
<1>3. {p \in S : p.stamp > q.stamp} = NewerIn(store, q)
  BY <1>1 DEF NewerIn
<1>4. QED
  BY <1>1, <1>2, <1>3 DEF Superseded

(* The folder is listed, and what has Keep newer ones selected. *)
LEMMA ListRemoteKeeps ==
    ASSUME BackupInv, NEW r \in Runner, NEW t \in Target, ListRemote(r, t)
    PROVE  BackupInv'
<1> DEFINE doomed == SelectForPruning(ItsDir(r, t), ItsTag(r, t))
           j == [job[r][t] EXCEPT !.pc = "prune", !.doomed = doomed]
<1>1. StoreInv /\ RegInv' /\ KeysInv' /\ ListsInv' /\ store' = store
  BY Untouched DEF BackupInv, ListRemote
<1>2. Finish(r, t, "ok") \/ Become(r, t, j)
  BY DEF ListRemote
<1>3. CASE Finish(r, t, "ok")
  <2>1. RunTypes' /\ RunInv'
    BY <1>1, <1>3, Unmoved, FinishKeeps DEF BackupInv
  <2>2. QED
    BY <1>1, <2>1, Unmoved DEF BackupInv
<1>4. CASE Become(r, t, j)
  <2>1. \A q \in doomed : q \in store /\ Superseded(store', q)
    BY <1>1, DoomedSuperseded
  <2> HIDE DEF doomed
  <2>2. doomed \in SUBSET Snapshot
    BY <1>1, <2>1 DEF StoreInv
  <2>3. session[r].list[t] # None /\ job[r][t] \in JobType
    BY Uploading DEF ListRemote
  <2>4. j \in JobType /\ j.doomed = doomed
    BY <2>2, <2>3 DEF JobType
  <2> HIDE DEF j
  <2>5. RunTypes' /\ RunInv'
    BY <1>1, <1>4, <2>1, <2>3, <2>4, Unmoved, BecomeKeeps DEF BackupInv
  <2>6. QED
    BY <1>1, <2>5, Unmoved DEF BackupInv
<1>5. QED
  BY <1>2, <1>3, <1>4

(* One of those selected goes; it still has Keep newer ones. *)
LEMMA PruneKeeps ==
    ASSUME BackupInv, NEW r \in Runner, NEW t \in Target, Prune(r, t)
    PROVE  /\ BackupInv'
           /\ \/ store' = store
              \/ \E s \in Snapshot : store' = store \ {s} /\ Superseded(store, s)
<1> DEFINE doomed == job[r][t].doomed
<1>1. StoreInv /\ RegInv' /\ KeysInv' /\ ListsInv'
  BY Untouched DEF BackupInv, Prune
<1>2. PICK s \in doomed :
         /\ store' = store \/ store' = store \ {s}
         /\ Finish(r, t, "ok") \/ Become(r, t, [job[r][t] EXCEPT !.doomed = @ \ {s}])
  BY DEF Prune
<1>3. /\ job[r][t] \in JobType /\ session[r].list[t] # None
      /\ \A q \in doomed : Superseded(store, q)
  BY Uploading DEF Prune
<1>4. doomed \in SUBSET Snapshot /\ s \in Snapshot /\ Superseded(store, s)
  BY <1>2, <1>3 DEF JobType
<1>5. StoreInv'
  BY <1>1, <1>2, FS_RemoveElement DEF StoreInv, VaultOf
<1>6. \A q \in Snapshot : Superseded(store, q) => Superseded(store', q)
  BY <1>1, <1>2, <1>4, RemovalSpares DEF StoreInv
<1>7. ASSUME Finish(r, t, "ok")
      PROVE  RunTypes' /\ RunInv'
  BY <1>6, <1>7, FinishKeeps DEF BackupInv
<1>8. ASSUME Become(r, t, [job[r][t] EXCEPT !.doomed = @ \ {s}])
      PROVE  RunTypes' /\ RunInv'
  <2> DEFINE j == [job[r][t] EXCEPT !.doomed = @ \ {s}]
  <2>1. j \in JobType /\ j.doomed = doomed \ {s}
    BY <1>3 DEF JobType
  <2>2. Become(r, t, j)
    BY <1>8
  <2> HIDE DEF j
  <2>3. \A q \in j.doomed : Superseded(store', q)
    BY <1>3, <1>4, <1>6, <2>1
  <2>4. QED
    BY <1>3, <1>6, <2>1, <2>2, <2>3, BecomeKeeps DEF BackupInv
<1>9. RunTypes' /\ RunInv'
  BY <1>2, <1>7, <1>8
<1>10. QED
  BY <1>1, <1>2, <1>4, <1>5, <1>9 DEF BackupInv

-----------------------------------------------------------------------------
(* Results are folded into the list of targets. *)
LEMMA FoldReadKeeps ==
    ASSUME BackupInv, NEW r \in Runner, FoldRead(r)
    PROVE  BackupInv'
<1> DEFINE v == This(r).vault
           latest == IF r = "button" /\ v \notin Range(reg) /\ stored[v] = NoList
                     THEN session[r].list ELSE stored[v]
           list == ApplyOutcomes(latest, job[r], This(r).bytes)
           s == [session[r] EXCEPT !.pc = "save", !.list = list]
<1>1. RegInv' /\ KeysInv' /\ ListsInv' /\ store' = store /\ StoreInv
  BY Untouched DEF BackupInv, FoldRead
<1>2. session[r].pc \in {"load", "upload", "save"}
  BY DEF FoldRead, At
<1>3. CASE Uploads(r, {"ok", "failed"}) = {}
  <2>1. NextVault(r)
    BY <1>3 DEF FoldRead
  <2>2. RunTypes' /\ RunInv'
    BY <1>1, <1>2, <2>1, NextVaultKeeps DEF BackupInv
  <2>3. QED
    BY <1>1, <2>2, Unmoved DEF BackupInv
<1>4. CASE Uploads(r, {"ok", "failed"}) # {}
  <2>1. Go(r, s, job[r])
    BY <1>4 DEF FoldRead
  <2>2. /\ session[r] \in SessionType /\ GoodSession(r, session[r])
        /\ session[r].left # <<>> /\ This(r) \in Turn
        /\ This(r).bytes \in Hash
    BY <1>2, ThisTurn DEF Turn
  <2>3. session[r].list \in List /\ stored[v] \in List
    BY <2>2 DEF SessionType, Turn, BackupInv, ListsInv
  <2>4. latest \in List
    BY <2>3
  <2> HIDE DEF latest
  <2>5. list \in List
    BY <2>2, <2>4, ApplyOutcomesType
  <2> HIDE DEF list
  <2>6. s \in SessionType /\ s.pc = "save" /\ s.left = session[r].left /\ s.list = list
    BY <2>2, <2>5 DEF SessionType
  <2> HIDE DEF s
  <2>7. session[r].pc = "upload"
    BY DEF FoldRead, At
  <2>8. GoodSession(r, s)
    BY <2>2, <2>6, <2>7 DEF GoodSession
  <2>9. job[r] \in [Target -> JobType] /\ GoodJobs(store', session[r], job[r])
    BY <1>1 DEF BackupInv, RunTypes, RunInv
  <2>10. \A t \in Target : job[r][t].pc \in {"none", "ok", "failed"}
    BY DEF FoldRead, Uploads
  <2>11. GoodJobs(store', s, job[r])
    BY <2>9, <2>10 DEF GoodJobs
  <2>12. RunTypes' /\ RunInv'
    BY <1>1, <2>1, <2>6, <2>8, <2>9, <2>11, Unmoved, GoKeeps DEF BackupInv
  <2>13. QED
    BY <1>1, <2>12, Unmoved DEF BackupInv
<1>5. QED
  BY <1>3, <1>4

(* The list is written. *)
LEMMA FoldSaveKeeps ==
    ASSUME BackupInv, NEW r \in Runner, FoldSave(r)
    PROVE  BackupInv'
<1> DEFINE v == This(r).vault
<1>1. session[r].pc \in {"load", "upload", "save"} /\ store' = store /\ StoreInv
  BY DEF FoldSave, At, BackupInv
<1>2. v \in Vault /\ session[r].list \in List
  BY <1>1, ThisTurn DEF Turn, SessionType
<1>3. stored' = [stored EXCEPT ![v] = session[r].list] /\ stored' \in [Vault -> List]
  BY <1>2 DEF FoldSave, BackupInv, ListsInv
<1>4. \/ panel' = panel
      \/ panel.vault = v /\ panel' = [panel EXCEPT !.list = session[r].list]
  BY DEF FoldSave
<1>5. /\ panel' \in [vault : Vault \cup {None}, list : List]
      /\ panel'.vault = None => panel'.list = NoList
  BY <1>2, <1>4, VaultAssumption DEF BackupInv, ListsInv
<1>6. RegInv' /\ KeysInv' /\ ListsInv'
  BY <1>3, <1>5 DEF FoldSave, BackupInv, RegInv, KeysInv, ListsInv, keyVars
<1>7. RunTypes' /\ RunInv'
  BY <1>1, NextVaultKeeps DEF FoldSave, BackupInv
<1>8. QED
  BY <1>1, <1>6, <1>7, Unmoved DEF BackupInv

-----------------------------------------------------------------------------
(* The panel, the keys and the registry. *)
LEMMA RunsStay ==
    ASSUME BackupInv, UNCHANGED <<store, session, job>>
    PROVE  StoreInv' /\ RunTypes' /\ RunInv'
<1>1. StoreInv' /\ RunTypes'
  BY Unmoved DEF BackupInv, RunTypes
<1>2. RunInv'
  BY DEF BackupInv, RunInv, GoodSession, GoodJobs, Superseded, NewerIn
<1>3. QED
  BY <1>1, <1>2

(* A run's session is over, which it will find out. *)
LEMMA LapsedKeeps ==
    ASSUME BackupInv, UNCHANGED <<store, job>>, session' = Lapsed
    PROVE  StoreInv' /\ RunTypes' /\ RunInv'
<1> DEFINE pin == IF session["timer"].pin = "session" THEN "lapsed" ELSE session["timer"].pin
           s == [session["timer"] EXCEPT !.pin = pin]
<1>1. "timer" \in Runner /\ StoreInv
  BY DEF Runner, BackupInv
<1>2. session["timer"] \in SessionType /\ job["timer"] \in [Target -> JobType]
  BY <1>1 DEF BackupInv, RunTypes
<1>3. pin \in {"none", "panel", "alarm", "session", "lapsed"}
  BY <1>2 DEF SessionType
<1>4. session' = [session EXCEPT !["timer"] = s] /\ job' = [job EXCEPT !["timer"] = job["timer"]]
  BY <1>1 DEF Lapsed, BackupInv, RunTypes
<1> HIDE DEF pin
<1>5. /\ s \in SessionType /\ s.pc = session["timer"].pc /\ s.left = session["timer"].left
      /\ s.list = session["timer"].list
  BY <1>2, <1>3 DEF SessionType
<1> HIDE DEF s
<1>6. GoodSession("timer", session["timer"]) /\ GoodJobs(store, session["timer"], job["timer"])
  BY <1>1 DEF BackupInv, RunInv
<1>7. GoodSession("timer", s) /\ GoodJobs(store', s, job["timer"])
  BY <1>5, <1>6 DEF GoodSession, GoodJobs, Superseded, NewerIn
<1>8. QED
  BY <1>1, <1>2, <1>4, <1>5, <1>7, Unmoved, RunChanges DEF BackupInv

(* The panel is left. *)
LEMMA LeftPanelType ==
    ASSUME BackupInv
    PROVE  /\ LeftPanel \in [vault : Vault \cup {None}, list : List]
           /\ LeftPanel.vault = None => LeftPanel.list = NoList
<1>1. /\ NoPanel \in [vault : Vault \cup {None}, list : List]
      /\ NoPanel.list = NoList
  BY Nothing DEF NoPanel
<1>2. QED
  BY <1>1 DEF LeftPanel, BackupInv, ListsInv

(* The button begins a run of the panel's list. *)
LEMMA BackupNowKeeps == BackupInv /\ BackupNow => BackupInv'
<1> SUFFICES ASSUME BackupInv, BackupNow
             PROVE  BackupInv'
  OBVIOUS
<1> DEFINE turn == [vault |-> panel.vault, bytes |-> None, isDefault |-> panel.vault = reg[1]]
           s == [pc |-> "list", pin |-> "panel", list |-> panel.list, left |-> <<turn>>]
<1>1. PICK todo \in SUBSET Listed(panel.list) :
         todo # {} /\ job' = [job EXCEPT !["button"] = Opening(todo)]
  BY DEF BackupNow
<1>2. /\ "button" \in Runner /\ store' = store /\ StoreInv
      /\ session' = [session EXCEPT !["button"] = s]
  BY DEF BackupNow, BackupInv, Runner
<1>3. \A t \in todo : t \in Target /\ panel.list[t] # None
  BY DEF Listed
<1>4. panel.vault \in Vault /\ panel.list \in List
  BY <1>1, <1>3 DEF BackupInv, ListsInv, NoList
<1>5. /\ turn \in Turn
      /\ turn.isDefault => turn.vault = First
  BY <1>4 DEF Turn, Hash, BackupInv, RegInv
<1> HIDE DEF turn
<1>6. <<turn>> \in Seq(Turn) /\ Len(<<turn>>) = 1 /\ \A i \in 1..Len(<<turn>>) : <<turn>>[i] = turn
  BY <1>5
<1>7. s \in SessionType
  BY <1>4, <1>6 DEF SessionType
<1>8. s.pc = "list" /\ s.left = <<turn>> /\ s.list = panel.list
  OBVIOUS
<1> HIDE DEF s
<1>9. GoodSession("button", s)
  BY <1>5, <1>6, <1>8 DEF GoodSession
<1>10. Opening(todo) \in [Target -> JobType] /\ GoodJobs(store', s, Opening(todo))
  BY <1>3, <1>8, OpeningJobs
<1>11. RunTypes' /\ RunInv'
  BY <1>1, <1>2, <1>7, <1>9, <1>10, Unmoved, RunChanges DEF BackupInv
<1>12. panel' = LeftPanel
  BY DEF BackupNow
<1>13. RegInv' /\ KeysInv' /\ ListsInv'
  BY <1>12, LeftPanelType DEF BackupNow, BackupInv, RegInv, KeysInv, ListsInv, keyVars
<1>14. QED
  BY <1>2, <1>11, <1>13, Unmoved DEF BackupInv

(* The panel reads a list. *)
LEMMA OpenPanelKeeps == BackupInv /\ OpenPanel => BackupInv'
<1> SUFFICES ASSUME BackupInv, OpenPanel
             PROVE  BackupInv'
  OBVIOUS
<1>1. active \in Vault
  BY DEF OpenPanel, BackupInv, KeysInv, RegInv, Range
<1>2. ListsInv'
  BY <1>1, VaultAssumption DEF OpenPanel, BackupInv, ListsInv
<1>3. StoreInv' /\ RunTypes' /\ RunInv'
  BY RunsStay DEF OpenPanel, runVars
<1>4. RegInv' /\ KeysInv'
  BY DEF OpenPanel, BackupInv, RegInv, KeysInv, keyVars
<1>5. QED
  BY <1>2, <1>3, <1>4 DEF BackupInv

(* A panel that is open is that of a vault. *)
LEMMA PanelVault ==
    ASSUME BackupInv, panel # NoPanel
    PROVE  panel.vault \in Vault
BY DEF BackupInv, ListsInv, NoPanel

(* The panel reads it again. *)
LEMMA ReloadKeeps == BackupInv /\ Reload => BackupInv'
<1> SUFFICES ASSUME BackupInv, Reload
             PROVE  BackupInv'
  OBVIOUS
<1>1. panel.vault \in Vault
  BY PanelVault DEF Reload
<1>2. ListsInv'
  BY <1>1, VaultAssumption DEF Reload, BackupInv, ListsInv
<1>3. StoreInv' /\ RunTypes' /\ RunInv'
  BY RunsStay DEF Reload, runVars
<1>4. RegInv' /\ KeysInv'
  BY DEF Reload, BackupInv, RegInv, KeysInv, keyVars
<1>5. QED
  BY <1>2, <1>3, <1>4 DEF BackupInv

(* A run is given up. *)
LEMMA Dropped ==
    ASSUME BackupInv, NEW r \in Runner, store' = store,
           session' = [session EXCEPT ![r] = NoSession], job' = [job EXCEPT ![r] = NoJobs]
    PROVE  StoreInv' /\ RunTypes' /\ RunInv'
BY Nothing, Unmoved, RunChanges DEF BackupInv

(* The panel is closed. *)
LEMMA ClosePanelKeeps == BackupInv /\ ClosePanel => BackupInv'
<1> SUFFICES ASSUME BackupInv, ClosePanel
             PROVE  BackupInv'
  OBVIOUS
<1>1. NoPanel \in [vault : Vault \cup {None}, list : List] /\ NoPanel.list = NoList
  BY Nothing DEF NoPanel
<1>2. RegInv' /\ KeysInv' /\ ListsInv'
  BY <1>1 DEF ClosePanel, BackupInv, RegInv, KeysInv, ListsInv, keyVars
<1>3. StoreInv' /\ RunTypes' /\ RunInv'
  BY RunsStay, Dropped DEF ClosePanel, runVars, Runner
<1>4. QED
  BY <1>2, <1>3 DEF BackupInv

(* The worker dies. *)
LEMMA WorkerDiesKeeps == BackupInv /\ WorkerDies => BackupInv'
<1> SUFFICES ASSUME BackupInv, WorkerDies
             PROVE  BackupInv'
  OBVIOUS
<1>1. RegInv' /\ KeysInv' /\ ListsInv'
  BY Untouched DEF WorkerDies
<1>2. StoreInv' /\ RunTypes' /\ RunInv'
  BY Dropped DEF WorkerDies, Runner
<1>3. QED
  BY <1>1, <1>2 DEF BackupInv

(* Time passes for every list. *)
LEMMA TickKeeps == BackupInv /\ Tick => BackupInv'
<1> SUFFICES ASSUME BackupInv, Tick
             PROVE  BackupInv'
  OBVIOUS
<1>1. \A v \in Vault : Older(stored[v]) \in List
  BY OlderType DEF BackupInv, ListsInv
<1>2. Older(panel.list) \in List
  BY OlderType DEF BackupInv, ListsInv
<1>3. panel.list = NoList => Older(panel.list) = NoList
  BY DEF Older, NoList
<1>4. ListsInv'
  BY <1>1, <1>2, <1>3 DEF Tick, BackupInv, ListsInv
<1>5. StoreInv' /\ RunTypes' /\ RunInv'
  BY RunsStay DEF Tick, runVars
<1>6. RegInv' /\ KeysInv'
  BY DEF Tick, BackupInv, RegInv, KeysInv, keyVars
<1>7. QED
  BY <1>4, <1>5, <1>6 DEF BackupInv

-----------------------------------------------------------------------------
(* The list of targets is changed. *)
LEMMA PersistKeeps ==
    ASSUME BackupInv, NEW t \in Target, NEW cfg \in Cfg \cup {None}, Persist(t, cfg)
    PROVE  BackupInv'
<1>1. panel.vault \in Vault /\ panel.list \in List
  BY PanelVault DEF Persist, BackupInv, ListsInv
<1>2. [panel.list EXCEPT ![t] = cfg] \in List
  BY <1>1 DEF List
<1>3. stored' \in [Vault -> List]
  BY <1>1, <1>2 DEF Persist, BackupInv, ListsInv
<1>4. ASSUME LeftPanel = NoPanel
      PROVE  /\ panel' \in [vault : Vault \cup {None}, list : List]
             /\ panel'.vault = None => panel'.list = NoList
  <2>1. panel' = [NoPanel EXCEPT !.list[t] = None]
    BY <1>4 DEF Persist
  <2>2. NoPanel.list = NoList /\ [NoList EXCEPT ![t] = None] = NoList
    BY DEF NoPanel, NoList
  <2>3. panel' = NoPanel
    BY <2>1, <2>2 DEF NoPanel
  <2>4. QED
    BY <2>3, Nothing DEF NoPanel
<1>5. ASSUME LeftPanel # NoPanel
      PROVE  /\ panel' \in [vault : Vault \cup {None}, list : List]
             /\ panel'.vault = None => panel'.list = NoList
  <2>1. panel' = [panel EXCEPT !.list = [panel.list EXCEPT ![t] = cfg]]
    BY <1>5 DEF Persist, LeftPanel
  <2>2. QED
    BY <1>1, <1>2, <2>1, VaultAssumption DEF BackupInv, ListsInv
<1>6. /\ panel' \in [vault : Vault \cup {None}, list : List]
      /\ panel'.vault = None => panel'.list = NoList
  BY <1>4, <1>5
<1>7. RegInv' /\ KeysInv' /\ ListsInv'
  BY <1>3, <1>6 DEF Persist, BackupInv, RegInv, KeysInv, ListsInv, keyVars
<1>8. StoreInv' /\ RunTypes' /\ RunInv'
  BY RunsStay DEF Persist, runVars
<1>9. QED
  BY <1>7, <1>8 DEF BackupInv

(* A target that is new. *)
LEMMA ConfigType ==
    ASSUME NEW f \in Folder, NEW shared \in BOOLEAN, NEW owner \in Vault
    PROVE  Config(f, shared, owner) \in Cfg
BY KeepAssumption DEF Config, Cfg, Hash

(* A target that is moved. *)
LEMMA SetTarget ==
    ASSUME NEW cfg \in Cfg, NEW f \in Folder, NEW shared \in BOOLEAN, NEW owner \in Vault
    PROVE  [cfg EXCEPT !.dest = f, !.owner = owner, !.shared = shared] \in Cfg
BY DEF Cfg

(* A target is added, changed or removed. *)
LEMMA TargetsKeep ==
    ASSUME BackupInv, NEW t \in Target,
           \/ SetFrequency(t) \/ UpdateTarget(t)
           \/ AddTarget(t) \/ RemoveTarget(t)
    PROVE  BackupInv'
<1> DEFINE cur == panel.list[t]
<1>1. panel.list \in List /\ cur # None => cur \in Cfg
  BY DEF BackupInv, ListsInv, List
<1>2. CASE SetFrequency(t)
  <2>1. cur \in Cfg
    BY <1>1, <1>2 DEF SetFrequency, BackupInv, ListsInv
  <2>2. ClearBackoff(cur) \in Cfg
    BY <2>1, ClearBackoffType
  <2>3. [ClearBackoff(cur) EXCEPT !.on = ~@] \in Cfg
    BY <2>2 DEF Cfg
  <2>4. QED
    BY <1>2, <2>3, PersistKeeps DEF SetFrequency
<1>3. CASE UpdateTarget(t)
  <2>1. PICK f \in IF Moves THEN Folder ELSE {cur.dest}, owner \in {cur.owner, panel.vault} :
           Persist(t, [ClearBackoff(cur) EXCEPT !.dest = f, !.owner = owner,
                                                !.shared = @ /\ f = cur.dest])
    BY <1>3 DEF UpdateTarget
  <2>2. cur \in Cfg /\ panel.vault \in Vault
    BY <1>1, <1>3, <2>1, PanelVault DEF UpdateTarget, Persist, BackupInv, ListsInv
  <2>3. f \in Folder /\ owner \in Vault
    BY <2>1, <2>2 DEF Cfg
  <2>4. ClearBackoff(cur) \in Cfg
    BY <2>2, ClearBackoffType
  <2> DEFINE shared == ClearBackoff(cur).shared /\ f = cur.dest
  <2>5. shared \in BOOLEAN
    OBVIOUS
  <2> HIDE DEF shared
  <2>6. [ClearBackoff(cur) EXCEPT !.dest = f, !.owner = owner, !.shared = shared] \in Cfg
    BY <2>3, <2>4, <2>5, SetTarget
  <2>7. QED
    BY <2>1, <2>6, PersistKeeps DEF shared
<1>4. CASE AddTarget(t)
  <2>1. PICK f \in Folder : Persist(t, Config(f, FALSE, panel.vault))
    BY <1>4 DEF AddTarget
  <2>2. Config(f, FALSE, panel.vault) \in Cfg
    BY <2>1, PanelVault, ConfigType DEF Persist
  <2>3. QED
    BY <2>1, <2>2, PersistKeeps
<1>5. CASE RemoveTarget(t)
  BY <1>5, PersistKeeps DEF RemoveTarget
<1>6. QED
  BY <1>2, <1>3, <1>4, <1>5

-----------------------------------------------------------------------------
(* Keys and the registry. *)
LEMMA UnlockKeeps ==
    ASSUME BackupInv, NEW v \in Vault, Unlock(v)
    PROVE  BackupInv'
<1>1. NoPanel \in [vault : Vault \cup {None}, list : List] /\ NoPanel.list = NoList
  BY Nothing DEF NoPanel
<1>2. RegInv' /\ KeysInv' /\ ListsInv'
  BY <1>1 DEF Unlock, BackupInv, RegInv, KeysInv, ListsInv
<1>3. StoreInv' /\ RunTypes' /\ RunInv'
  BY BegunKeeps, LapsedKeeps DEF Unlock
<1>4. QED
  BY <1>2, <1>3 DEF BackupInv

(* Another vault becomes active. *)
LEMMA SelectVaultKeeps ==
    ASSUME BackupInv, NEW v \in Vault, SelectVault(v)
    PROVE  BackupInv'
<1>1. NoPanel \in [vault : Vault \cup {None}, list : List] /\ NoPanel.list = NoList
  BY Nothing DEF NoPanel
<1>2. RegInv' /\ KeysInv' /\ ListsInv'
  BY <1>1 DEF SelectVault, BackupInv, RegInv, KeysInv, ListsInv
<1>3. StoreInv' /\ RunTypes' /\ RunInv'
  BY LapsedKeeps DEF SelectVault
<1>4. QED
  BY <1>2, <1>3 DEF BackupInv

(* The vaults are locked. *)
LEMMA LockKeeps == BackupInv /\ Lock => BackupInv'
<1> SUFFICES ASSUME BackupInv, Lock
             PROVE  BackupInv'
  OBVIOUS
<1>1. NoPanel \in [vault : Vault \cup {None}, list : List] /\ NoPanel.list = NoList
  BY Nothing DEF NoPanel
<1>2. RegInv' /\ KeysInv' /\ ListsInv'
  BY <1>1 DEF Lock, Locked, BackupInv, RegInv, KeysInv, ListsInv
<1>3. StoreInv' /\ RunTypes' /\ RunInv'
  BY LapsedKeeps DEF Lock, Locked
<1>4. QED
  BY <1>2, <1>3 DEF BackupInv

(* A vault is written. *)
LEMMA EditKeeps ==
    ASSUME BackupInv, NEW v \in Vault, Edit(v)
    PROVE  BackupInv'
<1>1. RegInv' /\ KeysInv' /\ ListsInv'
  BY DEF Edit, BackupInv, RegInv, KeysInv, ListsInv, keyVars
<1>2. StoreInv' /\ RunTypes' /\ RunInv'
  BY RunsStay DEF Edit, runVars
<1>3. QED
  BY <1>1, <1>2 DEF BackupInv

(* A list loses one that is not its first. *)
LEMMA RemoveAtSpares ==
    ASSUME NEW S, NEW q \in Seq(S), NEW i \in 1..Len(q), i # 1
    PROVE  RemoveAt(q, i) \in Seq(S) /\ RemoveAt(q, i) # <<>> /\ RemoveAt(q, i)[1] = q[1]
<1> DEFINE front == SubSeq(q, 1, i - 1)
           back == SubSeq(q, i + 1, Len(q))
<1>1. Len(q) \in Nat /\ \A k \in 1..Len(q) : q[k] \in S
  BY LenProperties
<1>2. front \in Seq(S) /\ Len(front) = i - 1 /\ front[1] = q[1]
  BY <1>1
<1>3. back \in Seq(S)
  BY <1>1
<1> HIDE DEF front, back
<1>4. /\ front \o back \in Seq(S) /\ Len(front \o back) = Len(front) + Len(back)
      /\ \A k \in 1..Len(front) + Len(back) :
            (front \o back)[k] = IF k <= Len(front) THEN front[k] ELSE back[k - Len(front)]
  BY <1>2, <1>3, ConcatProperties
<1>5. Len(back) \in Nat /\ Len(front) \in Nat \ {0}
  BY <1>1, <1>2, <1>3, LenProperties
<1>6. (front \o back)[1] = front[1]
  BY <1>4, <1>5
<1>7. Len(front \o back) # 0
  BY <1>4, <1>5
<1>8. front \o back # <<>>
  BY <1>7, EmptyLength
<1>9. QED
  BY <1>2, <1>6, <1>8, <1>4 DEF RemoveAt, front, back

(* A vault goes that is not the default one, which stays the first. *)
LEMMA DeleteVaultKeeps == Stays /\ BackupInv /\ DeleteVault => BackupInv'
<1> SUFFICES ASSUME Stays, BackupInv, DeleteVault
             PROVE  BackupInv'
  OBVIOUS
<1>1. reg \in Seq(Vault) /\ reg # <<>> /\ reg[1] = First /\ active # First
  BY DEF BackupInv, RegInv, DeleteVault, Stays
<1>2. PICK i \in 1..Len(reg) : reg[i] = active /\ reg' = RemoveAt(reg, i)
  BY <1>1 DEF DeleteVault
<1>3. RegInv'
  BY <1>1, <1>2, RemoveAtSpares DEF RegInv
<1>4. NoPanel \in [vault : Vault \cup {None}, list : List] /\ NoPanel.list = NoList
  BY Nothing DEF NoPanel
<1>5. stored' \in [Vault -> List]
  BY Nothing DEF DeleteVault, BackupInv, ListsInv
<1>6. KeysInv' /\ ListsInv'
  BY <1>4, <1>5 DEF DeleteVault, Locked, BackupInv, KeysInv, ListsInv
<1>7. StoreInv' /\ RunTypes' /\ RunInv'
  BY LapsedKeeps DEF DeleteVault, Locked
<1>8. QED
  BY <1>3, <1>6, <1>7 DEF BackupInv

-----------------------------------------------------------------------------
(* The other vaults of the registry, in some order. *)
LEMMA SetToSeqType ==
    ASSUME NEW S, IsFiniteSet(S)
    PROVE  SetToSeq(S) \in Seq(S)
<1>1. Cardinality(S) \in Nat /\ \E f \in [1..Cardinality(S) -> S] : IsInjective(f)
  BY FS_CardinalityType DEF ExistsBijection, Bijection, Injection
<1>2. SetToSeq(S) \in [1..Cardinality(S) -> S]
  BY <1>1 DEF SetToSeq
<1>3. QED
  BY <1>1, <1>2

(* The invariant holds at first. *)
LEMMA Initially == Init => BackupInv
<1> SUFFICES ASSUME Init
             PROVE  BackupInv
  OBVIOUS
<1>1. RegInv
  <2> DEFINE rest == SetToSeq(Vault \ {First})
  <2>1. IsFiniteSet(Vault \ {First})
    BY VaultAssumption, FS_Subset
  <2>2. rest \in Seq(Vault \ {First})
    BY <2>1, SetToSeqType
  <2> HIDE DEF rest
  <2>3. rest \in Seq(Vault) /\ <<First>> \in Seq(Vault)
    BY <2>2, SeqMonotonic, VaultAssumption
  <2>4. reg = <<First>> \o rest
    BY DEF Init, rest
  <2>5. Len(<<First>>) = 1 /\ Len(rest) \in Nat
    BY <2>3, LenProperties
  <2>6. /\ reg \in Seq(Vault) /\ Len(reg) = 1 + Len(rest)
        /\ \A i \in 1..1 + Len(rest) : reg[i] = IF i <= 1 THEN <<First>>[i] ELSE rest[i - 1]
    BY <2>3, <2>4, <2>5, ConcatProperties
  <2>7. reg[1] = First /\ Len(reg) # 0
    BY <2>5, <2>6
  <2>8. QED
    BY <2>6, <2>7, EmptyLength DEF RegInv
<1>2. KeysInv
  BY DEF Init, KeysInv
<1>3. stored \in [Vault -> List]
  <2>1. PICK f \in Folder, t \in Target, shared \in BOOLEAN, S \in SUBSET Vault, o \in Vault :
           /\ IF shared THEN S = Vault ELSE o = First
           /\ stored = [v \in Vault |-> [NoList EXCEPT ![t] =
                 IF v \in S THEN Config(f, shared, IF shared THEN o ELSE v) ELSE None]]
    BY Zenon DEF Init
  <2>2. \A v \in Vault : Config(f, shared, IF shared THEN o ELSE v) \in Cfg
    BY ConfigType
  <2>3. \A v \in Vault : [NoList EXCEPT ![t] =
               IF v \in S THEN Config(f, shared, IF shared THEN o ELSE v) ELSE None] \in List
    BY <2>2, Nothing DEF List
  <2>4. QED
    BY <2>1, <2>3
<1>4. ListsInv
  BY <1>3, Nothing DEF Init, ListsInv, NoPanel
<1>5. StoreInv
  BY FS_EmptySet DEF Init, StoreInv
<1>6. RunTypes /\ RunInv
  BY Nothing DEF Init, RunTypes, RunInv
<1>7. QED
  BY <1>1, <1>2, <1>4, <1>5, <1>6 DEF BackupInv

(* No step takes a snapshot that retention would keep. *)
Spared ==
    \/ store \in SUBSET store'
    \/ \E s \in Snapshot : store' = store \ {s} /\ Superseded(store, s)

(* Every step keeps it, and spares what retention would keep. *)
LEMMA StepKeeps == Stays /\ BackupInv /\ [Next]_vars => BackupInv' /\ Spared
<1> SUFFICES ASSUME Stays, BackupInv, [Next]_vars
             PROVE  BackupInv' /\ Spared
  OBVIOUS
<1>1. ASSUME NEW r \in Runner, Step(r)
      PROVE  BackupInv' /\ Spared
  <2>1. CASE ListVaults
    BY <2>1, ListVaultsKeeps DEF ListVaults, Spared
  <2>2. CASE LoadTargets
    BY <2>2, LoadTargetsKeeps DEF LoadTargets, Spared
  <2>3. CASE ReadVaultBlob
    BY <2>3, ReadVaultBlobKeeps DEF ReadVaultBlob, Spared
  <2>4. ASSUME NEW t \in Target, OpenCreds(r, t)
        PROVE  BackupInv' /\ Spared
    BY <2>4, OpenCredsKeeps DEF OpenCreds, Spared
  <2>5. ASSUME NEW t \in Target, Put(r, t)
        PROVE  BackupInv' /\ Spared
    BY <2>5, PutKeeps DEF Spared
  <2>6. ASSUME NEW t \in Target, ListRemote(r, t)
        PROVE  BackupInv' /\ Spared
    BY <2>6, ListRemoteKeeps DEF ListRemote, Spared
  <2>7. ASSUME NEW t \in Target, Prune(r, t)
        PROVE  BackupInv' /\ Spared
    BY <2>7, PruneKeeps DEF Spared
  <2>8. CASE FoldRead(r)
    BY <2>8, FoldReadKeeps DEF FoldRead, Spared
  <2>9. CASE FoldSave(r)
    BY <2>9, FoldSaveKeeps DEF FoldSave, Spared
  <2>10. QED
    BY <1>1, <2>1, <2>2, <2>3, <2>4, <2>5, <2>6, <2>7, <2>8, <2>9 DEF Step
<1>2. CASE BackupAlarm
  BY <1>2, BackupAlarmKeeps DEF BackupAlarm, Spared
<1>3. CASE BackupNow
  BY <1>3, BackupNowKeeps DEF BackupNow, Spared
<1>4. CASE Tick
  BY <1>4, TickKeeps DEF Tick, Spared
<1>5. CASE OpenPanel
  BY <1>5, OpenPanelKeeps DEF OpenPanel, Spared
<1>6. CASE Reload
  BY <1>6, ReloadKeeps DEF Reload, Spared
<1>7. CASE ClosePanel
  BY <1>7, ClosePanelKeeps DEF ClosePanel, Spared
<1>8. ASSUME NEW t \in Target,
             \/ SetFrequency(t) \/ UpdateTarget(t)
             \/ AddTarget(t) \/ RemoveTarget(t)
      PROVE  BackupInv' /\ Spared
  BY <1>8, TargetsKeep
     DEF SetFrequency, UpdateTarget, AddTarget, RemoveTarget, Persist, Spared
<1>9. ASSUME NEW v \in Vault, Unlock(v) \/ SelectVault(v) \/ Edit(v)
      PROVE  BackupInv' /\ Spared
  BY <1>9, UnlockKeeps, SelectVaultKeeps, EditKeeps DEF Unlock, SelectVault, Edit, Spared
<1>10. CASE Lock
  BY <1>10, LockKeeps DEF Lock, Spared
<1>11. CASE DeleteVault
  BY <1>11, DeleteVaultKeeps DEF DeleteVault, Spared
<1>12. CASE WorkerDies
  BY <1>12, WorkerDiesKeeps DEF WorkerDies, Spared
<1>13. CASE UNCHANGED vars
  <2>1. UNCHANGED <<reg, blob, stored, panel, keyVars, stamp>> /\ UNCHANGED <<store, session, job>>
    BY <1>13 DEF vars, runVars, keyVars
  <2>2. QED
    BY <2>1, Untouched, RunsStay DEF BackupInv, Spared
<1>14. QED
  BY <1>1, <1>2, <1>3, <1>4, <1>5, <1>6, <1>7, <1>8, <1>9, <1>10, <1>11, <1>12, <1>13 DEF Next

(* The newer ones of a tag and a folder are of the same vault. *)
LEMMA SparedRetains ==
    ASSUME BackupInv, BackupInv', Spared, NEW s \in store \ store'
    PROVE  Quantify(store', LAMBDA q : /\ q.dir = s.dir /\ q.content[1] = s.content[1]
                                       /\ q.stamp > s.stamp) >= Keep
<1> DEFINE N == {q \in store' : /\ q.dir = s.dir /\ q.content[1] = s.content[1]
                                 /\ q.stamp > s.stamp}
<1>1. s \in Snapshot /\ store' = store \ {s} /\ Superseded(store, s) /\ StoreInv /\ StoreInv'
  BY DEF Spared, BackupInv, StoreInv
<1>2. IsFiniteSet(N)
  BY <1>1, FS_Subset DEF StoreInv
<1>3. NewerIn(store, s) \in SUBSET N
  <2> SUFFICES ASSUME NEW q \in NewerIn(store, s)
               PROVE  q \in N
    OBVIOUS
  <2>1. q \in store /\ q.dir = s.dir /\ q.tag = s.tag /\ q.stamp > s.stamp
    BY DEF NewerIn
  <2>2. q # s
    BY <1>1, <2>1 DEF Snapshot
  <2>3. q.content[1] = s.content[1]
    BY <1>1, <2>1 DEF StoreInv, VaultOf
  <2>4. QED
    BY <1>1, <2>1, <2>2, <2>3
<1>4. Cardinality(NewerIn(store, s)) <= Cardinality(N) /\ Cardinality(N) \in Nat
  BY <1>2, <1>3, FS_Subset, FS_CardinalityType
<1>5. Cardinality(NewerIn(store, s)) \in Nat /\ Cardinality(NewerIn(store, s)) >= Keep
  BY <1>1, NewerCounts DEF StoreInv, Superseded
<1>6. Cardinality(N) >= Keep
  BY <1>4, <1>5, KeepAssumption
<1>7. QED
  BY <1>6 DEF Quantify

-----------------------------------------------------------------------------
(* The state has its types: lists of targets, runs, jobs and snapshots are
   what core/src/backup/types.ts says they are. *)
THEOREM TypeCorrect == Stays => (Spec => []TypeOK)
<1> SUFFICES ASSUME Stays PROVE Spec => []TypeOK
  OBVIOUS
<1>1. BackupInv /\ [Next]_vars => BackupInv'
  BY StepKeeps
<1>2. BackupInv => TypeOK
  BY DEF BackupInv, RegInv, KeysInv, ListsInv, StoreInv, RunTypes, TypeOK
<1>3. QED
  BY <1>1, <1>2, Initially, PTL DEF Spec

(* Pruning (orchestrator.ts, selectForPruning) never takes a snapshot that
   has not Keep newer ones of its vault in its folder, whatever two runs
   prune and upload there at the same time. *)
THEOREM RetentionCorrect == Stays => (Spec => RetentionHolds)
<1> SUFFICES ASSUME Stays PROVE Spec => RetentionHolds
  OBVIOUS
<1>1. BackupInv /\ [Next]_vars => BackupInv'
  BY StepKeeps
<1>2. BackupInv /\ BackupInv' /\ [Next]_vars =>
         [\A s \in store \ store' :
             Quantify(store', LAMBDA q : /\ q.dir = s.dir /\ q.content[1] = s.content[1]
                                         /\ q.stamp > s.stamp) >= Keep]_vars
  BY StepKeeps, SparedRetains
<1>3. QED
  BY <1>1, <1>2, Initially, PTL DEF Spec, RetentionHolds

-----------------------------------------------------------------------------
(***************************************************************************)
(* Why a target that is skipped holds the vault.  Every copy of a list     *)
(* (stored, the panel's, a run's) says of a target where it is and what it *)
(* holds.  All copies agree on the place; what one of them says is held is *)
(* held there (SaysInv), since a run records only what it has put, and     *)
(* what it records is taken for the current bytes only until the next      *)
(* write of the vault.  That a snapshot of the current bytes is not pruned *)
(* needs a bound on the snapshots that are newer by their names and older  *)
(* by their contents: they come from a run that read the vault before it   *)
(* was written and uploads after, and there is at most one for each of its *)
(* targets (LateInv).                                                      *)
(***************************************************************************)

\* More snapshots are retained than a vault has targets.
Ample == Keep > 0 => IsFiniteSet(Target) /\ Cardinality(Target) < Keep

\* Place and hash of a target.
Essence(cfg) == <<cfg.dest, cfg.shared, cfg.hash>>
DirOf(e, v) == <<e[1], IF e[2] /\ v # First THEN v ELSE None>>
TagOf(e, v) == IF e[2] THEN None ELSE v

HeldIn(S, e, v) ==
    \E q \in S : q.content = Bytes(v) /\ q.dir = DirOf(e, v) /\ q.tag = TagOf(e, v)

\* What the copies of a vault's list say of a target.
Tells(list, t, e) == list[t] # None /\ e = Essence(list[t])
RunTells(s, v, t, e) == s.left # <<>> /\ Head(s.left).vault = v /\ Tells(s.list, t, e)
Says(v, t, e) ==
    \/ Tells(stored[v], t, e)
    \/ panel.vault = v /\ Tells(panel.list, t, e)
    \/ \E r \in Runner : RunTells(session[r], v, t, e)

PastHash(e, v) == e[3] # None => e[3] \in Vault \X Nat /\ e[3][1] = v /\ e[3][2] <= blob[v]

SaysInv == \A v \in Vault, t \in Target :
    /\ \A e, f : Says(v, t, e) /\ Says(v, t, f) => e[1] = f[1] /\ e[2] = f[2]
    /\ \A e : Says(v, t, e) => PastHash(e, v) /\ (e[3] = Bytes(v) => HeldIn(store, e, v))

\* Each vault has one turn in a run.
DistinctInv == \A i, j \in 1..Len(reg) : reg[i] = reg[j] => i = j

GoodTurns(r, s) ==
    /\ r = "timer" /\ s.pc = "list" => s.list = NoList
    /\ \A i, j \in 1..Len(s.left) : s.left[i].vault = s.left[j].vault => i = j
    /\ \A i \in 1..Len(s.left) :
          /\ s.left[i].isDefault <=> s.left[i].vault = First
          /\ r = "timer" \/ s.pc # "list" => s.left[i].bytes[2] <= blob[s.left[i].vault]

GoodStamps(n, s, jobs) == \A t \in Target :
    /\ jobs[t].stamp <= n
    /\ jobs[t].doomed # {} => Keep > 0
    /\ s.pc \notin {"upload", "save"} => jobs[t].pc \in {"none", "open"}

TurnsInv == \A r \in Runner :
    GoodTurns(r, session[r]) /\ GoodStamps(stamp, session[r], job[r])

\* What was put is there.
GoodUploads(S, s, jobs) == \A t \in Target :
    s.pc = "upload" /\ jobs[t].pc \in {"list", "prune", "ok"} =>
        /\ s.list[t] # None
        /\ Head(s.left).bytes = Bytes(Head(s.left).vault) =>
              HeldIn(S, Essence(s.list[t]), Head(s.left).vault)

UploadsInv == \A r \in Runner : GoodUploads(store, session[r], job[r])

\* Nothing is beyond the present.
PastInv == \A q \in store : q.content[2] <= blob[q.content[1]] /\ q.stamp <= stamp

\* A snapshot of the vault as it is has this stamp, or will have it.
Names(s, j, v, k) ==
    /\ s.pc = "upload" /\ j.pc = "put" /\ j.stamp = k
    /\ Head(s.left).vault = v /\ Head(s.left).bytes = Bytes(v)
Fresh(v, k) ==
    \/ \E q \in store : q.content = Bytes(v) /\ q.stamp = k
    \/ \E r \in Runner, t \in Target : Names(session[r], job[r][t], v, k)

\* Snapshots with older contents that are newer by their name, and uploads
\* that may yet add to them.
Stale(v, k) == {q \in store : q.content[1] = v /\ q.content # Bytes(v) /\ q.stamp > k}
Owes(s, j, v) ==
    /\ s.pc # "list"
    /\ \E i \in 1..Len(s.left) :
          /\ s.left[i].vault = v /\ s.left[i].bytes # Bytes(v)
          /\ i = 1 => s.pc = "load" \/ (s.pc = "upload" /\ j.pc \in {"open", "put"})
Debt(v) == {p \in Runner \X Target : Owes(session[p[1]], job[p[1]][p[2]], v)}

LateInv == Keep > 0 => \A v \in Vault, k \in Nat :
    Fresh(v, k) => Cardinality(Stale(v, k)) + Cardinality(Debt(v)) <= Cardinality(Target)

HeldInv == DistinctInv /\ TurnsInv /\ PastInv /\ SaysInv /\ UploadsInv /\ LateInv

-----------------------------------------------------------------------------
(* Both can be counted. *)
LEMMA LateCounts ==
    ASSUME Ample, Keep > 0, IsFiniteSet(store), NEW v, NEW k
    PROVE  /\ IsFiniteSet(Stale(v, k)) /\ Cardinality(Stale(v, k)) \in Nat
           /\ IsFiniteSet(Debt(v)) /\ Cardinality(Debt(v)) \in Nat
           /\ Cardinality(Target) \in Nat /\ IsFiniteSet(Target)
<1>1. IsFiniteSet(Target)
  BY DEF Ample
<1>2. IsFiniteSet(Runner)
  <2>1. Runner = {"timer"} \cup {"button"}
    BY DEF Runner
  <2>2. QED
    BY <2>1, FS_Singleton, FS_Union
<1>3. IsFiniteSet(Runner \X Target)
  BY <1>1, <1>2, FS_Product
<1>4. Debt(v) \in SUBSET (Runner \X Target)
  BY DEF Debt
<1>5. IsFiniteSet(Stale(v, k))
  BY FS_Subset DEF Stale
<1>6. QED
  BY <1>1, <1>3, <1>4, <1>5, FS_Subset, FS_CardinalityType

(* A prune leaves one snapshot of the vault as it is where there were any:
   the last of them would have Keep newer ones with older contents. *)
LEMMA PruneSpares ==
    ASSUME Ample, Keep > 0, StoreInv, LateInv, NEW s \in store, Superseded(store, s),
           NEW v \in Vault, NEW e, HeldIn(store, e, v)
    PROVE  HeldIn(store \ {s}, e, v)
<1>1. PICK q \in store : q.content = Bytes(v) /\ q.dir = DirOf(e, v) /\ q.tag = TagOf(e, v)
  BY DEF HeldIn
<1>2. CASE q # s
  BY <1>1, <1>2 DEF HeldIn
<1>3. CASE q = s
  <2> DEFINE N == NewerIn(store, s)
  <2>1. s \in Snapshot /\ s.stamp \in Nat
    BY DEF StoreInv, Snapshot
  <2>2. ASSUME NEW p \in N, p.content = Bytes(v)
        PROVE  HeldIn(store \ {s}, e, v)
    <3>1. p \in store /\ p.dir = s.dir /\ p.tag = s.tag /\ p.stamp > s.stamp
      BY DEF NewerIn
    <3>2. p # s
      BY <2>1, <3>1
    <3>3. QED
      BY <1>1, <1>3, <2>2, <3>1, <3>2 DEF HeldIn
  <2>3. ASSUME \A p \in N : p.content # Bytes(v)
        PROVE  FALSE
    <3>1. Fresh(v, s.stamp)
      BY <1>1, <1>3 DEF Fresh
    <3>2. /\ IsFiniteSet(Stale(v, s.stamp)) /\ Cardinality(Stale(v, s.stamp)) \in Nat
          /\ Cardinality(Debt(v)) \in Nat /\ Cardinality(Target) \in Nat
      BY LateCounts DEF StoreInv
    <3>3. Cardinality(Stale(v, s.stamp)) + Cardinality(Debt(v)) <= Cardinality(Target)
      BY <2>1, <3>1 DEF LateInv
    <3>4. N \in SUBSET Stale(v, s.stamp)
      <4> SUFFICES ASSUME NEW p \in N
                   PROVE  p \in Stale(v, s.stamp)
        OBVIOUS
      <4>1. p \in store /\ p.dir = s.dir /\ p.tag = s.tag /\ p.stamp > s.stamp
        BY DEF NewerIn
      <4>2. p.content[1] = s.content[1]
        BY <4>1 DEF StoreInv, VaultOf
      <4>3. s.content[1] = v
        BY <1>1, <1>3 DEF Bytes
      <4>4. QED
        BY <2>3, <4>1, <4>2, <4>3 DEF Stale
    <3>5. Cardinality(N) <= Cardinality(Stale(v, s.stamp)) /\ Cardinality(N) \in Nat
      BY <3>2, <3>4, FS_Subset, FS_CardinalityType
    <3>6. Cardinality(N) >= Keep
      BY DEF Superseded
    <3>7. QED
      BY <3>2, <3>3, <3>5, <3>6, KeepAssumption DEF Ample
  <2>4. QED
    BY <2>2, <2>3
<1>4. QED
  BY <1>2, <1>3

(* With fewer of both, and nothing fresh that was not, the bound stays. *)
LEMMA LateAt ==
    ASSUME Ample, LateInv, IsFiniteSet(store), Keep > 0, NEW v \in Vault, NEW k \in Nat, Fresh(v, k),
           Stale(v, k)' \in SUBSET Stale(v, k), Debt(v)' \in SUBSET Debt(v)
    PROVE  Cardinality(Stale(v, k)') + Cardinality(Debt(v)') <= Cardinality(Target)
<1>1. Cardinality(Stale(v, k)) + Cardinality(Debt(v)) <= Cardinality(Target)
  BY DEF LateInv
<1>2. /\ IsFiniteSet(Stale(v, k)) /\ Cardinality(Stale(v, k)) \in Nat
      /\ IsFiniteSet(Debt(v)) /\ Cardinality(Debt(v)) \in Nat /\ Cardinality(Target) \in Nat
  BY LateCounts
<1>3. /\ Cardinality(Stale(v, k)') <= Cardinality(Stale(v, k)) /\ Cardinality(Stale(v, k)') \in Nat
  BY <1>2, FS_Subset, FS_CardinalityType
<1>4. /\ Cardinality(Debt(v)') <= Cardinality(Debt(v)) /\ Cardinality(Debt(v)') \in Nat
  BY <1>2, FS_Subset, FS_CardinalityType
<1>5. QED
  BY <1>1, <1>2, <1>3, <1>4

(* ... for all of them. *)
LEMMA LateShrinks ==
    ASSUME Ample, LateInv, IsFiniteSet(store),
           \A v \in Vault, k \in Nat : Fresh(v, k)' => Fresh(v, k),
           \A v \in Vault, k \in Nat : Stale(v, k)' \in SUBSET Stale(v, k),
           \A v \in Vault : Debt(v)' \in SUBSET Debt(v)
    PROVE  LateInv'
BY LateAt DEF LateInv

(* An upload that was owed adds one, and is owed no more. *)
LEMMA LatePays ==
    ASSUME Ample, LateInv, IsFiniteSet(store), Keep > 0, NEW v \in Vault, NEW k \in Nat, Fresh(v, k),
           NEW q, Stale(v, k)' \in SUBSET (Stale(v, k) \cup {q}),
           NEW p \in Debt(v), Debt(v)' \in SUBSET (Debt(v) \ {p})
    PROVE  Cardinality(Stale(v, k)') + Cardinality(Debt(v)') <= Cardinality(Target)
<1>1. Cardinality(Stale(v, k)) + Cardinality(Debt(v)) <= Cardinality(Target)
  BY DEF LateInv
<1>2. /\ IsFiniteSet(Stale(v, k)) /\ Cardinality(Stale(v, k)) \in Nat
      /\ IsFiniteSet(Debt(v)) /\ Cardinality(Debt(v)) \in Nat /\ Cardinality(Target) \in Nat
  BY LateCounts
<1>3. /\ IsFiniteSet(Stale(v, k) \cup {q})
      /\ Cardinality(Stale(v, k) \cup {q}) <= Cardinality(Stale(v, k)) + 1
  <2>1. /\ IsFiniteSet(Stale(v, k) \cup {q})
        /\ Cardinality(Stale(v, k) \cup {q}) =
              IF q \in Stale(v, k) THEN Cardinality(Stale(v, k)) ELSE Cardinality(Stale(v, k)) + 1
    BY <1>2, FS_AddElement
  <2> DEFINE n == Cardinality(Stale(v, k))
  <2>2. n \in Nat
    BY <1>2
  <2> HIDE DEF n
  <2>3. n <= n + 1
    BY <2>2
  <2>4. QED
    BY <2>1, <2>2, <2>3 DEF n
<1>4. IsFiniteSet(Debt(v) \ {p}) /\ Cardinality(Debt(v) \ {p}) = Cardinality(Debt(v)) - 1
  BY <1>2, FS_RemoveElement
<1>5. /\ Cardinality(Stale(v, k)') <= Cardinality(Stale(v, k) \cup {q})
      /\ Cardinality(Stale(v, k)') \in Nat /\ Cardinality(Stale(v, k) \cup {q}) \in Nat
  BY <1>3, FS_Subset, FS_CardinalityType
<1>6. /\ Cardinality(Debt(v)') <= Cardinality(Debt(v) \ {p}) /\ Cardinality(Debt(v)') \in Nat
  BY <1>4, FS_Subset, FS_CardinalityType
<1>7. QED
  BY <1>1, <1>2, <1>3, <1>4, <1>5, <1>6

-----------------------------------------------------------------------------
\* What may be said of a target besides what is: the same place, and a hash
\* that is held there if it is the current one.
Vouched(v, t, e) ==
    /\ \E f : Says(v, t, f) /\ e[1] = f[1] /\ e[2] = f[2]
    /\ PastHash(e, v)
    /\ e[3] = Bytes(v) => HeldIn(store, e, v)

\* The state of a run that goes on: it owes no more uploads than before,
\* names no snapshot that it did not, and says only what is vouched for.
Follows(S, r, s, jobs) ==
    /\ GoodTurns(r, s) /\ GoodStamps(stamp, s, jobs) /\ GoodUploads(S, s, jobs)
    /\ \A t \in Target, v \in Vault : Owes(s, jobs[t], v) => Owes(session[r], job[r][t], v)
    /\ \A t \in Target, v \in Vault, k \in Nat :
          Names(s, jobs[t], v, k) => Names(session[r], job[r][t], v, k)
    /\ \A v \in Vault, t \in Target : \A e : RunTells(s, v, t, e) => Vouched(v, t, e)

\* So do the lists.
ListsFollow == \A v \in Vault, t \in Target : \A e :
    Tells(stored'[v], t, e) \/ (panel'.vault = v /\ Tells(panel'.list, t, e)) => Vouched(v, t, e)

\* What is held stays so.
HeldStays == \A v \in Vault : \A e : HeldIn(store, e, v) => HeldIn(store', e, v)

(* What is said is vouched for. *)
LEMMA SaidIsVouched ==
    ASSUME SaysInv, NEW v \in Vault, NEW t \in Target, NEW e, Says(v, t, e)
    PROVE  Vouched(v, t, e)
BY DEF SaysInv, Vouched

(* What is vouched for may be said. *)
LEMMA SaysKept ==
    ASSUME SaysInv, blob' = blob, HeldStays,
           \A v \in Vault, t \in Target : \A e : Says(v, t, e)' => Vouched(v, t, e)
    PROVE  SaysInv'
<1> SUFFICES ASSUME NEW v \in Vault, NEW t \in Target
             PROVE  /\ \A e, f : Says(v, t, e)' /\ Says(v, t, f)' => e[1] = f[1] /\ e[2] = f[2]
                    /\ \A e : Says(v, t, e)' =>
                          PastHash(e, v)' /\ (e[3] = Bytes(v)' => HeldIn(store, e, v)')
  BY DEF SaysInv
<1>1. ASSUME NEW e, NEW f, Says(v, t, e)', Says(v, t, f)'
      PROVE  e[1] = f[1] /\ e[2] = f[2]
  <2>1. PICK g : Says(v, t, g) /\ e[1] = g[1] /\ e[2] = g[2]
    BY <1>1 DEF Vouched
  <2>2. PICK h : Says(v, t, h) /\ f[1] = h[1] /\ f[2] = h[2]
    BY <1>1 DEF Vouched
  <2>3. QED
    BY <2>1, <2>2 DEF SaysInv
<1>2. ASSUME NEW e, Says(v, t, e)'
      PROVE  PastHash(e, v)' /\ (e[3] = Bytes(v)' => HeldIn(store, e, v)')
  <2>1. PastHash(e, v) /\ (e[3] = Bytes(v) => HeldIn(store, e, v))
    BY <1>2 DEF Vouched
  <2>2. PastHash(e, v)' /\ Bytes(v)' = Bytes(v)
    BY <2>1 DEF PastHash, Bytes
  <2>3. HeldIn(store, e, v) => HeldIn(store', e, v)
    BY DEF HeldStays
  <2>4. HeldIn(store, e, v)' <=> HeldIn(store', e, v)
    BY <2>2 DEF HeldIn
  <2>5. QED
    BY <2>1, <2>2, <2>3, <2>4
<1>3. QED
  BY <1>1, <1>2

(* One run has a new state, which says only what is vouched for. *)
LEMMA ChangeKeeps ==
    ASSUME BackupInv, HeldInv, NEW r \in Runner, NEW s, NEW jobs,
           session' = [session EXCEPT ![r] = s], job' = [job EXCEPT ![r] = jobs],
           blob' = blob, stamp' \in Nat, stamp <= stamp', HeldStays, DistinctInv', ListsFollow,
           GoodTurns(r, s), GoodStamps(stamp', s, jobs), GoodUploads(store', s, jobs),
           \A v \in Vault, t \in Target : \A e : RunTells(s, v, t, e) => Vouched(v, t, e),
           PastInv', LateInv'
    PROVE  HeldInv'
<1>1. /\ session'[r] = s /\ job'[r] = jobs
      /\ \A k \in Runner : k # r => session'[k] = session[k] /\ job'[k] = job[k]
  BY DEF BackupInv, RunTypes
<1>2. \A v \in Vault : Bytes(v)' = Bytes(v)
  BY DEF Bytes
<1>3. TurnsInv'
  <2> SUFFICES ASSUME NEW k \in Runner
               PROVE  GoodTurns(k, session'[k]) /\ GoodStamps(stamp', session'[k], job'[k])
    BY DEF TurnsInv, GoodTurns, GoodStamps
  <2>1. CASE k = r
    BY <1>1, <2>1
  <2>2. CASE k # r
    <3>1. GoodTurns(k, session[k]) /\ GoodStamps(stamp, session[k], job[k])
      BY DEF HeldInv, TurnsInv
    <3>2. stamp \in Nat /\ \A t \in Target : job[k][t].stamp \in Nat
      BY DEF BackupInv, ListsInv, RunTypes, JobType
    <3>3. GoodStamps(stamp', session[k], job[k])
      BY <3>1, <3>2 DEF GoodStamps
    <3>4. QED
      BY <1>1, <2>2, <3>1, <3>3
  <2>3. QED
    BY <2>1, <2>2
<1>4. UploadsInv'
  <2> SUFFICES ASSUME NEW k \in Runner
               PROVE  GoodUploads(store, session[k], job[k])'
    BY DEF UploadsInv
  <2>1. GoodUploads(store', session'[k], job'[k])
    <3>1. CASE k = r
      BY <1>1, <3>1
    <3>2. CASE k # r
      <4>1. GoodUploads(store, session[k], job[k])
        BY DEF HeldInv, UploadsInv
      <4>2. session[k].pc = "upload" => Head(session[k].left).vault \in Vault
        BY ThisTurn DEF This, Turn
      <4>3. GoodUploads(store', session[k], job[k])
        BY <4>1, <4>2 DEF GoodUploads, HeldStays
      <4>4. QED
        BY <1>1, <3>2, <4>3
    <3>3. QED
      BY <3>1, <3>2
  <2>2. QED
    BY <2>1 DEF GoodUploads, HeldIn, Bytes
<1>5. SaysInv'
  <2> SUFFICES ASSUME NEW v \in Vault, NEW t \in Target, NEW e, Says(v, t, e)'
               PROVE  Vouched(v, t, e)
    BY SaysKept DEF HeldInv
  <2>1. CASE Tells(stored'[v], t, e) \/ (panel'.vault = v /\ Tells(panel'.list, t, e))
    BY <2>1 DEF ListsFollow
  <2>2. CASE \E k \in Runner : RunTells(session'[k], v, t, e)
    <3>1. PICK k \in Runner : RunTells(session'[k], v, t, e)
      BY <2>2
    <3>2. CASE k = r
      BY <1>1, <3>1, <3>2
    <3>3. CASE k # r
      <4>1. Says(v, t, e)
        BY <1>1, <3>1, <3>3 DEF Says
      <4>2. QED
        BY <4>1, SaidIsVouched DEF HeldInv
    <3>4. QED
      BY <3>2, <3>3
  <2>3. \/ Tells(stored'[v], t, e) \/ (panel'.vault = v /\ Tells(panel'.list, t, e))
        \/ \E k \in Runner : RunTells(session'[k], v, t, e)
    <3>1. \/ Tells(stored[v], t, e)'
          \/ (panel.vault = v /\ Tells(panel.list, t, e))'
          \/ \E k \in Runner : RunTells(session[k], v, t, e)'
      BY DEF Says
    <3>2. Tells(stored[v], t, e)' => Tells(stored'[v], t, e)
      BY DEF Tells, Essence
    <3>3. (panel.vault = v /\ Tells(panel.list, t, e))' => (panel'.vault = v /\ Tells(panel'.list, t, e))
      BY DEF Tells, Essence
    <3>4. \A k \in Runner : RunTells(session[k], v, t, e)' => RunTells(session'[k], v, t, e)
      BY DEF RunTells, Tells, Essence
    <3>5. QED
      BY <3>1, <3>2, <3>3, <3>4
  <2>4. QED
    BY <2>1, <2>2, <2>3
<1>6. QED
  BY <1>3, <1>4, <1>5 DEF HeldInv

(* A run goes on, and with it what is true of all. *)
LEMMA FollowsKeeps ==
    ASSUME BackupInv, Ample, HeldInv, NEW r \in Runner, NEW s, NEW jobs,
           session' = [session EXCEPT ![r] = s], job' = [job EXCEPT ![r] = jobs],
           blob' = blob, stamp' = stamp, store' \in SUBSET store, HeldStays, DistinctInv',
           Follows(store', r, s, jobs), ListsFollow
    PROVE  HeldInv'
<1>1. /\ session'[r] = s /\ job'[r] = jobs
      /\ \A k \in Runner : k # r => session'[k] = session[k] /\ job'[k] = job[k]
  BY DEF BackupInv, RunTypes
<1>2. \A v \in Vault : Bytes(v)' = Bytes(v)
  BY DEF Bytes
<1>3. PastInv' /\ stamp \in Nat
  BY DEF HeldInv, PastInv, BackupInv, ListsInv
<1>4. LateInv'
  <2>1. ASSUME NEW v \in Vault, NEW k \in Nat, Fresh(v, k)'
        PROVE  Fresh(v, k)
    <3>1. CASE \E q \in store' : q.content = Bytes(v) /\ q.stamp = k
      BY <3>1 DEF Fresh
    <3>2. CASE \E l \in Runner, t \in Target : Names(session'[l], job'[l][t], v, k)
      <4>1. PICK l \in Runner, t \in Target : Names(session'[l], job'[l][t], v, k)
        BY <3>2
      <4>2. Names(session[l], job[l][t], v, k)
        BY <1>1, <4>1 DEF Follows
      <4>3. QED
        BY <4>2 DEF Fresh
    <3>3. QED
      BY <1>2, <2>1, <3>1, <3>2 DEF Fresh, Names
  <2>2. \A v \in Vault, k \in Nat : Stale(v, k)' \in SUBSET Stale(v, k)
    BY <1>2 DEF Stale
  <2>3. ASSUME NEW v \in Vault
        PROVE  Debt(v)' \in SUBSET Debt(v)
    <3> SUFFICES ASSUME NEW l \in Runner, NEW t \in Target, Owes(session'[l], job'[l][t], v)
                 PROVE  Owes(session[l], job[l][t], v)
      BY <1>2 DEF Debt, Owes
    <3>1. QED
      BY <1>1 DEF Follows
  <2>4. QED
    BY <2>1, <2>2, <2>3, LateShrinks DEF HeldInv, BackupInv, StoreInv
<1>5. GoodStamps(stamp', s, jobs) /\ stamp' \in Nat /\ stamp <= stamp'
  BY <1>3 DEF Follows, GoodStamps
<1>6. /\ GoodTurns(r, s) /\ GoodUploads(store', s, jobs)
      /\ \A v \in Vault, t \in Target : \A e : RunTells(s, v, t, e) => Vouched(v, t, e)
  BY DEF Follows
<1>7. QED
  BY <1>3, <1>4, <1>5, <1>6, ChangeKeeps

(* A run that is over says, owes and names nothing. *)
LEMMA NothingFollows ==
    ASSUME NEW S, NEW r, stamp \in Nat
    PROVE  Follows(S, r, NoSession, NoJobs)
<1>1. /\ NoSession.pc = "idle" /\ NoSession.left = <<>> /\ NoSession.list = NoList
      /\ \A t \in Target : NoJobs[t].pc = "none" /\ NoJobs[t].stamp = 0 /\ NoJobs[t].doomed = {}
  BY DEF NoSession, NoJobs, NoJob
<1>2. GoodTurns(r, NoSession)
  BY <1>1 DEF GoodTurns
<1>3. GoodStamps(stamp, NoSession, NoJobs)
  BY <1>1 DEF GoodStamps
<1>4. GoodUploads(S, NoSession, NoJobs)
  BY <1>1 DEF GoodUploads
<1>5. \A t \in Target, v \in Vault : ~Owes(NoSession, NoJobs[t], v)
  BY <1>1 DEF Owes
<1>6. QED
  BY <1>1, <1>2, <1>3, <1>4, <1>5 DEF Follows, Names, RunTells

(* A run that stays as it is. *)
LEMMA ItselfFollows ==
    ASSUME HeldInv, NEW r \in Runner
    PROVE  Follows(store, r, session[r], job[r])
<1>1. \A v \in Vault, t \in Target : \A e : RunTells(session[r], v, t, e) => Vouched(v, t, e)
  BY SaidIsVouched DEF HeldInv, Says
<1>2. QED
  BY <1>1 DEF HeldInv, TurnsInv, UploadsInv, Follows

(* A run goes on or, its session gone, ends. *)
LEMMA GoFollows ==
    ASSUME BackupInv, Ample, HeldInv, NEW r \in Runner, NEW s, NEW jobs, Go(r, s, jobs),
           UNCHANGED <<reg, blob, stamp>>, store' \in SUBSET store, HeldStays,
           Follows(store', r, s, jobs), ListsFollow
    PROVE  HeldInv'
<1>1. DistinctInv' /\ stamp \in Nat
  BY DEF HeldInv, DistinctInv, BackupInv, ListsInv
<1>2. CASE Current(r)
  BY <1>1, <1>2, FollowsKeeps DEF Go
<1>3. CASE ~Current(r)
  <2>1. session' = [session EXCEPT ![r] = NoSession] /\ job' = [job EXCEPT ![r] = NoJobs]
    BY <1>3 DEF Go
  <2>2. QED
    BY <1>1, <2>1, NothingFollows, FollowsKeeps
<1>4. QED
  BY <1>2, <1>3

(* Lists that nobody changed. *)
LEMMA ListsStay ==
    ASSUME SaysInv, UNCHANGED <<stored, panel>>
    PROVE  ListsFollow
BY SaidIsVouched DEF ListsFollow, Says

(* Nothing goes. *)
LEMMA NothingGoes ==
    ASSUME store' = store
    PROVE  store' \in SUBSET store /\ HeldStays
BY DEF HeldStays

(* A run of which only the pin changes. *)
LEMMA AlikeFollows ==
    ASSUME HeldInv, NEW r \in Runner, NEW s,
           s.pc = session[r].pc, s.left = session[r].left, s.list = session[r].list
    PROVE  Follows(store, r, s, job[r])
<1>1. Follows(store, r, session[r], job[r])
  BY ItselfFollows
<1>2. QED
  BY <1>1 DEF Follows, GoodTurns, GoodStamps, GoodUploads, Owes, Names, RunTells

(* The runs stay as they are. *)
LEMMA RunsFollow ==
    ASSUME BackupInv, Ample, HeldInv, UNCHANGED <<session, job, blob, stamp, store>>,
           DistinctInv', ListsFollow
    PROVE  HeldInv'
<1>1. "timer" \in Runner /\ Follows(store', "timer", session["timer"], job["timer"])
  BY ItselfFollows DEF Runner
<1>2. /\ session' = [session EXCEPT !["timer"] = session["timer"]]
      /\ job' = [job EXCEPT !["timer"] = job["timer"]]
  BY DEF BackupInv, RunTypes
<1>3. QED
  BY <1>1, <1>2, NothingGoes, FollowsKeeps

(* A run's session is over, which it will find out. *)
LEMMA LapsedFollows ==
    ASSUME BackupInv, Ample, HeldInv, session' = Lapsed, UNCHANGED <<job, blob, stamp, store>>,
           DistinctInv', ListsFollow
    PROVE  HeldInv'
<1> DEFINE pin == IF session["timer"].pin = "session" THEN "lapsed" ELSE session["timer"].pin
           s == [session["timer"] EXCEPT !.pin = pin]
<1>1. "timer" \in Runner
  BY DEF Runner
<1>2. session["timer"] \in SessionType
  BY <1>1 DEF BackupInv, RunTypes
<1>3. session' = [session EXCEPT !["timer"] = s] /\ job' = [job EXCEPT !["timer"] = job["timer"]]
  BY <1>1 DEF Lapsed, BackupInv, RunTypes
<1> HIDE DEF pin
<1>4. /\ s.pc = session["timer"].pc /\ s.left = session["timer"].left
      /\ s.list = session["timer"].list
  BY <1>2 DEF SessionType
<1> HIDE DEF s
<1>5. Follows(store', "timer", s, job["timer"])
  BY <1>1, <1>4, AlikeFollows
<1>6. QED
  BY <1>1, <1>3, <1>5, NothingGoes, FollowsKeeps

(* The timer has begun a run. *)
LEMMA BegunFollows ==
    ASSUME BackupInv, Ample, HeldInv, NEW pin, At("timer", "idle"),
           session' = [session EXCEPT !["timer"] = Begin(pin)],
           UNCHANGED <<job, blob, stamp, store>>, DistinctInv', ListsFollow
    PROVE  HeldInv'
<1> DEFINE s == Begin(pin)
<1>1. "timer" \in Runner
  BY DEF Runner
<1>2. s.pc = "list" /\ s.left = <<>> /\ s.list = NoList
  BY DEF Begin, NoSession
<1>3. /\ job' = [job EXCEPT !["timer"] = job["timer"]]
      /\ session' = [session EXCEPT !["timer"] = s]
  BY <1>1 DEF BackupInv, RunTypes
<1> HIDE DEF s
<1>4. GoodStamps(stamp, s, job["timer"])
  BY <1>1, <1>2 DEF HeldInv, TurnsInv, GoodStamps, At
<1>5. Follows(store', "timer", s, job["timer"])
  BY <1>2, <1>4 DEF Follows, GoodTurns, GoodUploads, Owes, Names, RunTells
<1>6. QED
  BY <1>1, <1>3, <1>5, NothingGoes, FollowsKeeps

(* A run is given up. *)
LEMMA DroppedFollows ==
    ASSUME BackupInv, Ample, HeldInv, NEW r \in Runner,
           session' = [session EXCEPT ![r] = NoSession], job' = [job EXCEPT ![r] = NoJobs],
           UNCHANGED <<blob, stamp, store>>, DistinctInv', ListsFollow
    PROVE  HeldInv'
<1>1. Follows(store', r, NoSession, NoJobs)
  BY NothingFollows DEF BackupInv, ListsInv
<1>2. QED
  BY <1>1, NothingGoes, FollowsKeeps

(* The panel is closed. *)
LEMMA PanelCloses ==
    ASSUME SaysInv, stored' = stored, panel' = NoPanel \/ panel' = panel
    PROVE  ListsFollow
<1>1. NoPanel.vault \notin Vault
  BY VaultAssumption DEF NoPanel
<1>2. QED
  BY <1>1, SaidIsVouched DEF ListsFollow, Says

(* Whoever leaves the registry alone leaves its vaults distinct. *)
LEMMA DistinctStays ==
    ASSUME HeldInv, reg' = reg
    PROVE  DistinctInv'
BY DEF HeldInv, DistinctInv

(* What begins, ends or interrupts a run, and what the panel reads. *)
LEMMA SessionsFollow ==
    ASSUME BackupInv, Ample, HeldInv,
           \/ BackupAlarm \/ ClosePanel \/ WorkerDies \/ OpenPanel \/ Reload \/ Lock
           \/ \E v \in Vault : Unlock(v) \/ SelectVault(v)
    PROVE  HeldInv'
<1>1. "timer" \in Runner /\ "button" \in Runner /\ SaysInv
  BY DEF Runner, HeldInv
<1>2. CASE BackupAlarm
  BY <1>1, <1>2, BegunFollows, ListsStay, DistinctStays DEF BackupAlarm
<1>3. CASE ClosePanel
  <2>1. ListsFollow /\ DistinctInv' /\ UNCHANGED <<blob, stamp, store>>
    BY <1>1, <1>3, PanelCloses, DistinctStays DEF ClosePanel
  <2>2. QED
    BY <1>1, <1>3, <2>1, RunsFollow, DroppedFollows DEF ClosePanel, runVars
<1>4. CASE WorkerDies
  BY <1>1, <1>4, DroppedFollows, ListsStay, DistinctStays DEF WorkerDies
<1>5. CASE OpenPanel
  <2>1. stored' = stored /\ panel' = [vault |-> active, list |-> stored[active]]
    BY <1>5 DEF OpenPanel
  <2>2. ListsFollow
    BY <1>1, <2>1, SaidIsVouched DEF ListsFollow, Says
  <2>3. QED
    BY <1>5, <2>2, RunsFollow, DistinctStays DEF OpenPanel, runVars
<1>6. CASE Reload
  <2>1. /\ stored' = stored /\ panel'.vault = panel.vault
        /\ panel'.list = stored[panel.vault]
    BY <1>6 DEF Reload, BackupInv, ListsInv
  <2>2. ListsFollow
    BY <1>1, <2>1, SaidIsVouched DEF ListsFollow, Says
  <2>3. QED
    BY <1>6, <2>2, RunsFollow, DistinctStays DEF Reload, runVars
<1>7. CASE Lock
  BY <1>1, <1>7, LapsedFollows, PanelCloses, DistinctStays DEF Lock, Locked
<1>8. ASSUME NEW v \in Vault, Unlock(v)
      PROVE  HeldInv'
  <2>1. ListsFollow /\ DistinctInv' /\ UNCHANGED <<job, blob, stamp, store>>
    BY <1>1, <1>8, PanelCloses, DistinctStays DEF Unlock
  <2>2. QED
    BY <1>8, <2>1, BegunFollows, LapsedFollows DEF Unlock
<1>9. ASSUME NEW v \in Vault, SelectVault(v)
      PROVE  HeldInv'
  BY <1>1, <1>9, LapsedFollows, PanelCloses, DistinctStays DEF SelectVault
<1>10. QED
  BY <1>2, <1>3, <1>4, <1>5, <1>6, <1>7, <1>8, <1>9

(* Time leaves places and hashes alone. *)
LEMMA OlderEssence ==
    ASSUME NEW list \in List, NEW t \in Target, NEW e, Tells(Older(list), t, e)
    PROVE  Tells(list, t, e)
<1>1. list[t] # None
  BY DEF Tells, Older
<1>2. list[t] \in Cfg
  BY <1>1 DEF List
<1> DEFINE age == IF list[t].age < Interval THEN list[t].age + 1 ELSE list[t].age
           wait == IF list[t].wait > 0 THEN list[t].wait - 1 ELSE 0
           cfg == [list[t] EXCEPT !.age = age, !.wait = wait]
<1>3. Older(list)[t] = cfg
  BY <1>1 DEF Older
<1> HIDE DEF age, wait
<1>4. cfg.dest = list[t].dest /\ cfg.shared = list[t].shared /\ cfg.hash = list[t].hash
  BY <1>2 DEF Cfg
<1> HIDE DEF cfg
<1>5. QED
  BY <1>1, <1>3, <1>4 DEF Tells, Essence

(* Time passes for every list. *)
LEMMA TickFollows == BackupInv /\ Ample /\ HeldInv /\ Tick => HeldInv'
<1> SUFFICES ASSUME BackupInv, Ample, HeldInv, Tick
             PROVE  HeldInv'
  OBVIOUS
<1>1. /\ \A v \in Vault : stored[v] \in List /\ stored'[v] = Older(stored[v])
      /\ panel.list \in List /\ panel'.vault = panel.vault /\ panel'.list = Older(panel.list)
  BY DEF Tick, BackupInv, ListsInv
<1>2. ListsFollow
  <2> SUFFICES ASSUME NEW v \in Vault, NEW t \in Target, NEW e,
                      Tells(stored'[v], t, e) \/ (panel'.vault = v /\ Tells(panel'.list, t, e))
               PROVE  Vouched(v, t, e)
    BY DEF ListsFollow
  <2>1. Tells(stored[v], t, e) \/ (panel.vault = v /\ Tells(panel.list, t, e))
    BY <1>1, OlderEssence
  <2>2. QED
    BY <2>1, SaidIsVouched DEF HeldInv, Says
<1>3. QED
  BY <1>2, RunsFollow, DistinctStays DEF Tick, runVars

-----------------------------------------------------------------------------
(* What the panel shows once it has written the list. *)
LEMMA PanelWritten ==
    ASSUME BackupInv, NEW t \in Target, NEW cfg, Persist(t, cfg)
    PROVE  /\ panel.vault \in Vault
           /\ stored' = [stored EXCEPT ![panel.vault] = [panel.list EXCEPT ![t] = cfg]]
           /\ \/ panel' = NoPanel
              \/ panel'.vault = panel.vault /\ panel'.list = [panel.list EXCEPT ![t] = cfg]
<1>1. panel.vault \in Vault /\ panel \in [vault : Vault \cup {None}, list : List]
  BY PanelVault DEF Persist, BackupInv, ListsInv
<1>2. ASSUME LeftPanel = NoPanel
      PROVE  panel' = NoPanel
  <2>1. panel' = [NoPanel EXCEPT !.list[t] = None]
    BY <1>2 DEF Persist
  <2>2. NoPanel.list = NoList /\ [NoList EXCEPT ![t] = None] = NoList
    BY DEF NoPanel, NoList
  <2>3. QED
    BY <2>1, <2>2 DEF NoPanel
<1>3. ASSUME LeftPanel # NoPanel
      PROVE  panel'.vault = panel.vault /\ panel'.list = [panel.list EXCEPT ![t] = cfg]
  <2>1. panel' = [panel EXCEPT !.list = [panel.list EXCEPT ![t] = cfg]]
    BY <1>3 DEF Persist, LeftPanel
  <2>2. QED
    BY <1>1, <2>1
<1>4. QED
  BY <1>1, <1>2, <1>3 DEF Persist

(* What the lists tell then. *)
LEMMA TellsWritten ==
    ASSUME BackupInv, NEW t \in Target, NEW cfg, Persist(t, cfg),
           NEW v \in Vault, NEW u \in Target, NEW e,
           Tells(stored'[v], u, e) \/ (panel'.vault = v /\ Tells(panel'.list, u, e))
    PROVE  \/ Says(v, u, e)
           \/ v = panel.vault /\ u = t /\ cfg # None /\ e = Essence(cfg)
<1>1. /\ panel.vault \in Vault /\ stored \in [Vault -> List] /\ panel.list \in List
      /\ stored' = [stored EXCEPT ![panel.vault] = [panel.list EXCEPT ![t] = cfg]]
      /\ \/ panel' = NoPanel
         \/ panel'.vault = panel.vault /\ panel'.list = [panel.list EXCEPT ![t] = cfg]
  BY PanelWritten DEF BackupInv, ListsInv
<1>2. NoPanel.vault # v
  BY VaultAssumption DEF NoPanel
<1>3. \/ Tells(stored[v], u, e)
      \/ v = panel.vault /\ Tells([panel.list EXCEPT ![t] = cfg], u, e)
  BY <1>1, <1>2
<1>4. Tells([panel.list EXCEPT ![t] = cfg], u, e) =>
         \/ u = t /\ cfg # None /\ e = Essence(cfg)
         \/ Tells(panel.list, u, e)
  BY <1>1 DEF Tells, List
<1>5. QED
  BY <1>3, <1>4 DEF Says

(* A target that stays where it is and keeps its hash. *)
LEMMA PersistFollows ==
    ASSUME BackupInv, Ample, HeldInv, NEW t \in Target, NEW cfg, Persist(t, cfg),
           cfg # None => panel.list[t] # None /\ Essence(cfg) = Essence(panel.list[t])
    PROVE  HeldInv'
<1>1. ListsFollow
  <2> SUFFICES ASSUME NEW v \in Vault, NEW u \in Target, NEW e,
                      Tells(stored'[v], u, e) \/ (panel'.vault = v /\ Tells(panel'.list, u, e))
               PROVE  Vouched(v, u, e)
    BY DEF ListsFollow
  <2>1. Says(v, u, e)
    BY TellsWritten DEF Says, Tells
  <2>2. QED
    BY <2>1, SaidIsVouched DEF HeldInv
<1>2. QED
  BY <1>1, RunsFollow, DistinctStays DEF Persist, runVars

(* A target under an id that nothing bears. *)
LEMMA AddTargetFollows ==
    ASSUME BackupInv, Ample, HeldInv, NEW t \in Target, AddTarget(t)
    PROVE  HeldInv'
<1>1. PICK f \in Folder : Persist(t, Config(f, FALSE, panel.vault))
  BY DEF AddTarget
<1> DEFINE cfg == Config(f, FALSE, panel.vault)
<1>2. Persist(t, cfg) /\ cfg.dest = f /\ cfg.shared = FALSE /\ cfg.hash = None
  BY <1>1 DEF Config
<1> HIDE DEF cfg
<1>3. UNCHANGED <<session, job, blob, stamp, store, reg>>
  BY <1>2 DEF Persist, runVars
<1>4. panel # NoPanel
  BY <1>2 DEF Persist
<1>5. \A e : ~Says(panel.vault, t, e)
  BY <1>4 DEF AddTarget, Says, Tells, RunTells
<1>6. ASSUME NEW v \in Vault, NEW u \in Target, NEW e, Says(v, u, e)'
      PROVE  \/ Says(v, u, e)
             \/ v = panel.vault /\ u = t /\ e = Essence(cfg)
  <2>1. \/ Tells(stored[v], u, e)'
        \/ (panel.vault = v /\ Tells(panel.list, u, e))'
        \/ \E k \in Runner : RunTells(session[k], v, u, e)'
    BY <1>6 DEF Says
  <2>2. Tells(stored[v], u, e)' => Tells(stored'[v], u, e)
    BY DEF Tells, Essence
  <2>3. (panel.vault = v /\ Tells(panel.list, u, e))' =>
           (panel'.vault = v /\ Tells(panel'.list, u, e))
    BY DEF Tells, Essence
  <2>4. \A k \in Runner : RunTells(session[k], v, u, e)' => RunTells(session[k], v, u, e)
    BY <1>3 DEF RunTells, Tells, Essence
  <2>5. CASE Tells(stored'[v], u, e) \/ (panel'.vault = v /\ Tells(panel'.list, u, e))
    BY <1>2, <2>5, TellsWritten
  <2>6. CASE \E k \in Runner : RunTells(session[k], v, u, e)
    BY <2>6 DEF Says
  <2>7. QED
    BY <2>1, <2>2, <2>3, <2>4, <2>5, <2>6
<1>7. SaysInv'
  <2> SUFFICES ASSUME NEW v \in Vault, NEW u \in Target
               PROVE  /\ \A e, g : Says(v, u, e)' /\ Says(v, u, g)' => e[1] = g[1] /\ e[2] = g[2]
                      /\ \A e : Says(v, u, e)' =>
                            PastHash(e, v)' /\ (e[3] = Bytes(v)' => HeldIn(store, e, v)')
    BY DEF SaysInv
  <2>1. CASE v = panel.vault /\ u = t
    <3>1. \A e : Says(v, u, e)' => e = Essence(cfg)
      BY <1>5, <1>6, <2>1
    <3>2. Essence(cfg)[3] = None
      BY <1>2 DEF Essence
    <3>3. Bytes(v)' \in Vault \X Nat
      BY <1>3 DEF Bytes, BackupInv, ListsInv
    <3>4. QED
      BY <3>1, <3>2, <3>3, VaultAssumption DEF PastHash
  <2>2. CASE ~(v = panel.vault /\ u = t)
    <3>1. \A e : Says(v, u, e)' => Says(v, u, e)
      BY <1>6, <2>2
    <3>2. /\ \A e, g : Says(v, u, e) /\ Says(v, u, g) => e[1] = g[1] /\ e[2] = g[2]
          /\ \A e : Says(v, u, e) => PastHash(e, v) /\ (e[3] = Bytes(v) => HeldIn(store, e, v))
      BY DEF HeldInv, SaysInv
    <3>3. /\ Bytes(v)' = Bytes(v)
          /\ \A e : PastHash(e, v) => PastHash(e, v)'
          /\ \A e : HeldIn(store, e, v) => HeldIn(store, e, v)'
      BY <1>3 DEF Bytes, PastHash, HeldIn
    <3>4. QED
      BY <3>1, <3>2, <3>3
  <2>3. QED
    BY <2>1, <2>2
<1>8. DistinctInv' /\ TurnsInv' /\ PastInv'
  BY <1>3 DEF HeldInv, DistinctInv, TurnsInv, GoodTurns, GoodStamps, PastInv
<1>9. UploadsInv'
  <2> SUFFICES ASSUME NEW r \in Runner
               PROVE  GoodUploads(store, session[r], job[r])'
    BY DEF UploadsInv
  <2>1. GoodUploads(store, session[r], job[r])
    BY DEF HeldInv, UploadsInv
  <2>2. QED
    BY <1>3, <2>1 DEF GoodUploads, HeldIn, Bytes, Essence
<1>10. LateInv'
  <2>1. \A v \in Vault, k \in Nat : Fresh(v, k)' => Fresh(v, k)
    BY <1>3 DEF Fresh, Names, Bytes
  <2>2. \A v \in Vault, k \in Nat : Stale(v, k)' \in SUBSET Stale(v, k)
    BY <1>3 DEF Stale, Bytes
  <2>3. \A v \in Vault : Debt(v)' \in SUBSET Debt(v)
    BY <1>3 DEF Debt, Owes, Bytes
  <2>4. QED
    BY <2>1, <2>2, <2>3, LateShrinks DEF HeldInv, BackupInv, StoreInv
<1>11. QED
  BY <1>7, <1>8, <1>9, <1>10 DEF HeldInv

(* A target is changed, removed, or is new: it stays where it is. *)
LEMMA TargetsFollow ==
    ASSUME ~Moves, BackupInv, Ample, HeldInv, NEW t \in Target,
           \/ SetFrequency(t) \/ UpdateTarget(t)
           \/ AddTarget(t) \/ RemoveTarget(t)
    PROVE  HeldInv'
<1> DEFINE cur == panel.list[t]
<1>1. cur # None => cur \in Cfg
  BY DEF BackupInv, ListsInv, List
<1>2. ASSUME cur \in Cfg
      PROVE  /\ ClearBackoff(cur) \in Cfg /\ ClearBackoff(cur).dest = cur.dest
             /\ ClearBackoff(cur).shared = cur.shared /\ ClearBackoff(cur).hash = cur.hash
  BY <1>2, ClearBackoffType DEF ClearBackoff, Cfg
<1>3. CASE SetFrequency(t)
  <2> DEFINE old == ClearBackoff(cur)
             new == [old EXCEPT !.on = ~@]
  <2>1. cur # None /\ Persist(t, new)
    BY <1>3 DEF SetFrequency
  <2>2. /\ old \in Cfg /\ old.dest = cur.dest /\ old.shared = cur.shared /\ old.hash = cur.hash
    BY <1>1, <1>2, <2>1
  <2> HIDE DEF old
  <2>3. new.dest = cur.dest /\ new.shared = cur.shared /\ new.hash = cur.hash
    BY <2>2 DEF Cfg
  <2> HIDE DEF new
  <2>4. QED
    BY <2>1, <2>3, PersistFollows DEF Essence
<1>4. CASE UpdateTarget(t)
  <2> DEFINE old == ClearBackoff(cur)
  <2>1. cur # None
    BY <1>4 DEF UpdateTarget
  <2>2. PICK owner \in {cur.owner, panel.vault} :
           Persist(t, [old EXCEPT !.dest = cur.dest, !.owner = owner,
                                  !.shared = @ /\ cur.dest = cur.dest])
    BY <1>4 DEF UpdateTarget
  <2>3. /\ old \in Cfg /\ old.dest = cur.dest /\ old.shared = cur.shared /\ old.hash = cur.hash
    BY <1>1, <1>2, <2>1
  <2>4. (old.shared /\ cur.dest = cur.dest) = cur.shared
    BY <2>3 DEF Cfg
  <2> DEFINE shared == old.shared /\ cur.dest = cur.dest
             new == [old EXCEPT !.dest = cur.dest, !.owner = owner, !.shared = shared]
  <2>5. Persist(t, new) /\ shared = cur.shared
    BY <2>2, <2>4
  <2> HIDE DEF old, shared
  <2>6. new.dest = cur.dest /\ new.shared = shared /\ new.hash = cur.hash
    BY <2>3 DEF Cfg
  <2> HIDE DEF new
  <2>7. QED
    BY <2>1, <2>5, <2>6, PersistFollows DEF Essence
<1>5. CASE AddTarget(t)
  BY <1>5, AddTargetFollows
<1>6. CASE RemoveTarget(t)
  BY <1>6, PersistFollows DEF RemoveTarget
<1>7. QED
  BY <1>3, <1>4, <1>5, <1>6

(* A list without one of its places has the others once each. *)
LEMMA RemoveAtDistinct ==
    ASSUME NEW S, NEW q \in Seq(S), NEW i \in 1..Len(q),
           \A k, l \in 1..Len(q) : q[k] = q[l] => k = l
    PROVE  \A k, l \in 1..Len(RemoveAt(q, i)) :
              RemoveAt(q, i)[k] = RemoveAt(q, i)[l] => k = l
<1> DEFINE front == SubSeq(q, 1, i - 1)
           back == SubSeq(q, i + 1, Len(q))
           at(k) == IF k < i THEN k ELSE k + 1
<1>1. Len(q) \in Nat /\ \A k \in 1..Len(q) : q[k] \in S
  BY LenProperties
<1>2. /\ front \in Seq(S) /\ Len(front) = i - 1
      /\ \A k \in 1..i - 1 : front[k] = q[k]
  BY <1>1
<1>3. /\ back \in Seq(S) /\ Len(back) = Len(q) - i
      /\ \A k \in 1..Len(q) - i : back[k] = q[k + i]
  BY <1>1
<1> HIDE DEF front, back
<1>4. /\ Len(front \o back) = Len(q) - 1
      /\ \A k \in 1..Len(q) - 1 :
            (front \o back)[k] = IF k <= i - 1 THEN front[k] ELSE back[k - (i - 1)]
  <2>1. Len(front) + Len(back) = Len(q) - 1 /\ Len(front) = i - 1
    BY <1>1, <1>2, <1>3
  <2>2. front \in Seq(S) /\ back \in Seq(S)
    BY <1>2, <1>3
  <2>3. /\ Len(front \o back) = Len(front) + Len(back)
        /\ \A k \in 1..Len(front) + Len(back) :
              (front \o back)[k] = IF k <= Len(front) THEN front[k] ELSE back[k - Len(front)]
    BY <2>2, ConcatProperties
  <2>4. QED
    BY <2>1, <2>3
<1>5. \A k \in 1..Len(q) - 1 : (front \o back)[k] = q[at(k)] /\ at(k) \in 1..Len(q)
  <2> SUFFICES ASSUME NEW k \in 1..Len(q) - 1
               PROVE  (front \o back)[k] = q[at(k)] /\ at(k) \in 1..Len(q)
    OBVIOUS
  <2>1. CASE k <= i - 1
    BY <1>1, <1>2, <1>4, <2>1
  <2>2. CASE ~(k <= i - 1)
    <3>1. k - (i - 1) \in 1..Len(q) - i /\ (k - (i - 1)) + i = k + 1
      BY <1>1, <2>2
    <3>2. back[k - (i - 1)] = q[k + 1]
      BY <1>3, <3>1
    <3>3. QED
      BY <1>1, <1>4, <2>2, <3>2
  <2>3. QED
    BY <2>1, <2>2
<1>6. RemoveAt(q, i) = front \o back
  BY DEF RemoveAt, front, back
<1>7. \A k, l \in 1..Len(q) - 1 : at(k) = at(l) => k = l
  BY <1>1
<1> HIDE DEF at
<1>8. ASSUME NEW k \in 1..Len(q) - 1, NEW l \in 1..Len(q) - 1,
             (front \o back)[k] = (front \o back)[l]
      PROVE  k = l
  <2>1. q[at(k)] = q[at(l)] /\ at(k) \in 1..Len(q) /\ at(l) \in 1..Len(q)
    BY <1>5, <1>8
  <2>2. at(k) = at(l)
    BY <2>1
  <2>3. QED
    BY <1>7, <2>2
<1>9. QED
  BY <1>4, <1>6, <1>8

(* A vault is deleted: nothing is said of its targets any more. *)
LEMMA DeleteVaultFollows == BackupInv /\ Ample /\ HeldInv /\ DeleteVault => HeldInv'
<1> SUFFICES ASSUME BackupInv, Ample, HeldInv, DeleteVault
             PROVE  HeldInv'
  OBVIOUS
<1>1. /\ session' = Lapsed /\ panel' = NoPanel /\ UNCHANGED <<job, blob, stamp, store>>
      /\ stored' = [stored EXCEPT ![active] = NoList]
      /\ \E i \in DOMAIN reg : reg' = RemoveAt(reg, i)
  BY DEF DeleteVault, Locked
<1>2. DistinctInv'
  <2>1. reg \in Seq(Vault) /\ \A i, j \in 1..Len(reg) : reg[i] = reg[j] => i = j
    BY DEF BackupInv, RegInv, HeldInv, DistinctInv
  <2>2. PICK i \in 1..Len(reg) : reg' = RemoveAt(reg, i)
    BY <1>1, <2>1
  <2>3. QED
    BY <2>1, <2>2, RemoveAtDistinct DEF DistinctInv
<1>3. ListsFollow
  <2> SUFFICES ASSUME NEW v \in Vault, NEW t \in Target, NEW e,
                      Tells(stored'[v], t, e) \/ (panel'.vault = v /\ Tells(panel'.list, t, e))
               PROVE  Vouched(v, t, e)
    BY DEF ListsFollow
  <2>1. panel'.vault # v /\ ~Tells(NoList, t, e)
    BY <1>1, VaultAssumption DEF NoPanel, Tells, NoList
  <2>2. Tells(stored[v], t, e)
    BY <1>1, <2>1 DEF BackupInv, ListsInv
  <2>3. QED
    BY <2>2, SaidIsVouched DEF HeldInv, Says
<1>4. QED
  BY <1>1, <1>2, <1>3, LapsedFollows

-----------------------------------------------------------------------------
(* A vault is written: its bytes were never before, so that nothing said of
   it and nothing put of it is of the vault as it is. *)
LEMMA EditFollows ==
    ASSUME BackupInv, Ample, HeldInv, NEW w \in Vault, Edit(w)
    PROVE  HeldInv'
<1>1. /\ UNCHANGED <<reg, stored, panel, store, stamp, session, job>>
      /\ blob' = [blob EXCEPT ![w] = blob[w] + 1] /\ blob \in [Vault -> Nat]
  BY DEF Edit, runVars, BackupInv, ListsInv
<1>2. /\ \A v \in Vault : blob[v] \in Nat /\ blob'[v] \in Nat /\ blob[v] <= blob'[v]
      /\ \A v \in Vault : v # w => blob'[v] = blob[v] /\ Bytes(v)' = Bytes(v)
      /\ blob'[w] = blob[w] + 1 /\ Bytes(w)' = <<w, blob[w] + 1>>
  BY <1>1 DEF Bytes
<1>3. \A c : c \in Vault \X Nat /\ c[2] <= blob[w] => c # Bytes(w)'
  BY <1>2
<1>4. DistinctInv'
  BY <1>1 DEF HeldInv, DistinctInv
<1>5. TurnsInv'
  <2> SUFFICES ASSUME NEW r \in Runner
               PROVE  GoodTurns(r, session[r])' /\ GoodStamps(stamp, session[r], job[r])'
    BY DEF TurnsInv
  <2>1. GoodTurns(r, session[r]) /\ GoodStamps(stamp, session[r], job[r])
    BY DEF HeldInv, TurnsInv
  <2>2. GoodStamps(stamp, session[r], job[r])'
    BY <1>1, <2>1 DEF GoodStamps
  <2>3. ASSUME NEW i \in 1..Len(session[r].left), r = "timer" \/ session[r].pc # "list"
        PROVE  session[r].left[i].bytes[2] <= blob'[session[r].left[i].vault]
    <3>1. /\ GoodSession(r, session[r]) /\ session[r].left \in Seq(Turn)
          /\ session[r].left[i].bytes[2] <= blob[session[r].left[i].vault]
      BY <2>1, <2>3 DEF BackupInv, RunInv, RunTypes, SessionType, GoodTurns
    <3>2. session[r].left[i].bytes \in Vault \X Nat /\ session[r].left[i] \in Turn
      BY <2>3, <3>1 DEF GoodSession
    <3>3. session[r].left[i].vault \in Vault /\ session[r].left[i].bytes[2] \in Nat
      BY <3>2 DEF Turn
    <3>4. QED
      BY <1>2, <3>1, <3>3
  <2>4. GoodTurns(r, session[r])'
    BY <1>1, <2>1, <2>3 DEF GoodTurns
  <2>5. QED
    BY <2>2, <2>4
<1>6. PastInv'
  <2> SUFFICES ASSUME NEW q \in store
               PROVE  q.content[2] <= blob'[q.content[1]]
    BY <1>1 DEF HeldInv, PastInv
  <2>1. q.content[1] \in Vault /\ q.content[2] \in Nat /\ q.content[2] <= blob[q.content[1]]
    BY DEF BackupInv, StoreInv, Snapshot, HeldInv, PastInv
  <2>2. QED
    BY <1>2, <2>1
<1>7. SaysInv'
  <2> SUFFICES ASSUME NEW v \in Vault, NEW t \in Target
               PROVE  /\ \A e, f : Says(v, t, e)' /\ Says(v, t, f)' => e[1] = f[1] /\ e[2] = f[2]
                      /\ \A e : Says(v, t, e)' =>
                            PastHash(e, v)' /\ (e[3] = Bytes(v)' => HeldIn(store, e, v)')
    BY DEF SaysInv
  <2>1. \A e : Says(v, t, e)' => Says(v, t, e)
    BY <1>1 DEF Says, RunTells, Tells, Essence
  <2>2. /\ \A e, f : Says(v, t, e) /\ Says(v, t, f) => e[1] = f[1] /\ e[2] = f[2]
        /\ \A e : Says(v, t, e) => PastHash(e, v) /\ (e[3] = Bytes(v) => HeldIn(store, e, v))
    BY DEF HeldInv, SaysInv
  <2>3. ASSUME NEW e, PastHash(e, v), e[3] = Bytes(v) => HeldIn(store, e, v)
        PROVE  PastHash(e, v)' /\ (e[3] = Bytes(v)' => HeldIn(store, e, v)')
    <3>1. PastHash(e, v)'
      <4> SUFFICES ASSUME e[3] # None
                   PROVE  e[3] \in Vault \X Nat /\ e[3][1] = v /\ e[3][2] <= blob'[v]
        BY DEF PastHash
      <4>1. e[3] \in Vault \X Nat /\ e[3][1] = v /\ e[3][2] <= blob[v]
        BY <2>3 DEF PastHash
      <4>2. e[3][2] \in Nat
        BY <4>1
      <4>3. QED
        BY <1>2, <4>1, <4>2
    <3>2. CASE v = w
      <4>1. Bytes(w)' \in Vault \X Nat
        BY <1>2
      <4>2. e[3] # Bytes(v)'
        BY <1>3, <2>3, <3>2, <4>1, VaultAssumption DEF PastHash
      <4>3. QED
        BY <3>1, <4>2
    <3>3. CASE v # w
      <4>1. HeldIn(store, e, v) => HeldIn(store, e, v)'
        BY <1>1, <1>2, <3>3 DEF HeldIn
      <4>2. QED
        BY <1>2, <2>3, <3>1, <3>3, <4>1
    <3>4. QED
      BY <3>2, <3>3
  <2>4. QED
    BY <2>1, <2>2, <2>3
<1>8. UploadsInv'
  <2> SUFFICES ASSUME NEW r \in Runner
               PROVE  GoodUploads(store, session[r], job[r])'
    BY DEF UploadsInv
  <2>1. GoodUploads(store, session[r], job[r])
    BY DEF HeldInv, UploadsInv
  <2>2. CASE session[r].pc = "upload"
    <3>1. PICK v \in Vault, c \in Vault \X Nat :
             Head(session[r].left).vault = v /\ Head(session[r].left).bytes = c /\ c[1] = v
      BY <2>2, ThisTurn DEF This, Turn
    <3>2. c[2] <= blob[v]
      <4>1. /\ session[r].left \in Seq(Turn) /\ session[r].left # <<>>
            /\ GoodTurns(r, session[r])
        BY <2>2, ThisTurn DEF HeldInv, TurnsInv
      <4>2. 1 \in 1..Len(session[r].left) /\ Head(session[r].left) = session[r].left[1]
        BY <4>1, EmptySeq
      <4>3. QED
        BY <2>2, <3>1, <4>1, <4>2 DEF GoodTurns
    <3>3. ASSUME NEW t \in Target, job[r][t].pc \in {"list", "prune", "ok"}
          PROVE  /\ session[r].list[t] # None
                 /\ c = Bytes(v)' => HeldIn(store, Essence(session[r].list[t]), v)'
      <4>1. /\ session[r].list[t] # None
            /\ c = Bytes(v) => HeldIn(store, Essence(session[r].list[t]), v)
        BY <2>1, <2>2, <3>1, <3>3 DEF GoodUploads
      <4>2. CASE v = w
        <5>1. c # Bytes(v)'
          BY <1>3, <3>1, <3>2, <4>2
        <5>2. QED
          BY <4>1, <5>1
      <4>3. CASE v # w
        <5>1. Bytes(v)' = Bytes(v) /\ store' = store /\ session' = session
          BY <1>1, <1>2, <4>3
        <5>2. HeldIn(store, Essence(session[r].list[t]), v)
              => HeldIn(store, Essence(session[r].list[t]), v)'
          BY <5>1 DEF HeldIn, Essence
        <5>3. QED
          BY <4>1, <5>1, <5>2
      <4>4. QED
        BY <4>2, <4>3
    <3>4. Bytes(Head(session[r].left).vault)' = Bytes(v)' /\ session' = session /\ job' = job
      BY <1>1, <3>1 DEF Bytes
    <3>5. QED
      BY <3>1, <3>3, <3>4 DEF GoodUploads
  <2>3. QED
    BY <1>1, <2>2 DEF GoodUploads
<1>9. LateInv'
  <2> SUFFICES ASSUME Keep > 0, NEW v \in Vault, NEW k \in Nat, Fresh(v, k)'
               PROVE  Cardinality(Stale(v, k)') + Cardinality(Debt(v)') <= Cardinality(Target)
    BY DEF LateInv
  <2>1. CASE v = w
    <3>1. ASSUME NEW q \in store, q.content = Bytes(w)'
          PROVE  FALSE
      <4>1. q.content \in Vault \X Nat /\ q.content[2] <= blob[q.content[1]] /\ q.content[1] = w
        BY <1>2, <3>1 DEF BackupInv, StoreInv, Snapshot, HeldInv, PastInv
      <4>2. QED
        BY <1>3, <3>1, <4>1
    <3>2. ASSUME NEW r \in Runner, session[r].pc = "upload", Head(session[r].left).vault = w,
                 Head(session[r].left).bytes = Bytes(w)'
          PROVE  FALSE
      <4>1. /\ session[r].left \in Seq(Turn) /\ session[r].left # <<>>
            /\ GoodTurns(r, session[r])
            /\ Head(session[r].left).bytes \in Vault \X Nat
        BY <3>2, ThisTurn DEF HeldInv, TurnsInv, This
      <4>2. 1 \in 1..Len(session[r].left) /\ Head(session[r].left) = session[r].left[1]
        BY <4>1, EmptySeq
      <4>3. Head(session[r].left).bytes[2] <= blob[w]
        BY <3>2, <4>1, <4>2 DEF GoodTurns
      <4>4. QED
        BY <1>3, <3>2, <4>1, <4>3
    <3>3. QED
      BY <1>1, <2>1, <3>1, <3>2 DEF Fresh, Names
  <2>2. CASE v # w
    <3>1. Bytes(v)' = Bytes(v) /\ UNCHANGED <<store, session, job>>
      BY <1>1, <1>2, <2>2
    <3>2. Fresh(v, k)' => Fresh(v, k)
      BY <3>1 DEF Fresh, Names
    <3>3. Stale(v, k)' = Stale(v, k)
      BY <3>1 DEF Stale
    <3>4. Debt(v)' = Debt(v)
      BY <3>1 DEF Debt, Owes
    <3>5. QED
      BY <3>2, <3>3, <3>4 DEF HeldInv, LateInv
  <2>3. QED
    BY <2>1, <2>2
<1>10. QED
  BY <1>4, <1>5, <1>6, <1>7, <1>8, <1>9 DEF HeldInv

-----------------------------------------------------------------------------
(* The timer's vaults are listed, each once and as it is. *)
LEMMA ListVaultsFollows == BackupInv /\ Ample /\ HeldInv /\ ListVaults => HeldInv'
<1> SUFFICES ASSUME BackupInv, Ample, HeldInv, ListVaults
             PROVE  HeldInv'
  OBVIOUS
<1> DEFINE turn(i) == [vault |-> reg[i], bytes |-> Bytes(reg[i]), isDefault |-> i = 1]
           left == [i \in DOMAIN reg |-> turn(i)]
           s == [session["timer"] EXCEPT !.pc = "load", !.left = left]
<1>1. /\ reg \in Seq(Vault) /\ reg # <<>> /\ reg[1] = First /\ "timer" \in Runner
      /\ session["timer"] \in SessionType /\ session["timer"].pc = "list"
      /\ UNCHANGED <<reg, blob, stored, panel, stamp, store>>
  BY DEF BackupInv, RegInv, RunTypes, Runner, ListVaults, At
<1>2. session["timer"].list = NoList
  BY <1>1 DEF HeldInv, TurnsInv, GoodTurns
<1>3. Go("timer", s, NoJobs)
  BY <1>1 DEF ListVaults
<1>4. /\ DOMAIN reg = 1..Len(reg) /\ Len(reg) \in Nat \ {0}
      /\ \A i \in 1..Len(reg) : reg[i] \in Vault /\ Bytes(reg[i])[2] <= blob[reg[i]]
      /\ \A i, j \in 1..Len(reg) : reg[i] = reg[j] => i = j
  BY <1>1 DEF HeldInv, DistinctInv, BackupInv, ListsInv, Bytes
<1>turns. \A i \in Nat : /\ turn(i).vault = reg[i] /\ turn(i).bytes = Bytes(reg[i])
                         /\ turn(i).isDefault <=> i = 1
  OBVIOUS
<1> HIDE DEF turn
<1>left. left = [i \in 1..Len(reg) |-> turn(i)]
  BY <1>4
<1>len. Len(left) = Len(reg)
  BY <1>4, <1>left
<1>5. /\ Len(left) = Len(reg)
      /\ \A i \in 1..Len(left) :
            /\ left[i].vault = reg[i] /\ left[i].bytes = Bytes(reg[i])
            /\ left[i].isDefault <=> i = 1
  <2>1. \A i \in 1..Len(left) : left[i] = turn(i)
    BY <1>left, <1>len
  <2> HIDE DEF left
  <2>2. \A i \in 1..Len(left) :
            /\ left[i].vault = reg[i] /\ left[i].bytes = Bytes(reg[i])
            /\ left[i].isDefault <=> i = 1
    <3> SUFFICES ASSUME NEW i \in 1..Len(left)
                 PROVE  /\ left[i].vault = reg[i] /\ left[i].bytes = Bytes(reg[i])
                        /\ left[i].isDefault <=> i = 1
      OBVIOUS
    <3>1. left[i] = turn(i)
      BY <2>1
    <3>2. /\ turn(i).vault = reg[i] /\ turn(i).bytes = Bytes(reg[i])
          /\ turn(i).isDefault <=> i = 1
      BY <1>4, <1>len, <1>turns
    <3>3. QED
      BY <3>1, <3>2
  <2>3. QED
    BY <1>len, <2>2
<1> HIDE DEF left
<1>6. s.pc = "load" /\ s.left = left /\ s.list = NoList
  BY <1>1, <1>2 DEF SessionType
<1> HIDE DEF s
<1>7. GoodTurns("timer", s)
  BY <1>1, <1>4, <1>5, <1>6 DEF GoodTurns
<1>8. GoodStamps(stamp, s, NoJobs) /\ \A t \in Target : NoJobs[t].pc = "none"
  BY DEF GoodStamps, NoJobs, NoJob, BackupInv, ListsInv
<1>9. \A t \in Target, v \in Vault : ~Owes(s, NoJobs[t], v)
  BY <1>5, <1>6 DEF Owes
<1>10. \A v \in Vault, t \in Target : \A e : ~RunTells(s, v, t, e)
  BY <1>6 DEF RunTells, Tells, NoList
<1>11. Follows(store', "timer", s, NoJobs)
  BY <1>6, <1>7, <1>8, <1>9, <1>10 DEF Follows, GoodUploads, Names
<1>12. QED
  BY <1>1, <1>3, <1>11, NothingGoes, ListsStay, GoFollows DEF HeldInv

(* A vault is done. *)
LEMMA NextVaultFollows ==
    ASSUME BackupInv, Ample, HeldInv, NEW r \in Runner, NextVault(r),
           session[r].pc \in {"load", "upload", "save"},
           UNCHANGED <<reg, blob, stamp, store>>, ListsFollow
    PROVE  HeldInv'
<1>1. /\ session[r] \in SessionType /\ session[r].left \in Seq(Turn) /\ session[r].left # <<>>
      /\ GoodTurns(r, session[r]) /\ stamp \in Nat
  BY ThisTurn DEF HeldInv, TurnsInv, BackupInv, ListsInv
<1>2. CASE Len(session[r].left) = 1
  BY <1>1, <1>2, NothingFollows, NothingGoes, GoFollows DEF NextVault
<1>3. CASE Len(session[r].left) # 1
  <2> DEFINE s == [session[r] EXCEPT !.pc = "load", !.left = Tail(@), !.list = NoList]
             left == Tail(session[r].left)
  <2>1. /\ left \in Seq(Turn) /\ left # <<>>
        /\ \A i \in 1..Len(left) :
              i + 1 \in 1..Len(session[r].left) /\ left[i] = session[r].left[i + 1]
    BY <1>1, <1>3, TailOf
  <2>2. s.pc = "load" /\ s.left = left /\ s.list = NoList
    BY <1>1 DEF SessionType
  <2>3. Go(r, s, NoJobs)
    BY <1>3 DEF NextVault
  <2> HIDE DEF s, left
  <2>distinct. \A i, j \in 1..Len(left) : left[i].vault = left[j].vault => i = j
    <3> SUFFICES ASSUME NEW i \in 1..Len(left), NEW j \in 1..Len(left),
                        left[i].vault = left[j].vault
                 PROVE  i = j
      OBVIOUS
    <3>0. /\ session[r].left[i + 1].vault = session[r].left[j + 1].vault
          /\ i + 1 \in 1..Len(session[r].left) /\ j + 1 \in 1..Len(session[r].left)
      BY <2>1
    <3>1. i + 1 = j + 1
      <4>1. \A k, l \in 1..Len(session[r].left) :
               session[r].left[k].vault = session[r].left[l].vault => k = l
        BY <1>1 DEF GoodTurns
      <4>2. QED
        BY <3>0, <4>1
    <3>2. i \in Int /\ j \in Int
      OBVIOUS
    <3>3. QED
      BY <3>1, <3>2
  <2>each. \A i \in 1..Len(left) : /\ left[i].isDefault <=> left[i].vault = First
                                /\ left[i].bytes[2] <= blob[left[i].vault]
    <3> SUFFICES ASSUME NEW i \in 1..Len(left)
                 PROVE  /\ left[i].isDefault <=> left[i].vault = First
                        /\ left[i].bytes[2] <= blob[left[i].vault]
      OBVIOUS
    <3>1. i + 1 \in 1..Len(session[r].left) /\ left[i] = session[r].left[i + 1]
      BY <2>1
    <3>2. QED
      BY <1>1, <3>1 DEF GoodTurns
  <2>4. GoodTurns(r, s)
    BY <2>2, <2>distinct, <2>each DEF GoodTurns
  <2>5. GoodStamps(stamp, s, NoJobs) /\ \A t \in Target : NoJobs[t].pc = "none"
    BY <1>1 DEF GoodStamps, NoJobs, NoJob
  <2>6. ASSUME NEW t \in Target, NEW v \in Vault, Owes(s, NoJobs[t], v)
        PROVE  Owes(session[r], job[r][t], v)
    <3>1. PICK i \in 1..Len(left) : left[i].vault = v /\ left[i].bytes # Bytes(v)
      BY <2>2, <2>6 DEF Owes
    <3>2. /\ i + 1 \in 1..Len(session[r].left) /\ i + 1 # 1
          /\ session[r].left[i + 1].vault = v /\ session[r].left[i + 1].bytes # Bytes(v)
      BY <2>1, <3>1
    <3>3. session[r].pc # "list"
      OBVIOUS
    <3>4. QED
      BY <3>2, <3>3 DEF Owes
  <2>7. \A v \in Vault, t \in Target : \A e : ~RunTells(s, v, t, e)
    BY <2>2 DEF RunTells, Tells, NoList
  <2>8. Follows(store', r, s, NoJobs)
    BY <2>2, <2>4, <2>5, <2>6, <2>7 DEF Follows, GoodUploads, Names
  <2>9. QED
    BY <2>3, <2>8, NothingGoes, GoFollows
<1>4. QED
  BY <1>2, <1>3

(* Uploads begin for targets of the list that was read. *)
LEMMA LoadTargetsFollows == BackupInv /\ Ample /\ HeldInv /\ LoadTargets => HeldInv'
<1> SUFFICES ASSUME BackupInv, Ample, HeldInv, LoadTargets
             PROVE  HeldInv'
  OBVIOUS
<1> DEFINE list == stored[This("timer").vault]
           todo == SelectDue(list, This("timer").bytes)
           s == [session["timer"] EXCEPT !.pc = "upload", !.list = list]
<1>1. /\ session["timer"].pc = "load" /\ session["timer"].pc \in {"load", "upload", "save"}
      /\ "timer" \in Runner /\ ListsFollow
      /\ UNCHANGED <<reg, blob, stored, panel, stamp, store>>
  BY ListsStay DEF LoadTargets, At, Runner, HeldInv
<1>2. CASE todo = {}
  BY <1>1, <1>2, NextVaultFollows DEF LoadTargets
<1>3. CASE todo # {}
  <2>1. /\ session["timer"] \in SessionType /\ GoodTurns("timer", session["timer"])
        /\ session["timer"].left # <<>> /\ stamp \in Nat
    BY <1>1, ThisTurn DEF HeldInv, TurnsInv, BackupInv, ListsInv
  <2>2. Go("timer", s, Opening(todo))
    BY <1>3 DEF LoadTargets
  <2>3. ASSUME NEW v \in Vault, NEW t \in Target, NEW e, RunTells(s, v, t, e)
        PROVE  Vouched(v, t, e)
    <3>1. v = This("timer").vault /\ Tells(list, t, e)
      BY <2>1, <2>3 DEF RunTells, SessionType, This
    <3>2. QED
      BY <3>1, SaidIsVouched DEF HeldInv, Says
  <2> HIDE DEF list, todo
  <2>4. s.pc = "upload" /\ s.left = session["timer"].left
    BY <2>1 DEF SessionType
  <2> HIDE DEF s
  <2>5. \A t \in Target : /\ Opening(todo)[t].pc \in {"none", "open"}
                          /\ Opening(todo)[t].stamp = 0 /\ Opening(todo)[t].doomed = {}
    BY DEF Opening, NoJob
  <2>6. GoodTurns("timer", s) /\ GoodStamps(stamp, s, Opening(todo))
    BY <1>1, <2>1, <2>4, <2>5 DEF GoodTurns, GoodStamps
  <2>7. \A t \in Target, v \in Vault :
           Owes(s, Opening(todo)[t], v) => Owes(session["timer"], job["timer"][t], v)
    BY <1>1, <2>4 DEF Owes
  <2>8. Follows(store', "timer", s, Opening(todo))
    BY <2>3, <2>5, <2>6, <2>7 DEF Follows, GoodUploads, Names
  <2>9. QED
    BY <1>1, <2>2, <2>8, NothingGoes, GoFollows
<1>4. QED
  BY <1>2, <1>3

(* The button begins a run of the panel's list. *)
LEMMA BackupNowFollows == BackupInv /\ Ample /\ HeldInv /\ BackupNow => HeldInv'
<1> SUFFICES ASSUME BackupInv, Ample, HeldInv, BackupNow
             PROVE  HeldInv'
  OBVIOUS
<1> DEFINE turn == [vault |-> panel.vault, bytes |-> None, isDefault |-> panel.vault = reg[1]]
           s == [pc |-> "list", pin |-> "panel", list |-> panel.list, left |-> <<turn>>]
<1>1. PICK todo \in SUBSET Listed(panel.list) : job' = [job EXCEPT !["button"] = Opening(todo)]
  BY DEF BackupNow
<1>2. /\ "button" \in Runner /\ session' = [session EXCEPT !["button"] = s]
      /\ UNCHANGED <<reg, blob, stored, stamp, store>> /\ panel' = LeftPanel
      /\ reg[1] = First /\ stamp \in Nat
  BY DEF BackupNow, Runner, BackupInv, RegInv, ListsInv
<1>turn. turn.vault = panel.vault /\ (turn.isDefault <=> turn.vault = First)
  BY <1>2
<1> HIDE DEF turn
<1>run. s.pc = "list" /\ s.list = panel.list /\ s.left = <<turn>>
  OBVIOUS
<1> HIDE DEF s
<1>seq. /\ Len(<<turn>>) = 1 /\ <<turn>> # <<>> /\ Head(<<turn>>) = turn
        /\ <<turn>>[1] = turn
  OBVIOUS
<1>index. \A i \in 1..Len(<<turn>>) : i = 1
  BY <1>seq
<1>3. /\ s.pc = "list" /\ s.list = panel.list /\ s.left = <<turn>> /\ Len(s.left) = 1
      /\ s.left # <<>> /\ Head(s.left) = turn /\ \A i \in 1..Len(s.left) : s.left[i] = turn /\ i = 1
      /\ turn.vault = panel.vault /\ (turn.isDefault <=> turn.vault = First)
  BY <1>turn, <1>run, <1>seq, <1>index
<1>4. \A t \in Target : /\ Opening(todo)[t].pc \in {"none", "open"}
                        /\ Opening(todo)[t].stamp = 0 /\ Opening(todo)[t].doomed = {}
  BY DEF Opening, NoJob
<1>5. GoodTurns("button", s) /\ GoodStamps(stamp, s, Opening(todo))
  BY <1>2, <1>3, <1>4 DEF GoodTurns, GoodStamps
<1>6. ASSUME NEW v \in Vault, NEW t \in Target, NEW e, RunTells(s, v, t, e)
      PROVE  Vouched(v, t, e)
  BY <1>3, <1>6, SaidIsVouched DEF RunTells, HeldInv, Says
<1>7. Follows(store', "button", s, Opening(todo))
  BY <1>3, <1>5, <1>6 DEF Follows, GoodUploads, Owes, Names
<1>8. ListsFollow
  BY <1>2, PanelCloses DEF LeftPanel, HeldInv
<1>9. QED
  BY <1>1, <1>2, <1>7, <1>8, NothingGoes, DistinctStays, FollowsKeeps

(* The button's vault is read. *)
LEMMA ReadVaultBlobFollows == BackupInv /\ Ample /\ HeldInv /\ ReadVaultBlob => HeldInv'
<1> SUFFICES ASSUME BackupInv, Ample, HeldInv, ReadVaultBlob
             PROVE  HeldInv'
  OBVIOUS
<1> DEFINE v == This("button").vault
           left == session["button"].left
           s == [session["button"] EXCEPT !.pc = "upload", !.left[1].bytes = Bytes(v)]
<1>1. /\ session["button"].pc = "list" /\ "button" \in Runner /\ ListsFollow /\ stamp \in Nat
      /\ UNCHANGED <<reg, blob, stored, panel, stamp, store>>
  BY ListsStay DEF ReadVaultBlob, At, Runner, HeldInv, BackupInv, ListsInv
<1>2. CASE v \notin Range(reg)
  <2>1. Go("button", NoSession, NoJobs)
    BY <1>2 DEF ReadVaultBlob
  <2>2. QED
    BY <1>1, <2>1, NothingFollows, NothingGoes, GoFollows
<1>3. CASE v \in Range(reg)
  <2>1. Go("button", s, job["button"])
    BY <1>3 DEF ReadVaultBlob
  <2>inv. /\ GoodTurns("button", session["button"])
          /\ GoodStamps(stamp, session["button"], job["button"])
    BY <1>1 DEF HeldInv, TurnsInv
  <2>one. session["button"] \in SessionType /\ left \in Seq(Turn) /\ Len(left) = 1
    BY <1>1 DEF BackupInv, RunTypes, SessionType, RunInv, GoodSession
  <2>head. left[1] \in Turn /\ left # <<>> /\ Head(left) = left[1]
    BY <2>one, EmptyLength
  <2>2. /\ session["button"] \in SessionType /\ left \in Seq(Turn) /\ Len(left) = 1
        /\ left[1] \in Turn /\ left[1].vault = v /\ v \in Vault /\ left # <<>>
        /\ GoodTurns("button", session["button"])
        /\ GoodStamps(stamp, session["button"], job["button"])
    BY <2>inv, <2>one, <2>head DEF This, Turn
  <2>3. Bytes(v)[2] <= blob[v] /\ (left[1].isDefault <=> v = First)
    BY <2>2 DEF BackupInv, ListsInv, Bytes, GoodTurns
  <2> DEFINE turn == [left[1] EXCEPT !.bytes = Bytes(v)]
             next == [left EXCEPT ![1] = turn]
  <2>4. turn \in Turn /\ turn.bytes = Bytes(v) /\ turn.vault = v /\ turn.isDefault = left[1].isDefault
    BY <2>2 DEF Turn, Hash, Bytes, BackupInv, ListsInv
  <2> HIDE DEF turn
  <2>5. next \in Seq(Turn) /\ Len(next) = 1 /\ next[1] = turn
    BY <2>2, <2>4
  <2>6. s = [session["button"] EXCEPT !.pc = "upload", !.left = next]
    BY DEF turn
  <2>front. next # <<>> /\ Head(next) = turn
    BY <2>5, EmptyLength
  <2>single. \A i \in 1..Len(next) : i = 1
    BY <2>5
  <2>7. next # <<>> /\ Head(next) = turn /\ \A i \in 1..Len(next) : next[i] = turn /\ i = 1
    BY <2>5, <2>front, <2>single
  <2> HIDE DEF next, s
  <2>8. s.pc = "upload" /\ s.left = next /\ s.list = session["button"].list
    BY <2>2, <2>6 DEF SessionType
  <2>9. GoodTurns("button", s)
    BY <2>3, <2>4, <2>5, <2>7, <2>8 DEF GoodTurns
  <2>10. \A t \in Target : job["button"][t].pc \in {"none", "open"}
    BY <1>1, <2>2 DEF GoodStamps
  <2>11. GoodStamps(stamp, s, job["button"]) /\ GoodUploads(store', s, job["button"])
    BY <2>2, <2>8, <2>10 DEF GoodStamps, GoodUploads
  <2>12. \A t \in Target, w \in Vault : ~Owes(s, job["button"][t], w)
    BY <2>4, <2>7, <2>8 DEF Owes
  <2>13. ASSUME NEW w \in Vault, NEW t \in Target, NEW e, RunTells(s, w, t, e)
         PROVE  Vouched(w, t, e)
    <3>1. Head(left) = left[1]
      BY <2>2
    <3>2. RunTells(session["button"], w, t, e)
      BY <2>2, <2>4, <2>7, <2>8, <2>13, <3>1 DEF RunTells
    <3>3. QED
      BY <1>1, <3>2, SaidIsVouched DEF HeldInv, Says
  <2>14. Follows(store', "button", s, job["button"])
    BY <2>9, <2>10, <2>11, <2>12, <2>13 DEF Follows, Names
  <2>15. QED
    BY <1>1, <2>1, <2>14, NothingGoes, GoFollows
<1>4. QED
  BY <1>2, <1>3

-----------------------------------------------------------------------------
(* An upload that is not owed any more: what it leaves is there. *)
LEMMA UploadFollows ==
    ASSUME BackupInv, HeldInv, NEW r \in Runner, NEW t \in Target, session[r].pc = "upload",
           session[r].list[t] # None, NEW j, j.stamp <= stamp, j.doomed # {} => Keep > 0,
           j.pc \notin {"open", "put"}, NEW S,
           \A v \in Vault : \A e : HeldIn(store, e, v) => HeldIn(S, e, v),
           /\ j.pc \in {"list", "prune", "ok"}
           /\ This(r).bytes = Bytes(This(r).vault)
           => HeldIn(S, Essence(Its(r, t)), This(r).vault),
           NEW jobs, jobs = [job[r] EXCEPT ![t] = j]
    PROVE  /\ Follows(S, r, session[r], jobs)
           /\ ~Owes(session[r], jobs[t], This(r).vault)
<1>1. /\ session[r] \in SessionType /\ session[r].left # <<>> /\ session[r].left \in Seq(Turn)
      /\ This(r) \in Turn /\ This(r).vault \in Vault
      /\ GoodTurns(r, session[r]) /\ GoodStamps(stamp, session[r], job[r])
      /\ GoodUploads(store, session[r], job[r])
  BY ThisTurn DEF HeldInv, TurnsInv, UploadsInv, Turn
<1>2. /\ jobs[t] = j
      /\ \A u \in Target : u # t => jobs[u] = job[r][u]
  BY DEF BackupInv, RunTypes
<1>3. GoodStamps(stamp, session[r], jobs)
  BY <1>1, <1>2 DEF GoodStamps
<1>4. GoodUploads(S, session[r], jobs)
  <2> SUFFICES ASSUME NEW u \in Target, jobs[u].pc \in {"list", "prune", "ok"}
               PROVE  /\ session[r].list[u] # None
                      /\ Head(session[r].left).bytes = Bytes(Head(session[r].left).vault) =>
                            HeldIn(S, Essence(session[r].list[u]), Head(session[r].left).vault)
    BY DEF GoodUploads
  <2>1. CASE u = t
    BY <1>2, <2>1 DEF This, Its
  <2>2. CASE u # t
    BY <1>1, <1>2, <2>2 DEF GoodUploads, This
  <2>3. QED
    BY <2>1, <2>2
<1>5. \A u \in Target, v \in Vault : Owes(session[r], jobs[u], v) => Owes(session[r], job[r][u], v)
  <2> SUFFICES ASSUME NEW u \in Target, NEW v \in Vault, Owes(session[r], jobs[u], v)
               PROVE  Owes(session[r], job[r][u], v)
    OBVIOUS
  <2>1. CASE u = t
    BY <1>2, <2>1 DEF Owes
  <2>2. CASE u # t
    BY <1>2, <2>2
  <2>3. QED
    BY <2>1, <2>2
<1>6. \A u \in Target, v \in Vault, k \in Nat :
         Names(session[r], jobs[u], v, k) => Names(session[r], job[r][u], v, k)
  BY <1>2 DEF Names
<1>7. \A v \in Vault, u \in Target : \A e : RunTells(session[r], v, u, e) => Vouched(v, u, e)
  BY ItselfFollows DEF Follows
<1>8. ~Owes(session[r], jobs[t], This(r).vault)
  <2> SUFFICES ASSUME Owes(session[r], jobs[t], This(r).vault)
               PROVE  FALSE
    OBVIOUS
  <2>1. PICK i \in 1..Len(session[r].left) :
           /\ session[r].left[i].vault = This(r).vault
           /\ i = 1 => session[r].pc = "load"
                       \/ (session[r].pc = "upload" /\ jobs[t].pc \in {"open", "put"})
    BY DEF Owes
  <2>2. Len(session[r].left) \in Nat \ {0} /\ This(r) = session[r].left[1]
    BY <1>1 DEF This
  <2>3. i = 1
    BY <1>1, <2>1, <2>2 DEF GoodTurns
  <2>4. QED
    BY <1>2, <2>1, <2>3
<1>9. QED
  BY <1>1, <1>3, <1>4, <1>5, <1>6, <1>7, <1>8 DEF Follows

(* Whether its run goes on or ends. *)
LEMMA UploadGoes ==
    ASSUME BackupInv, HeldInv, NEW r \in Runner, NEW t \in Target, session[r].pc = "upload",
           session[r].list[t] # None, NEW j, j.stamp <= stamp, j.doomed # {} => Keep > 0,
           j.pc \notin {"open", "put"},
           \A v \in Vault : \A e : HeldIn(store, e, v) => HeldIn(store', e, v),
           /\ j.pc \in {"list", "prune", "ok"}
           /\ This(r).bytes = Bytes(This(r).vault)
           => HeldIn(store', Essence(Its(r, t)), This(r).vault),
           \/ Become(r, t, j)
           \/ Go(r, session[r], [job[r] EXCEPT ![t] = j])
    PROVE  \E s, jobs :
              /\ session' = [session EXCEPT ![r] = s] /\ job' = [job EXCEPT ![r] = jobs]
              /\ Follows(store', r, s, jobs)
              /\ ~Owes(s, jobs[t], This(r).vault)
<1> DEFINE jobs == [job[r] EXCEPT ![t] = j]
<1>1. Follows(store', r, session[r], jobs) /\ ~Owes(session[r], jobs[t], This(r).vault)
  BY UploadFollows
<1>2. stamp \in Nat /\ session \in [Runner -> SessionType] /\ job \in [Runner -> [Target -> JobType]]
  BY DEF BackupInv, ListsInv, RunTypes
<1>3. CASE Become(r, t, j)
  <2>1. /\ session' = [session EXCEPT ![r] = session[r]]
        /\ job' = [job EXCEPT ![r] = jobs]
    BY <1>2, <1>3 DEF Become
  <2>2. QED
    BY <1>1, <2>1
<1>4. CASE Go(r, session[r], jobs) /\ Current(r)
  <2>1. /\ session' = [session EXCEPT ![r] = session[r]]
        /\ job' = [job EXCEPT ![r] = jobs]
    BY <1>4 DEF Go
  <2>2. QED
    BY <1>1, <2>1
<1>5. CASE Go(r, session[r], jobs) /\ ~Current(r)
  <2>1. /\ session' = [session EXCEPT ![r] = NoSession]
        /\ job' = [job EXCEPT ![r] = NoJobs]
    BY <1>5 DEF Go
  <2>2. Follows(store', r, NoSession, NoJobs)
    BY <1>2, NothingFollows
  <2>3. ~Owes(NoSession, NoJobs[t], This(r).vault)
    BY DEF Owes, NoSession
  <2>4. QED
    BY <2>1, <2>2, <2>3
<1>6. QED
  BY <1>3, <1>4, <1>5

(* Credentials are unwrapped: a snapshot that will be named the newest one
   has none before it, and the run itself owes no older contents. *)
LEMMA OpenCredsFollows ==
    ASSUME BackupInv, Ample, HeldInv, NEW r \in Runner, NEW t \in Target, OpenCreds(r, t)
    PROVE  HeldInv'
<1>1. /\ session[r].pc = "upload" /\ job[r][t].pc = "open"
      /\ UNCHANGED <<reg, blob, stored, panel, store>>
      /\ DistinctInv' /\ ListsFollow /\ stamp \in Nat
  BY ListsStay, DistinctStays DEF OpenCreds, Is, At, HeldInv, BackupInv, ListsInv
<1>2. session[r].list[t] # None
  BY Uploading DEF OpenCreds
<1>3. CASE ~(Opens(r, Its(r, t)) /\ Current(r))
  <2> DEFINE result == IF r = "timer" THEN "none" ELSE "failed"
             j == [NoJob EXCEPT !.pc = result]
  <2>1. Finish(r, t, result) /\ stamp' = stamp
    BY <1>3 DEF OpenCreds
  <2>2. j.pc = result /\ j.stamp = 0 /\ j.doomed = {} /\ result \in {"none", "failed"}
    BY DEF NoJob
  <2>3. Go(r, session[r], [job[r] EXCEPT ![t] = j])
    BY <2>1 DEF Finish
  <2> HIDE DEF j, result
  <2>4. \E s, jobs :
           /\ session' = [session EXCEPT ![r] = s] /\ job' = [job EXCEPT ![r] = jobs]
           /\ Follows(store', r, s, jobs)
    BY <1>1, <1>2, <2>2, <2>3, UploadGoes
  <2>5. QED
    BY <1>1, <2>1, <2>4, NothingGoes, FollowsKeeps
<1>4. CASE Opens(r, Its(r, t)) /\ Current(r)
  <2> DEFINE j == [pc |-> "put", stamp |-> stamp + 1, doomed |-> {}]
             jobs == [job[r] EXCEPT ![t] = j]
  <2>1. /\ stamp' = stamp + 1 /\ stamp' \in Nat /\ stamp <= stamp'
        /\ j.pc = "put" /\ j.stamp = stamp + 1 /\ j.doomed = {}
    BY <1>1, <1>4 DEF OpenCreds
  <2>2. Become(r, t, j)
    BY <1>4 DEF OpenCreds
  <2>3. /\ session' = session /\ session' = [session EXCEPT ![r] = session[r]]
        /\ job' = [job EXCEPT ![r] = jobs]
    BY <2>2 DEF Become, BackupInv, RunTypes
  <2> HIDE DEF j
  <2>4. /\ jobs[t] = j
        /\ \A u \in Target : u # t => jobs[u] = job[r][u]
        /\ job'[r] = jobs
        /\ \A l \in Runner : l # r => job'[l] = job[l]
    BY <2>3 DEF BackupInv, RunTypes
  <2> HIDE DEF jobs
  <2>5. /\ GoodTurns(r, session[r]) /\ GoodStamps(stamp, session[r], job[r])
        /\ GoodUploads(store, session[r], job[r])
        /\ \A u \in Target : job[r][u].stamp \in Nat
    BY DEF HeldInv, TurnsInv, UploadsInv, BackupInv, RunTypes, JobType
  <2>6. GoodStamps(stamp', session[r], jobs)
    <3> SUFFICES ASSUME NEW u \in Target
                 PROVE  /\ jobs[u].stamp <= stamp' /\ (jobs[u].doomed # {} => Keep > 0)
      BY <1>1 DEF GoodStamps
    <3>1. CASE u = t
      BY <1>1, <2>1, <2>4, <3>1
    <3>2. CASE u # t
      BY <1>1, <2>1, <2>4, <2>5, <3>2 DEF GoodStamps
    <3>3. QED
      BY <3>1, <3>2
  <2>7. GoodUploads(store', session[r], jobs)
    BY <1>1, <2>1, <2>4, <2>5 DEF GoodUploads
  <2>8. \A v \in Vault, u \in Target : \A e : RunTells(session[r], v, u, e) => Vouched(v, u, e)
    BY ItselfFollows DEF Follows
  <2>9. PastInv'
    BY <1>1, <2>1 DEF HeldInv, PastInv, BackupInv, StoreInv, Snapshot
  <2>10. ASSUME Keep > 0, NEW v \in Vault, NEW k \in Nat, Fresh(v, k)'
         PROVE  Cardinality(Stale(v, k)') + Cardinality(Debt(v)') <= Cardinality(Target)
    <3>1. Bytes(v)' = Bytes(v)
      BY <1>1 DEF Bytes
    <3>2. Stale(v, k)' = Stale(v, k)
      BY <1>1, <3>1 DEF Stale
    <3>3. Debt(v)' \in SUBSET Debt(v)
      <4>0. \A l \in Runner, u \in Target :
               Owes(session[l], job[l][u], v)' => Owes(session[l], job'[l][u], v)
        BY <2>3, <3>1 DEF Owes
      <4> SUFFICES ASSUME NEW l \in Runner, NEW u \in Target, Owes(session[l], job'[l][u], v)
                   PROVE  Owes(session[l], job[l][u], v)
        BY <4>0 DEF Debt
      <4>1. CASE l = r /\ u = t
        BY <1>1, <4>1 DEF Owes
      <4>2. CASE ~(l = r /\ u = t)
        BY <2>4, <4>2
      <4>3. QED
        BY <4>1, <4>2
    <3>4. CASE Fresh(v, k)
      BY <2>10, <3>2, <3>3, <3>4, LateAt DEF HeldInv, BackupInv, StoreInv
    <3>5. CASE ~Fresh(v, k)
      <4>1. \/ \E q \in store : q.content = Bytes(v) /\ q.stamp = k
            \/ \E l \in Runner, u \in Target : Names(session[l], job'[l][u], v, k)
        BY <1>1, <2>3, <2>10, <3>1 DEF Fresh, Names
      <4>2. PICK l \in Runner, u \in Target : Names(session[l], job'[l][u], v, k)
        BY <3>5, <4>1 DEF Fresh
      <4>3. l = r /\ u = t
        BY <2>4, <3>5, <4>2 DEF Fresh
      <4>4. k = stamp + 1 /\ This(r).vault = v /\ This(r).bytes = Bytes(v)
        BY <2>1, <2>4, <4>2, <4>3 DEF Names, This
      <4>5. Stale(v, k) = {}
        BY <1>1, <4>4 DEF Stale, HeldInv, PastInv, BackupInv, StoreInv, Snapshot
      <4>6. PICK o \in Runner : \A l1 \in Runner : l1 = r \/ l1 = o
        BY DEF Runner
      <4>7. \A u1 \in Target : ~Owes(session[r], job[r][u1], v)
        <5> SUFFICES ASSUME NEW u1 \in Target, Owes(session[r], job[r][u1], v)
                     PROVE  FALSE
          OBVIOUS
        <5>1. PICK i \in 1..Len(session[r].left) :
                 session[r].left[i].vault = v /\ session[r].left[i].bytes # Bytes(v)
          BY DEF Owes
        <5>2. /\ session[r].left \in Seq(Turn) /\ session[r].left # <<>>
          BY <1>1, ThisTurn
        <5>3. Len(session[r].left) \in Nat \ {0} /\ This(r) = session[r].left[1]
          BY <5>2 DEF This
        <5>4. i = 1
          BY <2>5, <4>4, <5>1, <5>3 DEF GoodTurns
        <5>5. QED
          BY <4>4, <5>1, <5>3, <5>4
      <4>8. Debt(v)' \in SUBSET ({o} \X Target)
        <5>1. \A p \in Debt(v) : p \in Runner \X Target /\ p[1] # r
          BY <4>7 DEF Debt
        <5>2. QED
          BY <3>3, <4>6, <5>1
      <4>9. IsFiniteSet(Target) /\ Cardinality(Target) \in Nat
        BY <2>10, FS_CardinalityType DEF Ample
      <4>10. IsFiniteSet({o} \X Target) /\ Cardinality({o} \X Target) = Cardinality(Target)
        <5>1. IsFiniteSet({o}) /\ Cardinality({o}) = 1
          BY FS_Singleton
        <5>2. /\ IsFiniteSet({o} \X Target)
              /\ Cardinality({o} \X Target) = Cardinality({o}) * Cardinality(Target)
          BY <4>9, <5>1, FS_Product
        <5>3. QED
          BY <4>9, <5>1, <5>2
      <4>11. Cardinality(Debt(v)') <= Cardinality(Target) /\ Cardinality(Debt(v)') \in Nat
        BY <4>8, <4>10, FS_Subset, FS_CardinalityType
      <4>12. Cardinality(Stale(v, k)') = 0
        BY <3>2, <4>5, FS_EmptySet
      <4>13. QED
        BY <4>9, <4>11, <4>12
    <3>6. QED
      BY <3>4, <3>5
  <2>11. LateInv'
    BY <2>10 DEF LateInv
  <2>12. HeldStays
    BY <1>1 DEF HeldStays
  <2>13. QED
    BY <1>1, <2>1, <2>3, <2>5, <2>6, <2>7, <2>8, <2>9, <2>11, <2>12, ChangeKeeps
<1>5. QED
  BY <1>3, <1>4

-----------------------------------------------------------------------------
(* A snapshot is put: it is the one the upload named, and if its contents
   are old, one that was owed. *)
LEMMA PutFollows ==
    ASSUME BackupInv, Ample, HeldInv, NEW r \in Runner, NEW t \in Target, Put(r, t)
    PROVE  HeldInv'
<1> DEFINE v0 == This(r).vault
           q == [dir |-> ItsDir(r, t), tag |-> ItsTag(r, t),
                 stamp |-> job[r][t].stamp, content |-> This(r).bytes]
<1>1. /\ session[r].pc = "upload" /\ job[r][t].pc = "put"
      /\ UNCHANGED <<reg, blob, stored, panel, stamp>>
      /\ DistinctInv' /\ ListsFollow /\ stamp \in Nat
  BY ListsStay, DistinctStays DEF Put, Is, At, HeldInv, BackupInv, ListsInv
<1>2. /\ session[r].list[t] # None /\ Its(r, t) \in Cfg /\ This(r) \in Turn
      /\ This(r).bytes \in Vault \X Nat /\ This(r).bytes[1] = v0
      /\ job[r][t] \in JobType
  BY Uploading DEF Put
<1>3. /\ session[r].left \in Seq(Turn) /\ session[r].left # <<>> /\ v0 \in Vault
      /\ GoodTurns(r, session[r]) /\ GoodStamps(stamp, session[r], job[r])
  BY <1>1, ThisTurn DEF HeldInv, TurnsInv, Turn
<1>4. /\ This(r) = session[r].left[1] /\ 1 \in 1..Len(session[r].left)
  <2>1. Len(session[r].left) \in Nat \ {0} /\ This(r) = session[r].left[1]
    BY <1>3, EmptySeq DEF This
  <2>2. QED
    BY <2>1
<1>5. (This(r).isDefault <=> v0 = First) /\ This(r).bytes[2] <= blob[v0]
  BY <1>1, <1>3, <1>4 DEF GoodTurns
<1>6. /\ ItsDir(r, t) = DirOf(Essence(Its(r, t)), v0)
      /\ ItsTag(r, t) = TagOf(Essence(Its(r, t)), v0)
  BY <1>2, <1>5 DEF ItsDir, ItsTag, Dir, Tag, DirOf, TagOf, Essence, Cfg
<1>7. PICK ok \in BOOLEAN, done \in BOOLEAN :
         /\ ok => done
         /\ store' = IF done THEN store \cup {q} ELSE store
         /\ IF ok /\ Keep > 0 THEN Become(r, t, [job[r][t] EXCEPT !.pc = "list"])
            ELSE Finish(r, t, IF ok THEN "ok" ELSE "failed")
  BY DEF Put
<1>8. /\ q.content = This(r).bytes /\ q.stamp = job[r][t].stamp
      /\ q.dir = DirOf(Essence(Its(r, t)), v0) /\ q.tag = TagOf(Essence(Its(r, t)), v0)
  BY <1>6
<1> HIDE DEF q
<1>9. HeldStays /\ \A v \in Vault : \A e : HeldIn(store, e, v) => HeldIn(store', e, v)
  BY <1>7 DEF HeldStays, HeldIn
<1>10. done /\ This(r).bytes = Bytes(v0) => HeldIn(store', Essence(Its(r, t)), v0)
  BY <1>7, <1>8 DEF HeldIn
<1>11. \E s, jobs :
          /\ session' = [session EXCEPT ![r] = s] /\ job' = [job EXCEPT ![r] = jobs]
          /\ Follows(store', r, s, jobs) /\ ~Owes(s, jobs[t], v0)
  <2> DEFINE j == [job[r][t] EXCEPT !.pc = "list"]
             i == [NoJob EXCEPT !.pc = IF ok THEN "ok" ELSE "failed"]
  <2>1. CASE ok /\ Keep > 0
    <3>1. Become(r, t, j)
      BY <1>7, <2>1
    <3>2. /\ j.pc = "list" /\ j.stamp <= stamp /\ (j.doomed # {} => Keep > 0)
      BY <1>2, <1>3, <2>1 DEF JobType, GoodStamps
    <3> HIDE DEF j
    <3>3. QED
      BY <1>1, <1>2, <1>7, <1>9, <1>10, <2>1, <3>1, <3>2, UploadGoes
  <2>2. CASE ~(ok /\ Keep > 0)
    <3>1. Go(r, session[r], [job[r] EXCEPT ![t] = i])
      BY <1>7, <2>2 DEF Finish
    <3>2. /\ i.pc = IF ok THEN "ok" ELSE "failed"
          /\ i.stamp = 0 /\ i.doomed = {}
      BY DEF NoJob
    <3> HIDE DEF i
    <3>3. /\ i.pc \notin {"open", "put"} /\ i.stamp <= stamp
          /\ i.pc \in {"list", "prune", "ok"} => done
      BY <1>1, <1>7, <3>2
    <3>4. QED
      BY <1>1, <1>2, <1>9, <1>10, <3>1, <3>2, <3>3, UploadGoes
  <2>3. QED
    BY <2>1, <2>2
<1>12. PICK s, jobs :
          /\ session' = [session EXCEPT ![r] = s] /\ job' = [job EXCEPT ![r] = jobs]
          /\ Follows(store', r, s, jobs) /\ ~Owes(s, jobs[t], v0)
  BY <1>11
<1>13. /\ session'[r] = s /\ job'[r] = jobs
       /\ \A k \in Runner : k # r => session'[k] = session[k] /\ job'[k] = job[k]
  BY <1>12 DEF BackupInv, RunTypes
<1>14. PastInv'
  <2>1. \A p \in store : p.content[2] <= blob[p.content[1]] /\ p.stamp <= stamp
    BY DEF HeldInv, PastInv
  <2>2. q.content[2] <= blob[q.content[1]] /\ q.stamp <= stamp
    BY <1>2, <1>3, <1>5, <1>8 DEF GoodStamps
  <2>3. \A p \in store' : p.content[2] <= blob[p.content[1]] /\ p.stamp <= stamp
    BY <1>7, <2>1, <2>2
  <2>4. QED
    BY <1>1, <2>3 DEF PastInv
<1>15. ASSUME Keep > 0, NEW v \in Vault, NEW k \in Nat, Fresh(v, k)'
       PROVE  Cardinality(Stale(v, k)') + Cardinality(Debt(v)') <= Cardinality(Target)
  <2>1. Bytes(v)' = Bytes(v)
    BY <1>1 DEF Bytes
  <2>2. Fresh(v, k)
    <3>1. \/ \E p \in store' : p.content = Bytes(v) /\ p.stamp = k
          \/ \E l \in Runner, u \in Target : Names(session'[l], job'[l][u], v, k)
      BY <1>15, <2>1 DEF Fresh, Names
    <3>2. ASSUME NEW p \in store', p.content = Bytes(v), p.stamp = k
          PROVE  Fresh(v, k)
      <4>1. CASE p \in store
        BY <3>2, <4>1 DEF Fresh
      <4>2. CASE p = q
        <5>1. /\ v0 = v /\ This(r).bytes = Bytes(v) /\ job[r][t].stamp = k
          BY <1>2, <1>8, <3>2, <4>2 DEF Bytes
        <5>2. Names(session[r], job[r][t], v, k)
          BY <1>1, <5>1 DEF Names, This
        <5>3. QED
          BY <5>2 DEF Fresh
      <4>3. QED
        BY <1>7, <4>1, <4>2
    <3>3. ASSUME NEW l \in Runner, NEW u \in Target, Names(session'[l], job'[l][u], v, k)
          PROVE  Fresh(v, k)
      <4>1. Names(session[l], job[l][u], v, k)
        BY <1>12, <1>13, <3>3 DEF Follows
      <4>2. QED
        BY <4>1 DEF Fresh
    <3>4. QED
      BY <3>1, <3>2, <3>3
  <2>3. \A p \in Debt(v)' : /\ p \in Runner \X Target
                            /\ Owes(session'[p[1]], job'[p[1]][p[2]], v)
    BY <2>1 DEF Debt, Owes
  <2>4. Debt(v)' \in SUBSET Debt(v)
    BY <1>12, <1>13, <2>3 DEF Debt, Follows
  <2>5. Stale(v, k)' = {p \in store' : p.content[1] = v /\ p.content # Bytes(v) /\ p.stamp > k}
    BY <2>1 DEF Stale
  <2>6. Stale(v, k)' \in SUBSET (Stale(v, k) \cup {q})
    BY <1>7, <2>5 DEF Stale
  <2>7. CASE q \notin Stale(v, k)'
    <3>1. Stale(v, k)' \in SUBSET Stale(v, k)
      BY <2>6, <2>7
    <3>2. QED
      BY <1>15, <2>2, <2>4, <3>1, LateAt DEF HeldInv, BackupInv, StoreInv
  <2>8. CASE q \in Stale(v, k)'
    <3>1. v0 = v /\ This(r).bytes # Bytes(v)
      BY <1>2, <1>8, <2>5, <2>8
    <3>2. Owes(session[r], job[r][t], v)
      BY <1>1, <1>4, <3>1 DEF Owes
    <3>3. <<r, t>> \in Debt(v)
      BY <3>2 DEF Debt
    <3>4. <<r, t>> \notin Debt(v)'
      BY <1>12, <1>13, <2>3, <3>1
    <3>5. Debt(v)' \in SUBSET (Debt(v) \ {<<r, t>>})
      BY <2>4, <3>4
    <3>6. QED
      BY <1>15, <2>2, <2>6, <3>3, <3>5, LatePays DEF HeldInv, BackupInv, StoreInv
  <2>9. QED
    BY <2>7, <2>8
<1>16. LateInv'
  BY <1>15 DEF LateInv
<1>17. GoodStamps(stamp', s, jobs) /\ stamp' \in Nat /\ stamp <= stamp'
  BY <1>1, <1>12 DEF Follows, GoodStamps
<1>18. /\ GoodTurns(r, s) /\ GoodUploads(store', s, jobs)
       /\ \A v \in Vault, u \in Target : \A e : RunTells(s, v, u, e) => Vouched(v, u, e)
  BY <1>12 DEF Follows
<1>19. QED
  BY <1>1, <1>9, <1>12, <1>14, <1>16, <1>17, <1>18, ChangeKeeps

(* What was put is there while the folder is listed and pruned. *)
LEMMA WasPut ==
    ASSUME BackupInv, HeldInv, NEW r \in Runner, NEW t \in Target,
           session[r].pc = "upload", job[r][t].pc \in {"list", "prune", "ok"}
    PROVE  /\ session[r].list[t] # None
           /\ This(r).bytes = Bytes(This(r).vault) =>
                 HeldIn(store, Essence(Its(r, t)), This(r).vault)
BY DEF HeldInv, UploadsInv, GoodUploads, This, Its

(* The folder is listed. *)
LEMMA ListRemoteFollows ==
    ASSUME BackupInv, Ample, HeldInv, NEW r \in Runner, NEW t \in Target, ListRemote(r, t)
    PROVE  HeldInv'
<1> DEFINE doomed == SelectForPruning(ItsDir(r, t), ItsTag(r, t))
           i == [NoJob EXCEPT !.pc = "ok"]
           j == [job[r][t] EXCEPT !.pc = "prune", !.doomed = doomed]
<1>1. /\ session[r].pc = "upload" /\ job[r][t].pc = "list"
      /\ UNCHANGED <<reg, blob, stored, panel, stamp, store>>
      /\ DistinctInv' /\ ListsFollow /\ stamp \in Nat
  BY ListsStay, DistinctStays DEF ListRemote, Is, At, HeldInv, BackupInv, ListsInv
<1>2. /\ session[r].list[t] # None /\ job[r][t] \in JobType
      /\ This(r).bytes = Bytes(This(r).vault) => HeldIn(store, Essence(Its(r, t)), This(r).vault)
      /\ GoodStamps(stamp, session[r], job[r])
  BY <1>1, WasPut DEF BackupInv, RunTypes, HeldInv, TurnsInv
<1>3. doomed # {} => Keep > 0
  BY DEF SelectForPruning, AllButNewest
<1>4. Finish(r, t, "ok") \/ Become(r, t, j)
  BY DEF ListRemote
<1> HIDE DEF doomed
<1>5. j.pc = "prune" /\ j.stamp <= stamp /\ j.doomed = doomed
  BY <1>2 DEF JobType, GoodStamps
<1>6. i.pc = "ok" /\ i.stamp <= stamp /\ i.doomed = {}
  BY <1>1 DEF NoJob
<1>7. Go(r, session[r], [job[r] EXCEPT ![t] = i]) \/ Become(r, t, j)
  BY <1>4 DEF Finish
<1> HIDE DEF i, j
<1>8. \E s, jobs :
         /\ session' = [session EXCEPT ![r] = s] /\ job' = [job EXCEPT ![r] = jobs]
         /\ Follows(store', r, s, jobs)
  <2>1. CASE Become(r, t, j)
    BY <1>1, <1>2, <1>3, <1>5, <2>1, UploadGoes
  <2>2. CASE Go(r, session[r], [job[r] EXCEPT ![t] = i])
    BY <1>1, <1>2, <1>6, <2>2, UploadGoes
  <2>3. QED
    BY <1>7, <2>1, <2>2
<1>9. QED
  BY <1>1, <1>8, NothingGoes, FollowsKeeps

(* One of those selected goes, which leaves what is held. *)
LEMMA PruneFollows ==
    ASSUME BackupInv, Ample, HeldInv, NEW r \in Runner, NEW t \in Target, Prune(r, t)
    PROVE  HeldInv'
<1> DEFINE doomed == job[r][t].doomed
           i == [NoJob EXCEPT !.pc = "ok"]
<1>1. /\ session[r].pc = "upload" /\ job[r][t].pc = "prune"
      /\ UNCHANGED <<reg, blob, stored, panel, stamp>>
      /\ DistinctInv' /\ ListsFollow /\ stamp \in Nat
  BY ListsStay, DistinctStays DEF Prune, Is, At, HeldInv, BackupInv, ListsInv
<1>2. /\ session[r].list[t] # None /\ job[r][t] \in JobType
      /\ This(r).bytes = Bytes(This(r).vault) => HeldIn(store, Essence(Its(r, t)), This(r).vault)
      /\ GoodStamps(stamp, session[r], job[r])
  BY <1>1, WasPut DEF BackupInv, RunTypes, HeldInv, TurnsInv
<1>3. PICK q \in doomed :
         /\ store' = store \/ store' = store \ {q}
         /\ Finish(r, t, "ok") \/ Become(r, t, [job[r][t] EXCEPT !.doomed = @ \ {q}])
  BY DEF Prune
<1> DEFINE j == [job[r][t] EXCEPT !.doomed = doomed \ {q}]
<1>4. Keep > 0 /\ Superseded(store, q)
  BY <1>2, <1>3, Uploading DEF GoodStamps, Prune
<1>5. \A v \in Vault : \A e : HeldIn(store, e, v) => HeldIn(store', e, v)
  <2>1. CASE store' = store
    BY <2>1
  <2>2. CASE store' = store \ {q} /\ q \in store
    BY <1>4, <2>2, PruneSpares DEF HeldInv, BackupInv
  <2>3. CASE store' = store \ {q} /\ q \notin store
    <3>1. store' = store
      BY <2>3
    <3>2. QED
      BY <3>1
  <2>4. QED
    BY <1>3, <2>1, <2>2, <2>3
<1>6. This(r).vault \in Vault
  BY <1>1, ThisTurn DEF Turn
<1>7. This(r).bytes = Bytes(This(r).vault) => HeldIn(store', Essence(Its(r, t)), This(r).vault)
  BY <1>2, <1>5, <1>6
<1>8. j.pc = "prune" /\ j.stamp <= stamp
  BY <1>1, <1>2 DEF JobType, GoodStamps
<1>9. i.pc = "ok" /\ i.stamp <= stamp /\ i.doomed = {}
  BY <1>1 DEF NoJob
<1>10. Go(r, session[r], [job[r] EXCEPT ![t] = i]) \/ Become(r, t, j)
  BY <1>3 DEF Finish
<1> HIDE DEF i, j
<1>11. \E s, jobs :
          /\ session' = [session EXCEPT ![r] = s] /\ job' = [job EXCEPT ![r] = jobs]
          /\ Follows(store', r, s, jobs)
  <2>1. CASE Become(r, t, j)
    BY <1>1, <1>2, <1>4, <1>5, <1>7, <1>8, <2>1, UploadGoes
  <2>2. CASE Go(r, session[r], [job[r] EXCEPT ![t] = i])
    BY <1>1, <1>2, <1>5, <1>7, <1>9, <2>2, UploadGoes
  <2>3. QED
    BY <1>10, <2>1, <2>2
<1>12. HeldStays /\ store' \in SUBSET store
  BY <1>3, <1>5 DEF HeldStays
<1>13. QED
  BY <1>1, <1>11, <1>12, FollowsKeeps

-----------------------------------------------------------------------------
(* A result is recorded: nothing but an upload that is done changes what a
   target is said to hold. *)
LEMMA OutcomeEssence ==
    ASSUME NEW cfg \in Cfg, NEW result, NEW hash
    PROVE  Essence(Outcome(cfg, result, hash)) =
              IF result = "ok" THEN <<cfg.dest, cfg.shared, hash>> ELSE Essence(cfg)
<1>1. CASE result = "ok"
  <2>1. Outcome(cfg, result, hash) = [ClearBackoff(cfg) EXCEPT !.hash = hash, !.age = 0]
    BY <1>1 DEF Outcome
  <2>2. ClearBackoff(cfg) \in Cfg /\ ClearBackoff(cfg).dest = cfg.dest
        /\ ClearBackoff(cfg).shared = cfg.shared
    BY ClearBackoffType DEF ClearBackoff, Cfg
  <2>3. QED
    BY <1>1, <2>1, <2>2 DEF Essence, Cfg
<1>2. CASE result = "failed"
  <2>1. Outcome(cfg, result, hash) =
           [cfg EXCEPT !.failures = cfg.failures + 1, !.wait = RetryDelay(cfg.failures + 1)]
    BY <1>2 DEF Outcome
  <2>2. QED
    BY <1>2, <2>1 DEF Essence, Cfg
<1>3. CASE result \notin {"ok", "failed"}
  BY <1>3 DEF Outcome
<1>4. QED
  BY <1>1, <1>2, <1>3

(* What is recorded was uploaded there. *)
LEMMA FoldReadFollows ==
    ASSUME BackupInv, Ample, HeldInv, NEW r \in Runner, FoldRead(r)
    PROVE  HeldInv'
<1> DEFINE v == This(r).vault
           b == This(r).bytes
           latest == IF r = "button" /\ v \notin Range(reg) /\ stored[v] = NoList
                     THEN session[r].list ELSE stored[v]
           list == ApplyOutcomes(latest, job[r], b)
           s == [session[r] EXCEPT !.pc = "save", !.list = list]
<1>1. /\ session[r].pc = "upload" /\ session[r].pc \in {"load", "upload", "save"}
      /\ UNCHANGED <<reg, blob, stored, panel, stamp, store>> /\ ListsFollow /\ SaysInv
  BY ListsStay DEF FoldRead, At, HeldInv
<1>2. CASE Uploads(r, {"ok", "failed"}) = {}
  BY <1>1, <1>2, NextVaultFollows DEF FoldRead
<1>3. CASE Uploads(r, {"ok", "failed"}) # {}
  <2>1. Go(r, s, job[r])
    BY <1>3 DEF FoldRead
  <2>2. /\ session[r] \in SessionType /\ session[r].left # <<>> /\ session[r].left \in Seq(Turn)
        /\ v \in Vault /\ b \in Vault \X Nat /\ b[1] = v
        /\ GoodTurns(r, session[r]) /\ GoodStamps(stamp, session[r], job[r])
    BY <1>1, ThisTurn DEF HeldInv, TurnsInv, Turn
  <2>3. b[2] <= blob[v]
    <3>1. Len(session[r].left) \in Nat \ {0} /\ This(r) = session[r].left[1]
      BY <2>2, EmptySeq DEF This
    <3>2. QED
      BY <1>1, <2>2, <3>1 DEF GoodTurns
  <2>4. /\ session[r].list \in List /\ stored[v] \in List
    BY <2>2 DEF SessionType, BackupInv, ListsInv
  <2>5. latest \in List /\ (latest = session[r].list \/ latest = stored[v])
    BY <2>4
  <2>6. \A t \in Target : \A e : Tells(latest, t, e) => Says(v, t, e)
    <3> SUFFICES ASSUME NEW t \in Target, NEW e, Tells(latest, t, e)
                 PROVE  Says(v, t, e)
      OBVIOUS
    <3>1. CASE latest = stored[v]
      BY <3>1 DEF Says
    <3>2. CASE latest = session[r].list
      BY <2>2, <3>2 DEF Says, RunTells, This
    <3>3. QED
      BY <2>5, <3>1, <3>2
  <2> HIDE DEF latest
  <2>7. ASSUME NEW t \in Target, NEW e, Tells(list, t, e)
        PROVE  Vouched(v, t, e)
    <3>1. latest[t] # None /\ e = Essence(Outcome(latest[t], job[r][t].pc, b))
      BY <2>7 DEF Tells, ApplyOutcomes
    <3>2. latest[t] \in Cfg
      BY <2>5, <3>1 DEF List
    <3> DEFINE f == Essence(latest[t])
    <3>3. /\ e = IF job[r][t].pc = "ok" THEN <<latest[t].dest, latest[t].shared, b>> ELSE f
          /\ Says(v, t, f) /\ f[1] = latest[t].dest /\ f[2] = latest[t].shared
      BY <2>6, <3>1, <3>2, OutcomeEssence DEF Tells, Essence
    <3> HIDE DEF f
    <3>4. CASE job[r][t].pc # "ok"
      BY <1>1, <2>2, <3>3, <3>4, SaidIsVouched
    <3>5. CASE job[r][t].pc = "ok"
      <4>1. e[1] = f[1] /\ e[2] = f[2] /\ e[3] = b
        BY <3>3, <3>5
      <4>2. PastHash(e, v)
        BY <2>2, <2>3, <4>1 DEF PastHash
      <4>3. ASSUME e[3] = Bytes(v)
            PROVE  HeldIn(store, e, v)
        <5>1. /\ session[r].list[t] # None
              /\ HeldIn(store, Essence(session[r].list[t]), v)
          BY <1>1, <3>5, <4>1, <4>3, WasPut DEF Its
        <5> DEFINE g == Essence(session[r].list[t])
        <5>2. Says(v, t, g)
          BY <2>2, <5>1 DEF Says, RunTells, Tells, This
        <5> HIDE DEF g
        <5>3. g[1] = e[1] /\ g[2] = e[2]
          BY <1>1, <2>2, <3>3, <4>1, <5>2 DEF SaysInv
        <5>4. HeldIn(store, g, v)
          BY <5>1 DEF g
        <5>5. QED
          BY <5>3, <5>4 DEF HeldIn, DirOf, TagOf
      <4>4. QED
        BY <3>3, <4>1, <4>2, <4>3 DEF Vouched
    <3>6. QED
      BY <3>4, <3>5
  <2> HIDE DEF list
  <2>8. s.pc = "save" /\ s.left = session[r].left /\ s.list = list
    BY <2>2 DEF SessionType
  <2> HIDE DEF s
  <2>9. GoodTurns(r, s) /\ GoodStamps(stamp, s, job[r]) /\ GoodUploads(store', s, job[r])
    BY <1>1, <2>2, <2>8 DEF GoodTurns, GoodStamps, GoodUploads
  <2>10. \A t \in Target, w \in Vault : Owes(s, job[r][t], w) => Owes(session[r], job[r][t], w)
    BY <1>1, <2>8 DEF Owes
  <2>11. ASSUME NEW w \in Vault, NEW t \in Target, NEW e, RunTells(s, w, t, e)
         PROVE  Vouched(w, t, e)
    <3>1. w = v /\ Tells(list, t, e)
      BY <2>8, <2>11 DEF RunTells, This
    <3>2. QED
      BY <2>7, <3>1
  <2>12. Follows(store', r, s, job[r])
    BY <2>8, <2>9, <2>10, <2>11 DEF Follows, Names
  <2>13. QED
    BY <1>1, <2>1, <2>12, NothingGoes, GoFollows
<1>4. QED
  BY <1>2, <1>3

(* The list is written. *)
LEMMA FoldSaveFollows ==
    ASSUME BackupInv, Ample, HeldInv, NEW r \in Runner, FoldSave(r)
    PROVE  HeldInv'
<1> DEFINE v == This(r).vault
           list == session[r].list
<1>1. /\ session[r].pc \in {"load", "upload", "save"} /\ SaysInv
      /\ UNCHANGED <<reg, blob, stamp, store>> /\ NextVault(r)
  BY DEF FoldSave, At, HeldInv
<1>2. v \in Vault /\ session[r].left # <<>> /\ session[r].list \in List
  BY <1>1, ThisTurn DEF Turn, SessionType
<1>3. \A t \in Target : \A e : Tells(list, t, e) => Says(v, t, e)
  BY <1>2 DEF Says, RunTells, This
<1>4. /\ stored' = [stored EXCEPT ![v] = list]
      /\ \/ panel' = panel
         \/ panel.vault = v /\ panel' = [panel EXCEPT !.list = list]
  BY DEF FoldSave
<1>5. /\ stored'[v] = list /\ \A w \in Vault : w # v => stored'[w] = stored[w]
      /\ panel'.vault = panel.vault
      /\ panel' = panel \/ (panel.vault = v /\ panel'.list = list)
  BY <1>2, <1>4 DEF BackupInv, ListsInv
<1> HIDE DEF v, list
<1>6. ListsFollow
  <2> SUFFICES ASSUME NEW w \in Vault, NEW t \in Target, NEW e,
                      Tells(stored'[w], t, e) \/ (panel'.vault = w /\ Tells(panel'.list, t, e))
               PROVE  Says(w, t, e)
    BY <1>1, SaidIsVouched DEF ListsFollow
  <2>1. CASE Tells(stored'[w], t, e)
    <3>1. CASE w = v
      BY <1>3, <1>5, <2>1, <3>1
    <3>2. CASE w # v
      BY <1>5, <2>1, <3>2 DEF Says
    <3>3. QED
      BY <3>1, <3>2
  <2>2. CASE panel'.vault = w /\ Tells(panel'.list, t, e)
    <3>1. CASE panel' = panel
      BY <2>2, <3>1 DEF Says
    <3>2. CASE panel.vault = v /\ panel'.list = list
      BY <1>3, <1>5, <2>2, <3>2
    <3>3. QED
      BY <1>5, <3>1, <3>2
  <2>3. QED
    BY <2>1, <2>2
<1>7. QED
  BY <1>1, <1>6, NextVaultFollows

-----------------------------------------------------------------------------
(* The other vaults of the registry, each once. *)
LEMMA SetToSeqDistinct ==
    ASSUME NEW S, IsFiniteSet(S)
    PROVE  \A i, j \in 1..Len(SetToSeq(S)) : SetToSeq(S)[i] = SetToSeq(S)[j] => i = j
<1>1. Cardinality(S) \in Nat /\ \E f \in [1..Cardinality(S) -> S] : IsInjective(f)
  BY FS_CardinalityType DEF ExistsBijection, Bijection, Injection
<1>2. SetToSeq(S) \in [1..Cardinality(S) -> S] /\ IsInjective(SetToSeq(S))
  BY <1>1 DEF SetToSeq
<1>3. Len(SetToSeq(S)) = Cardinality(S)
  BY <1>1, <1>2
<1>4. QED
  BY <1>2, <1>3 DEF IsInjective

(* The invariant holds at first: nothing is recorded, read or uploaded. *)
LEMMA InitiallyHeld == Init => HeldInv
<1> SUFFICES ASSUME Init
             PROVE  HeldInv
  OBVIOUS
<1>1. DistinctInv
  <2> DEFINE rest == SetToSeq(Vault \ {First})
  <2>1. IsFiniteSet(Vault \ {First})
    BY VaultAssumption, FS_Subset
  <2>2. /\ rest \in Seq(Vault \ {First})
        /\ \A i, j \in 1..Len(rest) : rest[i] = rest[j] => i = j
    BY <2>1, SetToSeqType, SetToSeqDistinct
  <2>3. reg = <<First>> \o rest
    BY DEF Init
  <2> HIDE DEF rest
  <2>4. rest \in Seq(Vault) /\ <<First>> \in Seq(Vault)
    BY <2>2, SeqMonotonic, VaultAssumption
  <2>5. Len(<<First>>) = 1 /\ <<First>>[1] = First /\ Len(rest) \in Nat
    BY <2>4, LenProperties
  <2>6. /\ Len(reg) = 1 + Len(rest)
        /\ \A i \in 1..1 + Len(rest) : reg[i] = IF i <= 1 THEN <<First>>[i] ELSE rest[i - 1]
    BY <2>3, <2>4, <2>5, ConcatProperties
  <2>7. reg[1] = First
    BY <2>5, <2>6
  <2>8. \A i \in 2..Len(reg) : i - 1 \in 1..Len(rest) /\ reg[i] = rest[i - 1] /\ reg[i] # First
    <3> SUFFICES ASSUME NEW i \in 2..Len(reg)
                 PROVE  i - 1 \in 1..Len(rest) /\ reg[i] = rest[i - 1] /\ reg[i] # First
      OBVIOUS
    <3>1. i - 1 \in 1..Len(rest) /\ reg[i] = rest[i - 1]
      BY <2>5, <2>6
    <3>2. rest[i - 1] \in Vault \ {First}
      BY <2>2, <3>1, LenProperties
    <3>3. QED
      BY <3>1, <3>2
  <2>9. ASSUME NEW i \in 1..Len(reg), NEW j \in 1..Len(reg), reg[i] = reg[j]
        PROVE  i = j
    <3>1. CASE i = 1 \/ j = 1
      BY <2>7, <2>8, <2>9, <3>1
    <3>2. CASE i # 1 /\ j # 1
      <4>1. i \in 2..Len(reg) /\ j \in 2..Len(reg) /\ i \in Int /\ j \in Int
        BY <2>5, <2>6, <3>2
      <4>2. i - 1 = j - 1
        BY <2>2, <2>8, <2>9, <4>1
      <4>3. QED
        BY <4>1, <4>2
    <3>3. QED
      BY <3>1, <3>2
  <2>10. QED
    BY <2>9 DEF DistinctInv
<1>2. /\ \A r \in Runner : session[r] = NoSession /\ job[r] = NoJobs
      /\ panel.vault = None /\ store = {} /\ stamp = 0
  BY DEF Init, NoPanel
<1>3. \A r \in Runner : Follows(store, r, session[r], job[r])
  BY <1>2, NothingFollows
<1>4. TurnsInv /\ UploadsInv
  BY <1>3 DEF Follows, TurnsInv, UploadsInv
<1>5. PastInv
  BY <1>2 DEF PastInv
<1>6. LateInv
  <2>1. NoSession.pc = "idle"
    BY DEF NoSession
  <2>2. \A v \in Vault, k \in Nat : ~Fresh(v, k)
    BY <1>2, <2>1 DEF Fresh, Names
  <2>3. QED
    BY <2>2 DEF LateInv
<1>7. \A v \in Vault, t \in Target : stored[v][t] # None => stored[v][t].hash = None
  <2>1. PICK f \in Folder, t \in Target, shared \in BOOLEAN, S \in SUBSET Vault, o \in Vault :
           /\ IF shared THEN S = Vault ELSE o = First
           /\ stored = [v \in Vault |-> [NoList EXCEPT ![t] =
                 IF v \in S THEN Config(f, shared, IF shared THEN o ELSE v) ELSE None]]
    BY Zenon DEF Init
  <2>2. \A v \in Vault : Config(f, shared, IF shared THEN o ELSE v).hash = None
    BY DEF Config
  <2>3. \A v \in Vault, u \in Target : stored[v][u] =
           IF u = t /\ v \in S THEN Config(f, shared, IF shared THEN o ELSE v) ELSE None
    BY <2>1 DEF NoList
  <2>4. QED
    BY <2>2, <2>3
<1>8. SaysInv
  <2> SUFFICES ASSUME NEW v \in Vault, NEW t \in Target
               PROVE  /\ \A e, f : Says(v, t, e) /\ Says(v, t, f) => e[1] = f[1] /\ e[2] = f[2]
                      /\ \A e : Says(v, t, e) =>
                            PastHash(e, v) /\ (e[3] = Bytes(v) => HeldIn(store, e, v))
    BY DEF SaysInv
  <2>1. NoSession.left = <<>>
    BY DEF NoSession
  <2>2. \A e : Says(v, t, e) => stored[v][t] # None /\ e = Essence(stored[v][t])
    BY <1>2, <2>1, VaultAssumption DEF Says, Tells, RunTells
  <2>3. \A e : Says(v, t, e) => e[3] = None
    BY <1>7, <2>2 DEF Essence
  <2>4. Bytes(v) # None
    BY VaultAssumption DEF Init, Bytes
  <2>5. QED
    BY <2>2, <2>3, <2>4 DEF PastHash
<1>9. QED
  BY <1>1, <1>4, <1>5, <1>6, <1>8 DEF HeldInv

(* Every step keeps it. *)
LEMMA StepHolds == ~Moves /\ Ample /\ BackupInv /\ HeldInv /\ [Next]_vars => HeldInv'
<1> SUFFICES ASSUME ~Moves, Ample, BackupInv, HeldInv, [Next]_vars
             PROVE  HeldInv'
  OBVIOUS
<1>1. ASSUME NEW r \in Runner, Step(r)
      PROVE  HeldInv'
  <2>1. CASE ListVaults \/ LoadTargets \/ ReadVaultBlob
    BY <2>1, ListVaultsFollows, LoadTargetsFollows, ReadVaultBlobFollows
  <2>2. ASSUME NEW t \in Target, OpenCreds(r, t) \/ Put(r, t)
        PROVE  HeldInv'
    BY <2>2, OpenCredsFollows, PutFollows
  <2>3. ASSUME NEW t \in Target, ListRemote(r, t) \/ Prune(r, t)
        PROVE  HeldInv'
    BY <2>3, ListRemoteFollows, PruneFollows
  <2>4. CASE FoldRead(r) \/ FoldSave(r)
    BY <2>4, FoldReadFollows, FoldSaveFollows
  <2>5. QED
    BY <1>1, <2>1, <2>2, <2>3, <2>4 DEF Step
<1>2. CASE BackupNow \/ Tick \/ DeleteVault
  BY <1>2, BackupNowFollows, TickFollows, DeleteVaultFollows
<1>3. CASE \/ BackupAlarm \/ ClosePanel \/ WorkerDies \/ OpenPanel \/ Reload \/ Lock
           \/ \E v \in Vault : Unlock(v) \/ SelectVault(v)
  BY <1>3, SessionsFollow
<1>4. ASSUME NEW t \in Target,
             \/ SetFrequency(t) \/ UpdateTarget(t)
             \/ AddTarget(t) \/ RemoveTarget(t)
      PROVE  HeldInv'
  BY <1>4, TargetsFollow
<1>5. ASSUME NEW v \in Vault, Edit(v)
      PROVE  HeldInv'
  BY <1>5, EditFollows
<1>6. CASE UNCHANGED vars
  <2>1. /\ UNCHANGED <<session, job, blob, stamp, store>> /\ reg' = reg
        /\ UNCHANGED <<stored, panel>>
    BY <1>6 DEF vars, runVars
  <2>2. QED
    BY <2>1, RunsFollow, ListsStay, DistinctStays DEF HeldInv
<1>7. QED
  BY <1>1, <1>2, <1>3, <1>4, <1>5, <1>6 DEF Next

(* A target that says it holds the vault as it is does. *)
LEMMA HeldIsHeld ==
    ASSUME BackupInv, HeldInv
    PROVE  SkippedIsHeld
<1> SUFFICES ASSUME NEW v \in Range(reg), NEW t \in Listed(stored[v]),
                    stored[v][t].hash = Bytes(v)
             PROVE  Held(v, t)
  BY DEF SkippedIsHeld
<1>1. reg \in Seq(Vault) /\ reg[1] = First /\ v \in Vault
  BY DEF BackupInv, RegInv, Range
<1>2. t \in Target /\ stored[v][t] # None /\ stored[v] \in List
  BY <1>1 DEF Listed, BackupInv, ListsInv
<1>3. stored[v][t] \in Cfg
  BY <1>2 DEF List
<1> DEFINE e == Essence(stored[v][t])
<1>4. Says(v, t, e) /\ e[3] = Bytes(v)
  BY <1>2 DEF Says, Tells, Essence
<1>5. HeldIn(store, e, v)
  BY <1>1, <1>2, <1>4 DEF HeldInv, SaysInv
<1>6. DirOf(e, v) = Dir(stored[v][t], v, v = reg[1])
  BY <1>1, <1>3 DEF DirOf, Dir, Essence, Cfg
<1>7. QED
  BY <1>5, <1>6 DEF HeldIn, Held

(* A target that is skipped because it recorded the vault's hash (run.ts,
   selectDue) holds the vault, whatever two runs upload, prune and record
   at the same time. *)
THEOREM SkippedHold == Stays /\ Ample /\ ~Moves => (Spec => []SkippedIsHeld)
<1> SUFFICES ASSUME Stays, Ample, ~Moves
             PROVE  Spec => []SkippedIsHeld
  OBVIOUS
<1>1. BackupInv /\ HeldInv /\ [Next]_vars => BackupInv' /\ HeldInv'
  BY StepKeeps, StepHolds
<1>2. BackupInv /\ HeldInv => SkippedIsHeld
  BY HeldIsHeld
<1>3. QED
  BY <1>1, <1>2, Initially, InitiallyHeld, PTL DEF Spec
===============================================================================
