--------------------------- MODULE VekStore_proofs ---------------------------
(***************************************************************************)
(* Locks of the extension forget the keys, and a vault a view was told is  *)
(* open is open: for any number of vaults and operations, failing storage  *)
(* calls, deaths of the worker, and locks by the event that woke it.       *)
(***************************************************************************)
EXTENDS VekStore, SequenceTheorems, WellFoundedInduction, TLAPS

Kind == {"none", "install", "lock", "clear", "remove", "screen"}
Pc == Unanswered \cup {"unused", "denied", "unlocked", "stale", "failed", "removed",
                       "locked", "skipped", "lost"}

\* The operation whose turn it is, past its first step.
Working == {"storing", "unmarking", "undoStale", "undoFailed", "removing", "leaving",
            "marking", "listing", "clearing"}

\* The states of a lock that does not wait for hydration.
ClearPc == {"queued", "marking", "listing", "clearing"}

Begun(o) == op[o].pc \notin {"unused", "skipped"}

DataTypes ==
    /\ veks \in [Vault -> Nat] /\ durable \in [Vault -> Nat]
    /\ marked \in BOOLEAN /\ marker \in BOOLEAN /\ poisoned \in BOOLEAN
    /\ stored \in Vault \cup {None}
    /\ clearing = [keys |-> clearing.keys, active |-> clearing.active,
                   failed |-> clearing.failed]

SnapshotTypes == snapshot.keys \in [Vault -> Nat] /\ snapshot.marker \in BOOLEAN

Types ==
    /\ DataTypes /\ SnapshotTypes
    /\ epoch \in Nat
    /\ op \in [Op -> [kind : Kind, vault : Vault \cup {None}, epoch : Nat, pc : Pc]]

\* Operations begin in their order, and whatever begins after an unlock makes
\* its epoch stale.
InOrder ==
    /\ \A k, o \in Op : k < o /\ op[o].pc # "unused" => op[k].pc # "unused"
    /\ \A k \in Op : op[k].kind = "install" =>
          /\ op[k].epoch <= epoch
          /\ \A o \in Op : o > k /\ Begun(o) => op[k].epoch < epoch

\* The queue holds each operation once, the working one in front; a worker
\* that starts has none but the locks that began since.
QueueInv ==
    /\ queue \in Seq(Op)
    /\ \A i, j \in 1..Len(queue) : queue[i] = queue[j] => i = j
    /\ \A i \in 1..Len(queue) : op[queue[i]].pc \in Working \cup {"queued"}
    /\ \A o \in Op : op[o].pc \in Working => queue # <<>> /\ Head(queue) = o
    /\ hydration # "ready" => \A o \in Op : op[o].pc \in Unanswered =>
          o \in early /\ op[o].kind = "clear" /\ op[o].pc \in ClearPc

-----------------------------------------------------------------------------
(* What a step does to the operations: one of them moves on, or begins. *)

LEMMA PcType ==
    /\ Unanswered \subseteq Pc
    /\ {"unused", "denied", "unlocked", "stale", "failed", "removed", "locked",
        "skipped", "lost"} \subseteq Pc
  BY DEF Pc

MovesTo(o, p) ==
    \A k \in Op : /\ op'[k].kind = op[k].kind /\ op'[k].epoch = op[k].epoch
                  /\ op'[k].vault = op[k].vault
                  /\ op'[k].pc = IF k = o THEN p ELSE op[k].pc

LEMMA Moving ==
    ASSUME Types, NEW o \in Op, NEW p \in Pc, op' = [op EXCEPT ![o].pc = p]
    PROVE  /\ MovesTo(o, p)
           /\ op' \in [Op -> [kind : Kind, vault : Vault \cup {None}, epoch : Nat, pc : Pc]]
<1>1. op'[o] = [op[o] EXCEPT !.pc = p]
  BY DEF Types
<1>2. \A k \in Op : k # o => op'[k] = op[k]
  BY DEF Types
<1>3. op[o] \in [kind : Kind, vault : Vault \cup {None}, epoch : Nat, pc : Pc]
  BY DEF Types
<1>4. op'[o] \in [kind : Kind, vault : Vault \cup {None}, epoch : Nat, pc : Pc]
  BY <1>1, <1>3
<1>5. /\ op'[o].kind = op[o].kind /\ op'[o].epoch = op[o].epoch
      /\ op'[o].vault = op[o].vault /\ op'[o].pc = p
  BY <1>1, <1>3
<1> QED
  BY <1>2, <1>4, <1>5 DEF Types, MovesTo

LEMMA MovingKeepsOrder ==
    ASSUME Types, InOrder, NEW o \in Op, NEW p, MovesTo(o, p),
           Begun(o), p \notin {"unused", "skipped"},
           epoch' \in Nat, epoch' >= epoch
    PROVE  InOrder'
  BY OpAssumption DEF Types, InOrder, MovesTo, Begun

LEMMA BeginningKeepsOrder ==
    ASSUME Types, InOrder, NEW o \in Op, Fresh(o),
           NEW kind \in Kind, NEW v \in Vault \cup {None}, NEW e \in Nat, NEW p \in Pc,
           Begin(o, kind, v, e, p), p # "unused",
           epoch' \in Nat,
           \/ p = "skipped" /\ epoch' >= epoch
           \/ epoch' > epoch,
           kind = "install" => e = epoch' 
    PROVE  /\ InOrder'
           /\ op' \in [Op -> [kind : Kind, vault : Vault \cup {None}, epoch : Nat, pc : Pc]]
           /\ \A k \in Op \ {o} : op'[k] = op[k]
           /\ op'[o].pc = p /\ op'[o].kind = kind
<1>1. /\ op'[o] = [kind |-> kind, vault |-> v, epoch |-> e, pc |-> p]
      /\ \A k \in Op : k # o => op'[k] = op[k]
      /\ op' \in [Op -> [kind : Kind, vault : Vault \cup {None}, epoch : Nat, pc : Pc]]
  BY DEF Types, Begin
<1>2. op[o].pc = "unused" /\ \A k \in Op : k < o => op[k].pc # "unused"
  BY DEF Fresh
<1>3. \A k \in Op : k > o => op[k].pc = "unused"
  BY <1>2 DEF InOrder
<1>4. \A k, m \in Op : k < m /\ op'[m].pc # "unused" => op'[k].pc # "unused"
  <2> SUFFICES ASSUME NEW k \in Op, NEW m \in Op, k < m, op'[m].pc # "unused"
               PROVE  op'[k].pc # "unused"
    OBVIOUS
  <2> QED
    BY <1>1, <1>2, <1>3, OpAssumption DEF InOrder
<1>5. ASSUME NEW k \in Op, op'[k].kind = "install"
      PROVE  /\ op'[k].epoch <= epoch'
             /\ \A m \in Op : m > k /\ Begun(m)' => op'[k].epoch < epoch'
  <2>1. CASE k = o
    BY <1>1, <1>3, <1>5, <2>1, OpAssumption DEF Begun
  <2>2. CASE k # o
    <3>1. op[k].kind = "install" /\ op[k].epoch \in Nat /\ op'[k] = op[k]
      BY <1>1, <1>5, <2>2 DEF Types
    <3>2. op[k].epoch <= epoch /\ \A m \in Op : m > k /\ Begun(m) => op[k].epoch < epoch
      BY <3>1 DEF InOrder
    <3>3. \A m \in Op : m # o => (Begun(m)' <=> Begun(m))
      BY <1>1 DEF Begun
    <3>4. Begun(o)' => epoch' > epoch
      BY <1>1 DEF Begun
    <3>5. epoch \in Nat
      BY DEF Types
    <3> QED
      BY <3>1, <3>2, <3>3, <3>4, <3>5
  <2> QED
    BY <2>1, <2>2
<1> QED
  BY <1>1, <1>4, <1>5 DEF InOrder

-----------------------------------------------------------------------------
(* The commits: the operation in front takes a step, or it ends. *)

Turn(o, p) ==
    /\ queue # <<>> /\ Head(queue) = o
    /\ op[o].pc \in Working \cup {"queued"}
    /\ op' = [op EXCEPT ![o].pc = p]
    /\ p \in Pc \ {"unused", "skipped", "queued"}
    /\ queue' = IF p \in Working THEN queue ELSE Tail(queue)
    /\ op[o].kind = "clear" /\ op[o].pc \in ClearPc =>
          p \in {"marking", "listing", "clearing", "locked", "failed"}
    /\ epoch' = epoch /\ UNCHANGED wakeVars

LEMMA TurnKeepsQueue ==
    ASSUME Types, QueueInv, NEW o \in Op, NEW p, Turn(o, p)
    PROVE  QueueInv'
<1>1. MovesTo(o, p)
  BY Moving DEF Turn
<1>2. queue \in Seq(Op) /\ queue # <<>> /\ Head(queue) = o
  BY DEF Turn, QueueInv
<1>9. hydration' # "ready" => \A k \in Op : op'[k].pc \in Unanswered =>
          k \in early' /\ op'[k].kind = "clear" /\ op'[k].pc \in ClearPc
  <2> SUFFICES ASSUME hydration # "ready", NEW k \in Op, op'[k].pc \in Unanswered
               PROVE  k \in early /\ op'[k].kind = "clear" /\ op'[k].pc \in ClearPc
    BY DEF Turn, wakeVars
  <2>1. op'[k].kind = op[k].kind
    BY <1>1 DEF MovesTo
  <2>2. CASE k # o
    BY <1>1, <2>1, <2>2 DEF MovesTo, QueueInv
  <2>3. CASE k = o
    <3>1. o \in early /\ op[o].kind = "clear" /\ op[o].pc \in ClearPc
      BY DEF Turn, QueueInv, Working, Unanswered
    <3>2. op'[o].pc = p /\ p \in {"marking", "listing", "clearing", "locked", "failed"}
      BY <1>1, <3>1 DEF Turn, MovesTo
    <3> QED
      BY <2>1, <2>3, <3>1, <3>2 DEF ClearPc, Unanswered
  <2> QED
    BY <2>2, <2>3
<1>3. Len(queue) \in Nat /\ Len(queue) >= 1 /\ queue[1] = o /\ \A i \in 1..Len(queue) : queue[i] \in Op
  BY <1>2
<1>4. \A k \in Op : k # o => op'[k].pc = op[k].pc /\ op[k].pc \notin Working
  BY <1>1, <1>2 DEF MovesTo, QueueInv
<1>5. op'[o].pc = p
  BY <1>1 DEF MovesTo
<1>6. \A i \in 2..Len(queue) : queue[i] # o
  BY <1>3 DEF QueueInv
<1>7. CASE p \in Working
  <2>1. queue' = queue
    BY <1>7 DEF Turn
  <2>2. \A i \in 1..Len(queue) : op'[queue[i]].pc \in Working \cup {"queued"}
    BY <1>3, <1>4, <1>5, <1>7 DEF QueueInv
  <2>3. \A k \in Op : op'[k].pc \in Working => k = o
    BY <1>4
  <2> QED
    BY <1>2, <1>9, <2>1, <2>2, <2>3 DEF QueueInv
<1>8. CASE p \notin Working
  <2> DEFINE q == Tail(queue)
  <2>1. queue' = q
    BY <1>8 DEF Turn
  <2>2. q \in Seq(Op) /\ Len(q) = Len(queue) - 1 /\ \A i \in 1..Len(q) : q[i] = queue[i + 1]
    BY <1>2, HeadTailProperties
  <2> HIDE DEF q
  <2>3. \A i, j \in 1..Len(q) : q[i] = q[j] => i = j
    <3>1. \A i \in 1..Len(q) : i + 1 \in 1..Len(queue)
      BY <1>3, <2>2
    <3>2. \A i, j \in 1..Len(queue) : queue[i] = queue[j] => i = j
      BY DEF QueueInv
    <3> SUFFICES ASSUME NEW i \in 1..Len(q), NEW j \in 1..Len(q), q[i] = q[j] PROVE i = j
      OBVIOUS
    <3>3. i + 1 = j + 1
      BY <2>2, <3>1, <3>2
    <3> QED
      BY <3>3
  <2>4. \A i \in 1..Len(q) : op'[q[i]].pc \in Working \cup {"queued"}
    BY <1>3, <1>4, <1>6, <2>2 DEF QueueInv
  <2>5. \A k \in Op : op'[k].pc \notin Working
    BY <1>4, <1>5, <1>8
  <2> QED
    BY <1>2, <1>9, <2>1, <2>2, <2>3, <2>4, <2>5 DEF QueueInv
<1> QED
  BY <1>7, <1>8

(* An operation that is not in the queue moves on, or joins it. *)
LEMMA OutsideKeepsQueue ==
    ASSUME Types, QueueInv, NEW o \in Op, NEW p,
           op[o].pc \notin Working \cup {"queued"}, p \notin Working,
           \A k \in Op : op'[k].pc = IF k = o THEN p ELSE op[k].pc,
           \A k \in Op : k # o => op'[k].kind = op[k].kind,
           \/ p # "queued" /\ queue' = queue
           \/ p = "queued" /\ queue' = Append(queue, o),
           hydration' = hydration, early \subseteq early',
           \/ hydration = "ready"
           \/ p \notin Unanswered
           \/ p = "queued" /\ op'[o].kind = "clear" /\ o \in early'
    PROVE  QueueInv'
<1>1. queue \in Seq(Op) /\ Len(queue) \in Nat /\ \A i \in 1..Len(queue) : queue[i] \in Op
  BY DEF QueueInv
<1>2. \A i \in 1..Len(queue) : queue[i] # o
  BY <1>1 DEF QueueInv
<1>3. \A k \in Op : op'[k].pc \in Working => op[k].pc \in Working
  OBVIOUS
<1>4. \A i \in 1..Len(queue) : op'[queue[i]].pc = op[queue[i]].pc
  BY <1>1, <1>2
<1>7. hydration' # "ready" => \A k \in Op : op'[k].pc \in Unanswered =>
          k \in early' /\ op'[k].kind = "clear" /\ op'[k].pc \in ClearPc
  BY DEF QueueInv, ClearPc
<1>5. CASE queue' = queue
    BY <1>1, <1>3, <1>4, <1>5, <1>7 DEF QueueInv
<1>6. CASE p = "queued" /\ queue' = Append(queue, o)
  <2> DEFINE q == Append(queue, o)
  <2>1. /\ q \in Seq(Op) /\ q # <<>> /\ Len(q) = Len(queue) + 1
        /\ \A i \in 1..Len(queue) : q[i] = queue[i]
        /\ q[Len(queue) + 1] = o
    BY <1>1, AppendProperties
  <2>2. queue' = q
    BY <1>6
  <2> HIDE DEF q
  <2>3. \A i \in 1..Len(q) : i \in 1..Len(queue) \/ i = Len(queue) + 1
    BY <1>1, <2>1
  <2>4. \A i, j \in 1..Len(q) : q[i] = q[j] => i = j
    BY <1>1, <1>2, <2>1, <2>3 DEF QueueInv
  <2>5. \A i \in 1..Len(q) : op'[q[i]].pc \in Working \cup {"queued"}
    BY <1>4, <1>6, <2>1, <2>3 DEF QueueInv
  <2>6. queue # <<>> => Head(q) = Head(queue)
    BY <1>1, <2>1
  <2>7. \A k \in Op : op'[k].pc \in Working => q # <<>> /\ Head(q) = k
    BY <1>3, <2>1, <2>6 DEF QueueInv
  <2> QED
    BY <1>7, <2>1, <2>2, <2>4, <2>5, <2>7 DEF QueueInv
<1> QED
  BY <1>5, <1>6

LEMMA CommitIsTurn ==
    ASSUME NEW o \in Op, Commit(o)
    PROVE  \E p : Turn(o, p)
<1> USE DEF Go, Done, Turn, Working, Pc, Unanswered, Runs, ClearPc, wakeVars
<1>1. CASE InstallCommit(o)
  BY <1>1 DEF InstallCommit
<1>2. CASE InstallStore(o)
  BY <1>2 DEF InstallStore, Settle
<1>3. CASE InstallUnmark(o)
  BY <1>3 DEF InstallUnmark, Settle
<1>4. CASE RemoveCommit(o)
  BY <1>4 DEF RemoveCommit
<1>5. CASE RemoveStored(o)
  BY <1>5 DEF RemoveStored
<1>6. CASE LeaveLockMarker(o)
  BY <1>6 DEF LeaveLockMarker
<1>7. CASE ClearCommit(o)
  BY <1>7 DEF ClearCommit
<1>8. CASE ClearMark(o)
  BY <1>8 DEF ClearMark
<1>9. CASE ClearList(o)
  BY <1>9 DEF ClearList
<1>10. CASE ClearRemove(o)
  BY <1>10 DEF ClearRemove, ClearEnd
<1> QED
  BY <1>1, <1>2, <1>3, <1>4, <1>5, <1>6, <1>7, <1>8, <1>9, <1>10 DEF Commit

(* An answer, a request to the crypto host or a death: operations that are not
   in the queue, or all of them. *)
LEMMA ReplyKeepsOrder ==
    ASSUME Types, InOrder, QueueInv, NEW o \in Op,
           CryptoReply(o) \/ LockVault(o) \/ Answer(o)
    PROVE  /\ InOrder' /\ QueueInv'
           /\ op' \in [Op -> [kind : Kind, vault : Vault \cup {None}, epoch : Nat, pc : Pc]]
           /\ \A k \in Op : \/ op'[k].pc = op[k].pc
                            \/ k = o /\ op'[k].pc \in {"queued", "denied", "unlocked", "stale"}
           /\ epoch' \in Nat
<1>0. epoch \in Nat /\ EpochAfter(stored) \in Nat /\ EpochAfter(stored) >= epoch
  BY DEF Types, EpochAfter
<1>1. {"queued", "denied", "unlocked", "stale"} \subseteq Pc \ (Working \cup {"unused", "skipped"})
  BY DEF Pc, Working, Unanswered
<1>2. op[o].pc \in {"crypto", "zeroize", "installed"}
  BY DEF CryptoReply, LockVault, Answer
<1>3. op[o].pc \notin Working \cup {"queued"} /\ Begun(o) /\ hydration = "ready"
  BY <1>2 DEF Working, Begun, QueueInv, Unanswered, ClearPc
<1>4. hydration' = hydration /\ early' = early
  BY DEF CryptoReply, LockVault, Answer, wakeVars
<1>5. CASE CryptoReply(o) \/ Answer(o)
  <2>1. PICK p \in {"queued", "denied", "unlocked", "stale"} :
           /\ op' = [op EXCEPT ![o].pc = p]
           /\ queue' = IF p = "queued" THEN Append(queue, o) ELSE queue
    BY <1>5 DEF CryptoReply, Answer
  <2>2. /\ MovesTo(o, p)
        /\ op' \in [Op -> [kind : Kind, vault : Vault \cup {None}, epoch : Nat, pc : Pc]]
    BY <1>1, <2>1, Moving
  <2>3. epoch' \in Nat /\ epoch' >= epoch
    BY <1>0, <1>5 DEF CryptoReply, Answer
  <2>4. InOrder'
    BY <1>1, <1>3, <2>2, <2>3, MovingKeepsOrder
  <2>5. QueueInv'
    BY <1>1, <1>3, <1>4, <2>1, <2>2, OutsideKeepsQueue DEF MovesTo
  <2> QED
    BY <2>1, <2>2, <2>3, <2>4, <2>5 DEF MovesTo
<1>6. CASE LockVault(o)
  <2> DEFINE kind == IF op[o].kind = "lock" /\ op[o].vault \in {stored, None}
                     THEN "clear" ELSE "remove"
  <2>1. op' = [op EXCEPT ![o].pc = "queued", ![o].kind = kind]
    BY <1>6 DEF LockVault
  <2>2. kind \in Kind \ {"install"}
    BY DEF Kind
  <2> HIDE DEF kind
  <2>3. /\ op' = [op EXCEPT ![o] = [op[o] EXCEPT !.pc = "queued", !.kind = kind]]
        /\ op[o] \in [kind : Kind, vault : Vault \cup {None}, epoch : Nat, pc : Pc]
    BY <2>1 DEF Types
  <2>4. /\ op'[o] \in [kind : Kind, vault : Vault \cup {None}, epoch : Nat, pc : Pc]
        /\ op'[o].pc = "queued" /\ op'[o].kind = kind
    BY <1>1, <2>2, <2>3 DEF Types
  <2>5. \A k \in Op : k # o => op'[k] = op[k]
    BY <2>3 DEF Types
  <2>6. op' \in [Op -> [kind : Kind, vault : Vault \cup {None}, epoch : Nat, pc : Pc]]
    BY <2>3, <2>4, <2>5 DEF Types
  <2>7. epoch' \in Nat /\ epoch' > epoch
    BY <1>0, <1>6 DEF LockVault
  <2>8. QueueInv'
    <3>1. \A k \in Op : op'[k].pc = IF k = o THEN "queued" ELSE op[k].pc
      BY <2>4, <2>5
    <3>2. queue' = Append(queue, o)
      BY <1>6 DEF LockVault
    <3>3. \A k \in Op : k # o => op'[k].kind = op[k].kind
      BY <2>5
    <3> QED
      BY <1>1, <1>3, <1>4, <3>1, <3>2, <3>3, OutsideKeepsQueue
  <2>9. InOrder'
    <3>1. \A k \in Op : (op'[k].pc = "unused") <=> (op[k].pc = "unused")
      BY <1>3, <2>4, <2>5 DEF Begun
    <3>2. \A k \in Op : op'[k].kind = "install" => op'[k] = op[k]
      BY <2>2, <2>4, <2>5
    <3>3. \A k \in Op : op[k].kind = "install" => op[k].epoch < epoch'
      BY <2>7 DEF InOrder, Types
    <3> QED
      BY <2>7, <3>1, <3>2, <3>3 DEF InOrder, Types
  <2> QED
    BY <2>4, <2>5, <2>6, <2>7, <2>8, <2>9
<1> QED
  BY <1>5, <1>6

(* The steps of operations that begin. *)
BeginStep(o) == BeginInstall(o) \/ BeginLock(o) \/ ClearSession(o) \/ ScreenLock(o)

LEMMA BeginKeepsOrder ==
    ASSUME Types, InOrder, QueueInv, NEW o \in Op, BeginStep(o)
    PROVE  /\ InOrder' /\ QueueInv'
           /\ op' \in [Op -> [kind : Kind, vault : Vault \cup {None}, epoch : Nat, pc : Pc]]
           /\ \A k \in Op : \/ op'[k] = op[k]
                            \/ k = o /\ op'[k].pc \in {"crypto", "zeroize", "queued", "skipped"}
           /\ op[o].pc = "unused"
           /\ epoch' \in Nat
<1>0. epoch \in Nat /\ EpochAfter(stored) \in Nat /\ EpochAfter(stored) >= epoch
      /\ stored \in Vault \cup {None}
  BY DEF Types, DataTypes, EpochAfter
<1>1. {"crypto", "zeroize", "queued", "skipped"} \subseteq Pc \ (Working \cup {"unused"})
  BY DEF Pc, Working, Unanswered
<1>2. Fresh(o) /\ hydration' = hydration /\ early \subseteq early'
  BY DEF BeginStep, BeginInstall, BeginLock, ClearSession, ScreenLock, EarlyWith, wakeVars
<1>3. op[o].pc = "unused"
  BY <1>2 DEF Fresh
<1>4. \E kind \in Kind, v \in Vault \cup {None}, e \in Nat,
         p \in {"crypto", "zeroize", "queued", "skipped"} :
         /\ Begin(o, kind, v, e, p)
         /\ (p = "skipped" /\ epoch' = epoch) \/ epoch' > epoch
         /\ epoch' \in Nat
         /\ kind = "install" => e = epoch'
         /\ queue' = IF p = "queued" THEN Append(queue, o) ELSE queue
         /\ hydration = "ready" \/ p = "skipped"
            \/ (p = "queued" /\ kind = "clear" /\ o \in early')
  <2>1. CASE BeginInstall(o)
    <3>1. /\ Begin(o, "install", stored, EpochAfter(stored) + 1, "crypto")
          /\ epoch' = EpochAfter(stored) + 1 /\ queue' = queue /\ hydration = "ready"
      BY <2>1 DEF BeginInstall
    <3>2. "install" \in Kind /\ EpochAfter(stored) + 1 \in Nat
      BY <1>0 DEF Kind
    <3> QED
      BY <1>0, <3>1, <3>2
  <2>2. CASE BeginLock(o)
    <3>1. "lock" \in Kind
      BY DEF Kind
    <3>2. /\ Begin(o, "lock", stored, 0, "zeroize") /\ hydration = "ready"
          /\ epoch' = epoch + 1 /\ queue' = queue
      BY <2>2 DEF BeginLock
    <3>3. /\ epoch' > epoch /\ epoch' \in Nat /\ "lock" # "install"
          /\ stored \in Vault \cup {None} /\ 0 \in Nat
          /\ queue' = IF "zeroize" = "queued" THEN Append(queue, o) ELSE queue
      BY <1>0, <3>2
    <3> USE <3>1, <3>3
    <3> WITNESS "lock" \in Kind, stored \in Vault \cup {None}, 0 \in Nat,
                "zeroize" \in {"crypto", "zeroize", "queued", "skipped"}
    <3> QED
      BY <3>2, <3>3
  <2>3. CASE ClearSession(o)
    <3>1. "clear" \in Kind
      BY DEF Kind
    <3> QED
      BY <1>0, <2>3, <3>1 DEF ClearSession, EarlyWith
  <2>4. CASE ScreenLock(o)
    <3>1. "clear" \in Kind /\ "screen" \in Kind
      BY DEF Kind
    <3>2. CASE ActiveVaultLocked
      <4>1. Begin(o, "screen", None, 0, "skipped") /\ epoch' = epoch /\ queue' = queue
        BY <2>4, <3>2 DEF ScreenLock
      <4> QED
        BY <1>0, <3>1, <4>1
    <3>3. CASE ~ActiveVaultLocked
      <4>1. /\ Begin(o, "clear", None, 0, "queued") /\ epoch' = epoch + 1
            /\ queue' = Append(queue, o)
            /\ hydration = "ready" \/ o \in early'
        BY <2>4, <3>3 DEF ScreenLock, EarlyWith
      <4>2. /\ epoch' > epoch /\ epoch' \in Nat /\ "clear" # "install"
            /\ "clear" \in Kind /\ None \in Vault \cup {None} /\ 0 \in Nat
            /\ queue' = IF "queued" = "queued" THEN Append(queue, o) ELSE queue
        BY <1>0, <3>1, <4>1
      <4> USE <3>1
      <4> WITNESS "clear" \in Kind, None \in Vault \cup {None}, 0 \in Nat,
                  "queued" \in {"crypto", "zeroize", "queued", "skipped"}
      <4> QED
        BY <4>1, <4>2
    <3> QED
      BY <3>2, <3>3
  <2> QED
    BY <2>1, <2>2, <2>3, <2>4 DEF BeginStep
<1>5. PICK kind \in Kind, v \in Vault \cup {None}, e \in Nat,
           p \in {"crypto", "zeroize", "queued", "skipped"} :
         /\ Begin(o, kind, v, e, p)
         /\ (p = "skipped" /\ epoch' = epoch) \/ epoch' > epoch
         /\ epoch' \in Nat
         /\ kind = "install" => e = epoch'
         /\ queue' = IF p = "queued" THEN Append(queue, o) ELSE queue
         /\ hydration = "ready" \/ p = "skipped"
            \/ (p = "queued" /\ kind = "clear" /\ o \in early')
  BY <1>4
<1>6. /\ InOrder'
      /\ op' \in [Op -> [kind : Kind, vault : Vault \cup {None}, epoch : Nat, pc : Pc]]
      /\ \A k \in Op \ {o} : op'[k] = op[k]
      /\ op'[o].pc = p /\ op'[o].kind = kind
  <2>1. p \in Pc /\ p # "unused"
    BY <1>1
  <2>2. \/ p = "skipped" /\ epoch' >= epoch
        \/ epoch' > epoch
    BY <1>0, <1>5
  <2>3. epoch' \in Nat /\ Begin(o, kind, v, e, p) /\ (kind = "install" => e = epoch')
    BY <1>5
  <2> QED
    BY <1>2, <2>1, <2>2, <2>3, BeginningKeepsOrder
<1>7. op[o].pc \notin Working \cup {"queued"}
  BY <1>3 DEF Working
<1>8. QueueInv'
  <2>1. p \notin Working /\ (p = "skipped" => p \notin Unanswered)
    BY <1>1 DEF Unanswered
  <2> QED
    BY <1>2, <1>5, <1>6, <1>7, <2>1, OutsideKeepsQueue
<1> QED
  BY <1>2, <1>3, <1>5, <1>6, <1>8

(* The steps of no operation: notifications, deaths and starts of the worker. *)
WorkerStep ==
    \/ \E v \in Vault \cup {None} : SetActiveVault(v)
    \/ OnActiveChanged \/ WorkerDies \/ HydrateRead \/ Hydrate \/ HydrateClean

LEMMA WorkerKeepsOrder ==
    ASSUME Types, InOrder, QueueInv, WorkerStep
    PROVE  /\ InOrder' /\ QueueInv'
           /\ op' \in [Op -> [kind : Kind, vault : Vault \cup {None}, epoch : Nat, pc : Pc]]
           /\ epoch' \in Nat
<1>0. \A v : epoch \in Nat /\ EpochAfter(v) \in Nat /\ EpochAfter(v) >= epoch
  BY DEF Types, EpochAfter
<1>1. CASE ~WorkerDies
  <2>1. op' = op /\ queue' = queue /\ epoch' \in Nat /\ epoch' >= epoch
    BY <1>0, <1>1 DEF WorkerStep, SetActiveVault, OnActiveChanged, HydrateRead, Hydrate,
       HydrateClean, opVars
  <2>2. (hydration' # "ready" => hydration # "ready") /\ early' = early
    BY <1>1 DEF WorkerStep, SetActiveVault, OnActiveChanged, HydrateRead, Hydrate,
       HydrateClean, wakeVars
  <2>3. InOrder'
    BY <2>1 DEF InOrder, Begun, Types
  <2> QED
    BY <2>1, <2>2, <2>3 DEF QueueInv, Types
<1>2. CASE WorkerDies
  <2> DEFINE lost(k) == IF op[k].pc \in Unanswered THEN [op[k] EXCEPT !.pc = "lost"] ELSE op[k]
  <2>1. /\ op' = [k \in Op |-> lost(k)] /\ queue' = <<>> /\ epoch' = epoch + 1
        /\ hydration' = "reading"
    BY <1>2, Zenon DEF WorkerDies
  <2>2. "lost" \in Pc
    BY DEF Pc
  <2>3. ASSUME NEW k \in Op
        PROVE  /\ lost(k) \in [kind : Kind, vault : Vault \cup {None}, epoch : Nat, pc : Pc]
               /\ lost(k).kind = op[k].kind /\ lost(k).epoch = op[k].epoch
               /\ lost(k).pc = IF op[k].pc \in Unanswered THEN "lost" ELSE op[k].pc
    <3>1. op[k] \in [kind : Kind, vault : Vault \cup {None}, epoch : Nat, pc : Pc]
      BY DEF Types
    <3> QED
      BY <2>2, <3>1
  <2> HIDE DEF lost
  <2>4. \A k \in Op : op'[k] = lost(k)
    BY <2>1
  <2>5. op' \in [Op -> [kind : Kind, vault : Vault \cup {None}, epoch : Nat, pc : Pc]]
    BY <2>1, <2>3
  <2>6. \A k \in Op : op'[k].pc \notin Unanswered
    BY <2>3, <2>4 DEF Unanswered
  <2>7. \A k \in Op : /\ (op'[k].pc = "unused") <=> (op[k].pc = "unused")
                      /\ Begun(k)' <=> Begun(k)
    BY <2>3, <2>4 DEF Unanswered, Begun
  <2>8. InOrder'
    <3>1. \A k \in Op : op'[k].kind = "install" => op'[k].epoch \in Nat /\ op'[k].epoch < epoch'
      BY <1>0, <2>1, <2>3, <2>4 DEF InOrder, Types
    <3>2. \A k, m \in Op : k < m /\ op'[m].pc # "unused" => op'[k].pc # "unused"
      BY <2>7 DEF InOrder
    <3>3. \A k \in Op : op'[k].kind = "install" => op'[k].epoch <= epoch'
      BY <1>0, <2>1, <3>1
    <3> QED
      BY <3>1, <3>2, <3>3 DEF InOrder
  <2>9. QueueInv'
    <3>1. queue' \in Seq(Op) /\ Len(queue') = 0 /\ queue' = <<>>
      BY <2>1
    <3>2. \A k \in Op : op'[k].pc \notin Working
      BY <2>6 DEF Working, Unanswered
    <3> QED
      BY <2>6, <3>1, <3>2 DEF QueueInv
  <2> QED
    BY <1>0, <2>1, <2>5, <2>8, <2>9
<1> QED
  BY <1>1, <1>2 DEF WorkerStep

LEMMA CommitKeepsOrder ==
    ASSUME Types, InOrder, QueueInv, NEW o \in Op, NEW p, Turn(o, p)
    PROVE  /\ InOrder' /\ QueueInv'
           /\ op' \in [Op -> [kind : Kind, vault : Vault \cup {None}, epoch : Nat, pc : Pc]]
           /\ epoch' \in Nat
<1>1. Begun(o) /\ epoch' = epoch /\ epoch \in Nat /\ p \in Pc /\ p \notin {"unused", "skipped"}
  BY DEF Turn, Begun, Working, Types
<1>2. /\ MovesTo(o, p)
      /\ op' \in [Op -> [kind : Kind, vault : Vault \cup {None}, epoch : Nat, pc : Pc]]
  BY <1>1, Moving DEF Turn
<1>3. epoch' >= epoch
  BY <1>1
<1> QED
  BY <1>1, <1>2, <1>3, MovingKeepsOrder, TurnKeepsQueue

LEMMA OrderIsKept ==
    ASSUME Types, InOrder, QueueInv, [Next]_vars
    PROVE  /\ InOrder' /\ QueueInv'
           /\ op' \in [Op -> [kind : Kind, vault : Vault \cup {None}, epoch : Nat, pc : Pc]]
           /\ epoch' \in Nat
<1>1. CASE UNCHANGED vars
  BY <1>1 DEF vars, opVars, wakeVars, InOrder, QueueInv, Types, Begun
<1>2. ASSUME NEW o \in Op, BeginStep(o)
      PROVE  /\ InOrder' /\ QueueInv'
             /\ op' \in [Op -> [kind : Kind, vault : Vault \cup {None}, epoch : Nat, pc : Pc]]
             /\ epoch' \in Nat
  BY <1>2, BeginKeepsOrder
<1>3. ASSUME NEW o \in Op, Step(o)
      PROVE  /\ InOrder' /\ QueueInv'
             /\ op' \in [Op -> [kind : Kind, vault : Vault \cup {None}, epoch : Nat, pc : Pc]]
             /\ epoch' \in Nat
  <2>1. CASE CryptoReply(o) \/ LockVault(o) \/ Answer(o)
    BY <2>1, ReplyKeepsOrder
  <2>2. CASE Commit(o)
    <3>1. PICK p : Turn(o, p)
      BY <2>2, CommitIsTurn
    <3> QED
      BY <3>1, CommitKeepsOrder
  <2> QED
    BY <1>3, <2>1, <2>2 DEF Step
<1>4. CASE WorkerStep
  BY <1>4, WorkerKeepsOrder
<1> QED
  BY <1>1, <1>2, <1>3, <1>4 DEF Next, BeginStep, WorkerStep

LEMMA TypesAreKept ==
    ASSUME Types, InOrder, QueueInv, [Next]_vars
    PROVE  Types'
<1>1. /\ op' \in [Op -> [kind : Kind, vault : Vault \cup {None}, epoch : Nat, pc : Pc]]
      /\ epoch' \in Nat
  BY OrderIsKept
<1>2. NoKeys \in [Vault -> Nat]
  BY DEF NoKeys
<1>3. DataTypes'
  <2> USE <1>2, OpAssumption
      DEF Types, DataTypes, keyVars, lockVars, opVars, activeVars, WriteActive, NoClearing,
          FailClosed
  <2>1. CASE UNCHANGED vars
    BY <2>1 DEF vars
  <2>2. ASSUME NEW o \in Op, BeginStep(o) \/ CryptoReply(o) \/ LockVault(o) PROVE DataTypes'
    <3>1. UNCHANGED <<veks, durable, marked, marker, poisoned, stored, clearing>>
      BY <2>2 DEF BeginStep, BeginInstall, BeginLock, ClearSession, ScreenLock,
                  CryptoReply, LockVault
    <3> QED
      BY <3>1
  <2>3. ASSUME NEW o \in Op, Answer(o) PROVE DataTypes'
    <3>1. /\ UNCHANGED <<veks, durable, marked, marker, poisoned, clearing>>
          /\ stored' = stored \/ stored' = op[o].vault
      BY <2>3 DEF Answer
    <3> QED
      BY <3>1
  <2>4. ASSUME NEW o \in Op, InstallCommit(o) \/ InstallStore(o) \/ InstallUnmark(o)
        PROVE  DataTypes'
    <3>1. \/ veks' = veks
          \/ veks' = [veks EXCEPT ![op[o].vault] = o]
          \/ veks' = [veks EXCEPT ![op[o].vault] = 0]
      BY <2>4 DEF InstallCommit, InstallStore, InstallUnmark, Settle
    <3>2. \/ durable' = durable
          \/ durable' = [durable EXCEPT ![op[o].vault] = o]
      BY <2>4 DEF InstallCommit, InstallStore, InstallUnmark
    <3>3. marked' \in BOOLEAN /\ marker' \in BOOLEAN /\ UNCHANGED <<poisoned, stored, clearing>>
      BY <2>4 DEF InstallCommit, InstallStore, InstallUnmark
    <3> QED
      BY <3>1, <3>2, <3>3
  <2>5. ASSUME NEW o \in Op, RemoveCommit(o) \/ RemoveStored(o) \/ LeaveLockMarker(o)
        PROVE  DataTypes'
    <3>1. CASE RemoveCommit(o)
      BY <3>1 DEF RemoveCommit
    <3>2. CASE RemoveStored(o)
      <4>1. \/ durable' = durable
            \/ durable' = [durable EXCEPT ![op[o].vault] = 0]
        BY <3>2 DEF RemoveStored
      <4>2. marked' \in BOOLEAN /\ UNCHANGED <<veks, marker, poisoned, stored, clearing>>
        BY <3>2 DEF RemoveStored
      <4> QED
        BY <4>1, <4>2
    <3>3. CASE LeaveLockMarker(o)
      BY <3>3 DEF LeaveLockMarker
    <3> QED
      BY <2>5, <3>1, <3>2, <3>3
  <2>6. ASSUME NEW o \in Op, ClearCommit(o) \/ ClearMark(o) \/ ClearList(o) PROVE DataTypes'
    <3>1. CASE ClearCommit(o)
      BY <3>1 DEF ClearCommit
    <3>2. CASE ClearMark(o)
      BY <3>2 DEF ClearMark
    <3>3. CASE ClearList(o)
      BY <3>3 DEF ClearList
    <3> QED
      BY <2>6, <3>1, <3>2, <3>3
  <2>7. ASSUME NEW o \in Op, ClearRemove(o) PROVE DataTypes'
    <3>1. /\ durable' \in [Vault -> Nat]
          /\ stored' \in Vault \cup {None}
          /\ clearing' = NoClearing /\ marked' = marked /\ marker' = marker
      BY <2>7 DEF ClearRemove
    <3>2. veks' \in [Vault -> Nat] /\ poisoned' \in BOOLEAN
      BY <2>7 DEF ClearRemove, ClearEnd
    <3> QED
      BY <3>1, <3>2
  <2>8. CASE WorkerStep
    <3>1. CASE Hydrate
      <4>1. /\ UNCHANGED <<durable, marker, poisoned, stored, clearing>>
            /\ marked' = snapshot.marker
            /\ \/ veks' = veks
               \/ veks' = [v \in Vault |-> IF v \in {w \in Vault : snapshot.keys[w] # 0}
                                         THEN snapshot.keys[v] ELSE veks[v]]
        BY <3>1 DEF Hydrate
      <4> QED
        BY <4>1 DEF SnapshotTypes
    <3>2. CASE HydrateClean
      <4>1. /\ UNCHANGED <<marked, marker, clearing>>
            /\ veks' = veks \/ veks' = NoKeys
            /\ stored' = stored \/ stored' = None
            /\ poisoned' = poisoned \/ poisoned' = TRUE
            /\ \/ durable' = durable
               \/ durable' = [v \in Vault |-> IF snapshot.keys[v] # 0 THEN 0 ELSE durable[v]]
        BY <3>2 DEF HydrateClean
      <4>2. durable' \in [Vault -> Nat]
        BY <4>1
      <4>3. veks' \in [Vault -> Nat] /\ poisoned' \in BOOLEAN /\ stored' \in Vault \cup {None}
        BY <4>1
      <4> QED
        BY <4>1, <4>2, <4>3
    <3>3. CASE WorkerStep /\ ~Hydrate /\ ~HydrateClean
      BY <3>3 DEF WorkerStep, SetActiveVault, OnActiveChanged, WorkerDies, HydrateRead
    <3> QED
      BY <2>8, <3>1, <3>2, <3>3
  <2> QED
    BY <2>1, <2>2, <2>3, <2>4, <2>5, <2>6, <2>7, <2>8
       DEF Next, Step, Commit, BeginStep, WorkerStep
<1>4. SnapshotTypes'
  <2>1. \/ snapshot' = snapshot
        \/ snapshot' = NoSnapshot
        \/ snapshot' = [keys |-> durable, marker |-> marker, active |-> stored]
    <3>1. CASE UNCHANGED vars
      BY <3>1 DEF vars, wakeVars
    <3>2. ASSUME NEW o \in Op, BeginStep(o) PROVE snapshot' = snapshot
      BY <3>2 DEF BeginStep, BeginInstall, BeginLock, ClearSession, ScreenLock, wakeVars
    <3>3. ASSUME NEW o \in Op, Step(o) PROVE snapshot' = snapshot
      BY <3>3, CommitIsTurn DEF Step, CryptoReply, LockVault, Answer, Turn, wakeVars
    <3>4. CASE WorkerStep
      BY <3>4 DEF WorkerStep, SetActiveVault, OnActiveChanged, WorkerDies, HydrateRead, Hydrate,
         HydrateClean, wakeVars
    <3> QED
      BY <3>1, <3>2, <3>3, <3>4 DEF Next, BeginStep, WorkerStep
  <2>2. CASE snapshot' = NoSnapshot
    BY <1>2, <2>2 DEF NoSnapshot, SnapshotTypes
  <2>3. CASE snapshot' = [keys |-> durable, marker |-> marker, active |-> stored]
    BY <2>3 DEF SnapshotTypes, Types, DataTypes
  <2>4. CASE snapshot' = snapshot
    BY <2>4 DEF SnapshotTypes, Types
  <2> QED
    BY <2>1, <2>2, <2>3, <2>4
<1> QED
  BY <1>1, <1>3, <1>4 DEF Types

-----------------------------------------------------------------------------
(* The keys. *)

NoOld(f) == \A o \in sealed, v \in Vault : f[v] # 0 => f[v] > o

Sealing == sealed \subseteq Op /\ \A o \in sealed :
    op[o].pc \in {"listing", "clearing", "locked", "failed", "lost"}

\* No lock that began after an unlock ends before the unlock has stored its key.
Storing == \A k \in Op : op[k].pc \in {"storing", "unmarking"} =>
    /\ ~poisoned
    /\ op[k].pc = "unmarking" => marked
    /\ \A o \in Op : o > k => op[o].pc # "locked" /\ o \notin sealed

\* A lock in its turn has emptied memory, unless hydration came after it, and
\* knows what storage holds.
Clearing == \A o \in Op :
    /\ op[o].pc \in {"marking", "listing", "clearing"} => o \in early \/ veks = NoKeys
    /\ op[o].pc = "clearing" /\ ~clearing.failed =>
          \A v \in Vault : durable[v] # 0 => v \in clearing.keys

\* Without a marker storage holds nothing older than a sealed lock; and with
\* one, once whoever set it is done and succeeded: the marker may go.
MarkerCovers ==
    /\ ~marker => NoOld(durable)
    /\ /\ marked /\ ~poisoned /\ hydration # "cleaning"
       /\ \A o \in Op : op[o].pc \notin {"leaving", "marking", "listing", "clearing"}
       => NoOld(durable)

\* What hydration read is no older than the locks before it, and all there is.
SnapshotCovers ==
    /\ hydration = "read" =>
          \A o \in Op, v \in Vault :
             /\ o \notin early
             /\ op[o].pc = "locked" \/ (o \in sealed /\ ~snapshot.marker)
             /\ snapshot.keys[v] # 0
             => snapshot.keys[v] > o
    /\ hydration \in {"read", "cleaning"} =>
          \A v \in Vault : durable[v] # 0 => snapshot.keys[v] # 0

KeyInv ==
    /\ Sealing /\ Storing /\ Clearing /\ MarkerCovers /\ SnapshotCovers
    /\ LockForgets /\ SealedLockForgets

(* Steps that touch no key and no marker, and no commit that guards them. *)
LEMMA QuietKeepsKeys ==
    ASSUME Types, KeyInv,
           UNCHANGED <<veks, durable, marked, marker, poisoned, clearing, sealed, hydration,
                       snapshot>>,
           early \subseteq early',
           \A k \in Op :
              \/ op'[k].pc = op[k].pc
              \/ /\ op[k].pc \notin {"leaving", "marking", "listing", "clearing", "locked",
                                     "failed", "lost"}
                 /\ op'[k].pc \notin {"storing", "unmarking", "leaving", "marking", "listing",
                                      "clearing", "locked"}
    PROVE  KeyInv'
<1>1. Sealing'
  BY DEF KeyInv, Sealing
<1>2. Storing'
  BY DEF KeyInv, Storing
<1>3. Clearing'
  BY DEF KeyInv, Clearing
<1>4. MarkerCovers'
  BY DEF KeyInv, MarkerCovers, NoOld
<1>5. LockForgets'
  BY DEF KeyInv, LockForgets
<1>6. SealedLockForgets'
  BY DEF KeyInv, SealedLockForgets
<1>7. SnapshotCovers'
  BY DEF KeyInv, SnapshotCovers
<1> QED
  BY <1>1, <1>2, <1>3, <1>4, <1>5, <1>6, <1>7 DEF KeyInv

LEMMA TurnFacts ==
    ASSUME Types, QueueInv, NEW o \in Op, NEW p, Turn(o, p)
    PROVE  /\ \A k \in Op : k # o => op'[k].pc = op[k].pc /\ op[k].pc \notin Working
           /\ op'[o].pc = p
           /\ UNCHANGED <<hydration, snapshot, early>>
           /\ \/ hydration = "ready"
              \/ o \in early /\ op[o].kind = "clear" /\ op[o].pc \in ClearPc
<1>1. MovesTo(o, p)
  BY Moving DEF Turn
<1>2. /\ UNCHANGED <<hydration, snapshot, early>>
      /\ \/ hydration = "ready"
         \/ o \in early /\ op[o].kind = "clear" /\ op[o].pc \in ClearPc
  BY DEF Turn, QueueInv, wakeVars, Working, Unanswered
<1> QED
  BY <1>1, <1>2 DEF Turn, QueueInv, MovesTo

LEMMA InstallCommitKeepsKeys ==
    ASSUME Types, InOrder, QueueInv, KeyInv, NEW o \in Op, InstallCommit(o)
    PROVE  KeyInv'
<1>1. CASE op[o].epoch # epoch \/ poisoned
  <2>1. PICK p \in {"stale", "failed"} : Turn(o, p)
    BY <1>1 DEF InstallCommit, Done, Turn, Working, Pc, Unanswered, Runs
  <2>2. op[o].pc = "queued"
    BY DEF InstallCommit, Runs
  <2>3. /\ UNCHANGED <<veks, durable, marked, marker, poisoned, clearing, sealed, hydration,
                      snapshot>>
        /\ early' = early
    BY <1>1 DEF InstallCommit, lockVars, counters, wakeVars
  <2> QED
    BY <2>1, <2>2, <2>3, TurnFacts, QuietKeepsKeys
<1>2. CASE op[o].epoch = epoch /\ ~poisoned
  <2>1. Turn(o, "storing")
    BY <1>2 DEF InstallCommit, Go, Turn, Working, Pc, Unanswered, Runs
  <2>2. /\ veks' = [veks EXCEPT ![op[o].vault] = o]
        /\ UNCHANGED <<durable, marked, marker, poisoned, clearing, sealed>>
    BY <1>2 DEF InstallCommit, lockVars, counters
  <2>3. \A v \in Vault : veks'[v] = veks[v] \/ veks'[v] = o
    BY <2>2 DEF Types, DataTypes
  <2>4. \A m \in Op : m > o => op[m].pc \in {"unused", "skipped"}
    BY <1>2 DEF InstallCommit, InOrder, Begun, Types
  <2>5. op[o].pc = "queued"
    BY DEF InstallCommit, Runs
  <2>6. /\ \A k \in Op : k # o => op'[k].pc = op[k].pc /\ op[k].pc \notin Working
        /\ op'[o].pc = "storing" /\ UNCHANGED <<hydration, snapshot, early>>
        /\ hydration = "ready"
    BY <2>1, TurnFacts DEF InstallCommit
  <2>7. \A m \in Op : op[m].pc = "locked" \/ m \in sealed => m < o
    BY <2>4, <2>5, OpAssumption DEF KeyInv, Sealing
  <2> HIDE DEF KeyInv
  <2>8. Sealing'
    BY <1>2, <2>2, <2>3, <2>4, <2>5, <2>6, <2>7 DEF KeyInv, Sealing, Working
  <2>9. Storing'
    BY <1>2, <2>2, <2>3, <2>4, <2>5, <2>6, <2>7 DEF KeyInv, Storing, Sealing, Working
  <2>10. Clearing'
    BY <1>2, <2>2, <2>3, <2>4, <2>5, <2>6, <2>7 DEF KeyInv, Clearing, Working, NoKeys
  <2>11. MarkerCovers'
    BY <1>2, <2>2, <2>3, <2>4, <2>5, <2>6, <2>7 DEF KeyInv, MarkerCovers, NoOld, Sealing, Working, NoKeys
  <2>12. LockForgets'
    BY <1>2, <2>2, <2>3, <2>4, <2>5, <2>6, <2>7 DEF KeyInv, LockForgets, Working, NoKeys
  <2>13. SealedLockForgets'
    BY <1>2, <2>2, <2>3, <2>4, <2>5, <2>6, <2>7 DEF KeyInv, SealedLockForgets, Sealing, NoKeys
  <2>14. SnapshotCovers'
    BY <1>2, <2>2, <2>3, <2>4, <2>5, <2>6, <2>7 DEF KeyInv, SnapshotCovers, Working
  <2> QED
    BY <2>8, <2>9, <2>10, <2>11, <2>12, <2>13, <2>14 DEF KeyInv
<1> QED
  BY <1>1, <1>2

LEMMA InstallStoreKeepsKeys ==
    ASSUME Types, QueueInv, KeyInv, NEW o \in Op, InstallStore(o)
    PROVE  KeyInv'
<1>1. op[o].pc = "storing"
  BY DEF InstallStore, Runs
<1>2. PICK p \in {"unmarking", "installed", "undoStale", "undoFailed"} :
         Turn(o, p) /\ (p = "unmarking" => marked)
  BY DEF InstallStore, Settle, Go, Done, Turn, Working, Pc, Unanswered, Runs, ClearPc
<1>3. UNCHANGED <<marked, marker, poisoned, clearing, sealed>>
  BY DEF InstallStore, lockVars
<1>4. \A v \in Vault : durable'[v] = durable[v] \/ durable'[v] = o
  BY DEF InstallStore, Types, DataTypes
<1>5. \A v \in Vault : veks'[v] = veks[v] \/ veks'[v] = 0
  <2>1. veks' = veks \/ veks' = [veks EXCEPT ![op[o].vault] = 0]
    BY DEF InstallStore, Settle
  <2> QED
    BY <2>1 DEF Types, DataTypes
<1>6. /\ \A k \in Op : k # o => op'[k].pc = op[k].pc /\ op[k].pc \notin Working
      /\ op'[o].pc = p /\ UNCHANGED <<hydration, snapshot, early>> /\ hydration = "ready"
  BY <1>1, <1>2, TurnFacts DEF ClearPc
<1>7. \A m \in Op : op[m].pc = "locked" \/ m \in sealed => m < o
  BY <1>1, OpAssumption DEF KeyInv, Storing, Sealing
<1>8. Sealing'
  BY <1>1, <1>2, <1>3, <1>4, <1>5, <1>6, <1>7 DEF KeyInv, Sealing, Working
<1>9. Storing'
  BY <1>1, <1>2, <1>3, <1>4, <1>5, <1>6, <1>7 DEF KeyInv, Storing, Sealing, Working
<1>10. Clearing'
  BY <1>1, <1>2, <1>3, <1>4, <1>5, <1>6, <1>7 DEF KeyInv, Clearing, Working, NoKeys
<1>11. MarkerCovers'
  BY <1>1, <1>2, <1>3, <1>4, <1>5, <1>6, <1>7 DEF KeyInv, MarkerCovers, NoOld, Sealing, Working, NoKeys
<1>12. LockForgets'
  BY <1>1, <1>2, <1>3, <1>4, <1>5, <1>6, <1>7 DEF KeyInv, LockForgets, Working, NoKeys
<1>13. SealedLockForgets'
  BY <1>1, <1>2, <1>3, <1>4, <1>5, <1>6, <1>7 DEF KeyInv, SealedLockForgets, Sealing, NoKeys
<1>14. SnapshotCovers'
  BY <1>1, <1>2, <1>3, <1>4, <1>5, <1>6, <1>7 DEF KeyInv, SnapshotCovers, Working
<1> QED
  BY <1>8, <1>9, <1>10, <1>11, <1>12, <1>13, <1>14 DEF KeyInv

LEMMA InstallUnmarkKeepsKeys ==
    ASSUME Types, QueueInv, KeyInv, NEW o \in Op, InstallUnmark(o)
    PROVE  KeyInv'
<1>1. op[o].pc = "unmarking"
  BY DEF InstallUnmark, Runs
<1>2. PICK p \in {"installed", "undoStale", "undoFailed"} : Turn(o, p)
  BY DEF InstallUnmark, Settle, Go, Done, Turn, Working, Pc, Unanswered, Runs, ClearPc
<1>3. UNCHANGED <<durable, poisoned, clearing, sealed>>
  BY DEF InstallUnmark
<1>4. \A v \in Vault : veks'[v] = veks[v] \/ veks'[v] = 0
  <2>1. veks' = veks \/ veks' = [veks EXCEPT ![op[o].vault] = 0]
    BY DEF InstallUnmark, Settle
  <2> QED
    BY <2>1 DEF Types, DataTypes
<1>5. /\ \A k \in Op : k # o => op'[k].pc = op[k].pc /\ op[k].pc \notin Working
      /\ op'[o].pc = p /\ UNCHANGED <<hydration, snapshot, early>> /\ hydration = "ready"
  BY <1>1, <1>2, TurnFacts DEF ClearPc
<1>6. NoOld(durable)
  BY <1>1, <1>5 DEF KeyInv, MarkerCovers, Storing, Working
<1>7. Sealing'
  BY <1>1, <1>2, <1>3, <1>4, <1>5, <1>6 DEF KeyInv, Sealing, Working
<1>8. Storing'
  BY <1>1, <1>2, <1>3, <1>4, <1>5, <1>6 DEF KeyInv, Storing, Sealing, Working
<1>9. Clearing'
  BY <1>1, <1>2, <1>3, <1>4, <1>5, <1>6 DEF KeyInv, Clearing, Working, NoKeys
<1>10. MarkerCovers'
  BY <1>1, <1>2, <1>3, <1>4, <1>5, <1>6 DEF KeyInv, MarkerCovers, NoOld, Sealing, Working, NoKeys
<1>11. LockForgets'
  BY <1>1, <1>2, <1>3, <1>4, <1>5, <1>6 DEF KeyInv, LockForgets, Working, NoKeys
<1>12. SealedLockForgets'
  BY <1>1, <1>2, <1>3, <1>4, <1>5, <1>6 DEF KeyInv, SealedLockForgets, Sealing, NoKeys
<1>13. SnapshotCovers'
  BY <1>1, <1>2, <1>3, <1>4, <1>5, <1>6 DEF KeyInv, SnapshotCovers, Working
<1> QED
  BY <1>7, <1>8, <1>9, <1>10, <1>11, <1>12, <1>13 DEF KeyInv

LEMMA RemoveKeepsKeys ==
    ASSUME Types, QueueInv, KeyInv, NEW o \in Op,
           RemoveCommit(o) \/ RemoveStored(o) \/ LeaveLockMarker(o)
    PROVE  KeyInv'
<1>1. /\ op[o].pc \in {"queued", "removing", "undoStale", "undoFailed", "leaving"}
      /\ op[o].pc = "queued" => op[o].kind = "remove"
  BY DEF RemoveCommit, RemoveStored, LeaveLockMarker, Runs
<1>2. PICK p \in {"removing", "leaving", "removed", "stale", "failed"} :
         /\ Turn(o, p)
         /\ \/ p = "leaving"
            \/ poisoned'
            \/ marked' = marked /\ poisoned' = poisoned /\ op[o].pc # "leaving"
  <2>1. CASE RemoveCommit(o)
    BY <2>1 DEF RemoveCommit, Go, Done, Turn, Working, Pc, Unanswered, Runs, lockVars, wakeVars
  <2>2. CASE RemoveStored(o)
    <3>1. PICK pc \in {"removing", "undoStale", "undoFailed"}, ok \in BOOLEAN :
             /\ Runs(o, pc)
             /\ marked' = (marked \/ ~ok)
             /\ IF ~ok THEN Go(o, "leaving")
                ELSE Done(o, CASE pc = "removing" -> "removed"
                               [] pc = "undoStale" -> "stale"
                               [] OTHER -> "failed")
      BY <2>2 DEF RemoveStored
    <3>2. UNCHANGED wakeVars /\ epoch' = epoch /\ poisoned' = poisoned
      BY <2>2 DEF RemoveStored
    <3>3. CASE ~ok
      BY <3>1, <3>2, <3>3 DEF Go, Turn, Working, Pc, Unanswered, Runs, ClearPc
    <3>4. CASE ok
      <4>1. marked' = marked
        BY <3>1, <3>4 DEF Types, DataTypes
      <4>2. \E q \in {"removed", "stale", "failed"} : Done(o, q)
        BY <3>1, <3>4
      <4> QED
        BY <3>1, <3>2, <4>1, <4>2 DEF Done, Turn, Working, Pc, Unanswered, Runs, ClearPc
    <3> QED
      BY <3>1, <3>3, <3>4
  <2>3. CASE LeaveLockMarker(o)
    BY <2>3 DEF LeaveLockMarker, FailClosed, Done, Turn, Working, Pc, Unanswered, Runs, ClearPc
  <2> QED
    BY <2>1, <2>2, <2>3
<1>3. UNCHANGED <<clearing, sealed>> /\ (marker => marker')
  <2>1. CASE RemoveCommit(o)
    BY <2>1 DEF RemoveCommit, lockVars, counters
  <2>2. CASE RemoveStored(o)
    BY <2>2 DEF RemoveStored
  <2>3. CASE LeaveLockMarker(o)
    BY <2>3 DEF LeaveLockMarker, Types, DataTypes
  <2> QED
    BY <2>1, <2>2, <2>3
<1>4. \A v \in Vault : durable'[v] = durable[v] \/ durable'[v] = 0
  <2>1. durable' = durable \/ durable' = [durable EXCEPT ![op[o].vault] = 0]
    BY DEF RemoveCommit, RemoveStored, LeaveLockMarker
  <2> QED
    BY <2>1 DEF Types, DataTypes
<1>5. \A v \in Vault : veks'[v] = veks[v] \/ veks'[v] = 0
  <2>1. veks' = veks \/ veks' = [veks EXCEPT ![op[o].vault] = 0] \/ veks' = NoKeys
    BY DEF RemoveCommit, RemoveStored, LeaveLockMarker, FailClosed
  <2> QED
    BY <2>1 DEF Types, DataTypes, NoKeys
<1>6. /\ \A k \in Op : k # o => op'[k].pc = op[k].pc /\ op[k].pc \notin Working
      /\ op'[o].pc = p /\ UNCHANGED <<hydration, snapshot, early>> /\ hydration = "ready"
  BY <1>1, <1>2, TurnFacts DEF ClearPc
<1>7. Sealing'
  BY <1>1, <1>2, <1>3, <1>4, <1>5, <1>6 DEF KeyInv, Sealing, Working
<1>8. Storing'
  BY <1>1, <1>2, <1>3, <1>4, <1>5, <1>6 DEF KeyInv, Storing, Sealing, Working
<1>9. Clearing'
  BY <1>1, <1>2, <1>3, <1>4, <1>5, <1>6 DEF KeyInv, Clearing, Working, NoKeys
<1>10. MarkerCovers'
  BY <1>1, <1>2, <1>3, <1>4, <1>5, <1>6 DEF KeyInv, MarkerCovers, NoOld, Sealing, Working, NoKeys
<1>11. LockForgets'
  BY <1>1, <1>2, <1>3, <1>4, <1>5, <1>6 DEF KeyInv, LockForgets, Working, NoKeys
<1>12. SealedLockForgets'
  BY <1>1, <1>2, <1>3, <1>4, <1>5, <1>6 DEF KeyInv, SealedLockForgets, Sealing, NoKeys
<1>13. SnapshotCovers'
  BY <1>1, <1>2, <1>3, <1>4, <1>5, <1>6 DEF KeyInv, SnapshotCovers, Working
<1> QED
  BY <1>7, <1>8, <1>9, <1>10, <1>11, <1>12, <1>13 DEF KeyInv

LEMMA ClearKeepsKeys ==
    ASSUME Types, QueueInv, KeyInv, NEW o \in Op, ClearCommit(o) \/ ClearMark(o) \/ ClearList(o)
    PROVE  KeyInv'
<1>1. CASE ClearCommit(o)
  <2>1. Turn(o, "marking") /\ op[o].pc = "queued"
    BY <1>1 DEF ClearCommit, Go, Turn, Working, Pc, Unanswered, Runs, wakeVars
  <2>2. /\ veks' = NoKeys /\ marked' /\ UNCHANGED <<durable, marker, poisoned, sealed>>
    BY <1>1 DEF ClearCommit, counters
  <2>3. /\ \A k \in Op : k # o => op'[k].pc = op[k].pc /\ op[k].pc \notin Working
        /\ op'[o].pc = "marking" /\ UNCHANGED <<hydration, snapshot, early>>
    BY <2>1, TurnFacts
  <2>4. Sealing'
    BY <2>1, <2>2, <2>3 DEF KeyInv, Sealing, Working
  <2>5. Storing'
    BY <2>1, <2>2, <2>3 DEF KeyInv, Storing, Sealing, Working
  <2>6. Clearing'
    BY <2>1, <2>2, <2>3 DEF KeyInv, Clearing, Working, NoKeys
  <2>7. MarkerCovers'
    BY <2>1, <2>2, <2>3 DEF KeyInv, MarkerCovers, NoOld, Sealing, Working, NoKeys
  <2>8. LockForgets'
    BY <2>1, <2>2, <2>3 DEF KeyInv, LockForgets, Working, NoKeys
  <2>9. SealedLockForgets'
    BY <2>1, <2>2, <2>3 DEF KeyInv, SealedLockForgets, Sealing, NoKeys
  <2>10. SnapshotCovers'
    BY <2>1, <2>2, <2>3 DEF KeyInv, SnapshotCovers, Working
  <2> QED
    BY <2>4, <2>5, <2>6, <2>7, <2>8, <2>9, <2>10 DEF KeyInv
<1>2. CASE ClearMark(o)
  <2>1. Turn(o, "listing") /\ op[o].pc = "marking"
    BY <1>2 DEF ClearMark, Go, Turn, Working, Pc, Unanswered, Runs, wakeVars
  <2>2. PICK done \in BOOLEAN :
           /\ marker' = (marker \/ done)
           /\ sealed' = IF done THEN sealed \cup {o} ELSE sealed
    BY <1>2 DEF ClearMark
  <2>3. UNCHANGED <<veks, durable, marked, poisoned>> /\ (o \in early \/ veks = NoKeys)
    BY <1>2, <2>1 DEF ClearMark, keyVars, KeyInv, Clearing
  <2>4. /\ \A k \in Op : k # o => op'[k].pc = op[k].pc /\ op[k].pc \notin Working
        /\ op'[o].pc = "listing" /\ UNCHANGED <<hydration, snapshot, early>>
        /\ hydration = "ready" \/ o \in early
    BY <2>1, TurnFacts
  <2>5. Sealing'
    BY <2>1, <2>2, <2>3, <2>4 DEF KeyInv, Sealing, Working
  <2>6. Storing'
    BY <2>1, <2>2, <2>3, <2>4 DEF KeyInv, Storing, Sealing, Working
  <2>7. Clearing'
    BY <2>1, <2>2, <2>3, <2>4 DEF KeyInv, Clearing, Working, NoKeys
  <2>8. MarkerCovers'
    BY <2>1, <2>2, <2>3, <2>4 DEF KeyInv, MarkerCovers, NoOld, Sealing, Working, NoKeys
  <2>9. LockForgets'
    BY <2>1, <2>2, <2>3, <2>4 DEF KeyInv, LockForgets, Working, NoKeys
  <2>10. SealedLockForgets'
    BY <2>1, <2>2, <2>3, <2>4 DEF KeyInv, SealedLockForgets, Sealing, NoKeys
  <2>11. SnapshotCovers'
    BY <2>1, <2>2, <2>3, <2>4 DEF KeyInv, SnapshotCovers, Working
  <2> QED
    BY <2>5, <2>6, <2>7, <2>8, <2>9, <2>10, <2>11 DEF KeyInv
<1>3. CASE ClearList(o)
  <2>1. Turn(o, "clearing") /\ op[o].pc = "listing"
    BY <1>3 DEF ClearList, Go, Turn, Working, Pc, Unanswered, Runs, wakeVars
  <2>2. /\ UNCHANGED <<veks, durable, marked, marker, poisoned, sealed>>
        /\ o \in early \/ veks = NoKeys
    BY <1>3, <2>1 DEF ClearList, keyVars, lockVars, KeyInv, Clearing
  <2>3. ~clearing'.failed => \A v \in Vault : durable[v] # 0 => v \in clearing'.keys
    <3>1. \/ clearing' = [clearing EXCEPT !.keys = @ \cup {v \in Vault : durable[v] # 0}]
          \/ clearing' = [clearing EXCEPT !.failed = TRUE]
      BY <1>3 DEF ClearList
    <3> QED
      BY <3>1 DEF Types, DataTypes
  <2>4. /\ \A k \in Op : k # o => op'[k].pc = op[k].pc /\ op[k].pc \notin Working
        /\ op'[o].pc = "clearing" /\ UNCHANGED <<hydration, snapshot, early>>
    BY <2>1, TurnFacts
  <2>5. Sealing'
    BY <2>1, <2>2, <2>3, <2>4 DEF KeyInv, Sealing, Working
  <2>6. Storing'
    BY <2>1, <2>2, <2>3, <2>4 DEF KeyInv, Storing, Sealing, Working
  <2>7. Clearing'
    BY <2>1, <2>2, <2>3, <2>4 DEF KeyInv, Clearing, Working, NoKeys
  <2>8. MarkerCovers'
    BY <2>1, <2>2, <2>3, <2>4 DEF KeyInv, MarkerCovers, NoOld, Sealing, Working, NoKeys
  <2>9. LockForgets'
    BY <2>1, <2>2, <2>3, <2>4 DEF KeyInv, LockForgets, Working, NoKeys
  <2>10. SealedLockForgets'
    BY <2>1, <2>2, <2>3, <2>4 DEF KeyInv, SealedLockForgets, Sealing, NoKeys
  <2>11. SnapshotCovers'
    BY <2>1, <2>2, <2>3, <2>4 DEF KeyInv, SnapshotCovers, Working
  <2> QED
    BY <2>5, <2>6, <2>7, <2>8, <2>9, <2>10, <2>11 DEF KeyInv
<1> QED
  BY <1>1, <1>2, <1>3

LEMMA ClearRemoveKeepsKeys ==
    ASSUME Types, QueueInv, KeyInv, NEW o \in Op, ClearRemove(o)
    PROVE  KeyInv'
<1>1. op[o].pc = "clearing" /\ (o \in early \/ veks = NoKeys)
  BY DEF ClearRemove, Runs, KeyInv, Clearing
<1>2. PICK ok \in BOOLEAN, done \in BOOLEAN :
         /\ ok => done
         /\ durable' = IF done
                       THEN [v \in Vault |-> IF v \in clearing.keys THEN 0 ELSE durable[v]]
                       ELSE durable
         /\ ClearEnd(o, ok)
  BY DEF ClearRemove, Call
<1>3. UNCHANGED <<marked, marker, sealed>>
  BY DEF ClearRemove
<1>4. PICK p \in {"locked", "failed"} :
         /\ Turn(o, p)
         /\ p = "locked" => ok /\ ~clearing.failed
         /\ p = "failed" => poisoned'
  <2>1. UNCHANGED wakeVars /\ epoch' = epoch
    BY DEF ClearRemove
  <2>2. queue # <<>> /\ Head(queue) = o
    BY DEF ClearRemove, Runs
  <2>3. CASE ok /\ ~clearing.failed
    BY <1>1, <1>2, <2>1, <2>2, <2>3 DEF ClearEnd, Done, Turn, Working, Pc, Unanswered
  <2>4. CASE ~(ok /\ ~clearing.failed)
    BY <1>1, <1>2, <2>1, <2>2, <2>4 DEF ClearEnd, FailClosed, Done, Turn, Working, Pc, Unanswered
  <2> QED
    BY <2>3, <2>4
<1>5. \A v \in Vault : durable'[v] = 0 \/ (p # "locked" /\ durable'[v] = durable[v])
  <2>1. p = "locked" => \A v \in Vault : durable[v] # 0 => v \in clearing.keys
    BY <1>1, <1>4 DEF KeyInv, Clearing
  <2> QED
    BY <1>2, <1>4, <2>1 DEF Types, DataTypes
<1>6. (veks' = veks \/ veks' = NoKeys) /\ (o \in early \/ veks' = NoKeys)
  BY <1>1, <1>2 DEF ClearEnd, FailClosed
<1>7. /\ \A k \in Op : k # o => op'[k].pc = op[k].pc /\ op[k].pc \notin Working
      /\ op'[o].pc = p /\ UNCHANGED <<hydration, snapshot, early>>
      /\ hydration = "ready" \/ o \in early
  BY <1>4, TurnFacts
<1>8. Sealing'
  BY <1>1, <1>3, <1>4, <1>5, <1>6, <1>7 DEF KeyInv, Sealing, Working
<1>9. Storing'
  BY <1>1, <1>3, <1>4, <1>5, <1>6, <1>7 DEF KeyInv, Storing, Sealing, Working
<1>10. Clearing'
  BY <1>1, <1>3, <1>4, <1>5, <1>6, <1>7 DEF KeyInv, Clearing, Working, NoKeys
<1>11. MarkerCovers'
  BY <1>1, <1>3, <1>4, <1>5, <1>6, <1>7 DEF KeyInv, MarkerCovers, NoOld, Sealing, Working, NoKeys
<1>12. LockForgets'
  BY <1>1, <1>3, <1>4, <1>5, <1>6, <1>7 DEF KeyInv, LockForgets, Working, NoKeys
<1>13. SealedLockForgets'
  BY <1>1, <1>3, <1>4, <1>5, <1>6, <1>7 DEF KeyInv, SealedLockForgets, Sealing, NoKeys
<1>14. SnapshotCovers'
  BY <1>1, <1>3, <1>4, <1>5, <1>6, <1>7 DEF KeyInv, SnapshotCovers, Working
<1> QED
  BY <1>8, <1>9, <1>10, <1>11, <1>12, <1>13, <1>14 DEF KeyInv

LEMMA WorkerKeepsKeys ==
    ASSUME Types, QueueInv, KeyInv, WorkerStep
    PROVE  KeyInv'
<1>1. CASE \/ \E v \in Vault \cup {None} : SetActiveVault(v)
           \/ OnActiveChanged
  <2>1. /\ UNCHANGED <<veks, durable, marked, marker, poisoned, clearing, sealed, hydration,
                        snapshot>>
        /\ op' = op /\ early' = early
    BY <1>1 DEF SetActiveVault, OnActiveChanged, keyVars, lockVars, opVars, counters, wakeVars
  <2> QED
    BY <2>1, QuietKeepsKeys
<1>2. CASE WorkerDies
  <2>1. /\ veks' = NoKeys /\ ~marked' /\ hydration' = "reading"
        /\ UNCHANGED <<durable, marker, sealed>>
    BY <1>2 DEF WorkerDies
  <2>2. ASSUME NEW k \in Op
        PROVE  op'[k].pc = IF op[k].pc \in Unanswered THEN "lost" ELSE op[k].pc
    <3>1. op[k] \in [kind : Kind, vault : Vault \cup {None}, epoch : Nat, pc : Pc]
      BY DEF Types
    <3>2. op'[k] = IF op[k].pc \in Unanswered THEN [op[k] EXCEPT !.pc = "lost"] ELSE op[k]
      BY <1>2 DEF WorkerDies
    <3> QED
      BY <3>1, <3>2
  <2>3. \A k \in Op : /\ op'[k].pc \notin Unanswered
                      /\ op'[k].pc # op[k].pc => op'[k].pc = "lost"
    BY <2>2 DEF Unanswered
  <2>4. \A k \in Op : op'[k].pc \notin {"storing", "unmarking", "marking", "listing", "clearing"}
    BY <2>3 DEF Unanswered
  <2>5. Sealing'
    BY <2>1, <2>3, <2>4 DEF KeyInv, Sealing, Working
  <2>6. Storing'
    BY <2>1, <2>3, <2>4 DEF KeyInv, Storing, Sealing, Working
  <2>7. Clearing'
    BY <2>1, <2>3, <2>4 DEF KeyInv, Clearing, Working, NoKeys
  <2>8. MarkerCovers'
    BY <2>1, <2>3, <2>4 DEF KeyInv, MarkerCovers, NoOld, Sealing, Working, NoKeys
  <2>9. LockForgets'
    BY <2>1, <2>3, <2>4 DEF KeyInv, LockForgets, Working, NoKeys
  <2>10. SealedLockForgets'
    BY <2>1, <2>3, <2>4 DEF KeyInv, SealedLockForgets, Sealing, NoKeys
  <2>11. SnapshotCovers'
    BY <2>1 DEF SnapshotCovers
  <2> QED
    BY <2>5, <2>6, <2>7, <2>8, <2>9, <2>10, <2>11 DEF KeyInv
<1>3. CASE HydrateRead
  <2>1. /\ UNCHANGED <<veks, durable, marked, marker, poisoned, op, clearing, sealed, early>>
        /\ hydration = "reading"
        /\ \/ hydration' = "ready"
           \/ /\ hydration' = "read"
              /\ snapshot' = [keys |-> durable, marker |-> marker, active |-> stored]
    BY <1>3 DEF HydrateRead, keyVars, lockVars, opVars
  <2>2. Sealing' /\ Storing' /\ Clearing'
    BY <2>1 DEF KeyInv, Sealing, Storing, Clearing
  <2>3. MarkerCovers'
    BY <2>1 DEF KeyInv, MarkerCovers, NoOld
  <2>4. SnapshotCovers'
    <3>1. CASE hydration' = "ready"
      BY <3>1 DEF SnapshotCovers
    <3>2. CASE snapshot'.keys = durable /\ snapshot'.marker = marker
      BY <2>1, <3>2 DEF KeyInv, MarkerCovers, NoOld, LockForgets, SnapshotCovers
    <3> QED
      BY <2>1, <3>1, <3>2
  <2>5. LockForgets' /\ SealedLockForgets'
    BY <2>1 DEF KeyInv, LockForgets, SealedLockForgets
  <2> QED
    BY <2>2, <2>3, <2>4, <2>5 DEF KeyInv
<1>4. CASE Hydrate
  <2>1. /\ hydration = "read"
        /\ UNCHANGED <<durable, marker, poisoned, op, clearing, sealed, early>>
        /\ marked' = snapshot.marker
    BY <1>4 DEF Hydrate, opVars, counters
  <2>2. \A k \in Op : op[k].pc \notin {"storing", "unmarking"}
    BY <2>1 DEF QueueInv, Unanswered, ClearPc
  <2>3. \A k \in Op : op[k].pc \in {"marking", "listing", "clearing"} => k \in early
    BY <2>1 DEF QueueInv, Unanswered
  <2>4. \/ /\ snapshot.marker /\ hydration' = "cleaning" /\ UNCHANGED <<veks, snapshot>>
        \/ /\ ~snapshot.marker /\ hydration' = "ready"
           /\ \A v \in Vault : veks'[v] = veks[v] \/ veks'[v] = snapshot.keys[v]
    BY <1>4 DEF Hydrate, Types, DataTypes
  <2>5. Sealing' /\ Storing'
    BY <2>1, <2>2 DEF KeyInv, Sealing, Storing
  <2>6. Clearing'
    BY <2>1, <2>3 DEF KeyInv, Clearing
  <2>7. MarkerCovers'
    BY <2>1, <2>4 DEF KeyInv, MarkerCovers, NoOld
  <2>8. SnapshotCovers'
    BY <2>1, <2>4 DEF KeyInv, SnapshotCovers
  <2>9. LockForgets'
    BY <2>1, <2>4 DEF KeyInv, LockForgets, SnapshotCovers
  <2>10. SealedLockForgets'
    BY <2>1, <2>4 DEF KeyInv, Sealing, SealedLockForgets, SnapshotCovers
  <2> QED
    BY <2>5, <2>6, <2>7, <2>8, <2>9, <2>10 DEF KeyInv
<1>5. CASE HydrateClean
  <2>1. /\ hydration = "cleaning" /\ hydration' = "ready"
        /\ UNCHANGED <<marked, marker, op, clearing, sealed, early>>
    BY <1>5 DEF HydrateClean, opVars
  <2>2. \A k \in Op : op[k].pc \notin {"storing", "unmarking"}
    BY <2>1 DEF QueueInv, Unanswered, ClearPc
  <2>3. PICK ok \in BOOLEAN, done \in BOOLEAN :
           /\ ok => done
           /\ durable' = IF done
                         THEN [v \in Vault |-> IF snapshot.keys[v] # 0 THEN 0 ELSE durable[v]]
                         ELSE durable
           /\ IF ok THEN UNCHANGED <<poisoned, veks, activeId>> ELSE FailClosed
    BY <1>5 DEF HydrateClean, Call
  <2>4. \A v \in Vault : durable'[v] = durable[v] \/ durable'[v] = 0
    BY <2>3 DEF Types, DataTypes
  <2>5. poisoned' \/ \A v \in Vault : durable'[v] = 0
    BY <2>1, <2>3 DEF FailClosed, KeyInv, SnapshotCovers
  <2>6. veks' = veks \/ veks' = NoKeys
    BY <2>3 DEF FailClosed
  <2>7. Sealing' /\ Storing'
    BY <2>1, <2>2 DEF KeyInv, Sealing, Storing
  <2>8. Clearing'
    BY <2>1, <2>4, <2>6 DEF KeyInv, Clearing
  <2>9. MarkerCovers'
    BY <2>1, <2>4, <2>5 DEF KeyInv, MarkerCovers, NoOld
  <2>10. SnapshotCovers'
    BY <2>1 DEF SnapshotCovers
  <2>11. LockForgets'
    BY <2>1, <2>4, <2>6 DEF KeyInv, LockForgets, NoKeys
  <2>12. SealedLockForgets'
    BY <2>1, <2>6 DEF KeyInv, Sealing, SealedLockForgets, NoKeys
  <2> QED
    BY <2>7, <2>8, <2>9, <2>10, <2>11, <2>12 DEF KeyInv
<1> QED
  BY <1>1, <1>2, <1>3, <1>4, <1>5 DEF WorkerStep

LEMMA KeysAreKept ==
    ASSUME Types, InOrder, QueueInv, KeyInv, [Next]_vars
    PROVE  KeyInv'
<1>1. CASE UNCHANGED vars
  BY <1>1, QuietKeepsKeys DEF vars, keyVars, lockVars, opVars, counters, wakeVars
<1>2. ASSUME NEW o \in Op, BeginStep(o) PROVE KeyInv'
  <2>1. /\ UNCHANGED <<veks, durable, marked, marker, poisoned, clearing, sealed, hydration,
                        snapshot>>
        /\ early \subseteq early'
    BY <1>2 DEF BeginStep, BeginInstall, BeginLock, ClearSession, ScreenLock,
                keyVars, lockVars, counters, wakeVars, EarlyWith
  <2> QED
    BY <1>2, <2>1, BeginKeepsOrder, QuietKeepsKeys
<1>3. ASSUME NEW o \in Op, CryptoReply(o) \/ LockVault(o) \/ Answer(o) PROVE KeyInv'
  <2>1. /\ UNCHANGED <<veks, durable, marked, marker, poisoned, clearing, sealed, hydration,
                        snapshot>>
        /\ early \subseteq early'
    BY <1>3 DEF CryptoReply, LockVault, Answer, keyVars, lockVars, counters, wakeVars
  <2>2. op[o].pc \in {"crypto", "zeroize", "installed"}
    BY <1>3 DEF CryptoReply, LockVault, Answer
  <2> QED
    BY <1>3, <2>1, <2>2, ReplyKeepsOrder, QuietKeepsKeys
<1>4. ASSUME NEW o \in Op, Commit(o) PROVE KeyInv'
  BY <1>4, InstallCommitKeepsKeys, InstallStoreKeepsKeys, InstallUnmarkKeepsKeys,
     RemoveKeepsKeys, ClearKeepsKeys, ClearRemoveKeepsKeys DEF Commit
<1> QED
  BY <1>1, <1>2, <1>3, <1>4, WorkerKeepsKeys DEF Next, Step, BeginStep, WorkerStep

LEMMA InvariantHolds == Spec => [](Types /\ InOrder /\ QueueInv /\ KeyInv)
<1>1. Init => Types /\ InOrder /\ QueueInv /\ KeyInv
  <2> SUFFICES ASSUME Init PROVE Types /\ InOrder /\ QueueInv /\ KeyInv
    OBVIOUS
  <2>1. Types
    BY DEF Init, Types, DataTypes, SnapshotTypes, NoKeys, NoClearing, NoSnapshot, Kind, Pc
  <2>2. \A o \in Op : op[o].pc = "unused" /\ op[o].kind = "none"
    BY DEF Init
  <2>3. InOrder
    BY <2>2 DEF InOrder
  <2>4. queue \in Seq(Op) /\ Len(queue) = 0 /\ hydration = "ready"
    BY DEF Init
  <2>5. QueueInv
    BY <2>2, <2>4 DEF QueueInv, Working
  <2>6. KeyInv
    BY <2>2 DEF Init, KeyInv, Sealing, Storing, Clearing, MarkerCovers, NoOld,
                SnapshotCovers, LockForgets, SealedLockForgets
  <2> QED
    BY <2>1, <2>3, <2>5, <2>6
<1>2. (Types /\ InOrder /\ QueueInv /\ KeyInv) /\ [Next]_vars
         => (Types /\ InOrder /\ QueueInv /\ KeyInv)'
  BY OrderIsKept, TypesAreKept, KeysAreKept
<1> QED
  BY <1>1, <1>2, PTL DEF Spec

(* A lock that reported success has forgotten every older key for good: no
   late reply of the crypto host, failed write or new worker brings one back,
   and only the hydration of a worker that was not ready when the lock began
   puts one into memory, for as long as that worker lives. *)
THEOREM LocksForget == Spec => []LockForgets
<1>1. Spec => [](Types /\ InOrder /\ QueueInv /\ KeyInv)
  BY InvariantHolds
<1>2. KeyInv => LockForgets
  BY DEF KeyInv
<1> QED
  BY <1>1, <1>2, PTL

(* A lock that got as far as its marker keeps older keys out of memory, even
   if it failed and whatever became of storage; one that began before its
   worker was ready, once that worker is gone. *)
THEOREM SealedLocksForget == Spec => []SealedLockForgets
<1>1. Spec => [](Types /\ InOrder /\ QueueInv /\ KeyInv)
  BY InvariantHolds
<1>2. KeyInv => SealedLockForgets
  BY DEF KeyInv
<1> QED
  BY <1>1, <1>2, PTL

-----------------------------------------------------------------------------
(* Types. *)

Place == Vault \cup {None}
Key == Op \cup {0}
Operation == [kind : Kind, vault : Place, epoch : Nat, pc : Pc]
Receipt == Place \X Place \X Op

\* What installs a key names the vault it is for.
InstallsNameVaults == \A o \in Op : op[o].kind = "install" => op[o].vault \in Vault

KeyTypes ==
    /\ veks \in [Vault -> Key] /\ durable \in [Vault -> Key]
    /\ candidates \in SUBSET Vault
    /\ clearing \in [keys : SUBSET Vault, active : Place, failed : BOOLEAN]

ActiveTypes ==
    /\ activeId \in Place /\ stored \in Place
    /\ notes \in Seq(Place \X Place)
    /\ expected \in Seq(Receipt)

OpTypes ==
    /\ epoch \in Nat
    /\ op \in [Op -> Operation] /\ InstallsNameVaults
    /\ queue \in Seq(Op)

LockTypes ==
    /\ marked \in BOOLEAN /\ marker \in BOOLEAN /\ poisoned \in BOOLEAN
    /\ mishaps \in Nat /\ selects \in Nat
    /\ sealed \in SUBSET Op /\ told \in SUBSET Op

WakeTypes ==
    /\ hydration \in {"reading", "read", "cleaning", "ready"}
    /\ snapshot \in [keys : [Vault -> Key], marker : BOOLEAN, active : Place]
    /\ early \in SUBSET Op

TypeInv == KeyTypes /\ ActiveTypes /\ OpTypes /\ LockTypes /\ WakeTypes

LEMMA TypeInvIsTypeOK == TypeInv => TypeOK
  BY Zenon DEF TypeInv, KeyTypes, ActiveTypes, OpTypes, LockTypes, WakeTypes, TypeOK, Place, Key,
        Operation, Receipt, Kind, Pc

(* Splicing an element out of a sequence. *)
LEMMA WithoutProperties ==
    ASSUME NEW S, NEW s \in Seq(S), NEW i \in 1..Len(s)
    PROVE  /\ Without(s, i) \in Seq(S)
           /\ Len(Without(s, i)) = Len(s) - 1
           /\ \A k \in 1..Len(Without(s, i)) : \E j \in 1..Len(s) : Without(s, i)[k] = s[j]
<1> DEFINE a == SubSeq(s, 1, i - 1)
           b == SubSeq(s, i + 1, Len(s))
<1>1. Len(s) \in Nat /\ \A k \in 1..Len(s) : s[k] \in S
  BY LenProperties
<1>2. /\ a \in Seq(S) /\ Len(a) = i - 1
      /\ \A k \in 1..(i - 1) : a[k] = s[k]
  <2>1. 1 \in Int /\ i - 1 \in Int /\ \A k \in 1..(i - 1) : s[k] \in S
    BY <1>1
  <2> QED
    BY <2>1, <1>1, SubSeqProperties
<1>3. /\ b \in Seq(S) /\ Len(b) = Len(s) - i
      /\ \A k \in 1..(Len(s) - i) : b[k] = s[i + k]
  <2>1. i + 1 \in Int /\ Len(s) \in Int /\ \A k \in (i + 1)..Len(s) : s[k] \in S
    BY <1>1
  <2>2. /\ b \in Seq(S) /\ Len(b) = IF i + 1 <= Len(s) THEN Len(s) - (i + 1) + 1 ELSE 0
        /\ \A k \in 1..(Len(s) - (i + 1) + 1) : b[k] = s[i + 1 + k - 1]
    BY <2>1, SubSeqProperties
  <2> QED
    BY <2>2, <1>1
<1> DEFINE w == Without(s, i)
<1>4. w = a \o b
  BY DEF Without
<1> HIDE DEF a, b
<1>5. /\ a \o b \in Seq(S) /\ Len(a \o b) = Len(a) + Len(b)
      /\ \A k \in 1..(Len(a) + Len(b)) :
            (a \o b)[k] = IF k <= Len(a) THEN a[k] ELSE b[k - Len(a)]
  BY <1>2, <1>3, ConcatProperties
<1>6. ASSUME NEW k \in 1..(Len(a) + Len(b)) PROVE \E j \in 1..Len(s) : (a \o b)[k] = s[j]
  <2>1. CASE k <= Len(a)
    BY <1>1, <1>2, <1>3, <1>5, <1>6, <2>1
  <2>2. CASE k > Len(a)
    <3>1. k - Len(a) \in 1..(Len(s) - i) /\ k + 1 \in 1..Len(s) /\ i + (k - Len(a)) = k + 1
      BY <1>1, <1>2, <1>3, <2>2
    <3>2. (a \o b)[k] = b[k - Len(a)]
      BY <1>1, <1>2, <1>3, <1>5, <2>2
    <3> QED
      BY <1>3, <3>1, <3>2
  <2> QED
    BY <1>1, <1>2, <1>3, <2>1, <2>2
<1>7. Len(a) + Len(b) = Len(s) - 1
  BY <1>1, <1>2, <1>3
<1> HIDE DEF w
<1>8. /\ w \in Seq(S) /\ Len(w) = Len(s) - 1
      /\ \A k \in 1..Len(w) : \E j \in 1..Len(s) : w[k] = s[j]
  BY <1>4, <1>5, <1>6, <1>7
<1> QED
  BY <1>8 DEF w

(* The announced changes of the active vault: one more, or one less. *)
LEMMA AnnounceProperties ==
    ASSUME expected \in Seq(Receipt), NEW old \in Place, NEW o \in Op
    PROVE  /\ Announce(old, o) \in Seq(Receipt)
           /\ \A k \in 1..Len(Announce(old, o)) :
                 \/ Announce(old, o)[k][2] = None
                 \/ \E j \in 1..Len(expected) : Announce(old, o)[k] = expected[j]
<1> DEFINE r == <<old, None, o>>
           s == Append(expected, r)
<1>1. r \in Receipt /\ r[2] = None
  BY DEF Receipt, Place
<1>2. Len(expected) \in Nat
  BY LenProperties
<1> HIDE DEF r
<1>3. /\ s \in Seq(Receipt) /\ s # <<>> /\ Len(s) = Len(expected) + 1
      /\ \A i \in 1..Len(expected) : s[i] = expected[i]
      /\ s[Len(expected) + 1] = r
  BY <1>1, AppendProperties
<1>4. Announce(old, o) = IF Len(s) > MaxReceipts THEN Tail(s) ELSE s
  BY DEF Announce, r
<1> HIDE DEF s
<1>5. \A k \in 1..Len(s) : s[k][2] = None \/ \E j \in 1..Len(expected) : s[k] = expected[j]
  <2>1. \A k \in 1..Len(s) : k \in 1..Len(expected) \/ k = Len(expected) + 1
    BY <1>2, <1>3
  <2> QED
    BY <1>1, <1>3, <2>1
<1>6. /\ Tail(s) \in Seq(Receipt) /\ Len(Tail(s)) = Len(s) - 1
      /\ \A i \in 1..Len(Tail(s)) : Tail(s)[i] = s[i + 1]
  BY <1>3, HeadTailProperties
<1>7. \A k \in 1..Len(Tail(s)) : k + 1 \in 1..Len(s)
  BY <1>2, <1>3, <1>6
<1>8. CASE Len(s) > MaxReceipts
  BY <1>4, <1>5, <1>6, <1>7, <1>8
<1>9. CASE ~(Len(s) > MaxReceipts)
  BY <1>3, <1>4, <1>5, <1>9
<1> QED
  BY <1>8, <1>9

LEMMA WithdrawProperties ==
    ASSUME expected \in Seq(Receipt), NEW o
    PROVE  /\ Withdraw(o) \in Seq(Receipt)
           /\ \A k \in 1..Len(Withdraw(o)) :
                 \E j \in 1..Len(expected) : Withdraw(o)[k] = expected[j]
<1>1. DOMAIN expected = 1..Len(expected)
  BY LenProperties
<1>2. CASE \E i \in DOMAIN expected : IsOf(i, o)
  <2> DEFINE i == CHOOSE i \in DOMAIN expected : IsOf(i, o)
  <2>1. i \in 1..Len(expected)
    BY <1>1, <1>2
  <2>2. Withdraw(o) = Without(expected, i)
    BY <1>2 DEF Withdraw
  <2> HIDE DEF i
  <2> QED
    BY <2>1, <2>2, WithoutProperties
<1>3. CASE ~\E i \in DOMAIN expected : IsOf(i, o)
  BY <1>3 DEF Withdraw
<1> QED
  BY <1>2, <1>3

(* Numbers have a least one among them. *)
LEMMA LeastNumber ==
    ASSUME NEW T \in SUBSET Nat, T # {}
    PROVE  \E m \in T : \A n \in T : m <= n
<1> DEFINE R == {p \in Nat \X Nat : p[1] < p[2]}
<1>1. IsWellFoundedOn(R, Nat)
  BY NatLessThanWellFounded DEF OpToRel
<1> HIDE DEF R
<1>2. PICK m \in T : \A n \in T : ~(<<n, m>> \in R)
  BY <1>1, WFMin
<1>3. ASSUME NEW n \in T PROVE m <= n
  <2>1. n \in Nat /\ m \in Nat /\ <<n, m>> \in Nat \X Nat
    OBVIOUS
  <2>2. <<n, m>>[1] = n /\ <<n, m>>[2] = m
    OBVIOUS
  <2>3. ~(n < m)
    BY <1>2, <2>1, <2>2 DEF R
  <2> QED
    BY <2>1, <2>3
<1> QED
  BY <1>3

(* The notification's receipt is the oldest that matches. *)
LEMMA FirstMatchProperties ==
    ASSUME expected \in Seq(Receipt), NEW n, \E i \in DOMAIN expected : Matches(i, n)
    PROVE  FirstMatch(n) \in 1..Len(expected) /\ Matches(FirstMatch(n), n)
<1> DEFINE All == {i \in DOMAIN expected : Matches(i, n)}
<1>1. DOMAIN expected = 1..Len(expected) /\ Len(expected) \in Nat
  BY LenProperties
<1>2. All \in SUBSET Nat /\ All # {}
  BY <1>1
<1>3. PICK i \in All : \A j \in All : i <= j
  BY <1>2, LeastNumber
<1>4. /\ i \in DOMAIN expected /\ Matches(i, n)
      /\ \A j \in DOMAIN expected : j < i => ~Matches(j, n)
  BY <1>1, <1>3
<1> QED
  BY <1>1, <1>4 DEF FirstMatch

LEMMA TypeInvGivesTypes == TypeInv => Types
<1> SUFFICES ASSUME TypeInv PROVE Types
  OBVIOUS
<1>1. clearing = [keys |-> clearing.keys, active |-> clearing.active,
                  failed |-> clearing.failed]
  BY DEF TypeInv, KeyTypes
<1>2. Key \subseteq Nat
  BY OpAssumption DEF Key
<1>3. /\ veks \in [Vault -> Nat] /\ durable \in [Vault -> Nat]
      /\ stored \in Vault \cup {None}
  BY <1>2 DEF TypeInv, KeyTypes, ActiveTypes, Place
<1>4. op \in [Op -> [kind : Kind, vault : Vault \cup {None}, epoch : Nat, pc : Pc]]
  BY DEF TypeInv, OpTypes, Operation, Place
<1>5. SnapshotTypes
  BY <1>2 DEF TypeInv, WakeTypes, SnapshotTypes
<1> QED
  BY <1>1, <1>3, <1>4, <1>5 DEF TypeInv, OpTypes, LockTypes, Types, DataTypes

(* An operation moves on. *)
LEMMA MovingKeepsTypes ==
    ASSUME TypeInv, NEW o \in Op, NEW p \in Pc, op' = [op EXCEPT ![o].pc = p]
    PROVE  op' \in [Op -> Operation] /\ InstallsNameVaults'
<1>1. Types
  BY TypeInvGivesTypes
<1>2. MovesTo(o, p) /\ op' \in [Op -> Operation]
  BY <1>1, Moving DEF Operation, Place
<1> QED
  BY <1>2 DEF MovesTo, InstallsNameVaults, TypeInv, OpTypes

(* An operation begins. *)
LEMMA BeginningKeepsTypes ==
    ASSUME TypeInv, NEW o \in Op, NEW kind \in Kind, NEW v \in Place, NEW e \in Nat,
           NEW p \in Pc, Begin(o, kind, v, e, p), kind = "install" => v \in Vault
    PROVE  op' \in [Op -> Operation] /\ InstallsNameVaults'
<1>1. /\ op'[o] = [kind |-> kind, vault |-> v, epoch |-> e, pc |-> p]
      /\ \A k \in Op : k # o => op'[k] = op[k]
      /\ op' \in [Op -> Operation]
  BY DEF Begin, TypeInv, OpTypes, Operation
<1>2. op'[o].kind = kind /\ op'[o].vault = v
  BY <1>1
<1> QED
  BY <1>1, <1>2 DEF InstallsNameVaults, TypeInv, OpTypes

(* What hydration knows changes by the steps of the worker and by early locks. *)
LEMMA WakeTypesAreKept ==
    ASSUME TypeInv, [Next]_vars
    PROVE  WakeTypes'
<1>1. CASE UNCHANGED vars
  BY <1>1 DEF vars, wakeVars, TypeInv, WakeTypes
<1>2. ASSUME NEW o \in Op, BeginStep(o) PROVE WakeTypes'
  <2>1. UNCHANGED <<hydration, snapshot>> /\ early' \in {early, early \cup {o}}
    BY <1>2 DEF BeginStep, BeginInstall, BeginLock, ClearSession, ScreenLock, wakeVars, EarlyWith
  <2> QED
    BY <2>1 DEF TypeInv, WakeTypes
<1>3. ASSUME NEW o \in Op, Step(o) PROVE WakeTypes'
  <2>1. UNCHANGED wakeVars
    BY <1>3, CommitIsTurn DEF Step, CryptoReply, LockVault, Answer, Turn
  <2> QED
    BY <2>1 DEF wakeVars, TypeInv, WakeTypes
<1>4. CASE WorkerStep
  <2>1. NoSnapshot \in [keys : [Vault -> Key], marker : BOOLEAN, active : Place]
    BY DEF NoSnapshot, NoKeys, Key, Place
  <2>2. [keys |-> durable, marker |-> marker, active |-> stored]
           \in [keys : [Vault -> Key], marker : BOOLEAN, active : Place]
    BY DEF TypeInv, KeyTypes, LockTypes, ActiveTypes
  <2>3. \/ snapshot' = snapshot
        \/ snapshot' = NoSnapshot
        \/ snapshot' = [keys |-> durable, marker |-> marker, active |-> stored]
    BY <1>4 DEF WorkerStep, SetActiveVault, OnActiveChanged, WorkerDies, HydrateRead, Hydrate,
       HydrateClean, wakeVars
  <2>4. hydration' \in {"reading", "read", "cleaning", "ready"} /\ early' \in {early, {}}
    BY <1>4 DEF WorkerStep, SetActiveVault, OnActiveChanged, WorkerDies, HydrateRead, Hydrate,
       HydrateClean, wakeVars, TypeInv, WakeTypes
  <2>5. snapshot' \in [keys : [Vault -> Key], marker : BOOLEAN, active : Place]
    BY <2>1, <2>2, <2>3 DEF TypeInv, WakeTypes
  <2> QED
    BY <2>4, <2>5 DEF TypeInv, WakeTypes
<1> QED
  BY <1>1, <1>2, <1>3, <1>4 DEF Next, BeginStep, WorkerStep

LEMMA BeginStepKeepsTypes ==
    ASSUME TypeInv, NEW o \in Op, BeginStep(o)
    PROVE  TypeInv'
<1>1. epoch \in Nat /\ EpochAfter(stored) \in Nat /\ queue \in Seq(Op) /\ stored \in Place
  BY DEF TypeInv, OpTypes, ActiveTypes, EpochAfter
<1>2. /\ {"crypto", "zeroize", "queued", "skipped"} \subseteq Pc
      /\ {"install", "lock", "clear", "screen"} \subseteq Kind
      /\ None \in Place
  BY DEF Pc, Kind, Place, Unanswered
<1>3. Append(queue, o) \in Seq(Op)
  BY <1>1, AppendProperties
<1>4. OpTypes'
  <2>1. CASE BeginInstall(o)
    <3>1. EpochAfter(stored) + 1 \in Nat /\ stored \in Vault
      BY <1>1, <2>1 DEF BeginInstall, Place
    <3>2. Begin(o, "install", stored, EpochAfter(stored) + 1, "crypto")
      BY <2>1 DEF BeginInstall
    <3>3. op' \in [Op -> Operation] /\ InstallsNameVaults'
      BY <1>1, <1>2, <3>1, <3>2, BeginningKeepsTypes
    <3> QED
      BY <1>1, <2>1, <3>1, <3>3 DEF BeginInstall, OpTypes
  <2>2. CASE BeginLock(o)
    <3>1. Begin(o, "lock", stored, 0, "zeroize")
      BY <2>2 DEF BeginLock
    <3>2. op' \in [Op -> Operation] /\ InstallsNameVaults'
      BY <1>1, <1>2, <3>1, BeginningKeepsTypes
    <3> QED
      BY <1>1, <2>2, <3>2 DEF BeginLock, OpTypes
  <2>3. CASE ClearSession(o)
    <3>1. Begin(o, "clear", None, 0, "queued")
      BY <2>3 DEF ClearSession
    <3>2. op' \in [Op -> Operation] /\ InstallsNameVaults'
      BY <1>1, <1>2, <3>1, BeginningKeepsTypes
    <3> QED
      BY <1>1, <1>3, <2>3, <3>2 DEF ClearSession, OpTypes
  <2>4. CASE ScreenLock(o)
    <3>1. /\ \/ Begin(o, "screen", None, 0, "skipped")
             \/ Begin(o, "clear", None, 0, "queued")
          /\ epoch' = epoch \/ epoch' = epoch + 1
          /\ queue' = queue \/ queue' = Append(queue, o)
      BY <2>4 DEF ScreenLock
    <3>2. op' \in [Op -> Operation] /\ InstallsNameVaults'
      BY <1>1, <1>2, <3>1, BeginningKeepsTypes
    <3>3. epoch' \in Nat
      BY <1>1, <3>1
    <3>4. queue' \in Seq(Op)
      BY <1>1, <1>3, <3>1
    <3> QED
      BY <3>2, <3>3, <3>4 DEF OpTypes
  <2> QED
    BY <2>1, <2>2, <2>3, <2>4 DEF BeginStep
<1>5. UNCHANGED <<keyVars, clearing, lockVars, stored, notes, expected, counters>>
  BY DEF BeginStep, BeginInstall, BeginLock, ClearSession, ScreenLock, activeVars
<1>6. activeId' \in Place /\ told' \in SUBSET Op
  BY DEF BeginStep, BeginInstall, BeginLock, ClearSession, ScreenLock, activeVars,
         TypeInv, ActiveTypes, LockTypes
<1>7. WakeTypes'
  BY WakeTypesAreKept DEF BeginStep, Next
<1> QED
  BY <1>4, <1>5, <1>6, <1>7 DEF TypeInv, KeyTypes, ActiveTypes, LockTypes, keyVars, lockVars, counters

LEMMA WriteActiveTypes ==
    ASSUME ActiveTypes, NEW v \in Place, WriteActive(v)
    PROVE  stored' \in Place /\ notes' \in Seq(Place \X Place)
<1>1. <<stored, v>> \in Place \X Place
  BY DEF ActiveTypes
<1>2. Append(notes, <<stored, v>>) \in Seq(Place \X Place)
  BY <1>1, AppendProperties DEF ActiveTypes
<1> QED
  BY <1>2 DEF WriteActive, ActiveTypes

LEMMA ReplyKeepsTypes ==
    ASSUME TypeInv, NEW o \in Op, CryptoReply(o) \/ LockVault(o) \/ Answer(o)
    PROVE  TypeInv'
<1>1. epoch \in Nat /\ EpochAfter(stored) \in Nat /\ queue \in Seq(Op) /\ stored \in Place
      /\ op[o] \in Operation
  BY DEF TypeInv, OpTypes, ActiveTypes, EpochAfter
<1>2. {"queued", "denied", "unlocked", "stale"} \subseteq Pc
  BY DEF Pc, Unanswered
<1>3. Append(queue, o) \in Seq(Op)
  BY <1>1, AppendProperties
<1>4. UNCHANGED <<keyVars, clearing, lockVars, expected, counters>>
  BY DEF CryptoReply, LockVault, Answer, activeVars
<1>5. OpTypes'
  <2>1. CASE CryptoReply(o) \/ Answer(o)
    <3>1. PICK p \in {"queued", "denied", "unlocked", "stale"} :
             /\ op' = [op EXCEPT ![o].pc = p]
             /\ queue' = IF p = "queued" THEN Append(queue, o) ELSE queue
      BY <2>1 DEF CryptoReply, Answer
    <3>2. op' \in [Op -> Operation] /\ InstallsNameVaults'
      BY <1>2, <3>1, MovingKeepsTypes
    <3>3. epoch' \in Nat
      BY <1>1, <2>1 DEF CryptoReply, Answer
    <3> QED
      BY <1>1, <1>3, <3>1, <3>2, <3>3 DEF OpTypes
  <2>2. CASE LockVault(o)
    <3>1. PICK kind \in {"clear", "remove"} :
             op' = [op EXCEPT ![o].pc = "queued", ![o].kind = kind]
      BY <2>2 DEF LockVault
    <3>2. op' = [op EXCEPT ![o] = [op[o] EXCEPT !.pc = "queued", !.kind = kind]]
      BY <3>1 DEF TypeInv, OpTypes
    <3>3. kind \in Kind /\ kind # "install"
      BY DEF Kind
    <3>4. op'[o] \in Operation /\ op'[o].kind = kind
      BY <1>1, <1>2, <3>2, <3>3 DEF TypeInv, OpTypes, Operation
    <3>5. \A k \in Op : k # o => op'[k] = op[k]
      BY <3>2 DEF TypeInv, OpTypes
    <3>6. op' \in [Op -> Operation] /\ InstallsNameVaults'
      BY <3>2, <3>3, <3>4, <3>5 DEF TypeInv, OpTypes, InstallsNameVaults
    <3> QED
      BY <1>1, <1>3, <2>2, <3>6 DEF LockVault, OpTypes
  <2> QED
    BY <2>1, <2>2
<1>6. ActiveTypes'
  <2>1. activeId' \in Place
    BY <1>1 DEF CryptoReply, LockVault, Answer, activeVars, TypeInv, ActiveTypes
  <2>2. stored' \in Place /\ notes' \in Seq(Place \X Place)
    <3>1. CASE UNCHANGED <<stored, notes>>
      BY <3>1 DEF TypeInv, ActiveTypes
    <3>2. CASE WriteActive(op[o].vault)
      BY <1>1, <3>2, WriteActiveTypes DEF TypeInv, Operation
    <3> QED
      BY <3>1, <3>2 DEF CryptoReply, LockVault, Answer, activeVars
  <2> QED
    BY <1>4, <2>1, <2>2 DEF TypeInv, ActiveTypes
<1>7. told' \in SUBSET Op
  BY DEF CryptoReply, LockVault, Answer, TypeInv, LockTypes
<1>8. WakeTypes'
  BY WakeTypesAreKept DEF Step, Next
<1> QED
  BY <1>4, <1>5, <1>6, <1>7, <1>8 DEF TypeInv, KeyTypes, LockTypes, keyVars, lockVars, counters

LEMMA CommitKeepsTypes ==
    ASSUME TypeInv, NEW o \in Op, Commit(o)
    PROVE  TypeInv'
<1>1. PICK p : Turn(o, p)
  BY CommitIsTurn
<1>2. OpTypes'
  <2>1. p \in Pc /\ epoch' = epoch /\ op' = [op EXCEPT ![o].pc = p]
    BY <1>1 DEF Turn
  <2>2. op' \in [Op -> Operation] /\ InstallsNameVaults'
    BY <2>1, MovingKeepsTypes
  <2>3. queue' \in Seq(Op)
    BY <1>1, HeadTailProperties DEF Turn, TypeInv, OpTypes
  <2> QED
    BY <2>1, <2>2, <2>3 DEF TypeInv, OpTypes
<1>3. NoKeys \in [Vault -> Key] /\ None \in Place /\ op[o] \in Operation /\ o \in Key
  BY DEF NoKeys, Key, Place, TypeInv, OpTypes
<1>4. WakeTypes' /\ selects' = selects /\ told' = told
  <2>1. WakeTypes'
    BY WakeTypesAreKept DEF Step, Next
  <2>2. selects' = selects /\ told' = told
    BY DEF Commit, InstallCommit, InstallStore, InstallUnmark, RemoveCommit, RemoveStored,
           LeaveLockMarker, ClearCommit, ClearMark, ClearList, ClearRemove, counters
  <2> QED
    BY <2>1, <2>2
<1>5. ASSUME NEW ok, NEW done, Call(ok, done) PROVE mishaps' \in Nat
  BY <1>5 DEF Call, TypeInv, LockTypes
<1> USE DEF TypeInv, KeyTypes, ActiveTypes, LockTypes, keyVars, lockVars, counters, activeVars
<1>6. CASE InstallCommit(o)
  <2>1. op[o].vault \in Vault
    BY <1>6 DEF InstallCommit, OpTypes, InstallsNameVaults
  <2> QED
    BY <1>2, <1>3, <1>4, <1>6, <2>1 DEF InstallCommit, Key
<1>7. CASE InstallStore(o)
  <2>1. veks' = veks \/ veks' = [veks EXCEPT ![op[o].vault] = 0]
    BY <1>7 DEF InstallStore, Settle
  <2>2. mishaps' \in Nat /\ (durable' = durable \/ durable' = [durable EXCEPT ![op[o].vault] = o])
    BY <1>5, <1>7 DEF InstallStore
  <2>3. veks' \in [Vault -> Key]
    BY <2>1 DEF Key
  <2>4. durable' \in [Vault -> Key]
    BY <1>3, <2>2
  <2> QED
    BY <1>2, <1>4, <1>7, <2>2, <2>3, <2>4 DEF InstallStore
<1>8. CASE InstallUnmark(o)
  <2>1. veks' = veks \/ veks' = [veks EXCEPT ![op[o].vault] = 0]
    BY <1>8 DEF InstallUnmark, Settle
  <2>2. mishaps' \in Nat /\ marker' \in BOOLEAN /\ marked' \in BOOLEAN
    BY <1>5, <1>8 DEF InstallUnmark
  <2> QED
    BY <1>2, <1>3, <1>4, <1>8, <2>1, <2>2 DEF InstallUnmark, Key
<1>9. CASE RemoveCommit(o)
  BY <1>2, <1>3, <1>4, <1>9 DEF RemoveCommit, Key
<1>10. CASE RemoveStored(o)
  <2>1. durable' = durable \/ durable' = [durable EXCEPT ![op[o].vault] = 0]
    BY <1>10 DEF RemoveStored
  <2>2. mishaps' \in Nat /\ marked' \in BOOLEAN
    BY <1>5, <1>10 DEF RemoveStored
  <2>3. candidates' = candidates \/ candidates' = candidates \ {op[o].vault}
    BY <1>10 DEF RemoveStored
  <2> QED
    BY <1>2, <1>3, <1>4, <1>10, <2>1, <2>2, <2>3 DEF RemoveStored, Key
<1>11. CASE LeaveLockMarker(o)
  <2>1. mishaps' \in Nat /\ marker' \in BOOLEAN
    BY <1>5, <1>11 DEF LeaveLockMarker
  <2> QED
    BY <1>2, <1>3, <1>4, <1>11, <2>1 DEF LeaveLockMarker, FailClosed
<1>12. CASE ClearCommit(o)
  <2>1. clearing' \in [keys : SUBSET Vault, active : Place, failed : BOOLEAN]
    BY <1>12 DEF ClearCommit
  <2> QED
    BY <1>2, <1>3, <1>4, <1>12, <2>1 DEF ClearCommit
<1>13. CASE ClearMark(o)
  <2>1. PICK ok \in BOOLEAN, done \in BOOLEAN :
           /\ Call(ok, done)
           /\ marker' = (marker \/ done)
           /\ sealed' = IF done THEN sealed \cup {o} ELSE sealed
           /\ clearing' = [clearing EXCEPT !.failed = ~ok]
    BY <1>13 DEF ClearMark
  <2>2. mishaps' \in Nat
    BY <1>5, <2>1
  <2>3. clearing' \in [keys : SUBSET Vault, active : Place, failed : BOOLEAN]
    BY <2>1
  <2> QED
    BY <1>2, <1>3, <1>4, <1>13, <2>1, <2>2, <2>3 DEF ClearMark
<1>14. CASE ClearList(o)
  <2>1. PICK ok \in BOOLEAN :
           /\ Call(ok, ok)
           /\ clearing' = IF ok
                          THEN [clearing EXCEPT !.keys = @ \cup {v \in Vault : durable[v] # 0}]
                          ELSE [clearing EXCEPT !.failed = TRUE]
           /\ expected' = IF ok /\ stored = None THEN expected
                          ELSE Announce(IF ok THEN stored ELSE clearing.active, o)
    BY <1>14 DEF ClearList
  <2>2. mishaps' \in Nat
    BY <1>5, <2>1
  <2>3. clearing' \in [keys : SUBSET Vault, active : Place, failed : BOOLEAN]
    BY <2>1
  <2>4. (IF ok THEN stored ELSE clearing.active) \in Place
    OBVIOUS
  <2>5. expected' \in Seq(Receipt)
    BY <2>1, <2>4, AnnounceProperties
  <2> QED
    BY <1>2, <1>3, <1>4, <1>14, <2>2, <2>3, <2>5 DEF ClearList
<1>15. CASE ClearRemove(o)
  <2>1. PICK ok \in BOOLEAN, done \in BOOLEAN :
           /\ Call(ok, done)
           /\ durable' = IF done
                         THEN [v \in Vault |-> IF v \in clearing.keys THEN 0 ELSE durable[v]]
                         ELSE durable
           /\ IF done THEN WriteActive(None) ELSE UNCHANGED <<stored, notes>>
           /\ candidates' = IF ok THEN candidates \ clearing.keys ELSE candidates
           /\ expected' = IF ok THEN expected ELSE Withdraw(o)
           /\ ClearEnd(o, ok)
    BY <1>15 DEF ClearRemove
  <2>2. mishaps' \in Nat
    BY <1>5, <2>1
  <2>3. durable' \in [Vault -> Key]
    BY <2>1 DEF Key
  <2>4. stored' \in Place /\ notes' \in Seq(Place \X Place)
    BY <1>3, <2>1, WriteActiveTypes
  <2>5. expected' \in Seq(Receipt)
    BY <2>1, WithdrawProperties
  <2>6. veks' \in [Vault -> Key] /\ activeId' \in Place /\ poisoned' \in BOOLEAN
    BY <1>3, <2>1 DEF ClearEnd, FailClosed
  <2>7. clearing' \in [keys : SUBSET Vault, active : Place, failed : BOOLEAN]
    BY <1>3, <1>15 DEF ClearRemove, NoClearing
  <2>8. candidates' \in SUBSET Vault
    BY <2>1
  <2> QED
    BY <1>2, <1>4, <1>15, <2>2, <2>3, <2>4, <2>5, <2>6, <2>7, <2>8 DEF ClearRemove
<1> QED
  BY <1>6, <1>7, <1>8, <1>9, <1>10, <1>11, <1>12, <1>13, <1>14, <1>15 DEF Commit

LEMMA WorkerKeepsTypes ==
    ASSUME TypeInv, WorkerStep
    PROVE  TypeInv'
<1>1. NoKeys \in [Vault -> Key] /\ None \in Place
  BY DEF NoKeys, Key, Place
<1>2. ASSUME NEW ok, NEW done, Call(ok, done) PROVE mishaps' \in Nat
  BY <1>2 DEF Call, TypeInv, LockTypes
<1>3. ASSUME op' = op, queue' = queue, epoch' \in Nat PROVE OpTypes'
  BY <1>3 DEF TypeInv, OpTypes, InstallsNameVaults
<1>0. WakeTypes'
  BY WakeTypesAreKept DEF WorkerStep, Next
<1>4. CASE \E v \in Vault \cup {None} : SetActiveVault(v)
  <2>1. PICK v \in Place : SetActiveVault(v)
    BY <1>4 DEF Place
  <2>2. stored' \in Place /\ notes' \in Seq(Place \X Place)
    BY <2>1, WriteActiveTypes DEF SetActiveVault, TypeInv
  <2>3. OpTypes'
    BY <1>3, <2>1 DEF SetActiveVault, opVars, TypeInv, OpTypes
  <2> QED
    BY <1>0, <2>1, <2>2, <2>3 DEF SetActiveVault, TypeInv, KeyTypes, ActiveTypes, LockTypes,
       keyVars, lockVars, opVars
<1>5. CASE OnActiveChanged
  <2>1. notes # <<>> /\ notes \in Seq(Place \X Place) /\ notes' = Tail(notes)
        /\ DOMAIN expected = 1..Len(expected)
    BY <1>5, LenProperties DEF OnActiveChanged, TypeInv, ActiveTypes
  <2>2. Head(notes) \in Place \X Place /\ notes' \in Seq(Place \X Place)
    BY <2>1, HeadTailProperties
  <2>3. Head(notes)[2] \in Place
    BY <2>2
  <2>4. expected' \in Seq(Receipt) /\ activeId' \in Place /\ epoch' \in Nat
    <3>1. CASE \E i \in DOMAIN expected : Matches(i, Head(notes))
      <4>1. expected' = Without(expected, FirstMatch(Head(notes)))
            /\ UNCHANGED <<epoch, activeId>>
        BY <1>5, <3>1 DEF OnActiveChanged
      <4>2. FirstMatch(Head(notes)) \in 1..Len(expected)
        BY <3>1, FirstMatchProperties DEF TypeInv, ActiveTypes
      <4> QED
        BY <4>1, <4>2, WithoutProperties DEF TypeInv, ActiveTypes, OpTypes
    <3>2. CASE ~\E i \in DOMAIN expected : Matches(i, Head(notes))
      <4>1. expected' = expected /\ activeId' = Head(notes)[2]
            /\ epoch' = EpochAfter(Head(notes)[2])
        BY <1>5, <3>2 DEF OnActiveChanged
      <4> QED
        BY <2>3, <4>1 DEF TypeInv, ActiveTypes, OpTypes, EpochAfter
    <3> QED
      BY <3>1, <3>2
  <2>5. OpTypes'
    BY <1>3, <1>5, <2>4 DEF OnActiveChanged, opVars
  <2> QED
    BY <1>0, <1>5, <2>2, <2>4, <2>5 DEF OnActiveChanged, TypeInv, KeyTypes, ActiveTypes, LockTypes,
       keyVars, lockVars, opVars, counters
<1>6. CASE WorkerDies
  <2>1. OpTypes'
    <3>1. "lost" \in Pc
      BY DEF Pc
    <3>2. ASSUME NEW k \in Op
          PROVE  op'[k] \in Operation /\ op'[k].kind = op[k].kind /\ op'[k].vault = op[k].vault
      <4>1. op[k] \in Operation
        BY DEF TypeInv, OpTypes
      <4>2. op'[k] = IF op[k].pc \in Unanswered THEN [op[k] EXCEPT !.pc = "lost"] ELSE op[k]
        BY <1>6 DEF WorkerDies
      <4> QED
        BY <3>1, <4>1, <4>2 DEF Operation
    <3>3. op' \in [Op -> Operation]
      <4>1. op' = [k \in Op |-> op'[k]]
        BY <1>6 DEF WorkerDies
      <4> QED
        BY <3>2, <4>1
    <3>4. epoch' \in Nat /\ queue' \in Seq(Op)
      BY <1>6, EmptySeq DEF WorkerDies, TypeInv, OpTypes
    <3> QED
      BY <3>2, <3>3, <3>4 DEF TypeInv, OpTypes, InstallsNameVaults
  <2>2. expected' \in Seq(Receipt)
    BY <1>6, EmptySeq DEF WorkerDies
  <2>3. clearing' \in [keys : SUBSET Vault, active : Place, failed : BOOLEAN]
    BY <1>1, <1>6 DEF WorkerDies, NoClearing
  <2>4. KeyTypes' /\ ActiveTypes'
    BY <1>1, <1>6, <2>2, <2>3 DEF WorkerDies, TypeInv, KeyTypes, ActiveTypes
  <2>5. LockTypes'
    <3>1. mishaps' = mishaps + 1 /\ UNCHANGED <<marker, selects, sealed, told>>
      BY <1>6 DEF WorkerDies
    <3>2. marked' \in BOOLEAN /\ poisoned' \in BOOLEAN
      BY <1>6 DEF WorkerDies
    <3> QED
      BY <3>1, <3>2 DEF TypeInv, LockTypes
  <2> QED
    BY <1>0, <2>1, <2>4, <2>5 DEF TypeInv
<1>9. CASE HydrateRead
  <2>1. mishaps' \in Nat
    BY <1>2, <1>9 DEF HydrateRead
  <2>2. OpTypes'
    BY <1>3, <1>9 DEF HydrateRead, opVars, TypeInv, OpTypes
  <2> QED
    BY <1>0, <1>9, <2>1, <2>2 DEF HydrateRead, TypeInv, KeyTypes, ActiveTypes, LockTypes,
       keyVars, lockVars, opVars, activeVars
<1>7. CASE Hydrate
  <2>1. OpTypes'
    BY <1>3, <1>7 DEF Hydrate, opVars, TypeInv, OpTypes
  <2>2. /\ \/ veks' = veks
           \/ veks' = [v \in Vault |-> IF v \in {w \in Vault : snapshot.keys[w] # 0}
                                     THEN snapshot.keys[v] ELSE veks[v]]
        /\ \/ candidates' = candidates
           \/ candidates' = candidates \cup {w \in Vault : snapshot.keys[w] # 0}
        /\ activeId' = activeId \/ activeId' = snapshot.active
        /\ marked' = snapshot.marker
    BY <1>7 DEF Hydrate
  <2>3. veks' \in [Vault -> Key] /\ candidates' \in SUBSET Vault /\ activeId' \in Place
        /\ marked' \in BOOLEAN
    BY <2>2 DEF TypeInv, KeyTypes, ActiveTypes, WakeTypes
  <2> QED
    BY <1>0, <1>7, <2>1, <2>3 DEF Hydrate, opVars, counters, TypeInv, KeyTypes, ActiveTypes,
       LockTypes
<1>8. CASE HydrateClean
  <2>1. PICK ok \in BOOLEAN, done \in BOOLEAN :
       /\ Call(ok, done)
       /\ durable' = IF done
                     THEN [v \in Vault |-> IF snapshot.keys[v] # 0 THEN 0 ELSE durable[v]]
                     ELSE durable
       /\ IF done THEN WriteActive(None) ELSE UNCHANGED <<stored, notes>>
       /\ IF ok THEN UNCHANGED <<poisoned, veks, activeId>> ELSE FailClosed
    BY <1>8 DEF HydrateClean
  <2>2. mishaps' \in Nat
    BY <1>2, <2>1
  <2>3. stored' \in Place /\ notes' \in Seq(Place \X Place)
    BY <1>1, <2>1, WriteActiveTypes DEF TypeInv, ActiveTypes
  <2>4. OpTypes'
    BY <1>3, <1>8 DEF HydrateClean, opVars, TypeInv, OpTypes
  <2>5. veks' \in [Vault -> Key] /\ durable' \in [Vault -> Key] /\ poisoned' \in BOOLEAN
        /\ activeId' \in Place
    BY <1>1, <2>1 DEF FailClosed, TypeInv, KeyTypes, ActiveTypes, LockTypes, Key
  <2> QED
    BY <1>0, <1>8, <2>2, <2>3, <2>4, <2>5 DEF HydrateClean, opVars, TypeInv, KeyTypes, ActiveTypes,
       LockTypes
<1> QED
  BY <1>4, <1>5, <1>6, <1>7, <1>8, <1>9 DEF WorkerStep

LEMMA TypeInvHolds == Spec => []TypeInv
<1>1. Init => TypeInv
  <2> SUFFICES ASSUME Init PROVE TypeInv
    OBVIOUS
  <2>1. KeyTypes
    BY DEF Init, KeyTypes, NoKeys, NoClearing, Key, Place
  <2>2. ActiveTypes
    BY EmptySeq DEF Init, ActiveTypes, Place
  <2>3. \A o \in Op : op[o].kind = "none"
    BY DEF Init
  <2>4. epoch \in Nat /\ op \in [Op -> Operation]
    BY DEF Init, Operation, Kind, Pc, Place
  <2>5. queue \in Seq(Op)
    BY EmptySeq DEF Init
  <2>6. LockTypes
    BY DEF Init, LockTypes
  <2>7. WakeTypes
    BY DEF Init, WakeTypes, NoSnapshot, NoKeys, Key, Place
  <2> QED
    BY <2>1, <2>2, <2>3, <2>4, <2>5, <2>6, <2>7 DEF TypeInv, OpTypes, InstallsNameVaults
<1>2. TypeInv /\ [Next]_vars => TypeInv'
  <2> SUFFICES ASSUME TypeInv, [Next]_vars PROVE TypeInv'
    OBVIOUS
  <2>1. CASE UNCHANGED vars
    BY <2>1 DEF vars, keyVars, lockVars, opVars, activeVars, counters,
       TypeInv, KeyTypes, ActiveTypes, OpTypes, LockTypes, WakeTypes, wakeVars,
       InstallsNameVaults
  <2> QED
    BY <2>1, BeginStepKeepsTypes, ReplyKeepsTypes, CommitKeepsTypes, WorkerKeepsTypes
       DEF Next, Step, BeginStep, WorkerStep
<1> QED
  BY <1>1, <1>2, PTL DEF Spec

(* The key store keeps its types. *)
THEOREM TypeCorrect == Spec => []TypeOK
  BY TypeInvHolds, TypeInvIsTypeOK, PTL

-----------------------------------------------------------------------------
(* What a view was told. *)

UnlockPc == {"crypto", "storing", "unmarking", "installed", "unlocked"}

UnlocksInstall == \A o \in Op : op[o].pc \in UnlockPc => op[o].kind = "install"

\* The notifications end with the stored id, announced changes are removals,
\* and a worker that cleans up, or is about to, has a marker.
Activity ==
    /\ notes # <<>> => notes[Len(notes)][2] = stored
    /\ \A i \in 1..Len(expected) : expected[i][2] = None
    /\ hydration = "cleaning" \/ (hydration = "read" /\ snapshot.marker) => marker

\* Whatever else waits for its turn is an unlock.
OnlyUnlocksWait(o) ==
    \A i \in 1..Len(queue) : queue[i] # o =>
        op[queue[i]].kind = "install" /\ op[queue[i]].pc = "queued"

Latest(o) == op[o].kind = "install" /\ op[o].epoch = epoch

\* The latest unlock has only unlocks behind it, and from its turn on its key
\* is in memory, then in storage, then nothing stands against it.
RecentOf(o) ==
    LET v == op[o].vault IN
    /\ \A i, j \in 1..Len(queue) :
          queue[i] = o /\ op[queue[j]].kind # "install" => j < i
    /\ op[o].pc \in {"storing", "unmarking", "installed"} =>
          OnlyUnlocksWait(o) /\ veks[v] = o /\ v \in candidates /\ ~poisoned
    /\ op[o].pc \in {"unmarking", "installed"} => durable[v] = o
    /\ op[o].pc = "installed" => ~marked

Recent == \A o \in Op : Latest(o) => RecentOf(o)

\* An unlock a view relies on is the last operation that began, and the next
\* worker finds what it needs to open the vault again.
ToldOf(o) ==
    LET v == op[o].vault IN
    /\ op[o].pc = "unlocked"
    /\ \A k \in Op : k > o => ~Begun(k)
    /\ OnlyUnlocksWait(o)
    /\ ~marker =>
          /\ durable[v] = o /\ stored = v
          /\ hydration = "ready" /\ candidates # {} =>
                /\ veks[v] = o /\ ~poisoned /\ ~marked
                /\ notes = <<>> => activeId = v

Told == \A o \in told : ToldOf(o)

\* While a view relies on an unlock, a worker that starts knows nothing else
\* than what it has read, and nothing has happened to that.
Waking ==
    told # {} /\ hydration \in {"reading", "read"} =>
        /\ candidates = {} /\ ~poisoned /\ ~marked
        /\ hydration = "read" =>
               snapshot = [keys |-> durable, marker |-> marker, active |-> stored]

ToldInv == UnlocksInstall /\ Activity /\ Recent /\ Told /\ Waking

LEMMA ToldIsTrue ==
    ASSUME TypeInv, ToldInv
    PROVE  UnlockedIsTrue
<1> SUFFICES ASSUME NEW o \in told, ~marker
             PROVE  LET v == op[o].vault IN
                    /\ durable[v] = o
                    /\ hydration = "ready" /\ candidates # {} /\ notes = <<>> =>
                           veks[v] = o /\ ~ActiveVaultLocked
  BY DEF UnlockedIsTrue
<1>1. o \in Op /\ o # 0
  BY OpAssumption DEF TypeInv, LockTypes
<1>2. op[o].pc = "unlocked" /\ ToldOf(o)
  BY DEF ToldInv, Told, ToldOf
<1>3. op[o].vault \in Vault /\ op[o].vault # None
  BY <1>1, <1>2, VaultAssumption DEF ToldInv, UnlocksInstall, UnlockPc, TypeInv, OpTypes,
     InstallsNameVaults
<1> QED
  BY <1>1, <1>2, <1>3 DEF ToldOf, ActiveVaultLocked

(* Only an unlock comes to the states of one. *)
LEMMA UnlockTurn ==
    ASSUME TypeInv, UnlocksInstall, NEW o \in Op, Commit(o)
    PROVE  \E p : Turn(o, p) /\ (p \in UnlockPc => op[o].kind = "install")
<1>1. CASE InstallCommit(o) \/ InstallStore(o) \/ InstallUnmark(o)
  <2>1. op[o].kind = "install"
    BY <1>1 DEF InstallCommit, InstallStore, InstallUnmark, Runs, UnlocksInstall, UnlockPc
  <2> QED
    BY <2>1, CommitIsTurn
<1> DEFINE Other == {"stale", "failed", "removing", "removed", "leaving", "marking", "listing",
                     "clearing", "locked"}
<1> USE DEF Go, Done, Turn, Working, Pc, Unanswered, Runs, ClearPc, wakeVars
<1>2. RemoveCommit(o) => \E p \in Other : Turn(o, p)
  BY DEF RemoveCommit
<1>3. RemoveStored(o) => \E p \in Other : Turn(o, p)
  BY DEF RemoveStored
<1>4. LeaveLockMarker(o) => \E p \in Other : Turn(o, p)
  BY DEF LeaveLockMarker
<1>5. ClearCommit(o) => \E p \in Other : Turn(o, p)
  BY DEF ClearCommit
<1>6. ClearMark(o) => \E p \in Other : Turn(o, p)
  BY DEF ClearMark
<1>7. ClearList(o) => \E p \in Other : Turn(o, p)
  BY DEF ClearList
<1>8. ClearRemove(o) => \E p \in Other : Turn(o, p)
  BY DEF ClearRemove, ClearEnd
<1>9. \A p \in Other : p \notin UnlockPc
  BY DEF UnlockPc
<1> QED
  BY <1>1, <1>2, <1>3, <1>4, <1>5, <1>6, <1>7, <1>8, <1>9 DEF Commit

(* The steps between the beginning of an operation and its turn, and after it. *)
LEMMA ReplyMoves ==
    ASSUME TypeInv, NEW o \in Op, CryptoReply(o) \/ Answer(o)
    PROVE  \E p \in {"queued", "denied", "unlocked", "stale"} :
              /\ MovesTo(o, p)
              /\ CryptoReply(o) => p \in {"queued", "denied"} /\ epoch' = epoch
              /\ Answer(o) => p \in {"unlocked", "stale"}
              /\ queue' = IF p = "queued" THEN Append(queue, o) ELSE queue
<1>1. PICK p \in {"queued", "denied", "unlocked", "stale"} :
              /\ op' = [op EXCEPT ![o].pc = p]
              /\ CryptoReply(o) => p \in {"queued", "denied"} /\ epoch' = epoch
              /\ Answer(o) => p \in {"unlocked", "stale"}
              /\ queue' = IF p = "queued" THEN Append(queue, o) ELSE queue
  BY DEF CryptoReply, Answer
<1>2. p \in Pc
  BY DEF Pc, Unanswered
<1> QED
  BY <1>1, <1>2, TypeInvGivesTypes, Moving

LEMMA LockVaultMoves ==
    ASSUME TypeInv, NEW o \in Op, LockVault(o)
    PROVE  /\ \A k \in Op : k # o => op'[k] = op[k]
           /\ op'[o].pc = "queued" /\ op'[o].kind \in {"clear", "remove"}
<1>1. PICK kind \in {"clear", "remove"} :
         op' = [op EXCEPT ![o].pc = "queued", ![o].kind = kind]
  BY DEF LockVault
<1>2. op' = [op EXCEPT ![o] = [op[o] EXCEPT !.pc = "queued", !.kind = kind]]
  BY <1>1 DEF TypeInv, OpTypes
<1>3. op[o] \in Operation
  BY DEF TypeInv, OpTypes
<1>4. op'[o] = [op[o] EXCEPT !.pc = "queued", !.kind = kind]
  BY <1>2 DEF TypeInv, OpTypes
<1> QED
  BY <1>2, <1>3, <1>4 DEF TypeInv, OpTypes, Operation

LEMMA BeginMoves ==
    ASSUME TypeInv, NEW o \in Op, BeginStep(o)
    PROVE  /\ \A k \in Op : k # o => op'[k] = op[k]
           /\ op[o].pc = "unused"
           /\ BeginInstall(o) => op'[o].kind = "install" /\ op'[o].pc = "crypto"
           /\ ~BeginInstall(o) => /\ op'[o].kind # "install"
                                  /\ op'[o].pc \in {"zeroize", "queued", "skipped"}
<1>1. ASSUME NEW kind, NEW v, NEW e, NEW p, Begin(o, kind, v, e, p)
      PROVE  /\ \A k \in Op : k # o => op'[k] = op[k]
             /\ op'[o].kind = kind /\ op'[o].pc = p
  BY <1>1 DEF Begin, TypeInv, OpTypes
<1>2. op[o].pc = "unused"
  BY DEF BeginStep, BeginInstall, BeginLock, ClearSession, ScreenLock, Fresh
<1>3. CASE BeginInstall(o)
  <2>1. Begin(o, "install", stored, EpochAfter(stored) + 1, "crypto")
    BY <1>3 DEF BeginInstall
  <2> QED
    BY <1>1, <1>2, <1>3, <2>1
<1>4. CASE BeginLock(o) /\ ~BeginInstall(o)
  <2>1. Begin(o, "lock", stored, 0, "zeroize")
    BY <1>4 DEF BeginLock
  <2> QED
    BY <1>1, <1>2, <1>4, <2>1
<1>5. CASE (ClearSession(o) \/ ScreenLock(o)) /\ ~BeginInstall(o)
  <2>1. \/ Begin(o, "screen", None, 0, "skipped")
        \/ Begin(o, "clear", None, 0, "queued")
    BY <1>5 DEF ClearSession, ScreenLock
  <2> QED
    BY <1>1, <1>2, <1>5, <2>1
<1> QED
  BY <1>3, <1>4, <1>5 DEF BeginStep

LEMMA DeathMoves ==
    ASSUME TypeInv, WorkerDies
    PROVE  \A k \in Op : /\ op'[k].kind = op[k].kind /\ op'[k].epoch = op[k].epoch
                         /\ op'[k].vault = op[k].vault
                         /\ op'[k].pc = IF op[k].pc \in Unanswered THEN "lost" ELSE op[k].pc
<1> TAKE k \in Op
<1>1. op[k] \in Operation
  BY DEF TypeInv, OpTypes
<1>2. op'[k] = IF op[k].pc \in Unanswered THEN [op[k] EXCEPT !.pc = "lost"] ELSE op[k]
  BY DEF WorkerDies
<1> QED
  BY <1>1, <1>2 DEF Operation

LEMMA UnlocksStayInstalls ==
    ASSUME TypeInv, UnlocksInstall, [Next]_vars
    PROVE  UnlocksInstall'
<1> USE DEF UnlocksInstall
<1>1. CASE UNCHANGED vars
  BY <1>1 DEF vars, opVars
<1>2. ASSUME NEW o \in Op, BeginStep(o) PROVE UnlocksInstall'
  BY <1>2, BeginMoves DEF UnlockPc
<1>3. ASSUME NEW o \in Op, CryptoReply(o) \/ Answer(o) PROVE UnlocksInstall'
  <2>1. op[o].kind = "install"
    BY <1>3 DEF CryptoReply, Answer, UnlockPc
  <2> QED
    BY <1>3, <2>1, ReplyMoves DEF MovesTo
<1>4. ASSUME NEW o \in Op, LockVault(o) PROVE UnlocksInstall'
  BY <1>4, LockVaultMoves DEF UnlockPc
<1>5. ASSUME NEW o \in Op, Commit(o) PROVE UnlocksInstall'
  <2>1. PICK p : Turn(o, p) /\ (p \in UnlockPc => op[o].kind = "install")
    BY <1>5, UnlockTurn
  <2>2. MovesTo(o, p)
    BY <2>1, TypeInvGivesTypes, Moving DEF Turn
  <2> QED
    BY <2>1, <2>2 DEF MovesTo
<1>6. CASE WorkerStep /\ ~WorkerDies
  <2>1. op' = op
    BY <1>6 DEF WorkerStep, SetActiveVault, OnActiveChanged, HydrateRead, Hydrate, HydrateClean,
       opVars
  <2> QED
    BY <2>1
<1>7. CASE WorkerDies
  BY <1>7, DeathMoves DEF UnlockPc
<1> QED
  BY <1>1, <1>2, <1>3, <1>4, <1>5, <1>6, <1>7 DEF Next, Step, BeginStep, WorkerStep

LEMMA WriteActiveKeepsLast ==
    ASSUME ActiveTypes, NEW v \in Place, WriteActive(v),
           notes # <<>> => notes[Len(notes)][2] = stored
    PROVE  /\ notes' # <<>> => notes'[Len(notes')][2] = stored'
           /\ stored' = v
           /\ notes' = <<>> => v = stored
<1>1. <<stored, v>> \in Place \X Place /\ <<stored, v>>[2] = v
  BY DEF ActiveTypes
<1>2. /\ Append(notes, <<stored, v>>) # <<>>
      /\ Len(Append(notes, <<stored, v>>)) = Len(notes) + 1
      /\ Append(notes, <<stored, v>>)[Len(notes) + 1] = <<stored, v>>
  BY <1>1, AppendProperties DEF ActiveTypes
<1>3. CASE v = stored
  BY <1>3 DEF WriteActive
<1>4. CASE v # stored
  <2>1. notes' = Append(notes, <<stored, v>>) /\ stored' = v
    BY <1>4 DEF WriteActive
  <2> QED
    BY <1>1, <1>2, <2>1
<1> QED
  BY <1>3, <1>4

(* A notification is heard: the last one that is not of a removal is applied. *)
LEMMA HearingKeepsActivity ==
    ASSUME TypeInv, Activity, OnActiveChanged
    PROVE  /\ Activity'
           /\ notes' = <<>> /\ stored # None => activeId' = stored
<1>1. notes # <<>> /\ notes \in Seq(Place \X Place) /\ notes' = Tail(notes)
      /\ DOMAIN expected = 1..Len(expected) /\ expected \in Seq(Receipt)
  BY LenProperties DEF OnActiveChanged, TypeInv, ActiveTypes
<1>2. /\ notes' \in Seq(Place \X Place) /\ Len(notes') = Len(notes) - 1
      /\ \A i \in 1..Len(notes') : notes'[i] = notes[i + 1]
      /\ Len(notes) \in Nat /\ Len(notes') \in Nat /\ Head(notes) = notes[1]
  BY <1>1, HeadTailProperties, LenProperties
<1>3. UNCHANGED <<marker, stored, hydration, snapshot>>
  BY DEF OnActiveChanged, lockVars, wakeVars
<1>4. notes' # <<>> => notes'[Len(notes')][2] = stored'
  <2> SUFFICES ASSUME notes' # <<>> PROVE notes'[Len(notes')][2] = stored
    BY <1>3
  <2>1. Len(notes') # 0
    BY <1>2, EmptySeq
  <2>2. notes'[Len(notes')] = notes[Len(notes)]
    BY <1>2, <2>1
  <2> QED
    BY <1>1, <2>2 DEF Activity
<1>5. CASE \E i \in DOMAIN expected : Matches(i, Head(notes))
  <2>1. expected' = Without(expected, FirstMatch(Head(notes)))
    BY <1>5 DEF OnActiveChanged
  <2>2. /\ FirstMatch(Head(notes)) \in 1..Len(expected)
        /\ Matches(FirstMatch(Head(notes)), Head(notes))
    BY <1>1, <1>5, FirstMatchProperties
  <2>3. \A k \in 1..Len(expected') : \E j \in 1..Len(expected) : expected'[k] = expected[j]
    BY <1>1, <2>1, <2>2, WithoutProperties
  <2>4. \A k \in 1..Len(expected') : expected'[k][2] = None
    BY <2>3 DEF Activity
  <2>5. notes[1][2] = None
    BY <1>2, <2>2 DEF Matches, Activity
  <2>6. notes' = <<>> => stored = None
    <3>1. notes' = <<>> => Len(notes) = 1
      BY <1>2, EmptySeq
    <3> QED
      BY <1>1, <2>5, <3>1 DEF Activity
  <2> QED
    BY <1>3, <1>4, <2>4, <2>6 DEF Activity
<1>6. CASE ~\E i \in DOMAIN expected : Matches(i, Head(notes))
  <2>1. expected' = expected /\ activeId' = notes[1][2]
    BY <1>2, <1>6 DEF OnActiveChanged
  <2>2. notes' = <<>> => Len(notes) = 1
    BY <1>2, EmptySeq
  <2> QED
    BY <1>1, <1>3, <1>4, <2>1, <2>2 DEF Activity
<1> QED
  BY <1>5, <1>6

LEMMA ActivityIsKept ==
    ASSUME TypeInv, QueueInv, Activity, [Next]_vars
    PROVE  Activity'
<1>1. CASE UNCHANGED vars
  BY <1>1 DEF vars, keyVars, lockVars, activeVars, wakeVars, Activity
<1>2. ASSUME NEW o \in Op, BeginStep(o) \/ CryptoReply(o) \/ LockVault(o) PROVE Activity'
  <2>1. UNCHANGED <<marker, stored, notes, expected, hydration, snapshot>>
    BY <1>2 DEF BeginStep, BeginInstall, BeginLock, ClearSession, ScreenLock, CryptoReply,
                LockVault, lockVars, activeVars, wakeVars
  <2> QED
    BY <2>1 DEF Activity
<1>3. ASSUME NEW o \in Op, Answer(o) PROVE Activity'
  <2>1. UNCHANGED <<marker, expected, hydration, snapshot>>
    BY <1>3 DEF Answer, lockVars, wakeVars
  <2>2. CASE UNCHANGED <<stored, notes>>
    BY <2>1, <2>2 DEF Activity
  <2>3. CASE WriteActive(op[o].vault)
    <3>1. op[o].vault \in Place
      BY DEF TypeInv, OpTypes, Operation
    <3> QED
      BY <2>1, <2>3, <3>1, WriteActiveKeepsLast DEF Activity, TypeInv
  <2> QED
    BY <1>3, <2>2, <2>3 DEF Answer
<1>4. ASSUME NEW o \in Op, Commit(o) PROVE Activity'
  <2>1. PICK p : Turn(o, p)
    BY <1>4, CommitIsTurn
  <2>2. /\ UNCHANGED <<hydration, snapshot>>
        /\ hydration # "ready" => op[o].kind = "clear" /\ op[o].pc \in ClearPc
    BY <2>1, TypeInvGivesTypes, TurnFacts
  <2>7. hydration # "ready" => (marker => marker')
    <3>1. hydration # "ready" =>
             ClearCommit(o) \/ ClearMark(o) \/ ClearList(o) \/ ClearRemove(o)
      BY <1>4, <2>2 DEF Commit, InstallCommit, InstallStore, InstallUnmark, RemoveCommit,
         RemoveStored, LeaveLockMarker, Runs, ClearPc
    <3>2. ClearCommit(o) \/ ClearMark(o) \/ ClearList(o) \/ ClearRemove(o) => (marker => marker')
      BY DEF ClearCommit, ClearMark, ClearList, ClearRemove, lockVars, TypeInv, LockTypes
    <3> QED
      BY <3>1, <3>2
  <2>3. SUFFICES /\ notes' # <<>> => notes'[Len(notes')][2] = stored'
                 /\ \A i \in 1..Len(expected') : expected'[i][2] = None
    BY <2>2, <2>7 DEF Activity
  <2>4. CASE ClearList(o)
    <3>1. UNCHANGED <<stored, notes>>
      BY <2>4 DEF ClearList
    <3>2. \/ expected' = expected
          \/ \E old \in Place : expected' = Announce(old, o)
      BY <2>4 DEF ClearList, TypeInv, KeyTypes, ActiveTypes
    <3>3. ASSUME NEW old \in Place, expected' = Announce(old, o)
          PROVE  \A i \in 1..Len(expected') : expected'[i][2] = None
      <4>1. expected \in Seq(Receipt) /\ \A i \in 1..Len(expected) : expected[i][2] = None
        BY DEF TypeInv, ActiveTypes, Activity
      <4>2. \A k \in 1..Len(Announce(old, o)) :
               \/ Announce(old, o)[k][2] = None
               \/ \E j \in 1..Len(expected) : Announce(old, o)[k] = expected[j]
        BY <4>1, AnnounceProperties
      <4> QED
        BY <3>3, <4>1, <4>2
    <3> QED
      BY <3>1, <3>2, <3>3 DEF Activity
  <2>5. CASE ClearRemove(o)
    <3>1. \/ UNCHANGED <<stored, notes>>
          \/ WriteActive(None)
      BY <2>5 DEF ClearRemove
    <3>2. None \in Place
      BY DEF Place
    <3>3. notes' # <<>> => notes'[Len(notes')][2] = stored'
      BY <3>1, <3>2, WriteActiveKeepsLast DEF TypeInv, Activity
    <3>4. expected' = expected \/ expected' = Withdraw(o)
      BY <2>5 DEF ClearRemove
    <3>5. CASE expected' = Withdraw(o)
      <4>1. \A k \in 1..Len(expected') : \E j \in 1..Len(expected) : expected'[k] = expected[j]
        BY <3>5, WithdrawProperties DEF TypeInv, ActiveTypes
      <4> QED
        BY <3>3, <4>1 DEF Activity
    <3> QED
      BY <3>3, <3>4, <3>5 DEF Activity
  <2>6. CASE ~ClearList(o) /\ ~ClearRemove(o)
    <3>1. UNCHANGED <<stored, notes, expected>>
      BY <1>4, <2>6 DEF Commit, InstallCommit, InstallStore, InstallUnmark, RemoveCommit,
         RemoveStored, LeaveLockMarker, ClearCommit, ClearMark, activeVars
    <3> QED
      BY <3>1 DEF Activity
  <2> QED
    BY <2>4, <2>5, <2>6
<1>5. ASSUME NEW v \in Vault \cup {None}, SetActiveVault(v) PROVE Activity'
  <2>1. v \in Place /\ WriteActive(v)
        /\ UNCHANGED <<marker, expected, hydration, snapshot>>
    BY <1>5 DEF SetActiveVault, Place, lockVars, wakeVars
  <2> QED
    BY <2>1, WriteActiveKeepsLast DEF Activity, TypeInv
<1>6. CASE WorkerDies
  <2>1. /\ hydration' = "reading"
        /\ UNCHANGED <<stored, notes>>
        /\ expected' = <<>>
    BY <1>6 DEF WorkerDies
  <2>2. Len(expected') = 0
    BY <2>1
  <2> QED
    BY <2>1, <2>2 DEF Activity
<1>9. CASE HydrateRead
  <2>1. /\ UNCHANGED <<marker, stored, notes, expected>>
        /\ hydration' # "cleaning"
        /\ hydration' = "read" => snapshot'.marker = marker
    BY <1>9 DEF HydrateRead, lockVars, activeVars
  <2> QED
    BY <2>1 DEF Activity
<1>7. CASE Hydrate
  <2>1. /\ UNCHANGED <<marker, stored, notes, expected>> /\ hydration = "read"
        /\ (hydration' = "cleaning" /\ snapshot.marker) \/ hydration' = "ready"
    BY <1>7 DEF Hydrate
  <2> QED
    BY <2>1 DEF Activity
<1>8. CASE HydrateClean
  <2>1. /\ \/ UNCHANGED <<stored, notes>>
           \/ WriteActive(None)
        /\ UNCHANGED expected /\ hydration' = "ready" /\ None \in Place
    BY <1>8 DEF HydrateClean, Place
  <2> QED
    BY <2>1, WriteActiveKeepsLast DEF Activity, TypeInv
<1> QED
  BY <1>1, <1>2, <1>3, <1>4, <1>5, <1>6, <1>7, <1>8, <1>9, HearingKeepsActivity
     DEF Next, Step, BeginStep

QueueTypes == queue \in Seq(Op) /\ Len(queue) \in Nat /\ \A i \in 1..Len(queue) : queue[i] \in Op

LEMMA QueueIsTyped == QueueInv => QueueTypes
  BY LenProperties DEF QueueInv, QueueTypes

(* Its turn over, an operation has left the queue to the others. *)
LEMMA TailOfQueue ==
    ASSUME QueueInv, queue # <<>>, queue' = Tail(queue)
    PROVE  /\ Len(queue') \in Nat /\ Len(queue') = Len(queue) - 1
           /\ \A i \in 1..Len(queue') : queue'[i] = queue[i + 1] /\ i + 1 \in 1..Len(queue)
           /\ \A i \in 1..Len(queue') : queue'[i] # Head(queue)
<1>1. QueueTypes
  BY QueueIsTyped
<1>2. /\ Len(queue') \in Nat /\ Len(queue') = Len(queue) - 1
      /\ \A i \in 1..Len(queue') : queue'[i] = queue[i + 1]
  BY <1>1, HeadTailProperties, LenProperties DEF QueueTypes
<1>3. Head(queue) = queue[1] /\ 1 \in 1..Len(queue)
  BY <1>1, <1>2 DEF QueueTypes
<1>4. \A i \in 1..Len(queue') : i + 1 \in 1..Len(queue) /\ i + 1 # 1
  BY <1>1, <1>2 DEF QueueTypes
<1> QED
  BY <1>2, <1>3, <1>4 DEF QueueInv

(* Only the latest operation has the present epoch. *)
LEMMA OneLatest ==
    ASSUME TypeInv, InOrder, NEW k \in Op, Latest(k), Begun(k), NEW o \in Op, o # k, Begun(o)
    PROVE  o < k /\ ~Latest(o)
<1>1. o \in Nat /\ k \in Nat /\ epoch \in Nat
  BY OpAssumption DEF TypeInv, OpTypes
<1>2. ~(o > k)
  BY <1>1 DEF Latest, InOrder
<1>3. o < k
  BY <1>1, <1>2
<1>4. ~Latest(o)
  BY <1>1, <1>3 DEF Latest, InOrder
<1> QED
  BY <1>3, <1>4

(* The queue is joined by an unlock, or left by its head. *)
LEMMA QueueKeepsWaiting ==
    ASSUME TypeInv, QueueInv, NEW k \in Op, NEW o \in Op,
           \/ /\ queue' = Append(queue, o) /\ op'[o].kind = "install" /\ op'[o].pc = "queued"
              /\ op[o].pc \notin Working \cup {"queued"}
           \/ queue # <<>> /\ queue' = Tail(queue) /\ Head(queue) = o
           \/ queue' = queue,
           \A m \in Op : op'[m].kind = op[m].kind,
           \A m \in Op : m # o => op'[m].pc = op[m].pc
    PROVE  /\ OnlyUnlocksWait(k) =>
                \/ OnlyUnlocksWait(k)'
                \/ k # o /\ \E i \in 1..Len(queue) : queue[i] = o /\ queue' = queue
           /\ (\A i, j \in 1..Len(queue) : queue[i] = k /\ op[queue[j]].kind # "install" => j < i)
              => (\A i, j \in 1..Len(queue') :
                     queue'[i] = k /\ op'[queue'[j]].kind # "install" => j < i)
<1>1. QueueTypes
  BY QueueIsTyped
<1>2. CASE /\ queue' = Append(queue, o) /\ op'[o].kind = "install" /\ op'[o].pc = "queued"
           /\ op[o].pc \notin Working \cup {"queued"}
  <2>1. /\ Len(queue') = Len(queue) + 1 /\ queue'[Len(queue) + 1] = o
        /\ \A i \in 1..Len(queue) : queue'[i] = queue[i]
    BY <1>1, <1>2, AppendProperties DEF QueueTypes
  <2>2. \A i \in 1..Len(queue') : i \in 1..Len(queue) \/ i = Len(queue) + 1
    BY <1>1, <2>1 DEF QueueTypes
  <2>3. \A i \in 1..Len(queue) : queue[i] \in Op /\ queue[i] # o
    BY <1>1, <1>2 DEF QueueTypes, QueueInv
  <2>4. OnlyUnlocksWait(k) => OnlyUnlocksWait(k)'
    <3>1. SUFFICES ASSUME OnlyUnlocksWait(k), NEW i \in 1..Len(queue'), queue'[i] # k
                   PROVE  op'[queue'[i]].kind = "install" /\ op'[queue'[i]].pc = "queued"
      BY DEF OnlyUnlocksWait
    <3>2. CASE i \in 1..Len(queue)
      <4>1. /\ queue'[i] = queue[i] /\ queue[i] \in Op /\ queue[i] # o
            /\ op[queue[i]].kind = "install" /\ op[queue[i]].pc = "queued"
        BY <2>1, <2>3, <3>1, <3>2 DEF OnlyUnlocksWait
      <4> QED
        BY <4>1
    <3>3. CASE i = Len(queue) + 1
      BY <1>2, <2>1, <3>3
    <3> QED
      BY <2>2, <3>2, <3>3
  <2>5. ASSUME \A i, j \in 1..Len(queue) : queue[i] = k /\ op[queue[j]].kind # "install" => j < i,
               NEW i \in 1..Len(queue'), NEW j \in 1..Len(queue'),
               queue'[i] = k, op'[queue'[j]].kind # "install"
        PROVE  j < i
    <3>1. j \in 1..Len(queue) /\ op[queue[j]].kind # "install"
      BY <1>2, <2>1, <2>2, <2>3, <2>5
    <3> QED
      BY <1>1, <2>1, <2>2, <2>5, <3>1 DEF QueueTypes
  <2> QED
    BY <2>4, <2>5
<1>3. CASE queue # <<>> /\ queue' = Tail(queue) /\ Head(queue) = o
  <2>1. /\ Len(queue') \in Nat
        /\ \A i \in 1..Len(queue') : queue'[i] = queue[i + 1] /\ i + 1 \in 1..Len(queue)
        /\ \A i \in 1..Len(queue') : queue'[i] # o
    BY <1>3, TailOfQueue
  <2>2. \A i \in 1..Len(queue') : queue'[i] \in Op
    BY <1>1, <2>1 DEF QueueTypes
  <2>3. OnlyUnlocksWait(k) => OnlyUnlocksWait(k)'
    <3>1. SUFFICES ASSUME OnlyUnlocksWait(k), NEW i \in 1..Len(queue'), queue'[i] # k
                   PROVE  op'[queue'[i]].kind = "install" /\ op'[queue'[i]].pc = "queued"
      BY DEF OnlyUnlocksWait
    <3>2. queue'[i] \in Op /\ queue'[i] # o /\ queue'[i] = queue[i + 1] /\ i + 1 \in 1..Len(queue)
      BY <2>1, <2>2, <3>1
    <3>3. op[queue[i + 1]].kind = "install" /\ op[queue[i + 1]].pc = "queued"
      BY <3>1, <3>2 DEF OnlyUnlocksWait
    <3> QED
      BY <3>2, <3>3
  <2>4. ASSUME \A i, j \in 1..Len(queue) : queue[i] = k /\ op[queue[j]].kind # "install" => j < i,
               NEW i \in 1..Len(queue'), NEW j \in 1..Len(queue'),
               queue'[i] = k, op'[queue'[j]].kind # "install"
        PROVE  j < i
    <3>1. queue[i + 1] = k /\ op[queue[j + 1]].kind # "install"
      BY <2>1, <2>2, <2>4
    <3>2. j + 1 < i + 1
      BY <2>1, <2>4, <3>1
    <3> QED
      BY <2>1, <3>2
  <2> QED
    BY <2>3, <2>4
<1>4. CASE queue' = queue
  BY <1>1, <1>4 DEF OnlyUnlocksWait, QueueTypes
<1> QED
  BY <1>2, <1>3, <1>4

(* A step that makes every unlock's epoch stale. *)
LEMMA NewEpochKeepsRecent ==
    ASSUME TypeInv, InOrder, epoch' > epoch, epoch' \in Nat,
           \A k \in Op : op'[k].kind = "install" => op'[k].epoch = op[k].epoch /\ op[k].kind = "install"
    PROVE  Recent'
<1>1. ASSUME NEW k \in Op PROVE ~Latest(k)'
  <2>1. op'[k].kind = "install" => op[k].epoch <= epoch /\ op[k].epoch \in Nat /\ epoch \in Nat
    BY DEF InOrder, TypeInv, OpTypes, Operation
  <2> QED
    BY <2>1 DEF Latest
<1> QED
  BY <1>1 DEF Recent

(* A commit whose turn it is, while another unlock is in place: an unlock that
   finds itself stale. *)
LEMMA StaleUnlock ==
    ASSUME TypeInv, QueueInv, NEW o \in Op, Commit(o), NEW k \in Op, k # o, OnlyUnlocksWait(k),
           ~Latest(o)
    PROVE  /\ Done(o, "stale") /\ InstallCommit(o)
           /\ UNCHANGED <<keyVars, lockVars, epoch, clearing, activeVars, wakeVars, counters, told>>
<1>1. queue # <<>> /\ Head(queue) = o
  BY CommitIsTurn DEF Turn
<1>2. 1 \in 1..Len(queue) /\ queue[1] = o
  BY <1>1, QueueIsTyped DEF QueueTypes
<1>3. op[o].kind = "install" /\ op[o].pc = "queued"
  BY <1>2 DEF OnlyUnlocksWait
<1>4. InstallCommit(o)
  BY <1>3 DEF Commit, InstallStore, InstallUnmark, RemoveCommit, RemoveStored, LeaveLockMarker,
     ClearCommit, ClearMark, ClearList, ClearRemove, Runs
<1>5. op[o].epoch # epoch
  BY <1>3 DEF Latest
<1> QED
  BY <1>4, <1>5 DEF InstallCommit, keyVars

(* The latest unlock's own steps. *)
LEMMA UnlockKeepsRecent ==
    ASSUME TypeInv, InOrder, QueueInv, UnlocksInstall, NEW o \in Op, Commit(o),
           Latest(o), RecentOf(o)
    PROVE  RecentOf(o)'
<1> DEFINE v == op[o].vault
<1>0. op[o].kind = "install" /\ op[o].epoch = epoch /\ v \in Vault
  BY DEF Latest, TypeInv, OpTypes, InstallsNameVaults
<1>1. PICK p : Turn(o, p)
  BY CommitIsTurn
<1>2. MovesTo(o, p)
  BY <1>1, TypeInvGivesTypes, Moving DEF Turn
<1>3. queue # <<>> /\ Head(queue) = o /\ (queue' = queue \/ queue' = Tail(queue))
      /\ 1 \in 1..Len(queue) /\ queue[1] = o /\ QueueTypes
  BY <1>1, QueueIsTyped DEF Turn, QueueTypes
<1>4. /\ op'[o].vault = v /\ op'[o].kind = "install" /\ op'[o].pc = p
      /\ \A m \in Op : op'[m].kind = op[m].kind
      /\ \A m \in Op : m # o => op'[m].pc = op[m].pc
  BY <1>0, <1>2 DEF MovesTo
<1>5. \A i, j \in 1..Len(queue') : queue'[i] = o /\ op'[queue'[j]].kind # "install" => j < i
  BY <1>3, <1>4, QueueKeepsWaiting DEF RecentOf
<1>6. OnlyUnlocksWait(o)'
  <2>1. ASSUME NEW i \in 1..Len(queue), queue[i] # o
        PROVE  op[queue[i]].kind = "install" /\ op[queue[i]].pc = "queued"
    <3>1. queue[i] \in Op /\ ~(i < 1)
      BY <1>3 DEF QueueTypes
    <3>2. op[queue[i]].kind = "install"
      BY <1>3, <3>1 DEF RecentOf
    <3>3. op[queue[i]].pc = "queued"
      BY <1>3, <2>1, <3>1 DEF QueueInv
    <3> QED
      BY <3>2, <3>3
  <2>2. OnlyUnlocksWait(o)
    BY <2>1 DEF OnlyUnlocksWait
  <2>3. CASE queue' = queue
    BY <1>3, <1>4, <2>1, <2>3 DEF OnlyUnlocksWait, QueueTypes
  <2>4. CASE queue' = Tail(queue)
    BY <1>3, <1>4, <2>2, <2>4, QueueKeepsWaiting
  <2> QED
    BY <1>3, <2>3, <2>4
<1>7. /\ p \in {"storing", "unmarking", "installed"} =>
           veks'[v] = o /\ v \in candidates' /\ ~poisoned'
      /\ p \in {"unmarking", "installed"} => durable'[v] = o
      /\ p = "installed" => ~marked'
  <2>1. CASE InstallCommit(o)
    <3>1. CASE poisoned
      <4>1. p = "failed"
        BY <1>0, <1>4, <2>1, <3>1 DEF InstallCommit, Done, TypeInv, OpTypes, Operation
      <4> QED
        BY <4>1
    <3>2. CASE ~poisoned
      <4>1. /\ veks' = [veks EXCEPT ![v] = o] /\ candidates' = candidates \cup {v}
            /\ op' = [op EXCEPT ![o].pc = "storing"] /\ poisoned' = poisoned
        BY <1>0, <2>1, <3>2 DEF InstallCommit, Go, lockVars
      <4>2. p = "storing"
        BY <1>4, <4>1 DEF TypeInv, OpTypes, Operation
      <4>3. veks'[v] = o
        BY <1>0, <4>1 DEF TypeInv, KeyTypes
      <4> QED
        BY <3>2, <4>1, <4>2, <4>3
    <3> QED
      BY <3>1, <3>2
  <2>2. CASE InstallStore(o)
    <3>1. PICK ok \in BOOLEAN, done \in BOOLEAN :
             /\ ok => done
             /\ durable' = IF done THEN [durable EXCEPT ![v] = o] ELSE durable
             /\ IF ok /\ marked THEN Go(o, "unmarking") /\ UNCHANGED veks ELSE Settle(o, ok)
      BY <2>2 DEF InstallStore, Call
    <3>2. op[o].pc = "storing" /\ UNCHANGED <<candidates, marked, poisoned>>
      BY <2>2 DEF InstallStore, Runs, lockVars
    <3>3. ok => durable'[v] = o
      BY <1>0, <3>1 DEF TypeInv, KeyTypes
    <3>4. CASE ok
      <4>1. veks' = veks
        BY <1>0, <3>1, <3>4 DEF Settle
      <4>2. marked => op' = [op EXCEPT ![o].pc = "unmarking"]
        BY <3>1, <3>4 DEF Go
      <4>3. marked => p = "unmarking"
        BY <1>4, <4>2 DEF TypeInv, OpTypes, Operation
      <4> QED
        BY <3>2, <3>3, <3>4, <4>1, <4>3 DEF RecentOf
    <3>5. CASE ~ok
      <4>1. op' = [op EXCEPT ![o].pc = "undoFailed"]
        BY <3>1, <3>5 DEF Settle, Go
      <4>2. p = "undoFailed"
        BY <1>4, <4>1 DEF TypeInv, OpTypes, Operation
      <4> QED
        BY <4>2
    <3> QED
      BY <3>1, <3>4, <3>5
  <2>3. CASE InstallUnmark(o)
    <3>1. PICK ok \in BOOLEAN : marked' = (marked /\ ~ok) /\ Settle(o, ok)
      BY <2>3 DEF InstallUnmark
    <3>2. op[o].pc = "unmarking" /\ UNCHANGED <<durable, candidates, poisoned>>
      BY <2>3 DEF InstallUnmark, Runs
    <3>3. CASE ok
      <4>1. veks' = veks /\ ~marked'
        BY <1>0, <3>1, <3>3 DEF Settle
      <4> QED
        BY <3>2, <4>1 DEF RecentOf
    <3>4. CASE ~ok
      <4>1. op' = [op EXCEPT ![o].pc = "undoFailed"]
        BY <3>1, <3>4 DEF Settle, Go
      <4>2. p = "undoFailed"
        BY <1>4, <4>1 DEF TypeInv, OpTypes, Operation
      <4> QED
        BY <4>2
    <3> QED
      BY <3>1, <3>3, <3>4
  <2>4. CASE ~InstallCommit(o) /\ ~InstallStore(o) /\ ~InstallUnmark(o)
    <3>1. \E q \in Pc \ UnlockPc : op' = [op EXCEPT ![o].pc = q]
      <4> USE <2>4 DEF Pc, UnlockPc, Unanswered, Go, Done
      <4>1. RemoveCommit(o) \/ ClearCommit(o) => op[o].kind # "install"
        BY DEF RemoveCommit, ClearCommit
      <4>2. CASE RemoveStored(o)
        BY <4>2 DEF RemoveStored
      <4>3. CASE LeaveLockMarker(o)
        BY <4>3 DEF LeaveLockMarker
      <4>4. CASE ClearMark(o) \/ ClearList(o)
        BY <4>4 DEF ClearMark, ClearList
      <4>5. CASE ClearRemove(o)
        BY <4>5 DEF ClearRemove, ClearEnd
      <4> QED
        BY <1>0, <4>1, <4>2, <4>3, <4>4, <4>5 DEF Commit
    <3>2. p \notin UnlockPc
      BY <1>4, <3>1 DEF TypeInv, OpTypes, Operation
    <3> QED
      BY <3>2 DEF UnlockPc
  <2> QED
    BY <2>1, <2>2, <2>3, <2>4
<1> HIDE DEF v
<1>8. LET w == op'[o].vault IN
      /\ \A i, j \in 1..Len(queue') : queue'[i] = o /\ op'[queue'[j]].kind # "install" => j < i
      /\ p \in {"storing", "unmarking", "installed"} =>
            OnlyUnlocksWait(o)' /\ veks'[w] = o /\ w \in candidates' /\ ~poisoned'
      /\ p \in {"unmarking", "installed"} => durable'[w] = o
      /\ p = "installed" => ~marked'
  BY <1>4, <1>5, <1>6, <1>7
<1> QED
  BY <1>4, <1>8 DEF RecentOf

LEMMA RecentIsKept ==
    ASSUME TypeInv, InOrder, QueueInv, UnlocksInstall, Recent, [Next]_vars
    PROVE  Recent'
<1>0. epoch \in Nat /\ (\A x : EpochAfter(x) \in Nat /\ EpochAfter(x) >= epoch)
  BY DEF TypeInv, OpTypes, EpochAfter
<1>1. CASE UNCHANGED vars
  BY <1>1 DEF vars, keyVars, lockVars, opVars, Recent, RecentOf, Latest, OnlyUnlocksWait
<1>2. ASSUME NEW o \in Op, BeginLock(o) \/ ClearSession(o) \/ (ScreenLock(o) /\ ~ActiveVaultLocked)
      PROVE  Recent'
  <2>1. epoch' = epoch + 1 /\ BeginStep(o) /\ ~BeginInstall(o)
    <3>1. epoch' = epoch + 1 /\ BeginStep(o)
      BY <1>2 DEF BeginLock, ClearSession, ScreenLock, BeginStep
    <3>2. ~BeginInstall(o)
      <4>1. op'[o].kind # "install"
        BY <1>2 DEF BeginLock, ClearSession, ScreenLock, Begin, TypeInv, OpTypes
      <4> QED
        BY <4>1, <3>1, BeginMoves
    <3> QED
      BY <3>1, <3>2
  <2>2. \A k \in Op : op'[k].kind = "install" => op'[k].epoch = op[k].epoch /\ op[k].kind = "install"
    BY <2>1, BeginMoves
  <2> QED
    BY <1>0, <2>1, <2>2, NewEpochKeepsRecent
<1>3. ASSUME NEW o \in Op, ScreenLock(o), ActiveVaultLocked PROVE Recent'
  <2>1. /\ UNCHANGED <<veks, durable, candidates, marked, poisoned, epoch, queue>>
        /\ Begin(o, "screen", None, 0, "skipped")
    BY <1>3 DEF ScreenLock, keyVars, lockVars
  <2>2. \A k \in Op : k # o => op'[k] = op[k]
    BY <2>1 DEF Begin, TypeInv, OpTypes
  <2>3. op'[o].kind = "screen"
    BY <2>1 DEF Begin, TypeInv, OpTypes
  <2>4. op[o].pc = "unused"
    BY <1>3 DEF ScreenLock, Fresh
  <2>5. \A i \in 1..Len(queue) : queue[i] \in Op /\ queue[i] # o
    BY <2>4, QueueIsTyped DEF QueueInv, Working, QueueTypes
  <2>6. ASSUME NEW k \in Op, Latest(k)' PROVE RecentOf(k)'
    <3>1. k # o /\ Latest(k)
      BY <2>1, <2>2, <2>3, <2>6 DEF Latest
    <3> QED
      BY <2>1, <2>2, <2>5, <3>1 DEF Recent, RecentOf, OnlyUnlocksWait
  <2> QED
    BY <2>6 DEF Recent
<1>4. ASSUME NEW o \in Op, BeginInstall(o) PROVE Recent'
  <2>1. /\ queue' = queue /\ epoch' = EpochAfter(stored) + 1 /\ BeginStep(o)
    BY <1>4 DEF BeginInstall, BeginStep
  <2>2. /\ \A k \in Op : k # o => op'[k] = op[k]
        /\ op'[o].pc = "crypto" /\ op[o].pc = "unused"
    BY <1>4, <2>1, BeginMoves
  <2>3. \A i \in 1..Len(queue) : queue[i] # o
    BY <2>2, QueueIsTyped DEF QueueInv, Working, QueueTypes
  <2>4. ASSUME NEW k \in Op, k # o PROVE ~Latest(k)'
    <3>1. op[k].kind = "install" => op[k].epoch <= epoch /\ op[k].epoch \in Nat
      BY DEF InOrder, TypeInv, OpTypes, Operation
    <3>2. epoch' > epoch
      BY <1>0, <2>1
    <3> QED
      BY <1>0, <2>2, <2>4, <3>1, <3>2 DEF Latest
  <2>5. RecentOf(o)'
    BY <2>1, <2>2, <2>3 DEF RecentOf
  <2> QED
    BY <2>4, <2>5 DEF Recent
<1>5. ASSUME NEW o \in Op, LockVault(o) PROVE Recent'
  <2>1. epoch' = EpochAfter(stored) + 1
    BY <1>5 DEF LockVault
  <2>2. \A k \in Op : op'[k].kind = "install" => op'[k].epoch = op[k].epoch /\ op[k].kind = "install"
    BY <1>5, LockVaultMoves
  <2> QED
    BY <1>0, <2>1, <2>2, NewEpochKeepsRecent
<1>6. ASSUME NEW o \in Op, CryptoReply(o) \/ Answer(o), epoch' = epoch PROVE Recent'
  <2>1. PICK p \in {"queued", "denied", "unlocked", "stale"} :
           MovesTo(o, p) /\ queue' = IF p = "queued" THEN Append(queue, o) ELSE queue
    BY <1>6, ReplyMoves
  <2>2. UNCHANGED <<veks, durable, candidates, marked, poisoned>>
    BY <1>6 DEF CryptoReply, Answer, keyVars, lockVars
  <2>3. op[o].kind = "install" /\ op[o].pc \in {"crypto", "installed"}
    BY <1>6 DEF CryptoReply, Answer, UnlocksInstall, UnlockPc
  <2>4. /\ \A m \in Op : op'[m].kind = op[m].kind /\ op'[m].epoch = op[m].epoch
                         /\ op'[m].vault = op[m].vault
        /\ \A m \in Op : m # o => op'[m].pc = op[m].pc
        /\ op'[o].pc = p /\ op[o].pc \notin Working \cup {"queued"}
    BY <2>1, <2>3 DEF MovesTo, Working
  <2>5. \A i \in 1..Len(queue) : queue[i] # o
    BY <2>4, QueueIsTyped DEF QueueInv, QueueTypes
  <2>6. ASSUME NEW k \in Op, Latest(k)' PROVE RecentOf(k)'
    <3>1. Latest(k) /\ RecentOf(k)
      BY <1>6, <2>4, <2>6 DEF Latest, Recent
    <3>2. OnlyUnlocksWait(k) => OnlyUnlocksWait(k)'
      BY <2>1, <2>3, <2>4, <2>5, QueueKeepsWaiting
    <3>3. \A i, j \in 1..Len(queue') : queue'[i] = k /\ op'[queue'[j]].kind # "install" => j < i
      BY <2>1, <2>3, <2>4, <3>1, QueueKeepsWaiting DEF RecentOf
    <3>4. CASE k = o
      BY <2>4, <3>3, <3>4 DEF RecentOf
    <3>5. CASE k # o
      BY <2>2, <2>4, <3>1, <3>2, <3>3, <3>5 DEF RecentOf
    <3> QED
      BY <3>4, <3>5
  <2> QED
    BY <2>6 DEF Recent
<1>7. ASSUME NEW o \in Op, Answer(o), epoch' # epoch PROVE Recent'
  <2>1. epoch' \in Nat /\ epoch' > epoch
    BY <1>0, <1>7 DEF Answer
  <2>2. \A k \in Op : op'[k].kind = op[k].kind /\ op'[k].epoch = op[k].epoch
    BY <1>7, ReplyMoves DEF MovesTo
  <2> QED
    BY <2>1, <2>2, NewEpochKeepsRecent
<1>8. ASSUME NEW o \in Op, Commit(o) PROVE Recent'
  <2>1. PICK p : Turn(o, p)
    BY <1>8, CommitIsTurn
  <2>2. MovesTo(o, p) /\ epoch' = epoch
    BY <2>1, TypeInvGivesTypes, Moving DEF Turn
  <2>3. ASSUME NEW k \in Op, Latest(k)' PROVE RecentOf(k)'
    <3>1. Latest(k) /\ RecentOf(k)
      BY <2>2, <2>3 DEF Latest, Recent, MovesTo
    <3>2. CASE k = o
      BY <1>8, <3>1, <3>2, UnlockKeepsRecent
    <3>3. CASE k # o
      <4>1. /\ op'[k].pc = op[k].pc /\ op'[k].vault = op[k].vault
            /\ \A m \in Op : op'[m].kind = op[m].kind
            /\ \A m \in Op : m # o => op'[m].pc = op[m].pc
        BY <2>2, <3>3 DEF MovesTo
      <4>2. queue # <<>> /\ Head(queue) = o /\ (queue' = queue \/ queue' = Tail(queue))
        BY <2>1 DEF Turn
      <4>3. \A i, j \in 1..Len(queue') : queue'[i] = k /\ op'[queue'[j]].kind # "install" => j < i
        BY <3>1, <4>1, <4>2, QueueKeepsWaiting DEF RecentOf
      <4>4. op[k].pc \notin Working
        BY <3>3, <4>2 DEF QueueInv
      <4>5. CASE op[k].pc = "installed"
        <5>1. OnlyUnlocksWait(k) /\ Begun(k) /\ Begun(o)
          BY <2>1, <3>1, <4>5 DEF RecentOf, Begun, Turn, Working
        <5>2. ~Latest(o)
          BY <3>1, <3>3, <5>1, OneLatest
        <5>3. Done(o, "stale") /\ UNCHANGED <<keyVars, lockVars>>
          BY <1>8, <3>3, <5>1, <5>2, StaleUnlock
        <5>4. queue' = Tail(queue)
          BY <5>3 DEF Done
        <5>5. OnlyUnlocksWait(k)'
          BY <4>1, <4>2, <5>1, <5>4, QueueKeepsWaiting
        <5> QED
          BY <3>1, <4>1, <4>3, <5>3, <5>5 DEF RecentOf, keyVars, lockVars
      <4>6. CASE op[k].pc # "installed"
        BY <4>1, <4>3, <4>4, <4>6 DEF RecentOf, Working
      <4> QED
        BY <4>5, <4>6
    <3> QED
      BY <3>2, <3>3
  <2> QED
    BY <2>3 DEF Recent
<1>9. CASE \/ \E v \in Vault \cup {None} : SetActiveVault(v)
           \/ OnActiveChanged
  <2>1. UNCHANGED <<veks, durable, candidates, marked, poisoned, op, queue>>
        /\ epoch' \in Nat /\ epoch' >= epoch
    BY <1>0, <1>9 DEF SetActiveVault, OnActiveChanged, keyVars, lockVars, opVars
  <2>2. CASE epoch' = epoch
    BY <2>1, <2>2 DEF Recent, RecentOf, Latest, OnlyUnlocksWait
  <2>3. CASE epoch' # epoch
    BY <1>0, <2>1, <2>3, NewEpochKeepsRecent
  <2> QED
    BY <2>2, <2>3
<1>10. CASE WorkerDies
  <2>1. epoch' = epoch + 1
    BY <1>10 DEF WorkerDies
  <2>2. \A k \in Op : op'[k].kind = op[k].kind /\ op'[k].epoch = op[k].epoch
    BY <1>10, DeathMoves
  <2> QED
    BY <1>0, <2>1, <2>2, NewEpochKeepsRecent
<1>11. CASE HydrateRead \/ Hydrate \/ HydrateClean
  <2>1. hydration # "ready" /\ UNCHANGED <<op, queue>>
    BY <1>11 DEF HydrateRead, Hydrate, HydrateClean, opVars
  <2>2. ASSUME NEW k \in Op, op[k].kind = "install" PROVE op[k].pc \notin Unanswered
    BY <2>1, <2>2 DEF QueueInv
  <2>3. \A i \in 1..Len(queue) : op[queue[i]].pc \in Unanswered
    BY DEF QueueInv, Working, Unanswered
  <2>4. ASSUME NEW k \in Op, op[k].kind = "install" PROVE RecentOf(k)'
    <3>1. \A i \in 1..Len(queue') : queue'[i] # k
      BY <2>1, <2>2, <2>3, <2>4
    <3>2. op'[k].pc \notin {"storing", "unmarking", "installed"}
      BY <2>1, <2>2, <2>4 DEF Unanswered
    <3> QED
      BY <3>1, <3>2 DEF RecentOf
  <2> QED
    BY <2>1, <2>4 DEF Recent, Latest
<1> QED
  BY <1>1, <1>2, <1>3, <1>4, <1>5, <1>6, <1>7, <1>8, <1>9, <1>10, <1>11 DEF Next, Step, CryptoReply

(* A step after which nobody relies on an unlock, or that leaves alone what the
   unlock rests on. *)
LEMMA QuietKeepsTold ==
    ASSUME Told, told' \subseteq told,
           UNCHANGED <<veks, durable, candidates, marked, marker, poisoned, stored, hydration>>,
           \A o \in told' :
              /\ op'[o].pc = op[o].pc /\ op'[o].vault = op[o].vault
              /\ \A k \in Op : k > o => (Begun(k)' => Begun(k))
              /\ OnlyUnlocksWait(o) => OnlyUnlocksWait(o)'
              /\ notes' = <<>> /\ ~marker /\ stored = op[o].vault =>
                    activeId' = stored \/ (notes = <<>> /\ activeId' = activeId)
    PROVE  Told'
<1> SUFFICES ASSUME NEW o \in told' PROVE ToldOf(o)'
  BY DEF Told
<1>1. ToldOf(o)
  BY DEF Told
<1> QED
  BY <1>1 DEF ToldOf

LEMMA ReplyKeepsTold ==
    ASSUME TypeInv, InOrder, QueueInv, ToldInv, NEW o \in Op,
           CryptoReply(o) \/ Answer(o)
    PROVE  Told'
<1>0. \A k \in told : k \in Op /\ op[k].pc = "unlocked" /\ k # o /\ ToldOf(k)
  BY DEF TypeInv, LockTypes, ToldInv, Told, ToldOf, CryptoReply, Answer
<1>1. PICK p \in {"queued", "denied", "unlocked", "stale"} :
         /\ MovesTo(o, p)
         /\ CryptoReply(o) => p \in {"queued", "denied"} /\ epoch' = epoch
         /\ Answer(o) => p \in {"unlocked", "stale"}
         /\ queue' = IF p = "queued" THEN Append(queue, o) ELSE queue
  BY ReplyMoves
<1>2. op[o].kind = "install" /\ op[o].pc \in {"crypto", "installed"}
  BY DEF CryptoReply, Answer, ToldInv, UnlocksInstall, UnlockPc
<1>3. /\ \A m \in Op : op'[m].kind = op[m].kind /\ op'[m].epoch = op[m].epoch
                       /\ op'[m].vault = op[m].vault
      /\ \A m \in Op : m # o => op'[m].pc = op[m].pc
      /\ op'[o].pc = p /\ op[o].pc \notin Working \cup {"queued"} /\ Begun(o)
  BY <1>1, <1>2 DEF MovesTo, Working, Begun
<1>4. \A i \in 1..Len(queue) : queue[i] # o
  BY <1>3, QueueIsTyped DEF QueueInv, QueueTypes
<1>5. ASSUME NEW k \in Op PROVE OnlyUnlocksWait(k) => OnlyUnlocksWait(k)'
  BY <1>1, <1>2, <1>3, <1>4, QueueKeepsWaiting
<1>6. UNCHANGED <<veks, durable, candidates, marked, marker, poisoned, hydration>>
  BY DEF CryptoReply, Answer, keyVars, lockVars, wakeVars
<1>7. CASE CryptoReply(o)
  <2>1. UNCHANGED <<told, stored, notes, activeId>>
    BY <1>7 DEF CryptoReply, activeVars
  <2>2. \A m \in Op : Begun(m)' => Begun(m)
    BY <1>3 DEF Begun
  <2> QED
    BY <1>0, <1>3, <1>5, <1>6, <2>1, <2>2, QuietKeepsTold DEF ToldInv
<1>8. CASE Answer(o) /\ EpochAfter(stored) # op[o].epoch
  <2>1. UNCHANGED <<told, stored, notes>> /\ activeId' = stored
    BY <1>8 DEF Answer
  <2>2. \A m \in Op : Begun(m)' => Begun(m)
    BY <1>3 DEF Begun
  <2> QED
    BY <1>0, <1>3, <1>5, <1>6, <2>1, <2>2, QuietKeepsTold DEF ToldInv
<1>9. CASE Answer(o) /\ EpochAfter(stored) = op[o].epoch
  <2> DEFINE v == op[o].vault
  <2>1. /\ op' = [op EXCEPT ![o].pc = "unlocked"] /\ WriteActive(v) /\ told' = {o}
        /\ activeId' = stored /\ queue' = queue /\ op[o].pc = "installed"
    BY <1>9 DEF Answer
  <2>2. op[o].epoch = epoch /\ epoch \in Nat
    BY <1>2, <1>9 DEF EpochAfter, InOrder, TypeInv, OpTypes
  <2>3. Latest(o)
    BY <1>2, <2>2 DEF Latest
  <2>4. RecentOf(o)
    BY <2>3 DEF ToldInv, Recent
  <2>5. OnlyUnlocksWait(o)'
    BY <1>5, <2>1, <2>4 DEF RecentOf
  <2>6. veks[v] = o /\ durable[v] = o /\ ~poisoned /\ ~marked
    BY <2>1, <2>4 DEF RecentOf
  <2>7. v \in Place
    BY DEF TypeInv, OpTypes, Operation
  <2>8. stored' = v /\ (notes' = <<>> => activeId' = v)
    BY <2>1, <2>7, WriteActiveKeepsLast DEF TypeInv, ToldInv, Activity
  <2>9. \A k \in Op : k > o => ~Begun(k)'
    <3>1. \A k \in Op : k > o => ~Begun(k) /\ k # o
      BY <1>2, <2>2, OpAssumption DEF InOrder
    <3> QED
      BY <1>3, <3>1 DEF Begun
  <2>10. op'[o].pc = "unlocked" /\ op'[o].vault = v
    BY <1>3, <2>1 DEF TypeInv, OpTypes, Operation
  <2>11. ToldOf(o)'
    BY <1>6, <2>5, <2>6, <2>8, <2>9, <2>10 DEF ToldOf
  <2> QED
    BY <2>1, <2>11 DEF Told
<1> QED
  BY <1>7, <1>8, <1>9

LEMMA CommitKeepsTold ==
    ASSUME TypeInv, InOrder, QueueInv, ToldInv, NEW o \in Op, Commit(o)
    PROVE  Told'
<1>1. PICK p : Turn(o, p)
  BY CommitIsTurn
<1>2. told' = told
  BY DEF Commit, InstallCommit, InstallStore, InstallUnmark, RemoveCommit, RemoveStored,
     LeaveLockMarker, ClearCommit, ClearMark, ClearList, ClearRemove
<1> SUFFICES ASSUME NEW k \in told PROVE ToldOf(k)'
  BY <1>2 DEF Told
<1>3. k \in Op /\ ToldOf(k) /\ op[k].pc = "unlocked" /\ k \in Nat /\ o \in Nat
  BY OpAssumption DEF TypeInv, LockTypes, ToldInv, Told, ToldOf
<1>4. k # o /\ Begun(k) /\ Begun(o)
  BY <1>1, <1>3 DEF Turn, Working, Begun
<1>5. op[k].kind = "install"
  BY <1>3 DEF ToldInv, UnlocksInstall, UnlockPc
<1>6. o < k
  BY <1>3, <1>4 DEF ToldOf
<1>7. ~Latest(o)
  BY <1>3, <1>4, <1>6 DEF InOrder, Latest, TypeInv, OpTypes
<1>8. /\ Done(o, "stale")
      /\ UNCHANGED <<keyVars, lockVars, epoch, clearing, activeVars, wakeVars, counters, told>>
  BY <1>3, <1>4, <1>7, StaleUnlock DEF ToldOf
<1>9. MovesTo(o, "stale")
  <2>1. op' = [op EXCEPT ![o].pc = "stale"] /\ "stale" \in Pc
    BY <1>8 DEF Done, Pc
  <2> QED
    BY <2>1, TypeInvGivesTypes, Moving
<1>10. OnlyUnlocksWait(k)'
  <2>1. queue' = Tail(queue) /\ queue # <<>> /\ Head(queue) = o
    BY <1>1, <1>8 DEF Done, Turn
  <2> QED
    BY <1>3, <1>9, <2>1, QueueKeepsWaiting DEF ToldOf, MovesTo
<1>11. \A m \in Op : Begun(m)' => Begun(m)
  BY <1>4, <1>9 DEF MovesTo, Begun
<1> QED
  BY <1>3, <1>4, <1>8, <1>9, <1>10, <1>11 DEF ToldOf, MovesTo, keyVars, lockVars, activeVars,
     wakeVars

LEMMA ToldIsKept ==
    ASSUME TypeInv, InOrder, QueueInv, ToldInv, [Next]_vars
    PROVE  Told'
<1>0. \A k \in told : k \in Op /\ op[k].pc = "unlocked" /\ ToldOf(k)
  BY DEF TypeInv, LockTypes, ToldInv, Told, ToldOf
<1>1. CASE UNCHANGED vars
  BY <1>1 DEF vars, keyVars, lockVars, opVars, activeVars, wakeVars, ToldInv, Told, ToldOf,
     Begun, OnlyUnlocksWait
<1>2. CASE told' = {}
  BY <1>2 DEF Told
<1>3. ASSUME NEW o \in Op, BeginStep(o) PROVE Told'
  <2>1. CASE ScreenLock(o) /\ ActiveVaultLocked
    <3>1. /\ UNCHANGED <<veks, durable, candidates, marked, marker, poisoned, queue, stored,
                         notes, activeId, hydration, told>>
          /\ Begin(o, "screen", None, 0, "skipped") /\ op[o].pc = "unused"
      BY <2>1 DEF ScreenLock, Fresh, keyVars, lockVars, activeVars
    <3>2. /\ \A k \in Op : k # o => op'[k] = op[k]
          /\ op'[o].pc = "skipped"
      BY <3>1 DEF Begin, TypeInv, OpTypes
    <3>3. \A k \in Op : Begun(k)' => Begun(k)
      BY <3>2 DEF Begun
    <3>4. \A i \in 1..Len(queue) : queue[i] \in Op /\ queue[i] # o
      BY <3>1, QueueIsTyped DEF QueueInv, Working, QueueTypes
    <3>5. ASSUME NEW k \in Op PROVE OnlyUnlocksWait(k) => OnlyUnlocksWait(k)'
      BY <3>1, <3>2, <3>4 DEF OnlyUnlocksWait
    <3>6. \A k \in told : k # o
      BY <1>0, <3>1
    <3> QED
      BY <1>0, <3>1, <3>2, <3>3, <3>5, <3>6, QuietKeepsTold DEF ToldInv
  <2>2. CASE ~(ScreenLock(o) /\ ActiveVaultLocked)
    BY <1>2, <1>3, <2>2 DEF BeginStep, BeginInstall, BeginLock, ClearSession, ScreenLock
  <2> QED
    BY <2>1, <2>2
<1>4. ASSUME NEW o \in Op, LockVault(o) PROVE Told'
  BY <1>2, <1>4 DEF LockVault
<1>5. CASE \E v \in Vault \cup {None} : SetActiveVault(v)
  BY <1>2, <1>5 DEF SetActiveVault
<1>6. CASE OnActiveChanged
  <2>1. /\ UNCHANGED <<veks, durable, candidates, marked, marker, poisoned, stored, hydration, told>>
        /\ op' = op /\ queue' = queue
    BY <1>6 DEF OnActiveChanged, keyVars, lockVars, opVars, wakeVars
  <2>2. \A k \in told : op[k].vault # None
    BY <1>0, VaultAssumption DEF ToldInv, UnlocksInstall, UnlockPc, TypeInv, OpTypes,
       InstallsNameVaults
  <2>3. notes' = <<>> /\ stored # None => activeId' = stored
    BY <1>6, HearingKeepsActivity DEF ToldInv
  <2> QED
    BY <2>1, <2>2, <2>3, QuietKeepsTold DEF ToldInv, OnlyUnlocksWait, Begun
<1>7. CASE WorkerDies
  <2>1. /\ candidates' = {} /\ Len(queue') = 0
        /\ UNCHANGED <<durable, marker, stored, told>>
    BY <1>7 DEF WorkerDies
  <2>2. \A k \in Op : /\ op'[k].vault = op[k].vault
                      /\ op'[k].pc = IF op[k].pc \in Unanswered THEN "lost" ELSE op[k].pc
    BY <1>7, DeathMoves
  <2>3. \A k \in Op : Begun(k)' => Begun(k)
    BY <2>2 DEF Begun, Unanswered
  <2>4. ASSUME NEW k \in told PROVE ToldOf(k)'
    BY <1>0, <2>1, <2>2, <2>3 DEF ToldOf, Unanswered, OnlyUnlocksWait
  <2> QED
    BY <2>1, <2>4 DEF Told
<1>10. CASE HydrateRead
  <2>1. /\ hydration = "reading" /\ op' = op /\ queue' = queue
        /\ UNCHANGED <<durable, candidates, marker, stored, told>>
    BY <1>10 DEF HydrateRead, keyVars, lockVars, opVars, activeVars
  <2>2. told # {} => candidates = {}
    BY <2>1 DEF ToldInv, Waking
  <2>3. ASSUME NEW k \in told PROVE ToldOf(k)'
    BY <1>0, <2>1, <2>2 DEF ToldOf, OnlyUnlocksWait, Begun
  <2> QED
    BY <2>1, <2>3 DEF Told
<1>8. CASE Hydrate
  <2>1. /\ hydration = "read" /\ op' = op /\ queue' = queue
        /\ UNCHANGED <<durable, marker, poisoned, stored, notes, told>>
    BY <1>8 DEF Hydrate, opVars
  <2>2. told # {} =>
           /\ candidates = {} /\ ~poisoned
           /\ snapshot.keys = durable /\ snapshot.marker = marker /\ snapshot.active = stored
    BY <2>1 DEF ToldInv, Waking
  <2>3. told # {} =>
        \/ marker
        \/ /\ ~marked' /\ activeId' = stored
           /\ veks' = [v \in Vault |-> IF v \in {w \in Vault : durable[w] # 0}
                                     THEN durable[v] ELSE veks[v]]
    BY <1>8, <2>2 DEF Hydrate
  <2>4. ASSUME NEW k \in told PROVE ToldOf(k)'
    <3>1. k \in Op /\ k # 0 /\ ToldOf(k) /\ op[k].vault \in Vault
      BY <1>0, OpAssumption DEF ToldInv, UnlocksInstall, UnlockPc, TypeInv, OpTypes,
         InstallsNameVaults
    <3> QED
      BY <2>1, <2>2, <2>3, <3>1 DEF ToldOf, OnlyUnlocksWait, Begun
  <2> QED
    BY <2>1, <2>4 DEF Told
<1>9. CASE HydrateClean
  <2>1. /\ marker /\ marker' = marker /\ op' = op /\ queue' = queue /\ told' = told
    BY <1>9 DEF HydrateClean, opVars, ToldInv, Activity
  <2> QED
    BY <1>0, <2>1 DEF Told, ToldOf, OnlyUnlocksWait, Begun
<1> QED
  BY <1>1, <1>3, <1>4, <1>5, <1>6, <1>7, <1>8, <1>9, <1>10, ReplyKeepsTold, CommitKeepsTold
     DEF Next, Step, BeginStep

(* Nothing that a starting worker has read changes while a view relies on it. *)
LEMMA WakingIsKept ==
    ASSUME TypeInv, QueueInv, ToldInv, [Next]_vars
    PROVE  Waking'
<1>1. CASE UNCHANGED vars
  BY <1>1 DEF vars, keyVars, lockVars, activeVars, wakeVars, ToldInv, Waking
<1>2. CASE told' = {} \/ hydration' \notin {"reading", "read"}
  BY <1>2 DEF Waking
<1>3. CASE UNCHANGED <<durable, candidates, lockVars, stored, hydration, snapshot, told>>
  BY <1>3 DEF lockVars, ToldInv, Waking
<1>4. ASSUME NEW o \in Op, BeginStep(o) PROVE Waking'
  <2>1. CASE ScreenLock(o) /\ ActiveVaultLocked
    BY <1>3, <2>1 DEF ScreenLock, keyVars, activeVars
  <2>2. CASE ~(ScreenLock(o) /\ ActiveVaultLocked)
    BY <1>2, <1>4, <2>2 DEF BeginStep, BeginInstall, BeginLock, ClearSession, ScreenLock
  <2> QED
    BY <2>1, <2>2
<1>5. ASSUME NEW o \in Op, CryptoReply(o) PROVE Waking'
  BY <1>3, <1>5 DEF CryptoReply, keyVars, activeVars, wakeVars
<1>6. ASSUME NEW o \in Op, LockVault(o) PROVE Waking'
  BY <1>2, <1>6 DEF LockVault
<1>7. ASSUME NEW o \in Op, Answer(o) PROVE Waking'
  <2>1. hydration = "ready"
    BY <1>7 DEF Answer, QueueInv, Unanswered, ClearPc
  <2> QED
    BY <1>2, <1>7, <2>1 DEF Answer, wakeVars
<1>8. ASSUME NEW o \in Op, Commit(o) PROVE Waking'
  <2>1. PICK p : Turn(o, p)
    BY <1>8, CommitIsTurn
  <2>2. CASE hydration = "ready"
    BY <1>2, <2>1, <2>2 DEF Turn, wakeVars
  <2>3. CASE hydration # "ready"
    <3>1. op[o].kind = "clear" /\ op[o].pc \in ClearPc
      BY <2>1, <2>3, TypeInvGivesTypes, TurnFacts
    <3>2. queue[1] = o /\ 1 \in 1..Len(queue)
      BY <2>1, QueueIsTyped DEF Turn, QueueTypes
    <3>3. \A k \in told : ToldOf(k) /\ k # o
      BY <3>1 DEF ToldInv, Told, ToldOf, ClearPc
    <3>4. told = {}
      BY <3>1, <3>2, <3>3 DEF ToldOf, OnlyUnlocksWait
    <3>5. told' = told
      BY <1>8 DEF Commit, InstallCommit, InstallStore, InstallUnmark, RemoveCommit, RemoveStored,
         LeaveLockMarker, ClearCommit, ClearMark, ClearList, ClearRemove
    <3> QED
      BY <1>2, <3>4, <3>5
  <2> QED
    BY <2>2, <2>3
<1>9. ASSUME NEW v \in Vault \cup {None}, SetActiveVault(v) PROVE Waking'
  BY <1>2, <1>9 DEF SetActiveVault
<1>10. CASE OnActiveChanged
  BY <1>3, <1>10 DEF OnActiveChanged, keyVars, wakeVars
<1>11. CASE WorkerDies
  BY <1>11 DEF WorkerDies, Waking
<1>12. CASE HydrateRead
  BY <1>12 DEF HydrateRead, keyVars, lockVars, activeVars, ToldInv, Waking
<1>13. CASE Hydrate \/ HydrateClean
  BY <1>2, <1>13 DEF Hydrate, HydrateClean
<1> QED
  BY <1>1, <1>4, <1>5, <1>6, <1>7, <1>8, <1>9, <1>10, <1>11, <1>12, <1>13
     DEF Next, Step, BeginStep

(* An unlock a view was told of can be relied on: the next worker finds its key
   in storage, and once the last change of the active vault has gone round
   nothing takes the vault for locked. *)
THEOREM UnlocksAreTrue == Spec => []UnlockedIsTrue
<1>1. Spec => []TypeInv
  BY TypeInvHolds
<1>2. Spec => [](Types /\ InOrder /\ QueueInv /\ KeyInv)
  BY InvariantHolds
<1>3. Init => ToldInv
  <2> SUFFICES ASSUME Init PROVE ToldInv
    OBVIOUS
  <2>1. \A o \in Op : op[o].pc = "unused" /\ op[o].kind = "none"
    BY DEF Init
  <2>2. notes = <<>> /\ Len(expected) = 0 /\ hydration = "ready" /\ told = {}
    BY DEF Init
  <2> QED
    BY <2>1, <2>2 DEF ToldInv, UnlocksInstall, UnlockPc, Activity, Recent, Latest, Told, Waking
<1>4. TypeInv /\ (Types /\ InOrder /\ QueueInv /\ KeyInv) /\ ToldInv /\ [Next]_vars => ToldInv'
  BY UnlocksStayInstalls, ActivityIsKept, RecentIsKept, ToldIsKept, WakingIsKept DEF ToldInv
<1>5. TypeInv /\ ToldInv => UnlockedIsTrue
  BY ToldIsTrue
<1> QED
  BY <1>1, <1>2, <1>3, <1>4, <1>5, PTL DEF Spec
=============================================================================
