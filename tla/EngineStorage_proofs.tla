------------------------ MODULE EngineStorage_proofs ------------------------
(***************************************************************************)
(* Proofs about EngineStorage: whatever the fault flags are, the types and *)
(* that no commit overwrites another one's work; without the flags, that   *)
(* what was acknowledged survives, and that DurableStore is implemented.   *)
(***************************************************************************)
EXTENDS EngineStorage, SequenceTheorems, TLAPS

(***************************************************************************)
(* Sequences without their last element, for TailOutcome and Synced.       *)
(***************************************************************************)
LEMMA FrontProperties ==
  ASSUME NEW S, NEW s \in Seq(S), NEW r, r = SubSeq(s, 1, Len(s) - 1)
  PROVE  /\ r \in Seq(S)
         /\ Len(r) = IF s = << >> THEN 0 ELSE Len(s) - 1
         /\ \A i \in 1 .. Len(r) : r[i] = s[i]
<1>1. \A i \in 1 .. Len(s) - 1 : s[i] \in S
  OBVIOUS
<1>2. Len(s) - 1 \in Int /\ 1 \in Int /\ Len(s) \in Nat /\ (s = << >> <=> Len(s) = 0)
  OBVIOUS
<1>3. /\ r \in Seq(S)
      /\ Len(r) = IF 1 <= Len(s) - 1 THEN Len(s) - 1 - 1 + 1 ELSE 0
      /\ \A i \in 1 .. Len(s) - 1 - 1 + 1 : r[i] = s[1 + i - 1]
  BY <1>1, <1>2, SubSeqProperties
<1> QED
  BY <1>2, <1>3

-----------------------------------------------------------------------------
(* Types of the values the actions share.                                  *)

LEMMA DefaultTypes ==
  NoTx \in Txs /\ NoJob \in Jobs /\ EmptyImage \in Images /\ "idle" \in Labels
BY DEF NoTx, NoJob, EmptyImage, Txs, Jobs, Images, Labels

LEMMA GotoType ==
  ASSUME TypeOK, NEW c \in Threads, NEW label \in Labels, Goto(c, label)
  PROVE  at' \in [Threads -> Labels] /\ job' \in [Threads -> Jobs]
BY DEF Goto, TypeOK

LEMMA EnterType ==
  ASSUME TypeOK, NEW c \in Threads,
         NEW kind \in {"commit", "bulk", "restore", "compact"},
         NEW label \in Labels, NEW ops \in Seq(Ops), NEW result \in Seq(Ops),
         Enter(c, kind, label, ops, result)
  PROVE  /\ lock' \in Threads \union {NoThread}
         /\ at' \in [Threads -> Labels] /\ job' \in [Threads -> Jobs]
BY DEF Enter, TypeOK, Jobs

LEMMA LeaveType ==
  ASSUME TypeOK, NEW c \in Threads, NEW ok, Leave(c, ok)
  PROVE  /\ lock' \in Threads \union {NoThread}
         /\ tx' \in [Threads -> Txs]
         /\ at' \in [Threads -> Labels] /\ job' \in [Threads -> Jobs]
         /\ image' \in [Threads -> Images]
         /\ promised' \in Seq(Ops) /\ inflight' \in SUBSET Seq(Ops)
<1>1. job[c].result \in Seq(Ops)
  BY DEF TypeOK, Jobs
<1> QED
  BY <1>1, DefaultTypes DEF Leave, TypeOK

LEMMA PageType ==
  ASSUME NEW id \in Nat, NEW v \in Nat, NEW ops \in Seq(Ops), NEW before \in Seq(Ops)
  PROVE  /\ Page(id, v, ops, before) \in Pages
         /\ Page(id, v, ops, before).id = id
         /\ Page(id, v, ops, before).version = v
         /\ Page(id, v, ops, before).ops = ops
         /\ Page(id, v, ops, before).before = before
BY DEF Page, Pages

LEMMA RaiseEither ==
  ASSUME NEW c \in Threads, CheckpointRaises(c)
  PROVE  Leave(c, TRUE) \/ Leave(c, FALSE)
<1>1. CASE at[c] \in {"ckSidecars", "ckWal"}
  BY <1>1 DEF CheckpointRaises, Leave
<1>2. CASE at[c] \notin {"ckSidecars", "ckWal"}
  BY <1>2 DEF CheckpointRaises, Leave
<1> QED
  BY <1>1, <1>2

-----------------------------------------------------------------------------
(* One lemma per group of actions, then the theorem.                       *)

LEMMA TypeTransactions ==
  ASSUME TypeOK, NEW c \in Threads,
         \/ Begin(c) \/ Rollback(c) \/ CommitConflict(c) \/ CommitStart(c)
         \/ \E o \in Ops : Execute(c, o) \/ BulkInsert(c, o)
  PROVE  TypeOK'
<1> USE DEF engineVars, savedVars, callVars, pageVars, imageVars, ghostVars
<1>1. ASSUME Begin(c) PROVE TypeOK'
  <2>1. [open |-> TRUE, base |-> version, tables |-> tables, ops |-> << >>] \in Txs
    BY DEF TypeOK, Txs
  <2> QED
    BY <1>1, <2>1 DEF Begin, TypeOK
<1>2. ASSUME Rollback(c) \/ CommitConflict(c) PROVE TypeOK'
  BY <1>2, DefaultTypes DEF Rollback, CommitConflict, TypeOK
<1>3. ASSUME NEW o \in Ops, Execute(c, o) PROVE TypeOK'
  <2>1. [open |-> TRUE, base |-> tx[c].base, tables |-> Append(tx[c].tables, o),
         ops |-> Append(tx[c].ops, o)] \in Txs
    BY DEF TypeOK, Txs
  <2> QED
    BY <1>3, <2>1 DEF Execute, TypeOK
<1>4. ASSUME CommitStart(c) PROVE TypeOK'
  <2>1. tx[c].ops \in Seq(Ops) /\ tx[c].tables \in Seq(Ops)
    BY DEF TypeOK, Txs
  <2>2. (IF tx[c].ops = << >> THEN "tables" ELSE "append") \in Labels
    BY DEF Labels
  <2> QED
    BY <1>4, <2>1, <2>2, EnterType DEF CommitStart, TypeOK
<1>5. ASSUME NEW o \in Ops, BulkInsert(c, o) PROVE TypeOK'
  <2>1. <<o>> \in Seq(Ops) /\ Append(tables, o) \in Seq(Ops) /\ "append" \in Labels
    BY DEF TypeOK, Labels
  <2> QED
    BY <1>5, <2>1, EnterType DEF BulkInsert, TypeOK
<1> QED
  BY <1>1, <1>2, <1>3, <1>4, <1>5

LEMMA TypeAppend ==
  ASSUME TypeOK, NEW c \in Threads,
         \/ AppendRecord(c) \/ RecordTooLarge(c) \/ SyncRecord(c) \/ SyncRaises(c)
         \/ PublishTables(c) \/ PublishVersion(c)
  PROVE  TypeOK'
<1> USE DEF engineVars, savedVars, pageVars, imageVars, ghostVars
<1>1. ASSUME AppendRecord(c) PROVE TypeOK'
  <2>1. Page(nextPage, version + 1, job[c].ops, tables) \in Pages
    BY PageType DEF TypeOK, Jobs
  <2>2. pages' \in Seq(Pages)
    BY <1>1, <2>1 DEF AppendRecord, TypeOK
  <2>3. "sync" \in Labels
    BY DEF Labels
  <2> QED
    BY <1>1, <2>2, <2>3, GotoType DEF AppendRecord, TypeOK
<1>2. ASSUME RecordTooLarge(c) \/ SyncRaises(c) PROVE TypeOK'
  BY <1>2, LeaveType DEF RecordTooLarge, SyncRaises, TypeOK
<1>3. ASSUME SyncRecord(c) PROVE TypeOK'
  <2>1. "tables" \in Labels
    BY DEF Labels
  <2> QED
    BY <1>3, <2>1, GotoType DEF SyncRecord, TypeOK
<1>4. ASSUME PublishTables(c) PROVE TypeOK'
  <2>1. "version" \in Labels /\ job[c].result \in Seq(Ops)
    BY DEF Labels, TypeOK, Jobs
  <2> QED
    BY <1>4, <2>1, GotoType DEF PublishTables, TypeOK
<1>5. ASSUME PublishVersion(c) PROVE TypeOK'
  <2>1. "ckVersion" \in Labels
    BY DEF Labels
  <2>2. version' \in Nat
    BY <1>5 DEF PublishVersion, TypeOK
  <2>3. CASE Goto(c, "ckVersion") /\ UNCHANGED <<lock, tx, image, ghostVars>>
    BY <1>5, <2>1, <2>2, <2>3, GotoType DEF PublishVersion, TypeOK
  <2>4. CASE Leave(c, TRUE)
    BY <1>5, <2>2, <2>4, LeaveType DEF PublishVersion, TypeOK
  <2> QED
    BY <1>5, <2>3, <2>4 DEF PublishVersion
<1> QED
  BY <1>1, <1>2, <1>3, <1>4, <1>5

LEMMA TypeCheckpoint ==
  ASSUME TypeOK, NEW c \in Threads,
         \/ SnapshotState(c) \/ RestoreState(c) \/ Compact(c) \/ Close(c)
         \/ ReadVersion(c) \/ ReadTables(c) \/ WriteTmp(c) \/ ReplaceState(c)
         \/ WriteSidecars(c) \/ IndexTooLarge(c) \/ TruncateWal(c)
         \/ CheckpointRaises(c) \/ RewritePages(c)
  PROVE  TypeOK'
<1> USE DEF engineVars, savedVars, pageVars, imageVars, ghostVars
<1>0. /\ {"tables", "ckVersion", "ckTables", "ckTmp", "ckReplace", "ckSidecars",
          "ckWal", "compact"} \subseteq Labels
      /\ << >> \in Seq(Ops)
  BY DEF Labels
<1>1. ASSUME SnapshotState(c) PROVE TypeOK'
  BY <1>1 DEF SnapshotState, TypeOK
<1>2. ASSUME RestoreState(c) PROVE TypeOK'
  <2>1. saved[1] \in Seq(Ops)
    BY <1>2 DEF RestoreState, TypeOK
  <2> QED
    BY <1>0, <1>2, <2>1, EnterType DEF RestoreState, TypeOK
<1>3. ASSUME Compact(c) PROVE TypeOK'
  <2>1. tables \in Seq(Ops)
    BY DEF TypeOK
  <2>2. /\ lock' \in Threads \union {NoThread}
        /\ at' \in [Threads -> Labels] /\ job' \in [Threads -> Jobs]
    BY <1>0, <1>3, <2>1, EnterType DEF Compact
  <2> QED
    BY <1>3, <2>2 DEF Compact, TypeOK
<1>4. ASSUME Close(c) PROVE TypeOK'
  BY <1>0, <1>4, DefaultTypes DEF Close, TypeOK, Jobs
<1>5. ASSUME ReadVersion(c) \/ ReadTables(c) PROVE TypeOK'
  <2>1. /\ [image[c] EXCEPT !.version = version] \in Images
        /\ [image[c] EXCEPT !.tables = tables] \in Images
    BY DEF TypeOK, Images
  <2>2. image' \in [Threads -> Images]
    BY <1>5, <2>1 DEF ReadVersion, ReadTables, TypeOK
  <2> QED
    BY <1>0, <1>5, <2>2, GotoType DEF ReadVersion, ReadTables, TypeOK
<1>6. ASSUME WriteTmp(c) PROVE TypeOK'
  <2>1. image[c] \in Images
    BY DEF TypeOK
  <2> QED
    BY <1>0, <1>6, <2>1, GotoType DEF WriteTmp, TypeOK
<1>7. ASSUME ReplaceState(c) PROVE TypeOK'
  <2>1. tmp[1] \in Images
    BY <1>7 DEF ReplaceState, TypeOK
  <2> QED
    BY <1>0, <1>7, <2>1, GotoType DEF ReplaceState, TypeOK
<1>8. ASSUME WriteSidecars(c) PROVE TypeOK'
  BY <1>0, <1>8, GotoType DEF WriteSidecars, TypeOK
<1>9. ASSUME TruncateWal(c) PROVE TypeOK'
  <2>1. CASE Goto(c, "compact") /\ UNCHANGED <<lock, tx, image, ghostVars>>
    BY <1>0, <1>9, <2>1, GotoType DEF TruncateWal, TypeOK
  <2>2. CASE Leave(c, TRUE)
    <3>1. << >> \in Seq(Pages)
      OBVIOUS
    <3> QED
      BY <1>9, <2>2, <3>1, LeaveType DEF TruncateWal, TypeOK
  <2> QED
    BY <1>9, <2>1, <2>2 DEF TruncateWal
<1>10. ASSUME CheckpointRaises(c) PROVE TypeOK'
  BY <1>10, LeaveType DEF CheckpointRaises, TypeOK
<1>12. ASSUME IndexTooLarge(c) PROVE TypeOK'
  BY <1>12, LeaveType DEF IndexTooLarge, TypeOK
<1>11. ASSUME RewritePages(c) PROVE TypeOK'
  <2>1. Page(0, version, job[c].result, << >>) \in Pages
    <3>1. version \in Nat /\ job[c].result \in Seq(Ops) /\ << >> \in Seq(Ops)
      BY DEF TypeOK, Jobs
    <3> QED
      BY <3>1, PageType
  <2>2. pages' \in Seq(Pages) /\ nextPage' \in Nat
    BY <1>11, <2>1 DEF RewritePages
  <2> QED
    BY <1>11, <2>2, LeaveType DEF RewritePages, TypeOK
<1> QED
  BY <1>1, <1>2, <1>3, <1>4, <1>5, <1>6, <1>7, <1>8, <1>9, <1>10, <1>11, <1>12

LEMMA TypeRecovery ==
  ASSUME TypeOK, Crash \/ Recover
  PROVE  TypeOK'
<1> USE DEF callVars, savedVars, pageVars, imageVars, ghostVars
<1>1. ASSUME Crash PROVE TypeOK'
  <2>0. /\ saved' \in Seq(Seq(Ops)) /\ Len(saved') <= 1 /\ shared' \in BOOLEAN
        /\ version' \in Nat /\ tables' \in Seq(Ops) /\ nextPage' \in Nat
        /\ pos' \in Nat \ {0} /\ phase' = "down"
    <3>1. << >> \in Seq(Seq(Ops)) /\ << >> \in Seq(Ops) /\ Len(<< >>) <= 1
      OBVIOUS
    <3>2. saved' = << >> /\ tables' = << >> /\ shared' = FALSE
      BY <1>1 DEF Crash
    <3>3. /\ version' \in Nat /\ nextPage' \in Nat
          /\ pos' \in Nat \ {0} /\ phase' = "down"
      BY <1>1 DEF Crash
    <3> QED
      BY <3>1, <3>2, <3>3
  <2>1. CASE pages' = pages
    <3>1. tail' \in {"clean", "unsynced", "torn"}
      BY <1>1, <2>1 DEF Crash, TailOutcome, TypeOK
    <3> QED
      BY <1>1, <2>0, <2>1, <3>1, DefaultTypes DEF Crash, TypeOK
  <2>2. CASE pages' = SubSeq(pages, 1, Len(pages) - 1) /\ tail' \in {"clean", "torn"}
    <3>1. pages' \in Seq(Pages)
      BY <2>2, FrontProperties DEF TypeOK
    <3> QED
      BY <1>1, <2>0, <2>2, <3>1, DefaultTypes DEF Crash, TypeOK
  <2> QED
    BY <1>1, <2>1, <2>2 DEF Crash, TailOutcome
<1>2. ASSUME Open PROVE TypeOK'
  <2>1. Len(pages) \in Nat /\ stateFile.version \in Nat /\ stateFile.tables \in Seq(Ops)
    BY DEF TypeOK, Images
  <2> QED
    BY <1>2, <2>1 DEF Open, DiscoverNextPageId, TypeOK
<1>3. ASSUME ReplayRecord PROVE TypeOK'
  <2>1. Log \in Seq(Pages) /\ pos \in 1 .. Len(Log)
    BY <1>3 DEF ReplayRecord, Log, TypeOK
  <2>2. Log[pos].version \in Nat /\ Log[pos].ops \in Seq(Ops)
    <3>1. Log[pos] \in Pages
      BY <2>1
    <3> QED
      BY <3>1 DEF Pages
  <2>3. tables \o Log[pos].ops \in Seq(Ops)
    BY <2>2 DEF TypeOK
  <2> QED
    BY <1>3, <2>2, <2>3, pos + 1 \in Nat \ {0} DEF ReplayRecord, TypeOK
<1>4. ASSUME RefuseToOpen \/ FinishOpen \/ RepairRaises PROVE TypeOK'
  BY <1>4 DEF RefuseToOpen, FinishOpen, RepairRaises, TypeOK
<1> QED
  BY <1>1, <1>2, <1>3, <1>4 DEF Recover

LEMMA TypeStep ==
  ASSUME TypeOK, [Next]_vars
  PROVE  TypeOK'
<1>1. CASE UNCHANGED vars
  BY <1>1 DEF vars, engineVars, callVars, savedVars, pageVars, imageVars, ghostVars, TypeOK
<1>2. CASE Next
  BY <1>2, TypeTransactions, TypeAppend, TypeCheckpoint, TypeRecovery
     DEF Next, CallStep
<1> QED
  BY <1>1, <1>2

LEMMA TypeInit ==
  ASSUME Init
  PROVE  TypeOK
<1>1. wal \in Seq(Pages) /\ promised \in Seq(Ops)
  <2>1. CASE wal = << >>
    BY <2>1 DEF Init
  <2>2. ASSUME NEW o \in Ops, wal = <<Page(0, 1, <<o>>, << >>)>>
        PROVE  wal \in Seq(Pages) /\ promised \in Seq(Ops)
    <3>1. /\ Page(0, 1, <<o>>, << >>) \in Pages
          /\ Page(0, 1, <<o>>, << >>).ops = <<o>>
      <4>1. <<o>> \in Seq(Ops) /\ << >> \in Seq(Ops)
        OBVIOUS
      <4> QED
        BY <4>1 DEF Page, Pages
    <3>2. wal \in Seq(Pages)
      BY <2>2, <3>1
    <3>3. promised = <<o>>
      BY <2>2, <3>1 DEF Init
    <3> QED
      BY <3>2, <3>3
  <2> QED
    BY <2>1, <2>2 DEF Init
<1>2. /\ << >> \in Seq(Ops) /\ << >> \in Seq(Seq(Ops)) /\ << >> \in Seq(Pages)
      /\ << >> \in Seq(Images) /\ {} \in SUBSET Seq(Ops)
  OBVIOUS
<1>3. /\ tx \in [Threads -> Txs] /\ at \in [Threads -> Labels]
      /\ job \in [Threads -> Jobs] /\ image \in [Threads -> Images]
      /\ stateFile \in Images
  BY DefaultTypes DEF Init
<1>4. /\ phase = "down" /\ version = 0 /\ tables = << >> /\ nextPage = 0 /\ pos = 1
      /\ lock = NoThread /\ saved = << >> /\ shared \in BOOLEAN
      /\ pages = << >> /\ pageFile \in BOOLEAN
      /\ tail = "clean" /\ tmp = << >> /\ catalog = 0 /\ images = << >>
      /\ inflight = {}
  BY DEF Init
<1>5. Len(saved) <= 1 /\ Len(tmp) <= 1 /\ lock \in Threads \union {NoThread}
  BY <1>4
<1> QED
  BY <1>1, <1>2, <1>3, <1>4, <1>5 DEF TypeOK

\* Every reachable state is well typed (TypeOK of the runs), whatever the number
\* of threads and operations, the checkpoint interval and the faults.
THEOREM TypeCorrect == Spec => []TypeOK
<1>1. Init => TypeOK
  BY TypeInit
<1>2. TypeOK /\ [Next]_vars => TypeOK'
  BY TypeStep
<1> QED
  BY <1>1, <1>2, PTL DEF Spec

-----------------------------------------------------------------------------
(* Isolation: IsolationInv is inductive and contains NoLostUpdate.         *)

LEMMA ConcatFacts ==
  ASSUME NEW s \in Seq(Ops), NEW t \in Seq(Ops), NEW e \in Ops
  PROVE  /\ s = s \o << >>
         /\ Append(s, e) = s \o <<e>>
         /\ Append(s \o t, e) = s \o Append(t, e)
<1>1. s = s \o << >>
  BY ConcatEmptySeq
<1>2. Append(s, e) = s \o <<e>>
  OBVIOUS
<1>3. /\ Append(s \o t, e) = (s \o t) \o <<e>>
      /\ Append(t, e) = t \o <<e>>
      /\ (s \o t) \o <<e>> = s \o (t \o <<e>>)
  <2>1. s \o t \in Seq(Ops) /\ <<e>> \in Seq(Ops)
    OBVIOUS
  <2>2. (s \o t) \o <<e>> = s \o (t \o <<e>>)
    BY <2>1, ConcatAssociative
  <2> QED
    BY <2>1, <2>2
<1> QED
  BY <1>1, <1>2, <1>3

\* A call that takes the lock, with what it is about to publish.
LEMMA IsolationEnter ==
  ASSUME TypeOK, IsolationInv, NEW c \in Threads, NEW kind, NEW label,
         NEW ops, NEW result, Enter(c, kind, label, ops, result),
         phase = "open", lock = NoThread,
         phase' = phase, version' = version, tables' = tables, tx' = tx,
         kind \in {"commit", "bulk", "restore", "compact"},
         label \in {"append", "tables", "ckVersion", "compact"},
         label = "append" => kind \in {"commit", "bulk"},
         label = "tables" => kind \in Writes,
         label = "compact" => kind = "compact",
         kind \in {"commit", "bulk"} => result = tables \o ops
  PROVE  IsolationInv'
<1>1. /\ lock' = c /\ at'[c] = label
      /\ job'[c].kind = kind /\ job'[c].ops = ops /\ job'[c].result = result
      /\ \A d \in Threads \ {c} : at'[d] = at[d] /\ job'[d] = job[d]
      /\ \A d \in Threads : lock # d
  BY ThreadsAssumption DEF Enter, TypeOK
<1>2. \A d \in Threads : at[d] # "idle" => job[d].kind = "close"
  BY <1>1 DEF IsolationInv, LockInv
<1>3. LockInv'
  BY <1>1, <1>2 DEF IsolationInv, LockInv
<1>4. LabelInv'
  BY <1>1 DEF IsolationInv, LabelInv, Writes
<1>5. TxInv'
  <2>1. \A d \in Threads : at[d] # "version"
    BY <1>2 DEF IsolationInv, LabelInv, Writes
  <2> QED
    BY <2>1 DEF IsolationInv, TxInv
<1>6. NoLostUpdate'
  <2>1. ASSUME NEW d \in Threads, job'[d].kind \in {"commit", "bulk"},
               at'[d] \in {"append", "sync", "tables"}
        PROVE  job'[d].result = tables' \o job'[d].ops
    <3>1. CASE d = c
      BY <1>1, <2>1, <3>1
    <3>2. CASE d # c
      BY <1>1, <2>1, <3>2 DEF IsolationInv, NoLostUpdate
    <3> QED
      BY <3>1, <3>2
  <2> QED
    BY <2>1 DEF NoLostUpdate
<1> QED
  BY <1>3, <1>4, <1>5, <1>6 DEF IsolationInv

LEMMA IsolationTransactions ==
  ASSUME TypeOK, IsolationInv, NEW c \in Threads,
         \/ Begin(c) \/ Rollback(c) \/ CommitConflict(c) \/ CommitStart(c)
         \/ \E o \in Ops : Execute(c, o) \/ BulkInsert(c, o)
  PROVE  IsolationInv'
<1> USE DEF engineVars
<1>0. /\ tx \in [Threads -> Txs] /\ at \in [Threads -> Labels]
      /\ job \in [Threads -> Jobs] /\ version \in Nat /\ tables \in Seq(Ops)
      /\ \A d \in Threads : tx[d].tables \in Seq(Ops) /\ tx[d].ops \in Seq(Ops)
                             /\ tx[d].base \in Nat
      /\ LockInv /\ LabelInv /\ TxInv /\ NoLostUpdate
  BY DEF TypeOK, Txs, IsolationInv
<1>1. ASSUME Begin(c) PROVE IsolationInv'
  <2>1. tables = tables \o << >>
    BY <1>0, ConcatEmptySeq
  <2>2. LockInv' /\ LabelInv' /\ NoLostUpdate'
    BY <1>0, <1>1 DEF Begin, MayEnter, LockInv, LabelInv, NoLostUpdate
  <2>3. TxInv'
    BY <1>0, <1>1, <2>1 DEF Begin, TxInv
  <2> QED
    BY <2>2, <2>3 DEF IsolationInv
<1>2. ASSUME Rollback(c) \/ CommitConflict(c) PROVE IsolationInv'
  <2>1. /\ UNCHANGED <<phase, version, tables, lock, at, job>>
        /\ tx' = [tx EXCEPT ![c] = NoTx] /\ ~NoTx.open
    BY <1>2 DEF Rollback, CommitConflict, NoTx
  <2>2. \A d \in Threads : tx'[d] = IF d = c THEN NoTx ELSE tx[d]
    BY <1>0, <2>1
  <2>3. LockInv' /\ LabelInv' /\ NoLostUpdate'
    BY <1>0, <2>1, <2>2 DEF LockInv, LabelInv, NoLostUpdate
  <2>4. TxInv'
    BY <1>0, <2>1, <2>2 DEF TxInv
  <2> QED
    BY <2>3, <2>4 DEF IsolationInv
<1>3. ASSUME NEW o \in Ops, Execute(c, o) PROVE IsolationInv'
  <2>1. Append(tables \o tx[c].ops, o) = tables \o Append(tx[c].ops, o)
    BY <1>0, ConcatFacts
  <2>2. /\ phase' = phase /\ version' = version /\ tables' = tables /\ lock' = lock
        /\ at' = at /\ job' = job /\ phase = "open"
        /\ \A d \in Threads \ {c} : tx'[d] = tx[d]
        /\ tx'[c].base = tx[c].base
        /\ tx'[c].tables = Append(tx[c].tables, o)
        /\ tx'[c].ops = Append(tx[c].ops, o)
        /\ tx[c].open
    BY <1>0, <1>3 DEF Execute
  <2>3. LockInv'
    BY <1>0, <2>2 DEF LockInv
  <2>4. LabelInv' /\ NoLostUpdate'
    <3>1. LabelInv'
      BY <1>0, <2>2 DEF LabelInv
    <3>2. NoLostUpdate'
      BY <1>0, <2>2 DEF NoLostUpdate
    <3> QED
      BY <3>1, <3>2
  <2>5. TxInv'
    <3>1. ASSUME NEW d \in Threads, tx'[d].open
          PROVE  /\ tx'[d].base <= version
                 /\ tx'[d].base = version /\ (\A e \in Threads : at[e] # "version")
                      => tx'[d].tables = tables \o tx'[d].ops
      <4>1. CASE d = c
        <5>1. tx[c].base <= version
          BY <1>0, <2>2 DEF TxInv
        <5>2. ASSUME tx[c].base = version, \A e \in Threads : at[e] # "version"
              PROVE  tx'[c].tables = tables \o tx'[c].ops
          BY <1>0, <2>1, <2>2, <5>2 DEF TxInv
        <5> QED
          BY <2>2, <4>1, <5>1, <5>2
      <4>2. CASE d # c
        BY <1>0, <2>2, <3>1, <4>2 DEF TxInv
      <4> QED
        BY <4>1, <4>2
    <3> QED
      BY <2>2, <3>1 DEF TxInv
  <2> QED
    BY <2>3, <2>4, <2>5 DEF IsolationInv
<1>4. ASSUME CommitStart(c) PROVE IsolationInv'
  <2>1. \A d \in Threads : at[d] # "version"
    BY <1>0, <1>4, ThreadsAssumption
       DEF CommitStart, MayEnter, LockInv, LabelInv, Writes
  <2>2. tx[c].tables = tables \o tx[c].ops
    BY <1>0, <1>4, <2>1 DEF CommitStart, Conflict, TxInv
  <2> DEFINE label == IF tx[c].ops = << >> THEN "tables" ELSE "append"
  <2>3. /\ Enter(c, "commit", label, tx[c].ops, tx[c].tables)
        /\ phase = "open" /\ lock = NoThread
        /\ phase' = phase /\ version' = version /\ tables' = tables /\ tx' = tx
        /\ label \in {"append", "tables"} /\ "commit" \in Writes
    BY <1>4 DEF CommitStart, MayEnter, Writes
  <2> HIDE DEF label
  <2> QED
    BY <2>2, <2>3, IsolationEnter
<1>5. ASSUME NEW o \in Ops, BulkInsert(c, o) PROVE IsolationInv'
  <2>1. Append(tables, o) = tables \o <<o>>
    BY <1>0, ConcatFacts
  <2> DEFINE kind == "bulk"
             label == "append"
             ops == <<o>>
             result == Append(tables, o)
  <2>2. /\ Enter(c, kind, label, ops, result) /\ result = tables \o ops
        /\ kind \in {"commit", "bulk"} /\ kind \in {"commit", "bulk", "restore", "compact"}
        /\ label \in {"append", "tables", "ckVersion", "compact"}
        /\ label # "tables" /\ label # "compact"
        /\ phase = "open" /\ lock = NoThread
        /\ phase' = phase /\ version' = version /\ tables' = tables /\ tx' = tx
    BY <1>5, <2>1 DEF BulkInsert, MayEnter
  <2> HIDE DEF kind, label, ops, result
  <2> QED
    BY <2>2, IsolationEnter
<1> QED
  BY <1>1, <1>2, <1>3, <1>4, <1>5

\* A call that goes from one label to the next and keeps the lock.
LEMMA IsolationGoto ==
  ASSUME TypeOK, IsolationInv, NEW c \in Threads, NEW label \in Labels, Goto(c, label),
         phase' = phase, lock' = lock, tx' = tx,
         at[c] # "idle", label # "idle", label \notin {"append", "version"},
         label = "compact" => job[c].kind = "compact",
         label = "sync" => at[c] = "append",
         label = "tables" => at[c] = "sync",
         at[c] # "version" => version' = version,
         at[c] = "version" => version' = version + 1,
         tables' = tables
  PROVE  IsolationInv'
<1>1. /\ job' = job /\ at'[c] = label
      /\ \A d \in Threads \ {c} : at'[d] = at[d]
      /\ LockInv /\ LabelInv /\ TxInv /\ NoLostUpdate
      /\ version \in Nat /\ \A d \in Threads : tx[d].base \in Nat
  BY DEF Goto, TypeOK, Txs, IsolationInv
<1>2. LockInv'
  BY <1>1 DEF LockInv
<1>3. LabelInv'
  BY <1>1 DEF LabelInv, Writes
<1>4. \A d \in Threads : at[d] = "version" => lock = d
  BY <1>1 DEF LockInv, LabelInv, Writes
<1>5. TxInv'
  <2>1. CASE at[c] = "version"
    BY <1>1, <2>1 DEF TxInv
  <2>2. CASE at[c] # "version"
    BY <1>1, <2>2 DEF TxInv
  <2> QED
    BY <2>1, <2>2
<1>6. NoLostUpdate'
  <2>1. ASSUME NEW d \in Threads, at'[d] \in {"append", "sync", "tables"}
        PROVE  at[d] \in {"append", "sync", "tables"}
    BY <1>1, <2>1
  <2> QED
    BY <1>1, <2>1 DEF NoLostUpdate
<1> QED
  BY <1>2, <1>3, <1>5, <1>6 DEF IsolationInv

\* A call that returns or raises.
LEMMA IsolationLeave ==
  ASSUME TypeOK, IsolationInv, NEW c \in Threads, NEW ok, Leave(c, ok),
         phase' = phase, at[c] # "idle", tables' = tables,
         at[c] # "version" => version' = version,
         at[c] = "version" => version' = version + 1
  PROVE  IsolationInv'
<1>1. /\ at'[c] = "idle" /\ job'[c].kind = "none"
      /\ \A d \in Threads \ {c} : at'[d] = at[d] /\ job'[d] = job[d]
      /\ lock' = IF lock = c THEN NoThread ELSE lock
      /\ \A d \in Threads : tx'[d] = tx[d] \/ ~tx'[d].open
      /\ LockInv /\ LabelInv /\ TxInv /\ NoLostUpdate
      /\ version \in Nat /\ \A d \in Threads : tx[d].base \in Nat /\ NoThread # d
  BY ThreadsAssumption DEF Leave, NoJob, NoTx, TypeOK, Txs, IsolationInv
<1>2. LockInv'
  <2>1. phase = "open"
    BY <1>1 DEF LockInv
  <2>2. ASSUME NEW d \in Threads
        PROVE  /\ at'[d] = "idle" <=> job'[d].kind = "none"
               /\ at'[d] # "idle" /\ job'[d].kind # "close" => lock' = d
               /\ lock' = d => at'[d] # "idle" /\ job'[d].kind # "close"
    <3>1. CASE d = c
      BY <1>1, <3>1
    <3>2. CASE d # c
      BY <1>1, <3>2 DEF LockInv
    <3> QED
      BY <3>1, <3>2
  <2> QED
    BY <2>1, <2>2 DEF LockInv
<1>3. LabelInv'
  BY <1>1 DEF LabelInv
<1>5. TxInv'
  <2>1. CASE at[c] = "version"
    BY <1>1, <2>1 DEF TxInv
  <2>2. CASE at[c] # "version"
    BY <1>1, <2>2 DEF TxInv
  <2> QED
    BY <2>1, <2>2
<1>6. NoLostUpdate'
  BY <1>1 DEF NoLostUpdate
<1> QED
  BY <1>2, <1>3, <1>5, <1>6 DEF IsolationInv

\* The new tables appear: every transaction begun before is now out of date.
LEMMA IsolationPublish ==
  ASSUME TypeOK, IsolationInv, NEW c \in Threads, PublishTables(c)
  PROVE  IsolationInv'
<1>1. /\ job' = job /\ at'[c] = "version" /\ at[c] = "tables"
      /\ \A d \in Threads \ {c} : at'[d] = at[d]
      /\ phase' = phase /\ version' = version /\ lock' = lock /\ tx' = tx
      /\ LockInv /\ LabelInv /\ TxInv /\ NoLostUpdate
  BY DEF PublishTables, Goto, TypeOK, IsolationInv
<1>2. lock = c
  BY <1>1 DEF LockInv, LabelInv, Writes
<1>3. LockInv'
  BY <1>1 DEF LockInv
<1>4. LabelInv'
  BY <1>1 DEF LabelInv
<1>5. TxInv'
  BY <1>1 DEF TxInv
<1>6. NoLostUpdate'
  <2>1. ASSUME NEW d \in Threads, job[d].kind \in {"commit", "bulk"}, d # c
        PROVE  at'[d] \notin {"append", "sync", "tables"}
    BY <1>1, <1>2, <2>1 DEF LockInv, LabelInv
  <2> QED
    BY <1>1, <2>1 DEF NoLostUpdate
<1> QED
  BY <1>3, <1>4, <1>5, <1>6 DEF IsolationInv

LEMMA IsolationCalls ==
  ASSUME TypeOK, IsolationInv, NEW c \in Threads, CallStep(c)
  PROVE  IsolationInv'
<1>0. at[c] # "idle" /\ (at[c] = "compact" => job[c].kind = "compact")
  BY DEF CallStep, AppendRecord, SyncRecord, PublishTables, PublishVersion,
         ReadVersion, ReadTables, WriteTmp, ReplaceState, WriteSidecars, IndexTooLarge,
         TruncateWal, RewritePages, RecordTooLarge, SyncRaises, CheckpointRaises,
         IsolationInv, LabelInv
<1>1. CASE AppendRecord(c)
  <2>1. /\ Goto(c, "sync") /\ at[c] = "append" /\ "sync" \in Labels
        /\ phase' = phase /\ version' = version /\ tables' = tables
        /\ lock' = lock /\ tx' = tx
    BY <1>1 DEF AppendRecord, engineVars, Labels
  <2> QED
    BY <2>1, <1>0, IsolationGoto
<1>2. CASE SyncRecord(c)
  <2>1. /\ Goto(c, "tables") /\ at[c] = "sync" /\ "tables" \in Labels
        /\ phase' = phase /\ version' = version /\ tables' = tables
        /\ lock' = lock /\ tx' = tx
    BY <1>2 DEF SyncRecord, Labels
  <2> QED
    BY <2>1, <1>0, IsolationGoto
<1>3. CASE PublishTables(c)
  BY <1>3, IsolationPublish
<1>4. CASE PublishVersion(c)
  <2>1. /\ at[c] = "version" /\ "ckVersion" \in Labels
        /\ phase' = phase /\ version' = version + 1 /\ tables' = tables
        /\ \/ Goto(c, "ckVersion") /\ lock' = lock /\ tx' = tx
           \/ Leave(c, TRUE)
    BY <1>4 DEF PublishVersion, Labels
  <2>2. CASE Goto(c, "ckVersion") /\ lock' = lock /\ tx' = tx
    BY <2>1, <2>2, <1>0, IsolationGoto
  <2>3. CASE Leave(c, TRUE)
    BY <2>1, <2>3, <1>0, IsolationLeave
  <2> QED
    BY <2>1, <2>2, <2>3
<1>5. CASE ReadVersion(c) \/ ReadTables(c) \/ WriteTmp(c) \/ ReplaceState(c)
           \/ WriteSidecars(c)
  <2>1. PICK label \in {"ckTables", "ckTmp", "ckReplace", "ckSidecars", "ckWal"} :
          /\ Goto(c, label) /\ label \in Labels /\ at[c] # "version"
          /\ phase' = phase /\ version' = version /\ tables' = tables
          /\ lock' = lock /\ tx' = tx
    BY <1>5 DEF ReadVersion, ReadTables, WriteTmp, ReplaceState, WriteSidecars,
                engineVars, Labels
  <2> QED
    BY <2>1, <1>0, IsolationGoto
<1>6. CASE TruncateWal(c)
  <2>1. /\ at[c] = "ckWal" /\ "compact" \in Labels
        /\ phase' = phase /\ version' = version /\ tables' = tables
        /\ \/ Goto(c, "compact") /\ job[c].kind = "compact" /\ lock' = lock /\ tx' = tx
           \/ Leave(c, TRUE)
    BY <1>6 DEF TruncateWal, engineVars, Labels
  <2>2. CASE Goto(c, "compact") /\ job[c].kind = "compact" /\ lock' = lock /\ tx' = tx
    BY <2>1, <2>2, <1>0, IsolationGoto
  <2>3. CASE Leave(c, TRUE)
    BY <2>1, <2>3, <1>0, IsolationLeave
  <2> QED
    BY <2>1, <2>2, <2>3
<1>7. CASE \/ RewritePages(c) \/ RecordTooLarge(c) \/ SyncRaises(c)
           \/ CheckpointRaises(c) \/ IndexTooLarge(c)
  <2>1. Leave(c, TRUE) \/ Leave(c, FALSE)
    BY <1>7, RaiseEither DEF RewritePages, RecordTooLarge, SyncRaises, IndexTooLarge
  <2>2. at[c] # "version" /\ phase' = phase /\ version' = version /\ tables' = tables
    BY <1>7 DEF RewritePages, RecordTooLarge, SyncRaises, CheckpointRaises,
                IndexTooLarge, engineVars
  <2> QED
    BY <2>1, <2>2, <1>0, IsolationLeave
<1> QED
  BY <1>1, <1>2, <1>3, <1>4, <1>5, <1>6, <1>7 DEF CallStep

\* The entrances to a checkpoint.
LEMMA IsolationCheckpoint ==
  ASSUME TypeOK, IsolationInv, NEW c \in Threads,
         SnapshotState(c) \/ RestoreState(c) \/ Compact(c) \/ Close(c)
  PROVE  IsolationInv'
<1>1. CASE SnapshotState(c)
  BY <1>1 DEF SnapshotState, engineVars, IsolationInv, LockInv, LabelInv, TxInv,
              NoLostUpdate
<1>2. CASE RestoreState(c)
  <2> DEFINE kind == "restore"
             label == "tables"
             ops == << >>
             result == saved[1]
  <2>1. /\ Enter(c, kind, label, ops, result)
        /\ kind \notin {"commit", "bulk"} /\ kind \in Writes
        /\ kind \in {"commit", "bulk", "restore", "compact"}
        /\ label \in {"append", "tables", "ckVersion", "compact"}
        /\ label # "append" /\ label # "compact"
        /\ phase = "open" /\ lock = NoThread
        /\ phase' = phase /\ version' = version /\ tables' = tables /\ tx' = tx
    BY <1>2 DEF RestoreState, MayEnter, engineVars, Writes
  <2> HIDE DEF kind, label, ops, result
  <2> QED
    BY <2>1, IsolationEnter
<1>3. CASE Compact(c)
  <2> DEFINE kind == "compact"
             label == "ckVersion"
             ops == << >>
  <2>1. /\ Enter(c, kind, label, ops, tables)
        /\ kind \notin {"commit", "bulk"}
        /\ kind \in {"commit", "bulk", "restore", "compact"}
        /\ label \in {"append", "tables", "ckVersion", "compact"}
        /\ label # "append" /\ label # "compact" /\ label # "tables"
        /\ phase = "open" /\ lock = NoThread
        /\ phase' = phase /\ version' = version /\ tables' = tables /\ tx' = tx
    BY <1>3 DEF Compact, MayEnter, engineVars
  <2> HIDE DEF kind, label, ops
  <2> QED
    BY <2>1, IsolationEnter
<1>4. CASE Close(c)
  <2>1. /\ at'[c] = "ckVersion" /\ job'[c].kind = "close" /\ at[c] = "idle"
        /\ \A d \in Threads \ {c} : at'[d] = at[d] /\ job'[d] = job[d]
        /\ phase = "open" /\ phase' = phase /\ version' = version
        /\ tables' = tables /\ lock' = lock /\ tx' = tx
        /\ LockInv /\ LabelInv /\ TxInv /\ NoLostUpdate
    BY <1>4 DEF Close, engineVars, NoJob, TypeOK, IsolationInv
  <2>2. LockInv'
    BY <2>1 DEF LockInv
  <2>3. LabelInv'
    BY <2>1 DEF LabelInv
  <2>4. TxInv'
    BY <2>1 DEF TxInv
  <2>5. NoLostUpdate'
    BY <2>1 DEF NoLostUpdate
  <2> QED
    BY <2>2, <2>3, <2>4, <2>5 DEF IsolationInv
<1> QED
  BY <1>1, <1>2, <1>3, <1>4

\* Crash, and the steps of the next open: nobody is inside a call.
LEMMA IsolationRecovery ==
  ASSUME TypeOK, IsolationInv, Crash \/ Recover
  PROVE  IsolationInv'
<1>1. CASE Crash
  <2>1. /\ phase' = "down" /\ lock' = NoThread
        /\ \A d \in Threads : /\ at'[d] = "idle" /\ job'[d].kind = "none"
                                /\ ~tx'[d].open /\ lock' # d
    BY <1>1, ThreadsAssumption DEF Crash, NoTx, NoJob
  <2> QED
    BY <2>1 DEF IsolationInv, LockInv, LabelInv, TxInv, NoLostUpdate, Writes
<1>2. CASE Recover
  <2>1. /\ phase # "open" /\ lock' = lock /\ at' = at /\ job' = job /\ tx' = tx
    BY <1>2 DEF Recover, Open, ReplayRecord, RefuseToOpen, FinishOpen,
                RepairRaises, callVars
  <2> QED
    BY <2>1 DEF IsolationInv, LockInv, LabelInv, TxInv, NoLostUpdate
<1> QED
  BY <1>1, <1>2

LEMMA IsolationInit == Init => IsolationInv
  BY ThreadsAssumption
     DEF Init, NoTx, NoJob, IsolationInv, LockInv, LabelInv, TxInv, NoLostUpdate, Writes

LEMMA IsolationStep == TypeOK /\ IsolationInv /\ [Next]_vars => IsolationInv'
<1> SUFFICES ASSUME TypeOK, IsolationInv, [Next]_vars PROVE IsolationInv'
  OBVIOUS
<1>1. CASE UNCHANGED vars
  BY <1>1 DEF vars, engineVars, callVars, IsolationInv, LockInv, LabelInv, TxInv,
              NoLostUpdate
<1>2. CASE Next
  BY <1>2, IsolationTransactions, IsolationCheckpoint, IsolationCalls, IsolationRecovery
     DEF Next
<1> QED
  BY <1>1, <1>2

\* Isolation (engine.py:1002): whatever the faults, the threads and the bounds,
\* the lock excludes, a transaction with a current base holds the tables plus
\* its own operations, and so no published write overwrites another.
THEOREM Isolated == Spec => []IsolationInv
<1>1. Init => TypeOK /\ IsolationInv
  BY TypeInit, IsolationInit
<1>2. TypeOK /\ IsolationInv /\ [Next]_vars => (TypeOK /\ IsolationInv)'
  BY TypeStep, IsolationStep
<1> QED
  BY <1>1, <1>2, PTL DEF Spec

\* First committer wins: no commit or batch drops what came in between.
THEOREM NoLostUpdateHolds == Spec => []NoLostUpdate
<1>1. IsolationInv => NoLostUpdate
  BY DEF IsolationInv
<1> QED
  BY <1>1, Isolated, PTL

-----------------------------------------------------------------------------
(***************************************************************************)
(* Durability: without the three fault flags DurabilityInv is inductive,   *)
(* so what was acknowledged survives every crash and a directory always    *)
(* opens again; and the engine implements DurableStore.                    *)
(*                                                                         *)
(* Without RacyClose one call runs at a time.  Its thread c is the only    *)
(* one an invariant has to speak of: the proofs go through CallInv(c).     *)
(***************************************************************************)

\* The flags off: with any of them on AckedSurvive or ReopenSucceeds is violated.
NoFaults == ~LegacyWal /\ ~IoErrors /\ ~RacyClose

\* Nobody but c is inside a call of an open engine.
Alone(c) ==
  /\ phase = "open"
  /\ \A d \in Threads \ {c} : at[d] = "idle" /\ job[d].kind = "none"

\* OpenInv, WriteInv and CheckpointInv when c is alone.
Filed(c) ==
  /\ stateFile.version <= version
  /\ tail = IF at[c] = "sync" THEN "unsynced" ELSE "clean"
  /\ nextPage = Len(Synced)
  /\ \A i \in 1 .. Len(pages) :
       /\ pages[i].version <= version + 1
       /\ at[c] \notin {"sync", "tables", "version"} => pages[i].version <= version

Agreed(c) ==
  job[c].kind \notin Writes => inflight = {} /\ tables = promised /\ Durable = tables

Writing(c) ==
  job[c].kind \in Writes =>
    /\ inflight = {job[c].result}
    /\ at[c] \in {"append", "sync", "tables"} => tables = promised
    /\ at[c] \in {"append", "sync"} => Durable = tables
    /\ at[c] = "sync" =>
         /\ pages # << >>
         /\ pages[Len(pages)] = Page(Len(pages) - 1, version + 1, job[c].ops, tables)
    /\ at[c] \notin {"append", "sync", "tables"} => tables = job[c].result
    /\ job[c].kind # "restore" /\ at[c] \notin {"append", "sync"}
         => Durable = job[c].result
    /\ job[c].kind = "restore" =>
         Durable = IF at[c] \in {"ckSidecars", "ckWal"} THEN job[c].result ELSE promised

Saving(c) ==
  /\ job[c].kind = "compact" => job[c].result = tables
  /\ at[c] \in {"ckTables", "ckTmp", "ckReplace"} => image[c].version = version
  /\ at[c] \in {"ckTmp", "ckReplace"} => image[c].tables = tables
  /\ at[c] = "ckReplace" => tmp = <<image[c]>>
  /\ at[c] \in {"ckSidecars", "ckWal", "compact"}
       => stateFile.version = version /\ stateFile.tables = tables

CallInv(c) == Filed(c) /\ Agreed(c) /\ Writing(c) /\ Saving(c)

-----------------------------------------------------------------------------
(* From the invariant to the one call, and back.                           *)

LEMMA Focus ==
  ASSUME TypeOK, IsolationInv, DurabilityInv, NEW c \in Threads, Alone(c)
  PROVE  DiskInv /\ CallInv(c)
<1>1. \A d \in Threads \ {c} : at[d] # "sync" /\ job[d].kind \notin Writes
  BY DEF Alone, Writes
<1>2. Filed(c)
  <2>1. OpenInv /\ phase = "open"
    BY DEF DurabilityInv, Alone
  <2>2. (\E d \in Threads : at[d] = "sync") <=> at[c] = "sync"
    BY <1>1
  <2>3. at[c] \notin {"sync", "tables", "version"} =>
          \A d \in Threads : at[d] \notin {"sync", "tables", "version"}
    BY DEF Alone
  <2> QED
    BY <2>1, <2>2, <2>3 DEF OpenInv, Filed
<1>3. Agreed(c)
  <2>1. OpenInv /\ phase = "open"
    BY DEF DurabilityInv, Alone
  <2> QED
    BY <1>1, <2>1 DEF OpenInv, Agreed
<1>4. Writing(c)
  BY DEF DurabilityInv, WriteInv, Writing
<1>5. Saving(c)
  BY DEF DurabilityInv, CheckpointInv, Saving
<1> QED
  BY <1>2, <1>3, <1>4, <1>5 DEF CallInv, DurabilityInv

LEMMA Unfocus ==
  ASSUME NEW c \in Threads, Alone(c)', DiskInv', CallInv(c)'
  PROVE  DurabilityInv'
<1>1. /\ phase' = "open"
      /\ \A d \in Threads \ {c} : at'[d] = "idle" /\ job'[d].kind = "none"
  BY DEF Alone
<1>2. OneCall'
  BY <1>1 DEF OneCall
<1>3. OpenInv'
  <2>1. Filed(c)' /\ Agreed(c)'
    BY DEF CallInv
  <2>2. (\E d \in Threads : at'[d] = "sync") <=> at'[c] = "sync"
    BY <1>1
  <2>3. (\A d \in Threads : at'[d] \notin {"sync", "tables", "version"})
          => at'[c] \notin {"sync", "tables", "version"}
    OBVIOUS
  <2>4. (\A d \in Threads : job'[d].kind \notin Writes) => job'[c].kind \notin Writes
    OBVIOUS
  <2> QED
    BY <2>1, <2>2, <2>3, <2>4 DEF OpenInv, Filed, Agreed
<1>4. WriteInv'
  <2>1. Writing(c)'
    BY DEF CallInv
  <2>2. \A d \in Threads \ {c} : job'[d].kind \notin Writes
    BY <1>1 DEF Writes
  <2> QED
    BY <2>1, <2>2 DEF WriteInv, Writing
<1>5. CheckpointInv'
  <2>1. Saving(c)'
    BY DEF CallInv
  <2> QED
    BY <1>1, <2>1 DEF CheckpointInv, Saving
<1>6. ClosedInv' /\ OpeningInv' /\ ReopenSucceeds'
  BY <1>1 DEF ClosedInv, OpeningInv, ReopenSucceeds
<1> QED
  BY <1>2, <1>3, <1>4, <1>5, <1>6 DEF DurabilityInv

LEMMA CallerAlone ==
  ASSUME IsolationInv, DurabilityInv, NEW c \in Threads, at[c] # "idle"
  PROVE  Alone(c) /\ job[c].kind # "none"
<1>1. LockInv /\ OneCall
  BY DEF IsolationInv, DurabilityInv
<1> QED
  BY <1>1 DEF LockInv, OneCall, Alone

\* Without RacyClose a call begins when there is none.
LEMMA EntryAlone ==
  ASSUME NoFaults, IsolationInv, NEW c \in Threads,
         MayEnter(c) \/ (phase = "open" /\ ~Closing /\ lock = NoThread)
  PROVE  /\ Alone(c) /\ at[c] = "idle" /\ job[c].kind = "none"
         /\ \A d \in Threads : at[d] = "idle"
<1>1. phase = "open" /\ lock = NoThread /\ LockInv /\ \A d \in Threads : job[d].kind # "close"
  BY DEF NoFaults, MayEnter, Closing, IsolationInv
<1>2. \A d \in Threads : at[d] = "idle" /\ job[d].kind = "none"
  BY <1>1, ThreadsAssumption DEF LockInv
<1> QED
  BY <1>1, <1>2 DEF Alone

-----------------------------------------------------------------------------
(* The log.                                                                *)

\* With no wal.log of an older release the log is pages.dat, whether or not it exists.
LEMMA DurableIs ==
  ASSUME TypeOK, DiskInv
  PROVE  /\ Durable = ReplayedTo(Synced, Len(Synced))
         /\ Synced \in Seq(Pages)
         /\ Len(Synced) = IF tail = "unsynced" /\ pages # << >> THEN Len(pages) - 1
                                                                ELSE Len(pages)
         /\ \A i \in 1 .. Len(Synced) : Synced[i] = pages[i]
<1>1. pages \in Seq(Pages)
  BY DEF TypeOK
<1>2. /\ Synced \in Seq(Pages)
      /\ Len(Synced) = IF tail = "unsynced" /\ pages # << >> THEN Len(pages) - 1
                                                             ELSE Len(pages)
      /\ \A i \in 1 .. Len(Synced) : Synced[i] = pages[i]
  <2>1. CASE tail = "unsynced"
    <3>1. Synced = SubSeq(pages, 1, Len(pages) - 1)
      BY <2>1 DEF Synced
    <3>2. /\ Synced \in Seq(Pages)
          /\ Len(Synced) = IF pages = << >> THEN 0 ELSE Len(pages) - 1
          /\ \A i \in 1 .. Len(Synced) : Synced[i] = pages[i]
      BY <1>1, <3>1, FrontProperties
    <3> QED
      BY <1>1, <2>1, <3>2
  <2>2. CASE tail # "unsynced"
    BY <1>1, <2>2 DEF Synced
  <2> QED
    BY <2>1, <2>2
<1>3. Durable = ReplayedTo(Synced, Len(Synced))
  <2>1. CASE pageFile
    BY <2>1 DEF Durable
  <2>2. CASE ~pageFile
    <3>1. pages = << >> /\ wal = << >>
      BY <2>2 DEF DiskInv
    <3>2. Len(Synced) = 0 /\ Len(wal) = 0
      BY <1>1, <1>2, <3>1
    <3> QED
      BY <2>2, <3>2 DEF Durable, ReplayedTo
  <2> QED
    BY <2>1, <2>2
<1> QED
  BY <1>2, <1>3

\* ReplayedTo over the files of any state.
Built(log, i, file) ==
  IF i > 0 /\ log[i].version > file.version THEN log[i].before \o log[i].ops ELSE file.tables

LEMMA PageFacts ==
  ASSUME TypeOK, NEW i \in 1 .. Len(pages)
  PROVE  /\ pages[i] \in Pages /\ pages[i].id \in Nat /\ pages[i].version \in Nat
         /\ pages[i].ops \in Seq(Ops) /\ pages[i].before \in Seq(Ops)
         /\ version \in Nat /\ stateFile.version \in Nat /\ stateFile.tables \in Seq(Ops)
         /\ Len(pages) \in Nat /\ nextPage \in Nat
<1>1. pages[i] \in Pages
  BY DEF TypeOK
<1>2. /\ pages[i].id \in Nat /\ pages[i].version \in Nat
      /\ pages[i].ops \in Seq(Ops) /\ pages[i].before \in Seq(Ops)
  BY <1>1 DEF Pages
<1>3. stateFile.version \in Nat /\ stateFile.tables \in Seq(Ops)
  BY DEF TypeOK, Images
<1>4. version \in Nat /\ Len(pages) \in Nat /\ nextPage \in Nat
  BY DEF TypeOK
<1> QED
  BY <1>1, <1>2, <1>3, <1>4

\* The same files replay to the same tables.
LEMMA SameFiles ==
  ASSUME UNCHANGED <<pages, pageFile, tail, stateFile, wal>>
  PROVE  Durable' = Durable /\ Synced' = Synced /\ DiskInv' = DiskInv
BY DEF Durable, Synced, DiskInv, ReplayedTo

\* After the fsync the record of the running commit is part of what replay builds.
LEMMA SyncedRecord ==
  ASSUME TypeOK, IsolationInv, DiskInv, NEW c \in Threads, CallInv(c), at[c] = "sync"
  PROVE  /\ ReplayedTo(pages, Len(pages)) = job[c].result
         /\ Len(pages) \in Nat \ {0} /\ pageFile
         /\ Len(Synced) = Len(pages) - 1 /\ nextPage = Len(pages) - 1
         /\ tail = "unsynced" /\ job[c].kind \in {"commit", "bulk"}
<1>1. job[c].kind \in {"commit", "bulk"} /\ job[c].result = tables \o job[c].ops
  BY DEF IsolationInv, LabelInv, NoLostUpdate
<1>2. /\ pages # << >>
      /\ pages[Len(pages)] = Page(Len(pages) - 1, version + 1, job[c].ops, tables)
  BY <1>1 DEF CallInv, Writing, Writes
<1>3. Len(pages) \in Nat \ {0} /\ version \in Nat /\ stateFile.version \in Nat
  BY <1>2 DEF TypeOK, Images
<1>4. /\ pages[Len(pages)].version = version + 1 /\ pages[Len(pages)].ops = job[c].ops
      /\ pages[Len(pages)].before = tables
  BY <1>2 DEF Page
<1>5. stateFile.version <= version /\ tail = "unsynced" /\ nextPage = Len(Synced)
  BY DEF CallInv, Filed
<1>6. ReplayedTo(pages, Len(pages)) = tables \o job[c].ops
  <2>1. Len(pages) > 0 /\ pages[Len(pages)].version > stateFile.version
    BY <1>3, <1>4, <1>5
  <2> QED
    BY <1>4, <2>1 DEF ReplayedTo
<1>7. Len(Synced) = Len(pages) - 1
  BY <1>2, <1>5, DurableIs
<1>8. pageFile
  BY <1>2 DEF DiskInv
<1> QED
  BY <1>1, <1>3, <1>5, <1>6, <1>7, <1>8

-----------------------------------------------------------------------------
(* Steps that leave the files of the log and state.json alone.             *)

\* What a step of c does to the others' places: nothing.
LEMMA GotoAlone ==
  ASSUME TypeOK, NEW c \in Threads, Alone(c), NEW label, Goto(c, label), phase' = phase
  PROVE  Alone(c)' /\ at'[c] = label /\ job' = job
BY DEF Alone, Goto, TypeOK

LEMMA LeaveAlone ==
  ASSUME TypeOK, NEW c \in Threads, Alone(c), NEW ok \in BOOLEAN, Leave(c, ok), phase' = phase
  PROVE  /\ Alone(c)' /\ at'[c] = "idle" /\ job'[c].kind = "none"
         /\ promised' = IF ok /\ job[c].kind \in Writes THEN job[c].result ELSE promised
         /\ inflight' = IF job[c].kind \in Writes THEN {} ELSE inflight
BY DEF Alone, Leave, TypeOK, NoJob

\* A call has returned: the engine, its files and its callers agree.
LEMMA Returned ==
  ASSUME NEW c \in Threads, Alone(c)', at'[c] = "idle", job'[c].kind = "none", DiskInv',
         stateFile'.version <= version', tail' = "clean", nextPage' = Len(Synced'),
         \A i \in 1 .. Len(pages') : pages'[i].version <= version', version' \in Nat,
         \A i \in 1 .. Len(pages') : pages'[i].version \in Nat,
         inflight' = {}, tables' = promised', Durable' = tables'
  PROVE  DurabilityInv'
<1>1. Filed(c)'
  <2>1. \A i \in 1 .. Len(pages') : pages'[i].version <= version' + 1
    OBVIOUS
  <2> QED
    BY <2>1 DEF Filed
<1>2. Agreed(c)' /\ Writing(c)' /\ Saving(c)'
  BY DEF Agreed, Writing, Saving, Writes
<1> QED
  BY <1>1, <1>2, Unfocus DEF CallInv

\* Transactions in memory, and snapshot_state.
LEMMA MemorySteps ==
  ASSUME DurabilityInv,
         UNCHANGED <<engineVars, lock, at, job, image, pageVars, imageVars, ghostVars>>
  PROVE  DurabilityInv'
<1>1. UNCHANGED <<pages, pageFile, tail, stateFile, wal, phase, version, tables, nextPage, pos,
                  at, job, image, tmp, promised, inflight>>
  BY DEF engineVars, pageVars, imageVars, ghostVars
<1>2. Durable' = Durable /\ Synced' = Synced /\ DiskInv'
  BY <1>1, SameFiles DEF DurabilityInv
<1>3. OneCall' /\ CheckpointInv' /\ WriteInv'
  BY <1>1, <1>2 DEF DurabilityInv, OneCall, CheckpointInv, WriteInv
<1>4. OpenInv' /\ ClosedInv'
  BY <1>1, <1>2 DEF DurabilityInv, OpenInv, ClosedInv
<1>5. OpeningInv' /\ ReopenSucceeds'
  BY <1>1 DEF DurabilityInv, OpeningInv, ReplayedTo, ReopenSucceeds, Log
<1> QED
  BY <1>2, <1>3, <1>4, <1>5 DEF DurabilityInv

\* A write call, a compaction or a close begins.
LEMMA BeginCall ==
  ASSUME TypeOK, IsolationInv, DurabilityInv, NEW c \in Threads, Alone(c),
         at[c] = "idle", job[c].kind = "none", Alone(c)',
         UNCHANGED <<engineVars, image, pageVars, imageVars, promised>>,
         NEW label \in {"append", "tables", "ckVersion"},
         at'[c] = label,
         label = "append" => job'[c].kind \in {"commit", "bulk"},
         label = "tables" => job'[c].kind \in {"commit", "restore"},
         label = "ckVersion" => job'[c].kind \in {"compact", "close"},
         label = "tables" /\ job'[c].kind = "commit" => job'[c].result = tables,
         job'[c].kind = "compact" => job'[c].result = tables,
         inflight' = IF job'[c].kind \in Writes THEN {job'[c].result} ELSE inflight
  PROVE  DurabilityInv' /\ Durable' = Durable
<1>1. UNCHANGED <<pages, pageFile, tail, stateFile, wal, version, tables, nextPage, image,
                  tmp, promised>>
  BY DEF engineVars, pageVars, imageVars
<1>2. Durable' = Durable /\ Synced' = Synced /\ DiskInv'
  BY <1>1, SameFiles DEF DurabilityInv
<1>3. CallInv(c)
  BY Focus
<1>4. Filed(c)'
  BY <1>1, <1>2, <1>3 DEF CallInv, Filed
<1>5. inflight = {} /\ tables = promised /\ Durable = tables
  BY <1>3 DEF CallInv, Agreed, Writes
<1>6. Agreed(c)' /\ Writing(c)' /\ Saving(c)'
  BY <1>1, <1>2, <1>5 DEF Agreed, Writing, Saving, Writes
<1> QED
  BY <1>2, <1>4, <1>6, Unfocus DEF CallInv

LEMMA EnterAlone ==
  ASSUME TypeOK, NEW c \in Threads, Alone(c), NEW kind, NEW label, NEW ops, NEW result,
         Enter(c, kind, label, ops, result), phase' = phase
  PROVE  /\ Alone(c)' /\ at'[c] = label
         /\ job'[c].kind = kind /\ job'[c].ops = ops /\ job'[c].result = result
BY DEF Enter, Alone, TypeOK

LEMMA DurabilityEnter ==
  ASSUME NoFaults, TypeOK, IsolationInv, DurabilityInv, NEW c \in Threads,
         \/ CommitStart(c) \/ RestoreState(c) \/ Compact(c) \/ Close(c)
         \/ \E o \in Ops : BulkInsert(c, o)
  PROVE  DurabilityInv' /\ Durable' = Durable
<1>1. CASE CommitStart(c)
  <2>1. Alone(c) /\ at[c] = "idle" /\ job[c].kind = "none" /\ \A d \in Threads : at[d] = "idle"
    BY <1>1, EntryAlone DEF CommitStart
  <2> DEFINE label == IF tx[c].ops = << >> THEN "tables" ELSE "append"
  <2>2. Enter(c, "commit", label, tx[c].ops, tx[c].tables)
    BY <1>1 DEF CommitStart
  <2>3. tx[c].tables = tables \o tx[c].ops
    BY <1>1, <2>1 DEF CommitStart, Conflict, IsolationInv, TxInv
  <2>4. label = "tables" => tx[c].tables = tables
    BY <2>3, ConcatEmptySeq DEF TypeOK
  <2>5. /\ label \in {"append", "tables", "ckVersion"} /\ label # "ckVersion"
        /\ UNCHANGED <<engineVars, image, pageVars, imageVars, promised>> /\ phase' = phase
        /\ inflight' = {tx[c].tables} /\ "commit" \in Writes
    BY <1>1 DEF CommitStart, engineVars, Writes
  <2> HIDE DEF label
  <2>6. /\ Alone(c)' /\ at'[c] = label
        /\ job'[c].kind = "commit" /\ job'[c].result = tx[c].tables
    BY <2>1, <2>2, <2>5, EnterAlone
  <2> QED
    BY <2>1, <2>4, <2>5, <2>6, BeginCall
<1>2. ASSUME NEW o \in Ops, BulkInsert(c, o) PROVE DurabilityInv' /\ Durable' = Durable
  <2>1. Alone(c) /\ at[c] = "idle" /\ job[c].kind = "none"
    BY <1>2, EntryAlone DEF BulkInsert
  <2>2. /\ Enter(c, "bulk", "append", <<o>>, Append(tables, o))
        /\ UNCHANGED <<engineVars, image, pageVars, imageVars, promised>> /\ phase' = phase
        /\ inflight' = {Append(tables, o)} /\ "bulk" \in Writes
    BY <1>2 DEF BulkInsert, engineVars, Writes
  <2>3. /\ Alone(c)' /\ at'[c] = "append"
        /\ job'[c].kind = "bulk" /\ job'[c].result = Append(tables, o)
    BY <2>1, <2>2 DEF Enter, Alone, TypeOK
  <2> QED
    BY <2>1, <2>2, <2>3, BeginCall
<1>3. CASE RestoreState(c)
  <2>1. Alone(c) /\ at[c] = "idle" /\ job[c].kind = "none"
    BY <1>3, EntryAlone DEF RestoreState
  <2>2. /\ Enter(c, "restore", "tables", << >>, saved[1])
        /\ UNCHANGED <<engineVars, image, pageVars, imageVars, promised>> /\ phase' = phase
        /\ inflight' = {saved[1]} /\ "restore" \in Writes
    BY <1>3 DEF RestoreState, engineVars, Writes
  <2>3. /\ Alone(c)' /\ at'[c] = "tables"
        /\ job'[c].kind = "restore" /\ job'[c].result = saved[1]
    BY <2>1, <2>2, EnterAlone
  <2> QED
    BY <2>1, <2>2, <2>3, BeginCall
<1>4. CASE Compact(c)
  <2>1. Alone(c) /\ at[c] = "idle" /\ job[c].kind = "none"
    BY <1>4, EntryAlone DEF Compact
  <2>2. /\ Enter(c, "compact", "ckVersion", << >>, tables)
        /\ UNCHANGED <<engineVars, image, pageVars, imageVars, ghostVars>> /\ phase' = phase
        /\ "compact" \notin Writes
    BY <1>4 DEF Compact, engineVars, Writes
  <2>3. /\ Alone(c)' /\ at'[c] = "ckVersion"
        /\ job'[c].kind = "compact" /\ job'[c].result = tables
    BY <2>1, <2>2, EnterAlone
  <2>4. inflight' = inflight /\ promised' = promised
    BY <2>2 DEF ghostVars
  <2> QED
    BY <2>1, <2>2, <2>3, <2>4, BeginCall
<1>5. CASE Close(c)
  <2>1. Alone(c) /\ at[c] = "idle" /\ job[c].kind = "none"
    BY <1>5, EntryAlone DEF Close, NoFaults
  <2>2. /\ UNCHANGED <<engineVars, image, pageVars, imageVars, ghostVars>> /\ phase' = phase
        /\ at' = [at EXCEPT ![c] = "ckVersion"]
        /\ job' = [job EXCEPT ![c] = [NoJob EXCEPT !.kind = "close"]]
        /\ "close" \notin Writes
    BY <1>5 DEF Close, engineVars, Writes
  <2>3. /\ Alone(c)' /\ at'[c] = "ckVersion" /\ job'[c].kind = "close"
    BY <2>1, <2>2 DEF Alone, TypeOK, NoJob
  <2>4. inflight' = inflight /\ promised' = promised
    BY <2>2 DEF ghostVars
  <2> QED
    BY <2>1, <2>2, <2>3, <2>4, BeginCall
<1> QED
  BY <1>1, <1>2, <1>3, <1>4, <1>5

-----------------------------------------------------------------------------
(* The append of a record and the publication of a write.                  *)

LEMMA DurabilityAppend ==
  ASSUME TypeOK, IsolationInv, DurabilityInv, NEW c \in Threads, AppendRecord(c)
  PROVE  DurabilityInv' /\ Durable' = Durable
<1> DEFINE n == Len(pages)
           page == Page(nextPage, version + 1, job[c].ops, tables)
<1>1. Alone(c) /\ DiskInv /\ CallInv(c) /\ at[c] = "append"
  BY CallerAlone, Focus DEF AppendRecord
<1>2. /\ pages' = Append(pages, page) /\ pageFile' = TRUE /\ tail' = "unsynced"
      /\ UNCHANGED <<phase, version, tables, nextPage, image, stateFile, tmp, wal,
                     promised, inflight>>
      /\ Goto(c, "sync")
  BY DEF AppendRecord, engineVars, imageVars, ghostVars
<1>3. Alone(c)' /\ at'[c] = "sync" /\ job' = job
  BY <1>1, <1>2, GotoAlone
<1>4. job[c].kind \in {"commit", "bulk"}
  BY <1>1 DEF IsolationInv, LabelInv
<1>5. /\ tail = "clean" /\ nextPage = Len(Synced) /\ stateFile.version <= version
      /\ \A i \in 1 .. n : pages[i].version <= version
      /\ inflight = {job[c].result} /\ tables = promised /\ Durable = tables
  BY <1>1, <1>4 DEF CallInv, Filed, Writing, Writes
<1>6. Synced = pages /\ Durable = ReplayedTo(pages, n) /\ nextPage = n
  BY <1>1, <1>5, DurableIs DEF Synced
<1>7. /\ page.id = n /\ page.version = version + 1 /\ page.ops = job[c].ops
      /\ page.before = tables
  BY <1>6 DEF Page
<1>8. /\ pages \in Seq(Pages) /\ n \in Nat /\ version \in Nat /\ stateFile.version \in Nat
  BY DEF TypeOK, Images
<1> HIDE DEF page
<1>9. /\ Len(pages') = n + 1 /\ pages'[n + 1] = page /\ pages' # << >>
      /\ \A i \in 1 .. n : pages'[i] = pages[i]
  <2>1. page \in Pages
    BY PageType, <1>8 DEF page, TypeOK, Jobs
  <2> QED
    BY <1>2, <1>8, <2>1
<1>10. \A i \in 0 .. n : Built(pages', i, stateFile') = Built(pages, i, stateFile)
  BY <1>2, <1>8, <1>9 DEF Built
<1>11. Synced' = pages
  <2>1. Synced' = SubSeq(pages', 1, Len(pages') - 1)
    BY <1>2 DEF Synced
  <2>2. pages' = Append(pages, page) /\ page \in Pages
    BY <1>2, PageType, <1>8 DEF page, TypeOK, Jobs
  <2> QED
    BY <1>8, <2>1, <2>2
<1>12. Durable' = Durable
  <2>1. Durable' = Built(pages, n, stateFile)
    BY <1>2, <1>11 DEF Durable, ReplayedTo, Built
  <2>2. Durable = Built(pages, n, stateFile)
    BY <1>6 DEF ReplayedTo, Built
  <2> QED
    BY <2>1, <2>2
<1>13. DiskInv'
  <2>1. ASSUME NEW i \in 1 .. n + 1
        PROVE  /\ pages'[i].id = i - 1
               /\ \A j \in 1 .. i - 1 : pages'[j].version < pages'[i].version
               /\ pages'[i].version > stateFile'.version
                    => pages'[i].before = Built(pages', i - 1, stateFile')
    <3>1. CASE i = n + 1
      <4>1. Built(pages', n, stateFile') = tables
        <5>1. Built(pages, n, stateFile) = tables
          BY <1>5, <1>6 DEF ReplayedTo, Built
        <5> QED
          BY <1>8, <1>10, <5>1
      <4>2. \A j \in 1 .. n : pages'[j].version < version + 1
        <5>1. \A j \in 1 .. n : pages[j].version \in Nat
          BY PageFacts
        <5>2. \A j \in 1 .. n : pages[j].version < version + 1
          BY <1>5, <1>8, <5>1
        <5> QED
          BY <1>9, <5>2
      <4> QED
        BY <1>7, <1>8, <1>9, <3>1, <4>1, <4>2
    <3>2. CASE i \in 1 .. n
      <4>1. \A j \in 1 .. i - 1 : pages'[j] = pages[j]
        BY <1>8, <1>9, <3>2
      <4>2. i - 1 \in 0 .. n
        BY <1>8, <3>2
      <4> QED
        <5>1. /\ pages[i].id = i - 1
              /\ \A j \in 1 .. i - 1 : pages[j].version < pages[i].version
              /\ pages[i].version > stateFile.version
                   => pages[i].before = Built(pages, i - 1, stateFile)
          BY <1>1, <3>2 DEF DiskInv, ReplayedTo, Built
        <5> QED
          BY <1>2, <1>9, <1>10, <3>2, <4>1, <4>2, <5>1
    <3> QED
      BY <1>8, <3>1, <3>2
  <2> QED
    BY <1>1, <1>2, <1>9, <2>1 DEF DiskInv, ReplayedTo, Built
<1>14. Filed(c)'
  <2>1. \A i \in 1 .. n + 1 : pages'[i].version <= version + 1
    <3>1. \A i \in 1 .. n : pages[i].version \in Nat /\ pages[i].version <= version
      BY <1>5, PageFacts
    <3>2. \A i \in 1 .. n : pages'[i].version <= version + 1
      BY <1>8, <1>9, <3>1
    <3>3. pages'[n + 1].version <= version + 1
      BY <1>7, <1>8, <1>9
    <3> QED
      BY <1>8, <3>2, <3>3
  <2> QED
    BY <1>2, <1>3, <1>5, <1>6, <1>9, <1>11, <2>1 DEF Filed
<1>15. Writing(c)'
  <2>1. page = Page(Len(pages') - 1, version + 1, job[c].ops, tables)
    BY <1>6, <1>8, <1>9 DEF page
  <2> QED
    BY <1>2, <1>3, <1>4, <1>5, <1>9, <1>12, <2>1 DEF Writing
<1>16. Agreed(c)' /\ Saving(c)'
  BY <1>3, <1>4 DEF Agreed, Saving, Writes
<1> QED
  BY <1>3, <1>12, <1>13, <1>14, <1>15, <1>16, Unfocus DEF CallInv

\* A record too large for a page: nothing was written, the call is over.
LEMMA DurabilityRefused ==
  ASSUME TypeOK, IsolationInv, DurabilityInv, NEW c \in Threads, RecordTooLarge(c)
  PROVE  DurabilityInv' /\ Durable' = Durable /\ Durable = tables /\ inflight' = {}
<1>1. /\ Alone(c) /\ DiskInv /\ CallInv(c) /\ at[c] \in {"append", "compact"}
      /\ Leave(c, FALSE)
      /\ UNCHANGED <<pages, pageFile, tail, stateFile, wal, phase, version, tables, nextPage>>
  BY CallerAlone, Focus DEF RecordTooLarge, engineVars, pageVars, imageVars
<1>2. /\ Alone(c)' /\ at'[c] = "idle" /\ job'[c].kind = "none" /\ promised' = promised
      /\ inflight' = IF job[c].kind \in Writes THEN {} ELSE inflight
  BY <1>1, LeaveAlone
<1>3. Durable' = Durable /\ Synced' = Synced /\ DiskInv'
  BY <1>1, SameFiles
<1>4. \/ job[c].kind \in {"commit", "bulk"} /\ at[c] = "append"
      \/ job[c].kind = "compact" /\ at[c] = "compact"
  BY <1>1 DEF IsolationInv, LabelInv
<1>5. tables = promised /\ Durable = tables /\ (job[c].kind \notin Writes => inflight = {})
  BY <1>1, <1>4 DEF CallInv, Agreed, Writing, Writes
<1>6. /\ stateFile.version <= version /\ tail = "clean" /\ nextPage = Len(Synced)
      /\ \A i \in 1 .. Len(pages) : pages[i].version <= version
  BY <1>1, <1>4 DEF CallInv, Filed
<1>7. version \in Nat /\ \A i \in 1 .. Len(pages) : pages[i].version \in Nat
  BY PageFacts DEF TypeOK
<1> QED
  BY <1>1, <1>2, <1>3, <1>5, <1>6, <1>7, Returned

LEMMA DurabilitySync ==
  ASSUME TypeOK, IsolationInv, DurabilityInv, NEW c \in Threads, SyncRecord(c)
  PROVE  DurabilityInv' /\ Durable' = job[c].result /\ inflight = {job[c].result}
<1>1. Alone(c) /\ DiskInv /\ CallInv(c) /\ at[c] = "sync"
  BY CallerAlone, Focus DEF SyncRecord
<1>2. /\ Goto(c, "tables") /\ tail' = "clean" /\ nextPage' = nextPage + 1
      /\ UNCHANGED <<phase, version, tables, image, pages, pageFile, stateFile, tmp, wal,
                     promised, inflight>>
  BY DEF SyncRecord, imageVars, ghostVars
<1>3. Alone(c)' /\ at'[c] = "tables" /\ job' = job
  BY <1>1, <1>2, GotoAlone
<1>4. /\ ReplayedTo(pages, Len(pages)) = job[c].result
      /\ Len(pages) \in Nat \ {0} /\ pageFile /\ nextPage = Len(pages) - 1
      /\ job[c].kind \in {"commit", "bulk"}
  BY <1>1, SyncedRecord
<1>5. Synced' = pages /\ Durable' = job[c].result
  BY <1>2, <1>4 DEF Synced, Durable, ReplayedTo
<1>6. DiskInv'
  BY <1>1, <1>2 DEF DiskInv, ReplayedTo
<1>7. inflight = {job[c].result} /\ tables = promised
  BY <1>1, <1>4 DEF CallInv, Writing, Writes
<1>8. Filed(c)'
  <2>1. nextPage' = Len(Synced')
    BY <1>2, <1>4, <1>5
  <2> QED
    BY <1>1, <1>2, <1>3, <2>1 DEF CallInv, Filed
<1>9. Agreed(c)' /\ Writing(c)' /\ Saving(c)'
  BY <1>2, <1>3, <1>4, <1>5, <1>7 DEF Agreed, Writing, Saving, Writes
<1> QED
  BY <1>3, <1>5, <1>6, <1>7, <1>8, <1>9, Unfocus DEF CallInv

LEMMA DurabilityPublish ==
  ASSUME TypeOK, IsolationInv, DurabilityInv, NEW c \in Threads, PublishTables(c)
  PROVE  DurabilityInv' /\ Durable' = Durable /\ inflight = {tables'}
<1>1. Alone(c) /\ DiskInv /\ CallInv(c) /\ at[c] = "tables"
  BY CallerAlone, Focus DEF PublishTables
<1>2. /\ Goto(c, "version") /\ tables' = job[c].result
      /\ UNCHANGED <<phase, version, nextPage, image, pages, pageFile, tail, stateFile, tmp,
                     wal, promised, inflight>>
  BY DEF PublishTables, pageVars, imageVars, ghostVars
<1>3. Alone(c)' /\ at'[c] = "version" /\ job' = job
  BY <1>1, <1>2, GotoAlone
<1>4. Durable' = Durable /\ Synced' = Synced /\ DiskInv'
  BY <1>1, <1>2, SameFiles
<1>5. job[c].kind \in Writes
  BY <1>1 DEF IsolationInv, LabelInv
<1>6. inflight = {job[c].result}
  BY <1>1, <1>5 DEF CallInv, Writing
<1>7. Filed(c)'
  BY <1>1, <1>2, <1>3, <1>4 DEF CallInv, Filed
<1>8. Agreed(c)' /\ Writing(c)' /\ Saving(c)'
  BY <1>1, <1>2, <1>3, <1>4, <1>5 DEF CallInv, Agreed, Writing, Saving, Writes
<1> QED
  BY <1>2, <1>3, <1>4, <1>6, <1>7, <1>8, Unfocus DEF CallInv

LEMMA DurabilityVersion ==
  ASSUME TypeOK, IsolationInv, DurabilityInv, NEW c \in Threads, PublishVersion(c)
  PROVE  /\ DurabilityInv' /\ Durable' = Durable
         /\ inflight' # inflight => /\ inflight' = {} /\ inflight = {tables}
                                    /\ Durable = tables
<1>1. Alone(c) /\ DiskInv /\ CallInv(c) /\ at[c] = "version"
  BY CallerAlone, Focus DEF PublishVersion
<1>2. /\ version' = version + 1
      /\ UNCHANGED <<phase, tables, nextPage, pages, pageFile, tail, stateFile, tmp, wal>>
      /\ \/ Goto(c, "ckVersion") /\ UNCHANGED <<lock, tx, image, ghostVars>>
         \/ job[c].kind # "restore" /\ Leave(c, TRUE)
  BY DEF PublishVersion, pageVars, imageVars
<1>3. Durable' = Durable /\ Synced' = Synced /\ DiskInv'
  BY <1>1, <1>2, SameFiles
<1>4. job[c].kind \in Writes
  BY <1>1 DEF IsolationInv, LabelInv
<1>5. /\ inflight = {job[c].result} /\ tables = job[c].result
      /\ job[c].kind # "restore" => Durable = job[c].result
      /\ job[c].kind = "restore" => Durable = promised
  BY <1>1, <1>4 DEF CallInv, Writing
<1>6. /\ stateFile.version <= version' /\ tail = "clean" /\ nextPage = Len(Synced)
      /\ \A i \in 1 .. Len(pages) : pages[i].version <= version' /\ pages[i].version \in Nat
      /\ version' \in Nat
  <2>1. version \in Nat /\ stateFile.version \in Nat
    BY DEF TypeOK, Images
  <2> QED
    BY <1>1, <1>2, <2>1, PageFacts DEF CallInv, Filed
<1>7. CASE Goto(c, "ckVersion") /\ UNCHANGED <<lock, tx, image, ghostVars>>
  <2>1. Alone(c)' /\ at'[c] = "ckVersion" /\ job' = job
    BY <1>1, <1>2, <1>7, GotoAlone
  <2>2. inflight' = inflight /\ promised' = promised
    BY <1>7 DEF ghostVars
  <2>3. Filed(c)'
    <3>1. \A i \in 1 .. Len(pages) : pages[i].version <= version' + 1
      BY <1>6
    <3> QED
      BY <1>2, <1>3, <1>6, <2>1, <3>1 DEF Filed
  <2>4. Agreed(c)' /\ Writing(c)' /\ Saving(c)'
    <3>1. job[c].kind # "compact"
      BY <1>4 DEF Writes
    <3> QED
      BY <1>2, <1>3, <1>4, <1>5, <2>1, <2>2, <3>1 DEF Agreed, Writing, Saving
  <2> QED
    BY <1>3, <2>1, <2>2, <2>3, <2>4, Unfocus DEF CallInv
<1>8. CASE job[c].kind # "restore" /\ Leave(c, TRUE)
  <2>1. /\ Alone(c)' /\ at'[c] = "idle" /\ job'[c].kind = "none"
        /\ promised' = job[c].result /\ inflight' = {}
    BY <1>1, <1>2, <1>4, <1>8, LeaveAlone
  <2>2. DurabilityInv'
    BY <1>2, <1>3, <1>5, <1>6, <1>8, <2>1, Returned
  <2> QED
    BY <1>3, <1>5, <1>8, <2>1, <2>2
<1> QED
  BY <1>2, <1>7, <1>8

-----------------------------------------------------------------------------
(* Checkpoints and compaction.                                             *)

\* The steps of a checkpoint that only read, or write what replay never reads.
LEMMA DurabilityRead ==
  ASSUME TypeOK, IsolationInv, DurabilityInv, NEW c \in Threads,
         ReadVersion(c) \/ ReadTables(c) \/ WriteTmp(c) \/ WriteSidecars(c)
  PROVE  DurabilityInv' /\ Durable' = Durable
<1>1. /\ Alone(c) /\ DiskInv /\ CallInv(c)
      /\ at[c] \in {"ckVersion", "ckTables", "ckTmp", "ckSidecars"}
  BY CallerAlone, Focus DEF ReadVersion, ReadTables, WriteTmp, WriteSidecars
<1>2. UNCHANGED <<phase, version, tables, nextPage, pages, pageFile, tail, stateFile, wal,
                  promised, inflight>>
  BY DEF ReadVersion, ReadTables, WriteTmp, WriteSidecars,
         engineVars, pageVars, imageVars, ghostVars
<1>3. Durable' = Durable /\ Synced' = Synced /\ DiskInv'
  BY <1>1, <1>2, SameFiles
<1>4. PICK label :
        /\ Goto(c, label) /\ label \in {"ckTables", "ckTmp", "ckReplace", "ckWal"}
        /\ label = "ckWal" <=> at[c] = "ckSidecars"
  BY DEF ReadVersion, ReadTables, WriteTmp, WriteSidecars
<1>5. Alone(c)' /\ at'[c] = label /\ job' = job
  BY <1>1, <1>2, <1>4, GotoAlone
<1>6. Filed(c)' /\ Agreed(c)' /\ Writing(c)'
  BY <1>1, <1>2, <1>3, <1>4, <1>5 DEF CallInv, Filed, Agreed, Writing
<1>7. Saving(c)'
  <2>1. Saving(c) /\ image \in [Threads -> Images]
    BY <1>1 DEF CallInv, TypeOK
  <2>2. CASE ReadVersion(c)
    <3>1. at'[c] = "ckTables" /\ image'[c] = [image[c] EXCEPT !.version = version]
      BY <1>5, <2>1, <2>2, GotoAlone DEF ReadVersion, Goto, TypeOK
    <3>2. image'[c].version = version
      BY <2>1, <3>1 DEF Images
    <3> QED
      BY <1>2, <1>5, <2>1, <3>1, <3>2 DEF Saving
  <2>3. CASE ReadTables(c)
    <3>1. /\ at'[c] = "ckTmp" /\ image'[c] = [image[c] EXCEPT !.tables = tables]
          /\ at[c] = "ckTables"
      BY <2>1, <2>3 DEF ReadTables, Goto, TypeOK
    <3>2. image'[c].version = image[c].version /\ image'[c].tables = tables
      BY <2>1, <3>1 DEF Images
    <3> QED
      BY <1>2, <1>5, <2>1, <3>1, <3>2 DEF Saving
  <2>4. CASE WriteTmp(c)
    <3>1. /\ at'[c] = "ckReplace" /\ tmp' = <<image[c]>> /\ image' = image
          /\ at[c] = "ckTmp"
      BY <2>4 DEF WriteTmp, Goto, TypeOK
    <3> QED
      BY <1>2, <1>5, <2>1, <3>1 DEF Saving
  <2>5. CASE WriteSidecars(c)
    <3>1. at'[c] = "ckWal" /\ image' = image /\ at[c] = "ckSidecars"
      BY <2>5 DEF WriteSidecars, Goto, TypeOK
    <3> QED
      BY <1>2, <1>5, <2>1, <3>1 DEF Saving
  <2> QED
    BY <2>2, <2>3, <2>4, <2>5
<1> QED
  BY <1>3, <1>5, <1>6, <1>7, Unfocus DEF CallInv

\* The checkpoint takes effect: replay has nothing left to do.
LEMMA DurabilityReplace ==
  ASSUME TypeOK, IsolationInv, DurabilityInv, NEW c \in Threads, ReplaceState(c)
  PROVE  /\ DurabilityInv' /\ Durable' = tables
         /\ Durable = tables \/ inflight = {tables}
<1>1. Alone(c) /\ DiskInv /\ CallInv(c) /\ at[c] = "ckReplace"
  BY CallerAlone, Focus DEF ReplaceState
<1>2. /\ Goto(c, "ckSidecars") /\ stateFile' = tmp[1]
      /\ UNCHANGED <<phase, version, tables, nextPage, image, pages, pageFile, tail, wal,
                     promised, inflight>>
  BY DEF ReplaceState, engineVars, pageVars, ghostVars
<1>3. Alone(c)' /\ at'[c] = "ckSidecars" /\ job' = job
  BY <1>1, <1>2, GotoAlone
<1>4. stateFile'.version = version /\ stateFile'.tables = tables
  BY <1>1, <1>2 DEF CallInv, Saving
<1>5. /\ tail = "clean" /\ nextPage = Len(Synced)
      /\ \A i \in 1 .. Len(pages) : pages[i].version <= version /\ pages[i].version \in Nat
      /\ version \in Nat
  BY <1>1, PageFacts DEF CallInv, Filed, TypeOK
<1>6. Synced' = pages /\ Synced = pages
  BY <1>2, <1>5 DEF Synced
<1>7. \A i \in 0 .. Len(pages) : Built(pages, i, stateFile') = tables
  <2>1. ASSUME NEW i \in 0 .. Len(pages)
        PROVE  ~(i > 0 /\ pages[i].version > stateFile'.version)
    <3>1. Len(pages) \in Nat
      BY DEF TypeOK
    <3>2. i > 0 => i \in 1 .. Len(pages)
      BY <3>1
    <3> QED
      BY <1>4, <1>5, <3>2
  <2> QED
    BY <1>4, <2>1 DEF Built
<1>8. pages \in Seq(Pages) /\ wal = << >> /\ (~pageFile => pages = << >>)
  BY <1>1 DEF TypeOK, DiskInv
<1>9. Durable' = tables
  <2>1. CASE pageFile
    <3>1. Durable' = Built(pages, Len(pages), stateFile')
      BY <1>2, <1>6, <2>1 DEF Durable, ReplayedTo, Built
    <3> QED
      BY <1>7, <1>8, <3>1
  <2>2. CASE ~pageFile
    <3>1. Durable' = Built(<< >>, Len(<< >>), stateFile')
      BY <1>2, <1>8, <2>2 DEF Durable, ReplayedTo, Built
    <3> QED
      BY <1>4, <3>1 DEF Built
  <2> QED
    BY <2>1, <2>2
<1>10. DiskInv'
  <2>1. ASSUME NEW i \in 1 .. Len(pages)
        PROVE  /\ pages[i].id = i - 1
               /\ \A j \in 1 .. i - 1 : pages[j].version < pages[i].version
               /\ ~(pages[i].version > stateFile'.version)
    <3>1. ~(pages[i].version > version)
      BY <1>5
    <3> QED
      BY <1>1, <1>4, <3>1 DEF DiskInv
  <2> QED
    BY <1>2, <1>8, <2>1 DEF DiskInv
<1>11. Filed(c)'
  BY <1>2, <1>3, <1>4, <1>5, <1>6 DEF Filed
<1>12. Saving(c)'
  BY <1>1, <1>2, <1>3, <1>4 DEF Saving, CallInv
<1>13. job[c].kind \in Writes => inflight = {job[c].result} /\ tables = job[c].result
  BY <1>1 DEF CallInv, Writing
<1>14. job[c].kind \notin Writes => inflight = {} /\ tables = promised /\ Durable = tables
  BY <1>1 DEF CallInv, Agreed
<1>15. Agreed(c)' /\ Writing(c)'
  BY <1>2, <1>3, <1>9, <1>13, <1>14 DEF Agreed, Writing
<1> QED
  BY <1>3, <1>9, <1>10, <1>11, <1>12, <1>13, <1>14, <1>15, Unfocus DEF CallInv

\* The call ends once state.json is replaced: by the return, or by the raise of an
\* index image that does not fit.
LEMMA DurabilityLeft ==
  ASSUME TypeOK, IsolationInv, DurabilityInv, NEW c \in Threads,
         at[c] \in {"ckSidecars", "ckWal"}, Leave(c, TRUE),
         UNCHANGED <<phase, version, tables, nextPage, pages, pageFile, tail, stateFile, wal>>
  PROVE  /\ DurabilityInv' /\ Durable' = Durable
         /\ inflight' # inflight => /\ inflight' = {} /\ inflight = {tables}
                                    /\ Durable = tables
<1>1. Alone(c) /\ DiskInv /\ CallInv(c)
  BY CallerAlone, Focus
<1>2. Durable' = Durable /\ Synced' = Synced /\ DiskInv'
  BY <1>1, SameFiles
<1>3. /\ stateFile.version <= version /\ tail = "clean" /\ nextPage = Len(Synced)
      /\ \A i \in 1 .. Len(pages) : pages[i].version <= version /\ pages[i].version \in Nat
      /\ version \in Nat
  BY <1>1, PageFacts DEF CallInv, Filed, TypeOK
<1>4. /\ Alone(c)' /\ at'[c] = "idle" /\ job'[c].kind = "none"
      /\ promised' = IF job[c].kind \in Writes THEN job[c].result ELSE promised
      /\ inflight' = IF job[c].kind \in Writes THEN {} ELSE inflight
  BY <1>1, LeaveAlone
<1>5. job[c].kind \in Writes =>
        inflight = {job[c].result} /\ tables = job[c].result /\ Durable = job[c].result
  BY <1>1 DEF CallInv, Writing
<1>6. job[c].kind \notin Writes => inflight = {} /\ tables = promised /\ Durable = tables
  BY <1>1 DEF CallInv, Agreed
<1>7. inflight' = {} /\ tables' = promised' /\ Durable' = tables'
  BY <1>2, <1>4, <1>5, <1>6
<1>8. DurabilityInv'
  BY <1>2, <1>3, <1>4, <1>7, Returned
<1> QED
  BY <1>2, <1>4, <1>5, <1>6, <1>8

LEMMA DurabilityTooLarge ==
  ASSUME TypeOK, IsolationInv, DurabilityInv, NEW c \in Threads, IndexTooLarge(c)
  PROVE  /\ DurabilityInv' /\ Durable' = Durable
         /\ inflight' # inflight => /\ inflight' = {} /\ inflight = {tables}
                                    /\ Durable = tables
<1>1. /\ at[c] \in {"ckSidecars", "ckWal"} /\ Leave(c, TRUE)
      /\ UNCHANGED <<phase, version, tables, nextPage, pages, pageFile, tail, stateFile, wal>>
  BY DEF IndexTooLarge, engineVars, pageVars
<1> QED
  BY <1>1, DurabilityLeft

LEMMA DurabilityTruncate ==
  ASSUME TypeOK, IsolationInv, DurabilityInv, NEW c \in Threads, TruncateWal(c)
  PROVE  /\ DurabilityInv' /\ Durable' = Durable
         /\ inflight' # inflight => /\ inflight' = {} /\ inflight = {tables}
                                    /\ Durable = tables
<1>1. Alone(c) /\ DiskInv /\ CallInv(c) /\ at[c] = "ckWal"
  BY CallerAlone, Focus DEF TruncateWal
<1>2. /\ wal' = << >>
      /\ UNCHANGED <<phase, version, tables, nextPage, pages, pageFile, tail, stateFile, tmp>>
      /\ \/ /\ job[c].kind = "compact" /\ Goto(c, "compact")
            /\ UNCHANGED <<lock, tx, image, ghostVars>>
         \/ job[c].kind # "compact" /\ Leave(c, TRUE)
  BY DEF TruncateWal, engineVars, pageVars
<1>3. Durable' = Durable /\ Synced' = Synced /\ DiskInv'
  <2>1. wal' = wal
    BY <1>1, <1>2 DEF DiskInv
  <2> QED
    BY <1>1, <1>2, <2>1, SameFiles
<1>5. CASE /\ job[c].kind = "compact" /\ Goto(c, "compact")
           /\ UNCHANGED <<lock, tx, image, ghostVars>>
  <2>1. Alone(c)' /\ at'[c] = "compact" /\ job' = job
    BY <1>1, <1>2, <1>5, GotoAlone
  <2>2. inflight' = inflight /\ promised' = promised
    BY <1>5 DEF ghostVars
  <2>3. Filed(c)' /\ Agreed(c)' /\ Writing(c)' /\ Saving(c)'
    BY <1>1, <1>2, <1>3, <1>5, <2>1, <2>2
       DEF CallInv, Filed, Agreed, Writing, Saving, Writes
  <2> QED
    BY <1>3, <2>1, <2>2, <2>3, Unfocus DEF CallInv
<1>6. CASE job[c].kind # "compact" /\ Leave(c, TRUE)
  <2>1. wal' = wal
    BY <1>1, <1>2 DEF DiskInv
  <2> QED
    BY <1>1, <1>2, <1>6, <2>1, DurabilityLeft
<1> QED
  BY <1>2, <1>5, <1>6

LEMMA DurabilityRewrite ==
  ASSUME TypeOK, IsolationInv, DurabilityInv, NEW c \in Threads, RewritePages(c)
  PROVE  DurabilityInv' /\ Durable' = Durable /\ inflight' = inflight
<1>1. Alone(c) /\ DiskInv /\ CallInv(c) /\ at[c] = "compact"
  BY CallerAlone, Focus DEF RewritePages
<1>2. /\ pages' = IF job[c].result = << >> THEN << >>
                  ELSE <<Page(0, version, job[c].result, << >>)>>
      /\ nextPage' = Len(pages') /\ pageFile' = TRUE /\ tail' = "clean" /\ Leave(c, TRUE)
      /\ UNCHANGED <<phase, version, tables, stateFile, tmp, wal>>
  BY DEF RewritePages, imageVars
<1>3. job[c].kind = "compact" /\ job[c].kind \notin Writes
  BY <1>1 DEF IsolationInv, LabelInv, Writes
<1>4. /\ Alone(c)' /\ at'[c] = "idle" /\ job'[c].kind = "none" /\ promised' = promised
      /\ inflight' = inflight
  BY <1>1, <1>2, <1>3, LeaveAlone
<1>5. /\ inflight = {} /\ tables = promised /\ Durable = tables
      /\ stateFile.version = version /\ stateFile.tables = tables /\ version \in Nat
  BY <1>1, <1>3 DEF CallInv, Agreed, Saving, TypeOK
<1>6. /\ pages' = << >> \/ (Len(pages') = 1 /\ pages' # << >>)
      /\ Len(pages') = 1 => pages'[1].id = 0 /\ pages'[1].version = version
  BY <1>2 DEF Page
<1>7. Synced' = pages'
  BY <1>2 DEF Synced
<1>8. Durable' = tables
  <2>1. Durable' = Built(pages', Len(pages'), stateFile)
    BY <1>2, <1>7 DEF Durable, ReplayedTo, Built
  <2>2. CASE pages' = << >>
    BY <1>5, <2>1, <2>2 DEF Built
  <2>3. CASE Len(pages') = 1
    <3>1. ~(pages'[1].version > stateFile.version)
      BY <1>5, <1>6, <2>3
    <3>2. Durable' = Built(pages', 1, stateFile)
      BY <2>1, <2>3
    <3> QED
      BY <1>5, <3>1, <3>2 DEF Built
  <2> QED
    BY <1>6, <2>2, <2>3
<1>9. \A i \in 1 .. Len(pages') : i = 1 /\ Len(pages') = 1
  <2> SUFFICES ASSUME NEW i \in 1 .. Len(pages') PROVE i = 1 /\ Len(pages') = 1
    OBVIOUS
  <2>1. CASE pages' = << >>
    <3>1. i \in 1 .. 0
      BY <2>1
    <3> QED
      BY <3>1
  <2>2. CASE Len(pages') = 1
    BY <2>2
  <2> QED
    BY <1>6, <2>1, <2>2
<1>10. DiskInv'
  <2>1. ASSUME NEW i \in 1 .. Len(pages')
        PROVE  /\ pages'[i].id = i - 1
               /\ \A j \in 1 .. i - 1 : pages'[j].version < pages'[i].version
               /\ ~(pages'[i].version > stateFile'.version)
    <3>1. i = 1 /\ pages'[i].id = 0 /\ pages'[i].version = version
      BY <1>6, <1>9
    <3> QED
      BY <1>2, <1>5, <3>1
  <2> QED
    BY <1>1, <1>2, <2>1 DEF DiskInv
<1>11. \A i \in 1 .. Len(pages') : pages'[i].version = version
  BY <1>6, <1>9
<1> QED
  BY <1>2, <1>4, <1>5, <1>7, <1>8, <1>10, <1>11, Returned

\* Without IoErrors, and with state.tmp its own, a checkpoint does not raise.
LEMMA NoRaise ==
  ASSUME NoFaults, IsolationInv, DurabilityInv, NEW c \in Threads,
         SyncRaises(c) \/ CheckpointRaises(c)
  PROVE  FALSE
<1>1. at[c] = "ckReplace" /\ tmp = << >>
  BY DEF NoFaults, SyncRaises, CheckpointRaises
<1>2. tmp = <<image[c]>>
  BY <1>1 DEF DurabilityInv, CheckpointInv
<1> QED
  BY <1>1, <1>2

-----------------------------------------------------------------------------
(* Crash and recovery.                                                     *)

\* With nobody inside a call the invariant speaks of the files alone.
LEMMA Closed ==
  ASSUME phase' \in {"down", "opening"},
         \A d \in Threads : at'[d] = "idle" /\ job'[d].kind = "none",
         DiskInv', ClosedInv', OpeningInv'
  PROVE  DurabilityInv'
<1>1. OneCall' /\ OpenInv' /\ WriteInv' /\ CheckpointInv' /\ ReopenSucceeds'
  BY DEF OneCall, OpenInv, WriteInv, CheckpointInv, ReopenSucceeds, Writes
<1> QED
  BY <1>1 DEF DurabilityInv

\* What a directory is worth while an engine has it open: the promised tables, or
\* those of the write that is running.
LEMMA OpenDurable ==
  ASSUME TypeOK, IsolationInv, DurabilityInv, phase = "open"
  PROVE  /\ Durable \in {promised} \union inflight
         /\ tables \in {promised} \union inflight
         /\ inflight = {} => tables = promised
<1>1. CASE \A c \in Threads : job[c].kind \notin Writes
  BY <1>1 DEF DurabilityInv, OpenInv
<1>2. ASSUME NEW c \in Threads, job[c].kind \in Writes
      PROVE  /\ Durable \in {promised} \union inflight
             /\ tables \in {promised} \union inflight
             /\ inflight = {} => tables = promised
  <2>1. /\ inflight = {job[c].result}
        /\ at[c] \in {"append", "sync", "tables"} => tables = promised
        /\ at[c] \in {"append", "sync"} => Durable = tables
        /\ at[c] \notin {"append", "sync", "tables"} => tables = job[c].result
        /\ job[c].kind # "restore" /\ at[c] \notin {"append", "sync"}
             => Durable = job[c].result
        /\ job[c].kind = "restore" => Durable \in {job[c].result, promised}
    BY <1>2 DEF DurabilityInv, WriteInv
  <2> QED
    BY <2>1
<1> QED
  BY <1>1, <1>2

LEMMA DurabilityCrash ==
  ASSUME TypeOK, IsolationInv, DurabilityInv, Crash
  PROVE  DurabilityInv' /\ Durable' \in {Durable} \union inflight
<1>1. /\ phase' = "down" /\ TailOutcome
      /\ \A d \in Threads : at'[d] = "idle" /\ job'[d].kind = "none"
      /\ UNCHANGED <<pageFile, stateFile, wal, promised, inflight>>
  BY DEF Crash, NoJob, imageVars, ghostVars
<1>2. DiskInv /\ pages \in Seq(Pages) /\ Len(pages) \in Nat
  BY DEF DurabilityInv, TypeOK
<1>3. Durable \in {promised} \union inflight
  <2>1. CASE phase = "open"
    BY <2>1, OpenDurable
  <2>2. CASE phase # "open"
    BY <2>2 DEF DurabilityInv, ClosedInv
  <2> QED
    BY <2>1, <2>2
<1>4. CASE UNCHANGED <<pages, tail>> /\ tail # "unsynced"
  <2>1. Durable' = Durable /\ DiskInv'
    BY <1>1, <1>2, <1>4, SameFiles
  <2> QED
    BY <1>1, <1>3, <1>4, <2>1, Closed DEF ClosedInv, OpeningInv
<1>5. CASE tail = "unsynced"
  <2>1. PICK c \in Threads : at[c] = "sync"
    <3>1. phase = "open"
      BY <1>5 DEF DurabilityInv, ClosedInv
    <3> QED
      BY <1>5, <3>1 DEF DurabilityInv, OpenInv
  <2>2. Alone(c) /\ CallInv(c)
    BY <2>1, CallerAlone, Focus
  <2>3. /\ ReplayedTo(pages, Len(pages)) = job[c].result /\ pageFile
        /\ job[c].kind \in {"commit", "bulk"}
    BY <1>2, <2>1, <2>2, SyncedRecord
  <2>4. inflight = {job[c].result}
    BY <2>2, <2>3 DEF CallInv, Writing, Writes
  <2>5. CASE pages' = pages /\ tail' = "clean"
    <3>1. Durable' = job[c].result /\ DiskInv'
      BY <1>1, <1>2, <2>3, <2>5 DEF Durable, Synced, ReplayedTo, DiskInv
    <3> QED
      BY <1>1, <2>4, <2>5, <3>1, Closed DEF ClosedInv, OpeningInv
  <2>6. CASE pages' = SubSeq(pages, 1, Len(pages) - 1) /\ tail' \in {"clean", "torn"}
    <3>1. Synced' = Synced /\ pages' = Synced
      BY <1>5, <2>6 DEF Synced
    <3>2. Durable' = Durable
      BY <1>1, <3>1 DEF Durable, ReplayedTo
    <3>3. /\ Len(pages') \in Nat /\ Len(pages') <= Len(pages)
          /\ \A i \in 1 .. Len(pages') : pages'[i] = pages[i]
      BY <1>2, <3>1, DurableIs
    <3>4. DiskInv'
      <4>1. ASSUME NEW i \in 1 .. Len(pages')
            PROVE  /\ pages'[i].id = i - 1
                   /\ \A j \in 1 .. i - 1 : pages'[j].version < pages'[i].version
                   /\ pages'[i].version > stateFile'.version
                        => pages'[i].before = Built(pages', i - 1, stateFile')
        <5>1. /\ i \in 1 .. Len(pages) /\ pages'[i] = pages[i]
              /\ \A j \in 1 .. i - 1 : pages'[j] = pages[j]
          BY <1>2, <3>3
        <5>2. /\ pages[i].id = i - 1
              /\ \A j \in 1 .. i - 1 : pages[j].version < pages[i].version
              /\ pages[i].version > stateFile.version
                   => pages[i].before = Built(pages, i - 1, stateFile)
          BY <1>2, <5>1 DEF DiskInv, ReplayedTo, Built
        <5>3. Built(pages', i - 1, stateFile) = Built(pages, i - 1, stateFile)
          <6>1. i - 1 > 0 => i - 1 \in 1 .. i - 1
            BY <3>3
          <6> QED
            BY <5>1, <6>1 DEF Built
        <5> QED
          BY <1>1, <5>1, <5>2, <5>3
      <4>2. wal' = << >> /\ pageFile'
        BY <1>1, <1>2, <2>3 DEF DiskInv
      <4> QED
        BY <4>1, <4>2 DEF DiskInv, ReplayedTo, Built
    <3> QED
      BY <1>1, <1>3, <2>6, <3>2, <3>4, Closed DEF ClosedInv, OpeningInv
  <2> QED
    BY <1>1, <1>5, <2>5, <2>6 DEF TailOutcome
<1> QED
  BY <1>1, <1>4, <1>5 DEF TailOutcome

\* What the constructor reads is pages.dat, and replay follows its order.
LEMMA Reading ==
  ASSUME TypeOK, IsolationInv, DurabilityInv, phase # "open"
  PROVE  /\ DiskInv /\ ClosedInv /\ OpeningInv /\ Log = pages /\ Synced = pages
         /\ Durable = ReplayedTo(pages, Len(pages))
         /\ Len(pages) \in Nat /\ pos \in Nat \ {0} /\ version \in Nat
         /\ stateFile.version \in Nat
         /\ \A c \in Threads : at[c] = "idle" /\ job[c].kind = "none"
<1>1. DiskInv /\ ClosedInv /\ OpeningInv
  BY DEF DurabilityInv
<1>2. tail # "unsynced"
  BY <1>1 DEF ClosedInv
<1>3. Synced = pages
  BY <1>2 DEF Synced
<1>4. Log = pages
  BY <1>1 DEF DiskInv, Log
<1>5. Durable = ReplayedTo(pages, Len(pages))
  BY <1>1, <1>3, DurableIs
<1>6. /\ Len(pages) \in Nat /\ pos \in Nat \ {0} /\ version \in Nat
      /\ stateFile.version \in Nat
  BY DEF TypeOK, Images
<1>7. \A c \in Threads : at[c] = "idle" /\ job[c].kind = "none"
  BY DEF IsolationInv, LockInv
<1> QED
  BY <1>1, <1>3, <1>4, <1>5, <1>6, <1>7

LEMMA DurabilityOpen ==
  ASSUME TypeOK, IsolationInv, DurabilityInv, Open
  PROVE  DurabilityInv' /\ Durable' = Durable
<1>1. /\ phase = "down" /\ phase' = "opening" /\ tail' = "clean" /\ nextPage' = Len(pages)
      /\ version' = stateFile.version /\ tables' = stateFile.tables /\ pos' = 1
      /\ UNCHANGED <<at, job, pages, pageFile, stateFile, wal, promised, inflight>>
  BY DEF Open, DiscoverNextPageId, callVars, imageVars, ghostVars
<1>2. /\ DiskInv /\ ClosedInv /\ Synced = pages /\ Len(pages) \in Nat
      /\ \A c \in Threads : at[c] = "idle" /\ job[c].kind = "none"
  BY <1>1, Reading
<1>3. Synced' = pages
  BY <1>1 DEF Synced
<1>4. Durable' = Durable /\ DiskInv'
  BY <1>1, <1>2, <1>3 DEF Durable, DiskInv, ReplayedTo
<1>5. ClosedInv'
  BY <1>1, <1>2, <1>4 DEF ClosedInv
<1>6. OpeningInv'
  BY <1>1, <1>2 DEF OpeningInv, ReplayedTo
<1> QED
  BY <1>1, <1>2, <1>4, <1>5, <1>6, Closed

\* A record is skipped when the checkpoint already holds it, and applied to
\* exactly the tables it was made from when not.
LEMMA DurabilityReplay ==
  ASSUME TypeOK, IsolationInv, DurabilityInv, ReplayRecord
  PROVE  DurabilityInv' /\ Durable' = Durable
<1>1. /\ phase = "opening" /\ pos <= Len(Log) /\ pos' = pos + 1
      /\ UNCHANGED <<phase, nextPage, at, job, pages, pageFile, tail, stateFile, wal,
                     promised, inflight>>
      /\ \/ /\ Log[pos].version <= version /\ version' = version /\ tables' = tables
         \/ /\ ~(Log[pos].version <= version) /\ version' = Log[pos].version
            /\ tables' = tables \o Log[pos].ops
  BY DEF ReplayRecord, AlreadyApplied, callVars, pageVars, imageVars, ghostVars
<1>2. /\ DiskInv /\ ClosedInv /\ OpeningInv /\ Log = pages /\ Len(pages) \in Nat
      /\ pos \in Nat \ {0} /\ version \in Nat /\ stateFile.version \in Nat
      /\ \A c \in Threads : at[c] = "idle" /\ job[c].kind = "none"
  BY <1>1, Reading
<1>3. /\ pos \in 1 .. Len(pages) /\ pages[pos].version \in Nat
      /\ pos > 1 => pos - 1 \in 1 .. Len(pages) /\ pos - 1 \in 1 .. pos - 1
  BY <1>1, <1>2, PageFacts
<1>4. /\ tables = Built(pages, pos - 1, stateFile) /\ tail = "clean" /\ nextPage = Len(pages)
      /\ version = IF pos > 1 /\ pages[pos - 1].version > stateFile.version
                     THEN pages[pos - 1].version ELSE stateFile.version
  BY <1>1, <1>2 DEF OpeningInv, ReplayedTo, Built
<1>5. /\ \A j \in 1 .. pos - 1 : pages[j].version < pages[pos].version
      /\ pages[pos].version > stateFile.version
           => pages[pos].before = Built(pages, pos - 1, stateFile)
  BY <1>2, <1>3 DEF DiskInv, ReplayedTo, Built
<1>6. pos > 1 => pages[pos - 1].version < pages[pos].version /\ pages[pos - 1].version \in Nat
  BY <1>3, <1>5, PageFacts
<1>7. Durable' = Durable /\ DiskInv'
  BY <1>1, <1>2, SameFiles
<1>8. /\ tables' = Built(pages, pos, stateFile)
      /\ version' = IF pages[pos].version > stateFile.version
                      THEN pages[pos].version ELSE stateFile.version
  <2>1. CASE pages[pos].version > stateFile.version
    <3>1. ~(pages[pos].version <= version)
      BY <1>2, <1>3, <1>4, <1>6, <2>1
    <3>2. tables' = tables \o pages[pos].ops /\ version' = pages[pos].version
      BY <1>1, <1>2, <3>1
    <3>3. tables' = pages[pos].before \o pages[pos].ops
      BY <1>4, <1>5, <2>1, <3>2
    <3>4. pos > 0
      BY <1>2
    <3>5. tables' = Built(pages, pos, stateFile)
      BY <2>1, <3>3, <3>4 DEF Built
    <3> QED
      BY <2>1, <3>2, <3>5
  <2>2. CASE ~(pages[pos].version > stateFile.version)
    <3>1. ~(pos > 1 /\ pages[pos - 1].version > stateFile.version)
      BY <1>2, <1>3, <1>6, <2>2
    <3>2. version = stateFile.version /\ tables = stateFile.tables
      <4>1. version = stateFile.version
        BY <1>4, <3>1
      <4>2. pos - 1 > 0 => pos > 1
        BY <1>2
      <4> QED
        BY <1>4, <3>1, <4>1, <4>2 DEF Built
    <3>3. version' = version /\ tables' = tables
      <4>1. pages[pos].version <= version
        BY <1>2, <1>3, <2>2, <3>2
      <4> QED
        BY <1>1, <1>2, <4>1
    <3> QED
      BY <2>2, <3>2, <3>3 DEF Built
  <2> QED
    BY <2>1, <2>2
<1>9. OpeningInv'
  <2>1. pos' - 1 = pos /\ pos' > 1 /\ pos' <= Len(pages) + 1
    BY <1>1, <1>2, <1>3
  <2> QED
    BY <1>1, <1>4, <1>8, <2>1 DEF OpeningInv, ReplayedTo, Built
<1>10. ClosedInv'
  BY <1>1, <1>2, <1>7 DEF ClosedInv
<1> QED
  BY <1>1, <1>2, <1>7, <1>9, <1>10, Closed

\* Every page carries the id of its place: no constructor refuses the directory.
LEMMA NeverRefused ==
  ASSUME TypeOK, IsolationInv, DurabilityInv, RefuseToOpen
  PROVE  FALSE
<1>1. phase = "opening" /\ pos <= Len(Log) /\ ~ValidHeader(pos)
  BY DEF RefuseToOpen
<1>2. DiskInv /\ Log = pages /\ Len(pages) \in Nat /\ pos \in Nat \ {0}
  BY <1>1, Reading
<1>3. pos \in 1 .. Len(pages)
  BY <1>1, <1>2
<1>4. pages[pos].id = pos - 1
  BY <1>2, <1>3 DEF DiskInv
<1> QED
  BY <1>1, <1>2, <1>4 DEF ValidHeader

\* Replay has ended: the engine serves what the directory is worth, and no record
\* is newer than it.
LEMMA DurabilityFinish ==
  ASSUME TypeOK, IsolationInv, DurabilityInv, FinishOpen
  PROVE  DurabilityInv' /\ Durable' = Durable /\ tables = Durable
<1>1. /\ phase = "opening" /\ pos > Len(Log) /\ phase' = "open" /\ inflight' = {}
      /\ promised' = IF tables \in inflight THEN tables ELSE promised
      /\ UNCHANGED <<version, tables, nextPage, at, job, pages, pageFile, tail, stateFile, wal>>
  BY DEF FinishOpen, callVars, pageVars
<1>2. /\ DiskInv /\ ClosedInv /\ OpeningInv /\ Log = pages /\ Len(pages) \in Nat
      /\ pos \in Nat \ {0} /\ version \in Nat /\ stateFile.version \in Nat
      /\ Durable = ReplayedTo(pages, Len(pages)) /\ Synced = pages
      /\ \A c \in Threads : at[c] = "idle" /\ job[c].kind = "none"
  BY <1>1, Reading
<1>3. /\ tail = "clean" /\ nextPage = Len(pages) /\ pos <= Len(pages) + 1
      /\ tables = ReplayedTo(pages, pos - 1)
      /\ version = IF pos > 1 /\ pages[pos - 1].version > stateFile.version
                     THEN pages[pos - 1].version ELSE stateFile.version
  BY <1>1, <1>2 DEF OpeningInv
<1>4. pos - 1 = Len(pages)
  BY <1>1, <1>2, <1>3
<1>5. tables = Durable
  BY <1>2, <1>3, <1>4
<1>6. promised' = tables
  BY <1>1, <1>2, <1>5 DEF ClosedInv
<1>7. Durable' = Durable /\ DiskInv' /\ Synced' = pages
  BY <1>1, <1>2, SameFiles
<1>8. stateFile.version <= version /\ \A i \in 1 .. Len(pages) : pages[i].version <= version
  <2>1. CASE Len(pages) = 0
    BY <1>2, <1>3, <1>4, <2>1
  <2>2. CASE Len(pages) # 0
    <3> DEFINE n == Len(pages)
    <3>1. n \in 1 .. n /\ pos > 1 /\ pages[n].version \in Nat
      BY <1>2, <1>4, <2>2, PageFacts
    <3>2. version = IF pages[n].version > stateFile.version
                      THEN pages[n].version ELSE stateFile.version
      BY <1>3, <1>4, <3>1
    <3>3. \A j \in 1 .. n - 1 : pages[j].version < pages[n].version
      BY <1>2, <3>1 DEF DiskInv
    <3>4. \A i \in 1 .. n : i = n \/ i \in 1 .. n - 1
      BY <1>2
    <3>5. \A i \in 1 .. n : pages[i].version \in Nat
      BY PageFacts
    <3> QED
      BY <1>2, <3>1, <3>2, <3>3, <3>4, <3>5
  <2> QED
    BY <2>1, <2>2
<1>9. OpenInv'
  <2>1. \A i \in 1 .. Len(pages) : pages[i].version <= version + 1
    BY <1>2, <1>8, PageFacts
  <2> QED
    BY <1>1, <1>2, <1>3, <1>5, <1>6, <1>7, <1>8, <2>1 DEF OpenInv
<1>10. OneCall' /\ WriteInv' /\ CheckpointInv'
  BY <1>1, <1>2 DEF OneCall, WriteInv, CheckpointInv, Writes
<1>11. ClosedInv' /\ OpeningInv' /\ ReopenSucceeds'
  BY <1>1 DEF ClosedInv, OpeningInv, ReopenSucceeds
<1> QED
  BY <1>5, <1>7, <1>9, <1>10, <1>11 DEF DurabilityInv

\* Replay has ended, and the constructor raises over an index image: the
\* directory is untouched.
LEMMA DurabilityRaises ==
  ASSUME TypeOK, IsolationInv, DurabilityInv, RepairRaises
  PROVE  DurabilityInv' /\ Durable' = Durable
<1>1. /\ phase = "opening" /\ pos > Len(Log) /\ tables \in Unsavable /\ phase' = "failed"
      /\ UNCHANGED <<version, tables, nextPage, pos, at, job, pages, pageFile, tail,
                     stateFile, wal, promised, inflight>>
  BY DEF RepairRaises, callVars, pageVars, imageVars, ghostVars
<1>2. /\ DiskInv /\ ClosedInv
      /\ \A c \in Threads : at[c] = "idle" /\ job[c].kind = "none"
  BY <1>1, Reading
<1>3. Durable' = Durable /\ DiskInv'
  BY <1>1, <1>2, SameFiles
<1>4. ReopenSucceeds'
  BY <1>1 DEF ReopenSucceeds, Log
<1>5. OneCall' /\ OpenInv' /\ WriteInv' /\ CheckpointInv' /\ OpeningInv'
  BY <1>1, <1>2 DEF OneCall, OpenInv, WriteInv, CheckpointInv, OpeningInv, Writes
<1>6. ClosedInv'
  BY <1>1, <1>2, <1>3 DEF ClosedInv
<1> QED
  BY <1>3, <1>4, <1>5, <1>6 DEF DurabilityInv

-----------------------------------------------------------------------------
(* The invariant.                                                          *)

LEMMA DurabilityInit ==
  ASSUME NoFaults, Init
  PROVE  DurabilityInv /\ Durable = << >>
<1>1. wal = << >> /\ promised = << >>
  BY DEF Init, NoFaults
<1>2. /\ phase = "down" /\ pages = << >> /\ tail = "clean" /\ inflight = {}
      /\ stateFile = EmptyImage /\ pageFile = FALSE
      /\ \A c \in Threads : at[c] = "idle" /\ job[c].kind = "none"
  BY DEF Init, NoJob
<1>3. Durable = << >>
  BY <1>1, <1>2 DEF Durable, ReplayedTo, EmptyImage
<1>4. DiskInv /\ ClosedInv /\ OpeningInv
  BY <1>1, <1>2, <1>3 DEF DiskInv, ClosedInv, OpeningInv
<1>5. OneCall /\ OpenInv /\ WriteInv /\ CheckpointInv /\ ReopenSucceeds
  BY <1>2 DEF OneCall, OpenInv, WriteInv, CheckpointInv, ReopenSucceeds, Writes
<1> QED
  BY <1>2, <1>3, <1>4, <1>5 DEF DurabilityInv

LEMMA DurabilityStep ==
  ASSUME NoFaults, TypeOK, IsolationInv, DurabilityInv, [Next]_vars
  PROVE  DurabilityInv'
<1>1. CASE UNCHANGED vars
  BY <1>1, MemorySteps DEF vars, callVars
<1>2. ASSUME NEW c \in Threads,
             \/ Begin(c) \/ Rollback(c) \/ CommitConflict(c) \/ SnapshotState(c)
             \/ \E o \in Ops : Execute(c, o)
      PROVE  DurabilityInv'
  BY <1>2, MemorySteps DEF Begin, Rollback, CommitConflict, SnapshotState, Execute
<1>3. ASSUME NEW c \in Threads,
             \/ CommitStart(c) \/ RestoreState(c) \/ Compact(c) \/ Close(c)
             \/ \E o \in Ops : BulkInsert(c, o)
      PROVE  DurabilityInv'
  BY <1>3, DurabilityEnter
<1>4. ASSUME NEW c \in Threads, CallStep(c)
      PROVE  DurabilityInv'
  BY <1>4, DurabilityAppend, DurabilitySync, DurabilityPublish, DurabilityVersion,
     DurabilityRead, DurabilityReplace, DurabilityTooLarge, DurabilityTruncate,
     DurabilityRewrite, DurabilityRefused, NoRaise DEF CallStep
<1>5. CASE Crash
  BY <1>5, DurabilityCrash
<1>6. CASE Recover
  BY <1>6, DurabilityOpen, DurabilityReplay, NeverRefused, DurabilityFinish,
     DurabilityRaises DEF Recover
<1> QED
  BY <1>1, <1>2, <1>3, <1>4, <1>5, <1>6 DEF Next

\* The log and the checkpoint always rebuild what was acknowledged, or that plus
\* the whole write in flight (engine.py:865, :1077), for any number of threads,
\* of operations and of versions, when the process crashes but no call fails with
\* an OSError and close() runs alone.
THEOREM DurabilityHolds == NoFaults => (Spec => []DurabilityInv)
<1> SUFFICES ASSUME NoFaults PROVE Spec => []DurabilityInv
  OBVIOUS
<1>1. Init => TypeOK /\ IsolationInv /\ DurabilityInv
  BY TypeInit, IsolationInit, DurabilityInit
<1>2. /\ TypeOK /\ IsolationInv /\ DurabilityInv
      /\ [Next]_vars
      => (TypeOK /\ IsolationInv /\ DurabilityInv)'
  BY TypeStep, IsolationStep, DurabilityStep
<1> QED
  BY <1>1, <1>2, PTL DEF Spec

\* Durability and atomicity: a reopened engine serves the last acknowledged
\* tables, or those with the whole unanswered write.
THEOREM AckedSurviveHolds == NoFaults => (Spec => []AckedSurvive)
<1> SUFFICES ASSUME NoFaults PROVE Spec => []AckedSurvive
  OBVIOUS
<1>1. TypeOK /\ IsolationInv /\ DurabilityInv => AckedSurvive
  BY OpenDurable DEF AckedSurvive
<1> QED
  BY <1>1, TypeCorrect, Isolated, DurabilityHolds, PTL

\* No sequence of calls and crashes leaves a log that __init__ refuses; it raises
\* only over an index image that cannot be saved, with the log read to its end.
THEOREM ReopenHolds == NoFaults => (Spec => []ReopenSucceeds)
<1> SUFFICES ASSUME NoFaults PROVE Spec => []ReopenSucceeds
  OBVIOUS
<1>1. DurabilityInv => ReopenSucceeds
  BY DEF DurabilityInv
<1> QED
  BY <1>1, DurabilityHolds, PTL

\* Write-ahead: what readers see and nobody was promised is on the disk already,
\* unless it is an undo.
THEOREM WriteAheadHolds == NoFaults => (Spec => []WriteAhead)
<1> SUFFICES ASSUME NoFaults PROVE Spec => []WriteAhead
  OBVIOUS
<1>1. DurabilityInv => WriteAhead
  <2> SUFFICES ASSUME DurabilityInv, phase = "open", tables # promised,
                      \A c \in Threads : job[c].kind # "restore"
               PROVE  Durable = tables
    BY DEF WriteAhead
  <2>1. PICK c \in Threads : job[c].kind \in Writes
    BY DEF DurabilityInv, OpenInv
  <2>2. at[c] \notin {"append", "sync", "tables"} /\ job[c].kind # "restore"
    BY <2>1 DEF DurabilityInv, WriteInv
  <2> QED
    BY <2>1, <2>2 DEF DurabilityInv, WriteInv
<1> QED
  BY <1>1, DurabilityHolds, PTL

-----------------------------------------------------------------------------
(* The engine implements DurableStore.                                     *)

\* A transaction logs at most MaxOps operations: what it commits is a batch of the
\* abstract store.
OpsBounded == \A c \in Threads : Len(tx[c].ops) <= MaxOps

LEMMA OpsBoundedHolds == Spec => []OpsBounded
<1>1. Init => OpsBounded
  <2>1. Len(NoTx.ops) = 0 /\ 0 <= MaxOps
    BY BoundsAssumption DEF NoTx
  <2> QED
    BY <2>1 DEF Init, OpsBounded
<1>2. TypeOK /\ OpsBounded /\ [Next]_vars => OpsBounded'
  <2> SUFFICES ASSUME TypeOK, OpsBounded, [Next]_vars PROVE OpsBounded'
    OBVIOUS
  <2>1. ASSUME tx' = tx PROVE OpsBounded'
    BY <2>1 DEF OpsBounded
  <2>2. ASSUME NEW c \in Threads, NEW t, tx' = [tx EXCEPT ![c] = t], Len(t.ops) <= MaxOps
        PROVE  OpsBounded'
    BY <2>2 DEF OpsBounded, TypeOK
  <2>3. Len(NoTx.ops) <= MaxOps
    BY BoundsAssumption DEF NoTx
  <2>4. ASSUME NEW c \in Threads, Begin(c) PROVE OpsBounded'
    <3> DEFINE t == [open |-> TRUE, base |-> version, tables |-> tables, ops |-> << >>]
    <3>1. Len(t.ops) <= MaxOps /\ tx' = [tx EXCEPT ![c] = t]
      BY <2>4, BoundsAssumption DEF Begin
    <3> HIDE DEF t
    <3> QED
      BY <2>2, <3>1
  <2>5. ASSUME NEW c \in Threads, NEW o \in Ops, Execute(c, o) PROVE OpsBounded'
    <3> DEFINE t == [open |-> TRUE, base |-> tx[c].base, tables |-> Append(tx[c].tables, o),
                     ops |-> Append(tx[c].ops, o)]
    <3>1. tx[c].ops \in Seq(Ops)
      BY DEF TypeOK, Txs
    <3>2. Len(t.ops) <= MaxOps /\ tx' = [tx EXCEPT ![c] = t]
      BY <2>5, <3>1, BoundsAssumption DEF Execute
    <3> HIDE DEF t
    <3> QED
      BY <2>2, <3>2
  <2>6. ASSUME NEW c \in Threads, NEW ok, Leave(c, ok) PROVE OpsBounded'
    BY <2>1, <2>2, <2>3, <2>6 DEF Leave
  <2>7. ASSUME NEW c \in Threads, Rollback(c) \/ CommitConflict(c) PROVE OpsBounded'
    BY <2>2, <2>3, <2>7 DEF Rollback, CommitConflict
  <2>8. ASSUME NEW c \in Threads,
               \/ CommitStart(c) \/ SnapshotState(c) \/ RestoreState(c) \/ Compact(c)
               \/ Close(c) \/ \E o \in Ops : BulkInsert(c, o)
        PROVE  OpsBounded'
    BY <2>1, <2>8 DEF CommitStart, SnapshotState, RestoreState, Compact, Close, BulkInsert
  <2>9. ASSUME NEW c \in Threads, CallStep(c) PROVE OpsBounded'
    <3>1. CASE \/ AppendRecord(c) \/ SyncRecord(c) \/ PublishTables(c) \/ ReadVersion(c)
               \/ ReadTables(c) \/ WriteTmp(c) \/ ReplaceState(c) \/ WriteSidecars(c)
      BY <2>1, <3>1 DEF AppendRecord, SyncRecord, PublishTables, ReadVersion, ReadTables,
         WriteTmp, ReplaceState, WriteSidecars
    <3>2. CASE \/ PublishVersion(c) \/ IndexTooLarge(c) \/ TruncateWal(c) \/ RewritePages(c)
               \/ RecordTooLarge(c) \/ SyncRaises(c) \/ CheckpointRaises(c)
      <4>1. tx' = tx \/ Leave(c, TRUE) \/ Leave(c, FALSE)
        BY <3>2, RaiseEither DEF PublishVersion, IndexTooLarge, TruncateWal, RewritePages,
           RecordTooLarge, SyncRaises
      <4> QED
        BY <2>1, <2>6, <4>1
    <3> QED
      BY <2>9, <3>1, <3>2 DEF CallStep
  <2>10. CASE Crash
    BY <2>3, <2>10 DEF Crash, OpsBounded
  <2>11. CASE Recover
    BY <2>1, <2>11 DEF Recover, Open, ReplayRecord, RefuseToOpen, FinishOpen,
                RepairRaises, callVars
  <2>12. CASE UNCHANGED vars
    BY <2>1, <2>12 DEF vars, callVars
  <2> QED
    BY <2>4, <2>5, <2>7, <2>8, <2>9, <2>10, <2>11, <2>12 DEF Next
<1> QED
  BY <1>1, <1>2, TypeCorrect, PTL DEF Spec

LEMMA StoreStutters ==
  ASSUME Durable' = Durable, Calls' = Calls,
         UNCHANGED <<phase, tables, inflight, saved, shared>>
  PROVE  UNCHANGED Store!vars
BY DEF Store!vars

\* The call that runs is the one the abstract store knows of.
LEMMA CallsAre ==
  ASSUME NEW c \in Threads, Alone(c)
  PROVE  Calls = {job[c].kind} \cap Writes
BY DEF Alone, Calls, Writes

LEMMA CallsAreNext ==
  ASSUME NEW c \in Threads, Alone(c)'
  PROVE  Calls' = {job'[c].kind} \cap Writes
BY DEF Alone, Calls, Writes

LEMMA CallsKept ==
  ASSUME job' = job
  PROVE  Calls' = Calls
BY DEF Calls

\* A call that ends leaves none behind.
LEMMA CallsEnd ==
  ASSUME TypeOK, IsolationInv, DurabilityInv, NEW c \in Threads, at[c] # "idle",
         NEW ok \in BOOLEAN, Leave(c, ok), phase' = phase
  PROVE  Calls' = {} /\ inflight' = {} /\ (inflight = {} => Calls = {})
<1>1. Alone(c) /\ CallInv(c)
  BY CallerAlone, Focus
<1>2. /\ Alone(c)' /\ job'[c].kind = "none"
      /\ inflight' = IF job[c].kind \in Writes THEN {} ELSE inflight
  BY <1>1, LeaveAlone
<1>3. Calls' = {}
  BY <1>2, CallsAreNext DEF Writes
<1>4. inflight' = {}
  BY <1>1, <1>2 DEF CallInv, Agreed
<1>5. inflight = {} => job[c].kind \notin Writes
  BY <1>1 DEF CallInv, Writing
<1>6. inflight = {} => Calls = {}
  BY <1>1, <1>5, CallsAre
<1> QED
  BY <1>3, <1>4, <1>6

LEMMA EntryAgrees ==
  ASSUME NoFaults, TypeOK, IsolationInv, DurabilityInv, NEW c \in Threads, MayEnter(c)
  PROVE  phase = "open" /\ tables = Durable /\ inflight = {} /\ Alone(c)
<1>1. Alone(c) /\ job[c].kind = "none"
  BY EntryAlone
<1>2. CallInv(c)
  BY <1>1, Focus
<1> QED
  BY <1>1, <1>2 DEF Alone, CallInv, Agreed, Writes

\* What Enter does to the call the abstract store knows of.
LEMMA CallsEnter ==
  ASSUME TypeOK, NEW c \in Threads, Alone(c), NEW kind \in Writes, NEW label, NEW ops,
         NEW result, Enter(c, kind, label, ops, result), phase' = phase
  PROVE  Calls' = {kind}
<1>1. Alone(c)' /\ job'[c].kind = kind
  BY EnterAlone
<1> QED
  BY <1>1, CallsAreNext

LEMMA StoreEnter ==
  ASSUME NoFaults, TypeOK, IsolationInv, DurabilityInv, OpsBounded, NEW c \in Threads,
         \/ CommitStart(c) \/ RestoreState(c) \/ Compact(c) \/ Close(c)
         \/ \E o \in Ops : BulkInsert(c, o)
  PROVE  Store!Next \/ UNCHANGED Store!vars
<1>1. Durable' = Durable
  BY DurabilityEnter
<1>2. UNCHANGED <<phase, tables, saved, shared>>
  BY DEF CommitStart, RestoreState, Compact, Close, BulkInsert, engineVars, savedVars
<1>3. CASE CommitStart(c)
  <2>1. /\ phase = "open" /\ tables = Durable /\ inflight = {}
        /\ inflight' = {tx[c].tables} /\ Calls' = {"commit"}
    <3>1. Alone(c) /\ phase = "open" /\ tables = Durable /\ inflight = {}
      BY <1>3, EntryAgrees DEF CommitStart
    <3>2. PICK label : Enter(c, "commit", label, tx[c].ops, tx[c].tables)
      BY <1>3 DEF CommitStart
    <3>3. "commit" \in Writes
      BY DEF Writes
    <3>4. Calls' = {"commit"}
      BY <1>2, <3>1, <3>2, <3>3, CallsEnter
    <3> QED
      BY <1>3, <3>1, <3>4 DEF CommitStart
  <2>2. tx[c].tables = tables \o tx[c].ops
    <3>1. \A d \in Threads : at[d] = "idle"
      BY <1>3, EntryAlone DEF CommitStart
    <3> QED
      BY <1>3, <3>1 DEF CommitStart, Conflict, IsolationInv, TxInv
  <2>3. tx[c].ops \in Store!Transactions
    <3>1. tx[c].ops \in Seq(Ops) /\ Len(tx[c].ops) <= MaxOps
      BY DEF TypeOK, Txs, OpsBounded
    <3>2. Len(tx[c].ops) \in 0 .. MaxOps /\ tx[c].ops \in [1 .. Len(tx[c].ops) -> Ops]
      BY <3>1, BoundsAssumption
    <3> QED
      BY <3>2 DEF Store!Transactions
  <2>4. Store!Commit(tx[c].ops)
    BY <1>1, <1>2, <2>1, <2>2 DEF Store!Commit, Store!Call
  <2> QED
    BY <2>3, <2>4 DEF Store!Next
<1>4. ASSUME NEW o \in Ops, BulkInsert(c, o) PROVE Store!Next
  <2>1. Alone(c) /\ phase = "open" /\ tables = Durable /\ inflight = {}
    BY <1>4, EntryAgrees DEF BulkInsert
  <2>2. /\ Enter(c, "bulk", "append", <<o>>, Append(tables, o)) /\ "bulk" \in Writes
        /\ inflight' = {Append(tables, o)}
    BY <1>4 DEF BulkInsert, Writes
  <2>3. Calls' = {"bulk"}
    BY <1>2, <2>1, <2>2, CallsEnter
  <2>4. Store!Batch(o)
    BY <1>1, <1>2, <2>1, <2>2, <2>3 DEF Store!Batch, Store!Call
  <2> QED
    BY <2>4 DEF Store!Next
<1>5. CASE RestoreState(c)
  <2>1. Alone(c) /\ phase = "open" /\ tables = Durable /\ inflight = {}
    BY <1>5, EntryAgrees DEF RestoreState
  <2>2. /\ Enter(c, "restore", "tables", << >>, saved[1]) /\ "restore" \in Writes
        /\ saved # << >> /\ inflight' = {saved[1]}
    BY <1>5 DEF RestoreState, Writes
  <2>3. Calls' = {"restore"}
    BY <1>2, <2>1, <2>2, CallsEnter
  <2> QED
    BY <1>1, <1>2, <2>1, <2>2, <2>3 DEF Store!Next, Store!Restore, Store!Call
<1>6. CASE Compact(c)
  <2>1. Alone(c) /\ job[c].kind = "none" /\ inflight' = inflight
    BY <1>6, EntryAlone DEF Compact, ghostVars
  <2>2. Enter(c, "compact", "ckVersion", << >>, tables)
    BY <1>6 DEF Compact
  <2>3. Alone(c)' /\ job'[c].kind = "compact"
    BY <1>2, <2>1, <2>2, EnterAlone
  <2>4. Calls = {} /\ Calls' = {}
    BY <2>1, <2>3, CallsAre, CallsAreNext DEF Writes
  <2> QED
    BY <1>1, <1>2, <2>1, <2>4, StoreStutters
<1>7. CASE Close(c)
  <2>1. Alone(c) /\ job[c].kind = "none" /\ inflight' = inflight
    BY <1>7, EntryAlone DEF Close, NoFaults, ghostVars
  <2>2. Alone(c)' /\ job'[c].kind = "close"
    BY <1>2, <1>7, <2>1 DEF Close, Alone, TypeOK, NoJob
  <2>3. Calls = {} /\ Calls' = {}
    BY <2>1, <2>2, CallsAre, CallsAreNext DEF Writes
  <2> QED
    BY <1>1, <1>2, <2>1, <2>3, StoreStutters
<1> QED
  BY <1>3, <1>4, <1>5, <1>6, <1>7

LEMMA StoreCall ==
  ASSUME NoFaults, TypeOK, IsolationInv, DurabilityInv, NEW c \in Threads, CallStep(c)
  PROVE  Store!Next \/ UNCHANGED Store!vars
<1>1. CASE \/ AppendRecord(c) \/ ReadVersion(c) \/ ReadTables(c) \/ WriteTmp(c)
           \/ WriteSidecars(c)
  <2>1. Durable' = Durable
    BY <1>1, DurabilityAppend, DurabilityRead
  <2>2. UNCHANGED <<job, phase, tables, inflight, saved, shared>>
    BY <1>1 DEF AppendRecord, ReadVersion, ReadTables, WriteTmp, WriteSidecars, Goto,
                engineVars, savedVars, ghostVars
  <2> QED
    BY <2>1, <2>2, CallsKept, StoreStutters
<1>2. CASE SyncRecord(c)
  <2>1. Durable' \in inflight
    BY <1>2, DurabilitySync
  <2>2. UNCHANGED <<job, phase, tables, inflight, saved, shared>>
    BY <1>2 DEF SyncRecord, Goto, savedVars, ghostVars
  <2> QED
    BY <2>1, <2>2, CallsKept DEF Store!Next, Store!TakeEffect
<1>3. CASE PublishTables(c)
  <2>1. /\ Durable' = Durable /\ inflight = {tables'} /\ tables' = job[c].result
        /\ UNCHANGED <<job, phase, inflight>> /\ at[c] = "tables"
        /\ saved' = IF job[c].kind = "bulk" /\ shared THEN <<job[c].result>> ELSE saved
        /\ shared' = (job[c].kind = "restore" \/ (job[c].kind = "bulk" /\ shared))
    BY <1>3, DurabilityPublish DEF PublishTables, Goto, ghostVars
  <2>2. phase = "open" /\ Alone(c)
    BY <2>1, CallerAlone DEF Alone
  <2>3. <<tables>> # << >>
    OBVIOUS
  <2>4. Calls' = Calls /\ Calls = {job[c].kind}
    <3>1. job[c].kind \in Writes
      BY <2>1 DEF IsolationInv, LabelInv
    <3> QED
      BY <2>1, <2>2, <3>1, CallsAre, CallsKept
  <2>5. /\ "bulk" \in Calls <=> job[c].kind = "bulk"
        /\ "restore" \in Calls <=> job[c].kind = "restore"
    BY <2>4
  <2> QED
    BY <2>1, <2>2, <2>3, <2>4, <2>5 DEF Store!Next, Store!BecomeVisible
<1>4. CASE PublishVersion(c) \/ IndexTooLarge(c) \/ TruncateWal(c)
  <2>1. /\ Durable' = Durable
        /\ inflight' # inflight => inflight' = {} /\ inflight = {tables} /\ Durable = tables
    BY <1>4, DurabilityVersion, DurabilityTooLarge, DurabilityTruncate
  <2>2. UNCHANGED <<phase, tables, saved, shared>> /\ at[c] # "idle"
    BY <1>4 DEF PublishVersion, IndexTooLarge, TruncateWal, engineVars, savedVars
  <2>3. phase = "open"
    BY <2>2, CallerAlone DEF Alone
  <2>4. (job' = job /\ inflight' = inflight) \/ Leave(c, TRUE)
    BY <1>4 DEF PublishVersion, IndexTooLarge, TruncateWal, Goto, ghostVars
  <2>5. CASE job' = job /\ inflight' = inflight
    BY <2>1, <2>2, <2>5, CallsKept, StoreStutters
  <2>6. CASE Leave(c, TRUE)
    <3>1. Calls' = {} /\ inflight' = {} /\ (inflight = {} => Calls = {})
      BY <2>2, <2>6, CallsEnd
    <3>2. CASE inflight = {}
      BY <2>1, <2>2, <3>1, <3>2, StoreStutters
    <3>3. CASE inflight # {}
      BY <2>1, <2>2, <2>3, <3>1, <3>3 DEF Store!Next, Store!Acknowledge
    <3> QED
      BY <3>2, <3>3
  <2> QED
    BY <2>4, <2>5, <2>6
<1>5. CASE ReplaceState(c)
  <2>1. Durable' = tables /\ (Durable = tables \/ inflight = {tables})
    BY <1>5, DurabilityReplace
  <2>2. UNCHANGED <<job, phase, tables, inflight, saved, shared>> /\ Calls' = Calls
    BY <1>5, CallsKept DEF ReplaceState, Goto, engineVars, savedVars, ghostVars
  <2>3. CASE Durable = tables
    BY <2>1, <2>2, <2>3, StoreStutters
  <2>4. CASE inflight = {tables}
    BY <2>1, <2>2, <2>4 DEF Store!Next, Store!TakeEffect
  <2> QED
    BY <2>1, <2>3, <2>4
<1>6. CASE RewritePages(c)
  <2>1. /\ Durable' = Durable /\ inflight' = inflight
        /\ UNCHANGED <<phase, tables, saved, shared>>
        /\ at[c] # "idle" /\ Leave(c, TRUE)
    BY <1>6, DurabilityRewrite DEF RewritePages, savedVars
  <2>2. Calls' = Calls
    BY <2>1, CallsEnd
  <2> QED
    BY <2>1, <2>2, StoreStutters
<1>7. CASE RecordTooLarge(c)
  <2>1. /\ Durable' = Durable /\ Durable = tables
        /\ UNCHANGED <<phase, tables, saved, shared>>
        /\ at[c] # "idle" /\ Leave(c, FALSE)
    BY <1>7, DurabilityRefused DEF RecordTooLarge, engineVars, savedVars
  <2>2. phase = "open"
    BY <2>1, CallerAlone DEF Alone
  <2>3. Calls' = {} /\ inflight' = {} /\ (inflight = {} => Calls = {})
    BY <2>1, CallsEnd
  <2>4. CASE inflight = {}
    BY <2>1, <2>3, <2>4, StoreStutters
  <2>5. CASE inflight # {}
    BY <2>1, <2>2, <2>3, <2>5 DEF Store!Next, Store!Reject
  <2> QED
    BY <2>4, <2>5
<1> QED
  BY <1>1, <1>2, <1>3, <1>4, <1>5, <1>6, <1>7, NoRaise DEF CallStep

LEMMA StoreRecovery ==
  ASSUME TypeOK, IsolationInv, DurabilityInv, Crash \/ Recover
  PROVE  Store!Next \/ UNCHANGED Store!vars
<1>1. CASE Crash
  <2>1. /\ Durable' \in {Durable} \union inflight /\ phase' = "down"
        /\ saved' = << >> /\ shared' = FALSE
        /\ inflight' = inflight /\ \A d \in Threads : job'[d].kind = "none"
    BY <1>1, DurabilityCrash DEF Crash, ghostVars, NoJob
  <2>2. Calls' = {}
    BY <2>1 DEF Calls, Writes
  <2> QED
    BY <2>1, <2>2 DEF Store!Next, Store!Crash
<1>2. CASE Open \/ ReplayRecord \/ RepairRaises
  <2>1. /\ Durable' = Durable /\ phase # "open" /\ phase' # "open"
        /\ UNCHANGED <<job, inflight, saved, shared>>
    BY <1>2, DurabilityOpen, DurabilityReplay, DurabilityRaises
       DEF Open, ReplayRecord, RepairRaises, ghostVars, callVars, savedVars
  <2> QED
    BY <2>1, CallsKept DEF Store!vars
<1>3. CASE FinishOpen
  <2>1. /\ Durable' = Durable /\ tables' = Durable /\ phase # "open" /\ phase' = "open"
        /\ inflight' = {} /\ UNCHANGED <<job, saved, shared>>
    BY <1>3, DurabilityFinish DEF FinishOpen, callVars, savedVars
  <2> QED
    BY <2>1, CallsKept DEF Store!Next, Store!Open
<1> QED
  BY <1>1, <1>2, <1>3, NeverRefused DEF Recover

LEMMA StoreStep ==
  ASSUME NoFaults, TypeOK, IsolationInv, DurabilityInv, OpsBounded, [Next]_vars
  PROVE  [Store!Next]_(Store!vars)
<1>1. ASSUME NEW c \in Threads,
             \/ Begin(c) \/ Rollback(c) \/ CommitConflict(c) \/ SnapshotState(c)
             \/ \E o \in Ops : Execute(c, o)
      PROVE  Store!Next \/ UNCHANGED Store!vars
  <2>1. /\ UNCHANGED <<pages, pageFile, tail, stateFile, wal, job, phase, tables, inflight>>
        /\ \/ UNCHANGED <<saved, shared>>
           \/ phase = "open" /\ saved' = <<tables>> /\ shared' = TRUE
    BY <1>1 DEF Begin, Rollback, CommitConflict, SnapshotState, MayEnter, Execute,
                engineVars, savedVars, pageVars, imageVars, ghostVars
  <2>2. Durable' = Durable /\ Calls' = Calls
    BY <2>1, SameFiles, CallsKept
  <2>3. <<tables>> # << >>
    OBVIOUS
  <2>4. CASE UNCHANGED <<saved, shared>>
    BY <2>1, <2>2, <2>4, StoreStutters
  <2>5. CASE phase = "open" /\ saved' = <<tables>> /\ shared' = TRUE
    BY <2>1, <2>2, <2>3, <2>5 DEF Store!Next, Store!Snapshot
  <2> QED
    BY <2>1, <2>4, <2>5
<1>2. CASE UNCHANGED vars
  <2>1. UNCHANGED <<pages, pageFile, tail, stateFile, wal, job, phase, tables, inflight,
                    saved, shared>>
    BY <1>2 DEF vars, engineVars, callVars, savedVars, pageVars, imageVars, ghostVars
  <2> QED
    BY <2>1, SameFiles, CallsKept, StoreStutters
<1> QED
  BY <1>1, <1>2, StoreEnter, StoreCall, StoreRecovery DEF Next

\* The engine over its files is the abstract durable store: for every number of
\* threads, operations and versions each step commits, takes effect, becomes
\* visible, is acknowledged, or is invisible, and a crash decides the one write in
\* flight as a whole (engine.py:865, :979-1077).
THEOREM ImplementsStoreHolds == NoFaults => (Spec => ImplementsStore)
<1> SUFFICES ASSUME NoFaults PROVE Spec => ImplementsStore
  OBVIOUS
<1>1. Init => Store!Init
  <2> SUFFICES ASSUME Init PROVE Store!Init
    OBVIOUS
  <2>1. /\ phase = "down" /\ inflight = {} /\ saved = << >> /\ shared = FALSE
        /\ Calls = {}
    BY DEF Init, Calls, NoJob, Writes
  <2> QED
    BY <2>1, DurabilityInit DEF Store!Init
<1>2. /\ TypeOK /\ IsolationInv /\ DurabilityInv /\ OpsBounded
      /\ [Next]_vars
      => [Store!Next]_(Store!vars)
  BY StoreStep
<1> QED
  BY <1>1, <1>2, TypeCorrect, Isolated, DurabilityHolds, OpsBoundedHolds, PTL
     DEF Spec, ImplementsStore, Store!Spec

=============================================================================
