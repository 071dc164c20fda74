---------------------------- MODULE EngineStorage ----------------------------
(***************************************************************************)
(* The storage protocol of Engine (engine.py) over PageStore               *)
(* (page_store.py): transactions with optimistic validation, the page log, *)
(* state.json checkpoints, compaction, undo by restore_state, close, a     *)
(* crash between any two steps and recovery on the next open.              *)
(*                                                                         *)
(* The database is the sequence of logged operations that produced it: any *)
(* deterministic meaning of the operations is an image of this sequence,   *)
(* so a lost, doubled or reordered operation shows here whatever it does.  *)
(***************************************************************************)
EXTENDS Naturals, Sequences

CONSTANTS
  Threads,          \* callers of one Engine object (HTTP handler threads)
  NoThread,         \* "the engine lock is free"
  Ops,              \* logged operations: one row insert, update, delete, DDL
  Unsavable,        \* tables with an index record larger than a page
  CheckpointEvery,  \* 10 in the code: a checkpoint each such version
  MaxVersion,       \* bound: no write call starts at this version
  MaxOps,           \* bound: operations of one transaction
  LegacyWal,        \* BOOLEAN: the directory may come from an older release
  IoErrors,         \* BOOLEAN: an OSError may abort a call and spare the process
  RacyClose         \* BOOLEAN: close() may run beside other calls

ASSUME ThreadsAssumption == NoThread \notin Threads
ASSUME BoundsAssumption ==
  /\ CheckpointEvery \in Nat \ {0}
  /\ MaxVersion \in Nat
  /\ MaxOps \in Nat \ {0}
ASSUME UnsavableAssumption == Unsavable \subseteq Seq(Ops) /\ << >> \notin Unsavable
ASSUME FlagsAssumption ==
  /\ LegacyWal \in BOOLEAN
  /\ IoErrors \in BOOLEAN
  /\ RacyClose \in BOOLEAN

VARIABLES
  \* Engine and PageStore objects, lost in a crash
  phase,      \* "down", "opening" (inside __init__), "open", "failed"
  version,    \* Engine.version
  tables,     \* Engine.tables
  nextPage,   \* PageStore._next_page_id
  pos,        \* _load: the next log record to look at
  lock,       \* Engine._lock
  tx,         \* the transaction of each thread
  at,         \* where each thread stands inside an engine call, or "idle"
  job,        \* that call: its kind, the operations it logs, the tables it makes
  image,      \* checkpoint(): the payload each thread has read so far
  saved,      \* the last snapshot_state result a caller keeps, or << >>
  shared,     \* whether its row lists are those of the live tables
  \* the database directory
  pages,      \* pages.dat: whole pages, one record each
  pageFile,   \* whether pages.dat exists
  tail,       \* "clean", "unsynced" (last page not fsynced), "torn" (partial page)
  stateFile,  \* state.json; absent is version 0 and no tables
  tmp,        \* state.tmp, or << >>
  catalog,    \* engine_version in catalog.json
  images,     \* the tables the indexes/*.idx files were built from
  wal,        \* wal.log of an older release
  \* history: what callers were told
  promised,   \* the tables of the last acknowledged write
  inflight    \* {t} while a write call leading to t is unanswered, or {}

engineVars == <<phase, version, tables, nextPage, pos>>
savedVars == <<saved, shared>>
callVars == <<lock, tx, at, job, image, savedVars>>
pageVars == <<pages, pageFile, tail>>
imageVars == <<stateFile, tmp, catalog, images, wal>>
ghostVars == <<promised, inflight>>
vars == <<engineVars, callVars, pageVars, imageVars, ghostVars>>

NoTx == [open |-> FALSE, base |-> 0, tables |-> << >>, ops |-> << >>]
EmptyImage == [version |-> 0, tables |-> << >>]
NoJob == [kind |-> "none", ops |-> << >>, result |-> << >>]

\* A page of the log.  "before" is a history field, never read by an action:
\* the tables the committing engine held.
Page(id, v, ops, before) ==
  [id |-> id, version |-> v, ops |-> ops, before |-> before]

Init ==
  /\ phase = "down" /\ version = 0 /\ tables = << >> /\ nextPage = 0 /\ pos = 1
  /\ lock = NoThread
  /\ tx = [c \in Threads |-> NoTx]
  /\ at = [c \in Threads |-> "idle"]
  /\ job = [c \in Threads |-> NoJob]
  /\ image = [c \in Threads |-> EmptyImage]
  /\ saved = << >> /\ shared = FALSE
  /\ pages = << >> /\ pageFile = FALSE /\ tail = "clean"
  /\ stateFile = EmptyImage /\ tmp = << >>
  /\ catalog = 0 /\ images = << >>
  /\ wal \in {<< >>} \union
       (IF LegacyWal THEN {<<Page(0, 1, <<o>>, << >>)>> : o \in Ops} ELSE {})
  /\ promised = IF wal = << >> THEN << >> ELSE wal[1].ops
  /\ inflight = {}

-----------------------------------------------------------------------------
(* Calls and the engine lock.                                              *)

Closing == \E c \in Threads : job[c].kind = "close"

\* "with self._lock": the calling thread is in no other call.
MayEnter(c) ==
  /\ phase = "open" /\ at[c] = "idle" /\ lock = NoThread
  /\ RacyClose \/ ~Closing

Enter(c, kind, label, ops, result) ==
  /\ lock' = c
  /\ at' = [at EXCEPT ![c] = label]
  /\ job' = [job EXCEPT ![c] = [kind |-> kind, ops |-> ops, result |-> result]]

Goto(c, label) == at' = [at EXCEPT ![c] = label] /\ UNCHANGED job

Writes == {"commit", "bulk", "restore"}

\* Mutant of Leave: the lock of a finished call is never released.
LeaveHoldingLock(c, ok) ==
  /\ at' = [at EXCEPT ![c] = "idle"]
  /\ job' = [job EXCEPT ![c] = NoJob]
  /\ image' = [image EXCEPT ![c] = EmptyImage]
  /\ tx' = IF job[c].kind = "commit" THEN [tx EXCEPT ![c] = NoTx] ELSE tx
  /\ promised' = IF ok /\ job[c].kind \in Writes THEN job[c].result ELSE promised
  /\ inflight' = IF job[c].kind \in Writes THEN {} ELSE inflight
  /\ UNCHANGED lock

\* The call of c returns or raises (execute then rolls back).  ok: its write, if it
\* is one, is done, also where a later step of the same call raises.
Leave(c, ok) ==
  /\ at' = [at EXCEPT ![c] = "idle"]
  /\ job' = [job EXCEPT ![c] = NoJob]
  /\ image' = [image EXCEPT ![c] = EmptyImage]
  /\ lock' = IF lock = c THEN NoThread ELSE lock
  /\ tx' = IF job[c].kind = "commit" THEN [tx EXCEPT ![c] = NoTx] ELSE tx
  /\ promised' = IF ok /\ job[c].kind \in Writes THEN job[c].result ELSE promised
  /\ inflight' = IF job[c].kind \in Writes THEN {} ELSE inflight

-----------------------------------------------------------------------------
(* Transactions: Engine.begin, the statements, rollback, Engine._commit.   *)

Begin(c) ==
  /\ MayEnter(c) /\ ~tx[c].open
  /\ tx' = [tx EXCEPT ![c] = [open |-> TRUE, base |-> version,
                              tables |-> tables, ops |-> << >>]]
  /\ UNCHANGED <<engineVars, lock, at, job, image, savedVars, pageVars, imageVars, ghostVars>>

Execute(c, o) ==
  /\ phase = "open" /\ at[c] = "idle" /\ tx[c].open
  /\ Len(tx[c].ops) < MaxOps
  /\ tx' = [tx EXCEPT ![c] = [open |-> TRUE, base |-> tx[c].base,
                              tables |-> Append(tx[c].tables, o),
                              ops |-> Append(tx[c].ops, o)]]
  /\ UNCHANGED <<engineVars, lock, at, job, image, savedVars, pageVars, imageVars, ghostVars>>

Rollback(c) ==
  /\ phase = "open" /\ at[c] = "idle" /\ tx[c].open
  /\ tx' = [tx EXCEPT ![c] = NoTx]
  /\ UNCHANGED <<engineVars, lock, at, job, image, savedVars, pageVars, imageVars, ghostVars>>

\* Mutant of Conflict: only a base from the future is refused.
ConflictIfNewer(c) == tx[c].base > version

\* The optimistic validation of _commit.
Conflict(c) == tx[c].base # version

\* TransactionConflict: execute rolls the transaction back.
CommitConflict(c) ==
  /\ MayEnter(c) /\ tx[c].open /\ Conflict(c)
  /\ tx' = [tx EXCEPT ![c] = NoTx]
  /\ UNCHANGED <<engineVars, lock, at, job, image, savedVars, pageVars, imageVars, ghostVars>>

\* A transaction without operations writes no record and still commits.
CommitStart(c) ==
  /\ MayEnter(c) /\ tx[c].open /\ ~Conflict(c)
  /\ version < MaxVersion
  /\ Enter(c, "commit", IF tx[c].ops = << >> THEN "tables" ELSE "append",
           tx[c].ops, tx[c].tables)
  /\ inflight' = {tx[c].tables}
  /\ UNCHANGED <<engineVars, tx, image, savedVars, pageVars, imageVars, promised>>

\* Engine.bulk_insert: no transaction, the batch extends the live tables.
BulkInsert(c, o) ==
  /\ MayEnter(c) /\ ~tx[c].open
  /\ version < MaxVersion
  /\ Enter(c, "bulk", "append", <<o>>, Append(tables, o))
  /\ inflight' = {Append(tables, o)}
  /\ UNCHANGED <<engineVars, tx, image, savedVars, pageVars, imageVars, promised>>

-----------------------------------------------------------------------------
(* PageStore.append_records and the publication of a write.                *)

AppendRecord(c) ==
  /\ at[c] = "append" /\ Goto(c, "sync")
  /\ pages' = Append(pages, Page(nextPage, version + 1, job[c].ops, tables))
  /\ pageFile' = TRUE
  /\ tail' = "unsynced"
  /\ UNCHANGED <<engineVars, lock, tx, image, savedVars, imageVars, ghostVars>>

\* "record exceeds page capacity": raised before any byte is written.
RecordTooLarge(c) ==
  /\ at[c] = "append" \/ at[c] = "compact"
  /\ Leave(c, FALSE)
  /\ UNCHANGED <<engineVars, savedVars, pageVars, imageVars>>

\* Mutant of SyncRecord: the append returns without the fsync.
SkipSync(c) ==
  /\ at[c] = "sync" /\ Goto(c, "tables")
  /\ nextPage' = nextPage + 1
  /\ UNCHANGED <<phase, version, tables, pos, lock, tx, image, savedVars, pageVars,
                 imageVars, ghostVars>>

SyncRecord(c) ==
  /\ at[c] = "sync" /\ Goto(c, "tables")
  /\ tail' = "clean"
  /\ nextPage' = nextPage + 1
  /\ UNCHANGED <<phase, version, tables, pos, lock, tx, image, savedVars, pages, pageFile,
                 imageVars, ghostVars>>

\* The write or the fsync raises after the page reached the file (bound: the
\* log then grows without a version, up to MaxVersion pages).
SyncRaises(c) ==
  /\ IoErrors /\ Len(pages) <= MaxVersion
  /\ at[c] = "sync"
  /\ Leave(c, FALSE)
  /\ UNCHANGED <<engineVars, savedVars, pageVars, imageVars>>

\* A commit publishes clones of every table.  A batch extends the live row lists,
\* also those a snapshot holds; an undo makes the snapshot's lists the live ones.
PublishTables(c) ==
  /\ at[c] = "tables" /\ Goto(c, "version")
  /\ tables' = job[c].result
  /\ saved' = IF job[c].kind = "bulk" /\ shared THEN <<job[c].result>> ELSE saved
  /\ shared' = (job[c].kind = "restore" \/ (job[c].kind = "bulk" /\ shared))
  /\ UNCHANGED <<phase, version, nextPage, pos, lock, tx, image, pageVars,
                 imageVars, ghostVars>>

PublishVersion(c) ==
  /\ at[c] = "version"
  /\ version' = version + 1
  /\ IF job[c].kind = "restore" \/ (version + 1) % CheckpointEvery = 0
       THEN Goto(c, "ckVersion") /\ UNCHANGED <<lock, tx, image, ghostVars>>
       ELSE Leave(c, TRUE)
  /\ UNCHANGED <<phase, tables, nextPage, pos, savedVars, pageVars, imageVars>>

-----------------------------------------------------------------------------
(* snapshot_state, restore_state, compact, close: ways into a checkpoint.  *)

\* The snapshot holds the live row lists, not copies of them.
SnapshotState(c) ==
  /\ MayEnter(c)
  /\ saved' = <<tables>> /\ shared' = TRUE
  /\ UNCHANGED <<engineVars, lock, tx, at, job, image, pageVars, imageVars, ghostVars>>

RestoreState(c) ==
  /\ MayEnter(c) /\ ~tx[c].open /\ saved # << >>
  /\ version < MaxVersion
  /\ Enter(c, "restore", "tables", << >>, saved[1])
  /\ inflight' = {saved[1]}
  /\ UNCHANGED <<engineVars, tx, image, savedVars, pageVars, imageVars, promised>>

\* Mutant of Compact: the log is rewritten without a checkpoint first.
CompactOnly(c) ==
  /\ MayEnter(c) /\ ~tx[c].open
  /\ Enter(c, "compact", "compact", << >>, tables)
  /\ UNCHANGED <<engineVars, tx, image, savedVars, pageVars, imageVars, ghostVars>>

Compact(c) ==
  /\ MayEnter(c) /\ ~tx[c].open
  /\ Enter(c, "compact", "ckVersion", << >>, tables)
  /\ UNCHANGED <<engineVars, tx, image, savedVars, pageVars, imageVars, ghostVars>>

\* close() checkpoints without taking the lock; one thread owns the shutdown.
Close(c) ==
  /\ phase = "open" /\ at[c] = "idle" /\ ~tx[c].open
  /\ ~Closing /\ (RacyClose \/ lock = NoThread)
  /\ at' = [at EXCEPT ![c] = "ckVersion"]
  /\ job' = [job EXCEPT ![c] = [NoJob EXCEPT !.kind = "close"]]
  /\ UNCHANGED <<engineVars, lock, tx, image, savedVars, pageVars, imageVars, ghostVars>>

-----------------------------------------------------------------------------
(* Engine.checkpoint, one step per access that others can observe.         *)

ReadVersion(c) ==
  /\ at[c] = "ckVersion" /\ Goto(c, "ckTables")
  /\ image' = [image EXCEPT ![c].version = version]
  /\ UNCHANGED <<engineVars, lock, tx, savedVars, pageVars, imageVars, ghostVars>>

ReadTables(c) ==
  /\ at[c] = "ckTables" /\ Goto(c, "ckTmp")
  /\ image' = [image EXCEPT ![c].tables = tables]
  /\ UNCHANGED <<engineVars, lock, tx, savedVars, pageVars, imageVars, ghostVars>>

WriteTmp(c) ==
  /\ at[c] = "ckTmp" /\ Goto(c, "ckReplace")
  /\ tmp' = <<image[c]>>
  /\ UNCHANGED <<engineVars, lock, tx, image, savedVars, pageVars, stateFile, catalog,
                 images, wal, ghostVars>>

ReplaceState(c) ==
  /\ at[c] = "ckReplace" /\ tmp # << >> /\ Goto(c, "ckSidecars")
  /\ stateFile' = tmp[1]
  /\ tmp' = << >>
  /\ UNCHANGED <<engineVars, lock, tx, image, savedVars, pageVars, catalog, images, wal,
                 ghostVars>>

WriteSidecars(c) ==
  /\ at[c] = "ckSidecars" /\ tables \notin Unsavable /\ Goto(c, "ckWal")
  /\ catalog' = version
  /\ images' = tables
  /\ UNCHANGED <<engineVars, lock, tx, image, savedVars, pageVars, stateFile, tmp, wal,
                 ghostVars>>

\* DurableIndexError: the call raises although its write is on the disk.  The
\* images saved before the failing one are not told apart from the old ones.
IndexTooLarge(c) ==
  /\ at[c] = "ckSidecars" /\ tables \in Unsavable
  /\ Leave(c, TRUE)
  /\ catalog' = version
  /\ UNCHANGED <<engineVars, savedVars, pageVars, stateFile, tmp, images, wal>>

TruncateWal(c) ==
  /\ at[c] = "ckWal"
  /\ wal' = << >>
  /\ IF job[c].kind = "compact"
       THEN Goto(c, "compact") /\ UNCHANGED <<lock, tx, image, ghostVars>>
       ELSE Leave(c, TRUE)
  /\ UNCHANGED <<engineVars, savedVars, pageVars, stateFile, tmp, catalog, images>>

\* An OSError, or state.tmp already renamed by another checkpoint; once state.json
\* is replaced the write stands.
CheckpointRaises(c) ==
  /\ \/ IoErrors /\ at[c] \in {"ckTmp", "ckReplace", "ckSidecars", "ckWal"}
     \/ at[c] = "ckReplace" /\ tmp = << >>
  /\ Leave(c, at[c] \in {"ckSidecars", "ckWal"})
  /\ UNCHANGED <<engineVars, savedVars, pageVars, imageVars>>

\* PageStore.checkpoint: the log becomes one record that rebuilds everything.
RewritePages(c) ==
  /\ at[c] = "compact"
  /\ pages' = IF job[c].result = << >> THEN << >>
              ELSE <<Page(0, version, job[c].result, << >>)>>
  /\ nextPage' = Len(pages')
  /\ pageFile' = TRUE
  /\ tail' = "clean"
  /\ Leave(c, TRUE)
  /\ UNCHANGED <<phase, version, tables, pos, savedVars, imageVars>>

-----------------------------------------------------------------------------
(* Crash and recovery.                                                     *)

\* A page that was not fsynced survives whole, in part or not at all.
TailOutcome ==
  \/ UNCHANGED <<pages, tail>> /\ tail # "unsynced"
  \/ tail = "unsynced" /\ pages' = pages /\ tail' = "clean"
  \/ /\ tail = "unsynced"
     /\ pages' = SubSeq(pages, 1, Len(pages) - 1)
     /\ tail' \in {"clean", "torn"}

Crash ==
  /\ phase # "down"
  /\ phase' = "down" /\ version' = 0 /\ tables' = << >>
  /\ nextPage' = 0 /\ pos' = 1
  /\ lock' = NoThread
  /\ tx' = [c \in Threads |-> NoTx]
  /\ at' = [c \in Threads |-> "idle"]
  /\ job' = [c \in Threads |-> NoJob]
  /\ image' = [c \in Threads |-> EmptyImage]
  /\ saved' = << >> /\ shared' = FALSE
  /\ TailOutcome
  /\ UNCHANGED <<pageFile, imageVars, ghostVars>>

\* Mutant of DiscoverNextPageId: the id of the last page, not the one after it.
DiscoverLastPageId == Len(pages) - 1

DiscoverNextPageId == Len(pages)

\* _discover_next_page_id cuts a partial page off; _load reads state.json.
Open ==
  /\ phase = "down"
  /\ phase' = "opening"
  /\ tail' = "clean"
  /\ nextPage' = DiscoverNextPageId
  /\ version' = stateFile.version
  /\ tables' = stateFile.tables
  /\ pos' = 1
  /\ UNCHANGED <<callVars, pages, pageFile, imageVars, ghostVars>>

\* wal.log counts only while there is no pages.dat.
Log == IF pageFile THEN pages ELSE wal

\* read_page: the page id in the header must be the page's place in the file.
ValidHeader(i) == pageFile => Log[i].id = i - 1

\* Mutant of AlreadyApplied: the record of the checkpoint's version runs again.
AppliedBefore(record) == record.version < version

AlreadyApplied(record) == record.version <= version

ReplayRecord ==
  /\ phase = "opening" /\ pos <= Len(Log) /\ ValidHeader(pos)
  /\ pos' = pos + 1
  /\ IF AlreadyApplied(Log[pos])
       THEN UNCHANGED <<version, tables>>
       ELSE /\ version' = Log[pos].version
            /\ tables' = tables \o Log[pos].ops
  /\ UNCHANGED <<phase, nextPage, callVars, pageVars, imageVars, ghostVars>>

\* PageCorruptionError leaves the constructor: there is no engine.
RefuseToOpen ==
  /\ phase = "opening" /\ pos <= Len(Log) /\ ~ValidHeader(pos)
  /\ phase' = "failed"
  /\ UNCHANGED <<version, tables, nextPage, pos, callVars, pageVars, imageVars,
                 ghostVars>>

\* _repair_index_images rewrites what does not match, then __init__ returns.
FinishOpen ==
  /\ phase = "opening" /\ pos > Len(Log) /\ tables \notin Unsavable
  /\ phase' = "open"
  /\ images' = tables
  /\ promised' = IF tables \in inflight THEN tables ELSE promised
  /\ inflight' = {}
  /\ UNCHANGED <<version, tables, nextPage, pos, callVars, pageVars, stateFile,
                 tmp, catalog, wal>>

\* DurableIndexError from store.save: again there is no engine.
RepairRaises ==
  /\ phase = "opening" /\ pos > Len(Log) /\ tables \in Unsavable
  /\ phase' = "failed"
  /\ UNCHANGED <<version, tables, nextPage, pos, callVars, pageVars, imageVars,
                 ghostVars>>

-----------------------------------------------------------------------------
\* What a thread inside a call does next, once the lock is not in its way.
CallStep(c) ==
  \/ AppendRecord(c) \/ SyncRecord(c) \/ PublishTables(c) \/ PublishVersion(c)
  \/ ReadVersion(c) \/ ReadTables(c) \/ WriteTmp(c) \/ ReplaceState(c)
  \/ WriteSidecars(c) \/ IndexTooLarge(c) \/ TruncateWal(c) \/ RewritePages(c)
  \/ RecordTooLarge(c) \/ SyncRaises(c) \/ CheckpointRaises(c)

Recover == Open \/ ReplayRecord \/ RefuseToOpen \/ FinishOpen \/ RepairRaises

Next ==
  \/ \E c \in Threads :
       \/ Begin(c) \/ Rollback(c) \/ CommitConflict(c) \/ CommitStart(c)
       \/ \E o \in Ops : Execute(c, o) \/ BulkInsert(c, o)
       \/ SnapshotState(c) \/ RestoreState(c) \/ Compact(c) \/ Close(c)
       \/ CallStep(c)
  \/ Crash
  \/ Recover

Spec == Init /\ [][Next]_vars

\* A thread inside a call keeps running, and someone restarts the service.
FairSpec ==
  /\ Spec
  /\ \A c \in Threads : WF_vars(CallStep(c))
  /\ WF_vars(Recover)

-----------------------------------------------------------------------------
(* Properties.                                                             *)

Txs == [open : BOOLEAN, base : Nat, tables : Seq(Ops), ops : Seq(Ops)]
Images == [version : Nat, tables : Seq(Ops)]
Pages == [id : Nat, version : Nat, ops : Seq(Ops), before : Seq(Ops)]
Jobs ==
  [kind : {"none", "commit", "bulk", "restore", "compact", "close"},
   ops : Seq(Ops), result : Seq(Ops)]
Labels ==
  {"idle", "append", "sync", "tables", "version", "ckVersion", "ckTables",
   "ckTmp", "ckReplace", "ckSidecars", "ckWal", "compact"}

\* Every variable of the engine, of its callers and of the directory has its
\* type: versions and page ids are naturals, tables are sequences of operations.
TypeOK ==
  /\ phase \in {"down", "opening", "open", "failed"}
  /\ version \in Nat /\ tables \in Seq(Ops) /\ nextPage \in Nat /\ pos \in Nat \ {0}
  /\ lock \in Threads \union {NoThread}
  /\ tx \in [Threads -> Txs]
  /\ at \in [Threads -> Labels] /\ job \in [Threads -> Jobs]
  /\ image \in [Threads -> Images]
  /\ saved \in Seq(Seq(Ops)) /\ Len(saved) <= 1 /\ shared \in BOOLEAN
  /\ pages \in Seq(Pages) /\ pageFile \in BOOLEAN
  /\ tail \in {"clean", "unsynced", "torn"}
  /\ stateFile \in Images
  /\ tmp \in Seq(Images) /\ Len(tmp) <= 1
  /\ catalog \in Nat /\ images \in Seq(Ops)
  /\ wal \in Seq(Pages)
  /\ promised \in Seq(Ops)
  /\ inflight \in SUBSET Seq(Ops)

\* Durability and atomicity: an open engine (engine.py:865 has finished) serves
\* exactly what the last acknowledged write left, or that plus the whole of the
\* one write that was not answered; with no unanswered write, exactly the former.
AckedSurvive ==
  phase = "open" =>
    /\ tables \in {promised} \union inflight
    /\ inflight = {} => tables = promised

\* The log of a directory is always readable: no sequence of calls and crashes
\* makes the constructor raise PageCorruptionError (page_store.py:120).  It raises
\* only with the log read to its end, when an index record of the tables does not
\* fit a page of its image (engine.py:916).
ReopenSucceeds == phase = "failed" => pos > Len(Log) /\ tables \in Unsavable

\* First committer wins (engine.py:1002): what a transaction or a batch is about
\* to publish is the tables of the moment followed by its own operations, so no
\* commit, undo or batch that came in between is overwritten.
NoLostUpdate ==
  \A c \in Threads :
    job[c].kind \in {"commit", "bulk"} /\ at[c] \in {"append", "sync", "tables"}
      => job[c].result = tables \o job[c].ops

\* Write-ahead (engine.py:1006): what readers see beyond the acknowledged state
\* is already what a crash would leave, unless it is an undo, which restore_state
\* publishes before its checkpoint.
Synced == IF tail = "unsynced" THEN SubSeq(pages, 1, Len(pages) - 1) ELSE pages

\* What replay has built after i records of the log.
ReplayedTo(log, i) ==
  IF i > 0 /\ log[i].version > stateFile.version
    THEN log[i].before \o log[i].ops
    ELSE stateFile.tables

Durable ==
  LET log == IF pageFile THEN Synced ELSE wal
  IN  ReplayedTo(log, Len(log))

WriteAhead ==
  phase = "open" /\ tables # promised
    => Durable = tables \/ \E c \in Threads : job[c].kind = "restore"

\* What a caller keeps for an undo changes only when a new snapshot is taken or the
\* process ends.  bulk_insert breaks it: it extends the row lists that
\* _table_to_dict has put into the snapshot (engine.py:991, 1127).
SnapshotKept == [][saved' \in {saved, <<tables>>, << >>}]_vars

-----------------------------------------------------------------------------
(* The inductive invariants behind NoLostUpdate and AckedSurvive.          *)

\* Who is inside a call, and that the lock says so.
LockInv ==
  /\ phase # "open" =>
       lock = NoThread /\ \A c \in Threads : at[c] = "idle" /\ ~tx[c].open
  /\ \A c \in Threads :
       /\ at[c] = "idle" <=> job[c].kind = "none"
       /\ at[c] # "idle" /\ job[c].kind # "close" => lock = c
       /\ lock = c => at[c] # "idle" /\ job[c].kind # "close"

\* Which calls pass through which labels.
LabelInv ==
  \A c \in Threads :
    /\ at[c] \in {"append", "sync"} => job[c].kind \in {"commit", "bulk"}
    /\ at[c] \in {"tables", "version"} => job[c].kind \in Writes
    /\ at[c] = "compact" => job[c].kind = "compact"

\* A transaction whose base is still current holds the tables plus its own
\* operations: this is what makes the version check of _commit sufficient.
TxInv ==
  \A c \in Threads : tx[c].open =>
    /\ tx[c].base <= version
    /\ tx[c].base = version /\ (\A d \in Threads : at[d] # "version")
         => tx[c].tables = tables \o tx[c].ops

\* Isolation: the four together are inductive, whatever the fault flags are.
IsolationInv == LockInv /\ LabelInv /\ TxInv /\ NoLostUpdate

\* Without RacyClose a single call runs at a time, close() included.
OneCall ==
  \A c, d \in Threads : at[c] # "idle" /\ at[d] # "idle" => c = d

\* The log is dense, ordered by version, and each record that replay will not
\* skip was made from what replay will have built before it.
DiskInv ==
  /\ wal = << >> /\ (~pageFile => pages = << >>)
  /\ \A i \in 1 .. Len(pages) :
       /\ pages[i].id = i - 1
       /\ \A j \in 1 .. i - 1 : pages[j].version < pages[i].version
       /\ pages[i].version > stateFile.version
            => pages[i].before = ReplayedTo(pages, i - 1)

\* An open engine against its directory, outside of the calls.
OpenInv ==
  phase = "open" =>
    /\ stateFile.version <= version
    /\ tail = IF \E c \in Threads : at[c] = "sync" THEN "unsynced" ELSE "clean"
    /\ nextPage = Len(Synced)
    /\ \A i \in 1 .. Len(pages) :
         /\ pages[i].version <= version + 1
         /\ (\A c \in Threads : at[c] \notin {"sync", "tables", "version"})
              => pages[i].version <= version
    /\ (\A c \in Threads : job[c].kind \notin Writes)
         => inflight = {} /\ tables = promised /\ Durable = tables

\* A write call against the directory, at each of its labels.
WriteInv ==
  \A c \in Threads : job[c].kind \in Writes =>
    /\ inflight = {job[c].result}
    /\ at[c] \in {"append", "sync", "tables"} => tables = promised
    /\ at[c] \in {"append", "sync"} => Durable = tables
    /\ at[c] = "sync" =>
         /\ pages # << >>
         /\ pages[Len(pages)] = Page(Len(pages) - 1, version + 1, job[c].ops, tables)
    /\ at[c] \notin {"append", "sync", "tables"} => tables = job[c].result
    /\ job[c].kind # "restore" /\ at[c] \notin {"append", "sync"}
         => Durable = job[c].result
    /\ job[c].kind = "restore" =>
         Durable = IF at[c] \in {"ckSidecars", "ckWal"} THEN job[c].result ELSE promised

\* The payload of a checkpoint is the engine's state of this moment.
CheckpointInv ==
  \A c \in Threads :
    /\ job[c].kind = "compact" => job[c].result = tables
    /\ at[c] \in {"ckTables", "ckTmp", "ckReplace"} => image[c].version = version
    /\ at[c] \in {"ckTmp", "ckReplace"} => image[c].tables = tables
    /\ at[c] = "ckReplace" => tmp = <<image[c]>>
    /\ at[c] \in {"ckSidecars", "ckWal", "compact"}
         => stateFile.version = version /\ stateFile.tables = tables

\* A directory nobody has open, and one that is being replayed.
ClosedInv ==
  phase # "open" =>
    /\ Durable \in {promised} \union inflight
    /\ tail # "unsynced"

OpeningInv ==
  phase = "opening" =>
    /\ tail = "clean" /\ nextPage = Len(pages) /\ pos <= Len(pages) + 1
    /\ tables = ReplayedTo(pages, pos - 1)
    /\ version = IF pos > 1 /\ pages[pos - 1].version > stateFile.version
                   THEN pages[pos - 1].version ELSE stateFile.version

\* The conjunction is inductive without the three fault flags: the log always
\* replays to the last acknowledged state, or to it plus the whole write in flight.
DurabilityInv ==
  /\ ReopenSucceeds
  /\ OneCall /\ DiskInv /\ OpenInv /\ WriteInv /\ CheckpointInv
  /\ ClosedInv /\ OpeningInv

-----------------------------------------------------------------------------
(* The abstract store, and liveness.                                       *)

\* The kind of the write call that runs, if one does.
Calls == {job[c].kind : c \in Threads} \cap Writes

\* The engine implements the abstract store: mapping its files and its served
\* tables to DurableStore's variables, every step is a step of it or a stutter.
Store == INSTANCE DurableStore WITH
  durable <- Durable,
  view <- IF phase = "open" THEN <<tables>> ELSE << >>,
  calls <- Calls

ImplementsStore == Store!Spec

\* Once the process stops crashing every call returns, raising or not: whoever
\* holds the engine lock releases it, and every unanswered write is answered, or
\* decided by a reopening that succeeds (RLock, engine.py:979-1077).
CallsReturn ==
  <>[][~Crash]_vars =>
    /\ inflight # {} ~> inflight = {} \/ phase = "failed"
    /\ \A c \in Threads : lock = c ~> lock # c

=============================================================================
