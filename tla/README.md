# NovaDB: formal models, checks and proofs

TLA+ models of the parts of NovaDB whose correctness depends on the order of
steps, or on data structures with many cases: the storage protocol,
transactions, the multi-version store, prompt plans with undo and redo, Raft, log
shipping, agent memory, backups, identities, the rate limiter, indexes and
joins. TLC checks the models on small
instances; TLAPS proves the safety of the storage protocol, the tables and their replay, the
multi-version store, the prompt service, Raft, log shipping, the agent memory, backups,
identities and the rate limiter for every instance.

Paths without a directory are under `src/novadb/`.

## 1. The system

| Component | State | Operations | What is hard | What makes it correct |
|---|---|---|---|---|
| Engine and page log (`engine.py`, `page_store.py`, `catalog.py`) | version, tables, lock; `pages.dat`, `state.json`, `catalog.json`, `indexes/*.idx`, `wal.log` | begin, commit, bulk_insert, checkpoint, compact, snapshot/restore, close, open | crash between any two writes, an I/O error that the process survives, threads beside each other | acknowledged writes survive, no crash makes the page log unreadable, no lost update |
| Tables (`engine.py`) | rows, key sets, indexes, logged operations | create_table, create_index, insert, insert_many, update, delete, replay | aliasing of rows and log, replay by value, statements that raise | the log replays to the served rows, caches agree with a scan |
| Multi-version store (`mvcc.py`) | version chains, open transactions | begin, get, put, delete, scan, commit, rollback | calls between two rows of a scan, phantoms | snapshot reads, strict serializability |
| Prompt service (`prompting.py`) | plans, execution records, history, redo stack | preview, approve, undo, redo | a preview outlives the state it saw, expiry, eviction, commits from elsewhere | a plan runs once and on what was previewed, undo and redo are exact |
| Raft (`raft.py`) | term, vote, log, role, indexes; `raft-state.json` | tick, propose, request_vote, append_entries, restart | lost requests, interleaved calls, stale followers, restart | election safety, log matching, commits stay |
| Agent memory (`memory.py`) | two tables of the engine | upsert, search, recent, audit | upserts and audits beside each other, expiry by a time taken earlier, a cut before the sort | an acknowledged memory is kept, the newest or nearest are found |
| Log shipping (`replication.py`) | the follower's engine | stream_wal, apply_records | reading a file that grows, shrinks and is replaced; holes after an undo; records that raise | the follower equals the leader at its version and comes to hold the whole log |
| Indexes (`btree.py`, `slotted_page.py`, `durable_index.py`) | trees, image files | insert, find, range, save, load, verify, repair | splits, pages that are full, statements beside SELECT, damaged images | the tree answers what a scan answers, an image that is damaged is made again |
| Buffer pool (`buffer_pool.py`) | pages | read, evict, scan | read by `_load` only, once and while it is empty | |
| Vector index (`vector.py`, `vector_index.py`) | vectors | search | nothing in the engine reads through it | |
| Planner (`optimizer.py`, `prepared.py`, `bytecode.py`) | none | plan, execute | join order, side of the condition, choice of algorithm, conditions that name other relations | every matching combination of rows once |
| Server (`server.py`) | request windows, audit trail | requests | handler threads | the limit holds |
| Identities (`auth.py`) | identities in memory, identity file | add, revoke, authenticate | saves that fail | memory and file say what was answered |
| Backups (`backup.py`) | archives | backup, restore | files that change while they are read, crashes | an archive is of one moment and restores |
| Command line (`cli.py`, `production_gate.py`) | none | | | |

The components meet at the engine. HTTP handler threads share one `Engine`;
its `RLock` serialises begin, commit, bulk insert, snapshot, restore and
compact; a transaction works on its own clone and takes the lock only to begin
and to commit. The prompt service holds the same lock from end to end of
approve, undo and redo and drops it while the planner runs. The page log is
written by commits and read by `_load`, once, and by followers, at any time and
by path. SELECT reads the live tables and trees without the lock. The memory
store is a client of the engine's transactions, a backup takes the engine lock,
and the server appends its audit trail to the database directory without it.
Raft nodes call each other
synchronously through `RaftCluster`, each under its own lock.

## 2. Modules

| Module | Models | Notes |
|---|---|---|
| `DurableStore` | what the engine promises about durability | abstract, no files |
| `EngineStorage` | the storage protocol, one step per access another thread or a crash can observe | refines `DurableStore` |
| `EngineStorage_proofs` | types and isolation of `EngineStorage`, whatever the flags; its durability and refinement without them | TLAPS |
| `Tables`, `Tables_proofs` | rows, statements, logged operations, replay | commits and reopenings are one step |
| `SerialStore` | strict serializability of a key-value store | abstract |
| `Mvcc`, `Mvcc_proofs` | `mvcc.py` | refines `SerialStore` |
| `PromptService`, `PromptService_proofs` | plans, undo and redo | the engine is a version and tables |
| `Raft`, `Raft_proofs` | `raft.py`; elections and logs | one step per remote call |
| `RaftCommit_proofs` | what a Raft cluster commits | TLAPS, extends `Raft_proofs` |
| `Replication`, `Replication_proofs` | a leader's page log and a follower that reads it | one step per page |
| `RateLimiter` | the request windows of `server.py` | |
| `Identities` | `auth.py` | a call is the change in memory and the save |
| `MemoryStore` | `memory.py` | a client of the engine's transactions |
| `Backup` | `Engine.backup`, `backup.py`, the audit trail | one step per file |
| `Services`, `Services_proofs` | the four components above, from `RateLimiter` to `Backup` | composes them; TLAPS |
| `BTree` | `btree.py` as operators | recursive, so for TLC only |
| `TableIndex` | one indexed column: rows, tree, image | extends `BTree` |
| `Joins` | the joins of `optimizer.py` as operators | recursive, so for TLC only |
| `Parts` | `Services`, `TableIndex` and `Joins` | composes them, for TLC only |
| `MCEngineStorage`, `MCTables`, `MCMvcc`, `MCPromptService`, `MCRaft`, `MCReplication`, `MCParts` | the instances TLC checks | |

### How the models correspond to the code

**EngineStorage.** The database is the sequence of logged operations that made
it: any meaning of the operations is an image of that sequence, so a lost,
doubled or reordered one shows. `lock`, `at`, `job` and `image` are the lock, the
program counter and the local variables of a thread inside a call; `tx` is its
open transaction. `Enter` and `Leave` are the two ends of a `with self._lock`
body. The checkpoint is seven steps (`ReadVersion` to `TruncateWal`) because
`close()` runs it without the lock. `tail` is the state of the last page: a page
not fsynced survives a crash whole, in part or not at all (`TailOutcome`).
`Open`, `ReplayRecord`, `RefuseToOpen`, `FinishOpen` and `RepairRaises` are `__init__`
and `_load`, with crashes between them. `Unsavable` are the tables of which an index
record fits no page: a checkpoint of them raises after `state.json` is in place
(`IndexTooLarge`), and the repair of their images ends the constructor. A snapshot
holds the live row lists. `saved` is what it says now and `shared` whether its lists
are those of the tables: a batch then extends both (`PublishTables`), until a commit
publishes clones; a restore makes them shared again. `DurableStore` promises no more:
its `Batch` changes what is saved while that is shared. `promised`, `inflight` and `Page.before` are
history: what callers were told, the write not answered yet, the tables a record
was made from. No action's guard reads them. Three flags
switch on what the base case leaves out: `LegacyWal` (a directory of an older
release), `IoErrors` (an `OSError` that the process survives), `RacyClose`
(`close()` beside other calls). A backup is a checkpoint under the lock and has
no action of its own. `expected_version` of `restore_state` is in
`PromptService`.

**Tables.** One table of one NOT NULL column, possibly a primary key, possibly
indexed, so a row is its cell. A row of a transaction carries `src`, the place
in the logged operations that holds the same Python dict; `Shared` carries a
change in place over to the log. Predicates are sets of cells and assignments
functions on cells. The loops over rows, operations and records are recursive functions
of how many of them they have passed: `Positions` (the scan of an index, and which rows a
predicate hits), `Replay` (`_apply_operations`) and `Load` (`_load`, which skips what
its version covers). `UpdateRaises` leaves the transaction as the code does, half
changed and still open. `taint` is history: which of the unusual paths the
committed transactions took.

**Mvcc.** One transaction object per client with one running scan; a scan fixes
its keys when it starts and yields them in any order. `seen` is history: what
the store told each transaction. A refused commit is no step, because it raises
and changes nothing.

**PromptService.** approve, undo and redo are one step each, as the engine lock
makes them; preview is two, because the planner runs between. `ApproveRaises`
and `RestoreRaises` are the checkpoint that raises after its write was
published. Outside commits are those of clients that do not use the service.
An oversized snapshot, a refused preflight and a wrong hash change nothing and
have no action.

**Raft.** A remote call and the handling of its answer is one step: the handler
runs on the peer under its lock, and `tick` and `propose` hold the caller's lock
throughout. Peers are asked in any order, which includes the order of the code.
Any request may be refused by the partition set. The election timer is a timeout
that may come at any time. `disk` is `raft-state.json`, and `Restart` builds the
node from it. Positions start at 1 here and at 0 in the code.

**Replication.** The leader's engine is a version and tables, its commit two steps:
the page is in the file for every reader (`Write`), then the fsync returns and it
is published (`Publish`), or the power fails before (`PowerLoss`). `OpenStream` is the
creation of `PageStore`, which fixes the number of pages; the iterator then reads
by path, so it meets a file that `Compact` has replaced (`ReadRaises` when that has
become shorter). A record is applied whole or as far as the first operation that
raises (`ApplyOperations`, a recursive function whose step is `After`); a compaction
writes the operations of one table after another (`TableOps`), in an order that does
not matter; `Finish` is the one checkpoint at the end. `past`, `undone` and the
`missed` of a follower are history: what it read across. No guard reads them.

**Services, Parts.** `Services` composes four components which share no state, and
`Parts` adds two: they meet in the engine and each is modelled against what the engine
promises it. The first state picks the one that runs. Interleaving them would multiply
their states and show nothing, because no action of one reads what another writes. The
two modules are apart because nothing can be proved in a module that reaches a
recursive operator; what the theorems speak of is in `Services`.

**RateLimiter.** `Arrive` reads the clock, `Admit` and `Refuse` hold the lock. The
clock cannot move while a thread has waited for the lock for `MaxDelay`.

**Identities.** `Change` is the assignment to the dictionary, `Save` the atomic
replacement of the file, `SaveRaises` an error before it; a crash between the two
is `Load`. Tokens and roles are left out.

**MemoryStore.** upsert takes the time (`Upsert`), begins (`Begin`, which clones the
table) and commits what it computed from its clone; `doomed` stands for a base
version that is no longer the engine's. Namespace and session are one scope;
the distance from the query is a function of the id. The reads are operators,
evaluated in each state. `Sorted` is the stable sort of the code, by how many rows are
ahead of each (`Ahead`): two memories may be equally near and of one age, and for such
ties the library's `SortSeq` is not defined.

**Backup.** A file is the number of its last change. Size, digest and copy of each
file are steps, because the audit trail may grow between them; commits wait for the
lock.

**BTree, TableIndex.** A tree is a sequence of nodes with the fields of `_Node`,
identity being the number of a node. `TableIndex` starts from the rows of an earlier
process (`Found`), because opening rebuilds a tree of many rows in one step. Its
`BulkInsert` and `Fill` let a reader see a tree between two rows of
`rebuild_indexes`. `OrderBy` takes no lock: it may sort the rows during a rebuild, which
then may end early, because the list is empty while CPython sorts it. The sort is one
step, so a batch that extends the list during a sort is left out. `Capacity` stands for the bytes of a slotted page.

**Joins.** `Execute` is computed for every small content of the tables and every
list of conditions that the parser accepts, those between two relations other than the
joined one or of one relation with itself included, and compared with the product. A row
has NULL for a column of a relation it does not come from (`Cell`). `JoinsAgree` says for
all of them when a query is refused, and that the answer is exact if each condition
names the relation it joins (`ProperJoins`); for the others it is not
(`JoinsAlwaysExact`). Column names are qualified: the values of equal unqualified names
overwrite each other in the code.

## 3. Runs

| Run | Expected | Question | Bounds |
|---|---|---|---|
| `storage` | pass | With crashes anywhere: do acknowledged writes survive, does a directory fail to open only for an index record too large, is the engine a `DurableStore`? | 2 threads, 2 operations, 3 versions, a checkpoint at each second, tables of twice the same operation have no index image |
| `storage_faults` | pass | With I/O errors that the process survives: is isolation kept and does every call return? | 2 threads, 1 operation, 2 versions |
| `tables` | pass | Do the log and the caches agree with the rows? | 2 values, 2 rows, 3 versions, statements while a transaction has fewer than 2 operations |
| `tables_shared` | violation | May a transaction update what it inserted? | |
| `mvcc` | pass | Snapshot reads and strict serializability | 2 transactions, 2 keys, 1 value, writes below version 2 |
| `prompt` | pass | Does a plan run once, as previewed, and are undo and redo exact while every change has a record? | 3 plans, 2 stored, history of 2, 5 versions |
| `prompt_undo` | violation | Does undo respect a commit made outside? | |
| `raft` | pass | Election safety, log matching, and commits on a majority unless a follower overclaims | 3 nodes, 2 terms, 2 entries |
| `raft_overclaim` | violation | Are committed entries held by a majority? | |
| `replication` | pass | Does a follower hold what the leader held at its version, and does it come to hold the whole log? | 2 tables, 1 row value, 3 versions |
| `parts` | pass | `RateHolds`, `AdminDurable`, `AckedRetrievable`, `RecentIsLatest`, `ArchiveRestores`, `IndexAnswers`, `JoinsAgree` | 3 requests at once, limit 2 in 3 ticks; 2 users, 5 calls; 3 memories, 2 scopes, a cut of 2; 3 files, 3 changes of each; 9 rows and 3 statements, 3 keys a node; 3 relations of 2 rows |
| `parts_opens` | violation | Does a directory open whatever was committed to it? | a page holds 2 positions |

Why the bounds are enough: each run reaches the case its properties are about.
Two threads make every conflict between two writers; two checkpoint intervals
let a crash fall before, inside and after a checkpoint with records on both sides
of it; `compact` works at any version. Two rows are the fewest that replay by
value can confuse. Two transactions and two keys are the smallest write skew and
the smallest phantom. A history of two with three plans evicts a record that is
still on the redo stack, or would. Two terms and three nodes are enough for two
candidates, a stale leader and a stale follower. Three versions let a follower
read before, across and after an undo, a compaction and a lost page. Nine rows
in nodes of three keys grow into a tree of three levels when statements add to them,
so that leaves, inner nodes and the root split, in ascending, descending and mixed
order. Three memories in one scope exceed the cut, which `RecentIsLatest`
excepts and the mutants do not need. Three relations are the fewest whose order of
joining matters; two rows with two values, one of them NULL, let a key match none, one
or both.
Symmetry is used only where all members of a set are interchangeable, never with
a liveness property. `MCTables!View` leaves out the records that `state.json`
already contains: `_load` skips them and the version of `state.json` never
decreases, so they are never read again.

Fairness: `CallsReturn` is checked under weak fairness of a thread inside a call
(`CallStep`) and of recovery (`Recover`). Once inside a call a thread runs
straight-line code with no other lock to wait for, and the property asks for
nothing until crashes have stopped. `CatchesUp` is checked under weak fairness of
`Follow`: whoever runs a follower calls `apply_records` again when it returns or
raises, and the calls depend on nobody; it asks for nothing unless leader and
restarts rest. No other run assumes fairness.

## 4. What the checks show

Hold: `AckedSurvive`, `ReopenSucceeds` (no page log is refused; a directory does not open
only if an index record of its tables fits no page), `WriteAhead` and `ImplementsStore`
without the three flags of `EngineStorage`; `NoLostUpdate` and `IsolationInv` whatever the flags;
`ReplayMatchesUntainted`; serializability of the multi-version store;
`RunsOnce`, `RunsAsPreviewed`, `RedoStack`; `ElectionSafety` and `LogMatching`;
`FollowerFaithful` and `CatchesUp`; the seven properties of `parts`.

Do not hold, each with a run that shows how:

1. **A transaction that updates a row it inserted is replayed wrongly**
   (`engine.py:599`, `tables_shared`). The logged insert is the row itself.
   With `0` committed, inserting `1` and running `SET v = v + 1` serves `1, 2`
   and reopens with `2, 2`.
2. **A leader commits what only it holds** (`raft.py:220`, `raft_overclaim`).
   A follower answers with its whole length, stale entries included. The same
   answer makes `replicate_to` raise `IndexError` (`raft.py:238`).
   `HeldUnlessOverclaimed` says that this report is the only cause; it is proved for
   every cluster (`RaftCommit_proofs`).
3. **Undo drops a commit made outside the service** (`prompting.py:455`,
   `prompt_undo`). The version of an earlier record is renumbered by the undo of
   a later one, so the second undo no longer notices the commit.
   `RestoresExactlyAlone` shows undo exact while every change has a record.
4. **A key in many rows makes the directory unopenable** (`durable_index.py:34`,
   `engine.py:916`, `parts_opens`). The positions of one key are one record of an
   index image and must fit one page. If they do not, the write is already in the
   page log, the checkpoint raises, and so does every open, because the repair of the
   image is outside the `try`. With pages of 4096 bytes some thousand rows with
   one indexed value are enough.

Known not to hold as well, without a run of their own; each is reproduced by the
change named, with the property that is violated as the only one of the cfg:

5. A legacy WAL is forgotten after the first new commit (`engine.py:872`):
   `LegacyWal = TRUE` in `EngineStorage.cfg` violates `AckedSurvive`.
6. `close()` beside a commit writes a mixed image (`engine.py:1016`, `1088`) and the
   next open replays a record twice: `RacyClose = TRUE` violates `AckedSurvive`.
7. After a failed append the directory no longer opens (`page_store.py:103`) if the
   process goes on writing: `IoErrors = TRUE` violates `ReopenSucceeds`.
8. ORDER BY an expression sorts the rows of the table in place (`engine.py:772`), and
   the positions in its indexes are wrong from then on: `LookupMatchesScan`, added to
   `Parts.cfg`, is violated; `SELECT * FROM t WHERE k = 1` then returns another row.
9. `recent` sorts after it has cut (`memory.py:257`): `RecentIsAlwaysLatest`, added to
   `Parts.cfg`, is violated by the third memory of a scope (the 51st in the code).
   README.md:88 of the repository says "returns the latest non-expired summaries".
10. A snapshot changes after it was taken (`engine.py:1127`): `SnapshotKept`, as a
   PROPERTY of `EngineStorage.cfg`, is violated. `snapshot_state` hands out the live row
   lists, which `bulk_insert` extends in place (`engine.py:991`), so that `restore_state`
   keeps the batch, in memory and in the checkpoint it makes; a batch after the restore
   changes the snapshot again, because `_table_from_dict` shares its lists. `engine.py:953`
   says "a JSON-safe state snapshot for bounded service-level undo". The prompt service
   copies its snapshots through JSON (`prompting.py:274-282`) and is not affected.
11. A join on other relations answers wrongly (`optimizer.py:226`): `JoinsAlwaysExact`,
   added to `Parts.cfg`, is violated. In `a JOIN b ON a.x = b.x JOIN c ON a.y = b.y` the
   second condition is looked up in the rows of `c`, which have no `b.y`: rows are
   missing, or all are joined on NULL, and nothing is raised. `optimizer.py:117` says
   "planner for inner equi-join SELECT statements".

Exceptions that the passing properties name:

- A follower no longer equals its leader once it has read across an undo, which
  has no record; across the replacement of the file it was reading; or a page that
  the leader then lost. The record of a later compaction makes up for each, but
  not for a table that the leader no longer has (`FollowerFaithful`).
- A record that raises on the follower is retried for ever (`CatchesUp`).
- The audit trail may grow between stat and copy, and then the restore refuses the
  archive (`ArchiveRestores`).
- A transaction in which an UPDATE raised is not claimed to replay
  (`ReplayMatchesUntainted`), rows that were sorted are not claimed to agree with their
  index (`IndexAnswers`), and `recent` and `search` are exact up to the cut
  (`RecentIsLatest`). The hazards of `PROJECT.json` that only an excepted case meets
  name no property but say so.
- The rate limit holds for spans of the window less the longest wait for the lock
  (`RateHolds`); with spans of the whole window it does not.
- An upsert is refused because of an expired memory of the same id in another
  scope (`MemoryStore!Refuse`).

## 5. What is proved

Each theorem holds for every value of the constants that their named assumptions
allow: markers are no members of the sets they are added to, bounds are naturals,
limits, intervals and the time a plan lives (`Ttl`) are positive, the nodes of a
cluster are a finite set that is not empty, the tables of a replicated database a
finite set. Sets of threads, clients, keys, values,
operations, plans, commands and users are any sets.

A theorem goes through an inductive invariant that stands in the component's module
or beside the proof, as a conjunction of named parts. TLC checked each of them before it was
proved: `IsolationInv` and `DurabilityInv` in the runs, the others as further invariants
of the cfg of their component (those of Raft also in random behaviours with three
terms and three entries, that of log shipping with the tables of the history in place
of all tables).

### The storage protocol

`EngineStorage_proofs`, for every combination of the flags:

- `TypeCorrect`: `Spec => []TypeOK`.
- `Isolated`: `Spec => []IsolationInv`. The invariant is inductive given
  `TypeOK`. `NoLostUpdate` alone is not: it speaks of a call that has already
  passed the version check, and the step that enters the call needs to know that a
  transaction whose base is the current version holds the tables plus its own
  operations (`TxInv`); keeping that when another thread publishes needs the lock
  (`LockInv`) and the labels at which tables and version are apart (`LabelInv`).
- `NoLostUpdateHolds`: `Spec => []NoLostUpdate`, from the former.

The second half of the module is under `NoFaults`, the conjunction of the three flags being off.
The hypothesis is needed: findings 5 to 7 of section 4 are the counterexamples with
each of the flags on.

- `DurabilityHolds`: `[]DurabilityInv`. What survives a crash depends on where in a
  call it falls, so the invariant says at each label how the page log, `state.json`,
  the image under construction and the tables stand to each other. Without
  `RacyClose` a single call runs at a time (`OneCall`), which reduces the invariant
  to a statement about that one thread (`CallInv`); each label of a write, a
  checkpoint and a recovery is a lemma. `DiskInv` is what recovery rests on: every
  record that replay will not skip was made from what replay has built before it.
- `AckedSurviveHolds`, `ReopenHolds`, `WriteAheadHolds`: consequences. `ReopenHolds` is
  about crashes: recovery ends with an engine, or, with every record read, at an index
  record that fits no page (finding 4).
- `ImplementsStoreHolds`: the initial states map to initial states of
  `DurableStore` and every step to a step or a stutter. A write becomes durable there
  when its page has survived, or when the image that holds it is in place. What is
  promised of a snapshot is what the code keeps: an undo restores it with the batches
  that its shared rows have taken up since (finding 10).

### The tables

`Tables_proofs`, for any cells, predicates and assignments, any number of rows, operations
and versions and any checkpoint interval:

- `TablesInvariant`: `[]TablesInv`. `ReplayMatchesUntainted` is not inductive, because a
  commit needs to know what the statements before it have logged. So the invariant says of
  the open transaction (`Sound`) that its operations, replayed over the engine's table,
  give its table as long as its base is the engine's version, that its caches are
  right and its keys unique, and that a row it inserted is the row that the logged insert
  holds; and of the engine (`EngineInv`) that no version in a file passes the engine's,
  which is why a record is replayed exactly when `state.json` does not cover it.
- Tables are compared by how often each cell occurs (`SameContents`). Replay by value
  changes or deletes the first row equal to the old one, which need not be the row that
  the statement changed; the counts come out the same, whatever the order of the rows
  (`ApplySame`). An UPDATE and a DELETE are taken row by row: after `n` rows the
  operations logged so far have made, in the replay, the counts of the rows so far
  (`UpdateReplays`, `DeleteReplays`). An UPDATE that changes no row which the transaction
  inserted leaves the logged inserts alone (`SharedSame`): this is where the taint
  `"alias"` is needed, and finding 1 is what happens without it.
- Inductions over rows, operations and records take a set that contains 0 and every number
  after one that it contains (`UpTo`); what the recursive functions are at 0 and at a step is
  proved from their definitions first (`PositionsStep`, `ReplayStep`, `LoadStep`).
- `ReplayMatchesHolds`, `CachesAgreeHolds`, `KeysUniqueHolds`, `TypeCorrect`:
  consequences. A key is unique because the key set is what a scan would say
  (`KeysAre`) when an insert is checked against it.

### The multi-version store

`Mvcc_proofs`:

- `StoreInvariant`: `[]StoreInv`. The chains of versions are ordered and their lives
  disjoint (`ChainInv`); what a transaction was told is its snapshot
  (`SnapshotReads`) and is covered by what its commit validates (`BookInv`). The
  lemma the rest follows from: installing a version at the end of a chain changes
  nothing that an older version number sees.
- `TypeCorrect`, `ChainsOrdered`, `SnapshotReadsHold`: consequences.
- `DoomedHolds`: an action property. A conflict is an item younger than the
  transaction or one that died since, and commits of others remove neither.
- `SerializableHolds`: the step simulation of `SerialStore`. A commit that passes
  validation finds every key it was told of unchanged since its start, keys under a
  scanned prefix that did not exist included, so its snapshot is the present.

### The prompt service

`PromptService_proofs`, with and without late failures:

- `TypeCorrect`; `RunsOnceHolds`, `PlansBoundedHolds` and `RunsAsPreviewedHolds`
  from `PlanInv`: the version never returns, so a plan whose base is the current
  version sees the tables of its preview, and a plan that can still run has not.
  Eviction removes one plan before one is added, which is a fact about finite sets.
- `RedoStackHolds` from `HistoryInv`. `RedoStack` is not inductive: the reason why
  no record is evicted from the history while redo holds it is that the redo stack is
  the end of the history in reverse (`Top` marks the border), and that no record but
  the one at `Top` can be undone.
- `RestoresExactlyHolds` from `UndoInv`: while every change has a record, the
  snapshots of neighbouring records fit each other, and the tables are where `Top`
  ends. `ServiceInvariant` is the whole.

### Raft

`Raft_proofs`:

- `TypeCorrect`; `RaftInvariant`: `[]RaftInv`, with lost requests, interleaved calls
  and restarts.
- `ElectionSafetyHolds`. A vote binds the voter through restarts (`VoteInv`); the
  majority that elected a leader stays bound to it (`ElectionInv`), and two
  majorities meet.
- `LogMatchingHolds`. Every entry was its leader's first, so the leader has all
  entries of its term (`EntryInv`); an accepted request leaves the follower's log as
  it was or makes it the leader's up to what was sent (`MergeIs`).

`RaftCommit_proofs`:

- `HeldInvariant`: `[](OrderInv /\ HeldInv)`, and from it `HeldHolds`:
  `[]HeldUnlessOverclaimed`. While no follower has overclaimed, the nodes whose
  acknowledgement a leader counts for an entry of its term have it; and either nobody
  can take it from them any more (`Frozen`: every leader of a later term, every log with
  an entry of a later term and every candidate with a vote of theirs has it), or a
  majority without any of them has moved on (`Surpassed`), so that the entry can
  no longer be committed in this term. Once the acknowledging nodes are
  a majority only the first is possible; that is what `CommitInv` remembers when
  the commit index moves. The election restriction (`candidate_is_up_to_date`) and the current-term rule
  (`advance_commit`) are each used once, for the candidate that asks one of
  these nodes and for the step to `CommitInv`. `OrderInv` orders terms along a log.

The theorem is conditional on `overclaimed` because the code violates the
unconditional property (finding 2). `overclaimed` is set in the step in which a leader
accepts a match index beyond its own log, and never reset.

### Log shipping

`Replication_proofs`, for any rows, any finite set of tables and any number of versions:

- `ReplicationInvariant`: `[]ReplicationInv`. `FollowerFaithful` is not inductive: whether
  the next record continues what the follower holds depends on the whole log. So the
  invariant says that versions ascend along the file and only its first record may be of
  a compaction (`OrderInv`); that a record, run on the tables of the version before,
  does not raise and makes those of its own, and that of a compaction makes them of any
  tables (`RecordInv`); that a version without a record was made by an undo or is
  older than the compaction (`CompleteInv`, with `CurrentInv` for a compaction which found
  no table and wrote nothing); and that the records which a stream has passed are not
  younger than the follower (`StreamInv`). `NextVersion` follows: a stream that
  missed nothing applies each version after the one before.
- `FollowerFaithfulHolds`: `[]FollowerFaithful`. Tables that differ from the leader's only
  in names the leader does not have stay so under each record (`ApplyAgrees`), and
  the record of a compaction makes up for what was missed, but for such names
  (`CompactRuns`). What a record does is a recursive function of its operations: the
  lemmas take a set of indexes that contains 0 and every index after one that it
  contains (`UpTo`), which needs no operator as a parameter.
- `TypeCorrect`: `[]TypeOK`.

### Agent memory, rate limiter, backups and identities

`Services_proofs`, about `ServicesSpec`, whichever component runs:

- `AckedRetrievableHolds`: `[]AckedRetrievable`, for any threads, ids, scopes and
  number of upserts. The invariant adds that a transaction which may still commit has
  seen the table as it is (`CallsInv`) and that a request is not from the future: what is
  alive now was alive when the request took its time, so the expiry at a time taken
  earlier never drops it. `Filtered`, by which upsert keeps rows, is a recursive function;
  what it keeps (`FilteredFacts`) is proved by induction on the number of rows, as the least
  number for which it would not hold (`LeastNat`, `FilterExists`, `FilterKeeps`).
- `RecentIsLatestHolds`: `[]RecentIsLatest`, for any threads, ids, distances and cut. Both
  sorts are by two numbers and then by place, which orders any rows strictly
  (`NewerOrders`, `NearerOrders`); in such an order no two rows have as many ahead of them
  (`BeforeGrows`), so that each place is taken by one row, by the pigeonhole principle
  (`PlaceFacts`), and the first rows are the best (`FirstOfArranged`).
- `RateHoldsAlways`: `[]RateHolds`, for any threads, limit, window and longest wait. The
  window is the end of what was admitted, and what the purge took from it is a window
  old (`WindowInv`); a thread's stamp is at most the longest wait behind the clock
  (`WaitInv`). So a request and the one `Limit` places later are a window less the longest
  wait apart (`SpacingInv`), although neither the admitted stamps nor the window are in
  order, and a span holds `Limit` neighbours at most.
- `ArchiveRestoresHolds`: `[]ArchiveRestores`, for any number of commits and audit
  lines. The property speaks of
  published archives only; the invariant adds that the database files are equal while
  a backup runs (`FrozenInv`), how far sizes, digests and copies agree with them, and that
  for the trail each of the three is no older than the one before (`ProgressInv`).
- `AdminDurableHolds`: `[]AdminDurable`, for any set of users and any number of calls. It
  is inductive with the types, because a save writes all identities and not only the one
  that changed.

### Only model-checked

- Liveness: `CallsReturn` and `CatchesUp`. The prover has no fairness and no
  ENABLED.
- `TableIndex` and `Joins`, which are recursive.
- `EngineStorage` with flags, beyond types and isolation: durability fails there.

## 6. Not modelled

Full-length garbage pages after a power loss (the checksum turns them into a
refusal to open); the lock order between Raft nodes (a remote call is one step
here); RaftStorage writes without fsync; statements on a transaction that has already
committed (the code refuses only a second commit: such an insert is served until
the directory is opened again, and `Tables!MayRun` excludes it); SQL text,
expressions and vectors; projection, grouping and sorting of results; the cost
estimates of `QueryPlanner.plan`, which `execute` does not follow; the set-up of the
agent tables in three transactions (a crash in between leaves out an index that no
query of the memory store uses); two identity stores on one file, which overwrite
each other's changes; formatting. The buffer pool is a cache that only `_load` reads
through, once, before the engine writes: a read is one of the page log. The vector index
is not read by the engine. The components without a module are listed in `PROJECT.json` with the
reason.

## 7. Plan

Done, in order of importance: the storage protocol and its abstract store, the
multi-version store, the prompt service, Raft, the tables, log shipping, and the
clients and tools of the engine; the theorems of section 5.

Next:
- A flag of `Tables` for statements after the commit; the locks of Raft nodes that
  call each other.
