------------------------------- MODULE Tables -------------------------------
(***************************************************************************)
(* Rows: Table and Transaction (engine.py:429-651), the operations a       *)
(* statement logs, and their replay by value in Engine._apply_operations.  *)
(*                                                                         *)
(* There is one table, of one NOT NULL column, so a row is its cell; the   *)
(* column may be a primary key and may be indexed.  Python objects matter: *)
(* a logged insert holds the very row that a later UPDATE of the same      *)
(* transaction changes in place.  A row therefore remembers the operation  *)
(* that logged it.  How commits, crashes and files interleave is           *)
(* EngineStorage's subject; here a commit and a reopening are one step.    *)
(***************************************************************************)
EXTENDS Naturals, FiniteSetsExt, Sequences, SequencesExt

CONSTANTS
  Values, Null,     \* what a cell holds
  Wheres,           \* predicates: each the set of the cells it is true of
  Assignments,      \* expressions of SET: functions from cells to cells
  CheckpointEvery,  \* 10 in the code
  MaxRows,          \* bound: no insert makes a longer table
  MaxOps,           \* bound: no statement starts with more operations logged
  MaxVersion        \* bound: no write commits at this version

Cells == Values \union {Null}

ASSUME NullAssumption == Null \notin Values
ASSUME StatementsAssumption ==
  Wheres \subseteq SUBSET Cells /\ Assignments \subseteq [Cells -> Cells]
ASSUME TablesBoundsAssumption ==
  /\ CheckpointEvery \in Nat \ {0}
  /\ MaxRows \in Nat /\ MaxOps \in Nat /\ MaxVersion \in Nat

VARIABLES
  version, table,  \* of the engine
  tx,              \* one transaction, beside the other calls of Engine
  log,             \* the records of pages.dat
  state,           \* state.json
  taint            \* history: what the committed transactions did, see below

vars == <<version, table, tx, log, state, taint>>

-----------------------------------------------------------------------------
(* Table.                                                                  *)

\* A row: its cell, and the place in the logged operations that shares it.
Row(v, op, at) == [v |-> v, src |-> <<op, at>>]
Own(v) == [v |-> v, src |-> << >>]

Contents(rows) == [i \in DOMAIN rows |-> rows[i].v]

\* Where the first n cells are in S, in ascending order.
Positions(cells, S, n) ==
  LET found[i \in 0 .. n] ==
        IF i = 0 THEN << >>
        ELSE IF cells[i] \in S THEN Append(found[i - 1], i) ELSE found[i - 1]
  IN  found[n]

Scan(rows, v) == Positions(Contents(rows), {v}, Len(rows))

NoIndex == [v \in Cells |-> << >>]

Fresh(keyed) ==
  [exists |-> TRUE, keyed |-> keyed, indexed |-> FALSE, rows |-> << >>,
   keys |-> {}, index |-> NoIndex]

Absent == [Fresh(FALSE) EXCEPT !.exists = FALSE]

Rebuild(t) ==
  [t EXCEPT !.keys = IF t.keyed THEN ToSet(Contents(t.rows)) ELSE {},
            !.index = IF t.indexed THEN [v \in Cells |-> Scan(t.rows, v)] ELSE NoIndex]

\* Mutant of Duplicate: the new rows are not compared with each other.
DuplicateOfOld(t, cells) == t.keyed /\ \E i \in DOMAIN cells : cells[i] \in t.keys

Duplicate(t, cells) ==
  /\ t.keyed
  /\ \E i \in DOMAIN cells :
       cells[i] \in t.keys \/ \E j \in DOMAIN cells : j < i /\ cells[j] = cells[i]

\* Mutant of AppendEntry: the position of the row before the new one.
AppendEntryBefore(t, row) ==
  [t.index EXCEPT ![row.v] = Append(@, Len(t.rows))]

\* append_index_entries
AppendEntry(t, row) ==
  [t.index EXCEPT ![row.v] = Append(@, Len(t.rows) + 1)]

InsertRow(t, row) ==
  [t EXCEPT !.rows = Append(@, row),
            !.keys = IF t.keyed THEN @ \union {row.v} ELSE @,
            !.index = IF t.indexed THEN AppendEntry(t, row) ELSE @]

Extend(t, rows) ==
  LET longer == [t EXCEPT !.rows = @ \o rows,
                          !.keys = IF t.keyed THEN @ \union ToSet(Contents(rows)) ELSE @]
  IN  IF t.indexed THEN Rebuild(longer) ELSE longer

-----------------------------------------------------------------------------
(* Logged operations and their replay.                                     *)

Op(kind) ==
  [kind |-> kind, keyed |-> FALSE, rows |-> << >>, before |-> Null, after |-> Null]

CreateTableOp(keyed) == [Op("create_table") EXCEPT !.keyed = keyed]
CreateIndexOp == Op("create_index")
InsertOp(cells) == [Op("insert") EXCEPT !.rows = cells]
UpdateOp(before, after) == [Op("update") EXCEPT !.before = before, !.after = after]
DeleteOp(cell) == [Op("delete") EXCEPT !.before = cell]

\* The place of the first row of this content, 0 if there is none.
First(rows, v) ==
  LET found == {i \in DOMAIN rows : rows[i].v = v} IN IF found = {} THEN 0 ELSE Min(found)

\* Mutant of ReplayUpdate: every row equal to the old one is changed.
ReplayUpdateAll(rows, op) ==
  [i \in DOMAIN rows |-> IF rows[i].v = op.before THEN Own(op.after) ELSE rows[i]]

\* The first row equal to the old one is changed, if there is one.
ReplayUpdate(rows, op) ==
  LET i == First(rows, op.before)
  IN  IF i = 0 THEN rows ELSE ReplaceAt(rows, i, Own(op.after))

ReplayDelete(rows, op) ==
  LET i == First(rows, op.before)
  IN  IF i = 0 THEN rows ELSE RemoveAt(rows, i)

ApplyOperation(t, op) ==
  CASE op.kind = "create_table" -> Fresh(op.keyed)
    [] op.kind = "create_index" -> Rebuild([t EXCEPT !.indexed = TRUE])
    [] op.kind = "insert" ->
         [t EXCEPT !.rows = @ \o [i \in DOMAIN op.rows |-> Own(op.rows[i])]]
    [] op.kind = "update" -> [t EXCEPT !.rows = ReplayUpdate(@, op)]
    [] op.kind = "delete" -> [t EXCEPT !.rows = ReplayDelete(@, op)]

\* The table after n operations.
Replay(t, ops, n) ==
  LET ran[i \in 0 .. n] == IF i = 0 THEN t ELSE ApplyOperation(ran[i - 1], ops[i])
  IN  ran[n]

ApplyOperations(t, ops) == Rebuild(Replay(t, ops, Len(ops)))

\* One record: the engine skips what its version covers.
LoadRecord(engine, record) ==
  IF record.version <= engine.version THEN engine
  ELSE [version |-> record.version, table |-> ApplyOperations(engine.table, record.ops)]

\* What Engine._load makes of a state.json and the first n records.
Load(saved, records, n) ==
  LET ran[i \in 0 .. n] ==
        IF i = 0 THEN [version |-> saved.version, table |-> Rebuild(saved.table)]
        ELSE LoadRecord(ran[i - 1], records[i])
  IN  ran[n]

Loaded == Load(state, log, Len(log)).table
LoadedVersion == Load(state, log, Len(log)).version

-----------------------------------------------------------------------------
(* Transactions and their statements.                                      *)

NoTx == [open |-> FALSE, base |-> 0, table |-> Absent, ops |-> << >>, taint |-> {}]

Init ==
  /\ version = 0 /\ table = Absent
  /\ tx = NoTx
  /\ log = << >>
  /\ state = [version |-> 0, table |-> Absent]
  /\ taint = {}

Begin ==
  /\ ~tx.open
  /\ tx' = [NoTx EXCEPT !.open = TRUE, !.base = version, !.table = table]
  /\ UNCHANGED <<version, table, log, state, taint>>

\* The owner runs nothing after commit or rollback; the code would not refuse it.
MayRun == tx.open /\ Len(tx.ops) < MaxOps

\* A statement of the open transaction: its table, its operations, what it taints.
Statement(t, ops, marks) ==
  /\ tx' = [tx EXCEPT !.table = t, !.ops = ops, !.taint = @ \union marks]
  /\ UNCHANGED <<version, table, log, state, taint>>

CreateTable(keyed) ==
  /\ MayRun /\ ~tx.table.exists
  /\ Statement(Fresh(keyed), Append(tx.ops, CreateTableOp(keyed)), {})

CreateIndex ==
  /\ MayRun /\ tx.table.exists
  /\ Statement(Rebuild([tx.table EXCEPT !.indexed = TRUE]), Append(tx.ops, CreateIndexOp), {})

CanInsert(t, cells) ==
  t.exists /\ Len(t.rows) + Len(cells) <= MaxRows /\ ~Duplicate(t, cells)

Insert(v) ==
  /\ MayRun /\ CanInsert(tx.table, <<v>>)
  /\ Statement(InsertRow(tx.table, Row(v, Len(tx.ops) + 1, 1)),
               Append(tx.ops, InsertOp(<<v>>)), {})

InsertMany(cells) ==
  /\ MayRun /\ CanInsert(tx.table, cells)
  /\ Statement(Extend(tx.table, [i \in DOMAIN cells |-> Row(cells[i], Len(tx.ops) + 1, i)]),
               Append(tx.ops, InsertOp(cells)), {})

\* The logged inserts after the rows they share were changed in place.
Shared(ops, rows) ==
  [i \in DOMAIN ops |->
     [ops[i] EXCEPT !.rows =
        [j \in DOMAIN @ |->
           LET sharing == {k \in DOMAIN rows : rows[k].src = <<i, j>>}
           IN  IF sharing = {} THEN @[j] ELSE rows[Min(sharing)].v]]]

\* The rows of the transaction's table that a predicate is true of, among the first n.
Hits(where, n) == Positions(Contents(tx.table.rows), where, n)

\* The rows and operations of an UPDATE that ran over the first n rows.
ChangedRows(where, assign, n) ==
  [i \in DOMAIN tx.table.rows |->
     IF i <= n /\ tx.table.rows[i].v \in where
       THEN [tx.table.rows[i] EXCEPT !.v = assign[@]] ELSE tx.table.rows[i]]

ChangeOps(where, assign, n) ==
  [k \in DOMAIN Hits(where, n) |->
     LET v == tx.table.rows[Hits(where, n)[k]].v IN UpdateOp(v, assign[v])]

\* The rows whose new cell the NOT NULL check refuses.
Refused(where, assign) ==
  {i \in DOMAIN tx.table.rows :
     tx.table.rows[i].v \in where /\ assign[tx.table.rows[i].v] = Null}

\* "alias": a row that this transaction inserted is changed; "key": a key column is.
Marks(where) ==
  LET hits == {i \in DOMAIN tx.table.rows : tx.table.rows[i].v \in where}
  IN  (IF \E i \in hits : tx.table.rows[i].src # << >> THEN {"alias"} ELSE {})
        \union (IF tx.table.keyed /\ hits # {} THEN {"key"} ELSE {})

Updated(rows) == Rebuild([tx.table EXCEPT !.rows = rows])

Update(where, assign) ==
  LET all == Len(tx.table.rows)
      rows == ChangedRows(where, assign, all)
  IN  /\ MayRun /\ tx.table.exists /\ Refused(where, assign) = {}
      /\ Statement(Updated(rows),
                   Shared(tx.ops, rows) \o ChangeOps(where, assign, all), Marks(where))

\* Column cannot be NULL: raised after the cell was assigned, before it was logged.
UpdateRaises(where, assign) ==
  /\ MayRun /\ tx.table.exists /\ Refused(where, assign) # {}
  /\ LET stop == Min(Refused(where, assign))
         rows == ChangedRows(where, assign, stop)
     IN  Statement([tx.table EXCEPT !.rows = rows],
                   Shared(tx.ops, rows) \o ChangeOps(where, assign, stop - 1),
                   Marks(where) \union {"raised"})

Delete(where) ==
  LET all == Len(tx.table.rows)
      kept == Hits(Cells \ where, all)
      deleted == Hits(where, all)
  IN  /\ MayRun /\ tx.table.exists
      /\ Statement(Updated([k \in DOMAIN kept |-> tx.table.rows[kept[k]]]),
                   tx.ops \o [k \in DOMAIN deleted |-> DeleteOp(tx.table.rows[deleted[k]].v)],
                   {})

Rollback ==
  /\ tx.open
  /\ tx' = NoTx
  /\ UNCHANGED <<version, table, log, state, taint>>

-----------------------------------------------------------------------------
(* Engine: the calls that end, bypass or outlive a transaction.            *)

\* Mutant of Publish: the rows remember operations that are gone.
PublishShared(t) == t

\* The engine's own rows: the operations that shared them are gone.
Publish(t) ==
  [t EXCEPT !.rows = [i \in DOMAIN @ |-> Own(@[i].v)]]

\* The version moves, the record is in the log, and every tenth version is saved.
Advance(t, ops) ==
  /\ version < MaxVersion
  /\ version' = version + 1
  /\ table' = Publish(t)
  /\ log' = IF ops = << >> THEN log ELSE Append(log, [version |-> version + 1, ops |-> ops])
  /\ state' = IF (version + 1) % CheckpointEvery = 0
                THEN [version |-> version + 1, table |-> Publish(t)] ELSE state

\* Both ends of Engine._commit: the version check and the publication.
Commit ==
  /\ tx.open
  /\ IF tx.base = version
       THEN Advance(tx.table, tx.ops) /\ taint' = taint \union tx.taint
       ELSE UNCHANGED <<version, table, log, state, taint>>
  /\ tx' = NoTx

BulkInsert(cells) ==
  /\ CanInsert(table, cells)
  /\ Advance(Extend(table, [i \in DOMAIN cells |-> Own(cells[i])]), <<InsertOp(cells)>>)
  /\ UNCHANGED <<tx, taint>>

Checkpoint ==
  /\ state' = [version |-> version, table |-> table]
  /\ UNCHANGED <<version, table, tx, log, taint>>

CompactOps ==
  IF ~table.exists THEN << >>
  ELSE <<CreateTableOp(table.keyed)>>
       \o (IF table.rows = << >> THEN << >> ELSE <<InsertOp(Contents(table.rows))>>)
       \o (IF table.indexed THEN <<CreateIndexOp>> ELSE << >>)

\* The checkpoint first, then one record for everything.
Compact ==
  /\ state' = [version |-> version, table |-> table]
  /\ log' = IF CompactOps = << >> THEN << >>
            ELSE <<[version |-> version, ops |-> CompactOps]>>
  /\ UNCHANGED <<version, table, tx, taint>>

\* The process ends and the directory is opened again.
Reopen ==
  /\ version' = LoadedVersion
  /\ table' = Loaded
  /\ tx' = NoTx
  /\ UNCHANGED <<log, state, taint>>

Batches == {<<v>> : v \in Values} \union {<<v, w>> : v, w \in Values}

Next ==
  \/ Begin \/ Commit \/ Rollback \/ CreateIndex
  \/ \E keyed \in BOOLEAN : CreateTable(keyed)
  \/ \E v \in Values : Insert(v)
  \/ \E cells \in Batches : InsertMany(cells) \/ BulkInsert(cells)
  \/ \E where \in Wheres : Delete(where)
  \/ \E where \in Wheres, assign \in Assignments :
       Update(where, assign) \/ UpdateRaises(where, assign)
  \/ Checkpoint \/ Compact \/ Reopen

Spec == Init /\ [][Next]_vars

-----------------------------------------------------------------------------
(* Properties.                                                             *)

Rows == [v : Cells, src : {<< >>} \union (Nat \X Nat)]
OwnRows == [v : Cells, src : {<< >>}]

TablesOf(rows) ==
  [exists : BOOLEAN, keyed : BOOLEAN, indexed : BOOLEAN, rows : Seq(rows),
   keys : SUBSET Cells, index : [Cells -> Seq(Nat)]]

Operations ==
  [kind : {"create_table", "create_index", "insert", "update", "delete"},
   keyed : BOOLEAN, rows : Seq(Cells), before : Cells, after : Cells]

Taints == {"alias", "key", "raised"}

\* Every variable has its type, and only the rows of a transaction are shared with
\* its log: those of the engine and of state.json are their own.
TypeOK ==
  /\ version \in Nat /\ table \in TablesOf(OwnRows)
  /\ tx \in [open : BOOLEAN, base : Nat, table : TablesOf(Rows), ops : Seq(Operations),
             taint : SUBSET Taints]
  /\ log \in Seq([version : Nat, ops : Seq(Operations)])
  /\ state \in [version : Nat, table : TablesOf(OwnRows)]
  /\ taint \subseteq Taints

\* The key sets and the index, kept row by row on one path and rebuilt on others
\* (engine.py:508-527, 594-611), say what a scan of the rows says: an insert is
\* refused when, and a lookup answers what, a scan would.  A statement that raised
\* is the exception.
CachesAgree ==
  /\ "raised" \notin taint => table = Rebuild(table)
  /\ "raised" \notin tx.taint \union taint => tx.table = Rebuild(tx.table)

Count(rows, v) == Len(Scan(rows, v))

SameContents(s, t) ==
  /\ s.exists = t.exists /\ s.keyed = t.keyed /\ s.indexed = t.indexed
  /\ \A v \in Cells : Count(s.rows, v) = Count(t.rows, v)

\* The directory holds the database that is served (README.md:148-150): state.json
\* and the log replayed over it give the table's rows, with their multiplicity.
ReplayMatches == SameContents(Loaded, table)

\* It does, through any mixture of statements, batches, checkpoints, compactions
\* and reopenings, unless a transaction updated a row that it had inserted, or was
\* committed after one of its statements raised (engine.py:620-629).
ReplayMatchesUntainted == taint \subseteq {"key"} => ReplayMatches

\* A primary key is unique (engine.py:592, 554) until an UPDATE assigns it; the
\* replays of the log keep it so.
KeysUnique ==
  taint = {} /\ table.keyed => \A v \in Cells : Count(table.rows, v) <= 1

=============================================================================
