----------------------------- MODULE TableIndex -----------------------------
(***************************************************************************)
(* One indexed column of a table: its rows in memory, the B+ tree that     *)
(* maps keys to positions in them, and the image of the tree on disk.      *)
(* INSERT changes table and tree in place under the engine lock; SELECT    *)
(* takes no lock.  A row is its key.                                       *)
(***************************************************************************)
EXTENDS BTree, FiniteSetsExt

CONSTANTS
  Keys,      \* what statements name
  Orders,    \* the rows an earlier process may have left
  Capacity,  \* of a slotted page: positions of the largest record that fits
  Garbage,   \* an image whose checksum or length is wrong
  MaxStatements  \* bound: statements and checkpoints altogether

IndexAssumption == Keys \subseteq Nat /\ Capacity \in Nat /\ MaxStatements \in Nat

VARIABLES
  stored,  \* the rows in state.json and the page log
  rows,    \* Table.rows
  tree,    \* Table.btree_indexes[column]
  image,   \* the .idx file
  job,     \* of the writer: "closed", "idle" or "filling"
  filled,  \* how far rebuild_indexes has come
  sorted,  \* history: rows were sorted under the tree
  statements  \* history: how many there were

vars == <<stored, rows, tree, image, job, filled, sorted, statements>>

Init ==
  /\ stored = << >> /\ rows = << >> /\ tree = EmptyTree /\ image = << >>
  /\ job = "closed" /\ filled = 0 /\ sorted = FALSE
  /\ statements = 0

Statement == statements < MaxStatements /\ statements' = statements + 1

\* What needs the engine lock.
MayRun == job = "idle" /\ Statement

\* rebuild_indexes
Rebuilt(keys) ==
  FoldLeft(LAMBDA t, i : Insert(t, keys[i], i), EmptyTree, [i \in DOMAIN keys |-> i])

\* SlottedPage.insert, into an empty page if need be.
Fits(items) == \A i \in DOMAIN items : Cardinality(items[i].positions) <= Capacity

\* A directory of an earlier process, before anything ran.
Found(order) ==
  /\ job = "closed" /\ stored = << >>
  /\ stored' = order
  /\ UNCHANGED <<rows, tree, image, job, filled, sorted, statements>>

\* from_bytes raises on a wrong length, checksum, bound or slot.
Readable == image # Garbage

\* verify: the image is read back into a tree and compared entry by entry.
Valid(t) == Readable /\ image = Items(t)

\* save raises before it touches the file if a record fits no page.
Saved(t) == IF Fits(Items(t)) THEN Items(t) ELSE image

\* _load and _repair_index_images; the save that raises is not caught, nothing opens.
Open ==
  LET t == Rebuilt(stored)
  IN  /\ job = "closed"
      /\ Valid(t) \/ Fits(Items(t))
      /\ rows' = stored /\ tree' = t
      /\ image' = IF Valid(t) THEN image ELSE Saved(t)
      /\ job' = "idle" /\ filled' = 0 /\ sorted' = FALSE
      /\ UNCHANGED <<stored, statements>>

\* The process ends, in whatever it was doing.
Close ==
  /\ job # "closed"
  /\ job' = "closed"
  /\ UNCHANGED <<stored, rows, tree, image, filled, sorted, statements>>

\* The file is damaged while no process has it open.
Damage ==
  /\ job = "closed" /\ Readable
  /\ image' = Garbage
  /\ UNCHANGED <<stored, rows, tree, job, filled, sorted, statements>>

\* bulk_insert up to rebuild_indexes, which has put an empty tree in place of the old
\* one; before it does, a SELECT finds no tree and scans.
BulkInsert(key) ==
  /\ MayRun
  /\ stored' = Append(stored, key) /\ rows' = Append(rows, key)
  /\ tree' = EmptyTree
  /\ job' = "filling" /\ filled' = 0 /\ sorted' = FALSE
  /\ UNCHANGED image

\* One row of rebuild_indexes.
Fill ==
  /\ job = "filling"
  /\ tree' = Insert(tree, rows[filled + 1], filled + 1)
  /\ IF filled + 1 = Len(rows) THEN job' = "idle" /\ filled' = 0
     ELSE filled' = filled + 1 /\ UNCHANGED job
  /\ UNCHANGED <<stored, rows, image, sorted, statements>>

\* Transaction.insert and its commit: the clone of the table becomes the table.
\* append_index_entries adds to the tree as it is.
InsertAndCommit(key) ==
  /\ MayRun
  /\ stored' = Append(stored, key) /\ rows' = Append(rows, key)
  /\ tree' = Insert(tree, key, Len(rows) + 1)
  /\ UNCHANGED <<image, job, filled, sorted>>

\* Replay removes the first equal row of the file, wherever the statement found it.
DeleteAndCommit(key) ==
  /\ MayRun /\ key \in ToSet(rows)
  /\ rows' = SelectSeq(rows, LAMBDA k : k # key)
  /\ stored' = SelectSeq(stored, LAMBDA k : k # key)
  /\ tree' = Rebuilt(rows')
  /\ sorted' = FALSE
  /\ UNCHANGED <<image, job, filled>>

\* SELECT ... ORDER BY an expression that is no column: select sorts Table.rows itself,
\* without the lock.  The list is empty meanwhile, so that a rebuild may end early.
OrderBy ==
  /\ job # "closed" /\ Statement
  /\ rows' = SortSeq(rows, <)
  /\ sorted' = (sorted \/ rows' # rows \/ job = "filling")
  /\ \/ UNCHANGED <<job, filled>>
     \/ job = "filling" /\ job' = "idle" /\ filled' = 0
  /\ UNCHANGED <<stored, tree, image>>

\* checkpoint writes the rows, then the image; the save may raise between the two.
Checkpoint ==
  /\ MayRun
  /\ stored' = rows
  /\ image' = Saved(tree)
  /\ UNCHANGED <<rows, tree, job, filled, sorted>>

Next ==
  \/ \E order \in Orders : Found(order)
  \/ \E key \in Keys : BulkInsert(key) \/ InsertAndCommit(key) \/ DeleteAndCommit(key)
  \/ Open \/ Close \/ Damage \/ Fill \/ OrderBy \/ Checkpoint

-----------------------------------------------------------------------------
(* Properties.                                                             *)

Places(key) == {i \in DOMAIN rows : rows[i] = key}

\* The shape of a tree: every node within its limit, children one more than keys,
\* keys in order, parents and children agree.
WellFormed(t) ==
  \A n \in DOMAIN t.node :
    LET node == t.node[n]
    IN  /\ Len(node.keys) <= MaxKeys
        /\ \A i, j \in DOMAIN node.keys : i < j => node.keys[i] < node.keys[j]
        /\ ~node.leaf => /\ Len(node.children) = Len(node.keys) + 1
                         /\ \A c \in ToSet(node.children) : t.node[c].parent = n
        /\ node.leaf => Len(node.values) = Len(node.keys)

TypeOK ==
  /\ job \in {"closed", "idle", "filling"} /\ filled \in 0 .. Len(rows)
  /\ rows \in Seq(Nat) /\ stored \in Seq(Nat) /\ sorted \in BOOLEAN

Sorted(S) ==
  [i \in 1 .. Cardinality(S) |-> CHOOSE k \in S : Cardinality({l \in S : l < k}) = i - 1]

\* What rows say of the keys from start to below end, in order.
Scan(start, end) ==
  LET keys == Sorted({k \in ToSet(rows) : start <= k /\ k < end})
  IN  [i \in DOMAIN keys |-> [key |-> keys[i], positions |-> Places(keys[i])]]

\* Through leaf and internal splits, rebuilds, repairs of a damaged image and
\* reopenings, a lookup, a range and the whole iteration of the tree say what the rows
\* say, and a tree being filled says nothing that is not so; unless a SELECT sorted
\* the rows (btree.py:89-126, engine.py:508-533).
IndexAnswers ==
  job # "closed" /\ ~sorted =>
    LET all == ToSet(rows) \union Keys
    IN  /\ WellFormed(tree) /\ Readable
        /\ IF job = "filling" THEN \A k \in all : Find(tree, k) \subseteq Places(k)
           ELSE /\ \A k \in all : Find(tree, k) = Places(k)
                /\ Items(tree) = Scan(0, Max(all \union {0}) + 1)
                /\ \A s, e \in Keys : InRange(tree, s, e) = Scan(s, e)

\* "B+ tree-backed equality lookup is rebuilt deterministically from table state"
\* (README.md:132): an indexed equality SELECT returns what a scan returns.
LookupMatchesScan ==
  job = "idle" => \A k \in Keys : {rows[i] : i \in Find(tree, k)} \subseteq {k}

\* "The page log remains the durable source of truth while table indexes provide
\* bounded lookup acceleration" and can be rebuilt (btree.py:3-6): what the page log
\* holds can be opened again, however often one key occurs in it.
OpensAgain == job = "closed" => Fits(Items(Rebuilt(stored)))

=============================================================================
