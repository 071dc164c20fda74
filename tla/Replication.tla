---------------------------- MODULE Replication ----------------------------
(***************************************************************************)
(* Log shipping (replication.py): a follower's engine reads the leader's   *)
(* page file by path, page by page, while the leader commits, undoes,      *)
(* compacts and loses power.  What an operation does to rows is Tables'    *)
(* subject: here operations create a table or add a row to it, enough to   *)
(* tell a record that is missed, doubled or applied to the wrong tables.   *)
(***************************************************************************)
EXTENDS Naturals, FiniteSets, Sequences, SequencesExt

CONSTANTS
  Names,       \* of tables
  Items,       \* rows
  Absent,      \* what a name stands for that is no table
  MaxVersion   \* bound: no write of the leader starts at this version

ASSUME NamesAssumption == IsFiniteSet(Names)
ASSUME AbsentAssumption == Absent \notin Seq(Items)
ASSUME VersionAssumption == MaxVersion \in Nat

VARIABLES
  version, db,   \* of the leader's engine
  pages,         \* its pages.dat: one record a page
  unsynced,      \* the last page is written, not fsynced, and not yet published
  past,          \* history: the tables at each version
  undone,        \* history: the versions that an undo made, which have no record
  follower,      \* the follower's engine, and what it may have missed
  disk,          \* its state.json
  stream         \* the iterator of stream_wal

leaderVars == <<version, db, pages, unsynced, past, undone>>
followerVars == <<follower, disk, stream>>
vars == <<leaderVars, followerVars>>

NoTables == [n \in Names |-> Absent]
NoStream == [open |-> FALSE, next |-> 1, count |-> 0, replaced |-> FALSE]

Fresh == [version |-> 0, db |-> NoTables, missed |-> {}]

Init ==
  /\ version = 0 /\ db = NoTables /\ pages = << >> /\ unsynced = FALSE
  /\ past = << >> /\ undone = {}
  /\ follower = Fresh /\ disk = Fresh /\ stream = NoStream

\* The leader's tables at a version.
At(v) == IF v = 0 THEN NoTables ELSE past[v]

-----------------------------------------------------------------------------
(* Records.                                                                *)

CreateOp(n) == [op |-> "create_table", table |-> n, rows |-> << >>]
InsertOp(n, rows) == [op |-> "insert_many", table |-> n, rows |-> rows]

Raises(tables, op) == op.op = "insert_many" /\ tables[op.table] = Absent

ApplyOperation(tables, op) ==
  [tables EXCEPT ![op.table] = IF op.op = "create_table" THEN << >> ELSE @ \o op.rows]

\* One operation; none runs any more after one that raised.
After(ran, op) ==
  IF ran.raised \/ Raises(ran.db, op)
    THEN [ran EXCEPT !.raised = TRUE]
    ELSE [ran EXCEPT !.db = ApplyOperation(@, op)]

\* _apply_operations: what ran before a raise has changed the tables.
ApplyOperations(tables, ops) ==
  LET ran[i \in 0 .. Len(ops)] ==
        IF i = 0 THEN [db |-> tables, raised |-> FALSE] ELSE After(ran[i - 1], ops[i])
  IN  ran[Len(ops)]

-----------------------------------------------------------------------------
(* The leader.                                                             *)

MayWrite == ~unsynced /\ version < MaxVersion

\* append_records: the page is in the file, for every reader of the path to see.
Write(ops) ==
  /\ MayWrite
  /\ pages' = Append(pages, [version |-> version + 1, ops |-> ops, compaction |-> FALSE])
  /\ unsynced' = TRUE
  /\ UNCHANGED <<version, db, past, undone, followerVars>>

\* Tables a name does not stand for yet are created, rows go to the others.
Transaction(n, item) ==
  IF db[n] = Absent
    THEN Write(<<CreateOp(n)>>) \/ Write(<<CreateOp(n), InsertOp(n, <<item>>)>>)
    ELSE Write(<<InsertOp(n, <<item>>)>>)

Become(tables) ==
  /\ db' = tables
  /\ version' = version + 1
  /\ past' = Append(past, tables)

\* The fsync returned: _commit publishes.
Publish ==
  /\ unsynced
  /\ Become(ApplyOperations(db, Last(pages).ops).db)
  /\ unsynced' = FALSE
  /\ UNCHANGED <<pages, undone, followerVars>>

\* A follower that has read a page which the leader has no more.
Ahead(engine) ==
  [engine EXCEPT !.missed = @ \union IF engine.version > version THEN {"lost"} ELSE {}]

\* The power fails before the fsync: the page is in the file after the restart, or
\* it is not, and then its version will be given to another write.
PowerLoss ==
  /\ unsynced
  /\ pages' = Front(pages) /\ unsynced' = FALSE
  /\ follower' = Ahead(follower) /\ disk' = Ahead(disk)
  /\ UNCHANGED <<version, db, past, undone, stream>>

\* Mutant of Undo: the version stays what it was.
UndoInPlace ==
  /\ MayWrite /\ version > 0
  /\ db' = At(version - 1)
  /\ undone' = undone \union {version + 1}
  /\ UNCHANGED <<version, past, pages, unsynced, followerVars>>

\* restore_state, for an undo and for a redo: the tables before the last write.
Undo ==
  /\ MayWrite /\ version > 0
  /\ Become(At(version - 1))
  /\ undone' = undone \union {version + 1}
  /\ UNCHANGED <<pages, unsynced, followerVars>>

\* The operations that make one table, and the ones that make all of them.
TableOps(n) ==
  IF db[n] = Absent THEN << >>
  ELSE IF db[n] = << >> THEN <<CreateOp(n)>> ELSE <<CreateOp(n), InsertOp(n, db[n])>>

CompactOps ==
  LET order == SetToSeq(Names)
      ops[i \in 0 .. Len(order)] ==
        IF i = 0 THEN << >> ELSE ops[i - 1] \o TableOps(order[i])
  IN  ops[Len(order)]

\* Engine.compact: the file is replaced, under a reader that is in the middle of it.
Compact ==
  /\ ~unsynced
  /\ pages' = IF CompactOps = << >> THEN << >>
              ELSE <<[version |-> version, ops |-> CompactOps, compaction |-> TRUE]>>
  /\ stream' = [stream EXCEPT !.replaced = stream.open /\ stream.next > 1]
  /\ UNCHANGED <<version, db, unsynced, past, undone, follower, disk>>

-----------------------------------------------------------------------------
(* The follower.                                                           *)

\* PageStore(pages): the number of pages is fixed here.
OpenStream ==
  /\ ~stream.open
  /\ stream' = [NoStream EXCEPT !.open = TRUE, !.count = Len(pages)]
  /\ UNCHANGED <<leaderVars, follower, disk>>

More == stream.open /\ stream.next <= stream.count

Advanced == [stream EXCEPT !.next = @ + 1]

\* Mutant of AlreadyApplied: the follower's own version is applied again.
AlreadyOlder(record) == record.version < follower.version

AlreadyApplied(record) == record.version <= follower.version

\* Mutant of SkipRecord: the iterator stays where it is.
SkipRecordInPlace ==
  /\ More /\ stream.next <= Len(pages) /\ AlreadyApplied(pages[stream.next])
  /\ UNCHANGED vars

SkipRecord ==
  /\ More /\ stream.next <= Len(pages) /\ AlreadyApplied(pages[stream.next])
  /\ stream' = Advanced
  /\ UNCHANGED <<leaderVars, follower, disk>>

\* What a follower that applies this record no longer knows of: an undo has no record,
\* and the middle of a replaced file is not what follows its beginning.  A record of
\* a compaction holds every table, and only a table that vanished remains.
Missed(record) ==
  IF record.compaction
    THEN IF \E n \in Names : follower.db[n] # Absent /\ At(record.version)[n] = Absent
           THEN {"vanished"} ELSE {}
    ELSE follower.missed
         \union (IF \E v \in undone : follower.version < v /\ v < record.version
                   THEN {"undo"} ELSE {})
         \union (IF stream.replaced THEN {"replaced"} ELSE {})

ApplyRecord ==
  /\ More /\ stream.next <= Len(pages)
  /\ LET record == pages[stream.next]
     IN  /\ ~AlreadyApplied(record)
         /\ ~ApplyOperations(follower.db, record.ops).raised
         /\ follower' = [version |-> record.version,
                         db |-> ApplyOperations(follower.db, record.ops).db,
                         missed |-> Missed(record)]
  /\ stream' = Advanced
  /\ UNCHANGED <<leaderVars, disk>>

\* KeyError: the tables are changed as far as it came, the version is not.
ApplyRaises ==
  /\ More /\ stream.next <= Len(pages)
  /\ LET record == pages[stream.next]
     IN  /\ ~AlreadyApplied(record)
         /\ ApplyOperations(follower.db, record.ops).raised
         /\ follower' = [follower EXCEPT !.db = ApplyOperations(@, record.ops).db,
                                         !.missed = @ \union {"raised"}]
  /\ stream' = NoStream
  /\ UNCHANGED <<leaderVars, disk>>

\* "truncated page": the file has become shorter.
ReadRaises ==
  /\ More /\ stream.next > Len(pages)
  /\ stream' = NoStream
  /\ UNCHANGED <<leaderVars, follower, disk>>

\* The one checkpoint at the end of apply_records.
Finish ==
  /\ stream.open /\ ~More
  /\ disk' = follower
  /\ stream' = NoStream
  /\ UNCHANGED <<leaderVars, follower>>

FollowerRestart ==
  /\ follower' = disk
  /\ stream' = NoStream
  /\ UNCHANGED <<leaderVars, disk>>

Leader ==
  \/ \E n \in Names, item \in Items : Transaction(n, item)
  \/ Publish \/ PowerLoss \/ Undo \/ Compact

Follow == OpenStream \/ SkipRecord \/ ApplyRecord \/ ApplyRaises \/ ReadRaises \/ Finish

Next == Leader \/ Follow \/ FollowerRestart

Spec == Init /\ [][Next]_vars

\* Whoever runs the follower calls apply_records again and again.
FairSpec == Spec /\ WF_vars(Follow)

-----------------------------------------------------------------------------
(* Properties.                                                             *)

Databases == [Names -> Seq(Items) \union {Absent}]

Engines ==
  [version : Nat, db : Databases,
   missed : SUBSET {"vanished", "undo", "replaced", "raised", "lost"}]

Operations == [op : {"create_table", "insert_many"}, table : Names, rows : Seq(Items)]

Records == [version : Nat, ops : Seq(Operations), compaction : BOOLEAN]

Streams == [open : BOOLEAN, next : Nat \ {0}, count : Nat, replaced : BOOLEAN]

\* Every variable has its type, and the history has a database for each version.
TypeOK ==
  /\ version \in Nat /\ db \in Databases
  /\ past \in Seq(Databases) /\ Len(past) = version
  /\ unsynced \in BOOLEAN /\ undone \subseteq 1 .. version
  /\ pages \in Seq(Records)
  /\ follower \in Engines /\ disk \in Engines
  /\ stream \in Streams

\* What the leader holds, or is about to hold, at a version.
Held(v) == IF v = version + 1 THEN ApplyOperations(db, Last(pages).ops).db ELSE At(v)

\* "a follower can apply them in version order" (README.md:134): in memory and on
\* disk, a follower holds what the leader held at the follower's version, whatever
\* the commits, restarts, reopened streams and compactions between streams; except
\* when it read across an undo, across the replacement of the file it was reading,
\* or a page that the leader lost.  The record of a compaction makes up for all of
\* these, but for tables that the leader no longer has.
FollowerFaithful ==
  \A engine \in {follower, disk} :
    engine.missed \subseteq {"vanished"} =>
      /\ engine.version <= version + (IF unsynced THEN 1 ELSE 0)
      /\ \A n \in Names :
           Held(engine.version)[n] # Absent \/ engine.missed = {}
             => engine.db[n] = Held(engine.version)[n]

\* Once the leader rests and the follower does not restart, it comes to hold every
\* record of the log, unless it missed something and a record raises for ever.
CatchesUp ==
  <>[][Follow]_vars =>
    <>[](follower.missed # {} \/ \A i \in DOMAIN pages : pages[i].version <= follower.version)

=============================================================================
