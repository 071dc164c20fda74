-------------------------- MODULE Replication_proofs --------------------------
(***************************************************************************)
(* Proofs about Replication, for any tables and rows and any number of     *)
(* versions: a follower that missed nothing holds what its leader held.    *)
(***************************************************************************)
EXTENDS Replication, SequenceTheorems, FiniteSetTheorems, WellFoundedInduction, TLAPS

-----------------------------------------------------------------------------
(* What a record does.                                                     *)

\* A set that contains 0, and each number up to n whose predecessor it contains.
LEMMA UpTo ==
  ASSUME NEW n \in Nat, NEW S, 0 \in S, \A i \in 1 .. n : i - 1 \in S => i \in S
  PROVE  \A i \in 0 .. n : i \in S
<1> DEFINE T == {i \in 0 .. n : i \notin S}
           R == OpToRel(<, Nat)
<1> SUFFICES ASSUME T # {} PROVE FALSE
  OBVIOUS
<1>1. IsWellFoundedOn(R, Nat)
  BY NatLessThanWellFounded
<1>0. T \in SUBSET Nat
  OBVIOUS
<1>2. PICK m \in T : \A y \in T : ~(<<y, m>> \in R)
  <2> HIDE DEF R, T
  <2> QED
    BY <1>0, <1>1, WFMin
<1>3. m \in 0 .. n /\ m \notin S /\ m # 0
  OBVIOUS
<1>4. m \in 1 .. n /\ m - 1 \in 0 .. n /\ m - 1 < m
  BY <1>3
<1>5. m - 1 \notin T
  <2> HIDE DEF T
  <2> QED
    BY <1>0, <1>2, <1>4 DEF OpToRel
<1> QED
  BY <1>3, <1>4, <1>5

\* The recursive function of ApplyOperations, over the first n operations.
RanTo(f, n, tables, ops) ==
  f = [i \in 0 .. n |->
        IF i = 0 THEN [db |-> tables, raised |-> FALSE] ELSE After(f[i - 1], ops[i])]

\* What it is at each of them.
Ran(f, tables, ops) ==
  /\ f[0] = [db |-> tables, raised |-> FALSE]
  /\ \A i \in 1 .. Len(ops) : f[i] = After(f[i - 1], ops[i])

\* It exists, by induction on the number of operations.
LEMMA RanExists ==
  ASSUME NEW tables, NEW ops, NEW n \in Nat
  PROVE  \E f : RanTo(f, n, tables, ops)
<1> DEFINE S == {k \in 0 .. n : \E f : RanTo(f, k, tables, ops)}
<1>1. 0 \in S
  <2>1. RanTo([i \in 0 .. 0 |-> [db |-> tables, raised |-> FALSE]], 0, tables, ops)
    BY DEF RanTo
  <2> QED
    BY <2>1
<1>2. ASSUME NEW k \in 1 .. n, k - 1 \in S
      PROVE  k \in S
  <2>1. k \in Nat \ {0} /\ k - 1 \in Nat
    OBVIOUS
  <2>2. PICK f : RanTo(f, k - 1, tables, ops)
    BY <1>2
  <2>3. \A i \in 0 .. k - 1 : f[i] =
          IF i = 0 THEN [db |-> tables, raised |-> FALSE] ELSE After(f[i - 1], ops[i])
    BY <2>2 DEF RanTo
  <2> DEFINE g == [i \in 0 .. k |-> IF i < k THEN f[i] ELSE After(f[k - 1], ops[k])]
  <2>4. /\ g = [i \in 0 .. k |-> g[i]] /\ g[k] = After(f[k - 1], ops[k])
        /\ \A i \in 0 .. k - 1 : g[i] = f[i]
    BY <2>1
  <2> HIDE DEF g
  <2>5. ASSUME NEW i \in 0 .. k
        PROVE  g[i] = IF i = 0 THEN [db |-> tables, raised |-> FALSE]
                      ELSE After(g[i - 1], ops[i])
    <3>1. CASE i = k
      <4>1. k - 1 \in 0 .. k - 1 /\ k # 0
        BY <2>1
      <4> QED
        BY <2>4, <3>1, <4>1
    <3>2. CASE i # k
      <4>1. i \in 0 .. k - 1 /\ (i # 0 => i - 1 \in 0 .. k - 1)
        BY <2>1, <3>2
      <4> QED
        BY <2>3, <2>4, <4>1
    <3> QED
      BY <3>1, <3>2
  <2>6. RanTo(g, k, tables, ops)
    BY <2>4, <2>5 DEF RanTo
  <2> QED
    BY <2>6
<1>3. n \in 0 .. n
  OBVIOUS
<1>4. \A k \in 0 .. n : k \in S
  <2> HIDE DEF S
  <2> QED
    BY <1>1, <1>2, UpTo
<1> QED
  BY <1>3, <1>4

\* So ApplyOperations is where such a function ends.
LEMMA ApplyRan ==
  ASSUME NEW tables, NEW ops, Len(ops) \in Nat
  PROVE  \E f : Ran(f, tables, ops) /\ ApplyOperations(tables, ops) = f[Len(ops)]
<1> DEFINE f == CHOOSE f : RanTo(f, Len(ops), tables, ops)
<1>1. RanTo(f, Len(ops), tables, ops)
  BY RanExists
<1>2. ApplyOperations(tables, ops) = f[Len(ops)]
  BY DEF ApplyOperations, RanTo
<1> HIDE DEF f
<1>3. \A i \in 0 .. Len(ops) : f[i] =
        IF i = 0 THEN [db |-> tables, raised |-> FALSE] ELSE After(f[i - 1], ops[i])
  BY <1>1 DEF RanTo
<1>4. Ran(f, tables, ops)
  <2>1. 0 \in 0 .. Len(ops)
    OBVIOUS
  <2>2. \A i \in 1 .. Len(ops) : i \in 0 .. Len(ops) /\ i # 0
    OBVIOUS
  <2> QED
    BY <1>3, <2>1, <2>2 DEF Ran
<1> QED
  BY <1>2, <1>4

\* There is only one.
LEMMA RanUnique ==
  ASSUME NEW tables, NEW ops, Len(ops) \in Nat, NEW f, Ran(f, tables, ops)
  PROVE  ApplyOperations(tables, ops) = f[Len(ops)]
<1>1. PICK g : Ran(g, tables, ops) /\ ApplyOperations(tables, ops) = g[Len(ops)]
  BY ApplyRan
<1> DEFINE S == {i \in 0 .. Len(ops) : f[i] = g[i]}
<1>2. 0 \in S
  BY <1>1 DEF Ran
<1>3. \A i \in 1 .. Len(ops) : i - 1 \in S => i \in S
  BY <1>1 DEF Ran
<1>4. \A i \in 0 .. Len(ops) : i \in S
  <2> HIDE DEF S
  <2> QED
    BY <1>2, <1>3, UpTo
<1>5. Len(ops) \in 0 .. Len(ops)
  OBVIOUS
<1> QED
  BY <1>1, <1>4, <1>5

\* No operation, no change.
LEMMA ApplyNone ==
  ASSUME NEW tables
  PROVE  ApplyOperations(tables, << >>) = [db |-> tables, raised |-> FALSE]
<1>1. PICK f : Ran(f, tables, << >>) /\ ApplyOperations(tables, << >>) = f[0]
  BY ApplyRan
<1> QED
  BY <1>1 DEF Ran

\* One operation more (engine.py:918-931).
LEMMA ApplyOneMore ==
  ASSUME NEW tables, NEW ops \in Seq(Operations), NEW op \in Operations
  PROVE  ApplyOperations(tables, Append(ops, op)) = After(ApplyOperations(tables, ops), op)
<1> DEFINE more == Append(ops, op)
<1>1. /\ Len(more) = Len(ops) + 1 /\ Len(ops) \in Nat /\ more[Len(ops) + 1] = op
      /\ \A i \in 1 .. Len(ops) : more[i] = ops[i]
  BY AppendProperties
<1> HIDE DEF more
<1>2. PICK f : Ran(f, tables, more) /\ ApplyOperations(tables, more) = f[Len(more)]
  BY <1>1, ApplyRan
<1>3. Ran(f, tables, ops)
  <2>1. \A i \in 1 .. Len(ops) : i \in 1 .. Len(more)
    BY <1>1
  <2> QED
    BY <1>1, <1>2, <2>1 DEF Ran
<1>4. ApplyOperations(tables, ops) = f[Len(ops)]
  BY <1>1, <1>3, RanUnique
<1>5. f[Len(ops) + 1] = After(f[Len(ops)], op)
  <2>1. Len(ops) + 1 \in 1 .. Len(more) /\ (Len(ops) + 1) - 1 = Len(ops)
    BY <1>1
  <2> QED
    BY <1>1, <1>2, <2>1 DEF Ran
<1> QED
  BY <1>1, <1>2, <1>4, <1>5 DEF more

\* Tables and rows keep their types.
Runs == [db : Databases, raised : BOOLEAN]

LEMMA AfterType ==
  ASSUME AbsentAssumption, NEW ran \in Runs, NEW op \in Operations
  PROVE  After(ran, op) \in Runs
<1>1. CASE ran.raised \/ Raises(ran.db, op)
  BY <1>1 DEF After, Runs
<1>2. CASE ~ran.raised /\ ~Raises(ran.db, op)
  <2>1. After(ran, op) = [ran EXCEPT !.db = ApplyOperation(ran.db, op)]
    BY <1>2 DEF After
  <2>2. ran.db \in Databases /\ op.table \in Names /\ op.rows \in Seq(Items)
        /\ op.op \in {"create_table", "insert_many"}
    BY DEF Runs, Operations
  <2>3. ran.db[op.table] \in Seq(Items) \/ op.op = "create_table"
    BY <1>2, <2>2 DEF Raises, Databases
  <2>4. (IF op.op = "create_table" THEN << >> ELSE ran.db[op.table] \o op.rows) \in Seq(Items)
    <3>1. CASE op.op = "create_table"
      BY <3>1
    <3>2. CASE op.op # "create_table"
      <4>1. ran.db[op.table] \o op.rows \in Seq(Items)
        BY <2>2, <2>3, <3>2
      <4> QED
        BY <3>2, <4>1
    <3> QED
      BY <3>1, <3>2
  <2>5. ApplyOperation(ran.db, op) \in Databases
    BY <2>2, <2>4 DEF ApplyOperation, Databases
  <2> QED
    BY <2>1, <2>5 DEF Runs
<1> QED
  BY <1>1, <1>2

LEMMA ApplyType ==
  ASSUME AbsentAssumption, NEW tables \in Databases, NEW ops \in Seq(Operations)
  PROVE  ApplyOperations(tables, ops) \in Runs
<1>0. Len(ops) \in Nat /\ \A i \in 1 .. Len(ops) : ops[i] \in Operations
  OBVIOUS
<1>1. PICK f : Ran(f, tables, ops) /\ ApplyOperations(tables, ops) = f[Len(ops)]
  BY <1>0, ApplyRan
<1> DEFINE S == {i \in 0 .. Len(ops) : f[i] \in Runs}
<1>2. 0 \in S
  <2>1. [db |-> tables, raised |-> FALSE] \in Runs
    BY DEF Runs
  <2> QED
    BY <1>0, <1>1, <2>1 DEF Ran
<1>3. \A i \in 1 .. Len(ops) : i - 1 \in S => i \in S
  BY <1>0, <1>1, AfterType DEF Ran
<1>4. \A i \in 0 .. Len(ops) : i \in S
  <2> HIDE DEF S
  <2> QED
    BY <1>0, <1>2, <1>3, UpTo
<1> QED
  BY <1>0, <1>1, <1>4

\* Tables that agree but for names that the others do not have.
Agree(tables, others) == \A n \in Names : others[n] # Absent => tables[n] = others[n]

\* What one operation does to such tables.
LEMMA AfterAgrees ==
  ASSUME NEW a \in Runs, NEW b \in Runs, NEW op \in Operations,
         Agree(a.db, b.db), ~a.raised, ~After(b, op).raised
  PROVE  ~b.raised /\ ~After(a, op).raised /\ Agree(After(a, op).db, After(b, op).db)
<1>1. ~b.raised /\ ~Raises(b.db, op)
  BY DEF After, Runs
<1>2. ~Raises(a.db, op)
  BY <1>1 DEF Raises, Agree, Operations
<1>3. After(a, op).db = ApplyOperation(a.db, op) /\ After(b, op).db = ApplyOperation(b.db, op)
  BY <1>1, <1>2 DEF After, Runs
<1>4. ~After(a, op).raised
  BY <1>2 DEF After, Runs
<1>5. op.table \in Names /\ a.db \in Databases /\ b.db \in Databases
  BY DEF Operations, Runs
<1>6. ASSUME NEW n \in Names, ApplyOperation(b.db, op)[n] # Absent
      PROVE  ApplyOperation(a.db, op)[n] = ApplyOperation(b.db, op)[n]
  <2>1. CASE n # op.table
    BY <1>5, <1>6, <2>1 DEF ApplyOperation, Agree, Databases
  <2>2. CASE n = op.table /\ op.op = "create_table"
    BY <1>5, <2>2 DEF ApplyOperation, Databases
  <2>3. CASE n = op.table /\ op.op # "create_table"
    <3>1. a.db[n] = b.db[n]
      BY <1>1, <2>3 DEF Raises, Agree, Operations
    <3> QED
      BY <1>5, <2>3, <3>1 DEF ApplyOperation, Databases
  <2> QED
    BY <2>1, <2>2, <2>3
<1> QED
  BY <1>1, <1>3, <1>4, <1>6 DEF Agree

\* A record that does not raise on the leader's tables does to tables that agree with
\* them what it does there.
LEMMA ApplyAgrees ==
  ASSUME AbsentAssumption, NEW tables \in Databases, NEW others \in Databases,
         NEW ops \in Seq(Operations), Agree(tables, others),
         ~ApplyOperations(others, ops).raised
  PROVE  Agree(ApplyOperations(tables, ops).db, ApplyOperations(others, ops).db)
<1>0. Len(ops) \in Nat /\ \A i \in 1 .. Len(ops) : ops[i] \in Operations
  OBVIOUS
<1>1. PICK f : Ran(f, tables, ops) /\ ApplyOperations(tables, ops) = f[Len(ops)]
  BY <1>0, ApplyRan
<1>2. PICK g : Ran(g, others, ops) /\ ApplyOperations(others, ops) = g[Len(ops)]
  BY <1>0, ApplyRan
<1> DEFINE S == {i \in 0 .. Len(ops) :
                   /\ f[i] \in Runs /\ g[i] \in Runs
                   /\ ~g[i].raised => ~f[i].raised /\ Agree(f[i].db, g[i].db)}
<1>3. 0 \in S
  <2>1. f[0] = [db |-> tables, raised |-> FALSE] /\ g[0] = [db |-> others, raised |-> FALSE]
    BY <1>1, <1>2 DEF Ran
  <2>2. f[0] \in Runs /\ g[0] \in Runs
    BY <2>1 DEF Runs
  <2>3. ~f[0].raised /\ f[0].db = tables /\ g[0].db = others
    BY <2>1
  <2> QED
    BY <1>0, <2>2, <2>3
<1>4. ASSUME NEW i \in 1 .. Len(ops), i - 1 \in S
      PROVE  i \in S
  <2>1. /\ f[i] = After(f[i - 1], ops[i]) /\ g[i] = After(g[i - 1], ops[i])
        /\ ops[i] \in Operations /\ i \in 0 .. Len(ops)
        /\ f[i - 1] \in Runs /\ g[i - 1] \in Runs
        /\ ~g[i - 1].raised => ~f[i - 1].raised /\ Agree(f[i - 1].db, g[i - 1].db)
    BY <1>0, <1>1, <1>2, <1>4 DEF Ran
  <2>2. f[i] \in Runs /\ g[i] \in Runs
    BY <2>1, AfterType
  <2>3. ASSUME ~g[i].raised
        PROVE  ~f[i].raised /\ Agree(f[i].db, g[i].db)
    <3>1. ~g[i - 1].raised
      BY <2>1, <2>3 DEF After, Runs
    <3> QED
      BY <2>1, <2>3, <3>1, AfterAgrees
  <2> QED
    BY <2>1, <2>2, <2>3
<1>5. \A i \in 0 .. Len(ops) : i \in S
  <2> HIDE DEF S
  <2> QED
    BY <1>0, <1>3, <1>4, UpTo
<1>6. Len(ops) \in S
  <2> HIDE DEF S
  <2> QED
    BY <1>0, <1>5
<1> QED
  BY <1>1, <1>2, <1>6

-----------------------------------------------------------------------------
(* The record of a compaction.                                             *)

\* The order of the tables goes through all of them.
LEMMA OrderIs ==
  ASSUME NamesAssumption
  PROVE  /\ SetToSeq(Names) \in Seq(Names)
         /\ \A n \in Names : \E i \in 1 .. Len(SetToSeq(Names)) : SetToSeq(Names)[i] = n
<1> DEFINE order == SetToSeq(Names)
<1>1. Cardinality(Names) \in Nat /\ ExistsBijection(1 .. Cardinality(Names), Names)
  BY FS_CardinalityType DEF NamesAssumption
<1>2. PICK b \in Bijection(1 .. Cardinality(Names), Names) : TRUE
  BY <1>1 DEF ExistsBijection
<1>3. b \in [1 .. Cardinality(Names) -> Names] /\ IsInjective(b)
  BY <1>2 DEF Bijection, Injection, IsInjective
<1>4. order \in [1 .. Cardinality(Names) -> Names] /\ IsInjective(order)
  BY <1>3 DEF SetToSeq
<1> HIDE DEF order
<1>5. order \in Surjection(1 .. Cardinality(Names), Names)
  <2>1. order \in Injection(1 .. Cardinality(Names), Names)
    BY <1>4 DEF Injection, IsInjective
  <2>2. IsFiniteSet(1 .. Cardinality(Names)) /\ Cardinality(1 .. Cardinality(Names)) = Cardinality(Names)
    BY <1>1, FS_Interval
  <2> QED
    BY <2>1, <2>2, FS_Injection DEF NamesAssumption
<1>6. order \in Seq(Names) /\ Len(order) = Cardinality(Names)
  BY <1>1, <1>4
<1>7. \A n \in Names : \E i \in 1 .. Len(order) : order[i] = n
  BY <1>5, <1>6 DEF Surjection
<1> QED
  BY <1>6, <1>7 DEF order

\* The recursive function of CompactOps, over the first n tables of the order.
OpsTo(f, n, order) ==
  f = [i \in 0 .. n |-> IF i = 0 THEN << >> ELSE f[i - 1] \o TableOps(order[i])]

LEMMA OpsExists ==
  ASSUME NEW order, NEW n \in Nat
  PROVE  \E f : OpsTo(f, n, order)
<1> DEFINE S == {k \in 0 .. n : \E f : OpsTo(f, k, order)}
<1>1. 0 \in S
  <2>1. OpsTo([i \in 0 .. 0 |-> << >>], 0, order)
    BY DEF OpsTo
  <2> QED
    BY <2>1
<1>2. ASSUME NEW k \in 1 .. n, k - 1 \in S
      PROVE  k \in S
  <2>1. k \in Nat \ {0} /\ k - 1 \in Nat
    OBVIOUS
  <2>2. PICK f : OpsTo(f, k - 1, order)
    BY <1>2
  <2>3. \A i \in 0 .. k - 1 : f[i] =
          IF i = 0 THEN << >> ELSE f[i - 1] \o TableOps(order[i])
    BY <2>2 DEF OpsTo
  <2> DEFINE g == [i \in 0 .. k |-> IF i < k THEN f[i] ELSE f[k - 1] \o TableOps(order[k])]
  <2>4. /\ g = [i \in 0 .. k |-> g[i]] /\ g[k] = f[k - 1] \o TableOps(order[k])
        /\ \A i \in 0 .. k - 1 : g[i] = f[i]
    <3>1. g = [i \in 0 .. k |-> g[i]]
      OBVIOUS
    <3>2. g[k] = f[k - 1] \o TableOps(order[k])
      <4>1. k \in 0 .. k /\ ~(k < k)
        BY <2>1
      <4> QED
        BY <4>1
    <3>3. \A i \in 0 .. k - 1 : g[i] = f[i]
      BY <2>1
    <3> HIDE DEF g
    <3> QED
      BY <3>1, <3>2, <3>3
  <2> HIDE DEF g
  <2>5. ASSUME NEW i \in 0 .. k
        PROVE  g[i] = IF i = 0 THEN << >> ELSE g[i - 1] \o TableOps(order[i])
    <3>1. CASE i = k
      <4>1. k - 1 \in 0 .. k - 1 /\ k # 0
        BY <2>1
      <4> QED
        BY <2>4, <3>1, <4>1
    <3>2. CASE i # k
      <4>1. i \in 0 .. k - 1 /\ (i # 0 => i - 1 \in 0 .. k - 1)
        BY <2>1, <3>2
      <4> QED
        BY <2>3, <2>4, <4>1
    <3> QED
      BY <3>1, <3>2
  <2>6. OpsTo(g, k, order)
    BY <2>4, <2>5 DEF OpsTo
  <2> QED
    BY <2>6
<1>3. n \in 0 .. n
  OBVIOUS
<1>4. \A k \in 0 .. n : k \in S
  <2> HIDE DEF S
  <2> QED
    BY <1>1, <1>2, UpTo
<1> QED
  BY <1>3, <1>4

\* Tables with those of the leader that it has.
Merged(tables, leaders) ==
  [n \in Names |-> IF leaders[n] = Absent THEN tables[n] ELSE leaders[n]]

\* The operations that make one table, on whatever tables.
LEMMA TableOpsRun ==
  ASSUME AbsentAssumption, db \in Databases, NEW n \in Names, NEW ops \in Seq(Operations),
         NEW tables \in Databases, NEW from \in Databases,
         ApplyOperations(tables, ops) = [db |-> from, raised |-> FALSE]
  PROVE  /\ ops \o TableOps(n) \in Seq(Operations)
         /\ ApplyOperations(tables, ops \o TableOps(n)) =
              [db |-> [from EXCEPT ![n] = IF db[n] = Absent THEN @ ELSE db[n]], raised |-> FALSE]
<1>1. CASE db[n] = Absent
  <2>1. TableOps(n) = << >>
    BY <1>1 DEF TableOps
  <2>2. ops \o TableOps(n) = ops
    BY <2>1
  <2>3. [from EXCEPT ![n] = IF db[n] = Absent THEN @ ELSE db[n]] = from
    BY <1>1 DEF Databases
  <2> QED
    BY <2>2, <2>3
<1>2. CASE db[n] # Absent
  <2>1. db[n] \in Seq(Items)
    BY <1>2 DEF Databases
  <2> DEFINE make == CreateOp(n)
             fill == InsertOp(n, db[n])
             empty == [from EXCEPT ![n] = << >>]
             filled == [from EXCEPT ![n] = db[n]]
  <2>2. make \in Operations /\ fill \in Operations
    BY <2>1 DEF CreateOp, InsertOp, Operations
  <2>3. After([db |-> from, raised |-> FALSE], make) = [db |-> empty, raised |-> FALSE]
    BY DEF After, Raises, ApplyOperation, CreateOp
  <2>4. After([db |-> empty, raised |-> FALSE], fill) = [db |-> filled, raised |-> FALSE]
    <3>1. << >> # Absent /\ << >> \o db[n] = db[n]
      <4>1. << >> # Absent
        BY EmptySeq DEF AbsentAssumption
      <4>2. << >> \o db[n] = db[n]
        BY <2>1, ConcatEmptySeq
      <4> QED
        BY <4>1, <4>2
    <3>2. empty[n] = << >>
      BY DEF Databases
    <3>3. ~Raises(empty, fill)
      BY <3>1, <3>2 DEF Raises, InsertOp
    <3>4. ApplyOperation(empty, fill) = filled
      BY <3>1, <3>2 DEF ApplyOperation, InsertOp, Databases
    <3> HIDE DEF empty, fill, filled
    <3> QED
      BY <3>3, <3>4 DEF After
  <2> HIDE DEF make, fill
  <2>5. /\ Append(ops, make) \in Seq(Operations)
        /\ ApplyOperations(tables, Append(ops, make)) = [db |-> empty, raised |-> FALSE]
    <3> HIDE DEF empty
    <3>1. Append(ops, make) \in Seq(Operations)
      BY <2>2
    <3>2. ApplyOperations(tables, Append(ops, make)) = After(ApplyOperations(tables, ops), make)
      BY <2>2, ApplyOneMore
    <3> QED
      BY <2>3, <3>1, <3>2
  <2>6. CASE db[n] = << >>
    <3>1. TableOps(n) = <<make>>
      BY <1>2, <2>6 DEF TableOps, make
    <3>2. ops \o TableOps(n) = Append(ops, make)
      BY <2>2, <3>1
    <3>3. empty = [from EXCEPT ![n] = IF db[n] = Absent THEN @ ELSE db[n]]
      BY <1>2, <2>6
    <3> HIDE DEF empty
    <3> QED
      BY <2>5, <3>2, <3>3
  <2>7. CASE db[n] # << >>
    <3>1. TableOps(n) = <<make, fill>>
      BY <1>2, <2>7 DEF TableOps, make, fill
    <3>2. ops \o TableOps(n) = Append(Append(ops, make), fill)
      BY <2>2, <3>1
    <3>3. filled = [from EXCEPT ![n] = IF db[n] = Absent THEN @ ELSE db[n]]
      BY <1>2
    <3> HIDE DEF filled, empty
    <3>4. /\ Append(Append(ops, make), fill) \in Seq(Operations)
          /\ ApplyOperations(tables, Append(Append(ops, make), fill))
               = [db |-> filled, raised |-> FALSE]
      <4>1. PICK one \in Seq(Operations) : one = Append(ops, make)
        BY <2>5
      <4>2. Append(one, fill) \in Seq(Operations)
        BY <2>2
      <4>3. ApplyOperations(tables, Append(one, fill)) = After(ApplyOperations(tables, one), fill)
        BY <2>2, ApplyOneMore
      <4> QED
        BY <2>4, <2>5, <4>1, <4>2, <4>3
    <3> QED
      BY <3>2, <3>3, <3>4
  <2> QED
    BY <2>6, <2>7
<1> QED
  BY <1>1, <1>2

\* A compaction writes operations that make the leader's tables of whatever tables, and
\* none only if it has no table (engine.py:1052-1070).
LEMMA CompactRuns ==
  ASSUME NamesAssumption, AbsentAssumption, db \in Databases
  PROVE  /\ CompactOps \in Seq(Operations)
         /\ \A tables \in Databases :
              ApplyOperations(tables, CompactOps) = [db |-> Merged(tables, db), raised |-> FALSE]
<1> DEFINE order == SetToSeq(Names)
           ops == CHOOSE f : OpsTo(f, Len(order), order)
<1>0. /\ order \in Seq(Names) /\ Len(order) \in Nat
      /\ \A i \in 1 .. Len(order) : order[i] \in Names
      /\ \A n \in Names : \E i \in 1 .. Len(order) : order[i] = n
  <2>1. /\ order \in Seq(Names)
        /\ \A n \in Names : \E i \in 1 .. Len(order) : order[i] = n
    BY OrderIs
  <2> HIDE DEF order
  <2> QED
    BY <2>1
<1>1. CompactOps = ops[Len(order)]
  BY DEF CompactOps, OpsTo
<1> HIDE DEF order
<1>2. OpsTo(ops, Len(order), order)
  BY <1>0, OpsExists
<1> HIDE DEF ops
<1>3. \A i \in 0 .. Len(order) : ops[i] =
        IF i = 0 THEN << >> ELSE ops[i - 1] \o TableOps(order[i])
  BY <1>2 DEF OpsTo
<1> DEFINE Made(i, tables) ==
             [n \in Names |-> IF db[n] # Absent /\ \E j \in 1 .. i : order[j] = n
                                THEN db[n] ELSE tables[n]]
           S == {i \in 0 .. Len(order) :
                   /\ ops[i] \in Seq(Operations)
                   /\ \A tables \in Databases :
                        ApplyOperations(tables, ops[i]) =
                          [db |-> Made(i, tables), raised |-> FALSE]}
<1>4. 0 \in S
  <2>1. ops[0] = << >>
    BY <1>0, <1>3
  <2>2. ASSUME NEW tables \in Databases
        PROVE  Made(0, tables) = tables
    BY DEF Databases
  <2> HIDE DEF Made
  <2>3. ASSUME NEW tables \in Databases
        PROVE  ApplyOperations(tables, ops[0]) = [db |-> Made(0, tables), raised |-> FALSE]
    BY <2>1, <2>2, ApplyNone
  <2>4. ops[0] \in Seq(Operations)
    BY <2>1, EmptySeq
  <2> QED
    BY <1>0, <2>3, <2>4
<1>5. ASSUME NEW i \in 1 .. Len(order), i - 1 \in S
      PROVE  i \in S
  <2>1. i \in 0 .. Len(order) /\ i # 0 /\ order[i] \in Names /\ i \in Nat
    BY <1>0
  <2>2. ops[i] = ops[i - 1] \o TableOps(order[i]) /\ ops[i - 1] \in Seq(Operations)
    BY <1>3, <1>5, <2>1
  <2>3. ASSUME NEW tables \in Databases
        PROVE  /\ ops[i] \in Seq(Operations)
               /\ ApplyOperations(tables, ops[i]) = [db |-> Made(i, tables), raised |-> FALSE]
    <3>1. ApplyOperations(tables, ops[i - 1]) = [db |-> Made(i - 1, tables), raised |-> FALSE]
      BY <1>5
    <3>2. Made(i - 1, tables) \in Databases
      BY DEF Databases
    <3>3. [Made(i - 1, tables) EXCEPT ![order[i]] =
             IF db[order[i]] = Absent THEN @ ELSE db[order[i]]] = Made(i, tables)
      <4>1. \A j \in 1 .. i : j = i \/ j \in 1 .. i - 1
        BY <2>1
      <4>2. i \in 1 .. i /\ \A j \in 1 .. i - 1 : j \in 1 .. i
        BY <2>1
      <4> QED
        BY <2>1, <4>1, <4>2
    <3> HIDE DEF Made
    <3>4. PICK from \in Databases, n \in Names, before \in Seq(Operations) :
            from = Made(i - 1, tables) /\ n = order[i] /\ before = ops[i - 1]
      BY <2>1, <2>2, <3>2
    <3>5. ApplyOperations(tables, before) = [db |-> from, raised |-> FALSE]
      BY <3>1, <3>4
    <3>6. /\ before \o TableOps(n) \in Seq(Operations)
          /\ ApplyOperations(tables, before \o TableOps(n)) =
               [db |-> [from EXCEPT ![n] = IF db[n] = Absent THEN @ ELSE db[n]],
                raised |-> FALSE]
      BY <3>5, TableOpsRun
    <3> QED
      BY <2>2, <3>3, <3>4, <3>6
  <2>4. \E tables : tables \in Databases
    OBVIOUS
  <2> HIDE DEF Made
  <2> QED
    BY <2>1, <2>3, <2>4
<1>6. Len(order) \in S
  <2> HIDE DEF S
  <2>1. \A i \in 0 .. Len(order) : i \in S
    BY <1>0, <1>4, <1>5, UpTo
  <2> QED
    BY <1>0, <2>1
<1>7. ASSUME NEW tables \in Databases
      PROVE  Made(Len(order), tables) = Merged(tables, db)
  BY <1>0 DEF Merged
<1> HIDE DEF Made
<1> QED
  BY <1>1, <1>6, <1>7

\* There is something to write if there is a table.
LEMMA CompactNone ==
  ASSUME NamesAssumption, AbsentAssumption, db \in Databases, CompactOps = << >>
  PROVE  \A n \in Names : db[n] = Absent
<1>1. NoTables \in Databases
  BY DEF NoTables, Databases
<1>2. [db |-> NoTables, raised |-> FALSE] = [db |-> Merged(NoTables, db), raised |-> FALSE]
  BY <1>1, CompactRuns, ApplyNone
<1>3. NoTables = Merged(NoTables, db)
  BY <1>2
<1> QED
  BY <1>3 DEF NoTables, Merged

-----------------------------------------------------------------------------
(* The invariant.                                                          *)

\* The last version that a reader of the file may find.
Top == version + (IF unsynced THEN 1 ELSE 0)

Some(tables) == \E n \in Names : tables[n] # Absent

\* Versions ascend along the file, and only its first record is of a compaction.
OrderInv ==
  /\ \A i \in DOMAIN pages : pages[i].version <= Top
  /\ \A i, j \in DOMAIN pages : i < j => pages[i].version < pages[j].version
  /\ \A i \in DOMAIN pages : pages[i].compaction => i = 1
  /\ unsynced => pages # << >> /\ Last(pages).version = version + 1

\* A record makes the tables of its version of the ones before, and that of a
\* compaction makes them of any.
GoodRecord(record) ==
  IF record.compaction
    THEN /\ record.version <= version
         /\ \A tables \in Databases :
              ApplyOperations(tables, record.ops).db = Merged(tables, At(record.version))
    ELSE /\ record.version > 0
         /\ ApplyOperations(At(record.version - 1), record.ops)
              = [db |-> Held(record.version), raised |-> FALSE]
         /\ Some(Held(record.version))

RecordInv == \A i \in DOMAIN pages : GoodRecord(pages[i])

\* The leader's tables are those of its version, and vanish by an undo only.
CurrentInv == db = At(version) /\ (Some(db) \/ version = 0 \/ version \in undone)

\* A version without a record was undone, or is older than a compaction; if that wrote
\* no record, its version was undone.
CompleteInv ==
  \A v \in 1 .. Top :
    \/ v \in undone
    \/ \E i \in DOMAIN pages : pages[i].version = v
    \/ \E i \in DOMAIN pages : pages[i].compaction /\ v < pages[i].version
    \/ \E u \in undone : v < u /\ \A i \in DOMAIN pages : u < pages[i].version

LogInv == OrderInv /\ RecordInv /\ CurrentInv /\ CompleteInv

\* A follower that missed nothing is past the records that its stream has read.
StreamInv ==
  stream.open /\ ~stream.replaced /\ follower.missed \subseteq {"vanished"} =>
    /\ stream.next <= Len(pages) + 1
    /\ \A i \in 1 .. stream.next - 1 : pages[i].version <= follower.version

\* FollowerFaithful, of one engine.
Faithful(engine) ==
  engine.missed \subseteq {"vanished"} =>
    /\ engine.version <= Top
    /\ \A n \in Names :
         Held(engine.version)[n] # Absent \/ engine.missed = {}
           => engine.db[n] = Held(engine.version)[n]

EnginesInv == Faithful(follower) /\ Faithful(disk)

ReplicationInv == TypeOK /\ LogInv /\ StreamInv /\ EnginesInv

-----------------------------------------------------------------------------
(* What a step leaves alone.                                               *)

\* The past stays as it is: versions that a reader may have seen keep their tables.
PastKept ==
  /\ version' \in Nat /\ version <= version'
  /\ Top' \in Nat /\ Top <= Top'
  /\ \A v \in 0 .. version : At(v)' = At(v)
  /\ \A v \in 0 .. Top : Held(v)' = Held(v)

LEMMA TopIs ==
  ASSUME TypeOK
  PROVE  Top \in Nat /\ version <= Top /\ (unsynced => Top = version + 1)
         /\ (~unsynced => Top = version)
BY DEF TypeOK, Top

LEMMA RecordKept ==
  ASSUME TypeOK, NEW record \in Records, record.version <= Top, GoodRecord(record), PastKept
  PROVE  GoodRecord(record)'
<1>1. record.version \in Nat /\ Top \in Nat /\ version \in Nat /\ Top <= version + 1
  BY TopIs DEF TypeOK, Records
<1>2. CASE record.compaction
  <2>1. At(record.version)' = At(record.version) /\ version <= version' /\ record.version <= version
    BY <1>1, <1>2 DEF GoodRecord, PastKept
  <2>2. version' \in Nat
    BY DEF PastKept
  <2>3. record.version <= version'
    BY <1>1, <2>1, <2>2
  <2> QED
    BY <1>2, <2>1, <2>3 DEF GoodRecord
<1>3. CASE ~record.compaction
  <2>1. record.version > 0
    BY <1>3 DEF GoodRecord
  <2>2. At(record.version - 1)' = At(record.version - 1)
    BY <1>1, <2>1 DEF PastKept
  <2>3. Held(record.version)' = Held(record.version)
    BY <1>1 DEF PastKept
  <2> QED
    BY <1>3, <2>2, <2>3 DEF GoodRecord
<1> QED
  BY <1>2, <1>3

LEMMA FaithfulKept ==
  ASSUME TypeOK, NEW engine \in Engines, Faithful(engine), PastKept
  PROVE  Faithful(engine)'
<1>1. engine.version \in Nat /\ Top \in Nat
  BY TopIs DEF TypeOK, Engines
<1> SUFFICES ASSUME engine.missed \subseteq {"vanished"}
             PROVE  Faithful(engine)'
  BY DEF Faithful
<1>2. engine.version <= Top
  BY DEF Faithful
<1>3. engine.version <= Top'
  <2>1. Top' \in Nat /\ Top <= Top'
    BY DEF PastKept
  <2> QED
    BY <1>1, <1>2, <2>1
<1>4. Held(engine.version)' = Held(engine.version)
  BY <1>1, <1>2 DEF PastKept
<1> QED
  BY <1>3, <1>4 DEF Faithful

LEMMA PagesAre ==
  ASSUME TypeOK
  PROVE  /\ pages \in Seq(Records) /\ Len(pages) \in Nat /\ DOMAIN pages = 1 .. Len(pages)
         /\ \A i \in 1 .. Len(pages) : pages[i] \in Records /\ pages[i].version \in Nat
         /\ Last(pages) = pages[Len(pages)]
         /\ (pages # << >> => Len(pages) \in 1 .. Len(pages))
<1>1. pages \in Seq(Records)
  BY DEF TypeOK
<1>2. Len(pages) \in Nat /\ DOMAIN pages = 1 .. Len(pages)
  BY <1>1
<1>3. \A i \in 1 .. Len(pages) : pages[i] \in Records
  BY <1>1
<1>4. pages # << >> => Len(pages) # 0
  BY <1>1, EmptySeq
<1> QED
  BY <1>1, <1>2, <1>3, <1>4 DEF Last, Records

LEMMA AtType ==
  ASSUME TypeOK, NEW v \in 0 .. version
  PROVE  At(v) \in Databases
<1>1. NoTables \in Databases
  BY DEF NoTables, Databases
<1>2. CASE v = 0
  BY <1>1, <1>2 DEF At
<1>3. CASE v # 0
  <2>1. v \in 1 .. Len(past) /\ past \in Seq(Databases)
    BY <1>3 DEF TypeOK
  <2>2. past[v] \in Databases
    BY <2>1
  <2> QED
    BY <1>3, <2>2 DEF At
<1> QED
  BY <1>2, <1>3

LEMMA InitReplication ==
  ASSUME Init
  PROVE  ReplicationInv
<1>1. NoTables \in Databases
  BY DEF NoTables, Databases
<1>2. Fresh \in Engines
  BY <1>1 DEF Fresh, Engines
<1>3. TypeOK
  <2>1. << >> \in Seq(Databases) /\ Len(<< >>) = 0 /\ << >> \in Seq(Records)
    BY EmptySeq
  <2>2. stream \in Streams
    BY DEF Init, NoStream, Streams
  <2>3. undone \subseteq 1 .. version /\ version \in Nat /\ unsynced \in BOOLEAN
    BY DEF Init
  <2>4. /\ past \in Seq(Databases) /\ Len(past) = version /\ pages \in Seq(Records)
        /\ db \in Databases /\ follower \in Engines /\ disk \in Engines
    BY <1>1, <1>2, <2>1 DEF Init
  <2> QED
    BY <2>2, <2>3, <2>4 DEF TypeOK
<1>4. Top = 0 /\ DOMAIN pages = {} /\ At(0) = NoTables
  BY DEF Init, Top, At
<1>5. LogInv
  BY <1>4 DEF Init, LogInv, OrderInv, RecordInv, CurrentInv, CompleteInv
<1>6. StreamInv
  BY DEF Init, StreamInv, NoStream
<1>7. Held(0) = NoTables
  BY <1>4 DEF Init, Held
<1>8. Faithful(follower) /\ Faithful(disk)
  BY <1>4, <1>7 DEF Init, Faithful, Fresh
<1> QED
  BY <1>3, <1>5, <1>6, <1>8 DEF ReplicationInv, EnginesInv

\* Where the pages only grow, and the past is kept, the rest of the invariant is.
LEMMA StreamKept ==
  ASSUME StreamInv, TypeOK, UNCHANGED <<follower, stream>>,
         Len(pages') \in Nat, Len(pages) <= Len(pages'),
         \A i \in 1 .. Len(pages) : pages'[i] = pages[i]
  PROVE  StreamInv'
<1>1. Len(pages) \in Nat /\ stream.next \in Nat \ {0}
  BY PagesAre DEF TypeOK, Streams
<1>2. stream.next <= Len(pages) + 1 => stream.next <= Len(pages') + 1
  BY <1>1
<1>3. stream.next <= Len(pages) + 1 => 1 .. stream.next - 1 \subseteq 1 .. Len(pages)
  BY <1>1
<1> QED
  BY <1>2, <1>3 DEF StreamInv

LEMMA EnginesKept ==
  ASSUME TypeOK, EnginesInv, PastKept, UNCHANGED <<follower, disk>>
  PROVE  EnginesInv'
<1>1. follower \in Engines /\ disk \in Engines
  BY DEF TypeOK
<1>2. ASSUME NEW engine \in Engines, Faithful(engine)
      PROVE  Faithful(engine)'
  BY <1>2, FaithfulKept
<1>3. Faithful(follower) => Faithful(follower)'
  <2>1. PICK engine \in Engines : engine = follower
    BY <1>1
  <2> QED
    BY <1>2, <2>1 DEF Faithful
<1>4. Faithful(disk) => Faithful(disk)'
  <2>1. PICK engine \in Engines : engine = disk
    BY <1>1
  <2> QED
    BY <1>2, <2>1 DEF Faithful
<1> QED
  BY <1>3, <1>4 DEF EnginesInv

-----------------------------------------------------------------------------
(* The leader's steps.                                                     *)

\* One entry more.
Longer(r, q, e) ==
  /\ Len(r) = Len(q) + 1 /\ r[Len(q) + 1] = e
  /\ \A i \in 1 .. Len(q) : r[i] = q[i]

LEMMA AppendFacts ==
  ASSUME NEW S, NEW q \in Seq(S), NEW e \in S
  PROVE  Append(q, e) \in Seq(S) /\ Longer(Append(q, e), q, e)
<1> DEFINE r == Append(q, e)
<1>1. /\ r \in Seq(S) /\ Len(r) = Len(q) + 1
      /\ \A i \in 1 .. Len(q) : r[i] = q[i]
      /\ r[Len(q) + 1] = e
  BY AppendProperties
<1> HIDE DEF r
<1>2. r \in Seq(S) /\ Longer(r, q, e)
  BY <1>1 DEF Longer
<1> QED
  BY <1>2 DEF r

LEMMA WriteStep ==
  ASSUME AbsentAssumption, ReplicationInv, NEW ops \in Seq(Operations), Write(ops),
         ~ApplyOperations(db, ops).raised, Some(ApplyOperations(db, ops).db)
  PROVE  ReplicationInv'
<1> DEFINE record == [version |-> version + 1, ops |-> ops, compaction |-> FALSE]
<1>1. TypeOK /\ LogInv /\ StreamInv /\ EnginesInv
  BY DEF ReplicationInv
<1>2. /\ version \in Nat /\ Len(pages) \in Nat /\ DOMAIN pages = 1 .. Len(pages)
      /\ pages \in Seq(Records) /\ \A i \in 1 .. Len(pages) : pages[i] \in Records
  BY <1>1, PagesAre DEF TypeOK
<1>3. /\ pages' = Append(pages, record) /\ unsynced' = TRUE /\ unsynced = FALSE
      /\ version' = version /\ db' = db /\ past' = past /\ undone' = undone
      /\ follower' = follower /\ disk' = disk /\ stream' = stream
  BY <1>1 DEF Write, MayWrite, followerVars, TypeOK
<1>4. record \in Records
  BY <1>2 DEF Records
<1>5. pages' \in Seq(Records) /\ Longer(pages', pages, record)
  BY <1>2, <1>3, <1>4, AppendFacts
<1>6. record.version = version + 1 /\ record.ops = ops /\ record.compaction = FALSE
  OBVIOUS
<1> HIDE DEF record
<1>7. /\ Len(pages') = Len(pages) + 1 /\ DOMAIN pages' = 1 .. Len(pages) + 1
      /\ pages'[Len(pages) + 1] = record /\ Last(pages') = record
      /\ \A i \in 1 .. Len(pages) : pages'[i] = pages[i]
  BY <1>2, <1>5 DEF Longer, Last
<1>8. Top = version /\ Top' = version + 1
  BY <1>2, <1>3 DEF Top
<1>9. TypeOK'
  BY <1>1, <1>3, <1>5 DEF TypeOK
<1>10. PastKept
  <2>1. \A v \in 0 .. version : Held(v)' = Held(v)
    BY <1>2, <1>3 DEF Held, At
  <2>2. \A v \in 0 .. version : At(v)' = At(v)
    BY <1>3 DEF At
  <2> QED
    BY <1>2, <1>3, <1>8, <2>1, <2>2 DEF PastKept
<1>11. OrderInv'
  <2>1. /\ \A i \in 1 .. Len(pages) : pages[i].version <= version /\ pages[i].version \in Nat
        /\ \A i, j \in 1 .. Len(pages) : i < j => pages[i].version < pages[j].version
        /\ \A i \in 1 .. Len(pages) : pages[i].compaction => i = 1
    BY <1>1, <1>2, <1>8 DEF LogInv, OrderInv, Records
  <2>2. \A i \in 1 .. Len(pages) + 1 : i = Len(pages) + 1 \/ i \in 1 .. Len(pages)
    BY <1>2
  <2>3. ASSUME NEW i \in 1 .. Len(pages) + 1
        PROVE  pages'[i].version <= version + 1
    <3>1. CASE i = Len(pages) + 1
      BY <1>2, <1>6, <1>7, <3>1
    <3>2. CASE i \in 1 .. Len(pages)
      <4>1. pages'[i].version \in Nat /\ pages'[i].version <= version
        BY <1>7, <2>1, <3>2
      <4> QED
        BY <1>2, <4>1
    <3> QED
      BY <2>2, <3>1, <3>2
  <2>4. ASSUME NEW i \in 1 .. Len(pages) + 1, NEW j \in 1 .. Len(pages) + 1, i < j
        PROVE  pages'[i].version < pages'[j].version
    <3>1. i \in 1 .. Len(pages)
      BY <1>2, <2>4
    <3>2. CASE j = Len(pages) + 1
      <4>1. pages'[i].version \in Nat /\ pages'[i].version <= version
        BY <1>7, <2>1, <3>1
      <4>2. pages'[j].version = version + 1
        BY <1>6, <1>7, <3>2
      <4> QED
        BY <1>2, <4>1, <4>2
    <3>3. CASE j \in 1 .. Len(pages)
      BY <1>7, <2>1, <2>4, <3>1, <3>3
    <3> QED
      BY <2>2, <3>2, <3>3
  <2>5. \A i \in 1 .. Len(pages) + 1 : pages'[i].compaction => i = 1
    BY <1>6, <1>7, <2>1, <2>2
  <2>6. pages' # << >>
    BY <1>2, <1>7
  <2> QED
    BY <1>3, <1>6, <1>7, <1>8, <2>3, <2>4, <2>5, <2>6 DEF OrderInv
<1>12. RecordInv'
  <2>1. ASSUME NEW i \in 1 .. Len(pages)
        PROVE  GoodRecord(pages[i])'
    <3>1. GoodRecord(pages[i]) /\ pages[i].version <= Top
      BY <1>1, <1>2 DEF LogInv, RecordInv, OrderInv
    <3>2. PICK old \in Records : old = pages[i]
      BY <1>2
    <3>3. GoodRecord(old)'
      BY <1>1, <1>10, <3>1, <3>2, RecordKept
    <3>4. pages'[i] = old
      BY <1>7, <3>2
    <3> QED
      BY <3>3, <3>4 DEF GoodRecord
  <2>2. PICK new \in Records : new = record
    BY <1>4
  <2>3. GoodRecord(new)'
    <3>1. Held(new.version)' = ApplyOperations(db, ops).db
      BY <1>3, <1>6, <1>7, <2>2 DEF Held
    <3>2. At(new.version - 1)' = db
      <4>1. new.version - 1 = version
        BY <1>2, <1>6, <2>2
      <4>2. db = IF version = 0 THEN NoTables ELSE past[version]
        BY <1>1 DEF At, LogInv, CurrentInv
      <4> QED
        BY <1>3, <4>1, <4>2 DEF At
    <3>3. new.version > 0 /\ ~new.compaction /\ new.ops = ops
      BY <1>2, <1>6, <2>2
    <3>4. ApplyOperations(db, ops) = [db |-> ApplyOperations(db, ops).db, raised |-> FALSE]
      <4>1. ApplyOperations(db, ops) \in Runs
        BY <1>1, ApplyType DEF TypeOK
      <4> QED
        BY <4>1 DEF Runs
    <3> QED
      BY <3>1, <3>2, <3>3, <3>4 DEF GoodRecord, Some
  <2>4. \A i \in 1 .. Len(pages) + 1 : i = Len(pages) + 1 \/ i \in 1 .. Len(pages)
    BY <1>2
  <2>5. ASSUME NEW i \in 1 .. Len(pages) + 1, i = Len(pages) + 1
        PROVE  GoodRecord(pages[i])'
    <3>1. pages'[i] = new
      BY <1>7, <2>2, <2>5
    <3> QED
      BY <2>3, <3>1 DEF GoodRecord
  <2>6. \A i \in 1 .. Len(pages) + 1 : GoodRecord(pages[i])'
    BY <2>1, <2>4, <2>5
  <2> QED
    BY <1>7, <2>6 DEF RecordInv
<1>13. CurrentInv'
  BY <1>1, <1>3 DEF LogInv, CurrentInv, At, Some
<1>14. CompleteInv'
  <2>1. ASSUME NEW v \in 1 .. version + 1
        PROVE  \/ v \in undone
               \/ \E i \in 1 .. Len(pages) + 1 : pages'[i].version = v
               \/ \E i \in 1 .. Len(pages) + 1 : pages'[i].compaction /\ v < pages'[i].version
               \/ \E u \in undone : v < u /\ \A i \in 1 .. Len(pages) + 1 : u < pages'[i].version
    <3>1. CASE v = version + 1
      <4>1. Len(pages) + 1 \in 1 .. Len(pages) + 1
        BY <1>2
      <4> QED
        BY <1>6, <1>7, <3>1, <4>1
    <3>2. CASE v # version + 1
      <4>1. v \in 1 .. Top
        BY <1>2, <1>8, <3>2
      <4>2. \/ v \in undone
            \/ \E i \in 1 .. Len(pages) : pages[i].version = v
            \/ \E i \in 1 .. Len(pages) : pages[i].compaction /\ v < pages[i].version
            \/ \E u \in undone : v < u /\ \A i \in 1 .. Len(pages) : u < pages[i].version
        BY <1>1, <1>2, <4>1 DEF LogInv, CompleteInv
      <4>3. \A i \in 1 .. Len(pages) : i \in 1 .. Len(pages) + 1
        BY <1>2
      <4>4. ASSUME NEW u \in undone, v < u, \A i \in 1 .. Len(pages) : u < pages[i].version
            PROVE  \A i \in 1 .. Len(pages) + 1 : u < pages'[i].version
        <5>1. u < version + 1
          BY <1>1, <1>2 DEF TypeOK
        <5>2. \A i \in 1 .. Len(pages) + 1 : i = Len(pages) + 1 \/ i \in 1 .. Len(pages)
          BY <1>2
        <5> QED
          BY <1>6, <1>7, <4>4, <5>1, <5>2
      <4> QED
        BY <1>7, <4>2, <4>3, <4>4
    <3> QED
      BY <3>1, <3>2
  <2>2. DOMAIN pages' = 1 .. Len(pages) + 1 /\ Top' = version + 1 /\ undone' = undone
    BY <1>3, <1>7, <1>8
  <2> QED
    BY <2>1, <2>2 DEF CompleteInv
<1>15. StreamInv'
  BY <1>1, <1>2, <1>3, <1>7, StreamKept
<1>16. EnginesInv'
  BY <1>1, <1>3, <1>10, EnginesKept
<1> QED
  BY <1>9, <1>11, <1>12, <1>13, <1>14, <1>15, <1>16 DEF ReplicationInv, LogInv

\* Transactions have one or two operations.
LEMMA ApplyOne ==
  ASSUME NEW tables, NEW op \in Operations
  PROVE  /\ <<op>> \in Seq(Operations)
         /\ ApplyOperations(tables, <<op>>) = After([db |-> tables, raised |-> FALSE], op)
<1>1. Append(<< >>, op) = <<op>> /\ << >> \in Seq(Operations)
  OBVIOUS
<1>2. <<op>> \in Seq(Operations)
  OBVIOUS
<1>3. ApplyOperations(tables, Append(<< >>, op)) = After(ApplyOperations(tables, << >>), op)
  BY <1>1, ApplyOneMore
<1>4. ApplyOperations(tables, << >>) = [db |-> tables, raised |-> FALSE]
  BY ApplyNone
<1>5. ApplyOperations(tables, <<op>>) = After(ApplyOperations(tables, << >>), op)
  BY <1>1, <1>3
<1> QED
  BY <1>2, <1>4, <1>5

LEMMA ApplyTwo ==
  ASSUME NEW tables, NEW op \in Operations, NEW next \in Operations
  PROVE  /\ <<op, next>> \in Seq(Operations)
         /\ ApplyOperations(tables, <<op, next>>) =
              After(After([db |-> tables, raised |-> FALSE], op), next)
<1>1. PICK one \in Seq(Operations) : one = <<op>>
  BY ApplyOne
<1>2. Append(one, next) = <<op, next>>
  <2> DEFINE both == Append(one, next)
  <2>1. Len(one) = 1 /\ one[1] = op
    BY <1>1
  <2>2. both \in Seq(Operations) /\ Len(both) = 2 /\ both[1] = op /\ both[2] = next
    <3>1. /\ both \in Seq(Operations) /\ Len(both) = Len(one) + 1
          /\ \A i \in 1 .. Len(one) : both[i] = one[i]
          /\ both[Len(one) + 1] = next
      BY AppendProperties
    <3> HIDE DEF both
    <3> QED
      BY <2>1, <3>1
  <2>3. <<op, next>> \in Seq(Operations) /\ Len(<<op, next>>) = 2
    OBVIOUS
  <2> HIDE DEF both
  <2>4. \A i \in 1 .. 2 : both[i] = <<op, next>>[i]
    BY <2>2
  <2>5. both = <<op, next>>
    BY <2>2, <2>3, <2>4, SeqEqual
  <2> QED
    BY <2>5 DEF both
<1>3. ApplyOperations(tables, Append(one, next)) = After(ApplyOperations(tables, one), next)
  BY ApplyOneMore
<1>4. ApplyOperations(tables, one) = After([db |-> tables, raised |-> FALSE], op)
  BY <1>1, ApplyOne
<1>5. <<op, next>> \in Seq(Operations)
  OBVIOUS
<1> QED
  BY <1>2, <1>3, <1>4, <1>5

\* The operations of a transaction run on the leader's tables, and leave a table.
LEMMA TransactionWrites ==
  ASSUME AbsentAssumption, TypeOK, NEW n \in Names, NEW item \in Items, Transaction(n, item)
  PROVE  \E ops \in Seq(Operations) :
           /\ Write(ops)
           /\ ~ApplyOperations(db, ops).raised
           /\ Some(ApplyOperations(db, ops).db)
<1> DEFINE make == CreateOp(n)
           fill == InsertOp(n, <<item>>)
           made == [db EXCEPT ![n] = << >>]
<1>1. make \in Operations /\ fill \in Operations
  BY DEF CreateOp, InsertOp, Operations
<1>2. db \in Databases /\ << >> # Absent
  BY EmptySeq DEF AbsentAssumption, TypeOK
<1>6. After([db |-> db, raised |-> FALSE], make) = [db |-> made, raised |-> FALSE]
  BY DEF After, Raises, ApplyOperation, CreateOp
<1>7. made \in Databases /\ made[n] = << >>
  <2>1. << >> \in Seq(Items)
    BY EmptySeq
  <2> QED
    BY <1>2, <2>1 DEF Databases
<1> HIDE DEF made
<1>8. ASSUME NEW tables \in Databases, tables[n] # Absent
      PROVE  /\ ~After([db |-> tables, raised |-> FALSE], fill).raised
             /\ Some(After([db |-> tables, raised |-> FALSE], fill).db)
  <2> DEFINE filled == [tables EXCEPT ![n] = tables[n] \o <<item>>]
  <2>1. tables[n] \in Seq(Items) /\ <<item>> \in Seq(Items)
    BY <1>8 DEF Databases
  <2>2. tables[n] \o <<item>> \in Seq(Items)
    BY <2>1
  <2>3. tables[n] \o <<item>> # Absent
    BY <2>2 DEF AbsentAssumption
  <2>4. ~Raises(tables, fill)
    BY <1>8 DEF Raises, InsertOp
  <2>5. ApplyOperation(tables, fill) = filled
    BY DEF ApplyOperation, InsertOp
  <2>6. Some(filled)
    BY <2>3 DEF Databases, Some
  <2> HIDE DEF fill, filled
  <2>7. After([db |-> tables, raised |-> FALSE], fill) = [db |-> filled, raised |-> FALSE]
    BY <2>4, <2>5 DEF After
  <2> QED
    BY <2>6, <2>7
<1> HIDE DEF make, fill
<1>3. /\ <<make>> \in Seq(Operations)
      /\ ApplyOperations(db, <<make>>) = [db |-> made, raised |-> FALSE]
  BY <1>1, <1>6, ApplyOne
<1>4. /\ <<fill>> \in Seq(Operations)
      /\ ApplyOperations(db, <<fill>>) = After([db |-> db, raised |-> FALSE], fill)
  BY <1>1, ApplyOne
<1>5. /\ <<make, fill>> \in Seq(Operations)
      /\ ApplyOperations(db, <<make, fill>>) = After([db |-> made, raised |-> FALSE], fill)
  <2>1. /\ <<make, fill>> \in Seq(Operations)
        /\ ApplyOperations(db, <<make, fill>>)
             = After(After([db |-> db, raised |-> FALSE], make), fill)
    BY <1>1, ApplyTwo
  <2> QED
    BY <1>6, <2>1
<1>9. Some(made)
  BY <1>2, <1>7 DEF Some
<1>10. /\ ~ApplyOperations(db, <<make, fill>>).raised
       /\ Some(ApplyOperations(db, <<make, fill>>).db)
  <2>1. made[n] # Absent
    BY <1>2, <1>7
  <2> QED
    BY <1>5, <1>7, <1>8, <2>1
<1>11. db[n] # Absent => /\ ~ApplyOperations(db, <<fill>>).raised
                         /\ Some(ApplyOperations(db, <<fill>>).db)
  BY <1>2, <1>4, <1>8
<1>12. \/ Write(<<make>>) \/ Write(<<make, fill>>)
       \/ db[n] # Absent /\ Write(<<fill>>)
  BY DEF Transaction, make, fill
<1>13. ASSUME Write(<<make>>)
       PROVE  \E ops \in Seq(Operations) : /\ Write(ops) /\ ~ApplyOperations(db, ops).raised
                                           /\ Some(ApplyOperations(db, ops).db)
  <2>1. ~ApplyOperations(db, <<make>>).raised /\ ApplyOperations(db, <<make>>).db = made
    BY <1>3
  <2> QED
    BY <1>3, <1>9, <1>13, <2>1
<1>14. ASSUME Write(<<make, fill>>)
       PROVE  \E ops \in Seq(Operations) : /\ Write(ops) /\ ~ApplyOperations(db, ops).raised
                                           /\ Some(ApplyOperations(db, ops).db)
  BY <1>5, <1>10, <1>14
<1>15. ASSUME db[n] # Absent, Write(<<fill>>)
       PROVE  \E ops \in Seq(Operations) : /\ Write(ops) /\ ~ApplyOperations(db, ops).raised
                                           /\ Some(ApplyOperations(db, ops).db)
  BY <1>4, <1>11, <1>15
<1> QED
  BY <1>12, <1>13, <1>14, <1>15

LEMMA RecordsKept ==
  ASSUME TypeOK, OrderInv, RecordInv, PastKept, pages' = pages
  PROVE  RecordInv'
<1>1. DOMAIN pages = 1 .. Len(pages) /\ \A i \in 1 .. Len(pages) : pages[i] \in Records
  BY PagesAre
<1>2. ASSUME NEW i \in DOMAIN pages
      PROVE  GoodRecord(pages[i])'
  <2>1. PICK old \in Records : old = pages[i]
    BY <1>1
  <2>2. GoodRecord(old)'
    BY <2>1, RecordKept DEF RecordInv, OrderInv
  <2> QED
    BY <2>1, <2>2 DEF GoodRecord
<1> QED
  BY <1>2 DEF RecordInv

\* A version more in the history.
LEMMA BecomeFacts ==
  ASSUME TypeOK, NEW tables \in Databases, Become(tables)
  PROVE  /\ version \in Nat /\ version' = version + 1 /\ db' = tables
         /\ past' \in Seq(Databases) /\ Len(past') = version' /\ past'[version + 1] = tables
         /\ \A v \in 0 .. version : At(v)' = At(v)
<1>1. past \in Seq(Databases) /\ Len(past) = version /\ version \in Nat
  BY DEF TypeOK
<1>2. past' = Append(past, tables) /\ version' = version + 1 /\ db' = tables
  BY DEF Become
<1>3. past' \in Seq(Databases) /\ Longer(past', past, tables)
  BY <1>1, <1>2, AppendFacts
<1>4. /\ Len(past') = version + 1 /\ past'[version + 1] = tables
      /\ \A v \in 1 .. version : past'[v] = past[v]
  BY <1>1, <1>3 DEF Longer
<1>5. \A v \in 0 .. version : At(v)' = At(v)
  BY <1>1, <1>4 DEF At
<1> QED
  BY <1>1, <1>2, <1>3, <1>4, <1>5

LEMMA PublishStep ==
  ASSUME AbsentAssumption, ReplicationInv, Publish
  PROVE  ReplicationInv'
<1>1. /\ TypeOK /\ StreamInv /\ EnginesInv
      /\ OrderInv /\ RecordInv /\ CurrentInv /\ CompleteInv
  BY DEF ReplicationInv, LogInv
<1>2. /\ version \in Nat /\ Len(pages) \in Nat /\ DOMAIN pages = 1 .. Len(pages)
      /\ \A i \in 1 .. Len(pages) : pages[i] \in Records
  BY <1>1, PagesAre DEF TypeOK
<1>3. /\ pages' = pages /\ unsynced' = FALSE /\ unsynced /\ undone' = undone
      /\ follower' = follower /\ disk' = disk /\ stream' = stream
  BY DEF Publish, followerVars
<1>4. PICK record \in Records : record = Last(pages) /\ GoodRecord(record)
  <2>1. Len(pages) \in 1 .. Len(pages) /\ Last(pages) = pages[Len(pages)]
    BY <1>1, <1>3, PagesAre DEF OrderInv
  <2> QED
    BY <1>1, <1>2, <2>1 DEF RecordInv
<1>5. record.version = version + 1 /\ record.ops \in Seq(Operations)
  BY <1>1, <1>3, <1>4 DEF OrderInv, Records
<1> DEFINE made == ApplyOperations(db, record.ops).db
<1>6. made \in Databases
  <2>1. ApplyOperations(db, record.ops) \in Runs
    BY <1>1, <1>5, ApplyType DEF TypeOK
  <2> QED
    BY <2>1 DEF Runs
<1>7. Held(version + 1) = made
  BY <1>4 DEF Held
<1>8. Some(made)
  <2>1. ~record.compaction
    BY <1>2, <1>4, <1>5 DEF GoodRecord
  <2> QED
    BY <1>4, <1>5, <1>7, <2>1 DEF GoodRecord
<1>9. Become(made)
  BY <1>4 DEF Publish
<1> HIDE DEF made
<1>10. PICK tables \in Databases : tables = made
  BY <1>6
<1>11. /\ version' = version + 1 /\ db' = tables
       /\ past' \in Seq(Databases) /\ Len(past') = version' /\ past'[version + 1] = tables
       /\ \A v \in 0 .. version : At(v)' = At(v)
  BY <1>1, <1>9, <1>10, BecomeFacts
<1>12. Top = version + 1 /\ Top' = version + 1
  BY <1>2, <1>3, <1>11 DEF Top
<1>13. TypeOK'
  <2>1. undone' \subseteq 1 .. version'
    BY <1>1, <1>3, <1>11 DEF TypeOK
  <2>2. version' \in Nat /\ unsynced' \in BOOLEAN
    <3>1. version + 1 \in Nat
      BY <1>2
    <3> QED
      BY <1>3, <1>11, <3>1
  <2>3. pages' \in Seq(Records) /\ follower' \in Engines /\ disk' \in Engines
    BY <1>1, <1>3 DEF TypeOK
  <2>4. stream' \in Streams
    BY <1>1, <1>3 DEF TypeOK
  <2> QED
    BY <1>11, <2>1, <2>2, <2>3, <2>4 DEF TypeOK
<1>14. PastKept
  <2>1. ASSUME NEW v \in 0 .. Top
        PROVE  Held(v)' = Held(v)
    <3>1. Held(v)' = At(v)'
      BY <1>2, <1>11, <1>12 DEF Held
    <3>2. CASE v = version + 1
      BY <1>2, <1>7, <1>10, <1>11, <3>1, <3>2 DEF At
    <3>3. CASE v # version + 1
      <4>1. v \in 0 .. version
        BY <1>2, <1>12, <3>3
      <4> QED
        BY <1>11, <3>1, <3>3, <4>1 DEF Held
    <3> QED
      BY <3>2, <3>3
  <2> QED
    BY <1>2, <1>11, <1>12, <2>1 DEF PastKept
<1>15. OrderInv'
  BY <1>1, <1>3, <1>12 DEF OrderInv
<1>16. RecordInv'
  BY <1>1, <1>3, <1>14, RecordsKept
<1>17. CurrentInv'
  BY <1>2, <1>8, <1>10, <1>11 DEF CurrentInv, At, Some
<1>18. CompleteInv'
  BY <1>1, <1>3, <1>12 DEF CompleteInv
<1>19. StreamInv'
  BY <1>1, <1>2, <1>3, StreamKept
<1>20. EnginesInv'
  BY <1>1, <1>3, <1>14, EnginesKept
<1> QED
  BY <1>13, <1>15, <1>16, <1>17, <1>18, <1>19, <1>20 DEF ReplicationInv, LogInv

LEMMA UndoStep ==
  ASSUME AbsentAssumption, ReplicationInv, Undo
  PROVE  ReplicationInv'
<1>1. /\ TypeOK /\ StreamInv /\ EnginesInv
      /\ OrderInv /\ RecordInv /\ CurrentInv /\ CompleteInv
  BY DEF ReplicationInv, LogInv
<1>2. /\ version \in Nat /\ version > 0 /\ Len(pages) \in Nat
      /\ DOMAIN pages = 1 .. Len(pages) /\ \A i \in 1 .. Len(pages) : pages[i] \in Records
  BY <1>1, PagesAre DEF TypeOK, Undo
<1>3. /\ pages' = pages /\ unsynced' = unsynced /\ unsynced = FALSE
      /\ undone' = undone \union {version + 1}
      /\ follower' = follower /\ disk' = disk /\ stream' = stream
  BY <1>1 DEF Undo, MayWrite, followerVars, TypeOK
<1>4. PICK tables \in Databases : tables = At(version - 1)
  <2>1. version - 1 \in 0 .. version
    BY <1>2
  <2> QED
    BY <1>1, <2>1, AtType
<1>5. Become(tables)
  BY <1>4 DEF Undo
<1>6. /\ version' = version + 1 /\ db' = tables
      /\ past' \in Seq(Databases) /\ Len(past') = version' /\ past'[version + 1] = tables
      /\ \A v \in 0 .. version : At(v)' = At(v)
  BY <1>1, <1>5, BecomeFacts
<1>7. Top = version /\ Top' = version + 1
  BY <1>2, <1>3, <1>6 DEF Top
<1>8. TypeOK'
  <2>1. undone' \subseteq 1 .. version'
    <3>1. undone \subseteq 1 .. version
      BY <1>1 DEF TypeOK
    <3> QED
      BY <1>2, <1>3, <1>6, <3>1
  <2> QED
    BY <1>1, <1>2, <1>3, <1>6, <2>1 DEF TypeOK
<1>9. PastKept
  <2>1. \A v \in 0 .. version : Held(v) = At(v) /\ Held(v)' = At(v)'
    BY <1>2, <1>6 DEF Held
  <2> QED
    BY <1>2, <1>6, <1>7, <2>1 DEF PastKept
<1>10. OrderInv'
  <2>1. \A i \in 1 .. Len(pages) : pages[i].version \in Nat
    BY <1>2 DEF Records
  <2> QED
    BY <1>1, <1>2, <1>3, <1>7, <2>1 DEF OrderInv
<1>11. RecordInv'
  BY <1>1, <1>3, <1>9, RecordsKept
<1>12. CurrentInv'
  BY <1>2, <1>3, <1>6 DEF CurrentInv, At
<1>13. CompleteInv'
  <2>1. \A v \in 1 .. version + 1 : v \in 1 .. version \/ v \in undone'
    BY <1>2, <1>3
  <2> QED
    BY <1>1, <1>3, <1>7, <2>1 DEF CompleteInv
<1>14. StreamInv'
  BY <1>1, <1>2, <1>3, StreamKept
<1>15. EnginesInv'
  BY <1>1, <1>3, <1>9, EnginesKept
<1> QED
  BY <1>8, <1>10, <1>11, <1>12, <1>13, <1>14, <1>15 DEF ReplicationInv, LogInv

LEMMA FrontFacts ==
  ASSUME NEW S, NEW q \in Seq(S), q # << >>
  PROVE  /\ Front(q) \in Seq(S) /\ Len(Front(q)) = Len(q) - 1
         /\ \A i \in 1 .. Len(q) - 1 : Front(q)[i] = q[i]
<1>1. Len(q) \in Nat /\ Len(q) # 0 /\ DOMAIN q = 1 .. Len(q)
  BY EmptySeq
<1>2. 1 \in 1 .. Len(q) + 1 /\ Len(q) - 1 \in 0 .. Len(q)
  BY <1>1
<1>3. /\ SubSeq(q, 1, Len(q) - 1) \in Seq(S)
      /\ Len(SubSeq(q, 1, Len(q) - 1)) = Len(q) - 1
      /\ \A i \in 1 .. Len(q) - 1 : SubSeq(q, 1, Len(q) - 1)[i] = q[i]
  BY <1>1, <1>2
<1> QED
  BY <1>3 DEF Front

LEMMA AheadFacts ==
  ASSUME NEW engine \in Engines
  PROVE  /\ Ahead(engine) \in Engines
         /\ Ahead(engine).version = engine.version /\ Ahead(engine).db = engine.db
         /\ Ahead(engine).missed \subseteq {"vanished"} =>
              engine.missed \subseteq {"vanished"} /\ ~(engine.version > version)
         /\ Ahead(engine).missed = {} => engine.missed = {}
<1> DEFINE more == engine.missed \union IF engine.version > version THEN {"lost"} ELSE {}
<1>1. Ahead(engine) = [engine EXCEPT !.missed = more]
  BY DEF Ahead
<1>2. /\ Ahead(engine).version = engine.version /\ Ahead(engine).db = engine.db
      /\ Ahead(engine).missed = more
  BY <1>1 DEF Engines
<1>3. more \in SUBSET {"vanished", "undo", "replaced", "raised", "lost"}
  BY DEF Engines
<1>4. Ahead(engine) \in Engines
  <2> HIDE DEF more
  <2> QED
    BY <1>1, <1>3 DEF Engines
<1>5. more \subseteq {"vanished"} =>
        engine.missed \subseteq {"vanished"} /\ ~(engine.version > version)
  OBVIOUS
<1>6. more = {} => engine.missed = {}
  OBVIOUS
<1> HIDE DEF more
<1> QED
  BY <1>2, <1>4, <1>5, <1>6

LEMMA PowerLossStep ==
  ASSUME ReplicationInv, PowerLoss
  PROVE  ReplicationInv'
<1>1. /\ TypeOK /\ StreamInv /\ EnginesInv
      /\ OrderInv /\ RecordInv /\ CurrentInv /\ CompleteInv
  BY DEF ReplicationInv, LogInv
<1>2. /\ version \in Nat /\ Len(pages) \in Nat /\ DOMAIN pages = 1 .. Len(pages)
      /\ pages \in Seq(Records) /\ \A i \in 1 .. Len(pages) : pages[i] \in Records
      /\ \A i \in 1 .. Len(pages) : pages[i].version \in Nat
      /\ follower \in Engines /\ disk \in Engines
      /\ stream.next \in Nat \ {0}
  BY <1>1, PagesAre DEF TypeOK, Streams
<1>3. /\ pages' = Front(pages) /\ unsynced' = FALSE /\ unsynced
      /\ version' = version /\ db' = db /\ past' = past /\ undone' = undone
      /\ follower' = Ahead(follower) /\ disk' = Ahead(disk) /\ stream' = stream
  BY DEF PowerLoss
<1>4. pages # << >> /\ pages[Len(pages)].version = version + 1
  BY <1>1, <1>3, PagesAre DEF OrderInv
<1>5. /\ pages' \in Seq(Records) /\ Len(pages') = Len(pages) - 1 /\ Len(pages) \in 1 .. Len(pages)
      /\ \A i \in 1 .. Len(pages) - 1 : pages'[i] = pages[i]
  BY <1>1, <1>2, <1>3, <1>4, FrontFacts, PagesAre
<1>6. /\ DOMAIN pages' = 1 .. Len(pages) - 1
      /\ \A i \in 1 .. Len(pages) - 1 : i \in 1 .. Len(pages)
      /\ \A i \in 1 .. Len(pages) : i \in 1 .. Len(pages) - 1 \/ i = Len(pages)
      /\ \A i \in 1 .. Len(pages) - 1 : i < Len(pages)
  <2>1. DOMAIN pages' = 1 .. Len(pages')
    BY <1>5
  <2>2. Len(pages) \in Nat
    BY <1>2
  <2>3. /\ \A i \in 1 .. Len(pages) - 1 : i \in 1 .. Len(pages) /\ i < Len(pages)
        /\ \A i \in 1 .. Len(pages) : i \in 1 .. Len(pages) - 1 \/ i = Len(pages)
    BY <2>2
  <2> QED
    BY <1>5, <2>1, <2>3
<1>7. Top = version + 1 /\ Top' = version
  BY <1>2, <1>3 DEF Top
<1>8. \A i \in 1 .. Len(pages) - 1 : pages[i].version <= version
  <2>1. \A i \in 1 .. Len(pages) - 1 : pages[i].version < pages[Len(pages)].version
    <3>1. \A i, j \in 1 .. Len(pages) : i < j => pages[i].version < pages[j].version
      BY <1>1, <1>2 DEF OrderInv
    <3> QED
      BY <1>5, <1>6, <3>1
  <2>2. ASSUME NEW a \in Nat, NEW b \in Nat, a < b, b = version + 1
        PROVE  a <= version
    BY <1>2, <2>2
  <2>3. ASSUME NEW i \in 1 .. Len(pages) - 1
        PROVE  pages[i].version <= version
    <3>1. pages[i].version \in Nat /\ pages[Len(pages)].version \in Nat
      BY <1>2, <1>5, <1>6
    <3> QED
      BY <1>4, <2>1, <2>2, <3>1
  <2> QED
    BY <2>3
<1>9. TypeOK'
  <2>1. follower' \in Engines /\ disk' \in Engines
    BY <1>2, <1>3, AheadFacts
  <2> QED
    BY <1>1, <1>3, <1>5, <2>1 DEF TypeOK
<1>10. \A v \in 0 .. version : Held(v)' = At(v) /\ Held(v) = At(v) /\ At(v)' = At(v)
  BY <1>2, <1>3 DEF Held, At
<1>11. OrderInv'
  <2>1. \A i, j \in 1 .. Len(pages) - 1 : i < j => pages'[i].version < pages'[j].version
    BY <1>1, <1>2, <1>5, <1>6 DEF OrderInv
  <2>2. \A i \in 1 .. Len(pages) - 1 : pages'[i].compaction => i = 1
    BY <1>1, <1>2, <1>5, <1>6 DEF OrderInv
  <2>3. \A i \in 1 .. Len(pages) - 1 : pages'[i].version <= version
    BY <1>5, <1>8
  <2> QED
    BY <1>3, <1>6, <1>7, <2>1, <2>2, <2>3 DEF OrderInv
<1>12. RecordInv'
  <2>1. ASSUME NEW i \in 1 .. Len(pages) - 1
        PROVE  GoodRecord(pages[i])'
    <3>1. PICK old \in Records : old = pages[i] /\ old = pages'[i]
      BY <1>2, <1>5, <1>6
    <3>2. GoodRecord(old) /\ old.version <= version /\ old.version \in Nat
      BY <1>1, <1>2, <1>6, <1>8, <3>1 DEF RecordInv
    <3>3. old.version \in 0 .. version /\ (old.version > 0 => old.version - 1 \in 0 .. version)
      BY <1>2, <3>2
    <3>4. Held(old.version)' = Held(old.version) /\ At(old.version)' = At(old.version)
      BY <1>10, <3>3
    <3>5. old.version > 0 => At(old.version - 1)' = At(old.version - 1)
      BY <1>10, <3>3
    <3>6. GoodRecord(old)'
      BY <1>3, <3>2, <3>4, <3>5 DEF GoodRecord
    <3> QED
      BY <3>1, <3>6 DEF GoodRecord
  <2> QED
    BY <1>6, <2>1 DEF RecordInv
<1>13. CurrentInv'
  BY <1>1, <1>3 DEF CurrentInv, At, Some
<1>14. CompleteInv'
  <2>1. ~pages[Len(pages)].compaction
    <3>1. GoodRecord(pages[Len(pages)])
      BY <1>1, <1>2, <1>5 DEF RecordInv
    <3>2. ~(version + 1 <= version)
      BY <1>2
    <3> QED
      BY <1>4, <3>1, <3>2 DEF GoodRecord
  <2>2. ASSUME NEW v \in 1 .. version
        PROVE  \/ v \in undone
               \/ \E i \in 1 .. Len(pages) - 1 : pages'[i].version = v
               \/ \E i \in 1 .. Len(pages) - 1 : pages'[i].compaction /\ v < pages'[i].version
               \/ \E u \in undone : v < u /\ \A i \in 1 .. Len(pages) - 1 : u < pages'[i].version
    <3>1. v \in 1 .. Top /\ v # version + 1
      BY <1>2, <1>7
    <3>2. \/ v \in undone
          \/ \E i \in 1 .. Len(pages) : pages[i].version = v
          \/ \E i \in 1 .. Len(pages) : pages[i].compaction /\ v < pages[i].version
          \/ \E u \in undone : v < u /\ \A i \in 1 .. Len(pages) : u < pages[i].version
      BY <1>1, <1>2, <3>1 DEF CompleteInv
    <3> QED
      BY <1>4, <1>5, <1>6, <2>1, <3>1, <3>2
  <2> QED
    BY <1>3, <1>6, <1>7, <2>2 DEF CompleteInv
<1>15. StreamInv'
  <2> SUFFICES ASSUME stream.open, ~stream.replaced, follower'.missed \subseteq {"vanished"}
               PROVE  /\ stream.next <= Len(pages) - 1 + 1
                      /\ \A i \in 1 .. stream.next - 1 : pages'[i].version <= follower'.version
    BY <1>3, <1>5 DEF StreamInv
  <2>1. /\ follower.missed \subseteq {"vanished"} /\ ~(follower.version > version)
        /\ follower'.version = follower.version
    BY <1>2, <1>3, AheadFacts
  <2>2. /\ stream.next <= Len(pages) + 1
        /\ \A i \in 1 .. stream.next - 1 : pages[i].version <= follower.version
    BY <1>1, <2>1 DEF StreamInv
  <2>3. follower.version \in Nat
    BY <1>2 DEF Engines
  <2>4. ~(Len(pages) \in 1 .. stream.next - 1)
    BY <1>2, <1>4, <2>1, <2>2, <2>3
  <2>5. stream.next <= Len(pages)
    BY <1>2, <1>5, <2>2, <2>4
  <2>6. 1 .. stream.next - 1 \subseteq 1 .. Len(pages) - 1
    BY <1>2, <2>5
  <2> QED
    <3>1. stream.next <= Len(pages) - 1 + 1
      BY <1>2, <2>5
    <3>2. \A i \in 1 .. stream.next - 1 : pages'[i] = pages[i]
      BY <1>5, <2>6
    <3> QED
      BY <2>1, <2>2, <3>1, <3>2
<1>16. EnginesInv'
  <2>1. ASSUME NEW engine \in Engines, NEW after \in Engines,
               Faithful(engine), after = Ahead(engine)
        PROVE  Faithful(after)'
    <3> SUFFICES ASSUME after.missed \subseteq {"vanished"}
                 PROVE  /\ after.version <= version
                        /\ \A n \in Names :
                             Held(after.version)'[n] # Absent \/ after.missed = {}
                               => after.db[n] = Held(after.version)'[n]
      BY <1>7 DEF Faithful
    <3>1. /\ engine.missed \subseteq {"vanished"} /\ ~(engine.version > version)
          /\ after.version = engine.version /\ after.db = engine.db
          /\ after.missed = {} => engine.missed = {}
      BY <2>1, AheadFacts
    <3>2. engine.version \in 0 .. version /\ after.version \in 0 .. version
      BY <1>2, <3>1 DEF Engines
    <3>3. Held(after.version)' = Held(engine.version)
      <4>1. Held(after.version)' = At(after.version) /\ Held(engine.version) = At(engine.version)
        BY <1>10, <3>2
      <4> QED
        BY <3>1, <4>1
    <3>4. \A n \in Names : Held(engine.version)[n] # Absent \/ engine.missed = {}
                             => engine.db[n] = Held(engine.version)[n]
      BY <2>1, <3>1 DEF Faithful
    <3> QED
      BY <1>2, <3>1, <3>2, <3>3, <3>4
  <2>2. Faithful(follower)'
    <3>1. PICK after \in Engines : after = Ahead(follower)
      BY <1>2, AheadFacts
    <3>2. Faithful(after)'
      BY <1>1, <1>2, <2>1, <3>1 DEF EnginesInv
    <3> QED
      BY <1>3, <3>1, <3>2 DEF Faithful
  <2>3. Faithful(disk)'
    <3>1. PICK after \in Engines : after = Ahead(disk)
      BY <1>2, AheadFacts
    <3>2. Faithful(after)'
      BY <1>1, <1>2, <2>1, <3>1 DEF EnginesInv
    <3> QED
      BY <1>3, <3>1, <3>2 DEF Faithful
  <2> QED
    BY <2>2, <2>3 DEF EnginesInv
<1> QED
  BY <1>9, <1>11, <1>12, <1>13, <1>14, <1>15, <1>16 DEF ReplicationInv, LogInv

LEMMA CompactStep ==
  ASSUME NamesAssumption, AbsentAssumption, ReplicationInv, Compact
  PROVE  ReplicationInv'
<1>1. /\ TypeOK /\ StreamInv /\ EnginesInv
      /\ OrderInv /\ RecordInv /\ CurrentInv /\ CompleteInv
  BY DEF ReplicationInv, LogInv
<1>2. version \in Nat /\ stream \in Streams /\ db \in Databases /\ db = At(version)
  BY <1>1 DEF TypeOK, CurrentInv
<1>3. /\ unsynced' = FALSE /\ unsynced = FALSE
      /\ version' = version /\ db' = db /\ past' = past /\ undone' = undone
      /\ follower' = follower /\ disk' = disk
      /\ stream' = [stream EXCEPT !.replaced = stream.open /\ stream.next > 1]
  BY <1>1 DEF Compact, TypeOK
<1>4. PICK ops \in Seq(Operations) : ops = CompactOps
  BY <1>2, CompactRuns
<1>5. Top = version /\ Top' = version
  BY <1>2, <1>3 DEF Top
<1>6. \A v \in 0 .. version : Held(v)' = At(v) /\ Held(v) = At(v) /\ At(v)' = At(v)
  BY <1>2, <1>3 DEF Held, At
<1>7. PastKept
  BY <1>2, <1>3, <1>5, <1>6 DEF PastKept
<1>8. CurrentInv'
  BY <1>1, <1>3 DEF CurrentInv, At, Some
<1>9. EnginesInv'
  BY <1>1, <1>3, <1>7, EnginesKept
<1>10. /\ stream' \in Streams /\ stream'.next = stream.next /\ stream'.open = stream.open
       /\ stream'.replaced = (stream.open /\ stream.next > 1)
  BY <1>2, <1>3 DEF Streams
<1>11. pages' \in Seq(Records) => StreamInv'
  <2> SUFFICES ASSUME pages' \in Seq(Records), stream'.open, ~stream'.replaced
               PROVE  /\ stream'.next <= Len(pages') + 1
                      /\ \A i \in 1 .. stream'.next - 1 : pages'[i].version <= follower'.version
    BY DEF StreamInv
  <2>1. stream'.next = 1
    BY <1>2, <1>10 DEF Streams
  <2>2. Len(pages') \in Nat
    OBVIOUS
  <2> QED
    BY <2>1, <2>2
<1>12. CASE ops = << >>
  <2>1. pages' = << >> /\ pages' \in Seq(Records) /\ DOMAIN pages' = {}
    BY <1>4, <1>12, EmptySeq DEF Compact
  <2>2. TypeOK'
    BY <1>1, <1>3, <1>10, <2>1 DEF TypeOK
  <2>3. OrderInv' /\ RecordInv'
    BY <1>3, <2>1 DEF OrderInv, RecordInv
  <2>4. version = 0 \/ version \in undone
    BY <1>1, <1>2, <1>4, <1>12, CompactNone DEF CurrentInv, Some
  <2>5. \A v \in 1 .. version : v \in undone \/ \E u \in undone : v < u
    BY <1>2, <2>4
  <2>6. CompleteInv'
    BY <1>3, <1>5, <2>1, <2>5 DEF CompleteInv
  <2> QED
    BY <1>8, <1>9, <1>11, <2>1, <2>2, <2>3, <2>6 DEF ReplicationInv, LogInv
<1>13. CASE ops # << >>
  <2>1. PICK record \in Records :
          record = [version |-> version, ops |-> ops, compaction |-> TRUE]
    BY <1>2 DEF Records
  <2>2. record.version = version /\ record.ops = ops /\ record.compaction = TRUE
    BY <2>1
  <2>3. pages' = <<record>> /\ pages' \in Seq(Records)
    <3>1. pages' = <<record>>
      BY <1>4, <1>13, <2>1 DEF Compact
    <3> QED
      BY <3>1
  <2>4. DOMAIN pages' = {1} /\ pages'[1] = record
    BY <2>3
  <2>5. TypeOK'
    BY <1>1, <1>3, <1>10, <2>3 DEF TypeOK
  <2>6. OrderInv'
    BY <1>2, <1>3, <1>5, <2>2, <2>4 DEF OrderInv
  <2>7. GoodRecord(record)'
    <3>1. At(record.version)' = db
      BY <1>2, <1>6, <2>2
    <3>2. \A tables \in Databases : ApplyOperations(tables, ops).db = Merged(tables, db)
      BY <1>2, <1>4, CompactRuns
    <3>3. record.version <= version'
      BY <1>2, <1>3, <2>2
    <3> QED
      BY <2>2, <3>1, <3>2, <3>3 DEF GoodRecord
  <2>8. RecordInv'
    BY <2>4, <2>7 DEF RecordInv, GoodRecord
  <2>9. CompleteInv'
    <3>1. \A v \in 1 .. version : v = record.version \/ v < record.version
      BY <1>2, <2>2
    <3> QED
      BY <1>3, <1>5, <2>2, <2>4, <3>1 DEF CompleteInv
  <2> QED
    BY <1>8, <1>9, <1>11, <2>3, <2>5, <2>6, <2>8, <2>9 DEF ReplicationInv, LogInv
<1> QED
  BY <1>12, <1>13

-----------------------------------------------------------------------------
(* The follower's steps.                                                   *)

\* The log is the leader's.
LEMMA LogKept ==
  ASSUME LogInv, UNCHANGED leaderVars
  PROVE  LogInv' /\ Top' = Top
<1>1. /\ version' = version /\ db' = db /\ pages' = pages /\ unsynced' = unsynced
      /\ past' = past /\ undone' = undone
  BY DEF leaderVars
<1>2. Top' = Top
  BY <1>1 DEF Top
<1>3. OrderInv'
  BY <1>1, <1>2 DEF LogInv, OrderInv
<1>4. RecordInv'
  BY <1>1 DEF LogInv, RecordInv, GoodRecord, Held, At, Some
<1>5. CurrentInv'
  BY <1>1 DEF LogInv, CurrentInv, At, Some
<1>6. CompleteInv'
  BY <1>1, <1>2 DEF LogInv, CompleteInv
<1> QED
  BY <1>2, <1>3, <1>4, <1>5, <1>6 DEF LogInv

LEMMA FaithfulSame ==
  ASSUME LogInv, UNCHANGED leaderVars, NEW engine, Faithful(engine)
  PROVE  Faithful(engine)'
<1>1. Held(engine.version)' = Held(engine.version)
  BY DEF leaderVars, Held, At
<1> QED
  BY <1>1, LogKept DEF Faithful

\* A step that leaves both engines alone, and one that has one become the other.
LEMMA EnginesSame ==
  ASSUME LogInv, EnginesInv, UNCHANGED leaderVars,
         follower' \in {follower, disk}, disk' \in {follower, disk}
  PROVE  EnginesInv'
<1>1. ASSUME NEW engine, Faithful(engine)
      PROVE  Faithful(engine)'
  BY <1>1, FaithfulSame
<1>2. PICK f, d : f = follower /\ d = disk
  OBVIOUS
<1>3. Faithful(f) /\ Faithful(d)
  BY <1>2 DEF EnginesInv, Faithful
<1>4. Faithful(f)' /\ Faithful(d)'
  BY <1>1, <1>3
<1>5. Faithful(follower)'
  BY <1>2, <1>4 DEF Faithful
<1>6. Faithful(disk)'
  BY <1>2, <1>4 DEF Faithful
<1> QED
  BY <1>5, <1>6 DEF EnginesInv

\* What a step of the follower has to establish.
LEMMA FollowerSuffices ==
  ASSUME ReplicationInv, UNCHANGED leaderVars, follower' \in Engines, disk' \in Engines,
         stream' \in Streams, StreamInv', EnginesInv'
  PROVE  ReplicationInv'
<1>1. TypeOK'
  BY DEF ReplicationInv, TypeOK, leaderVars
<1> QED
  BY <1>1, LogKept DEF ReplicationInv

LEMMA Closed ==
  ASSUME stream' = NoStream
  PROVE  stream' \in Streams /\ StreamInv'
BY DEF NoStream, Streams, StreamInv

LEMMA OpenStreamStep ==
  ASSUME ReplicationInv, OpenStream
  PROVE  ReplicationInv'
<1>1. TypeOK /\ LogInv /\ EnginesInv /\ follower \in Engines /\ disk \in Engines
      /\ Len(pages) \in Nat
  BY PagesAre DEF ReplicationInv, TypeOK
<1>2. /\ stream' = [open |-> TRUE, next |-> 1, count |-> Len(pages), replaced |-> FALSE]
      /\ UNCHANGED leaderVars /\ follower' = follower /\ disk' = disk /\ pages' = pages
  BY DEF OpenStream, NoStream, leaderVars
<1>3. stream' \in Streams /\ stream'.next = 1
  BY <1>1, <1>2 DEF Streams
<1>4. StreamInv'
  BY <1>1, <1>2, <1>3 DEF StreamInv
<1>5. EnginesInv'
  BY <1>1, <1>2, EnginesSame
<1> QED
  BY <1>1, <1>2, <1>3, <1>4, <1>5, FollowerSuffices

\* Steps that end a stream, or the follower.
LEMMA EndStep ==
  ASSUME ReplicationInv, ReadRaises \/ Finish \/ FollowerRestart
  PROVE  ReplicationInv'
<1>1. TypeOK /\ LogInv /\ EnginesInv /\ follower \in Engines /\ disk \in Engines
  BY DEF ReplicationInv, TypeOK
<1>2. /\ stream' = NoStream /\ UNCHANGED leaderVars
      /\ follower' \in {follower, disk} /\ disk' \in {follower, disk}
  BY DEF ReadRaises, Finish, FollowerRestart
<1>3. EnginesInv'
  BY <1>1, <1>2, EnginesSame
<1> QED
  BY <1>1, <1>2, <1>3, Closed, FollowerSuffices

\* The stream's next page.
LEMMA NextPage ==
  ASSUME TypeOK, More, stream.next <= Len(pages)
  PROVE  /\ stream.next \in 1 .. Len(pages) /\ stream.next \in Nat \ {0}
         /\ pages[stream.next] \in Records
         /\ Advanced \in Streams /\ Advanced.next = stream.next + 1
         /\ Advanced.open = stream.open /\ Advanced.replaced = stream.replaced
<1>1. stream \in Streams /\ stream.next \in Nat \ {0}
  BY DEF TypeOK, Streams
<1>2. stream.next + 1 \in Nat \ {0}
  BY <1>1
<1>3. /\ Advanced \in Streams /\ Advanced.next = stream.next + 1
      /\ Advanced.open = stream.open /\ Advanced.replaced = stream.replaced
  BY <1>1, <1>2 DEF Advanced, Streams
<1>4. stream.next \in 1 .. Len(pages)
  BY <1>1, PagesAre
<1> QED
  BY <1>1, <1>3, <1>4, PagesAre

LEMMA SkipRecordStep ==
  ASSUME ReplicationInv, SkipRecord
  PROVE  ReplicationInv'
<1>1. /\ TypeOK /\ LogInv /\ EnginesInv /\ StreamInv /\ follower \in Engines /\ disk \in Engines
      /\ Len(pages) \in Nat
  BY PagesAre DEF ReplicationInv, TypeOK
<1>2. /\ UNCHANGED leaderVars /\ follower' = follower /\ disk' = disk /\ pages' = pages
      /\ stream' = Advanced /\ More /\ stream.next <= Len(pages)
      /\ pages[stream.next].version <= follower.version
  BY DEF SkipRecord, AlreadyApplied, leaderVars
<1>3. /\ stream.next \in 1 .. Len(pages) /\ stream.next \in Nat \ {0}
      /\ stream' \in Streams /\ stream'.next = stream.next + 1
      /\ stream'.open = stream.open /\ stream'.replaced = stream.replaced
  BY <1>1, <1>2, NextPage
<1>4. StreamInv'
  <2> SUFFICES ASSUME stream.open, ~stream.replaced, follower.missed \subseteq {"vanished"}
               PROVE  /\ stream.next + 1 <= Len(pages) + 1
                      /\ \A i \in 1 .. (stream.next + 1) - 1 : pages[i].version <= follower.version
    BY <1>2, <1>3 DEF StreamInv
  <2>1. \A i \in 1 .. stream.next - 1 : pages[i].version <= follower.version
    BY <1>1 DEF StreamInv
  <2>2. \A i \in 1 .. (stream.next + 1) - 1 : i = stream.next \/ i \in 1 .. stream.next - 1
    BY <1>3
  <2>3. stream.next + 1 <= Len(pages) + 1
    BY <1>1, <1>3
  <2> QED
    BY <1>2, <2>1, <2>2, <2>3
<1>5. EnginesInv'
  BY <1>1, <1>2, EnginesSame
<1> QED
  BY <1>1, <1>2, <1>3, <1>4, <1>5, FollowerSuffices

LEMMA ApplyRaisesStep ==
  ASSUME AbsentAssumption, ReplicationInv, ApplyRaises
  PROVE  ReplicationInv'
<1>1. /\ TypeOK /\ LogInv /\ EnginesInv /\ follower \in Engines /\ disk \in Engines
  BY DEF ReplicationInv, TypeOK
<1>2. PICK record \in Records : record = pages[stream.next]
  BY <1>1, NextPage DEF ApplyRaises
<1> DEFINE ran == ApplyOperations(follower.db, record.ops)
<1>3. ran \in Runs
  BY <1>1, ApplyType DEF Engines, Records
<1>4. /\ follower' = [follower EXCEPT !.db = ran.db, !.missed = follower.missed \union {"raised"}]
      /\ stream' = NoStream /\ UNCHANGED leaderVars /\ disk' = disk
  BY <1>2 DEF ApplyRaises
<1> HIDE DEF ran
<1>5. follower' \in Engines /\ "raised" \in follower'.missed
  BY <1>1, <1>3, <1>4 DEF Engines, Runs
<1>6. Faithful(follower)'
  BY <1>5 DEF Faithful
<1>7. Faithful(disk)'
  <2>1. PICK d : d = disk
    OBVIOUS
  <2>2. Faithful(d)
    BY <1>1, <2>1 DEF EnginesInv
  <2>3. Faithful(d)'
    BY <1>1, <1>4, <2>2, FaithfulSame
  <2> QED
    BY <1>4, <2>1, <2>3 DEF Faithful
<1>8. EnginesInv'
  BY <1>6, <1>7 DEF EnginesInv
<1> QED
  BY <1>1, <1>4, <1>5, <1>8, Closed, FollowerSuffices

\* A stream that missed nothing brings each version after the one before: a version
\* between them would have a record further up in the file, or be an undo, or be held
\* by a compaction that the stream begins with.
LEMMA NextVersion ==
  ASSUME ReplicationInv, More, stream.next <= Len(pages), NEW record \in Records,
         record = pages[stream.next], ~record.compaction, ~AlreadyApplied(record),
         Missed(record) \subseteq {"vanished"}
  PROVE  record.version = follower.version + 1
<1>1. /\ TypeOK /\ OrderInv /\ CompleteInv /\ StreamInv
      /\ DOMAIN pages = 1 .. Len(pages) /\ Len(pages) \in Nat
      /\ \A i \in 1 .. Len(pages) : pages[i].version \in Nat
      /\ follower.version \in Nat /\ record.version \in Nat
  BY PagesAre DEF ReplicationInv, LogInv, TypeOK, Engines, Records
<1>2. stream.next \in 1 .. Len(pages) /\ stream.next \in Nat \ {0}
  BY <1>1, NextPage
<1>3. /\ follower.missed \subseteq {"vanished"} /\ ~stream.replaced
      /\ ~\E u \in undone : follower.version < u /\ u < record.version
  BY DEF Missed
<1>4. \A i \in 1 .. stream.next - 1 : pages[i].version <= follower.version
  BY <1>1, <1>3 DEF StreamInv, More
<1>5. follower.version < record.version
  BY <1>1 DEF AlreadyApplied
<1>6. SUFFICES ASSUME follower.version + 1 < record.version
               PROVE  FALSE
  BY <1>1, <1>5
<1>7. PICK v \in Nat : v = follower.version + 1
  BY <1>1
<1>8. follower.version < v /\ v < record.version
  BY <1>1, <1>6, <1>7
<1>9. v \in 1 .. Top
  <2>1. record.version <= Top
    BY <1>1, <1>2 DEF OrderInv
  <2> QED
    BY <1>1, <1>7, <1>8, <2>1, TopIs
<1>10. v \notin undone
  BY <1>3, <1>8
<1>11. ASSUME NEW i \in 1 .. Len(pages), pages[i].version = v
       PROVE  FALSE
  <2>1. CASE i < stream.next
    <3>1. i \in 1 .. stream.next - 1
      BY <1>2, <2>1
    <3>2. v <= follower.version
      BY <1>4, <1>11, <3>1
    <3> QED
      BY <1>1, <1>8, <3>2
  <2>2. CASE i = stream.next
    BY <1>1, <1>8, <1>11, <2>2
  <2>3. CASE stream.next < i
    <3>1. record.version < v
      BY <1>1, <1>2, <1>11, <2>3 DEF OrderInv
    <3> QED
      BY <1>1, <1>8, <3>1
  <2> QED
    BY <1>2, <2>1, <2>2, <2>3
<1>12. ASSUME NEW i \in 1 .. Len(pages), pages[i].compaction, v < pages[i].version
       PROVE  FALSE
  <2>1. i = 1 /\ i # stream.next
    BY <1>1, <1>12 DEF OrderInv
  <2>2. i \in 1 .. stream.next - 1
    BY <1>2, <2>1
  <2>3. pages[i].version <= follower.version /\ pages[i].version \in Nat
    BY <1>1, <1>4, <2>2
  <2> QED
    BY <1>1, <1>8, <1>12, <2>3
<1>13. ASSUME NEW u \in undone, v < u, \A i \in 1 .. Len(pages) : u < pages[i].version
       PROVE  FALSE
  <2>1. u < record.version /\ u \in Nat
    BY <1>1, <1>2, <1>13 DEF TypeOK
  <2>2. follower.version < u
    BY <1>1, <1>8, <1>13, <2>1
  <2> QED
    BY <1>3, <2>1, <2>2
<1> QED
  BY <1>1, <1>9, <1>10, <1>11, <1>12, <1>13 DEF CompleteInv

\* So what the follower makes of a record is what the leader holds at its version.
LEMMA AppliedFaithful ==
  ASSUME AbsentAssumption, ReplicationInv, More, stream.next <= Len(pages),
         NEW record \in Records, record = pages[stream.next],
         ~AlreadyApplied(record), NEW engine,
         engine = [version |-> record.version,
                   db |-> ApplyOperations(follower.db, record.ops).db,
                   missed |-> Missed(record)]
  PROVE  Faithful(engine)
<1>1. /\ TypeOK /\ OrderInv /\ RecordInv /\ Faithful(follower)
      /\ DOMAIN pages = 1 .. Len(pages) /\ version \in Nat
      /\ follower \in Engines /\ follower.db \in Databases /\ follower.version \in Nat
      /\ record.version \in Nat /\ record.ops \in Seq(Operations)
  BY PagesAre DEF ReplicationInv, LogInv, EnginesInv, TypeOK, Engines, Records
<1>2. stream.next \in 1 .. Len(pages)
  BY <1>1, NextPage
<1>3. GoodRecord(record) /\ record.version <= Top
  BY <1>1, <1>2 DEF RecordInv, OrderInv
<1>4. /\ engine.version = record.version /\ engine.missed = Missed(record)
      /\ engine.db = ApplyOperations(follower.db, record.ops).db
  OBVIOUS
<1> SUFFICES ASSUME Missed(record) \subseteq {"vanished"}
             PROVE  \A n \in Names :
                      Held(record.version)[n] # Absent \/ Missed(record) = {}
                        => engine.db[n] = Held(record.version)[n]
  BY <1>3, <1>4 DEF Faithful
<1>5. CASE record.compaction
  <2>1. engine.db = Merged(follower.db, At(record.version))
    BY <1>1, <1>3, <1>4, <1>5 DEF GoodRecord
  <2>2. Held(record.version) = At(record.version)
    <3>1. record.version # version + 1
      BY <1>1, <1>3, <1>5 DEF GoodRecord
    <3> QED
      BY <3>1 DEF Held
  <2>3. ASSUME NEW n \in Names, Missed(record) = {}, At(record.version)[n] = Absent
        PROVE  follower.db[n] = Absent
    BY <1>5, <2>3 DEF Missed
  <2> QED
    BY <2>1, <2>2, <2>3 DEF Merged
<1>6. CASE ~record.compaction
  <2>1. record.version = follower.version + 1
    BY <1>6, NextVersion
  <2>2. PICK tables \in Databases : tables = At(follower.version) /\ tables = Held(follower.version)
    <3>1. follower.version \in 0 .. version
      BY <1>1, <1>3, <2>1, TopIs DEF Top, TypeOK
    <3>2. follower.version # version + 1
      BY <1>1, <3>1
    <3> QED
      BY <1>1, <3>1, <3>2, AtType DEF Held
  <2>3. ApplyOperations(tables, record.ops) = [db |-> Held(record.version), raised |-> FALSE]
    <3>1. record.version - 1 = follower.version
      BY <1>1, <2>1
    <3> QED
      BY <1>3, <1>6, <2>2, <3>1 DEF GoodRecord
  <2>4. /\ follower.missed \subseteq {"vanished"}
        /\ Missed(record) = {} => follower.missed = {}
    BY <1>6 DEF Missed
  <2>5. Agree(follower.db, tables)
    BY <1>1, <2>2, <2>4 DEF Faithful, Agree
  <2>6. Agree(engine.db, Held(record.version))
    BY <1>1, <1>4, <2>3, <2>5, ApplyAgrees
  <2>7. ASSUME Missed(record) = {}
        PROVE  engine.db = Held(record.version)
    <3>1. \A n \in Names : follower.db[n] = tables[n]
      BY <1>1, <2>2, <2>4, <2>7 DEF Faithful
    <3>2. follower.db = tables
      BY <1>1, <3>1 DEF Databases
    <3> QED
      BY <1>4, <2>3, <3>2
  <2> QED
    BY <2>6, <2>7 DEF Agree
<1> QED
  BY <1>5, <1>6

LEMMA ApplyRecordStep ==
  ASSUME AbsentAssumption, ReplicationInv, ApplyRecord
  PROVE  ReplicationInv'
<1>1. /\ TypeOK /\ LogInv /\ EnginesInv /\ follower \in Engines /\ disk \in Engines
      /\ DOMAIN pages = 1 .. Len(pages) /\ Len(pages) \in Nat
  BY PagesAre DEF ReplicationInv, TypeOK
<1>2. More /\ stream.next <= Len(pages)
  BY DEF ApplyRecord
<1>3. PICK record \in Records : record = pages[stream.next]
  BY <1>1, <1>2, NextPage
<1>4. /\ follower' = [version |-> record.version,
                      db |-> ApplyOperations(follower.db, record.ops).db,
                      missed |-> Missed(record)]
      /\ ~AlreadyApplied(record)
      /\ stream' = Advanced /\ UNCHANGED leaderVars /\ disk' = disk
  BY <1>3 DEF ApplyRecord
<1>5. PICK engine : engine = follower'
  OBVIOUS
<1>6. Faithful(engine)
  BY <1>2, <1>3, <1>4, <1>5, AppliedFaithful
<1>7. Faithful(follower)'
  <2>1. Faithful(engine)'
    BY <1>1, <1>4, <1>6, FaithfulSame
  <2> QED
    BY <1>5, <2>1 DEF Faithful
<1>8. Faithful(disk)'
  <2>1. PICK d : d = disk
    OBVIOUS
  <2>2. Faithful(d)
    BY <1>1, <2>1 DEF EnginesInv
  <2>3. Faithful(d)'
    BY <1>1, <1>4, <2>2, FaithfulSame
  <2> QED
    BY <1>4, <2>1, <2>3 DEF Faithful
<1>9. follower' \in Engines
  <2>1. ApplyOperations(follower.db, record.ops) \in Runs
    BY <1>1, ApplyType DEF Engines, Records
  <2>2. ApplyOperations(follower.db, record.ops).db \in Databases
    BY <2>1 DEF Runs
  <2>3. Missed(record) \in SUBSET {"vanished", "undo", "replaced", "raised", "lost"}
    BY <1>1 DEF Missed, Engines
  <2>4. record.version \in Nat
    BY DEF Records
  <2> QED
    BY <1>4, <2>2, <2>3, <2>4 DEF Engines
<1>10. /\ stream.next \in 1 .. Len(pages) /\ stream.next \in Nat \ {0}
       /\ stream' \in Streams /\ stream'.next = stream.next + 1
  BY <1>1, <1>2, <1>4, NextPage
<1>11. StreamInv'
  <2>1. follower'.version = record.version /\ pages' = pages
    BY <1>4 DEF leaderVars
  <2>2. ASSUME NEW i \in 1 .. (stream.next + 1) - 1
        PROVE  pages[i].version <= record.version
    <3>1. record.version \in Nat
      BY DEF Records
    <3>2. CASE i = stream.next
      BY <1>3, <3>1, <3>2
    <3>3. CASE i # stream.next
      <4>1. i \in 1 .. Len(pages) /\ i < stream.next
        BY <1>1, <1>10, <3>3
      <4>2. pages[i].version < record.version /\ pages[i].version \in Nat
        BY <1>1, <1>3, <1>10, <4>1, PagesAre DEF LogInv, OrderInv
      <4> QED
        BY <3>1, <4>2
    <3> QED
      BY <3>2, <3>3
  <2>3. stream.next + 1 <= Len(pages) + 1
    BY <1>1, <1>10
  <2> QED
    BY <1>10, <2>1, <2>2, <2>3 DEF StreamInv
<1>12. EnginesInv'
  BY <1>7, <1>8 DEF EnginesInv
<1> QED
  BY <1>1, <1>4, <1>9, <1>10, <1>11, <1>12, FollowerSuffices

-----------------------------------------------------------------------------
(* The theorems.                                                           *)

LEMMA ReplicationInvStep ==
  ASSUME NamesAssumption, AbsentAssumption, ReplicationInv, [Next]_vars
  PROVE  ReplicationInv'
<1>1. ASSUME NEW n \in Names, NEW item \in Items, Transaction(n, item)
      PROVE  ReplicationInv'
  <2>1. TypeOK
    BY DEF ReplicationInv
  <2>2. PICK ops \in Seq(Operations) :
          /\ Write(ops)
          /\ ~ApplyOperations(db, ops).raised
          /\ Some(ApplyOperations(db, ops).db)
    BY <1>1, <2>1, TransactionWrites
  <2> QED
    BY <2>2, WriteStep
<1>2. ASSUME Leader
      PROVE  ReplicationInv'
  BY <1>1, <1>2, PublishStep, PowerLossStep, UndoStep, CompactStep DEF Leader
<1>3. ASSUME Follow \/ FollowerRestart
      PROVE  ReplicationInv'
  BY <1>3, OpenStreamStep, SkipRecordStep, ApplyRecordStep, ApplyRaisesStep, EndStep DEF Follow
<1>4. ASSUME UNCHANGED vars
      PROVE  ReplicationInv'
  <2>1. /\ UNCHANGED leaderVars /\ follower' = follower /\ disk' = disk /\ stream' = stream
        /\ pages' = pages
    BY <1>4 DEF vars, followerVars, leaderVars
  <2>2. TypeOK /\ LogInv /\ EnginesInv /\ StreamInv
    BY DEF ReplicationInv
  <2>3. follower' \in Engines /\ disk' \in Engines /\ stream' \in Streams
    BY <2>1, <2>2 DEF TypeOK
  <2>4. StreamInv'
    BY <2>1, <2>2 DEF StreamInv
  <2>5. EnginesInv'
    BY <2>1, <2>2, EnginesSame
  <2> QED
    BY <2>1, <2>3, <2>4, <2>5, FollowerSuffices
<1> QED
  BY <1>2, <1>3, <1>4 DEF Next

\* The inductive invariant holds: the log lacks no version but for an undo or behind a
\* compaction, and each of its records makes the tables of its version.
THEOREM ReplicationInvariant ==
  ASSUME NamesAssumption, AbsentAssumption
  PROVE  Spec => []ReplicationInv
<1>1. Init => ReplicationInv
  BY InitReplication
<1>2. ReplicationInv /\ [Next]_vars => ReplicationInv'
  BY ReplicationInvStep
<1> QED
  BY <1>1, <1>2, PTL DEF Spec

\* Every variable has its type, and the history has a database for each version.
THEOREM TypeCorrect ==
  ASSUME NamesAssumption, AbsentAssumption
  PROVE  Spec => []TypeOK
<1>1. ReplicationInv => TypeOK
  BY DEF ReplicationInv
<1> QED
  BY <1>1, ReplicationInvariant, PTL

\* A follower that missed nothing holds what the leader held at the follower's version,
\* in memory and on disk, whatever commits, undoes, compactions and power losses of the
\* leader and restarts of the follower fall between and into its streams
\* (replication.py:24-62).
THEOREM FollowerFaithfulHolds ==
  ASSUME NamesAssumption, AbsentAssumption
  PROVE  Spec => []FollowerFaithful
<1>1. ReplicationInv => FollowerFaithful
  BY DEF ReplicationInv, EnginesInv, Faithful, FollowerFaithful, Top
<1> QED
  BY <1>1, ReplicationInvariant, PTL

=============================================================================
