-------------------------------- MODULE Joins --------------------------------
(***************************************************************************)
(* The execution of an inner equi-join (QueryPlanner.execute, optimizer.py)*)
(* as operators over the rows of the joined relations.  A row is a function*)
(* from the aliases it comes from to their rows; it is looked up by        *)
(* qualified names, so that nothing collides.                              *)
(***************************************************************************)
EXTENDS Naturals, Sequences, SequencesExt, FiniteSets

CONSTANTS
  Base,      \* the relation after FROM
  Others,    \* the joined relations
  Values,    \* of the one column that is joined on
  Null,      \* the NULL among them, and what a row lacks a column for
  MaxTable   \* bound: rows of a table

JoinsAssumption == Base \notin Others /\ MaxTable \in Nat /\ Null \in Values

Relations == Others \union {Base}

VARIABLE query  \* [tables, joins]: the rows of each relation, the joins as written

\* A condition compares two columns; nothing says of which relations.
JoinSpecs == [relation : Others, left : Relations, right : Relations]

Conditions ==
  {joins \in [1 .. Cardinality(Others) -> JoinSpecs] :
     {joins[i].relation : i \in DOMAIN joins} = Others}

Tables == [Relations -> UNION {[1 .. n -> Values] : n \in 0 .. MaxTable}]

\* No query has run yet: no joins over empty tables.
Init == query = [tables |-> [r \in Relations |-> << >>], joins |-> << >>]

Select ==
  /\ query.joins = << >>
  /\ \E tables \in Tables, joins \in Conditions :
       query' = [tables |-> tables, joins |-> joins]

-----------------------------------------------------------------------------
(* The joins.  A row is known by the position it has in its table.         *)

Rows(r) == [i \in DOMAIN query.tables[r] |-> [s \in {r} |-> i]]

\* row.get: a row that does not come from r answers NULL.
Cell(row, r) == IF r \in DOMAIN row THEN query.tables[r][row[r]] ELSE Null

Merged(f, g) == [s \in DOMAIN f \union DOMAIN g |-> IF s \in DOMAIN g THEN g[s] ELSE f[s]]

\* Pairs that match, the second sequence outermost.
Probe(build, probe, buildKey, probeKey) ==
  LET matches(row) == SelectSeq(build, LAMBDA b : Cell(b, buildKey) = Cell(row, probeKey))
  IN  FlattenSeq([i \in DOMAIN probe |->
        [j \in DOMAIN matches(probe[i]) |-> Merged(matches(probe[i])[j], probe[i])]])

\* The smaller input is the build side.
HashJoin(left, right, leftKey, rightKey) ==
  IF Len(left) <= Len(right) THEN Probe(left, right, leftKey, rightKey)
  ELSE Probe(right, left, rightKey, leftKey)

\* For each left row all right rows: the same pairs, the left outermost.
NestedLoopJoin(left, right, leftKey, rightKey) == Probe(right, left, rightKey, leftKey)

Join(left, right, leftKey, rightKey) ==
  IF Len(left) + Len(right) <= Len(left) * Len(right)
    THEN HashJoin(left, right, leftKey, rightKey)
    ELSE NestedLoopJoin(left, right, leftKey, rightKey)

\* Mutant of KeysOf: the condition is always taken to name the new relation last.
KeysAsWritten(join) == [left |-> join.left, right |-> join.right]

\* Which side of the condition belongs to what is joined already.
KeysOf(join) ==
  IF join.left = join.relation THEN [left |-> join.right, right |-> join.left]
  ELSE [left |-> join.left, right |-> join.right]

\* The first remaining join, as written, that names a relation already joined.
Chosen(remaining, known) ==
  SelectInSeq(remaining, LAMBDA join : {join.left, join.right} \intersect known # {})

RECURSIVE JoinAll(_, _, _)
JoinAll(rows, remaining, known) ==
  LET i == Chosen(remaining, known)
      join == remaining[i]
      next == Join(rows, Rows(join.relation), KeysOf(join).left, KeysOf(join).right)
  IN  IF remaining = << >> THEN [rows |-> rows, raised |-> FALSE]
      ELSE IF i = 0 THEN [rows |-> << >>, raised |-> TRUE]
      ELSE JoinAll(next, RemoveAt(remaining, i), known \union {join.relation})

Execute == JoinAll(Rows(Base), query.joins, {Base})

-----------------------------------------------------------------------------
(* Properties.                                                             *)

\* The relations that the conditions connect with the base.
RECURSIVE Connected(_)
Connected(known) ==
  LET more == {j.relation : j \in {i \in ToSet(query.joins) : {i.left, i.right} \intersect known # {}}}
  IN  IF more \subseteq known THEN known ELSE Connected(known \union more)

\* All the combinations of rows that every condition holds of.
Product ==
  {row \in [Relations -> 1 .. MaxTable] :
     /\ \A r \in Relations : row[r] \in DOMAIN query.tables[r]
     /\ \A j \in ToSet(query.joins) : Cell(row, j.left) = Cell(row, j.right)}

\* The answer of a query is each combination that satisfies the conditions, once.
Exact(answer) ==
  ToSet(answer.rows) = Product /\ Len(answer.rows) = Cardinality(Product)

\* Each condition names the relation that it joins, and another one.
ProperJoins ==
  \A j \in ToSet(query.joins) : j.left # j.right /\ j.relation \in {j.left, j.right}

\* Whatever the order of the joins in the text, the side of the new relation in a
\* condition, the sizes that decide between hash and nested loop and the NULLs, a query
\* raises exactly if the conditions do not connect its relations; if each condition
\* names the relation it joins, the answer is exact (optimizer.py:209-236).
JoinsAgree ==
  query.joins # << >> =>
    LET answer == Execute
    IN  IF Connected({Base}) # Relations THEN answer.raised
        ELSE ~answer.raised /\ (ProperJoins => Exact(answer))

\* Every join on conditions between two relations that is not refused has the exact
\* answer.  The code breaks it: a condition between two others is looked up in the
\* rows of the new relation, which lack the column (optimizer.py:218-222).
JoinsAlwaysExact ==
  query.joins # << >> /\ (\A j \in ToSet(query.joins) : j.left # j.right) =>
    LET answer == Execute IN answer.raised \/ Exact(answer)

=============================================================================
