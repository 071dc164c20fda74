------------------------------ MODULE MCTables ------------------------------
(***************************************************************************)
(* A small instance of Tables: predicates for one value and for every row, *)
(* and the assignments of each constant, of NULL and of an expression that *)
(* takes each value to another.  Nothing tells one value from the other.   *)
(***************************************************************************)
EXTENDS Tables, TLC

MCWheres == {Cells} \union {{v} : v \in Values}

\* As v + 1 does in SET v = v + 1: no value stays what it is.
Another(v) == CHOOSE w \in Values : w # v

\* Assignments that keep a NOT NULL column not NULL.
MCLegal ==
  {[v \in Cells |-> w] : w \in Values}
    \union {[v \in Cells |-> IF v = Null THEN Null ELSE Another(v)]}

MCAssignments == MCLegal \union {[v \in Cells |-> Null]}

Symmetry == Permutations(Values)

\* A record that state.json covers is never read again.
Newer == SelectSeq(log, LAMBDA record : record.version > state.version)

View == <<version, table, tx, Newer, state, taint>>

=============================================================================
