-------------------------------- MODULE Parts --------------------------------
(***************************************************************************)
(* All the components beside the engine: the Services, the indexes and the *)
(* joins, of which the first state picks one.  The last two are recursive, *)
(* so that no theorem can be stated here.                                  *)
(***************************************************************************)
EXTENDS Services

CONSTANTS
  MaxKeys, Keys, Orders, Capacity, Garbage, MaxStatements,
  Base, Others, Values, Null, MaxTable

VARIABLES
  stored, rows, tree, image, writer, filled, sorted, statements,
  query

Index == INSTANCE TableIndex WITH job <- writer
Query == INSTANCE Joins

ASSUME PartsAssumption ==
  Index!MaxKeysAssumption /\ Index!IndexAssumption /\ Query!JoinsAssumption

services == <<gate, admin, memory, copies>>
index == <<stored, rows, tree, image, writer, filled, sorted, statements>>

Init ==
  /\ part \in {"gate", "admin", "memory", "copies", "index", "query"}
  /\ ServicesInit /\ Index!Init /\ Query!Init

ServicesStep == ServicesNext /\ UNCHANGED <<index, query>>

IndexStep ==
  /\ part = "index" /\ Index!Next
  /\ UNCHANGED <<part, services, query>>

QueryStep ==
  /\ part = "query" /\ Query!Select
  /\ UNCHANGED <<part, services, index>>

Next == ServicesStep \/ IndexStep \/ QueryStep

Spec == Init /\ [][Next]_<<part, services, index, query>>

-----------------------------------------------------------------------------
(* Properties, of the modules they are named after.                        *)

\* The type invariants of the components.
TypeOK ==
  Gate!TypeOK /\ Admin!TypeOK /\ Memory!TypeOK /\ Copies!TypeOK /\ Index!TypeOK

\* The tree answers what a scan answers, and damage to its image is repaired
\* (btree.py:44-126, engine.py:508-533).
IndexAnswers == Index!IndexAnswers

\* A join whose conditions name the relations they join returns every combination
\* that satisfies them, once (optimizer.py:209-236).
JoinsAgree == Query!JoinsAgree

\* "Small cost-based planner for inner equi-join SELECT statements."
\* (optimizer.py:117): any inner equi-join that is not refused has that answer.
JoinsAlwaysExact == Query!JoinsAlwaysExact

\* "B+ tree-backed equality lookup is rebuilt deterministically from table state"
\* (README.md:132): an indexed lookup finds rows with the key it was asked for.
LookupMatchesScan == Index!LookupMatchesScan

\* "The page log remains the durable source of truth while table indexes provide
\* bounded lookup acceleration" and can be rebuilt (btree.py:3-6): what the page log
\* holds can be opened again, however often one key occurs in it.
OpensAgain == Index!OpensAgain

=============================================================================
