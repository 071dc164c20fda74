------------------------------- MODULE MCParts -------------------------------
(***************************************************************************)
(* A small instance of Parts.  MaxKeys is the smallest that the code       *)
(* accepts; nine rows and two more split an internal node.  Three upserts  *)
(* fill a scope beyond Cut.                                                *)
(***************************************************************************)
EXTENDS Parts, TLC

\* Ascending, descending and mixed.
MCOrders ==
  {<<2, 4, 6, 8, 10, 12, 14, 16, 18>>,
   <<18, 16, 14, 12, 10, 8, 6, 4, 2>>,
   <<10, 2, 18, 4, 16, 6, 14, 8, 12>>}

\* Below all, between, one of them, above all.
MCKeys == {1, 9, 12, 19}

\* The nearest memory has neither the first nor the last id.
MCNear == [id \in Ids |-> (2 * id) % 3]

\* The threads are interchangeable, and so are users, scopes and joined relations.
Symmetry ==
  Permutations(Threads) \union Permutations(Users)
  \union Permutations(Agents) \union Permutations(Scopes)

=============================================================================
