-------------------------------- MODULE BTree --------------------------------
(***************************************************************************)
(* BPlusTree (btree.py) as operators.  A tree is a record of its nodes, by *)
(* number, and the numbers of its root and of its first leaf.  A node has  *)
(* the fields of _Node; positions in a sequence start at 1 here.  Only TLC *)
(* evaluates this module: a split may climb to the root.                   *)
(***************************************************************************)
EXTENDS Naturals, Sequences, SequencesExt, FiniteSets

CONSTANT MaxKeys   \* max_keys

MaxKeysAssumption == MaxKeys \in Nat /\ MaxKeys >= 3

None == 0   \* no parent, no next leaf

Leaf(keys, values, parent, next) ==
  [leaf |-> TRUE, keys |-> keys, values |-> values, children |-> << >>,
   parent |-> parent, next |-> next]

Internal(keys, children, parent) ==
  [leaf |-> FALSE, keys |-> keys, values |-> << >>, children |-> children,
   parent |-> parent, next |-> None]

EmptyTree == [node |-> << Leaf(<< >>, << >>, None, None) >>, root |-> 1, first |-> 1]

BisectLeft(keys, key) == 1 + Cardinality({i \in DOMAIN keys : keys[i] < key})
BisectRight(keys, key) == 1 + Cardinality({i \in DOMAIN keys : keys[i] <= key})

RECURSIVE Descend(_, _, _)
Descend(t, n, key) ==
  IF t.node[n].leaf THEN n
  ELSE Descend(t, t.node[n].children[BisectRight(t.node[n].keys, key)], key)

LeafFor(t, key) == Descend(t, t.root, key)

\* The nodes learn their new parent.
Adopt(t, children, parent) ==
  FoldLeft(LAMBDA u, child : [u EXCEPT !.node[child].parent = parent], t, children)

RECURSIVE InsertInParent(_, _, _, _)

\* Mutant of SplitInternal: the children of the right half keep the old parent.
SplitInternalKeeping(t, n) ==
  LET node == t.node[n]
      mid == (Len(node.keys) \div 2) + 1
      right == Internal(SubSeq(node.keys, mid + 1, Len(node.keys)),
                        SubSeq(node.children, mid + 1, Len(node.children)), node.parent)
      left == [node EXCEPT !.keys = SubSeq(@, 1, mid - 1), !.children = SubSeq(@, 1, mid)]
      r == Len(t.node) + 1
  IN  InsertInParent([t EXCEPT !.node = Append([@ EXCEPT ![n] = left], right)],
                     n, node.keys[mid], r)

SplitInternal(t, n) ==
  LET node == t.node[n]
      mid == (Len(node.keys) \div 2) + 1
      right == Internal(SubSeq(node.keys, mid + 1, Len(node.keys)),
                        SubSeq(node.children, mid + 1, Len(node.children)), node.parent)
      left == [node EXCEPT !.keys = SubSeq(@, 1, mid - 1), !.children = SubSeq(@, 1, mid)]
      r == Len(t.node) + 1
  IN  InsertInParent(Adopt([t EXCEPT !.node = Append([@ EXCEPT ![n] = left], right)],
                           right.children, r),
                     n, node.keys[mid], r)

\* Both halves are in t; the parent takes the separator and may split in turn.
InsertInParent(t, left, separator, right) ==
  LET p == t.node[left].parent
      i == SelectInSeq(t.node[p].children, LAMBDA child : child = left)
      grown == [t.node[p] EXCEPT !.keys = InsertAt(@, i, separator),
                                 !.children = InsertAt(@, i + 1, right)]
      placed == [t EXCEPT !.node[p] = grown, !.node[right].parent = p]
      root == Len(t.node) + 1
  IN  IF p = None
      THEN Adopt([t EXCEPT !.node = Append(@, Internal(<<separator>>, <<left, right>>, None)),
                           !.root = root],
                 <<left, right>>, root)
      ELSE IF Len(grown.keys) > MaxKeys THEN SplitInternal(placed, p) ELSE placed

\* The smallest key of the right half is below that of the left only if the keys were
\* not sorted, so first never moves.
SplitLeaf(t, n) ==
  LET leaf == t.node[n]
      mid == Len(leaf.keys) \div 2
      right == Leaf(SubSeq(leaf.keys, mid + 1, Len(leaf.keys)),
                    SubSeq(leaf.values, mid + 1, Len(leaf.values)), leaf.parent, leaf.next)
      r == Len(t.node) + 1
      left == [leaf EXCEPT !.keys = SubSeq(@, 1, mid), !.values = SubSeq(@, 1, mid), !.next = r]
  IN  InsertInParent([t EXCEPT !.node = Append([@ EXCEPT ![n] = left], right)],
                     n, right.keys[1], r)

Insert(t, key, value) ==
  LET n == LeafFor(t, key)
      i == BisectLeft(t.node[n].keys, key)
      placed == [t EXCEPT !.node[n].keys = InsertAt(@, i, key),
                          !.node[n].values = InsertAt(@, i, {value})]
  IN  IF i <= Len(t.node[n].keys) /\ t.node[n].keys[i] = key
      THEN [t EXCEPT !.node[n].values[i] = @ \union {value}]
      ELSE IF Len(placed.node[n].keys) > MaxKeys THEN SplitLeaf(placed, n) ELSE placed

Find(t, key) ==
  LET leaf == t.node[LeafFor(t, key)]
      i == BisectLeft(leaf.keys, key)
  IN  IF i <= Len(leaf.keys) /\ leaf.keys[i] = key THEN leaf.values[i] ELSE {}

\* The entries of the leaves from n on, along next.
RECURSIVE Entries(_, _)
Entries(t, n) ==
  IF n = None THEN << >>
  ELSE [i \in DOMAIN t.node[n].keys |->
          [key |-> t.node[n].keys[i], positions |-> t.node[n].values[i]]]
       \o Entries(t, t.node[n].next)

Items(t) == Entries(t, t.first)

\* Up to the first key that is not below end, which ends the iteration.
InRange(t, start, end) ==
  LET entries == Entries(t, LeafFor(t, start))
      stop == SelectInSeq(entries, LAMBDA e : e.key >= start /\ e.key >= end)
      before == IF stop = 0 THEN entries ELSE SubSeq(entries, 1, stop - 1)
  IN  SelectSeq(before, LAMBDA e : e.key >= start)

=============================================================================
