----------------------------- MODULE Tables_proofs -----------------------------
(***************************************************************************)
(* Proofs about Tables, for any cells, predicates and assignments, and any *)
(* number of rows, operations and versions: the caches of a table say what *)
(* a scan says, keys are unique, and the directory replays to the table.   *)
(***************************************************************************)
EXTENDS Tables, SequenceTheorems, FiniteSetTheorems, WellFoundedInduction, TLAPS

-----------------------------------------------------------------------------
(* What the recursive functions are at each number.                        *)

\* A set that contains 0, and each number up to n whose predecessor it contains.
LEMMA UpTo ==
  ASSUME NEW n \in Nat, NEW S, 0 \in S, \A i \in 1 .. n : i - 1 \in S => i \in S
  PROVE  \A i \in 0 .. n : i \in S
<1> DEFINE T == {i \in 0 .. n : i \notin S}
           R == OpToRel(<, Nat)
<1> SUFFICES ASSUME T # {} PROVE FALSE
  OBVIOUS
<1>1. IsWellFoundedOn(R, Nat)
  BY NatLessThanWellFounded
<1>0. T \in SUBSET Nat
  OBVIOUS
<1>2. PICK m \in T : \A y \in T : ~(<<y, m>> \in R)
  <2> HIDE DEF R, T
  <2> QED
    BY <1>0, <1>1, WFMin
<1>3. m \in 0 .. n /\ m \notin S /\ m # 0
  OBVIOUS
<1>4. m \in 1 .. n /\ m - 1 \in 0 .. n /\ m - 1 < m
  BY <1>3
<1>5. m - 1 \notin T
  <2> HIDE DEF T
  <2> QED
    BY <1>0, <1>2, <1>4 DEF OpToRel
<1> QED
  BY <1>3, <1>4, <1>5

\* The recursive function of Positions.
Found(f, cells, S, n) ==
  f = [i \in 0 .. n |->
        IF i = 0 THEN << >>
        ELSE IF cells[i] \in S THEN Append(f[i - 1], i) ELSE f[i - 1]]

\* It exists, by induction on n.
LEMMA FoundExists ==
  ASSUME NEW cells, NEW S, NEW n \in Nat
  PROVE  \E f : Found(f, cells, S, n)
<1> DEFINE T == {k \in 0 .. n : \E f : Found(f, cells, S, k)}
<1>1. 0 \in T
  <2>1. Found([i \in 0 .. 0 |-> << >>], cells, S, 0)
    BY DEF Found
  <2> QED
    BY <2>1
<1>2. ASSUME NEW k \in 1 .. n, k - 1 \in T
      PROVE  k \in T
  <2>1. k \in Nat \ {0} /\ k - 1 \in Nat
    OBVIOUS
  <2>2. PICK f : Found(f, cells, S, k - 1)
    BY <1>2
  <2>3. \A i \in 0 .. k - 1 : f[i] =
          IF i = 0 THEN << >>
          ELSE IF cells[i] \in S THEN Append(f[i - 1], i) ELSE f[i - 1]
    BY <2>2 DEF Found
  <2> DEFINE g == [i \in 0 .. k |->
                    IF i < k THEN f[i]
                    ELSE IF cells[k] \in S THEN Append(f[k - 1], k) ELSE f[k - 1]]
  <2>4. /\ g = [i \in 0 .. k |-> g[i]]
        /\ g[k] = IF cells[k] \in S THEN Append(f[k - 1], k) ELSE f[k - 1]
        /\ \A i \in 0 .. k - 1 : g[i] = f[i]
    BY <2>1
  <2> HIDE DEF g
  <2>5. ASSUME NEW i \in 0 .. k
        PROVE  g[i] = IF i = 0 THEN << >>
                      ELSE IF cells[i] \in S THEN Append(g[i - 1], i) ELSE g[i - 1]
    <3>1. CASE i = k
      <4>1. k - 1 \in 0 .. k - 1 /\ k # 0
        BY <2>1
      <4> QED
        BY <2>4, <3>1, <4>1
    <3>2. CASE i # k
      <4>1. i \in 0 .. k - 1 /\ (i # 0 => i - 1 \in 0 .. k - 1)
        BY <2>1, <3>2
      <4> QED
        BY <2>3, <2>4, <4>1
    <3> QED
      BY <3>1, <3>2
  <2>6. Found(g, cells, S, k)
    BY <2>4, <2>5 DEF Found
  <2> QED
    BY <2>6
<1>3. n \in 0 .. n
  OBVIOUS
<1>4. \A k \in 0 .. n : k \in T
  <2> HIDE DEF T
  <2> QED
    BY <1>1, <1>2, UpTo
<1> QED
  BY <1>3, <1>4

\* Two of them agree where both are defined.
LEMMA FoundAgree ==
  ASSUME NEW cells, NEW S, NEW n \in Nat, NEW m \in Nat, n <= m, NEW f, NEW g,
         Found(f, cells, S, n), Found(g, cells, S, m)
  PROVE  f[n] = g[n]
<1> DEFINE T == {i \in 0 .. n : f[i] = g[i]}
<1>1. \A i \in 0 .. n : f[i] =
        IF i = 0 THEN << >>
        ELSE IF cells[i] \in S THEN Append(f[i - 1], i) ELSE f[i - 1]
  BY DEF Found
<1>2. \A i \in 0 .. m : g[i] =
        IF i = 0 THEN << >>
        ELSE IF cells[i] \in S THEN Append(g[i - 1], i) ELSE g[i - 1]
  BY DEF Found
<1>3. 0 \in 0 .. n /\ 0 \in 0 .. m /\ n \in 0 .. n
  OBVIOUS
<1>4. \A i \in 1 .. n : i \in 0 .. n /\ i \in 0 .. m /\ i # 0
  OBVIOUS
<1>5. 0 \in T
  BY <1>1, <1>2, <1>3
<1>6. \A i \in 1 .. n : i - 1 \in T => i \in T
  BY <1>1, <1>2, <1>4
<1>7. \A i \in 0 .. n : i \in T
  <2> HIDE DEF T
  <2> QED
    BY <1>5, <1>6, UpTo
<1> QED
  BY <1>3, <1>7

\* Positions is where such a function ends.
LEMMA PositionsFound ==
  ASSUME NEW cells, NEW S, NEW n \in Nat
  PROVE  \E f : Found(f, cells, S, n) /\ Positions(cells, S, n) = f[n]
<1> DEFINE f == CHOOSE f : Found(f, cells, S, n)
<1>1. Found(f, cells, S, n)
  BY FoundExists
<1>2. Positions(cells, S, n) = f[n]
  BY DEF Positions, Found
<1> HIDE DEF f
<1> QED
  BY <1>1, <1>2

LEMMA PositionsZero ==
  ASSUME NEW cells, NEW S
  PROVE  Positions(cells, S, 0) = << >>
<1>1. 0 \in Nat /\ 0 \in 0 .. 0
  OBVIOUS
<1>2. PICK f : Found(f, cells, S, 0) /\ Positions(cells, S, 0) = f[0]
  BY <1>1, PositionsFound
<1> QED
  BY <1>1, <1>2 DEF Found

\* The positions among the first n cells, from those among the first n - 1.
LEMMA PositionsStep ==
  ASSUME NEW cells, NEW S, NEW n \in Nat, n # 0
  PROVE  Positions(cells, S, n) =
           IF cells[n] \in S THEN Append(Positions(cells, S, n - 1), n)
           ELSE Positions(cells, S, n - 1)
<1>1. n - 1 \in Nat /\ n - 1 <= n /\ n \in 0 .. n
  OBVIOUS
<1>2. PICK f : Found(f, cells, S, n) /\ Positions(cells, S, n) = f[n]
  BY PositionsFound
<1>3. PICK g : Found(g, cells, S, n - 1) /\ Positions(cells, S, n - 1) = g[n - 1]
  BY <1>1, PositionsFound
<1>4. g[n - 1] = f[n - 1]
  BY <1>1, <1>2, <1>3, FoundAgree
<1>5. f[n] = IF cells[n] \in S THEN Append(f[n - 1], n) ELSE f[n - 1]
  BY <1>1, <1>2 DEF Found
<1> QED
  BY <1>2, <1>3, <1>4, <1>5

\* The recursive function of Replay: it exists, and two of them agree.
Ran(f, t, ops, n) ==
  f = [i \in 0 .. n |-> IF i = 0 THEN t ELSE ApplyOperation(f[i - 1], ops[i])]

LEMMA RanExists ==
  ASSUME NEW t, NEW ops, NEW n \in Nat
  PROVE  \E f : Ran(f, t, ops, n)
<1> DEFINE T == {k \in 0 .. n : \E f : Ran(f, t, ops, k)}
<1>1. 0 \in T
  <2>1. Ran([i \in 0 .. 0 |-> t], t, ops, 0)
    BY DEF Ran
  <2> QED
    BY <2>1
<1>2. ASSUME NEW k \in 1 .. n, k - 1 \in T
      PROVE  k \in T
  <2>1. k \in Nat \ {0} /\ k - 1 \in Nat
    OBVIOUS
  <2>2. PICK f : Ran(f, t, ops, k - 1)
    BY <1>2
  <2>3. \A i \in 0 .. k - 1 :
          f[i] = IF i = 0 THEN t ELSE ApplyOperation(f[i - 1], ops[i])
    BY <2>2 DEF Ran
  <2> DEFINE g == [i \in 0 .. k |-> IF i < k THEN f[i] ELSE ApplyOperation(f[k - 1], ops[k])]
  <2>4. /\ g = [i \in 0 .. k |-> g[i]] /\ g[k] = ApplyOperation(f[k - 1], ops[k])
        /\ \A i \in 0 .. k - 1 : g[i] = f[i]
    BY <2>1
  <2> HIDE DEF g
  <2>5. ASSUME NEW i \in 0 .. k
        PROVE  g[i] = IF i = 0 THEN t ELSE ApplyOperation(g[i - 1], ops[i])
    <3>1. CASE i = k
      <4>1. k - 1 \in 0 .. k - 1 /\ k # 0
        BY <2>1
      <4> QED
        BY <2>4, <3>1, <4>1
    <3>2. CASE i # k
      <4>1. i \in 0 .. k - 1 /\ (i # 0 => i - 1 \in 0 .. k - 1)
        BY <2>1, <3>2
      <4> QED
        BY <2>3, <2>4, <4>1
    <3> QED
      BY <3>1, <3>2
  <2>6. Ran(g, t, ops, k)
    BY <2>4, <2>5 DEF Ran
  <2> QED
    BY <2>6
<1>3. n \in 0 .. n
  OBVIOUS
<1>4. \A k \in 0 .. n : k \in T
  <2> HIDE DEF T
  <2> QED
    BY <1>1, <1>2, UpTo
<1> QED
  BY <1>3, <1>4

LEMMA RanAgree ==
  ASSUME NEW t, NEW ops, NEW n \in Nat, NEW m \in Nat, n <= m, NEW f, NEW g,
         Ran(f, t, ops, n), Ran(g, t, ops, m)
  PROVE  f[n] = g[n]
<1> DEFINE T == {i \in 0 .. n : f[i] = g[i]}
<1>1. \A i \in 0 .. n : f[i] = IF i = 0 THEN t ELSE ApplyOperation(f[i - 1], ops[i])
  BY DEF Ran
<1>2. \A i \in 0 .. m : g[i] = IF i = 0 THEN t ELSE ApplyOperation(g[i - 1], ops[i])
  BY DEF Ran
<1>3. 0 \in 0 .. n /\ 0 \in 0 .. m /\ n \in 0 .. n
  OBVIOUS
<1>4. \A i \in 1 .. n : i \in 0 .. n /\ i \in 0 .. m /\ i # 0
  OBVIOUS
<1>5. 0 \in T
  BY <1>1, <1>2, <1>3
<1>6. \A i \in 1 .. n : i - 1 \in T => i \in T
  BY <1>1, <1>2, <1>4
<1>7. \A i \in 0 .. n : i \in T
  <2> HIDE DEF T
  <2> QED
    BY <1>5, <1>6, UpTo
<1> QED
  BY <1>3, <1>7

LEMMA ReplayRan ==
  ASSUME NEW t, NEW ops, NEW n \in Nat
  PROVE  \E f : Ran(f, t, ops, n) /\ Replay(t, ops, n) = f[n]
<1> DEFINE f == CHOOSE f : Ran(f, t, ops, n)
<1>1. Ran(f, t, ops, n)
  BY RanExists
<1>2. Replay(t, ops, n) = f[n]
  BY DEF Replay, Ran
<1> HIDE DEF f
<1> QED
  BY <1>1, <1>2

LEMMA ReplayZero ==
  ASSUME NEW t, NEW ops
  PROVE  Replay(t, ops, 0) = t
<1>1. 0 \in Nat /\ 0 \in 0 .. 0
  OBVIOUS
<1>2. PICK f : Ran(f, t, ops, 0) /\ Replay(t, ops, 0) = f[0]
  BY <1>1, ReplayRan
<1> QED
  BY <1>1, <1>2 DEF Ran

\* The table after n operations, from the table after n - 1.
LEMMA ReplayStep ==
  ASSUME NEW t, NEW ops, NEW n \in Nat, n # 0
  PROVE  Replay(t, ops, n) = ApplyOperation(Replay(t, ops, n - 1), ops[n])
<1>1. n - 1 \in Nat /\ n - 1 <= n /\ n \in 0 .. n
  OBVIOUS
<1>2. PICK f : Ran(f, t, ops, n) /\ Replay(t, ops, n) = f[n]
  BY ReplayRan
<1>3. PICK g : Ran(g, t, ops, n - 1) /\ Replay(t, ops, n - 1) = g[n - 1]
  BY <1>1, ReplayRan
<1>4. g[n - 1] = f[n - 1]
  BY <1>1, <1>2, <1>3, RanAgree
<1>5. f[n] = ApplyOperation(f[n - 1], ops[n])
  BY <1>1, <1>2 DEF Ran
<1> QED
  BY <1>2, <1>3, <1>4, <1>5

\* What _load starts from.
Saved(saved) == [version |-> saved.version, table |-> Rebuild(saved.table)]

\* The recursive function of Load: it exists, and two of them agree.
Loading(f, saved, records, n) ==
  f = [i \in 0 .. n |-> IF i = 0 THEN Saved(saved) ELSE LoadRecord(f[i - 1], records[i])]

LEMMA LoadingExists ==
  ASSUME NEW saved, NEW records, NEW n \in Nat
  PROVE  \E f : Loading(f, saved, records, n)
<1> DEFINE T == {k \in 0 .. n : \E f : Loading(f, saved, records, k)}
<1>1. 0 \in T
  <2>1. Loading([i \in 0 .. 0 |-> Saved(saved)], saved, records, 0)
    BY DEF Loading
  <2> QED
    BY <2>1
<1>2. ASSUME NEW k \in 1 .. n, k - 1 \in T
      PROVE  k \in T
  <2>1. k \in Nat \ {0} /\ k - 1 \in Nat
    OBVIOUS
  <2>2. PICK f : Loading(f, saved, records, k - 1)
    BY <1>2
  <2>3. \A i \in 0 .. k - 1 :
          f[i] = IF i = 0 THEN Saved(saved) ELSE LoadRecord(f[i - 1], records[i])
    BY <2>2 DEF Loading
  <2> DEFINE g == [i \in 0 .. k |-> IF i < k THEN f[i] ELSE LoadRecord(f[k - 1], records[k])]
  <2>4. /\ g = [i \in 0 .. k |-> g[i]] /\ g[k] = LoadRecord(f[k - 1], records[k])
        /\ \A i \in 0 .. k - 1 : g[i] = f[i]
    BY <2>1
  <2> HIDE DEF g
  <2>5. ASSUME NEW i \in 0 .. k
        PROVE  g[i] = IF i = 0 THEN Saved(saved) ELSE LoadRecord(g[i - 1], records[i])
    <3>1. CASE i = k
      <4>1. k - 1 \in 0 .. k - 1 /\ k # 0
        BY <2>1
      <4> QED
        BY <2>4, <3>1, <4>1
    <3>2. CASE i # k
      <4>1. i \in 0 .. k - 1 /\ (i # 0 => i - 1 \in 0 .. k - 1)
        BY <2>1, <3>2
      <4> QED
        BY <2>3, <2>4, <4>1
    <3> QED
      BY <3>1, <3>2
  <2>6. Loading(g, saved, records, k)
    BY <2>4, <2>5 DEF Loading
  <2> QED
    BY <2>6
<1>3. n \in 0 .. n
  OBVIOUS
<1>4. \A k \in 0 .. n : k \in T
  <2> HIDE DEF T
  <2> QED
    BY <1>1, <1>2, UpTo
<1> QED
  BY <1>3, <1>4

LEMMA LoadingAgree ==
  ASSUME NEW saved, NEW records, NEW n \in Nat, NEW m \in Nat, n <= m, NEW f, NEW g,
         Loading(f, saved, records, n), Loading(g, saved, records, m)
  PROVE  f[n] = g[n]
<1> DEFINE T == {i \in 0 .. n : f[i] = g[i]}
<1>1. \A i \in 0 .. n : f[i] = IF i = 0 THEN Saved(saved) ELSE LoadRecord(f[i - 1], records[i])
  BY DEF Loading
<1>2. \A i \in 0 .. m : g[i] = IF i = 0 THEN Saved(saved) ELSE LoadRecord(g[i - 1], records[i])
  BY DEF Loading
<1>3. 0 \in 0 .. n /\ 0 \in 0 .. m /\ n \in 0 .. n
  OBVIOUS
<1>4. \A i \in 1 .. n : i \in 0 .. n /\ i \in 0 .. m /\ i # 0
  OBVIOUS
<1>5. 0 \in T
  BY <1>1, <1>2, <1>3
<1>6. \A i \in 1 .. n : i - 1 \in T => i \in T
  BY <1>1, <1>2, <1>4
<1>7. \A i \in 0 .. n : i \in T
  <2> HIDE DEF T
  <2> QED
    BY <1>5, <1>6, UpTo
<1> QED
  BY <1>3, <1>7

LEMMA LoadLoading ==
  ASSUME NEW saved, NEW records, NEW n \in Nat
  PROVE  \E f : Loading(f, saved, records, n) /\ Load(saved, records, n) = f[n]
<1> DEFINE f == CHOOSE f : Loading(f, saved, records, n)
<1>1. Loading(f, saved, records, n)
  BY LoadingExists
<1>2. Load(saved, records, n) = f[n]
  BY DEF Load, Loading, Saved
<1> HIDE DEF f
<1> QED
  BY <1>1, <1>2

LEMMA LoadZero ==
  ASSUME NEW saved, NEW records
  PROVE  Load(saved, records, 0) = Saved(saved)
<1>1. 0 \in Nat /\ 0 \in 0 .. 0
  OBVIOUS
<1>2. PICK f : Loading(f, saved, records, 0) /\ Load(saved, records, 0) = f[0]
  BY <1>1, LoadLoading
<1> QED
  BY <1>1, <1>2 DEF Loading

\* The engine after n records, from the engine after n - 1.
LEMMA LoadStep ==
  ASSUME NEW saved, NEW records, NEW n \in Nat, n # 0
  PROVE  Load(saved, records, n) = LoadRecord(Load(saved, records, n - 1), records[n])
<1>1. n - 1 \in Nat /\ n - 1 <= n /\ n \in 0 .. n
  OBVIOUS
<1>2. PICK f : Loading(f, saved, records, n) /\ Load(saved, records, n) = f[n]
  BY LoadLoading
<1>3. PICK g : Loading(g, saved, records, n - 1) /\ Load(saved, records, n - 1) = g[n - 1]
  BY <1>1, LoadLoading
<1>4. g[n - 1] = f[n - 1]
  BY <1>1, <1>2, <1>3, LoadingAgree
<1>5. f[n] = LoadRecord(f[n - 1], records[n])
  BY <1>1, <1>2 DEF Loading
<1> QED
  BY <1>2, <1>3, <1>4, <1>5
-----------------------------------------------------------------------------
(* Counting cells.                                                         *)

\* How many of the first n cells are v.
CountTo(cells, v, n) == Len(Positions(cells, {v}, n))

One(p) == IF p THEN 1 ELSE 0

\* Positions among n cells are numbers up to n.
LEMMA PositionsType ==
  ASSUME NEW cells, NEW S, NEW n \in Nat
  PROVE  Positions(cells, S, n) \in Seq(1 .. n)
<1> DEFINE T == {k \in 0 .. n : Positions(cells, S, k) \in Seq(1 .. k)}
<1>1. 0 \in T
  <2>1. Positions(cells, S, 0) = << >>
    BY PositionsZero
  <2>2. << >> \in Seq(1 .. 0)
    BY EmptySeq
  <2>3. Positions(cells, S, 0) \in Seq(1 .. 0)
    BY <2>1, <2>2
  <2>4. 0 \in 0 .. n
    OBVIOUS
  <2> QED
    BY <2>3, <2>4
<1>2. ASSUME NEW k \in 1 .. n, k - 1 \in T
      PROVE  k \in T
  <2>1. k \in Nat /\ k # 0 /\ k \in 0 .. n /\ k \in 1 .. k
    OBVIOUS
  <2>2. Positions(cells, S, k - 1) \in Seq(1 .. (k - 1)) /\ 1 .. (k - 1) \subseteq 1 .. k
    BY <1>2
  <2>3. Positions(cells, S, k - 1) \in Seq(1 .. k)
    BY <2>2, SeqMonotonic
  <2>4. Append(Positions(cells, S, k - 1), k) \in Seq(1 .. k)
    BY <2>1, <2>3, AppendProperties
  <2>5. Positions(cells, S, k) \in Seq(1 .. k)
    BY <2>1, <2>3, <2>4, PositionsStep
  <2> QED
    BY <2>1, <2>5
<1>3. \A k \in 0 .. n : k \in T
  <2> HIDE DEF T
  <2> QED
    BY <1>1, <1>2, UpTo
<1> QED
  BY <1>3

LEMMA CountZero ==
  ASSUME NEW cells, NEW v
  PROVE  CountTo(cells, v, 0) = 0
BY PositionsZero DEF CountTo

LEMMA CountStep ==
  ASSUME NEW cells, NEW v, NEW n \in Nat, n # 0
  PROVE  CountTo(cells, v, n) = CountTo(cells, v, n - 1) + One(cells[n] = v)
<1>1. n - 1 \in Nat /\ n \in 1 .. n /\ 1 .. (n - 1) \subseteq 1 .. n
  OBVIOUS
<1> DEFINE before == Positions(cells, {v}, n - 1)
<1>2. before \in Seq(1 .. n)
  BY <1>1, PositionsType, SeqMonotonic
<1>3. Positions(cells, {v}, n) = IF cells[n] \in {v} THEN Append(before, n) ELSE before
  BY PositionsStep
<1>4. Len(before) \in Nat /\ Len(Append(before, n)) = Len(before) + 1
  <2> HIDE DEF before
  <2> QED
    BY <1>1, <1>2, AppendProperties, LenProperties
<1> HIDE DEF before
<1>5. CountTo(cells, v, n - 1) = Len(before)
  BY DEF CountTo, before
<1>6. CASE cells[n] = v
  BY <1>3, <1>4, <1>5, <1>6 DEF CountTo, One
<1>7. CASE cells[n] # v
  BY <1>3, <1>4, <1>5, <1>7 DEF CountTo, One
<1> QED
  BY <1>6, <1>7

LEMMA CountType ==
  ASSUME NEW cells, NEW v, NEW n \in Nat
  PROVE  CountTo(cells, v, n) \in Nat
BY PositionsType, LenProperties DEF CountTo

\* Positions depend only on which of the first n cells are in the set.
LEMMA PositionsSame ==
  ASSUME NEW cells, NEW others, NEW S, NEW n \in Nat,
         \A i \in 1 .. n : cells[i] = others[i]
  PROVE  Positions(cells, S, n) = Positions(others, S, n)
<1> DEFINE T == {k \in 0 .. n : Positions(cells, S, k) = Positions(others, S, k)}
<1>1. 0 \in T
  BY PositionsZero
<1>2. ASSUME NEW k \in 1 .. n, k - 1 \in T
      PROVE  k \in T
  <2>1. k \in Nat /\ k # 0 /\ k \in 0 .. n /\ cells[k] = others[k]
    OBVIOUS
  <2>2. Positions(cells, S, k - 1) = Positions(others, S, k - 1)
    BY <1>2
  <2>3. Positions(cells, S, k) = IF cells[k] \in S THEN Append(Positions(cells, S, k - 1), k)
                                 ELSE Positions(cells, S, k - 1)
    BY <2>1, PositionsStep
  <2>4. Positions(others, S, k) = IF others[k] \in S THEN Append(Positions(others, S, k - 1), k)
                                  ELSE Positions(others, S, k - 1)
    BY <2>1, PositionsStep
  <2>5. Positions(cells, S, k) = Positions(others, S, k)
    BY <2>1, <2>2, <2>3, <2>4
  <2> QED
    BY <2>1, <2>5
<1>3. \A k \in 0 .. n : k \in T
  <2> HIDE DEF T
  <2> QED
    BY <1>1, <1>2, UpTo
<1>4. n \in 0 .. n
  OBVIOUS
<1> QED
  BY <1>3, <1>4

LEMMA CountSame ==
  ASSUME NEW cells, NEW others, NEW v, NEW n \in Nat,
         \A i \in 1 .. n : cells[i] = others[i]
  PROVE  CountTo(cells, v, n) = CountTo(others, v, n)
BY PositionsSame DEF CountTo

\* There is none where no cell is v, and only there.
LEMMA CountNone ==
  ASSUME NEW cells, NEW v, NEW n \in Nat
  PROVE  CountTo(cells, v, n) = 0 <=> \A i \in 1 .. n : cells[i] # v
<1> DEFINE T == {k \in 0 .. n : CountTo(cells, v, k) = 0 <=> \A i \in 1 .. k : cells[i] # v}
<1>1. 0 \in T
  BY CountZero
<1>2. ASSUME NEW k \in 1 .. n, k - 1 \in T
      PROVE  k \in T
  <2>1. k \in Nat /\ k # 0 /\ k \in 0 .. n /\ k - 1 \in Nat
    OBVIOUS
  <2>2. CountTo(cells, v, k) = CountTo(cells, v, k - 1) + One(cells[k] = v)
    BY <2>1, CountStep
  <2>3. CountTo(cells, v, k - 1) \in Nat
    BY <2>1, CountType
  <2>4. CountTo(cells, v, k - 1) = 0 <=> \A i \in 1 .. k - 1 : cells[i] # v
    BY <1>2
  <2>5. (\A i \in 1 .. k : cells[i] # v)
          <=> (\A i \in 1 .. k - 1 : cells[i] # v) /\ cells[k] # v
    BY <2>1
  <2>6. CountTo(cells, v, k) = 0 <=> CountTo(cells, v, k - 1) = 0 /\ cells[k] # v
    BY <2>2, <2>3 DEF One
  <2>7. CountTo(cells, v, k) = 0 <=> \A i \in 1 .. k : cells[i] # v
    BY <2>4, <2>5, <2>6
  <2> QED
    BY <2>1, <2>7
<1>3. \A k \in 0 .. n : k \in T
  <2> HIDE DEF T
  <2> QED
    BY <1>1, <1>2, UpTo
<1>4. n \in 0 .. n
  OBVIOUS
<1> QED
  BY <1>3, <1>4

\* Of one sequence after another.
LEMMA CountConcat ==
  ASSUME NEW T, NEW c \in Seq(T), NEW d \in Seq(T), NEW v
  PROVE  CountTo(c \o d, v, Len(c \o d)) = CountTo(c, v, Len(c)) + CountTo(d, v, Len(d))
<1> DEFINE a == Len(c)  b == Len(d)  e == c \o d
<1>1. a \in Nat /\ b \in Nat /\ Len(e) = a + b
  BY ConcatProperties, LenProperties
<1>2. (\A i \in 1 .. a : e[i] = c[i]) /\ (\A i \in 1 .. b : e[a + i] = d[i])
  <2>1. \A i \in 1 .. a + b : e[i] = IF i <= a THEN c[i] ELSE d[i - a]
    BY ConcatProperties
  <2> HIDE DEF e, a, b
  <2>2. \A i \in 1 .. a : i \in 1 .. a + b /\ i <= a
    BY <1>1
  <2>3. \A i \in 1 .. b : a + i \in 1 .. a + b /\ ~(a + i <= a) /\ (a + i) - a = i
    BY <1>1
  <2> QED
    BY <2>1, <2>2, <2>3
<1> HIDE DEF a, b, e
<1> DEFINE S == {k \in 0 .. b : CountTo(e, v, a + k) = CountTo(c, v, a) + CountTo(d, v, k)}
<1>3. 0 \in S
  <2>1. CountTo(e, v, a) = CountTo(c, v, a)
    BY <1>1, <1>2, CountSame
  <2>2. CountTo(d, v, 0) = 0 /\ CountTo(c, v, a) \in Nat /\ a + 0 = a
    BY <1>1, CountZero, CountType
  <2>3. 0 \in 0 .. b
    BY <1>1
  <2> QED
    BY <2>1, <2>2, <2>3
<1>4. ASSUME NEW k \in 1 .. b, k - 1 \in S
      PROVE  k \in S
  <2>1. /\ k \in Nat /\ k # 0 /\ k \in 0 .. b /\ k - 1 \in Nat
        /\ a + k \in Nat /\ a + k # 0 /\ (a + k) - 1 = a + (k - 1)
    BY <1>1
  <2>2. CountTo(e, v, a + k) = CountTo(e, v, a + (k - 1)) + One(e[a + k] = v)
    BY <2>1, CountStep
  <2>3. CountTo(d, v, k) = CountTo(d, v, k - 1) + One(d[k] = v)
    BY <2>1, CountStep
  <2>4. CountTo(e, v, a + (k - 1)) = CountTo(c, v, a) + CountTo(d, v, k - 1)
    BY <1>4
  <2>5. e[a + k] = d[k]
    BY <1>2
  <2>6. /\ CountTo(c, v, a) \in Nat /\ CountTo(d, v, k - 1) \in Nat
        /\ One(d[k] = v) \in Nat
    BY <1>1, <2>1, CountType DEF One
  <2>7. CountTo(e, v, a + k) = CountTo(c, v, a) + CountTo(d, v, k)
    BY <2>2, <2>3, <2>4, <2>5, <2>6
  <2> QED
    BY <2>1, <2>7
<1>5. \A k \in 0 .. b : k \in S
  <2> HIDE DEF S
  <2> QED
    BY <1>1, <1>3, <1>4, UpTo
<1>6. b \in 0 .. b
  BY <1>1
<1>7. CountTo(e, v, a + b) = CountTo(c, v, a) + CountTo(d, v, b)
  BY <1>5, <1>6
<1> QED
  BY <1>1, <1>7 DEF a, b, e

\* With one cell more.
LEMMA CountAppend ==
  ASSUME NEW T, NEW c \in Seq(T), NEW w \in T, NEW v
  PROVE  CountTo(Append(c, w), v, Len(Append(c, w))) = CountTo(c, v, Len(c)) + One(w = v)
<1> DEFINE d == Append(c, w)
<1>1. /\ Len(c) \in Nat /\ Len(d) = Len(c) + 1 /\ d[Len(c) + 1] = w
      /\ \A i \in 1 .. Len(c) : d[i] = c[i]
  BY AppendProperties, LenProperties
<1> HIDE DEF d
<1>2. Len(c) + 1 \in Nat /\ Len(c) + 1 # 0 /\ (Len(c) + 1) - 1 = Len(c)
  BY <1>1
<1>3. CountTo(d, v, Len(c) + 1) = CountTo(d, v, Len(c)) + One(w = v)
  BY <1>1, <1>2, CountStep
<1>4. CountTo(d, v, Len(c)) = CountTo(c, v, Len(c))
  BY <1>1, CountSame
<1> QED
  BY <1>1, <1>3, <1>4 DEF d

\* With a cell in the place of another.
LEMMA CountReplace ==
  ASSUME NEW T, NEW c \in Seq(T), NEW i \in 1 .. Len(c), NEW w \in T, NEW v
  PROVE  CountTo([c EXCEPT ![i] = w], v, Len(c)) + One(c[i] = v)
           = CountTo(c, v, Len(c)) + One(w = v)
<1> DEFINE d == [c EXCEPT ![i] = w]  n == Len(c)
<1>1. n \in Nat /\ i \in 1 .. n
  BY LenProperties
<1>2. \A j \in 1 .. n : d[j] = IF j = i THEN w ELSE c[j]
  BY ExceptSeq
<1> HIDE DEF d, n
<1> DEFINE S == {k \in 0 .. n : i <= k =>
                  CountTo(d, v, k) + One(c[i] = v) = CountTo(c, v, k) + One(w = v)}
<1>3. 0 \in S
  BY <1>1
<1>4. ASSUME NEW k \in 1 .. n, k - 1 \in S, i <= k
      PROVE  CountTo(d, v, k) + One(c[i] = v) = CountTo(c, v, k) + One(w = v)
  <2>1. k \in Nat /\ k # 0 /\ k - 1 \in Nat /\ i \in Nat
    BY <1>1
  <2>2. CountTo(d, v, k) = CountTo(d, v, k - 1) + One(d[k] = v)
    BY <2>1, CountStep
  <2>3. CountTo(c, v, k) = CountTo(c, v, k - 1) + One(c[k] = v)
    BY <2>1, CountStep
  <2>4. /\ CountTo(c, v, k - 1) \in Nat /\ CountTo(d, v, k - 1) \in Nat
        /\ One(c[k] = v) \in Nat /\ One(w = v) \in Nat /\ One(c[i] = v) \in Nat
    BY <2>1, CountType DEF One
  <2>5. CASE i = k
    <3>1. \A j \in 1 .. k - 1 : d[j] = c[j]
      BY <1>1, <1>2, <2>1, <2>5
    <3>2. CountTo(d, v, k - 1) = CountTo(c, v, k - 1)
      BY <2>1, <3>1, CountSame
    <3>3. d[k] = w
      BY <1>2, <2>5
    <3> QED
      BY <2>2, <2>3, <2>4, <2>5, <3>2, <3>3
  <2>6. CASE i # k
    <3>1. i <= k - 1
      BY <1>4, <2>1, <2>6
    <3>2. CountTo(d, v, k - 1) + One(c[i] = v) = CountTo(c, v, k - 1) + One(w = v)
      BY <1>4, <3>1
    <3>3. d[k] = c[k]
      BY <1>2, <2>6
    <3>4. CountTo(d, v, k) = CountTo(d, v, k - 1) + One(c[k] = v)
      BY <2>2, <3>3
    <3> DEFINE x == CountTo(c, v, k - 1)  y == CountTo(d, v, k - 1)
               a == One(c[k] = v)  b == One(w = v)  e == One(c[i] = v)
    <3>5. /\ CountTo(d, v, k) = y + a /\ CountTo(c, v, k) = x + a /\ y + e = x + b
          /\ x \in Nat /\ y \in Nat /\ a \in Nat /\ b \in Nat /\ e \in Nat
      BY <2>3, <2>4, <3>2, <3>4
    <3> HIDE DEF x, y, a, b, e
    <3>6. CountTo(d, v, k) + e = CountTo(c, v, k) + b
      BY <3>5
    <3> QED
      BY <3>6 DEF b, e
  <2> QED
    BY <2>5, <2>6
<1>5. \A k \in 1 .. n : k - 1 \in S => k \in S
  BY <1>4
<1>6. \A k \in 0 .. n : k \in S
  <2> HIDE DEF S
  <2> QED
    BY <1>1, <1>3, <1>5, UpTo
<1>7. n \in 0 .. n /\ i <= n
  BY <1>1
<1>8. CountTo(d, v, n) + One(c[i] = v) = CountTo(c, v, n) + One(w = v)
  BY <1>6, <1>7
<1> QED
  BY <1>8 DEF d, n

\* What is left when one element is taken out.
LEMMA RemoveAtIs ==
  ASSUME NEW T, NEW c \in Seq(T), NEW i \in 1 .. Len(c)
  PROVE  /\ RemoveAt(c, i) \in Seq(T)
         /\ Len(RemoveAt(c, i)) = Len(c) - 1
         /\ \A j \in 1 .. Len(c) - 1 : RemoveAt(c, i)[j] = IF j < i THEN c[j] ELSE c[j + 1]
<1> DEFINE n == Len(c)  a == SubSeq(c, 1, i - 1)  b == SubSeq(c, i + 1, n)
<1>1. n \in Nat /\ i \in 1 .. n /\ \A j \in 1 .. n : c[j] \in T
  BY LenProperties, ElementOfSeq
<1> HIDE DEF n
<1>2. /\ a \in Seq(T) /\ Len(a) = i - 1 /\ \A j \in 1 .. i - 1 : a[j] = c[j]
  <2>1. i - 1 \in Int /\ 1 \in Int /\ \A j \in 1 .. i - 1 : j \in 1 .. n
    BY <1>1
  <2>2. /\ a \in Seq(T) /\ Len(a) = (IF 1 <= i - 1 THEN (i - 1) - 1 + 1 ELSE 0)
        /\ \A j \in 1 .. (i - 1) - 1 + 1 : a[j] = c[1 + j - 1]
    BY <1>1, <2>1, SubSeqProperties
  <2> HIDE DEF a
  <2>3. \A j \in 1 .. i - 1 : j \in 1 .. (i - 1) - 1 + 1 /\ 1 + j - 1 = j
    BY <1>1
  <2> QED
    BY <1>1, <2>2, <2>3
<1>3. /\ b \in Seq(T) /\ Len(b) = n - i /\ \A j \in 1 .. n - i : b[j] = c[i + j]
  <2>1. i + 1 \in Int /\ n \in Int /\ \A j \in i + 1 .. n : j \in 1 .. n
    BY <1>1
  <2>2. /\ b \in Seq(T) /\ Len(b) = (IF i + 1 <= n THEN n - (i + 1) + 1 ELSE 0)
        /\ \A j \in 1 .. n - (i + 1) + 1 : b[j] = c[(i + 1) + j - 1]
    BY <1>1, <2>1, SubSeqProperties
  <2> HIDE DEF b
  <2>3. \A j \in 1 .. n - i : j \in 1 .. n - (i + 1) + 1 /\ (i + 1) + j - 1 = i + j
    BY <1>1
  <2>4. Len(b) = n - i
    BY <1>1, <2>2
  <2> QED
    BY <2>2, <2>3, <2>4
<1>4. RemoveAt(c, i) = a \o b
  BY DEF RemoveAt, n
<1> HIDE DEF a, b
<1>5. /\ a \o b \in Seq(T) /\ Len(a \o b) = Len(a) + Len(b)
      /\ \A j \in 1 .. Len(a) + Len(b) :
           (a \o b)[j] = IF j <= Len(a) THEN a[j] ELSE b[j - Len(a)]
  BY <1>2, <1>3, ConcatProperties
<1>6. Len(a) + Len(b) = n - 1
  BY <1>1, <1>2, <1>3
<1>7. ASSUME NEW j \in 1 .. n - 1
      PROVE  (a \o b)[j] = IF j < i THEN c[j] ELSE c[j + 1]
  <2>1. (a \o b)[j] = IF j <= i - 1 THEN a[j] ELSE b[j - (i - 1)]
    BY <1>2, <1>5, <1>6
  <2>2. CASE j < i
    <3>1. j \in 1 .. i - 1 /\ j <= i - 1
      BY <1>1, <2>2
    <3> QED
      BY <1>2, <2>1, <2>2, <3>1
  <2>3. CASE ~(j < i)
    <3>1. j - (i - 1) \in 1 .. n - i /\ ~(j <= i - 1) /\ i + (j - (i - 1)) = j + 1
      BY <1>1, <2>3
    <3> QED
      BY <1>3, <2>1, <2>3, <3>1
  <2> QED
    BY <2>2, <2>3
<1> QED
  BY <1>4, <1>5, <1>6, <1>7 DEF n

LEMMA CountRemove ==
  ASSUME NEW T, NEW c \in Seq(T), NEW i \in 1 .. Len(c), NEW v
  PROVE  CountTo(RemoveAt(c, i), v, Len(RemoveAt(c, i))) + One(c[i] = v)
           = CountTo(c, v, Len(c))
<1> DEFINE d == RemoveAt(c, i)  n == Len(c)
<1>1. n \in Nat /\ i \in 1 .. n /\ n - 1 \in Nat
  BY LenProperties
<1>2. Len(d) = n - 1 /\ \A j \in 1 .. n - 1 : d[j] = IF j < i THEN c[j] ELSE c[j + 1]
  BY RemoveAtIs
<1> HIDE DEF d, n
<1> DEFINE S == {k \in 0 .. n - 1 : i <= k + 1 =>
                  CountTo(d, v, k) + One(c[i] = v) = CountTo(c, v, k + 1)}
<1>0. ASSUME NEW k \in 0 .. n - 1, i = k + 1
      PROVE  CountTo(d, v, k) + One(c[i] = v) = CountTo(c, v, k + 1)
  <2>1. k \in Nat /\ k + 1 \in Nat /\ k + 1 # 0 /\ (k + 1) - 1 = k
    BY <1>1
  <2>2. CountTo(c, v, k + 1) = CountTo(c, v, k) + One(c[k + 1] = v)
    BY <2>1, CountStep
  <2>3. \A j \in 1 .. k : d[j] = c[j]
    BY <1>0, <1>1, <1>2
  <2>4. CountTo(d, v, k) = CountTo(c, v, k)
    BY <2>1, <2>3, CountSame
  <2> QED
    BY <1>0, <2>2, <2>4
<1>3. 0 \in S
  <2>1. 0 \in 0 .. n - 1 /\ (i <= 0 + 1 => i = 0 + 1)
    BY <1>1
  <2> QED
    BY <1>0, <2>1
<1>4. ASSUME NEW k \in 1 .. n - 1, k - 1 \in S, i <= k + 1
      PROVE  CountTo(d, v, k) + One(c[i] = v) = CountTo(c, v, k + 1)
  <2>1. k \in Nat /\ k # 0 /\ k - 1 \in Nat /\ k + 1 \in Nat /\ k + 1 # 0 /\ (k + 1) - 1 = k
    BY <1>1
  <2>2. CASE i = k + 1
    BY <1>0, <2>2
  <2>3. CASE i # k + 1
    <3>1. i <= (k - 1) + 1 /\ ~(k < i)
      BY <1>1, <1>4, <2>3
    <3>2. CountTo(d, v, k - 1) + One(c[i] = v) = CountTo(c, v, k)
      <4>1. CountTo(d, v, k - 1) + One(c[i] = v) = CountTo(c, v, (k - 1) + 1)
        BY <1>4, <3>1
      <4>2. (k - 1) + 1 = k
        BY <2>1
      <4> QED
        BY <4>1, <4>2
    <3>3. CountTo(d, v, k) = CountTo(d, v, k - 1) + One(c[k + 1] = v)
      <4>1. d[k] = c[k + 1]
        BY <1>2, <3>1
      <4> QED
        BY <2>1, <4>1, CountStep
    <3>4. CountTo(c, v, k + 1) = CountTo(c, v, k) + One(c[k + 1] = v)
      BY <2>1, CountStep
    <3>5. /\ CountTo(d, v, k - 1) \in Nat /\ CountTo(c, v, k) \in Nat
          /\ One(c[i] = v) \in Nat /\ One(c[k + 1] = v) \in Nat
      BY <2>1, CountType DEF One
    <3> QED
      BY <3>2, <3>3, <3>4, <3>5
  <2> QED
    BY <2>2, <2>3
<1>5. \A k \in 1 .. n - 1 : k - 1 \in S => k \in S
  BY <1>4
<1>6. \A k \in 0 .. n - 1 : k \in S
  <2> HIDE DEF S
  <2> QED
    BY <1>1, <1>3, <1>5, UpTo
<1>7. n - 1 \in 0 .. n - 1 /\ i <= (n - 1) + 1 /\ (n - 1) + 1 = n
  BY <1>1
<1>8. CountTo(d, v, n - 1) + One(c[i] = v) = CountTo(c, v, n)
  BY <1>6, <1>7
<1> QED
  BY <1>2, <1>8 DEF d, n

-----------------------------------------------------------------------------
(* The cells of rows.                                                      *)

\* The rows of an engine, or those of a transaction too.
RowSet(R) == OwnRows \subseteq R /\ R \subseteq Rows

LEMMA RowSets ==
  RowSet(OwnRows) /\ RowSet(Rows)
BY DEF RowSet, OwnRows, Rows

LEMMA RowCell ==
  ASSUME NEW R, RowSet(R), NEW row \in R
  PROVE  row.v \in Cells
BY DEF RowSet, Rows

LEMMA OwnIs ==
  ASSUME NEW v \in Cells
  PROVE  Own(v).v = v /\ Own(v).src = << >> /\ Own(v) \in OwnRows
BY DEF Own, OwnRows

LEMMA ContentsIs ==
  ASSUME NEW R, RowSet(R), NEW rows \in Seq(R)
  PROVE  /\ Contents(rows) \in Seq(Cells) /\ Len(Contents(rows)) = Len(rows)
         /\ Len(rows) \in Nat /\ DOMAIN rows = 1 .. Len(rows)
         /\ \A i \in 1 .. Len(rows) : Contents(rows)[i] = rows[i].v
<1>1. Len(rows) \in Nat /\ DOMAIN rows = 1 .. Len(rows)
  BY LenProperties
<1>2. \A i \in 1 .. Len(rows) : rows[i].v \in Cells
  BY ElementOfSeq, RowCell
<1>3. Contents(rows) = [i \in 1 .. Len(rows) |-> rows[i].v]
  BY <1>1 DEF Contents
<1> DEFINE n == Len(rows)
<1> HIDE DEF n
<1>4. [i \in 1 .. n |-> rows[i].v] \in Seq(Cells) /\ Len([i \in 1 .. n |-> rows[i].v]) = n
  BY <1>1, <1>2 DEF n
<1> QED
  BY <1>1, <1>3, <1>4 DEF n

\* Rows with the same cells have the same contents.
LEMMA ContentsEqual ==
  ASSUME NEW R, RowSet(R), NEW rows \in Seq(R), NEW c \in Seq(Cells),
         Len(c) = Len(rows), \A i \in 1 .. Len(rows) : c[i] = rows[i].v
  PROVE  Contents(rows) = c
<1>1. /\ Contents(rows) \in Seq(Cells) /\ Len(Contents(rows)) = Len(c)
      /\ \A i \in 1 .. Len(Contents(rows)) : Contents(rows)[i] = c[i]
  BY ContentsIs
<1> QED
  BY <1>1, SeqEqual

LEMMA ContentsAppend ==
  ASSUME NEW R, RowSet(R), NEW rows \in Seq(R), NEW row \in R
  PROVE  Contents(Append(rows, row)) = Append(Contents(rows), row.v)
<1> DEFINE more == Append(rows, row)  c == Append(Contents(rows), row.v)
<1>1. /\ Contents(rows) \in Seq(Cells) /\ Len(Contents(rows)) = Len(rows)
      /\ Len(rows) \in Nat /\ row.v \in Cells
      /\ \A i \in 1 .. Len(rows) : Contents(rows)[i] = rows[i].v
  BY ContentsIs, RowCell
<1>2. /\ more \in Seq(R) /\ Len(more) = Len(rows) + 1 /\ more[Len(rows) + 1] = row
      /\ \A i \in 1 .. Len(rows) : more[i] = rows[i]
  BY AppendProperties
<1>3. /\ c \in Seq(Cells) /\ Len(c) = Len(rows) + 1 /\ c[Len(rows) + 1] = row.v
      /\ \A i \in 1 .. Len(rows) : c[i] = Contents(rows)[i]
  BY <1>1, AppendProperties
<1> HIDE DEF more, c
<1>4. \A i \in 1 .. Len(rows) + 1 : i \in 1 .. Len(rows) \/ i = Len(rows) + 1
  BY <1>1
<1>5. \A i \in 1 .. Len(more) : c[i] = more[i].v
  BY <1>1, <1>2, <1>3, <1>4
<1> QED
  BY <1>2, <1>3, <1>5, ContentsEqual DEF more, c

LEMMA ContentsConcat ==
  ASSUME NEW R, RowSet(R), NEW rows \in Seq(R), NEW more \in Seq(R)
  PROVE  Contents(rows \o more) = Contents(rows) \o Contents(more)
<1> DEFINE a == Contents(rows)  b == Contents(more)
<1>1. /\ a \in Seq(Cells) /\ Len(a) = Len(rows) /\ Len(rows) \in Nat
      /\ \A i \in 1 .. Len(rows) : a[i] = rows[i].v
  BY ContentsIs
<1>2. /\ b \in Seq(Cells) /\ Len(b) = Len(more) /\ Len(more) \in Nat
      /\ \A i \in 1 .. Len(more) : b[i] = more[i].v
  BY ContentsIs
<1> HIDE DEF a, b
<1>3. /\ a \o b \in Seq(Cells) /\ Len(a \o b) = Len(rows) + Len(more)
      /\ \A i \in 1 .. Len(rows) + Len(more) :
           (a \o b)[i] = IF i <= Len(rows) THEN a[i] ELSE b[i - Len(rows)]
  <2>1. /\ a \o b \in Seq(Cells) /\ Len(a \o b) = Len(a) + Len(b)
        /\ \A i \in 1 .. Len(a) + Len(b) :
             (a \o b)[i] = IF i <= Len(a) THEN a[i] ELSE b[i - Len(a)]
    <3>1. a \in Seq(Cells) /\ b \in Seq(Cells)
      BY <1>1, <1>2
    <3> QED
      BY <3>1, ConcatProperties
  <2>2. Len(a) = Len(rows) /\ Len(b) = Len(more)
    BY <1>1, <1>2
  <2> QED
    BY <2>1, <2>2
<1>4. /\ rows \o more \in Seq(R) /\ Len(rows \o more) = Len(rows) + Len(more)
      /\ \A i \in 1 .. Len(rows) + Len(more) :
           (rows \o more)[i] = IF i <= Len(rows) THEN rows[i] ELSE more[i - Len(rows)]
  BY ConcatProperties
<1>5. ASSUME NEW i \in 1 .. Len(rows) + Len(more)
      PROVE  (a \o b)[i] = (rows \o more)[i].v
  <2>1. CASE i <= Len(rows)
    <3>1. i \in 1 .. Len(rows)
      BY <1>1, <2>1
    <3> QED
      BY <1>1, <1>3, <1>4, <2>1, <3>1
  <2>2. CASE ~(i <= Len(rows))
    <3>1. i - Len(rows) \in 1 .. Len(more)
      BY <1>1, <1>2, <2>2
    <3> QED
      BY <1>2, <1>3, <1>4, <2>2, <3>1
  <2> QED
    BY <2>1, <2>2
<1> QED
  BY <1>3, <1>4, <1>5, ContentsEqual DEF a, b

LEMMA ContentsReplace ==
  ASSUME NEW R, RowSet(R), NEW rows \in Seq(R), NEW i \in 1 .. Len(rows), NEW row \in R
  PROVE  Contents([rows EXCEPT ![i] = row]) = [Contents(rows) EXCEPT ![i] = row.v]
<1> DEFINE d == [rows EXCEPT ![i] = row]  c == [Contents(rows) EXCEPT ![i] = row.v]
<1>1. /\ Contents(rows) \in Seq(Cells) /\ Len(Contents(rows)) = Len(rows) /\ row.v \in Cells
      /\ \A j \in 1 .. Len(rows) : Contents(rows)[j] = rows[j].v
  BY ContentsIs, RowCell
<1>2. /\ d \in Seq(R) /\ Len(d) = Len(rows)
      /\ \A j \in 1 .. Len(rows) : d[j] = IF j = i THEN row ELSE rows[j]
  BY ExceptSeq
<1>3. /\ c \in Seq(Cells) /\ Len(c) = Len(rows)
      /\ \A j \in 1 .. Len(rows) : c[j] = IF j = i THEN row.v ELSE Contents(rows)[j]
  BY <1>1, ExceptSeq
<1> HIDE DEF d, c
<1>4. \A j \in 1 .. Len(d) : c[j] = d[j].v
  BY <1>1, <1>2, <1>3
<1>5. Contents(d) = c
  BY <1>2, <1>3, <1>4, ContentsEqual
<1> QED
  BY <1>5 DEF d, c

LEMMA ContentsRemove ==
  ASSUME NEW R, RowSet(R), NEW rows \in Seq(R), NEW i \in 1 .. Len(rows)
  PROVE  Contents(RemoveAt(rows, i)) = RemoveAt(Contents(rows), i)
<1> DEFINE d == RemoveAt(rows, i)  b == Contents(rows)  c == RemoveAt(b, i)
<1>1. /\ b \in Seq(Cells) /\ Len(b) = Len(rows) /\ Len(rows) \in Nat
      /\ \A j \in 1 .. Len(rows) : b[j] = rows[j].v
  BY ContentsIs
<1>2. /\ d \in Seq(R) /\ Len(d) = Len(rows) - 1
      /\ \A j \in 1 .. Len(rows) - 1 : d[j] = IF j < i THEN rows[j] ELSE rows[j + 1]
  BY RemoveAtIs
<1> HIDE DEF b
<1>3. /\ c \in Seq(Cells) /\ Len(c) = Len(rows) - 1
      /\ \A j \in 1 .. Len(rows) - 1 : c[j] = IF j < i THEN b[j] ELSE b[j + 1]
  <2>1. b \in Seq(Cells) /\ i \in 1 .. Len(b) /\ Len(b) = Len(rows)
    BY <1>1
  <2>2. /\ c \in Seq(Cells) /\ Len(c) = Len(b) - 1
        /\ \A j \in 1 .. Len(b) - 1 : c[j] = IF j < i THEN b[j] ELSE b[j + 1]
    BY <2>1, RemoveAtIs
  <2> QED
    BY <2>1, <2>2
<1> HIDE DEF d, c
<1>4. \A j \in 1 .. Len(rows) - 1 : j \in 1 .. Len(rows) /\ j + 1 \in 1 .. Len(rows)
  BY <1>1
<1>5. \A j \in 1 .. Len(d) : c[j] = d[j].v
  BY <1>1, <1>2, <1>3, <1>4
<1> QED
  BY <1>2, <1>3, <1>5, ContentsEqual DEF d, c, b

\* So the count of a cell follows what becomes of the rows.
LEMMA CountIs ==
  ASSUME NEW R, RowSet(R), NEW rows \in Seq(R), NEW v
  PROVE  /\ Count(rows, v) = CountTo(Contents(rows), v, Len(Contents(rows)))
         /\ Count(rows, v) \in Nat
<1>1. Len(Contents(rows)) = Len(rows) /\ Len(rows) \in Nat
  BY ContentsIs
<1>2. Count(rows, v) = CountTo(Contents(rows), v, Len(rows))
  BY DEF Count, Scan, CountTo
<1> QED
  BY <1>1, <1>2, CountType

LEMMA CountOfAppend ==
  ASSUME NEW R, RowSet(R), NEW rows \in Seq(R), NEW row \in R, NEW v
  PROVE  Count(Append(rows, row), v) = Count(rows, v) + One(row.v = v)
<1>1. Append(rows, row) \in Seq(R) /\ Contents(rows) \in Seq(Cells) /\ row.v \in Cells
  BY AppendProperties, ContentsIs, RowCell
<1>2. Contents(Append(rows, row)) = Append(Contents(rows), row.v)
  BY ContentsAppend
<1>3. Count(Append(rows, row), v)
        = CountTo(Append(Contents(rows), row.v), v, Len(Append(Contents(rows), row.v)))
  BY <1>1, <1>2, CountIs
<1>4. Count(rows, v) = CountTo(Contents(rows), v, Len(Contents(rows)))
  BY CountIs
<1> QED
  BY <1>1, <1>3, <1>4, CountAppend

LEMMA CountOfConcat ==
  ASSUME NEW R, RowSet(R), NEW rows \in Seq(R), NEW more \in Seq(R), NEW v
  PROVE  Count(rows \o more, v) = Count(rows, v) + Count(more, v)
<1>1. rows \o more \in Seq(R) /\ Contents(rows) \in Seq(Cells) /\ Contents(more) \in Seq(Cells)
  BY ConcatProperties, ContentsIs
<1>2. Contents(rows \o more) = Contents(rows) \o Contents(more)
  BY ContentsConcat
<1>3. Count(rows \o more, v) = CountTo(Contents(rows) \o Contents(more), v,
                                       Len(Contents(rows) \o Contents(more)))
  BY <1>1, <1>2, CountIs
<1>4. /\ Count(rows, v) = CountTo(Contents(rows), v, Len(Contents(rows)))
      /\ Count(more, v) = CountTo(Contents(more), v, Len(Contents(more)))
  BY CountIs
<1> QED
  BY <1>1, <1>3, <1>4, CountConcat

LEMMA CountOfReplace ==
  ASSUME NEW R, RowSet(R), NEW rows \in Seq(R), NEW i \in 1 .. Len(rows), NEW row \in R, NEW v
  PROVE  Count([rows EXCEPT ![i] = row], v) + One(rows[i].v = v)
           = Count(rows, v) + One(row.v = v)
<1> DEFINE c == Contents(rows)
<1>1. /\ [rows EXCEPT ![i] = row] \in Seq(R) /\ row.v \in Cells
      /\ c \in Seq(Cells) /\ Len(c) = Len(rows) /\ c[i] = rows[i].v
  BY ExceptSeq, ContentsIs, RowCell
<1>2. Contents([rows EXCEPT ![i] = row]) = [c EXCEPT ![i] = row.v]
  BY ContentsReplace
<1>3. Count(rows, v) = CountTo(c, v, Len(c))
  BY CountIs
<1>4. Count([rows EXCEPT ![i] = row], v)
        = CountTo([c EXCEPT ![i] = row.v], v, Len([c EXCEPT ![i] = row.v]))
  BY <1>1, <1>2, CountIs
<1> HIDE DEF c
<1>5. Len([c EXCEPT ![i] = row.v]) = Len(c) /\ i \in 1 .. Len(c)
  BY <1>1, ExceptSeq
<1> QED
  BY <1>1, <1>3, <1>4, <1>5, CountReplace

LEMMA CountOfRemove ==
  ASSUME NEW R, RowSet(R), NEW rows \in Seq(R), NEW i \in 1 .. Len(rows), NEW v
  PROVE  Count(RemoveAt(rows, i), v) + One(rows[i].v = v) = Count(rows, v)
<1> DEFINE c == Contents(rows)
<1>1. /\ RemoveAt(rows, i) \in Seq(R)
      /\ c \in Seq(Cells) /\ Len(c) = Len(rows) /\ c[i] = rows[i].v
  BY RemoveAtIs, ContentsIs
<1>2. Contents(RemoveAt(rows, i)) = RemoveAt(c, i)
  BY ContentsRemove
<1>3. Count(rows, v) = CountTo(c, v, Len(c))
  BY CountIs
<1>4. Count(RemoveAt(rows, i), v) = CountTo(RemoveAt(c, i), v, Len(RemoveAt(c, i)))
  BY <1>1, <1>2, CountIs
<1> HIDE DEF c
<1> QED
  BY <1>1, <1>3, <1>4, CountRemove

LEMMA CountOfNone ==
  ASSUME NEW R, RowSet(R), NEW rows \in Seq(R), NEW v
  PROVE  Count(rows, v) = 0 <=> \A i \in 1 .. Len(rows) : rows[i].v # v
<1>1. /\ Len(Contents(rows)) = Len(rows) /\ Len(rows) \in Nat
      /\ \A i \in 1 .. Len(rows) : Contents(rows)[i] = rows[i].v
  BY ContentsIs
<1>2. Count(rows, v) = CountTo(Contents(rows), v, Len(rows))
  BY <1>1, CountIs
<1> QED
  BY <1>1, <1>2, CountNone

-----------------------------------------------------------------------------
(* What the caches of a table are.                                         *)

KeysOf(keyed, rows) == IF keyed THEN ToSet(Contents(rows)) ELSE {}
IndexOf(indexed, rows) == IF indexed THEN [v \in Cells |-> Scan(rows, v)] ELSE NoIndex

Cached(t) == t.keys = KeysOf(t.keyed, t.rows) /\ t.index = IndexOf(t.indexed, t.rows)

\* Two tables that differ in their caches only.
SameRows(s, t) ==
  s.exists = t.exists /\ s.keyed = t.keyed /\ s.indexed = t.indexed /\ s.rows = t.rows

LEMMA ScanType ==
  ASSUME NEW R, RowSet(R), NEW rows \in Seq(R), NEW v
  PROVE  Scan(rows, v) \in Seq(Nat)
<1>1. Len(rows) \in Nat /\ 1 .. Len(rows) \subseteq Nat
  BY LenProperties
<1>2. Scan(rows, v) \in Seq(1 .. Len(rows))
  BY <1>1, PositionsType DEF Scan
<1> QED
  BY <1>1, <1>2, SeqMonotonic

LEMMA CacheTypes ==
  ASSUME NEW R, RowSet(R), NEW rows \in Seq(R), NEW keyed, NEW indexed
  PROVE  /\ KeysOf(keyed, rows) \in SUBSET Cells
         /\ IndexOf(indexed, rows) \in [Cells -> Seq(Nat)]
         /\ NoIndex \in [Cells -> Seq(Nat)]
<1>1. /\ DOMAIN Contents(rows) = 1 .. Len(Contents(rows))
      /\ \A i \in 1 .. Len(Contents(rows)) : Contents(rows)[i] \in Cells
  BY ContentsIs, LenProperties, ElementOfSeq
<1>2. KeysOf(keyed, rows) \in SUBSET Cells
  BY <1>1 DEF KeysOf, ToSet
<1>3. NoIndex \in [Cells -> Seq(Nat)]
  BY EmptySeq DEF NoIndex
<1>4. \A v \in Cells : Scan(rows, v) \in Seq(Nat)
  BY ScanType
<1>5. IndexOf(indexed, rows) \in [Cells -> Seq(Nat)]
  BY <1>3, <1>4 DEF IndexOf
<1> QED
  BY <1>2, <1>3, <1>5

\* A table from its fields.
LEMMA TableIs ==
  ASSUME NEW R, NEW s \in TablesOf(R), NEW t \in TablesOf(R),
         SameRows(s, t), s.keys = t.keys, s.index = t.index
  PROVE  s = t
BY DEF TablesOf, SameRows

LEMMA RebuildIs ==
  ASSUME NEW R, RowSet(R), NEW t \in TablesOf(R)
  PROVE  Rebuild(t) \in TablesOf(R) /\ SameRows(Rebuild(t), t) /\ Cached(Rebuild(t))
<1>1. t.rows \in Seq(R)
  BY DEF TablesOf
<1> DEFINE k == KeysOf(t.keyed, t.rows)  x == IndexOf(t.indexed, t.rows)
<1>2. k \in SUBSET Cells /\ x \in [Cells -> Seq(Nat)]
  BY <1>1, CacheTypes
<1>3. Rebuild(t) = [[t EXCEPT !.keys = k] EXCEPT !.index = x]
  BY DEF Rebuild, KeysOf, IndexOf
<1> HIDE DEF k, x
<1> DEFINE s == [t EXCEPT !.keys = k]
<1>4. s \in TablesOf(R) /\ SameRows(s, t) /\ s.keys = k
  BY <1>2 DEF TablesOf, SameRows
<1> HIDE DEF s
<1>5. /\ [s EXCEPT !.index = x] \in TablesOf(R) /\ SameRows([s EXCEPT !.index = x], s)
      /\ [s EXCEPT !.index = x].keys = s.keys /\ [s EXCEPT !.index = x].index = x
  BY <1>2, <1>4 DEF TablesOf, SameRows
<1>6. Rebuild(t) \in TablesOf(R) /\ SameRows(Rebuild(t), t)
  BY <1>3, <1>4, <1>5 DEF SameRows, s
<1>7. Rebuild(t).keys = k /\ Rebuild(t).index = x
  BY <1>3, <1>4, <1>5 DEF s
<1>8. Cached(Rebuild(t))
  BY <1>6, <1>7 DEF Cached, SameRows, k, x
<1> QED
  BY <1>6, <1>8

\* A table is what it would be rebuilt to when its caches are right.
LEMMA CachedIs ==
  ASSUME NEW R, RowSet(R), NEW t \in TablesOf(R)
  PROVE  t = Rebuild(t) <=> Cached(t)
<1>1. Rebuild(t) \in TablesOf(R) /\ SameRows(Rebuild(t), t) /\ Cached(Rebuild(t))
  BY RebuildIs
<1>2. ASSUME Cached(t)
      PROVE  t = Rebuild(t)
  <2>1. t.keys = Rebuild(t).keys /\ t.index = Rebuild(t).index /\ SameRows(t, Rebuild(t))
    BY <1>1, <1>2 DEF Cached, SameRows
  <2> QED
    BY <1>1, <2>1, TableIs
<1> QED
  BY <1>1, <1>2

\* Caches depend on the cells only.
LEMMA CachesSame ==
  ASSUME NEW R, RowSet(R), NEW rows \in Seq(R), NEW Q, RowSet(Q), NEW others \in Seq(Q),
         Contents(rows) = Contents(others), NEW keyed, NEW indexed
  PROVE  /\ KeysOf(keyed, rows) = KeysOf(keyed, others)
         /\ IndexOf(indexed, rows) = IndexOf(indexed, others)
<1>1. Len(rows) = Len(others)
  BY ContentsIs
<1>2. \A v : Scan(rows, v) = Scan(others, v)
  BY <1>1 DEF Scan
<1> QED
  BY <1>2 DEF KeysOf, IndexOf

LEMMA CountsSame ==
  ASSUME NEW R, RowSet(R), NEW rows \in Seq(R), NEW Q, RowSet(Q), NEW others \in Seq(Q),
         Contents(rows) = Contents(others)
  PROVE  \A v : Count(rows, v) = Count(others, v)
<1>1. Len(rows) = Len(others)
  BY ContentsIs
<1>2. \A v : Scan(rows, v) = Scan(others, v)
  BY <1>1 DEF Scan
<1> QED
  BY <1>2 DEF Count

\* A cell is a key when some row holds it.
LEMMA KeysAre ==
  ASSUME NEW R, RowSet(R), NEW rows \in Seq(R), NEW v
  PROVE  v \in KeysOf(TRUE, rows) <=> Count(rows, v) # 0
<1>1. /\ Contents(rows) \in Seq(Cells) /\ Len(Contents(rows)) = Len(rows)
      /\ \A i \in 1 .. Len(rows) : Contents(rows)[i] = rows[i].v
  BY ContentsIs
<1>2. DOMAIN Contents(rows) = 1 .. Len(rows)
  BY <1>1, LenProperties
<1>3. v \in KeysOf(TRUE, rows) <=> \E i \in 1 .. Len(rows) : rows[i].v = v
  BY <1>1, <1>2 DEF KeysOf, ToSet
<1> QED
  BY <1>3, CountOfNone

\* A new table, and the table of no rows that does not exist.
LEMMA FreshIs ==
  ASSUME NEW keyed \in BOOLEAN, NEW R, RowSet(R)
  PROVE  /\ Fresh(keyed) \in TablesOf(R) /\ Cached(Fresh(keyed))
         /\ Absent \in TablesOf(R) /\ Cached(Absent)
         /\ Fresh(keyed).rows = << >> /\ Absent.rows = << >>
         /\ Fresh(keyed).exists = TRUE /\ Fresh(keyed).keyed = keyed
         /\ Fresh(keyed).indexed = FALSE /\ Absent.keyed = FALSE /\ Absent.indexed = FALSE
<1>1. << >> \in Seq(R) /\ NoIndex \in [Cells -> Seq(Nat)]
  BY EmptySeq, CacheTypes
<1>2. DOMAIN Contents(<< >>) = {}
  BY DEF Contents
<1>3. \A k, x : KeysOf(k, << >>) = {} /\ IndexOf(FALSE, << >>) = NoIndex
  BY <1>2 DEF KeysOf, IndexOf, ToSet
<1>4. /\ Fresh(keyed) \in TablesOf(R) /\ Fresh(keyed).rows = << >>
      /\ Fresh(keyed).keys = {} /\ Fresh(keyed).index = NoIndex
      /\ Fresh(keyed).exists = TRUE /\ Fresh(keyed).keyed = keyed
      /\ Fresh(keyed).indexed = FALSE
  BY <1>1 DEF Fresh, TablesOf
<1>5. /\ Absent \in TablesOf(R) /\ Absent.rows = << >>
      /\ Absent.keys = {} /\ Absent.index = NoIndex
      /\ Absent.keyed = FALSE /\ Absent.indexed = FALSE
  BY <1>1 DEF Absent, Fresh, TablesOf
<1> QED
  BY <1>3, <1>4, <1>5 DEF Cached

\* A table of its own rows is one of a transaction's.
LEMMA OwnTable ==
  ASSUME NEW t \in TablesOf(OwnRows)
  PROVE  t \in TablesOf(Rows)
<1>1. t.rows \in Seq(OwnRows) /\ OwnRows \subseteq Rows
  BY RowSets DEF TablesOf, RowSet
<1>2. t.rows \in Seq(Rows)
  BY <1>1, SeqMonotonic
<1> QED
  BY <1>2 DEF TablesOf

-----------------------------------------------------------------------------
(* What the operations make of a table.                                    *)

\* s is t with other rows and caches.
With(s, R, t, rows, keys, index) ==
  /\ s \in TablesOf(R) /\ s.rows = rows /\ s.exists = t.exists /\ s.keyed = t.keyed
  /\ s.indexed = t.indexed /\ s.keys = keys /\ s.index = index

LEMMA WithRows ==
  ASSUME NEW R, NEW t \in TablesOf(R), NEW rows \in Seq(R)
  PROVE  With([t EXCEPT !.rows = rows], R, t, rows, t.keys, t.index)
BY DEF TablesOf, With

LEMMA WithKeys ==
  ASSUME NEW R, NEW t \in TablesOf(R), NEW rows \in Seq(R), NEW keys \in SUBSET Cells
  PROVE  With([t EXCEPT !.rows = rows, !.keys = keys], R, t, rows, keys, t.index)
<1> DEFINE s == [t EXCEPT !.rows = rows]
<1>1. [t EXCEPT !.rows = rows, !.keys = keys] = [s EXCEPT !.keys = keys]
  OBVIOUS
<1>2. With(s, R, t, rows, t.keys, t.index)
  BY WithRows
<1> HIDE DEF s
<1>3. With([s EXCEPT !.keys = keys], R, t, rows, keys, t.index)
  BY <1>2 DEF TablesOf, With
<1> QED
  BY <1>1, <1>3

LEMMA WithCaches ==
  ASSUME NEW R, NEW t \in TablesOf(R), NEW rows \in Seq(R), NEW keys \in SUBSET Cells,
         NEW index \in [Cells -> Seq(Nat)]
  PROVE  With([t EXCEPT !.rows = rows, !.keys = keys, !.index = index],
              R, t, rows, keys, index)
<1> DEFINE s == [t EXCEPT !.rows = rows, !.keys = keys]
<1>1. [t EXCEPT !.rows = rows, !.keys = keys, !.index = index] = [s EXCEPT !.index = index]
  OBVIOUS
<1>2. With(s, R, t, rows, keys, t.index)
  BY WithKeys
<1> HIDE DEF s
<1>3. With([s EXCEPT !.index = index], R, t, rows, keys, index)
  BY <1>2 DEF TablesOf, With
<1> QED
  BY <1>1, <1>3

\* A row more.
LEMMA InsertRowIs ==
  ASSUME NEW R, RowSet(R), NEW t \in TablesOf(R), NEW row \in R
  PROVE  /\ InsertRow(t, row) \in TablesOf(R)
         /\ InsertRow(t, row).rows = Append(t.rows, row)
         /\ InsertRow(t, row).exists = t.exists /\ InsertRow(t, row).keyed = t.keyed
         /\ InsertRow(t, row).indexed = t.indexed
         /\ Cached(t) => Cached(InsertRow(t, row))
<1> DEFINE more == Append(t.rows, row)
           k == IF t.keyed THEN t.keys \union {row.v} ELSE t.keys
           x == IF t.indexed THEN AppendEntry(t, row) ELSE t.index
<1>1. /\ t.rows \in Seq(R) /\ t.keys \in SUBSET Cells /\ t.index \in [Cells -> Seq(Nat)]
      /\ t.exists \in BOOLEAN /\ t.keyed \in BOOLEAN /\ t.indexed \in BOOLEAN
      /\ row.v \in Cells
  BY RowCell DEF TablesOf
<1>2. more \in Seq(R) /\ Len(t.rows) \in Nat /\ Len(more) = Len(t.rows) + 1
  BY <1>1, AppendProperties, LenProperties
<1>3. k \in SUBSET Cells /\ x \in [Cells -> Seq(Nat)]
  <2>1. t.index[row.v] \in Seq(Nat) /\ Len(t.rows) + 1 \in Nat
    BY <1>1, <1>2
  <2>2. Append(t.index[row.v], Len(t.rows) + 1) \in Seq(Nat)
    BY <2>1, AppendProperties
  <2> QED
    BY <1>1, <2>2 DEF AppendEntry
<1>4. InsertRow(t, row) = [t EXCEPT !.rows = more, !.keys = k, !.index = x]
  BY DEF InsertRow
<1> HIDE DEF more, k, x
<1>5. ASSUME Cached(t)
      PROVE  k = KeysOf(t.keyed, more) /\ x = IndexOf(t.indexed, more)
  <2> DEFINE c == Contents(t.rows)  d == Contents(more)  n == Len(t.rows)
  <2>1. d = Append(c, row.v)
    BY <1>1, ContentsAppend DEF more
  <2>2. c \in Seq(Cells) /\ Len(c) = n
    BY <1>1, ContentsIs
  <2>3. /\ DOMAIN c = 1 .. n /\ DOMAIN d = 1 .. (n + 1) /\ n \in Nat
        /\ d[n + 1] = row.v /\ \A i \in 1 .. n : d[i] = c[i]
    BY <1>1, <1>2, <2>1, <2>2, AppendProperties, LenProperties
  <2> HIDE DEF c, d, n
  <2>4. 1 .. (n + 1) = (1 .. n) \union {n + 1}
    BY <2>3
  <2>5. ToSet(d) = ToSet(c) \union {row.v}
    BY <2>3, <2>4 DEF ToSet
  <2>6. k = KeysOf(t.keyed, more)
    BY <1>1, <1>5, <2>5 DEF k, Cached, KeysOf, c, d
  <2>7. ASSUME NEW v \in Cells
        PROVE  Scan(more, v) = IF v = row.v THEN Append(Scan(t.rows, v), n + 1)
                               ELSE Scan(t.rows, v)
    <3>1. n + 1 \in Nat /\ n + 1 # 0 /\ (n + 1) - 1 = n
      BY <2>3
    <3>2. Positions(d, {v}, n) = Positions(c, {v}, n)
      BY <2>3, PositionsSame
    <3>3. Positions(d, {v}, n + 1) = IF d[n + 1] \in {v} THEN Append(Positions(d, {v}, n), n + 1)
                                     ELSE Positions(d, {v}, n)
      <4> DEFINE m == n + 1
      <4>1. m \in Nat /\ m # 0
        BY <3>1
      <4> HIDE DEF m
      <4>2. Positions(d, {v}, m) = IF d[m] \in {v} THEN Append(Positions(d, {v}, m - 1), m)
                                   ELSE Positions(d, {v}, m - 1)
        BY <4>1, PositionsStep
      <4>3. m - 1 = n
        BY <3>1 DEF m
      <4> QED
        BY <4>2, <4>3 DEF m
    <3>4. Scan(more, v) = Positions(d, {v}, n + 1) /\ Scan(t.rows, v) = Positions(c, {v}, n)
      BY <1>2 DEF Scan, c, d, n
    <3> QED
      BY <2>3, <3>2, <3>3, <3>4
  <2>8. x = IndexOf(t.indexed, more)
    <3>1. CASE t.indexed
      <4>1. t.index = [v \in Cells |-> Scan(t.rows, v)]
        BY <1>5, <3>1 DEF Cached, IndexOf
      <4>2. x = [t.index EXCEPT ![row.v] = Append(t.index[row.v], n + 1)]
        BY <3>1 DEF x, AppendEntry, n
      <4>3. t.index[row.v] = Scan(t.rows, row.v)
        BY <1>1, <4>1
      <4>4. x = [v \in Cells |-> IF v = row.v THEN Append(Scan(t.rows, v), n + 1)
                                 ELSE Scan(t.rows, v)]
        BY <1>1, <4>1, <4>2, <4>3
      <4> QED
        BY <2>7, <3>1, <4>4 DEF IndexOf
    <3>2. CASE ~t.indexed
      BY <1>5, <3>2 DEF x, Cached, IndexOf
    <3> QED
      BY <3>1, <3>2
  <2> QED
    BY <2>6, <2>8
<1> DEFINE s == InsertRow(t, row)
<1>6. With(s, R, t, more, k, x)
  <2>1. more \in Seq(R)
    BY <1>2
  <2>2. With([t EXCEPT !.rows = more, !.keys = k, !.index = x], R, t, more, k, x)
    BY <1>3, <2>1, WithCaches
  <2> QED
    BY <1>4, <2>2
<1> HIDE DEF s
<1> QED
  BY <1>5, <1>6 DEF Cached, With, more, s

\* A batch more.

LEMMA ExtendIs ==
  ASSUME NEW R, RowSet(R), NEW t \in TablesOf(R), NEW rows \in Seq(R)
  PROVE  /\ Extend(t, rows) \in TablesOf(R)
         /\ Extend(t, rows).rows = t.rows \o rows
         /\ Extend(t, rows).exists = t.exists /\ Extend(t, rows).keyed = t.keyed
         /\ Extend(t, rows).indexed = t.indexed
         /\ Cached(t) => Cached(Extend(t, rows))
<1> DEFINE more == t.rows \o rows
           k == IF t.keyed THEN t.keys \union ToSet(Contents(rows)) ELSE t.keys
           longer == [t EXCEPT !.rows = more, !.keys = k]
<1>1. /\ t.rows \in Seq(R) /\ t.keys \in SUBSET Cells /\ t.index \in [Cells -> Seq(Nat)]
      /\ t.exists \in BOOLEAN /\ t.keyed \in BOOLEAN /\ t.indexed \in BOOLEAN
  BY DEF TablesOf
<1>2. more \in Seq(R)
  BY <1>1, ConcatProperties
<1>3. ToSet(Contents(rows)) \in SUBSET Cells
  BY CacheTypes DEF KeysOf
<1>4. Extend(t, rows) = IF t.indexed THEN Rebuild(longer) ELSE longer
  BY DEF Extend
<1>5. /\ longer \in TablesOf(R) /\ longer.rows = more /\ longer.exists = t.exists
      /\ longer.keyed = t.keyed /\ longer.indexed = t.indexed
      /\ longer.keys = k /\ longer.index = t.index
  <2>1. k \in SUBSET Cells
    BY <1>1, <1>3
  <2>2. With(longer, R, t, more, k, t.index)
    <3> HIDE DEF k, more
    <3> QED
      BY <1>2, <2>1, WithKeys
  <2> HIDE DEF longer, k, more
  <2> QED
    BY <2>2 DEF With
<1> HIDE DEF longer
<1>6. CASE t.indexed
  <2>1. Rebuild(longer) \in TablesOf(R) /\ SameRows(Rebuild(longer), longer)
          /\ Cached(Rebuild(longer))
    BY <1>5, RebuildIs
  <2> QED
    BY <1>4, <1>5, <1>6, <2>1 DEF SameRows, more
<1>7. CASE ~t.indexed
  <2>1. ASSUME Cached(t)
        PROVE  Cached(longer)
    <3>1. Contents(more) = Contents(t.rows) \o Contents(rows)
      BY <1>1, ContentsConcat DEF more
    <3>2. ToSet(Contents(more)) = ToSet(Contents(t.rows)) \union ToSet(Contents(rows))
      <4> DEFINE a == Contents(t.rows)  b == Contents(rows)
      <4>1. a \in Seq(Cells) /\ b \in Seq(Cells)
        BY <1>1, ContentsIs
      <4> HIDE DEF a, b
      <4>2. /\ DOMAIN (a \o b) = 1 .. Len(a) + Len(b) /\ DOMAIN a = 1 .. Len(a)
            /\ DOMAIN b = 1 .. Len(b) /\ Len(a) \in Nat /\ Len(b) \in Nat
            /\ \A i \in 1 .. Len(a) + Len(b) :
                 (a \o b)[i] = IF i <= Len(a) THEN a[i] ELSE b[i - Len(a)]
        BY <4>1, ConcatProperties, LenProperties
      <4>3. \A i \in 1 .. Len(a) : i \in 1 .. Len(a) + Len(b) /\ (a \o b)[i] = a[i]
        BY <4>2
      <4>4. \A i \in 1 .. Len(b) :
              Len(a) + i \in 1 .. Len(a) + Len(b) /\ (a \o b)[Len(a) + i] = b[i]
        BY <4>2
      <4>5. \A i \in 1 .. Len(a) + Len(b) : i \in 1 .. Len(a) \/ i - Len(a) \in 1 .. Len(b)
        BY <4>2
      <4>6. ASSUME NEW v \in ToSet(a \o b)
            PROVE  v \in ToSet(a) \union ToSet(b)
        <5>1. PICK i \in 1 .. Len(a) + Len(b) : (a \o b)[i] = v
          BY <4>2 DEF ToSet
        <5>2. CASE i \in 1 .. Len(a)
          BY <4>2, <4>3, <5>1, <5>2 DEF ToSet
        <5>3. CASE i \notin 1 .. Len(a)
          <6>1. i - Len(a) \in 1 .. Len(b) /\ ~(i <= Len(a))
            BY <4>2, <4>5, <5>3
          <6> QED
            BY <4>2, <5>1, <6>1 DEF ToSet
        <5> QED
          BY <5>2, <5>3
      <4>7. ToSet(a) \subseteq ToSet(a \o b)
        BY <4>2, <4>3 DEF ToSet
      <4>8. ToSet(b) \subseteq ToSet(a \o b)
        <5> SUFFICES ASSUME NEW i \in DOMAIN b
                     PROVE  \E j \in DOMAIN (a \o b) : (a \o b)[j] = b[i]
          BY DEF ToSet
        <5>1. i \in 1 .. Len(b) /\ Len(a) + i \in DOMAIN (a \o b)
          BY <4>2
        <5> QED
          BY <4>4, <5>1
      <4>9. ToSet(a \o b) = ToSet(a) \union ToSet(b)
        BY <4>6, <4>7, <4>8
      <4> QED
        BY <3>1, <4>9 DEF a, b
    <3> QED
      BY <1>1, <1>5, <1>7, <2>1, <3>2 DEF Cached, KeysOf, IndexOf, k
  <2> QED
    BY <1>4, <1>5, <1>7, <2>1 DEF more
<1> QED
  BY <1>1, <1>6, <1>7

\* The engine's copy of a table.
LEMMA PublishIs ==
  ASSUME NEW R, RowSet(R), NEW t \in TablesOf(R)
  PROVE  /\ Publish(t) \in TablesOf(OwnRows)
         /\ Publish(t).exists = t.exists /\ Publish(t).keyed = t.keyed
         /\ Publish(t).indexed = t.indexed
         /\ Contents(Publish(t).rows) = Contents(t.rows)
         /\ Cached(t) => Cached(Publish(t))
<1>1. t.rows \in Seq(R)
  BY DEF TablesOf
<1>2. /\ Len(t.rows) \in Nat /\ DOMAIN t.rows = 1 .. Len(t.rows)
      /\ \A i \in 1 .. Len(t.rows) : t.rows[i].v \in Cells
      /\ Contents(t.rows) \in Seq(Cells) /\ Len(Contents(t.rows)) = Len(t.rows)
      /\ \A i \in 1 .. Len(t.rows) : Contents(t.rows)[i] = t.rows[i].v
  BY <1>1, ContentsIs, ElementOfSeq, RowCell
<1> DEFINE own == [i \in DOMAIN t.rows |-> Own(t.rows[i].v)]
<1>3. /\ own \in Seq(OwnRows) /\ Len(own) = Len(t.rows)
      /\ \A i \in 1 .. Len(t.rows) : own[i].v = t.rows[i].v
  <2> DEFINE n == Len(t.rows)
  <2>1. \A i \in 1 .. n : Own(t.rows[i].v) \in OwnRows /\ Own(t.rows[i].v).v = t.rows[i].v
    BY <1>2, OwnIs
  <2>2. own = [i \in 1 .. n |-> Own(t.rows[i].v)] /\ n \in Nat
    BY <1>2
  <2> HIDE DEF n, own
  <2>3. own \in Seq(OwnRows) /\ Len(own) = n
    BY <2>1, <2>2
  <2> QED
    BY <2>1, <2>2, <2>3 DEF n
<1>4. Publish(t) = [t EXCEPT !.rows = own]
  BY DEF Publish
<1> HIDE DEF own
<1>5. Contents(own) = Contents(t.rows)
  BY <1>2, <1>3, RowSets, ContentsEqual
<1>6. /\ Publish(t) \in TablesOf(OwnRows) /\ Publish(t).rows = own
      /\ Publish(t).exists = t.exists /\ Publish(t).keyed = t.keyed
      /\ Publish(t).indexed = t.indexed /\ Publish(t).keys = t.keys
      /\ Publish(t).index = t.index
  <2>1. own \in Seq(R)
    BY <1>3, SeqMonotonic DEF RowSet
  <2>2. With(Publish(t), R, t, own, t.keys, t.index)
    BY <1>4, <2>1, WithRows
  <2>3. Publish(t) \in TablesOf(OwnRows)
    BY <1>3, <2>2 DEF TablesOf, With
  <2> QED
    BY <2>2, <2>3 DEF With
<1>7. /\ KeysOf(t.keyed, own) = KeysOf(t.keyed, t.rows)
      /\ IndexOf(t.indexed, own) = IndexOf(t.indexed, t.rows)
  BY <1>1, <1>3, <1>5, RowSets, CachesSame
<1> QED
  BY <1>5, <1>6, <1>7 DEF Cached

-----------------------------------------------------------------------------
(* What a logged operation makes of a table.                               *)

\* A set of numbers that is not empty has a least one.
LEMMA MinIs ==
  ASSUME NEW S \in SUBSET Nat, S # {}
  PROVE  Min(S) \in S /\ \A y \in S : Min(S) <= y
<1> DEFINE R == OpToRel(<, Nat)
<1>1. IsWellFoundedOn(R, Nat)
  BY NatLessThanWellFounded
<1>2. PICK m \in S : \A y \in S : ~(<<y, m>> \in R)
  <2> HIDE DEF R
  <2> QED
    BY <1>1, WFMin
<1>3. \A y \in S : m <= y
  <2>1. \A y \in S : y \in Nat /\ m \in Nat /\ ~(y < m)
    BY <1>2 DEF OpToRel
  <2> QED
    BY <2>1
<1> QED
  BY <1>3 DEF Min

LEMMA FirstIs ==
  ASSUME NEW R, RowSet(R), NEW rows \in Seq(R), NEW v
  PROVE  IF Count(rows, v) = 0 THEN First(rows, v) = 0
         ELSE First(rows, v) \in 1 .. Len(rows) /\ rows[First(rows, v)].v = v
<1> DEFINE found == {i \in DOMAIN rows : rows[i].v = v}
<1>1. DOMAIN rows = 1 .. Len(rows) /\ Len(rows) \in Nat
  BY LenProperties
<1>2. Count(rows, v) = 0 <=> found = {}
  BY <1>1, CountOfNone
<1>3. First(rows, v) = IF found = {} THEN 0 ELSE Min(found)
  BY DEF First
<1>4. found \in SUBSET Nat /\ \A i \in found : i \in 1 .. Len(rows) /\ rows[i].v = v
  BY <1>1
<1> HIDE DEF found
<1> QED
  BY <1>2, <1>3, <1>4, MinIs

\* The counts of the cells after the replay of an UPDATE, and of a DELETE.
LEMMA ReplayUpdateIs ==
  ASSUME NEW R, RowSet(R), NEW rows \in Seq(R), NEW op, op.after \in Cells
  PROVE  /\ ReplayUpdate(rows, op) \in Seq(R)
         /\ \A v : IF Count(rows, op.before) = 0
                     THEN Count(ReplayUpdate(rows, op), v) = Count(rows, v)
                     ELSE Count(ReplayUpdate(rows, op), v) + One(op.before = v)
                            = Count(rows, v) + One(op.after = v)
<1> DEFINE i == First(rows, op.before)  new == Own(op.after)
<1>1. new \in R /\ new.v = op.after
  BY OwnIs DEF RowSet
<1>2. ReplayUpdate(rows, op) = IF i = 0 THEN rows ELSE [rows EXCEPT ![i] = new]
  BY DEF ReplayUpdate, ReplaceAt
<1>3. IF Count(rows, op.before) = 0 THEN i = 0
      ELSE i \in 1 .. Len(rows) /\ rows[i].v = op.before
  BY FirstIs
<1> HIDE DEF i, new
<1>4. CASE Count(rows, op.before) = 0
  BY <1>2, <1>3, <1>4
<1>5. CASE Count(rows, op.before) # 0
  <2>1. /\ i \in 1 .. Len(rows) /\ i # 0 /\ rows[i].v = op.before
        /\ ReplayUpdate(rows, op) = [rows EXCEPT ![i] = new]
    BY <1>2, <1>3, <1>5, LenProperties
  <2>2. [rows EXCEPT ![i] = new] \in Seq(R)
    BY <1>1, <2>1, ExceptSeq
  <2>3. \A v : Count([rows EXCEPT ![i] = new], v) + One(rows[i].v = v)
                 = Count(rows, v) + One(new.v = v)
    <3> TAKE v
    <3>1. new \in R /\ i \in 1 .. Len(rows)
      BY <1>1, <2>1
    <3> QED
      BY <3>1, CountOfReplace
  <2> QED
    BY <1>1, <1>5, <2>1, <2>2, <2>3
<1> QED
  BY <1>4, <1>5

LEMMA ReplayDeleteIs ==
  ASSUME NEW R, RowSet(R), NEW rows \in Seq(R), NEW op \in Operations
  PROVE  /\ ReplayDelete(rows, op) \in Seq(R)
         /\ \A v : IF Count(rows, op.before) = 0
                     THEN Count(ReplayDelete(rows, op), v) = Count(rows, v)
                     ELSE Count(ReplayDelete(rows, op), v) + One(op.before = v)
                            = Count(rows, v)
<1> DEFINE i == First(rows, op.before)
<1>2. ReplayDelete(rows, op) = IF i = 0 THEN rows ELSE RemoveAt(rows, i)
  BY DEF ReplayDelete
<1>3. IF Count(rows, op.before) = 0 THEN i = 0
      ELSE i \in 1 .. Len(rows) /\ rows[i].v = op.before
  BY FirstIs
<1> HIDE DEF i
<1>4. CASE Count(rows, op.before) = 0
  BY <1>2, <1>3, <1>4
<1>5. CASE Count(rows, op.before) # 0
  <2>1. /\ i \in 1 .. Len(rows) /\ i # 0 /\ rows[i].v = op.before
        /\ ReplayDelete(rows, op) = RemoveAt(rows, i)
    BY <1>2, <1>3, <1>5, LenProperties
  <2>2. RemoveAt(rows, i) \in Seq(R)
    BY <2>1, RemoveAtIs
  <2>3. \A v : Count(RemoveAt(rows, i), v) + One(rows[i].v = v) = Count(rows, v)
    BY <2>1, CountOfRemove
  <2> QED
    BY <1>5, <2>1, <2>2, <2>3
<1> QED
  BY <1>4, <1>5

\* The rows that a logged insert adds.
OwnRowsOf(cells) == [i \in DOMAIN cells |-> Own(cells[i])]

LEMMA OwnRowsAre ==
  ASSUME NEW cells \in Seq(Cells)
  PROVE  OwnRowsOf(cells) \in Seq(OwnRows) /\ Contents(OwnRowsOf(cells)) = cells
<1> DEFINE n == Len(cells)  rows == OwnRowsOf(cells)
<1>1. n \in Nat /\ \A i \in 1 .. n : Own(cells[i]) \in OwnRows /\ Own(cells[i]).v = cells[i]
  BY OwnIs, LenProperties, ElementOfSeq
<1>2. rows = [i \in 1 .. n |-> Own(cells[i])]
  BY LenProperties DEF OwnRowsOf
<1> HIDE DEF n, rows
<1>3. rows \in Seq(OwnRows) /\ Len(rows) = n /\ \A i \in 1 .. n : rows[i].v = cells[i]
  BY <1>1, <1>2
<1>4. Contents(rows) = cells
  BY <1>3, RowSets, ContentsEqual DEF n
<1> QED
  BY <1>3, <1>4 DEF rows

\* Each operation, as one lemma for each kind, leaves a table of the same rows.
LEMMA OperationIs ==
  ASSUME NEW op \in Operations
  PROVE  /\ op.kind \in {"create_table", "create_index", "insert", "update", "delete"}
         /\ op.keyed \in BOOLEAN /\ op.rows \in Seq(Cells)
         /\ op.before \in Cells /\ op.after \in Cells
BY DEF Operations

LEMMA ApplyIs ==
  ASSUME NEW R, RowSet(R), NEW t \in TablesOf(R), NEW op \in Operations
  PROVE  /\ ApplyOperation(t, op) \in TablesOf(R)
         /\ op.kind = "create_table" => ApplyOperation(t, op) = Fresh(op.keyed)
         /\ op.kind = "create_index" =>
              /\ SameRows(ApplyOperation(t, op), [t EXCEPT !.indexed = TRUE])
         /\ op.kind = "insert" =>
              SameRows(ApplyOperation(t, op), [t EXCEPT !.rows = t.rows \o OwnRowsOf(op.rows)])
         /\ op.kind = "update" =>
              SameRows(ApplyOperation(t, op), [t EXCEPT !.rows = ReplayUpdate(t.rows, op)])
         /\ op.kind = "delete" =>
              SameRows(ApplyOperation(t, op), [t EXCEPT !.rows = ReplayDelete(t.rows, op)])
<1>1. t.rows \in Seq(R)
  BY DEF TablesOf
<1>2. CASE op.kind = "create_table"
  <2>1. ApplyOperation(t, op) = Fresh(op.keyed)
    BY <1>2 DEF ApplyOperation
  <2> QED
    BY <1>2, <2>1, OperationIs, FreshIs
<1>3. CASE op.kind = "create_index"
  <2>1. ApplyOperation(t, op) = Rebuild([t EXCEPT !.indexed = TRUE])
    BY <1>3 DEF ApplyOperation
  <2>2. [t EXCEPT !.indexed = TRUE] \in TablesOf(R)
    BY DEF TablesOf
  <2>3. ApplyOperation(t, op) \in TablesOf(R)
          /\ SameRows(ApplyOperation(t, op), [t EXCEPT !.indexed = TRUE])
    BY <2>1, <2>2, RebuildIs
  <2> QED
    BY <1>3, <2>3
<1>4. CASE op.kind = "insert"
  <2> DEFINE rows == t.rows \o OwnRowsOf(op.rows)
  <2>1. ApplyOperation(t, op) = [t EXCEPT !.rows = rows]
    BY <1>4 DEF ApplyOperation, OwnRowsOf
  <2>2. OwnRowsOf(op.rows) \in Seq(R)
    BY OperationIs, OwnRowsAre, SeqMonotonic DEF RowSet
  <2>3. rows \in Seq(R)
    BY <1>1, <2>2, ConcatProperties
  <2> HIDE DEF rows
  <2>4. ApplyOperation(t, op) \in TablesOf(R)
    BY <2>1, <2>3, WithRows DEF With
  <2> QED
    BY <1>4, <2>1, <2>4 DEF SameRows, rows
<1>5. CASE op.kind = "update"
  <2> DEFINE rows == ReplayUpdate(t.rows, op)
  <2>1. ApplyOperation(t, op) = [t EXCEPT !.rows = rows]
    BY <1>5 DEF ApplyOperation
  <2>2. rows \in Seq(R)
    BY <1>1, OperationIs, ReplayUpdateIs
  <2> HIDE DEF rows
  <2>3. ApplyOperation(t, op) \in TablesOf(R)
    BY <2>1, <2>2, WithRows DEF With
  <2> QED
    BY <1>5, <2>1, <2>3 DEF SameRows, rows
<1>6. CASE op.kind = "delete"
  <2> DEFINE rows == ReplayDelete(t.rows, op)
  <2>1. ApplyOperation(t, op) = [t EXCEPT !.rows = rows]
    BY <1>6 DEF ApplyOperation
  <2>2. rows \in Seq(R)
    BY <1>1, ReplayDeleteIs
  <2> HIDE DEF rows
  <2>3. ApplyOperation(t, op) \in TablesOf(R)
    BY <2>1, <2>2, WithRows DEF With
  <2> QED
    BY <1>6, <2>1, <2>3 DEF SameRows, rows
<1> QED
  BY <1>2, <1>3, <1>4, <1>5, <1>6, OperationIs

-----------------------------------------------------------------------------
(* Replays from equal tables.                                              *)

LEMMA SameTrans ==
  ASSUME NEW s, NEW t, NEW u, SameContents(s, t), SameContents(t, u)
  PROVE  SameContents(s, u)
BY DEF SameContents



LEMMA SameSelf ==
  ASSUME NEW s, NEW t, SameRows(s, t)
  PROVE  SameContents(s, t)
BY DEF SameContents, SameRows

\* Equal tables stay equal: the replay is by value.
LEMMA ApplySame ==
  ASSUME NEW R, RowSet(R), NEW s \in TablesOf(R), NEW Q, RowSet(Q), NEW t \in TablesOf(Q),
         NEW op \in Operations, SameContents(s, t)
  PROVE  SameContents(ApplyOperation(s, op), ApplyOperation(t, op))
<1> DEFINE u == ApplyOperation(s, op)  w == ApplyOperation(t, op)
<1>0. s.rows \in Seq(R) /\ t.rows \in Seq(Q)
  BY DEF TablesOf
<1>00. /\ op.kind \in {"create_table", "create_index", "insert", "update", "delete"}
       /\ op.rows \in Seq(Cells) /\ op.after \in Cells /\ op.before \in Cells
  BY OperationIs
<1>1. s.exists = t.exists /\ s.keyed = t.keyed /\ s.indexed = t.indexed
  BY DEF SameContents
<1>2. \A v \in Cells : /\ Count(s.rows, v) = Count(t.rows, v)
                       /\ Count(s.rows, v) \in Nat /\ Count(t.rows, v) \in Nat
  BY <1>0, CountIs DEF SameContents
<1>3. CASE op.kind = "create_table"
  <2>1. u = w
    BY <1>3, ApplyIs
  <2> QED
    BY <2>1 DEF SameContents
<1>4. CASE op.kind = "create_index"
  <2>1. /\ SameRows(u, [s EXCEPT !.indexed = TRUE])
        /\ SameRows(w, [t EXCEPT !.indexed = TRUE])
    BY <1>4, ApplyIs
  <2> HIDE DEF u, w
  <2>2. /\ [s EXCEPT !.indexed = TRUE].exists = s.exists
        /\ [s EXCEPT !.indexed = TRUE].keyed = s.keyed
        /\ [s EXCEPT !.indexed = TRUE].indexed = TRUE
        /\ [s EXCEPT !.indexed = TRUE].rows = s.rows
    BY DEF TablesOf
  <2>3. /\ [t EXCEPT !.indexed = TRUE].exists = t.exists
        /\ [t EXCEPT !.indexed = TRUE].keyed = t.keyed
        /\ [t EXCEPT !.indexed = TRUE].indexed = TRUE
        /\ [t EXCEPT !.indexed = TRUE].rows = t.rows
    BY DEF TablesOf
  <2>4. SameContents(u, w)
    BY <1>1, <1>2, <2>1, <2>2, <2>3 DEF SameRows, SameContents
  <2> QED
    BY <2>4 DEF u, w
<1>5. ASSUME NEW a \in Seq(R), NEW b \in Seq(Q),
             SameRows(u, [s EXCEPT !.rows = a]), SameRows(w, [t EXCEPT !.rows = b]),
             \A v \in Cells : Count(a, v) = Count(b, v)
      PROVE  SameContents(u, w)
  <2> HIDE DEF u, w
  <2>1. /\ With([s EXCEPT !.rows = a], R, s, a, s.keys, s.index)
        /\ With([t EXCEPT !.rows = b], Q, t, b, t.keys, t.index)
    BY WithRows
  <2> QED
    BY <1>1, <1>5, <2>1 DEF SameRows, SameContents, With
<1>6. CASE op.kind = "insert"
  <2> DEFINE new == OwnRowsOf(op.rows)
  <2>1. new \in Seq(R) /\ new \in Seq(Q)
    BY <1>00, OwnRowsAre, SeqMonotonic DEF RowSet
  <2>2. /\ SameRows(u, [s EXCEPT !.rows = s.rows \o new])
        /\ SameRows(w, [t EXCEPT !.rows = t.rows \o new])
    BY <1>6, ApplyIs
  <2> HIDE DEF new, u, w
  <2>3. s.rows \o new \in Seq(R) /\ t.rows \o new \in Seq(Q)
    BY <1>0, <2>1, ConcatProperties
  <2>4. \A v \in Cells : Count(s.rows \o new, v) = Count(t.rows \o new, v)
    <3> TAKE v \in Cells
    <3>1. Count(s.rows \o new, v) = Count(s.rows, v) + Count(new, v)
      BY <1>0, <2>1, CountOfConcat
    <3>2. Count(t.rows \o new, v) = Count(t.rows, v) + Count(new, v)
      BY <1>0, <2>1, CountOfConcat
    <3> QED
      BY <1>2, <3>1, <3>2
  <2>5. SameContents(u, w)
    BY <1>5, <2>2, <2>3, <2>4
  <2> QED
    BY <2>5 DEF u, w
<1>7. CASE op.kind = "update"
  <2> DEFINE a == ReplayUpdate(s.rows, op)  b == ReplayUpdate(t.rows, op)
  <2>1. /\ SameRows(u, [s EXCEPT !.rows = a])
        /\ SameRows(w, [t EXCEPT !.rows = b])
    BY <1>7, ApplyIs
  <2>2. /\ a \in Seq(R)
        /\ \A v : IF Count(s.rows, op.before) = 0 THEN Count(a, v) = Count(s.rows, v)
                  ELSE Count(a, v) + One(op.before = v) = Count(s.rows, v) + One(op.after = v)
    BY <1>0, <1>00, ReplayUpdateIs
  <2>3. /\ b \in Seq(Q)
        /\ \A v : IF Count(t.rows, op.before) = 0 THEN Count(b, v) = Count(t.rows, v)
                  ELSE Count(b, v) + One(op.before = v) = Count(t.rows, v) + One(op.after = v)
    BY <1>0, <1>00, ReplayUpdateIs
  <2> HIDE DEF a, b, u, w
  <2>4. \A v \in Cells : Count(a, v) = Count(b, v)
    <3> TAKE v \in Cells
    <3>1. /\ Count(a, v) \in Nat /\ Count(b, v) \in Nat
          /\ One(op.before = v) \in Nat /\ One(op.after = v) \in Nat
      BY <2>2, <2>3, CountIs DEF One
    <3>2. Count(s.rows, op.before) = Count(t.rows, op.before)
      BY <1>00, <1>2
    <3> QED
      BY <1>2, <2>2, <2>3, <3>1, <3>2
  <2>5. SameContents(u, w)
    BY <1>5, <2>1, <2>2, <2>3, <2>4
  <2> QED
    BY <2>5 DEF u, w
<1>8. CASE op.kind = "delete"
  <2> DEFINE a == ReplayDelete(s.rows, op)  b == ReplayDelete(t.rows, op)
  <2>1. /\ SameRows(u, [s EXCEPT !.rows = a])
        /\ SameRows(w, [t EXCEPT !.rows = b])
    BY <1>8, ApplyIs
  <2>2. /\ a \in Seq(R)
        /\ \A v : IF Count(s.rows, op.before) = 0 THEN Count(a, v) = Count(s.rows, v)
                  ELSE Count(a, v) + One(op.before = v) = Count(s.rows, v)
    BY <1>0, ReplayDeleteIs
  <2>3. /\ b \in Seq(Q)
        /\ \A v : IF Count(t.rows, op.before) = 0 THEN Count(b, v) = Count(t.rows, v)
                  ELSE Count(b, v) + One(op.before = v) = Count(t.rows, v)
    BY <1>0, ReplayDeleteIs
  <2> HIDE DEF a, b, u, w
  <2>4. \A v \in Cells : Count(a, v) = Count(b, v)
    <3> TAKE v \in Cells
    <3>1. Count(a, v) \in Nat /\ Count(b, v) \in Nat /\ One(op.before = v) \in Nat
      BY <2>2, <2>3, CountIs DEF One
    <3>2. Count(s.rows, op.before) = Count(t.rows, op.before)
      BY <1>00, <1>2
    <3> QED
      BY <1>2, <2>2, <2>3, <3>1, <3>2
  <2>5. SameContents(u, w)
    BY <1>5, <2>1, <2>2, <2>3, <2>4
  <2> QED
    BY <2>5 DEF u, w
<1> QED
  BY <1>00, <1>3, <1>4, <1>6, <1>7, <1>8

LEMMA ReplayType ==
  ASSUME NEW R, RowSet(R), NEW t \in TablesOf(R), NEW ops \in Seq(Operations)
  PROVE  \A n \in 0 .. Len(ops) : Replay(t, ops, n) \in TablesOf(R)
<1> DEFINE N == Len(ops)  S == {n \in 0 .. N : Replay(t, ops, n) \in TablesOf(R)}
<1>0. N \in Nat /\ \A n \in 1 .. N : ops[n] \in Operations
  BY LenProperties, ElementOfSeq
<1> HIDE DEF N
<1>1. 0 \in S
  BY <1>0, ReplayZero
<1>2. ASSUME NEW n \in 1 .. N, n - 1 \in S
      PROVE  n \in S
  <2>1. n \in Nat /\ n # 0 /\ n \in 0 .. N
    BY <1>0
  <2>2. Replay(t, ops, n) = ApplyOperation(Replay(t, ops, n - 1), ops[n])
    BY <2>1, ReplayStep
  <2>3. Replay(t, ops, n - 1) \in TablesOf(R) /\ ops[n] \in Operations
    BY <1>0, <1>2
  <2>4. ApplyOperation(Replay(t, ops, n - 1), ops[n]) \in TablesOf(R)
    BY <2>3, ApplyIs
  <2> QED
    BY <2>1, <2>2, <2>4
<1>3. \A n \in 0 .. N : n \in S
  <2> HIDE DEF S
  <2> QED
    BY <1>0, <1>1, <1>2, UpTo
<1> QED
  BY <1>3 DEF N

LEMMA ReplaySame ==
  ASSUME NEW R, RowSet(R), NEW s \in TablesOf(R), NEW Q, RowSet(Q), NEW t \in TablesOf(Q),
         NEW ops \in Seq(Operations), SameContents(s, t)
  PROVE  \A n \in 0 .. Len(ops) : SameContents(Replay(s, ops, n), Replay(t, ops, n))
<1> DEFINE N == Len(ops)
           S == {n \in 0 .. N : SameContents(Replay(s, ops, n), Replay(t, ops, n))}
<1>0. /\ N \in Nat /\ \A n \in 1 .. N : ops[n] \in Operations
      /\ \A n \in 0 .. N : Replay(s, ops, n) \in TablesOf(R)
      /\ \A n \in 0 .. N : Replay(t, ops, n) \in TablesOf(Q)
  BY LenProperties, ElementOfSeq, ReplayType
<1> HIDE DEF N
<1>1. 0 \in S
  <2>1. Replay(s, ops, 0) = s /\ Replay(t, ops, 0) = t /\ 0 \in 0 .. N
    BY <1>0, ReplayZero
  <2> QED
    BY <2>1
<1>2. ASSUME NEW n \in 1 .. N, n - 1 \in S
      PROVE  n \in S
  <2>1. n \in Nat /\ n # 0 /\ n \in 0 .. N /\ n - 1 \in 0 .. N
    BY <1>0
  <2> DEFINE p == Replay(s, ops, n - 1)  q == Replay(t, ops, n - 1)
  <2>2. /\ Replay(s, ops, n) = ApplyOperation(p, ops[n])
        /\ Replay(t, ops, n) = ApplyOperation(q, ops[n])
    BY <2>1, ReplayStep
  <2>3. p \in TablesOf(R) /\ q \in TablesOf(Q) /\ ops[n] \in Operations /\ SameContents(p, q)
    BY <1>0, <1>2, <2>1
  <2> HIDE DEF p, q
  <2>4. SameContents(ApplyOperation(p, ops[n]), ApplyOperation(q, ops[n]))
    BY <2>3, ApplySame
  <2> QED
    BY <2>1, <2>2, <2>4
<1>3. \A n \in 0 .. N : n \in S
  <2> HIDE DEF S
  <2> QED
    BY <1>0, <1>1, <1>2, UpTo
<1> QED
  BY <1>3 DEF N

\* The whole of a log.
Replayed(t, ops) == Replay(t, ops, Len(ops))

LEMMA ReplayedSame ==
  ASSUME NEW R, RowSet(R), NEW s \in TablesOf(R), NEW Q, RowSet(Q), NEW t \in TablesOf(Q),
         NEW ops \in Seq(Operations), SameContents(s, t)
  PROVE  /\ SameContents(Replayed(s, ops), Replayed(t, ops))
         /\ Replayed(s, ops) \in TablesOf(R) /\ Replayed(t, ops) \in TablesOf(Q)
<1>1. Len(ops) \in 0 .. Len(ops)
  BY LenProperties
<1> QED
  BY <1>1, ReplaySame, ReplayType DEF Replayed

\* One log after another is replayed from where the first left off.
LEMMA ReplayConcat ==
  ASSUME NEW t, NEW ops \in Seq(Operations), NEW more \in Seq(Operations)
  PROVE  Replayed(t, ops \o more) = Replayed(Replayed(t, ops), more)
<1> DEFINE a == Len(ops)  b == Len(more)  all == ops \o more
<1>1. /\ a \in Nat /\ b \in Nat /\ Len(all) = a + b
      /\ \A i \in 1 .. a + b : all[i] = IF i <= a THEN ops[i] ELSE more[i - a]
  BY LenProperties, ConcatProperties
<1> HIDE DEF a, b, all
<1> DEFINE S == {i \in 0 .. a : Replay(t, all, i) = Replay(t, ops, i)}
<1>2. 0 \in S
  BY <1>1, ReplayZero
<1>3. ASSUME NEW i \in 1 .. a, i - 1 \in S
      PROVE  i \in S
  <2>1. i \in Nat /\ i # 0 /\ i \in 0 .. a /\ i \in 1 .. a + b /\ i <= a
    BY <1>1
  <2>2. /\ Replay(t, all, i) = ApplyOperation(Replay(t, all, i - 1), all[i])
        /\ Replay(t, ops, i) = ApplyOperation(Replay(t, ops, i - 1), ops[i])
    BY <2>1, ReplayStep
  <2>3. Replay(t, all, i - 1) = Replay(t, ops, i - 1) /\ all[i] = ops[i]
    BY <1>1, <1>3, <2>1
  <2> QED
    BY <2>1, <2>2, <2>3
<1>4. \A i \in 0 .. a : i \in S
  <2> HIDE DEF S
  <2> QED
    BY <1>1, <1>2, <1>3, UpTo
<1> DEFINE u == Replay(t, ops, a)
           T == {i \in 0 .. b : Replay(t, all, a + i) = Replay(u, more, i)}
<1>5. 0 \in T
  <2>1. a \in 0 .. a /\ a + 0 = a /\ 0 \in 0 .. b
    BY <1>1
  <2>2. Replay(t, all, a) = u
    BY <1>4, <2>1
  <2>3. Replay(u, more, 0) = u
    BY ReplayZero
  <2> QED
    BY <2>1, <2>2, <2>3
<1>6. ASSUME NEW i \in 1 .. b, i - 1 \in T
      PROVE  i \in T
  <2>1. /\ i \in Nat /\ i # 0 /\ i \in 0 .. b /\ a + i \in Nat /\ a + i # 0
        /\ (a + i) - 1 = a + (i - 1) /\ a + i \in 1 .. a + b /\ ~(a + i <= a) /\ (a + i) - a = i
    BY <1>1
  <2>2. Replay(t, all, a + i) = ApplyOperation(Replay(t, all, (a + i) - 1), all[a + i])
    BY <2>1, ReplayStep
  <2>3. Replay(u, more, i) = ApplyOperation(Replay(u, more, i - 1), more[i])
    BY <2>1, ReplayStep
  <2>4. all[a + i] = more[i]
    BY <1>1, <2>1
  <2>5. Replay(t, all, a + (i - 1)) = Replay(u, more, i - 1)
    BY <1>6
  <2> QED
    BY <2>1, <2>2, <2>3, <2>4, <2>5
<1>7. \A i \in 0 .. b : i \in T
  <2> HIDE DEF T, u
  <2> QED
    BY <1>1, <1>5, <1>6, UpTo
<1>8. b \in 0 .. b
  BY <1>1
<1>9. Replay(t, all, a + b) = Replay(u, more, b)
  BY <1>7, <1>8
<1> QED
  BY <1>1, <1>9 DEF Replayed, a, b, all

LEMMA ReplayAppend ==
  ASSUME NEW t, NEW ops \in Seq(Operations), NEW op \in Operations
  PROVE  Replayed(t, Append(ops, op)) = ApplyOperation(Replayed(t, ops), op)
<1> DEFINE u == Replayed(t, ops)  one == << op >>
<1>1. one \in Seq(Operations) /\ Len(one) = 1 /\ one[1] = op
  OBVIOUS
<1>2. Append(ops, op) = ops \o one
  BY AppendIsConcat
<1> HIDE DEF one
<1>3. Replayed(t, Append(ops, op)) = Replayed(u, one)
  BY <1>1, <1>2, ReplayConcat
<1> HIDE DEF u
<1>4. Replay(u, one, 1) = ApplyOperation(Replay(u, one, 1 - 1), one[1])
  BY ReplayStep
<1>5. Replay(u, one, 0) = u
  BY ReplayZero
<1>6. Replayed(u, one) = ApplyOperation(u, op)
  BY <1>1, <1>4, <1>5 DEF Replayed
<1> QED
  BY <1>3, <1>6 DEF u

-----------------------------------------------------------------------------
(* The engine that a directory loads as.                                   *)

Records == [version : Nat, ops : Seq(Operations)]
Engines == [version : Nat, table : TablesOf(OwnRows)]

\* All the records.
LoadAll(saved, records) == Load(saved, records, Len(records))

\* An engine that has loaded the first n records: the versions of none passes it by.
Loads(engine, saved, records, n) ==
  /\ engine \in Engines /\ Cached(engine.table)
  /\ saved.version <= engine.version
  /\ \A i \in 1 .. n : records[i].version <= engine.version

LEMMA SavedIs ==
  ASSUME NEW saved \in Engines
  PROVE  /\ Saved(saved) \in Engines /\ Cached(Saved(saved).table)
         /\ Saved(saved).version = saved.version
         /\ SameRows(Saved(saved).table, saved.table)
<1>1. saved.version \in Nat /\ saved.table \in TablesOf(OwnRows)
  BY DEF Engines
<1>2. /\ Rebuild(saved.table) \in TablesOf(OwnRows) /\ Cached(Rebuild(saved.table))
      /\ SameRows(Rebuild(saved.table), saved.table)
  BY <1>1, RowSets, RebuildIs
<1> QED
  BY <1>1, <1>2 DEF Saved, Engines

LEMMA LoadRecordIs ==
  ASSUME NEW engine \in Engines, NEW record \in Records, Cached(engine.table)
  PROVE  /\ LoadRecord(engine, record) \in Engines
         /\ Cached(LoadRecord(engine, record).table)
         /\ engine.version <= LoadRecord(engine, record).version
         /\ record.version <= LoadRecord(engine, record).version
         /\ record.version <= engine.version => LoadRecord(engine, record) = engine
         /\ record.version > engine.version =>
              /\ LoadRecord(engine, record).version = record.version
              /\ SameRows(LoadRecord(engine, record).table,
                          Replayed(engine.table, record.ops))
<1>1. /\ engine.version \in Nat /\ engine.table \in TablesOf(OwnRows)
      /\ record.version \in Nat /\ record.ops \in Seq(Operations)
  BY DEF Engines, Records
<1> DEFINE t == Replayed(engine.table, record.ops)
<1>2. t \in TablesOf(OwnRows)
  <2>1. Len(record.ops) \in 0 .. Len(record.ops)
    BY <1>1, LenProperties
  <2> QED
    BY <1>1, <2>1, RowSets, ReplayType DEF Replayed
<1>3. ApplyOperations(engine.table, record.ops) = Rebuild(t)
  BY DEF ApplyOperations, Replayed
<1> HIDE DEF t
<1>4. Rebuild(t) \in TablesOf(OwnRows) /\ Cached(Rebuild(t)) /\ SameRows(Rebuild(t), t)
  BY <1>2, RowSets, RebuildIs
<1>5. CASE record.version <= engine.version
  <2>1. LoadRecord(engine, record) = engine
    BY <1>5 DEF LoadRecord
  <2> QED
    BY <1>1, <1>5, <2>1
<1>6. CASE ~(record.version <= engine.version)
  <2>1. LoadRecord(engine, record) = [version |-> record.version, table |-> Rebuild(t)]
    BY <1>3, <1>6 DEF LoadRecord
  <2> QED
    BY <1>1, <1>4, <1>6, <2>1 DEF Engines, t
<1> QED
  BY <1>5, <1>6

LEMMA LoadIs ==
  ASSUME NEW saved \in Engines, NEW records \in Seq(Records)
  PROVE  \A n \in 0 .. Len(records) : Loads(Load(saved, records, n), saved, records, n)
<1> DEFINE N == Len(records)
           S == {n \in 0 .. N : Loads(Load(saved, records, n), saved, records, n)}
<1>0. N \in Nat /\ \A n \in 1 .. N : records[n] \in Records
  BY LenProperties, ElementOfSeq
<1> HIDE DEF N
<1>1. 0 \in S
  <2>1. Load(saved, records, 0) = Saved(saved)
    BY LoadZero
  <2>2. saved.version \in Nat
    BY DEF Engines
  <2>3. Loads(Load(saved, records, 0), saved, records, 0)
    BY <2>1, <2>2, SavedIs DEF Loads
  <2> QED
    BY <1>0, <2>3
<1>2. ASSUME NEW n \in 1 .. N, n - 1 \in S
      PROVE  n \in S
  <2>1. n \in Nat /\ n # 0 /\ n \in 0 .. N
    BY <1>0
  <2> DEFINE e == Load(saved, records, n - 1)  f == Load(saved, records, n)
  <2>2. f = LoadRecord(e, records[n])
    BY <2>1, LoadStep
  <2>3. Loads(e, saved, records, n - 1) /\ records[n] \in Records
    BY <1>0, <1>2
  <2> HIDE DEF e, f
  <2>4. /\ f \in Engines /\ Cached(f.table) /\ e.version <= f.version
        /\ records[n].version <= f.version
    BY <2>2, <2>3, LoadRecordIs DEF Loads
  <2>5. /\ e.version \in Nat /\ f.version \in Nat /\ saved.version \in Nat
        /\ \A i \in 1 .. N : records[i].version \in Nat
    BY <1>0, <2>3, <2>4 DEF Engines, Records, Loads
  <2>6. saved.version <= f.version
    BY <2>3, <2>4, <2>5 DEF Loads
  <2>7. \A i \in 1 .. n : records[i].version <= f.version
    <3> TAKE i \in 1 .. n
    <3>1. i \in 1 .. n - 1 \/ i = n
      BY <2>1
    <3>2. i \in 1 .. N
      BY <1>0
    <3> QED
      BY <2>3, <2>4, <2>5, <3>1, <3>2 DEF Loads
  <2>8. Loads(f, saved, records, n)
    BY <2>4, <2>6, <2>7 DEF Loads
  <2> QED
    BY <2>1, <2>8 DEF f
<1>3. \A n \in 0 .. N : n \in S
  <2> HIDE DEF S
  <2> QED
    BY <1>0, <1>1, <1>2, UpTo
<1> QED
  BY <1>3 DEF N

\* No version passes the last that was written.
LEMMA LoadVersion ==
  ASSUME NEW saved \in Engines, NEW records \in Seq(Records), NEW bound \in Nat,
         saved.version <= bound, \A i \in 1 .. Len(records) : records[i].version <= bound
  PROVE  \A n \in 0 .. Len(records) : Load(saved, records, n).version <= bound
<1> DEFINE N == Len(records)
           S == {n \in 0 .. N : Load(saved, records, n).version <= bound}
<1>0. N \in Nat /\ \A n \in 1 .. N : records[n].version <= bound
  BY LenProperties
<1> HIDE DEF N
<1>1. 0 \in S
  BY <1>0, LoadZero, SavedIs
<1>2. ASSUME NEW n \in 1 .. N, n - 1 \in S
      PROVE  n \in S
  <2>1. n \in Nat /\ n # 0 /\ n \in 0 .. N
    BY <1>0
  <2> DEFINE e == Load(saved, records, n - 1)  f == Load(saved, records, n)
  <2>2. f = LoadRecord(e, records[n]) /\ e.version <= bound
    BY <1>2, <2>1, LoadStep
  <2> HIDE DEF e, f
  <2>3. f.version <= bound
    BY <1>0, <2>2 DEF LoadRecord
  <2> QED
    BY <2>1, <2>3 DEF f
<1>3. \A n \in 0 .. N : n \in S
  <2> HIDE DEF S
  <2> QED
    BY <1>0, <1>1, <1>2, UpTo
<1> QED
  BY <1>3 DEF N

\* What state.json covers is skipped.
LEMMA LoadCovered ==
  ASSUME NEW saved \in Engines, NEW records \in Seq(Records),
         \A i \in 1 .. Len(records) : records[i].version <= saved.version
  PROVE  LoadAll(saved, records) = Saved(saved)
<1> DEFINE N == Len(records)
           S == {n \in 0 .. N : Load(saved, records, n) = Saved(saved)}
<1>0. N \in Nat /\ \A n \in 1 .. N : records[n].version <= saved.version
  BY LenProperties
<1> HIDE DEF N
<1>1. 0 \in S
  BY <1>0, LoadZero
<1>2. ASSUME NEW n \in 1 .. N, n - 1 \in S
      PROVE  n \in S
  <2>1. n \in Nat /\ n # 0 /\ n \in 0 .. N
    BY <1>0
  <2>2. Load(saved, records, n) = LoadRecord(Saved(saved), records[n])
    BY <1>2, <2>1, LoadStep
  <2>3. records[n].version <= Saved(saved).version
    BY <1>0, SavedIs
  <2>4. Load(saved, records, n) = Saved(saved)
    BY <2>2, <2>3 DEF LoadRecord
  <2> QED
    BY <2>1, <2>4
<1>3. \A n \in 0 .. N : n \in S
  <2> HIDE DEF S
  <2> QED
    BY <1>0, <1>1, <1>2, UpTo
<1>4. N \in 0 .. N
  BY <1>0
<1> QED
  BY <1>3, <1>4 DEF N, LoadAll

\* A record more is read last.
LEMMA LoadAppend ==
  ASSUME NEW saved \in Engines, NEW records \in Seq(Records), NEW record \in Records
  PROVE  LoadAll(saved, Append(records, record)) = LoadRecord(LoadAll(saved, records), record)
<1> DEFINE N == Len(records)  more == Append(records, record)
           S == {n \in 0 .. N : Load(saved, more, n) = Load(saved, records, n)}
<1>0. /\ N \in Nat /\ Len(more) = N + 1 /\ more[N + 1] = record
      /\ \A n \in 1 .. N : more[n] = records[n]
  BY LenProperties, AppendProperties
<1> HIDE DEF N, more
<1>1. 0 \in S
  BY <1>0, LoadZero
<1>2. ASSUME NEW n \in 1 .. N, n - 1 \in S
      PROVE  n \in S
  <2>1. n \in Nat /\ n # 0 /\ n \in 0 .. N
    BY <1>0
  <2>2. Load(saved, more, n) = LoadRecord(Load(saved, more, n - 1), more[n])
    BY <2>1, LoadStep
  <2>3. Load(saved, records, n) = LoadRecord(Load(saved, records, n - 1), records[n])
    BY <2>1, LoadStep
  <2>4. Load(saved, more, n) = Load(saved, records, n)
    BY <1>0, <1>2, <2>2, <2>3
  <2> QED
    BY <2>1, <2>4
<1>3. \A n \in 0 .. N : n \in S
  <2> HIDE DEF S
  <2> QED
    BY <1>0, <1>1, <1>2, UpTo
<1>4. N \in 0 .. N /\ N + 1 \in Nat /\ N + 1 # 0 /\ (N + 1) - 1 = N
  BY <1>0
<1>5. Load(saved, more, N + 1) = LoadRecord(Load(saved, more, (N + 1) - 1), more[N + 1])
  BY <1>4, LoadStep
<1>6. Load(saved, more, N) = Load(saved, records, N)
  BY <1>3, <1>4
<1> QED
  BY <1>0, <1>4, <1>5, <1>6 DEF N, more, LoadAll

-----------------------------------------------------------------------------
(* The inductive invariant.                                                *)

\* A row of a transaction that is its own, or the row that a logged insert holds.
Logged(ops, row) ==
  \/ row.src = << >>
  \/ \E i \in DOMAIN ops : \E j \in DOMAIN ops[i].rows :
       row.src = <<i, j>> /\ ops[i].rows[j] = row.v

\* What a transaction of this table, these operations and this taint has kept: its
\* operations, replayed over the engine's table that it began with, give its table.
Sound(t, ops, marks) ==
  /\ "raised" \notin marks \union taint => Cached(t)
  /\ marks \union taint = {} /\ t.keyed => \A v \in Cells : Count(t.rows, v) <= 1
  /\ marks \subseteq {"key"} => \A k \in DOMAIN t.rows : Logged(ops, t.rows[k])
  /\ tx.open /\ tx.base = version /\ marks \subseteq {"key"} =>
       SameContents(Replayed(table, ops), t)

Transactions ==
  [open : BOOLEAN, base : Nat, table : TablesOf(Rows), ops : Seq(Operations),
   taint : SUBSET Taints]

TxInv ==
  /\ tx \in Transactions /\ tx.base <= version
  /\ Sound(tx.table, tx.ops, tx.taint)

EngineInv ==
  /\ version \in Nat /\ table \in TablesOf(OwnRows)
  /\ log \in Seq(Records) /\ state \in Engines /\ taint \subseteq Taints
  /\ state.version <= version
  /\ \A i \in 1 .. Len(log) : log[i].version <= version
  /\ "raised" \notin taint => Cached(table)
  /\ KeysUnique
  /\ ReplayMatchesUntainted

TablesInv == EngineInv /\ TxInv

LEMMA LoadedIs ==
  Loaded = LoadAll(state, log).table /\ LoadedVersion = LoadAll(state, log).version
BY DEF Loaded, LoadedVersion, LoadAll

\* It implies the invariants that are checked.
LEMMA TablesInvImplies ==
  ASSUME TablesInv
  PROVE  TypeOK /\ CachesAgree /\ KeysUnique /\ ReplayMatchesUntainted
<1>1. TypeOK
  BY DEF TablesInv, EngineInv, TxInv, TypeOK, Transactions, Records, Engines
<1>2. table \in TablesOf(OwnRows) /\ tx.table \in TablesOf(Rows)
  BY DEF TablesInv, EngineInv, TxInv, Transactions
<1>3. CachesAgree
  <2>1. "raised" \notin taint => Cached(table)
    BY DEF TablesInv, EngineInv
  <2>2. "raised" \notin tx.taint \union taint => Cached(tx.table)
    BY DEF TablesInv, TxInv, Sound
  <2>3. Cached(table) <=> table = Rebuild(table)
    BY <1>2, RowSets, CachedIs
  <2>4. Cached(tx.table) <=> tx.table = Rebuild(tx.table)
    BY <1>2, RowSets, CachedIs
  <2> QED
    BY <2>1, <2>2, <2>3, <2>4 DEF CachesAgree
<1> QED
  BY <1>1, <1>3 DEF TablesInv, EngineInv

\* No transaction is open: there is nothing to keep.
LEMMA NoTxIs ==
  /\ NoTx \in Transactions /\ NoTx.base = 0 /\ NoTx.taint = {} /\ NoTx.open = FALSE
  /\ Cached(NoTx.table) /\ NoTx.table.keyed = FALSE /\ DOMAIN NoTx.table.rows = {}
<1>1. /\ NoTx \in Transactions /\ NoTx.base = 0 /\ NoTx.taint = {}
      /\ NoTx.open = FALSE /\ NoTx.table = Absent
  <2>1. Absent \in TablesOf(Rows) /\ << >> \in Seq(Operations)
    BY RowSets, FreshIs, EmptySeq
  <2> QED
    BY <2>1 DEF NoTx, Transactions
<1>2. Cached(Absent) /\ Absent.rows = << >> /\ Absent.keyed = FALSE
  BY RowSets, FreshIs
<1> QED
  BY <1>1, <1>2

LEMMA NoTxKeeps ==
  ASSUME version' \in Nat, tx' = NoTx
  PROVE  TxInv'
<1>1. tx' \in Transactions /\ tx'.base <= version'
  BY NoTxIs
<1>2. Sound(tx.table, tx.ops, tx.taint)'
  BY NoTxIs DEF Sound
<1> QED
  BY <1>1, <1>2 DEF TxInv

\* A statement changes the transaction only.
LEMMA StatementKeeps ==
  ASSUME TablesInv, NEW t \in TablesOf(Rows), NEW ops \in Seq(Operations),
         NEW marks \in SUBSET Taints, Statement(t, ops, marks),
         Sound(t, ops, tx.taint \union marks)
  PROVE  TablesInv'
<1>1. /\ tx \in Transactions /\ tx.base <= version
      /\ tx' = [tx EXCEPT !.table = t, !.ops = ops, !.taint = tx.taint \union marks]
      /\ UNCHANGED <<version, table, log, state, taint>>
  BY DEF TablesInv, TxInv, Statement
<1>2. /\ tx' \in Transactions /\ tx'.table = t /\ tx'.ops = ops
      /\ tx'.taint = tx.taint \union marks /\ tx'.open = tx.open /\ tx'.base = tx.base
  <2> DEFINE x == [tx EXCEPT !.table = t]
             y == [x EXCEPT !.ops = ops]
             z == [y EXCEPT !.taint = tx.taint \union marks]
  <2>1. tx' = z
    BY <1>1
  <2>2. /\ x \in Transactions /\ x.table = t /\ x.open = tx.open /\ x.base = tx.base
    BY <1>1 DEF Transactions
  <2> HIDE DEF x
  <2>3. /\ y \in Transactions /\ y.table = x.table /\ y.ops = ops
        /\ y.open = x.open /\ y.base = x.base
    BY <2>2 DEF Transactions
  <2> HIDE DEF y
  <2>4. tx.taint \union marks \in SUBSET Taints
    BY <1>1 DEF Transactions
  <2>5. /\ z \in Transactions /\ z.table = y.table /\ z.ops = y.ops
        /\ z.taint = tx.taint \union marks /\ z.open = y.open /\ z.base = y.base
    BY <2>3, <2>4 DEF Transactions
  <2> QED
    BY <2>1, <2>2, <2>3, <2>5
<1>3. Sound(tx.table, tx.ops, tx.taint)'
  BY <1>1, <1>2 DEF Sound
<1>4. TxInv'
  BY <1>1, <1>2, <1>3 DEF TxInv
<1>5. EngineInv'
  <2>1. Loaded' = Loaded
    BY <1>1 DEF Loaded
  <2>2. EngineInv
    BY DEF TablesInv
  <2> QED
    BY <1>1, <2>1, <2>2 DEF EngineInv, KeysUnique, ReplayMatchesUntainted, ReplayMatches
<1> QED
  BY <1>4, <1>5 DEF TablesInv

\* What a row's operation held, it holds when operations are added.
LEMMA LoggedMore ==
  ASSUME NEW ops \in Seq(Operations), NEW more \in Seq(Operations), NEW row,
         Logged(ops, row)
  PROVE  Logged(ops \o more, row)
<1> DEFINE all == ops \o more
<1>1. /\ DOMAIN ops = 1 .. Len(ops) /\ DOMAIN all = 1 .. Len(ops) + Len(more)
      /\ Len(ops) \in Nat /\ Len(more) \in Nat
      /\ \A i \in 1 .. Len(ops) + Len(more) : i <= Len(ops) => all[i] = ops[i]
  BY ConcatProperties, LenProperties
<1> HIDE DEF all
<1>2. \A i \in DOMAIN ops : i \in DOMAIN all /\ all[i] = ops[i]
  BY <1>1
<1> QED
  BY <1>2 DEF Logged, all

LEMMA LoggedAppend ==
  ASSUME NEW ops \in Seq(Operations), NEW op \in Operations, NEW row, Logged(ops, row)
  PROVE  Logged(Append(ops, op), row)
<1>1. << op >> \in Seq(Operations) /\ Append(ops, op) = ops \o << op >>
  BY AppendIsConcat
<1> DEFINE one == << op >>
<1> HIDE DEF one
<1>2. one \in Seq(Operations) /\ Append(ops, op) = ops \o one
  BY <1>1 DEF one
<1> QED
  BY <1>2, LoggedMore

-----------------------------------------------------------------------------
(* Statements that create, and that insert.                                *)

LEMMA OpIs ==
  ASSUME NEW kind \in {"create_table", "create_index", "insert", "update", "delete"}
  PROVE  Op(kind) \in Operations /\ Op(kind).kind = kind
BY EmptySeq DEF Op, Operations, Cells

LEMMA OpsAre ==
  /\ \A keyed \in BOOLEAN : /\ CreateTableOp(keyed) \in Operations
                            /\ CreateTableOp(keyed).kind = "create_table"
                            /\ CreateTableOp(keyed).keyed = keyed
  /\ CreateIndexOp \in Operations /\ CreateIndexOp.kind = "create_index"
  /\ \A cells \in Seq(Cells) : /\ InsertOp(cells) \in Operations
                               /\ InsertOp(cells).kind = "insert"
                               /\ InsertOp(cells).rows = cells
  /\ \A c \in Cells : /\ DeleteOp(c) \in Operations /\ DeleteOp(c).kind = "delete"
                      /\ DeleteOp(c).before = c
  /\ \A c, d \in Cells : /\ UpdateOp(c, d) \in Operations /\ UpdateOp(c, d).kind = "update"
                         /\ UpdateOp(c, d).before = c /\ UpdateOp(c, d).after = d
<1>1. \A keyed \in BOOLEAN : /\ CreateTableOp(keyed) \in Operations
                             /\ CreateTableOp(keyed).kind = "create_table"
                             /\ CreateTableOp(keyed).keyed = keyed
  <2> TAKE keyed \in BOOLEAN
  <2> DEFINE o == Op("create_table")
  <2>1. o \in Operations /\ o.kind = "create_table"
    BY OpIs
  <2> HIDE DEF o
  <2> QED
    BY <2>1 DEF CreateTableOp, Operations, o
<1>2. CreateIndexOp \in Operations /\ CreateIndexOp.kind = "create_index"
  BY OpIs DEF CreateIndexOp
<1>3. \A cells \in Seq(Cells) : /\ InsertOp(cells) \in Operations
                                /\ InsertOp(cells).kind = "insert"
                                /\ InsertOp(cells).rows = cells
  <2> TAKE cells \in Seq(Cells)
  <2> DEFINE o == Op("insert")
  <2>1. o \in Operations /\ o.kind = "insert"
    BY OpIs
  <2> HIDE DEF o
  <2> QED
    BY <2>1 DEF InsertOp, Operations, o
<1>4. \A c \in Cells : /\ DeleteOp(c) \in Operations /\ DeleteOp(c).kind = "delete"
                       /\ DeleteOp(c).before = c
  <2> TAKE c \in Cells
  <2> DEFINE o == Op("delete")
  <2>1. o \in Operations /\ o.kind = "delete"
    BY OpIs
  <2> HIDE DEF o
  <2> QED
    BY <2>1 DEF DeleteOp, Operations, o
<1>5. \A c, d \in Cells : /\ UpdateOp(c, d) \in Operations /\ UpdateOp(c, d).kind = "update"
                          /\ UpdateOp(c, d).before = c /\ UpdateOp(c, d).after = d
  <2> TAKE c, d \in Cells
  <2> DEFINE o == Op("update")  p == [o EXCEPT !.before = c]
  <2>1. o \in Operations /\ o.kind = "update"
    BY OpIs
  <2>2. UpdateOp(c, d) = [p EXCEPT !.after = d]
    BY DEF UpdateOp
  <2> HIDE DEF o
  <2>3. p \in Operations /\ p.kind = "update" /\ p.before = c
    BY <2>1 DEF Operations
  <2> HIDE DEF p
  <2>4. /\ [p EXCEPT !.after = d] \in Operations /\ [p EXCEPT !.after = d].kind = "update"
        /\ [p EXCEPT !.after = d].before = c /\ [p EXCEPT !.after = d].after = d
    BY <2>3 DEF Operations
  <2> QED
    BY <2>2, <2>4
<1> QED
  BY <1>1, <1>2, <1>3, <1>4, <1>5

\* What an open transaction has kept, and the types of its parts.
LEMMA TxIs ==
  ASSUME TablesInv
  PROVE  /\ tx.table \in TablesOf(Rows) /\ tx.table.rows \in Seq(Rows)
         /\ tx.ops \in Seq(Operations) /\ tx.taint \subseteq Taints
         /\ Sound(tx.table, tx.ops, tx.taint)
         /\ table \in TablesOf(Rows) /\ table \in TablesOf(OwnRows)
         /\ Replayed(table, tx.ops) \in TablesOf(OwnRows)
<1>1. /\ tx.table \in TablesOf(Rows) /\ tx.ops \in Seq(Operations)
      /\ tx.taint \subseteq Taints /\ Sound(tx.table, tx.ops, tx.taint)
      /\ table \in TablesOf(OwnRows)
  BY DEF TablesInv, TxInv, EngineInv, Transactions
<1>2. tx.table.rows \in Seq(Rows)
  BY <1>1 DEF TablesOf
<1>3. Replayed(table, tx.ops) \in TablesOf(OwnRows)
  <2>1. Len(tx.ops) \in 0 .. Len(tx.ops)
    BY <1>1, LenProperties
  <2> QED
    BY <1>1, <2>1, RowSets, ReplayType DEF Replayed
<1> QED
  BY <1>1, <1>2, <1>3, OwnTable

\* One operation more, replayed over what the others made.
LEMMA SoundAppend ==
  ASSUME TablesInv, NEW op \in Operations,
         tx.open, tx.base = version, tx.taint \subseteq {"key"}
  PROVE  SameContents(Replayed(table, Append(tx.ops, op)), ApplyOperation(tx.table, op))
<1>1. SameContents(Replayed(table, tx.ops), tx.table)
  BY TxIs DEF Sound
<1>2. Replayed(table, Append(tx.ops, op)) = ApplyOperation(Replayed(table, tx.ops), op)
  BY TxIs, ReplayAppend
<1> QED
  BY <1>1, <1>2, TxIs, RowSets, ApplySame

LEMMA CreateTableKeeps ==
  ASSUME TablesInv, NEW keyed \in BOOLEAN, CreateTable(keyed)
  PROVE  TablesInv'
<1> DEFINE t == Fresh(keyed)  op == CreateTableOp(keyed)  ops == Append(tx.ops, op)
<1>1. t \in TablesOf(Rows) /\ Cached(t) /\ t.rows = << >>
  BY RowSets, FreshIs
<1>2. op \in Operations /\ op.kind = "create_table" /\ op.keyed = keyed
  BY OpsAre
<1>3. Statement(t, ops, {})
  BY DEF CreateTable
<1>4. ApplyOperation(tx.table, op) = t
  BY <1>2, TxIs, RowSets, ApplyIs
<1> HIDE DEF t, op
<1>5. ops \in Seq(Operations)
  BY <1>2, TxIs, AppendProperties
<1>6. \A v \in Cells : Count(t.rows, v) = 0
  <2> TAKE v \in Cells
  <2>1. t.rows \in Seq(Rows) /\ Len(t.rows) = 0
    BY <1>1, EmptySeq
  <2>2. \A i \in 1 .. Len(t.rows) : t.rows[i].v # v
    BY <2>1
  <2> QED
    BY <2>1, <2>2, RowSets, CountOfNone
<1>7. DOMAIN t.rows = {}
  BY <1>1
<1>8. tx.open /\ tx.base = version /\ tx.taint \subseteq {"key"} =>
        SameContents(Replayed(table, ops), t)
  BY <1>2, <1>4, SoundAppend
<1> HIDE DEF ops
<1>9. Sound(t, ops, tx.taint \union {})
  BY <1>1, <1>6, <1>7, <1>8 DEF Sound
<1> QED
  BY <1>1, <1>3, <1>5, <1>9, StatementKeeps

LEMMA CreateIndexKeeps ==
  ASSUME TablesInv, CreateIndex
  PROVE  TablesInv'
<1> DEFINE u == [tx.table EXCEPT !.indexed = TRUE]
           t == Rebuild(u)  op == CreateIndexOp  ops == Append(tx.ops, op)
<1>1. u \in TablesOf(Rows) /\ u.rows = tx.table.rows /\ u.keyed = tx.table.keyed
  BY TxIs DEF TablesOf
<1>2. op \in Operations /\ op.kind = "create_index"
  BY OpsAre
<1>3. Statement(t, ops, {})
  BY DEF CreateIndex
<1>4. ApplyOperation(tx.table, op) = t
  BY <1>2 DEF ApplyOperation
<1> HIDE DEF u, op
<1>5. /\ t \in TablesOf(Rows) /\ Cached(t)
      /\ t.rows = tx.table.rows /\ t.keyed = tx.table.keyed
  BY <1>1, RowSets, RebuildIs DEF SameRows
<1> HIDE DEF t
<1>6. ops \in Seq(Operations)
  BY <1>2, TxIs, AppendProperties
<1>7. tx.open /\ tx.base = version /\ tx.taint \subseteq {"key"} =>
        SameContents(Replayed(table, ops), t)
  BY <1>2, <1>4, SoundAppend
<1>8. tx.taint \subseteq {"key"} => \A k \in DOMAIN t.rows : Logged(ops, t.rows[k])
  BY <1>2, <1>5, TxIs, LoggedAppend DEF Sound
<1> HIDE DEF ops
<1>9. Sound(t, ops, tx.taint \union {})
  <2>1. tx.taint \union {} = tx.taint
    OBVIOUS
  <2>2. Sound(tx.table, tx.ops, tx.taint)
    BY TxIs
  <2> QED
    BY <1>5, <1>7, <1>8, <2>1, <2>2 DEF Sound
<1> QED
  BY <1>3, <1>5, <1>6, <1>9, StatementKeeps

\* Of cells that differ, none is there twice.
LEMMA CountDistinct ==
  ASSUME NEW cells \in Seq(Cells), NEW v,
         \A i, j \in 1 .. Len(cells) : j < i => cells[j] # cells[i]
  PROVE  CountTo(cells, v, Len(cells)) <= 1
<1> DEFINE N == Len(cells)  S == {n \in 0 .. N : CountTo(cells, v, n) <= 1}
<1>0. N \in Nat /\ \A i, j \in 1 .. N : j < i => cells[j] # cells[i]
  BY LenProperties
<1> HIDE DEF N
<1>1. 0 \in S
  BY <1>0, CountZero
<1>2. ASSUME NEW n \in 1 .. N, n - 1 \in S
      PROVE  n \in S
  <2>1. n \in Nat /\ n # 0 /\ n \in 0 .. N /\ n - 1 \in Nat
    BY <1>0
  <2>2. CountTo(cells, v, n) = CountTo(cells, v, n - 1) + One(cells[n] = v)
    BY <2>1, CountStep
  <2>3. CountTo(cells, v, n - 1) <= 1 /\ CountTo(cells, v, n - 1) \in Nat
    BY <1>2, <2>1, CountType
  <2>4. CASE cells[n] = v
    <3>1. \A i \in 1 .. n - 1 : i \in 1 .. N /\ i < n
      BY <1>0
    <3>2. \A i \in 1 .. n - 1 : cells[i] # v
      BY <1>0, <2>4, <3>1
    <3>3. CountTo(cells, v, n - 1) = 0
      BY <2>1, <3>2, CountNone
    <3>4. CountTo(cells, v, n) <= 1
      BY <2>2, <3>3 DEF One
    <3> QED
      BY <2>1, <3>4
  <2>5. CASE cells[n] # v
    <3>1. CountTo(cells, v, n) <= 1
      BY <2>2, <2>3, <2>5 DEF One
    <3> QED
      BY <2>1, <3>1
  <2> QED
    BY <2>4, <2>5
<1>3. \A n \in 0 .. N : n \in S
  <2> HIDE DEF S
  <2> QED
    BY <1>0, <1>1, <1>2, UpTo
<1>4. N \in 0 .. N
  BY <1>0
<1> QED
  BY <1>3, <1>4 DEF N

\* Rows that are not duplicates leave the keys unique: by the key set, which is right,
\* and by the comparison of the new rows with each other.
LEMMA InsertUnique ==
  ASSUME NEW R, RowSet(R), NEW t \in TablesOf(R), Cached(t), t.keyed,
         \A v \in Cells : Count(t.rows, v) <= 1,
         NEW new \in Seq(R), NEW cells \in Seq(Cells), Contents(new) = cells,
         ~Duplicate(t, cells)
  PROVE  \A v \in Cells : Count(t.rows \o new, v) <= 1
<1> TAKE v \in Cells
<1>1. t.rows \in Seq(R)
  BY DEF TablesOf
<1>2. Count(t.rows \o new, v) = Count(t.rows, v) + Count(new, v)
  BY <1>1, CountOfConcat
<1>3. Count(t.rows, v) \in Nat /\ Count(new, v) \in Nat /\ Count(t.rows, v) <= 1
  BY <1>1, CountIs
<1>4. /\ DOMAIN cells = 1 .. Len(cells) /\ Len(cells) = Len(new) /\ Len(new) \in Nat
      /\ \A i \in 1 .. Len(new) : cells[i] = new[i].v
  BY ContentsIs, LenProperties
<1>5. /\ \A i \in 1 .. Len(cells) : cells[i] \notin t.keys
      /\ \A i, j \in 1 .. Len(cells) : j < i => cells[j] # cells[i]
  BY <1>4 DEF Duplicate
<1>6. Count(new, v) <= 1
  BY <1>5, CountDistinct, CountIs
<1>7. CASE Count(new, v) = 0
  BY <1>2, <1>3, <1>7
<1>8. CASE Count(new, v) # 0
  <2>1. PICK i \in 1 .. Len(new) : new[i].v = v
    BY <1>8, CountOfNone
  <2>2. v \notin t.keys
    BY <1>4, <1>5, <2>1
  <2>3. t.keys = KeysOf(TRUE, t.rows)
    BY DEF Cached
  <2>4. Count(t.rows, v) = 0
    <3>1. v \in KeysOf(TRUE, t.rows) <=> Count(t.rows, v) # 0
      BY <1>1, KeysAre
    <3> QED
      BY <2>2, <2>3, <3>1
  <2> QED
    BY <1>2, <1>3, <1>6, <2>4
<1> QED
  BY <1>7, <1>8

\* The rows that a statement inserts: their cells, and the operation that logs them.
Inserted(new, cells, op) ==
  /\ new \in Seq(Rows) /\ Len(new) = Len(cells)
  /\ \A i \in 1 .. Len(new) : new[i].v = cells[i] /\ new[i].src = <<op, i>>

LEMMA InsertedKeeps ==
  ASSUME TablesInv, NEW cells \in Seq(Cells), NEW new,
         Inserted(new, cells, Len(tx.ops) + 1), ~Duplicate(tx.table, cells),
         NEW t \in TablesOf(Rows), t.rows = tx.table.rows \o new,
         t.exists = tx.table.exists, t.keyed = tx.table.keyed,
         t.indexed = tx.table.indexed, Cached(tx.table) => Cached(t),
         Statement(t, Append(tx.ops, InsertOp(cells)), {})
  PROVE  TablesInv'
<1> DEFINE op == InsertOp(cells)  ops == Append(tx.ops, op)  old == tx.table.rows
<1>1. op \in Operations /\ op.kind = "insert" /\ op.rows = cells
  BY OpsAre
<1>2. old \in Seq(Rows) /\ tx.table \in TablesOf(Rows) /\ tx.ops \in Seq(Operations)
  BY TxIs
<1>3. new \in Seq(Rows) /\ Contents(new) = cells
  BY RowSets, ContentsEqual DEF Inserted
<1>4. SameRows(ApplyOperation(tx.table, op), [tx.table EXCEPT !.rows = old \o OwnRowsOf(cells)])
  BY <1>1, <1>2, RowSets, ApplyIs
<1> HIDE DEF op
<1>5. ops \in Seq(Operations)
  BY <1>1, <1>2, AppendProperties
<1>6. SameContents(ApplyOperation(tx.table, op), t)
  <2> DEFINE u == ApplyOperation(tx.table, op)  own == OwnRowsOf(cells)
             w == [tx.table EXCEPT !.rows = old \o own]
  <2>1. own \in Seq(OwnRows) /\ Contents(own) = cells
    BY OwnRowsAre
  <2>2. own \in Seq(Rows)
    BY <2>1, RowSets, SeqMonotonic DEF RowSet
  <2>3. SameRows(u, w)
    BY <1>4
  <2> HIDE DEF own, u, old
  <2>4. old \o own \in Seq(Rows)
    BY <1>2, <2>2, ConcatProperties
  <2>5. /\ w.rows = old \o own /\ w.exists = tx.table.exists /\ w.keyed = tx.table.keyed
        /\ w.indexed = tx.table.indexed
    BY <1>2, <2>4, WithRows DEF With
  <2> HIDE DEF w
  <2>6. \A v : Count(own, v) = Count(new, v)
    BY <1>3, <2>1, <2>2, RowSets, CountsSame
  <2>7. \A v \in Cells : Count(old \o own, v) = Count(old \o new, v)
    <3> TAKE v \in Cells
    <3>1. Count(old \o own, v) = Count(old, v) + Count(own, v)
      BY <1>2, <2>2, RowSets, CountOfConcat
    <3>2. Count(old \o new, v) = Count(old, v) + Count(new, v)
      BY <1>2, <1>3, RowSets, CountOfConcat
    <3> QED
      BY <2>6, <3>1, <3>2
  <2>8. t.rows = old \o new
    BY DEF old
  <2>9. SameContents(u, t)
    BY <2>3, <2>5, <2>7, <2>8 DEF SameRows, SameContents
  <2> QED
    BY <2>9 DEF u
<1>7. tx.open /\ tx.base = version /\ tx.taint \subseteq {"key"} =>
        SameContents(Replayed(table, ops), t)
  BY <1>1, <1>6, SoundAppend, SameTrans
<1>8. ASSUME tx.taint \subseteq {"key"}, NEW k \in DOMAIN t.rows
      PROVE  Logged(ops, t.rows[k])
  <2> HIDE DEF old
  <2>1. /\ Len(old) \in Nat /\ Len(new) \in Nat /\ DOMAIN (old \o new) = 1 .. Len(old) + Len(new)
        /\ \A i \in 1 .. Len(old) + Len(new) :
             (old \o new)[i] = IF i <= Len(old) THEN old[i] ELSE new[i - Len(old)]
    BY <1>2, <1>3, ConcatProperties, LenProperties
  <2>2. t.rows = old \o new
    BY DEF old
  <2>3. k \in 1 .. Len(old) + Len(new)
           /\ t.rows[k] = IF k <= Len(old) THEN old[k] ELSE new[k - Len(old)]
    BY <1>8, <2>1, <2>2
  <2>4. CASE k <= Len(old)
    <3>1. k \in DOMAIN old
      BY <1>2, <2>1, <2>3, <2>4, LenProperties
    <3>2. Logged(tx.ops, old[k])
      BY <1>8, <3>1, TxIs DEF Sound, old
    <3>3. Logged(ops, old[k])
      BY <1>1, <1>2, <3>2, LoggedAppend
    <3> QED
      BY <2>3, <2>4, <3>3
  <2>5. CASE ~(k <= Len(old))
    <3> DEFINE j == k - Len(old)  row == new[j]
    <3>1. j \in 1 .. Len(new) /\ Len(cells) = Len(new)
      BY <2>1, <2>3, <2>5 DEF Inserted
    <3>2. row.v = cells[j] /\ row.src = <<Len(tx.ops) + 1, j>>
      BY <3>1 DEF Inserted
    <3>3. /\ Len(tx.ops) \in Nat /\ DOMAIN ops = 1 .. Len(tx.ops) + 1
          /\ ops[Len(tx.ops) + 1] = op
      BY <1>1, <1>2, <1>5, AppendProperties, LenProperties
    <3> DEFINE i == Len(tx.ops) + 1
    <3>4. i \in DOMAIN ops /\ ops[i].rows = cells /\ j \in DOMAIN cells
      BY <1>1, <3>1, <3>3, LenProperties
    <3> HIDE DEF i, j, row, ops
    <3>5. Logged(ops, row)
      BY <3>2, <3>4 DEF Logged, i
    <3>6. t.rows[k] = row
      BY <2>3, <2>5 DEF row, j
    <3> QED
      BY <3>5, <3>6
  <2> QED
    BY <2>4, <2>5
<1>9. ASSUME tx.taint \union taint = {}, t.keyed
      PROVE  \A v \in Cells : Count(t.rows, v) <= 1
  <2>1. /\ Cached(tx.table) /\ tx.table.keyed
        /\ \A v \in Cells : Count(tx.table.rows, v) <= 1
    BY <1>9, TxIs DEF Sound
  <2> QED
    BY <1>2, <1>3, <2>1, RowSets, InsertUnique
<1> HIDE DEF ops
<1>10. Sound(t, ops, tx.taint \union {})
  <2>1. tx.taint \union {} = tx.taint
    OBVIOUS
  <2>2. "raised" \notin tx.taint \union taint => Cached(t)
    BY TxIs DEF Sound
  <2> QED
    BY <1>7, <1>8, <1>9, <2>1, <2>2 DEF Sound
<1>11. Statement(t, ops, {})
  BY DEF ops, op
<1> QED
  BY <1>5, <1>10, <1>11, StatementKeeps

LEMMA RowIs ==
  ASSUME NEW v \in Cells, NEW op \in Nat, NEW at \in Nat
  PROVE  Row(v, op, at) \in Rows /\ Row(v, op, at).v = v /\ Row(v, op, at).src = <<op, at>>
BY DEF Row, Rows

LEMMA InsertKeeps ==
  ASSUME TablesInv, NEW v \in Values, Insert(v)
  PROVE  TablesInv'
<1> DEFINE op == Len(tx.ops) + 1  row == Row(v, op, 1)  t == InsertRow(tx.table, row)
           cells == << v >>  new == << row >>
<1>1. op \in Nat /\ v \in Cells /\ tx.table \in TablesOf(Rows) /\ tx.table.rows \in Seq(Rows)
  BY TxIs, LenProperties DEF Cells
<1>2. Statement(t, Append(tx.ops, InsertOp(cells)), {}) /\ ~Duplicate(tx.table, cells)
  BY DEF Insert, CanInsert
<1> HIDE DEF op
<1>3. row \in Rows /\ row.v = v /\ row.src = <<op, 1>>
  BY <1>1, RowIs
<1> HIDE DEF row
<1>4. /\ t \in TablesOf(Rows) /\ t.rows = Append(tx.table.rows, row)
      /\ t.exists = tx.table.exists /\ t.keyed = tx.table.keyed
      /\ t.indexed = tx.table.indexed /\ (Cached(tx.table) => Cached(t))
  <2> DEFINE old == tx.table
  <2>1. old \in TablesOf(Rows) /\ row \in Rows /\ RowSet(Rows)
    BY <1>1, <1>3, RowSets
  <2> HIDE DEF old
  <2>2. /\ InsertRow(old, row) \in TablesOf(Rows)
        /\ InsertRow(old, row).rows = Append(old.rows, row)
        /\ InsertRow(old, row).exists = old.exists
        /\ InsertRow(old, row).keyed = old.keyed
        /\ InsertRow(old, row).indexed = old.indexed
        /\ Cached(old) => Cached(InsertRow(old, row))
    BY <2>1, InsertRowIs
  <2> QED
    BY <2>2 DEF old
<1> HIDE DEF t
<1>5. t.rows = tx.table.rows \o new
  BY <1>1, <1>3, <1>4, AppendIsConcat
<1>6. cells \in Seq(Cells) /\ Inserted(new, cells, op)
  <2>1. /\ cells \in Seq(Cells) /\ Len(cells) = 1 /\ cells[1] = v
        /\ new \in Seq(Rows) /\ Len(new) = 1 /\ new[1] = row
    BY <1>1, <1>3
  <2>2. \A i \in 1 .. Len(new) : i = 1
    BY <2>1
  <2> HIDE DEF cells, new
  <2> QED
    BY <1>3, <2>1, <2>2 DEF Inserted
<1> HIDE DEF cells, new
<1> QED
  BY <1>2, <1>4, <1>5, <1>6, InsertedKeeps DEF op

LEMMA InsertManyKeeps ==
  ASSUME TablesInv, NEW cells \in Seq(Cells), InsertMany(cells)
  PROVE  TablesInv'
<1> DEFINE op == Len(tx.ops) + 1  new == [i \in DOMAIN cells |-> Row(cells[i], op, i)]
           t == Extend(tx.table, new)
<1>1. op \in Nat /\ tx.table \in TablesOf(Rows)
  BY TxIs, LenProperties
<1>2. Statement(t, Append(tx.ops, InsertOp(cells)), {}) /\ ~Duplicate(tx.table, cells)
  BY DEF InsertMany, CanInsert
<1> HIDE DEF op
<1>3. Inserted(new, cells, op)
  <2> DEFINE n == Len(cells)
  <2>1. n \in Nat /\ \A i \in 1 .. n : cells[i] \in Cells /\ i \in Nat
    BY LenProperties, ElementOfSeq
  <2>2. \A i \in 1 .. n : /\ Row(cells[i], op, i) \in Rows /\ Row(cells[i], op, i).v = cells[i]
                          /\ Row(cells[i], op, i).src = <<op, i>>
    BY <1>1, <2>1, RowIs
  <2>3. new = [i \in 1 .. n |-> Row(cells[i], op, i)]
    BY LenProperties
  <2> HIDE DEF n, new
  <2>4. new \in Seq(Rows) /\ Len(new) = n
    BY <2>1, <2>2, <2>3
  <2> QED
    BY <2>2, <2>3, <2>4 DEF Inserted, n
<1> HIDE DEF new
<1>4. /\ t \in TablesOf(Rows) /\ t.rows = tx.table.rows \o new
      /\ t.exists = tx.table.exists /\ t.keyed = tx.table.keyed
      /\ t.indexed = tx.table.indexed /\ (Cached(tx.table) => Cached(t))
  <2> DEFINE old == tx.table
  <2>1. old \in TablesOf(Rows) /\ new \in Seq(Rows) /\ RowSet(Rows)
    BY <1>1, <1>3, RowSets DEF Inserted
  <2> HIDE DEF old
  <2>2. /\ Extend(old, new) \in TablesOf(Rows) /\ Extend(old, new).rows = old.rows \o new
        /\ Extend(old, new).exists = old.exists /\ Extend(old, new).keyed = old.keyed
        /\ Extend(old, new).indexed = old.indexed
        /\ Cached(old) => Cached(Extend(old, new))
    BY <2>1, ExtendIs
  <2> QED
    BY <2>2 DEF old
<1> HIDE DEF t
<1> QED
  BY <1>2, <1>3, <1>4, InsertedKeeps DEF op

-----------------------------------------------------------------------------
(* UPDATE.                                                                 *)

\* A row with its cell assigned.
Changed(row, assign) == [row EXCEPT !.v = assign[@]]

LEMMA ChangedIs ==
  ASSUME NEW row \in Rows, NEW assign \in [Cells -> Cells]
  PROVE  /\ Changed(row, assign) \in Rows /\ Changed(row, assign).v = assign[row.v]
         /\ Changed(row, assign).src = row.src /\ row.v \in Cells
         /\ assign[row.v] \in Cells
<1>1. row.v \in Cells /\ assign[row.v] \in Cells
  BY DEF Rows
<1> DEFINE w == assign[row.v]
<1>2. Changed(row, assign) = [row EXCEPT !.v = w]
  BY DEF Changed
<1> HIDE DEF w
<1>3. w \in Cells
  BY <1>1 DEF w
<1> QED
  BY <1>1, <1>2, <1>3 DEF Rows, w

\* The rows that an UPDATE of the first n has made.
LEMMA ChangedRowsAre ==
  ASSUME tx.table.rows \in Seq(Rows), NEW where, NEW assign \in [Cells -> Cells], NEW n \in Nat
  PROVE  /\ ChangedRows(where, assign, n) \in Seq(Rows)
         /\ Len(ChangedRows(where, assign, n)) = Len(tx.table.rows)
         /\ \A i \in 1 .. Len(tx.table.rows) :
              ChangedRows(where, assign, n)[i] =
                IF i <= n /\ tx.table.rows[i].v \in where
                  THEN Changed(tx.table.rows[i], assign) ELSE tx.table.rows[i]
<1> DEFINE rows == tx.table.rows  N == Len(rows)
           row(i) == IF i <= n /\ rows[i].v \in where THEN Changed(rows[i], assign) ELSE rows[i]
<1>1. N \in Nat /\ DOMAIN rows = 1 .. N /\ \A i \in 1 .. N : rows[i] \in Rows
  BY LenProperties, ElementOfSeq
<1>2. ChangedRows(where, assign, n) = [i \in 1 .. N |-> row(i)]
  BY <1>1 DEF ChangedRows, Changed
<1>3. \A i \in 1 .. N : row(i) \in Rows
  BY <1>1, ChangedIs
<1> HIDE DEF rows, N, row
<1>4. [i \in 1 .. N |-> row(i)] \in Seq(Rows) /\ Len([i \in 1 .. N |-> row(i)]) = N
  BY <1>1, <1>3
<1>5. \A i \in 1 .. N : ChangedRows(where, assign, n)[i] = row(i)
  BY <1>2
<1> QED
  BY <1>2, <1>4, <1>5 DEF rows, N, row

LEMMA ChangedRowsZero ==
  ASSUME tx.table.rows \in Seq(Rows), NEW where, NEW assign \in [Cells -> Cells]
  PROVE  ChangedRows(where, assign, 0) = tx.table.rows
<1> DEFINE rows == tx.table.rows  new == ChangedRows(where, assign, 0)
<1>1. /\ new \in Seq(Rows) /\ Len(new) = Len(rows)
      /\ \A i \in 1 .. Len(rows) :
           new[i] = IF i <= 0 /\ rows[i].v \in where THEN Changed(rows[i], assign) ELSE rows[i]
  BY ChangedRowsAre
<1>2. Len(rows) \in Nat
  BY LenProperties
<1> HIDE DEF new
<1>3. \A i \in 1 .. Len(new) : new[i] = rows[i]
  BY <1>1, <1>2
<1> QED
  BY <1>1, <1>3, SeqEqual DEF new

LEMMA ChangedRowsStep ==
  ASSUME tx.table.rows \in Seq(Rows), NEW where, NEW assign \in [Cells -> Cells],
         NEW n \in 1 .. Len(tx.table.rows)
  PROVE  ChangedRows(where, assign, n) =
           IF tx.table.rows[n].v \in where
             THEN [ChangedRows(where, assign, n - 1)
                     EXCEPT ![n] = Changed(tx.table.rows[n], assign)]
             ELSE ChangedRows(where, assign, n - 1)
<1> DEFINE rows == tx.table.rows  N == Len(rows)  new == Changed(rows[n], assign)
           a == ChangedRows(where, assign, n)  b == ChangedRows(where, assign, n - 1)
           c == [b EXCEPT ![n] = new]
<1>0. n \in Nat /\ n - 1 \in Nat /\ N \in Nat /\ n \in 1 .. N
  BY LenProperties
<1>1. /\ a \in Seq(Rows) /\ Len(a) = N
      /\ \A i \in 1 .. N :
           a[i] = IF i <= n /\ rows[i].v \in where THEN Changed(rows[i], assign) ELSE rows[i]
  <2>1. n \in Nat
    BY <1>0
  <2> QED
    BY <2>1, ChangedRowsAre
<1>2. /\ b \in Seq(Rows) /\ Len(b) = N
      /\ \A i \in 1 .. N :
           b[i] = IF i <= n - 1 /\ rows[i].v \in where THEN Changed(rows[i], assign) ELSE rows[i]
  BY <1>0, ChangedRowsAre
<1>3. new \in Rows
  <2>1. rows[n] \in Rows
    BY ElementOfSeq
  <2> QED
    BY <2>1, ChangedIs
<1> HIDE DEF a, b, N
<1>4. /\ c \in Seq(Rows) /\ Len(c) = N
      /\ \A i \in 1 .. N : c[i] = IF i = n THEN new ELSE b[i]
  <2>1. n \in 1 .. Len(b)
    BY <1>0, <1>2
  <2> HIDE DEF new
  <2> QED
    BY <1>2, <1>3, <2>1, ExceptSeq
<1> HIDE DEF c
<1>5. \A i \in 1 .. N : i # n => (i <= n <=> i <= n - 1)
  BY <1>0
<1>6. CASE rows[n].v \in where
  <2>1. \A i \in 1 .. Len(a) : a[i] = c[i]
    BY <1>0, <1>1, <1>2, <1>4, <1>5, <1>6
  <2>2. a = c
    BY <1>1, <1>4, <2>1, SeqEqual
  <2> QED
    BY <1>6, <2>2 DEF a, b, c
<1>7. CASE rows[n].v \notin where
  <2>1. \A i \in 1 .. Len(a) : a[i] = b[i]
    BY <1>0, <1>1, <1>2, <1>5, <1>7
  <2>2. a = b
    BY <1>1, <1>2, <2>1, SeqEqual
  <2> QED
    BY <1>7, <2>2 DEF a, b
<1> QED
  BY <1>6, <1>7

\* The operations that a statement logs for the rows it hits, by position.
HitOps(where, op, n) == [k \in DOMAIN Hits(where, n) |-> op[Hits(where, n)[k]]]

LEMMA HitsStep ==
  ASSUME tx.table.rows \in Seq(Rows), NEW where, NEW n \in 1 .. Len(tx.table.rows)
  PROVE  /\ Hits(where, n) = IF tx.table.rows[n].v \in where THEN Append(Hits(where, n - 1), n)
                             ELSE Hits(where, n - 1)
         /\ Hits(where, n - 1) \in Seq(1 .. Len(tx.table.rows))
<1> DEFINE c == Contents(tx.table.rows)
<1>1. n \in Nat /\ n # 0 /\ n - 1 \in Nat /\ c[n] = tx.table.rows[n].v
      /\ 1 .. (n - 1) \subseteq 1 .. Len(tx.table.rows)
  BY ContentsIs, RowSets
<1>2. Positions(c, where, n) = IF c[n] \in where THEN Append(Positions(c, where, n - 1), n)
                               ELSE Positions(c, where, n - 1)
  <2>1. n \in Nat /\ n # 0
    BY <1>1
  <2> HIDE DEF c
  <2> QED
    BY <2>1, PositionsStep
<1>3. Positions(c, where, n - 1) \in Seq(1 .. Len(tx.table.rows))
  BY <1>1, PositionsType, SeqMonotonic
<1> QED
  BY <1>1, <1>2, <1>3 DEF Hits

\* They are those of the first n - 1 rows, and that of the row n if it is hit.
LEMMA HitOpsStep ==
  ASSUME tx.table.rows \in Seq(Rows), NEW where,
         NEW op, \A i \in 1 .. Len(tx.table.rows) : op[i] \in Operations,
         NEW n \in 1 .. Len(tx.table.rows)
  PROVE  HitOps(where, op, n) =
           IF tx.table.rows[n].v \in where THEN Append(HitOps(where, op, n - 1), op[n])
           ELSE HitOps(where, op, n - 1)
<1> DEFINE a == Hits(where, n - 1)  b == Hits(where, n)  N == Len(tx.table.rows)
<1>1. /\ a \in Seq(1 .. N)
      /\ b = IF tx.table.rows[n].v \in where THEN Append(a, n) ELSE a
  BY HitsStep
<1> HIDE DEF a, b, N
<1>2. CASE tx.table.rows[n].v \notin where
  BY <1>1, <1>2 DEF HitOps, a, b
<1>3. CASE tx.table.rows[n].v \in where
  <2> DEFINE m == Len(a)  s == HitOps(where, op, n - 1)  t == HitOps(where, op, n)
  <2>1. /\ m \in Nat /\ DOMAIN a = 1 .. m /\ \A k \in 1 .. m : a[k] \in 1 .. N
    BY <1>1, LenProperties, ElementOfSeq
  <2>2. /\ b \in Seq(1 .. N) /\ DOMAIN b = 1 .. m + 1 /\ b[m + 1] = n
        /\ \A k \in 1 .. m : b[k] = a[k]
    <3>1. n \in 1 .. N /\ b = Append(a, n)
      BY <1>1, <1>3 DEF N
    <3>2. /\ b \in Seq(1 .. N) /\ Len(b) = m + 1 /\ b[m + 1] = n
          /\ \A k \in 1 .. m : b[k] = a[k]
      <4>1. /\ Append(a, n) \in Seq(1 .. N) /\ Len(Append(a, n)) = Len(a) + 1
            /\ Append(a, n)[Len(a) + 1] = n
            /\ \A k \in 1 .. Len(a) : Append(a, n)[k] = a[k]
        <5>1. a \in Seq(1 .. N) /\ n \in 1 .. N
          BY <1>1, <3>1
        <5> DEFINE T == 1 .. N
        <5> HIDE DEF T
        <5>2. a \in Seq(T) /\ n \in T
          BY <5>1 DEF T
        <5>3. /\ Append(a, n) \in Seq(T) /\ Len(Append(a, n)) = Len(a) + 1
              /\ Append(a, n)[Len(a) + 1] = n
              /\ \A k \in 1 .. Len(a) : Append(a, n)[k] = a[k]
          BY <5>2, AppendProperties
        <5> QED
          BY <5>3 DEF T
      <4> QED
        BY <3>1, <4>1
    <3> QED
      BY <3>2, LenProperties
  <2>3. s = [k \in 1 .. m |-> op[a[k]]] /\ t = [k \in 1 .. m + 1 |-> op[b[k]]]
    BY <2>1, <2>2 DEF HitOps, a, b
  <2>4. \A i \in 1 .. N : op[i] \in Operations
    BY DEF N
  <2> HIDE DEF m, s, t
  <2>5. s \in Seq(Operations) /\ Len(s) = m
    BY <2>1, <2>3, <2>4
  <2>6. \A k \in 1 .. m + 1 : b[k] \in 1 .. N
    BY <2>2, LenProperties, ElementOfSeq
  <2>7. t \in Seq(Operations) /\ Len(t) = m + 1
    BY <2>1, <2>3, <2>4, <2>6
  <2>8. op[n] \in Operations
    OBVIOUS
  <2>9. /\ Append(s, op[n]) \in Seq(Operations) /\ Len(Append(s, op[n])) = m + 1
        /\ Append(s, op[n])[m + 1] = op[n]
        /\ \A k \in 1 .. m : Append(s, op[n])[k] = s[k]
    BY <2>5, <2>8, AppendProperties
  <2>10. \A k \in 1 .. Len(t) : t[k] = Append(s, op[n])[k]
    <3>1. \A k \in 1 .. m + 1 : k \in 1 .. m \/ k = m + 1
      BY <2>1
    <3> QED
      BY <2>2, <2>3, <2>7, <2>9, <3>1
  <2>11. t = Append(s, op[n])
    BY <2>7, <2>9, <2>10, SeqEqual
  <2> QED
    BY <1>3, <2>11 DEF s, t
<1> QED
  BY <1>2, <1>3

LEMMA HitOpsAre ==
  ASSUME tx.table.rows \in Seq(Rows), NEW where,
         NEW op, \A i \in 1 .. Len(tx.table.rows) : op[i] \in Operations
  PROVE  /\ HitOps(where, op, 0) = << >>
         /\ \A n \in 0 .. Len(tx.table.rows) : HitOps(where, op, n) \in Seq(Operations)
<1> DEFINE N == Len(tx.table.rows)
           S == {n \in 0 .. N : HitOps(where, op, n) \in Seq(Operations)}
<1>0. N \in Nat
  BY LenProperties
<1>1. HitOps(where, op, 0) = << >>
  <2>1. Hits(where, 0) = << >>
    BY PositionsZero DEF Hits
  <2>2. DOMAIN Hits(where, 0) = {}
    BY <2>1
  <2> QED
    BY <2>2 DEF HitOps
<1>2. 0 \in S
  <2>1. << >> \in Seq(Operations)
    BY EmptySeq
  <2>2. HitOps(where, op, 0) \in Seq(Operations)
    BY <1>1, <2>1
  <2> QED
    BY <1>0, <2>2
<1>3. ASSUME NEW n \in 1 .. N, n - 1 \in S
      PROVE  n \in S
  <2>1. HitOps(where, op, n - 1) \in Seq(Operations) /\ op[n] \in Operations
    BY <1>3
  <2>2. Append(HitOps(where, op, n - 1), op[n]) \in Seq(Operations)
    BY <2>1, AppendProperties
  <2>3. HitOps(where, op, n) \in Seq(Operations)
    BY <2>1, <2>2, HitOpsStep
  <2> QED
    BY <1>0, <2>3
<1> HIDE DEF N
<1>4. \A n \in 0 .. N : n \in S
  <2> HIDE DEF S
  <2> QED
    BY <1>0, <1>2, <1>3, UpTo
<1> QED
  BY <1>1, <1>4 DEF N

\* What an UPDATE logs for each row.
RowUpdate(assign) ==
  [i \in DOMAIN tx.table.rows |->
     UpdateOp(tx.table.rows[i].v, assign[tx.table.rows[i].v])]

LEMMA RowUpdateIs ==
  ASSUME tx.table.rows \in Seq(Rows), NEW assign \in [Cells -> Cells]
  PROVE  \A i \in 1 .. Len(tx.table.rows) :
           /\ RowUpdate(assign)[i] = UpdateOp(tx.table.rows[i].v, assign[tx.table.rows[i].v])
           /\ RowUpdate(assign)[i] \in Operations
           /\ tx.table.rows[i] \in Rows /\ tx.table.rows[i].v \in Cells
           /\ assign[tx.table.rows[i].v] \in Cells
<1> TAKE i \in 1 .. Len(tx.table.rows)
<1>1. tx.table.rows[i] \in Rows /\ i \in DOMAIN tx.table.rows
  BY LenProperties, ElementOfSeq
<1>2. tx.table.rows[i].v \in Cells /\ assign[tx.table.rows[i].v] \in Cells
  BY <1>1, ChangedIs
<1>3. RowUpdate(assign)[i] = UpdateOp(tx.table.rows[i].v, assign[tx.table.rows[i].v])
  BY <1>1 DEF RowUpdate
<1> QED
  BY <1>1, <1>2, <1>3, OpsAre

LEMMA ChangeOpsAre ==
  ASSUME tx.table.rows \in Seq(Rows), NEW where, NEW assign \in [Cells -> Cells],
         NEW n \in 0 .. Len(tx.table.rows)
  PROVE  /\ ChangeOps(where, assign, n) = HitOps(where, RowUpdate(assign), n)
         /\ ChangeOps(where, assign, n) \in Seq(Operations)
<1> DEFINE h == Hits(where, n)
<1>1. Len(tx.table.rows) \in Nat /\ n \in Nat /\ DOMAIN tx.table.rows = 1 .. Len(tx.table.rows)
      /\ 1 .. n \subseteq 1 .. Len(tx.table.rows)
  BY LenProperties
<1>2. h \in Seq(1 .. n)
  BY <1>1, PositionsType DEF Hits
<1>3. \A k \in DOMAIN h : h[k] \in DOMAIN tx.table.rows
  BY <1>1, <1>2, LenProperties, ElementOfSeq
<1> HIDE DEF h
<1>4. \A k \in DOMAIN h : RowUpdate(assign)[h[k]]
        = UpdateOp(tx.table.rows[h[k]].v, assign[tx.table.rows[h[k]].v])
  BY <1>1, <1>3, RowUpdateIs
<1>5. ChangeOps(where, assign, n) = HitOps(where, RowUpdate(assign), n)
  BY <1>4 DEF ChangeOps, HitOps, h
<1> QED
  BY <1>5, RowUpdateIs, HitOpsAre

\* The replay of the operations that an UPDATE of n rows logs makes the rows that it
\* makes: by value, whichever of the equal rows the replay finds first.
LEMMA UpdateReplays ==
  ASSUME tx.table \in TablesOf(Rows), NEW where, NEW assign \in [Cells -> Cells],
         NEW s \in TablesOf(OwnRows), SameContents(s, tx.table)
  PROVE  \A n \in 0 .. Len(tx.table.rows) :
           SameContents(Replayed(s, ChangeOps(where, assign, n)),
                        [tx.table EXCEPT !.rows = ChangedRows(where, assign, n)])
<1> DEFINE rows == tx.table.rows  N == Len(rows)
           made(n) == [tx.table EXCEPT !.rows = ChangedRows(where, assign, n)]
           run(n) == Replayed(s, ChangeOps(where, assign, n))
           S == {n \in 0 .. N : SameContents(run(n), made(n))}
<1>0. rows \in Seq(Rows) /\ N \in Nat
  BY LenProperties DEF TablesOf
<1>1. 0 \in S
  <2>1. ChangeOps(where, assign, 0) = << >>
    <3>1. 0 \in 0 .. N
      BY <1>0
    <3> QED
      BY <1>0, <3>1, ChangeOpsAre, HitOpsAre, RowUpdateIs
  <2>2. run(0) = s
    BY <2>1, ReplayZero DEF Replayed
  <2>3. With(made(0), Rows, tx.table, rows, tx.table.keys, tx.table.index)
    BY <1>0, ChangedRowsZero, WithRows
  <2> HIDE DEF made
  <2>4. SameContents(s, made(0))
    BY <2>3 DEF SameContents, With
  <2> HIDE DEF run
  <2>5. SameContents(run(0), made(0))
    BY <2>2, <2>4
  <2> QED
    BY <1>0, <2>5
<1>2. ASSUME NEW n \in 1 .. N, n - 1 \in S
      PROVE  n \in S
  <2>1. n \in Nat /\ n - 1 \in Nat /\ n \in 0 .. N /\ n - 1 \in 0 .. N /\ n \in 1 .. N
    BY <1>0
  <2> DEFINE v == rows[n].v  w == assign[v]  op == UpdateOp(v, w)
             p == ChangeOps(where, assign, n - 1)  c == ChangedRows(where, assign, n - 1)
             d == ChangedRows(where, assign, n)  new == Changed(rows[n], assign)
  <2>2. /\ op = RowUpdate(assign)[n] /\ op \in Operations /\ rows[n] \in Rows
        /\ v \in Cells /\ w \in Cells
    BY <1>0, <2>1, RowUpdateIs
  <2>3. /\ ChangeOps(where, assign, n) = IF v \in where THEN Append(p, op) ELSE p
        /\ p \in Seq(Operations)
    <3>1. /\ ChangeOps(where, assign, n) = HitOps(where, RowUpdate(assign), n)
          /\ p = HitOps(where, RowUpdate(assign), n - 1) /\ p \in Seq(Operations)
      BY <1>0, <2>1, ChangeOpsAre
    <3>2. HitOps(where, RowUpdate(assign), n) =
            IF v \in where THEN Append(HitOps(where, RowUpdate(assign), n - 1), RowUpdate(assign)[n])
            ELSE HitOps(where, RowUpdate(assign), n - 1)
      <4> DEFINE ru == RowUpdate(assign)
      <4>1. \A i \in 1 .. Len(tx.table.rows) : ru[i] \in Operations
        BY <1>0, RowUpdateIs
      <4>2. tx.table.rows \in Seq(Rows) /\ n \in 1 .. Len(tx.table.rows)
        BY <1>0, <2>1
      <4> HIDE DEF ru
      <4>3. HitOps(where, ru, n) =
              IF tx.table.rows[n].v \in where THEN Append(HitOps(where, ru, n - 1), ru[n])
              ELSE HitOps(where, ru, n - 1)
        BY <4>1, <4>2, HitOpsStep
      <4> QED
        BY <4>3 DEF ru
    <3> QED
      BY <2>2, <3>1, <3>2
  <2>4. d = IF v \in where THEN [c EXCEPT ![n] = new] ELSE c
    <3>1. tx.table.rows \in Seq(Rows) /\ n \in 1 .. Len(tx.table.rows)
      BY <1>0, <2>1
    <3> HIDE DEF S
    <3>2. ChangedRows(where, assign, n) =
            IF tx.table.rows[n].v \in where
              THEN [ChangedRows(where, assign, n - 1)
                      EXCEPT ![n] = Changed(tx.table.rows[n], assign)]
              ELSE ChangedRows(where, assign, n - 1)
      BY <3>1, ChangedRowsStep, SMTT(30)
    <3> QED
      BY <3>2
  <2>5. /\ c \in Seq(Rows) /\ Len(c) = N /\ c[n] = rows[n]
    <3>1. /\ c \in Seq(Rows) /\ Len(c) = N
          /\ \A i \in 1 .. N :
               c[i] = IF i <= n - 1 /\ rows[i].v \in where THEN Changed(rows[i], assign) ELSE rows[i]
      BY <1>0, <2>1, ChangedRowsAre
    <3>2. ~(n <= n - 1)
      BY <2>1
    <3> QED
      BY <2>1, <3>1, <3>2
  <2>6. new \in Rows /\ new.v = w
    BY <2>2, ChangedIs
  <2>7. SameContents(run(n - 1), made(n - 1))
    BY <1>2
  <2>8. CASE v \notin where
    <3>1. run(n) = run(n - 1) /\ made(n) = made(n - 1)
      BY <2>3, <2>4, <2>8
    <3> HIDE DEF run, made
    <3> QED
      BY <2>1, <2>7, <3>1
  <2>9. CASE v \in where
    <3> DEFINE u == run(n - 1)  q == made(n - 1)
    <3>1. run(n) = ApplyOperation(u, op)
      BY <2>2, <2>3, <2>9, ReplayAppend
    <3>2. u \in TablesOf(OwnRows)
      <4>1. Len(p) \in 0 .. Len(p)
        BY <2>3, LenProperties
      <4> QED
        BY <2>3, <4>1, RowSets, ReplayType DEF Replayed
    <3>3. With(q, Rows, tx.table, c, tx.table.keys, tx.table.index)
      BY <2>5, WithRows
    <3>4. [c EXCEPT ![n] = new] \in Seq(Rows)
      <4> HIDE DEF c, new
      <4> QED
        BY <2>1, <2>5, <2>6, ExceptSeq
    <3>5. With(made(n), Rows, tx.table, [c EXCEPT ![n] = new], tx.table.keys, tx.table.index)
      BY <2>4, <2>9, <3>4, WithRows
    <3>6. op.kind = "update" /\ op.before = v /\ op.after = w
      BY <2>2, OpsAre
    <3> DEFINE m == made(n)
    <3> HIDE DEF u, q, m, op, c, new, v, w
    <3>7. SameContents(ApplyOperation(u, op), ApplyOperation(q, op))
      BY <2>2, <2>7, <3>2, <3>3, RowSets, ApplySame DEF With, u, q
    <3>8. SameContents(ApplyOperation(q, op), m)
      <4> DEFINE a == ReplayUpdate(c, op)
      <4>1. SameRows(ApplyOperation(q, op), [q EXCEPT !.rows = a])
        BY <2>2, <3>3, <3>6, RowSets, ApplyIs DEF With
      <4>2. /\ a \in Seq(Rows)
            /\ \A z : IF Count(c, v) = 0 THEN Count(a, z) = Count(c, z)
                      ELSE Count(a, z) + One(v = z) = Count(c, z) + One(w = z)
        BY <2>2, <2>5, <3>6, RowSets, ReplayUpdateIs
      <4> HIDE DEF a
      <4>3. With([q EXCEPT !.rows = a], Rows, q, a, q.keys, q.index)
        BY <3>3, <4>2, WithRows DEF With
      <4>4. Count(c, v) # 0
        <5>1. n \in 1 .. Len(c) /\ c[n].v = v
          BY <2>1, <2>5 DEF v
        <5> QED
          BY <2>5, <5>1, RowSets, CountOfNone
      <4>5. \A z \in Cells : Count(a, z) = Count([c EXCEPT ![n] = new], z)
        <5> TAKE z \in Cells
        <5>1. Count([c EXCEPT ![n] = new], z) + One(c[n].v = z) = Count(c, z) + One(new.v = z)
          BY <2>1, <2>5, <2>6, RowSets, CountOfReplace
        <5>2. Count(a, z) + One(v = z) = Count(c, z) + One(w = z)
          BY <4>2, <4>4
        <5>3. c[n].v = v /\ new.v = w
          BY <2>5, <2>6 DEF v
        <5>4. /\ Count([c EXCEPT ![n] = new], z) \in Nat /\ Count(a, z) \in Nat
              /\ One(v = z) \in Nat
          BY <3>4, <4>2, RowSets, CountIs DEF One
        <5> QED
          BY <5>1, <5>2, <5>3, <5>4
      <4> QED
        BY <3>3, <3>5, <4>1, <4>3, <4>5 DEF SameRows, SameContents, With, m
    <3>9. SameContents(run(n), made(n))
      BY <3>1, <3>7, <3>8, SameTrans DEF m
    <3> QED
      BY <2>1, <3>9
  <2> QED
    BY <2>8, <2>9
<1> HIDE DEF N
<1>3. \A n \in 0 .. N : n \in S
  <2> HIDE DEF S
  <2> QED
    BY <1>0, <1>1, <1>2, UpTo
<1> QED
  BY <1>3 DEF N

\* The cells of a logged insert after the rows it shares were changed in place.
SharedCells(cells, i, rows) ==
  [j \in DOMAIN cells |->
     IF {k \in DOMAIN rows : rows[k].src = <<i, j>>} = {} THEN cells[j]
     ELSE rows[Min({k \in DOMAIN rows : rows[k].src = <<i, j>>})].v]

LEMMA SharedIs ==
  ASSUME NEW ops \in Seq(Operations), NEW rows \in Seq(Rows)
  PROVE  /\ Shared(ops, rows) \in Seq(Operations) /\ Len(Shared(ops, rows)) = Len(ops)
         /\ \A i \in 1 .. Len(ops) :
              Shared(ops, rows)[i] = [ops[i] EXCEPT !.rows = SharedCells(ops[i].rows, i, rows)]
<1> DEFINE op(i) == [ops[i] EXCEPT !.rows = SharedCells(ops[i].rows, i, rows)]  N == Len(ops)
<1>1. N \in Nat /\ DOMAIN ops = 1 .. N /\ \A i \in 1 .. N : ops[i] \in Operations
  BY LenProperties, ElementOfSeq
<1>2. Shared(ops, rows) = [i \in 1 .. N |-> op(i)]
  BY <1>1 DEF Shared, SharedCells
<1>3. ASSUME NEW i \in 1 .. N
      PROVE  op(i) \in Operations
  <2> DEFINE cells == ops[i].rows  new == SharedCells(cells, i, rows)  M == Len(cells)
             at(j) == {k \in DOMAIN rows : rows[k].src = <<i, j>>}
  <2>1. cells \in Seq(Cells) /\ ops[i] \in Operations
    BY <1>1, OperationIs
  <2> HIDE DEF cells
  <2>2. M \in Nat /\ DOMAIN cells = 1 .. M /\ \A j \in 1 .. M : cells[j] \in Cells
    BY <2>1, LenProperties, ElementOfSeq
  <2> DEFINE cell(j) == IF at(j) = {} THEN cells[j] ELSE rows[Min(at(j))].v
  <2>3. new = [j \in 1 .. M |-> cell(j)]
    BY <2>2 DEF SharedCells
  <2>4. \A j \in 1 .. M : cell(j) \in Cells
    <3> TAKE j \in 1 .. M
    <3>1. CASE at(j) = {}
      BY <2>2, <3>1
    <3>2. CASE at(j) # {}
      <4>1. at(j) \in SUBSET Nat /\ \A k \in at(j) : k \in 1 .. Len(rows)
        BY LenProperties
      <4>2. Min(at(j)) \in at(j)
        <5> HIDE DEF at
        <5> QED
          BY <3>2, <4>1, MinIs
      <4>3. rows[Min(at(j))] \in Rows
        <5> HIDE DEF at
        <5>1. Min(at(j)) \in 1 .. Len(rows)
          BY <4>1, <4>2
        <5> QED
          BY <5>1, ElementOfSeq
      <4> HIDE DEF at
      <4>4. rows[Min(at(j))].v \in Cells
        BY <4>3, RowSets, RowCell
      <4> QED
        BY <3>2, <4>4
    <3> QED
      BY <3>1, <3>2
  <2> HIDE DEF M, cell, new
  <2>5. new \in Seq(Cells)
    BY <2>2, <2>3, <2>4
  <2>6. [ops[i] EXCEPT !.rows = new] \in Operations
    BY <2>1, <2>5 DEF Operations
  <2> QED
    BY <2>6 DEF new, cells
<1> HIDE DEF op, N
<1>4. [i \in 1 .. N |-> op(i)] \in Seq(Operations) /\ Len([i \in 1 .. N |-> op(i)]) = N
  BY <1>1, <1>3
<1>5. \A i \in 1 .. N : Shared(ops, rows)[i] = op(i)
  BY <1>2
<1> QED
  BY <1>2, <1>4, <1>5 DEF op, N

\* Nothing is shared with a row that was changed: the log is as it was.
LEMMA SharedSame ==
  ASSUME NEW ops \in Seq(Operations), NEW rows \in Seq(Rows),
         \A k \in DOMAIN rows : Logged(ops, rows[k])
  PROVE  Shared(ops, rows) = ops
<1> DEFINE N == Len(ops)  new == Shared(ops, rows)
<1>1. N \in Nat /\ DOMAIN ops = 1 .. N /\ \A i \in 1 .. N : ops[i] \in Operations
  BY LenProperties, ElementOfSeq
<1>2. /\ new \in Seq(Operations) /\ Len(new) = N
      /\ \A i \in 1 .. N : new[i] = [ops[i] EXCEPT !.rows = SharedCells(ops[i].rows, i, rows)]
  BY SharedIs
<1> HIDE DEF new, N
<1>3. ASSUME NEW i \in 1 .. N
      PROVE  new[i] = ops[i]
  <2> DEFINE cells == ops[i].rows  M == Len(cells)
             at(j) == {k \in DOMAIN rows : rows[k].src = <<i, j>>}
  <2>1. cells \in Seq(Cells) /\ ops[i] \in Operations
    BY <1>1, OperationIs
  <2>2. ASSUME NEW j \in DOMAIN cells, at(j) # {}
        PROVE  rows[Min(at(j))].v = cells[j]
    <3>1. at(j) \in SUBSET Nat
      BY LenProperties
    <3>2. Min(at(j)) \in at(j)
      <4> HIDE DEF at
      <4> QED
        BY <2>2, <3>1, MinIs
    <3>3. PICK k \in DOMAIN rows : k = Min(at(j)) /\ rows[k].src = <<i, j>>
      BY <3>2
    <3>4. Logged(ops, rows[k]) /\ rows[k].src # << >>
      BY <3>3
    <3>5. PICK x \in DOMAIN ops : \E y \in DOMAIN ops[x].rows :
            rows[k].src = <<x, y>> /\ ops[x].rows[y] = rows[k].v
      BY <3>4 DEF Logged
    <3>6. PICK y \in DOMAIN ops[x].rows : rows[k].src = <<x, y>> /\ ops[x].rows[y] = rows[k].v
      BY <3>5
    <3>7. x = i /\ y = j
      BY <3>3, <3>6
    <3> HIDE DEF at
    <3> QED
      BY <3>3, <3>6, <3>7
  <2>3. SharedCells(cells, i, rows) = [j \in DOMAIN cells |-> cells[j]]
    BY <2>2 DEF SharedCells
  <2>4. [j \in DOMAIN cells |-> cells[j]] = cells
    <3> HIDE DEF cells
    <3>1. cells \in [1 .. Len(cells) -> Cells]
      BY <2>1, LenProperties
    <3> QED
      BY <3>1
  <2>5. new[i] = [ops[i] EXCEPT !.rows = ops[i].rows]
    BY <1>2, <2>3, <2>4
  <2> QED
    BY <2>1, <2>5 DEF Operations
<1>4. new = ops
  BY <1>2, <1>3, SeqEqual DEF N
<1> QED
  BY <1>4 DEF new

\* What an UPDATE is given, and what it taints.
LEMMA StatementIs ==
  ASSUME NEW where \in Wheres, NEW assign \in Assignments
  PROVE  where \in SUBSET Cells /\ assign \in [Cells -> Cells]
BY StatementsAssumption

LEMMA MarksAre ==
  ASSUME NEW where, tx.table.rows \in Seq(Rows)
  PROVE  /\ Marks(where) \in SUBSET Taints
         /\ "alias" \notin Marks(where) =>
              \A i \in 1 .. Len(tx.table.rows) :
                tx.table.rows[i].v \in where => tx.table.rows[i].src = << >>
         /\ Marks(where) = {} /\ tx.table.keyed =>
              \A i \in 1 .. Len(tx.table.rows) : tx.table.rows[i].v \notin where
<1>1. DOMAIN tx.table.rows = 1 .. Len(tx.table.rows)
  BY LenProperties
<1>2. Marks(where) \in SUBSET Taints
  BY DEF Marks, Taints
<1>3. "alias" \notin Marks(where) =>
        \A i \in 1 .. Len(tx.table.rows) :
          tx.table.rows[i].v \in where => tx.table.rows[i].src = << >>
  BY <1>1 DEF Marks
<1>4. Marks(where) = {} /\ tx.table.keyed =>
        \A i \in 1 .. Len(tx.table.rows) : tx.table.rows[i].v \notin where
  BY <1>1 DEF Marks
<1> QED
  BY <1>2, <1>3, <1>4

\* The rows and operations of an UPDATE have their types.
LEMMA UpdateTypes ==
  ASSUME TablesInv, NEW where \in Wheres, NEW assign \in Assignments,
         NEW n \in 0 .. Len(tx.table.rows), NEW m \in 0 .. Len(tx.table.rows)
  PROVE  /\ ChangedRows(where, assign, n) \in Seq(Rows)
         /\ Shared(tx.ops, ChangedRows(where, assign, n)) \o ChangeOps(where, assign, m)
              \in Seq(Operations)
<1>1. /\ tx.table.rows \in Seq(Rows) /\ tx.ops \in Seq(Operations)
      /\ assign \in [Cells -> Cells] /\ n \in Nat
  BY TxIs, StatementIs, LenProperties
<1>2. ChangedRows(where, assign, n) \in Seq(Rows)
  BY <1>1, ChangedRowsAre
<1>3. ChangeOps(where, assign, m) \in Seq(Operations)
  BY <1>1, ChangeOpsAre
<1>4. Shared(tx.ops, ChangedRows(where, assign, n)) \in Seq(Operations)
  BY <1>1, <1>2, SharedIs
<1> QED
  BY <1>2, <1>3, <1>4, ConcatProperties

LEMMA UpdateKeeps ==
  ASSUME TablesInv, NEW where \in Wheres, NEW assign \in Assignments, Update(where, assign)
  PROVE  TablesInv'
<1> DEFINE rows == tx.table.rows  N == Len(rows)  new == ChangedRows(where, assign, N)
           made == [tx.table EXCEPT !.rows = new]  t == Updated(new)
           shared == Shared(tx.ops, new)  more == ChangeOps(where, assign, N)
           ops == shared \o more  marks == Marks(where)
<1>1. /\ tx.table \in TablesOf(Rows) /\ rows \in Seq(Rows) /\ tx.ops \in Seq(Operations)
      /\ Sound(tx.table, tx.ops, tx.taint) /\ N \in Nat /\ N \in 0 .. N
      /\ DOMAIN rows = 1 .. N /\ Replayed(table, tx.ops) \in TablesOf(OwnRows)
      /\ where \in SUBSET Cells /\ assign \in [Cells -> Cells]
  BY TxIs, StatementIs, LenProperties
<1>2. Statement(t, ops, marks)
  BY DEF Update
<1>3. new \in Seq(Rows) /\ ops \in Seq(Operations)
  BY <1>1, UpdateTypes
<1>4. /\ Len(new) = N /\ DOMAIN new = 1 .. N
      /\ \A i \in 1 .. N :
           new[i] = IF i <= N /\ rows[i].v \in where THEN Changed(rows[i], assign) ELSE rows[i]
  BY <1>1, <1>3, ChangedRowsAre, LenProperties
<1>5. more \in Seq(Operations)
  BY <1>1, ChangeOpsAre
<1>6. With(made, Rows, tx.table, new, tx.table.keys, tx.table.index)
  BY <1>1, <1>3, WithRows
<1>7. t = Rebuild(made)
  BY DEF Updated
<1> HIDE DEF t, made
<1>8. t \in TablesOf(Rows) /\ Cached(t) /\ SameRows(t, made)
  BY <1>6, <1>7, RowSets, RebuildIs DEF With
<1>9. /\ t.rows = new /\ t.keyed = tx.table.keyed /\ SameContents(made, t)
  BY <1>6, <1>8 DEF SameRows, With, SameContents
<1>10. /\ marks \in SUBSET Taints
       /\ "alias" \notin marks => \A i \in 1 .. N : rows[i].v \in where => rows[i].src = << >>
       /\ marks = {} /\ tx.table.keyed => \A i \in 1 .. N : rows[i].v \notin where
  BY <1>1, MarksAre
<1> HIDE DEF marks
<1>11. ASSUME tx.taint \union marks \subseteq {"key"}
       PROVE  shared = tx.ops /\ \A k \in DOMAIN new : Logged(tx.ops, new[k])
  <2>1. "alias" \notin marks /\ tx.taint \subseteq {"key"}
    BY <1>11
  <2>2. ASSUME NEW k \in 1 .. N
        PROVE  Logged(tx.ops, new[k])
    <3>1. Logged(tx.ops, rows[k])
      BY <1>1, <2>1 DEF Sound
    <3>2. CASE rows[k].v \in where
      <4>1. new[k] = Changed(rows[k], assign) /\ rows[k].src = << >>
        <5>1. k <= N
          BY <1>1
        <5> QED
          BY <1>4, <1>10, <2>1, <3>2, <5>1
      <4>2. rows[k] \in Rows
        BY <1>1, ElementOfSeq
      <4>3. new[k].src = << >>
        BY <1>1, <4>1, <4>2, ChangedIs
      <4> QED
        BY <4>3 DEF Logged
    <3>3. CASE rows[k].v \notin where
      BY <1>4, <3>1, <3>3
    <3> QED
      BY <3>2, <3>3
  <2>3. \A k \in DOMAIN new : Logged(tx.ops, new[k])
    BY <1>4, <2>2
  <2> HIDE DEF new
  <2> QED
    BY <1>1, <1>3, <2>3, SharedSame
<1>12. ASSUME (tx.taint \union marks) \union taint = {}, t.keyed
       PROVE  \A v \in Cells : Count(t.rows, v) <= 1
  <2>1. marks = {} /\ tx.taint \union taint = {} /\ tx.table.keyed
    BY <1>9, <1>12
  <2>2. \A i \in 1 .. Len(new) : new[i] = rows[i]
    BY <1>4, <1>10, <2>1
  <2>3. new = rows
    <3> HIDE DEF new
    <3> QED
      BY <1>1, <1>3, <1>4, <2>2, SeqEqual
  <2> QED
    BY <1>1, <1>9, <2>1, <2>3 DEF Sound
<1>13. ASSUME tx.open, tx.base = version, tx.taint \union marks \subseteq {"key"}
       PROVE  SameContents(Replayed(table, ops), t)
  <2>1. SameContents(Replayed(table, tx.ops), tx.table)
    BY <1>1, <1>13 DEF Sound
  <2>2. ops = tx.ops \o more
    BY <1>11, <1>13
  <2> DEFINE s == Replayed(table, tx.ops)
  <2>3. Replayed(table, ops) = Replayed(s, more)
    BY <1>1, <1>5, <2>2, ReplayConcat
  <2>4. s \in TablesOf(OwnRows) /\ SameContents(s, tx.table)
    BY <1>1, <2>1
  <2> HIDE DEF s
  <2>5. SameContents(Replayed(s, more), made)
    BY <1>1, <2>4, UpdateReplays DEF made
  <2> QED
    BY <1>9, <2>3, <2>5, SameTrans
<1>14. ASSUME tx.taint \union marks \subseteq {"key"}, NEW k \in DOMAIN t.rows
       PROVE  Logged(ops, t.rows[k])
  <2>1. Logged(tx.ops, t.rows[k]) /\ ops = tx.ops \o more
    BY <1>9, <1>11, <1>14
  <2> QED
    BY <1>1, <1>5, <2>1, LoggedMore
<1> HIDE DEF ops
<1>15. Sound(t, ops, tx.taint \union marks)
  BY <1>8, <1>12, <1>13, <1>14 DEF Sound
<1> QED
  BY <1>2, <1>3, <1>8, <1>10, <1>15, StatementKeeps

\* An UPDATE that raised is tainted: only its types are left to keep.
LEMMA UpdateRaisesKeeps ==
  ASSUME TablesInv, NEW where \in Wheres, NEW assign \in Assignments,
         UpdateRaises(where, assign)
  PROVE  TablesInv'
<1> DEFINE stop == Min(Refused(where, assign))  new == ChangedRows(where, assign, stop)
           t == [tx.table EXCEPT !.rows = new]
           ops == Shared(tx.ops, new) \o ChangeOps(where, assign, stop - 1)
           marks == Marks(where) \union {"raised"}
<1>1. tx.table \in TablesOf(Rows) /\ tx.table.rows \in Seq(Rows)
  BY TxIs
<1>2. Statement(t, ops, marks)
  BY DEF UpdateRaises
<1>3. stop \in 1 .. Len(tx.table.rows)
  <2>1. Refused(where, assign) # {}
    BY DEF UpdateRaises
  <2>2. /\ Refused(where, assign) \in SUBSET Nat
        /\ \A i \in Refused(where, assign) : i \in 1 .. Len(tx.table.rows)
    BY <1>1, LenProperties DEF Refused
  <2> QED
    BY <2>1, <2>2, MinIs
<1>4. /\ stop \in 0 .. Len(tx.table.rows) /\ stop - 1 \in 0 .. Len(tx.table.rows)
  BY <1>3
<1> HIDE DEF stop
<1>5. new \in Seq(Rows) /\ ops \in Seq(Operations)
  BY <1>4, UpdateTypes
<1>6. marks \in SUBSET Taints /\ "raised" \in marks
  BY <1>1, MarksAre DEF Taints
<1> HIDE DEF new, marks, ops
<1>7. t \in TablesOf(Rows)
  BY <1>1, <1>5, WithRows DEF With
<1> HIDE DEF t
<1>8. Sound(t, ops, tx.taint \union marks)
  BY <1>6 DEF Sound
<1> QED
  BY <1>2, <1>5, <1>6, <1>7, <1>8, StatementKeeps

-----------------------------------------------------------------------------
(* DELETE.                                                                 *)

\* The rows that a set of cells keeps of the first n.
KeptRows(S, n) == [k \in DOMAIN Hits(S, n) |-> tx.table.rows[Hits(S, n)[k]]]

LEMMA KeptRowsStep ==
  ASSUME tx.table.rows \in Seq(Rows), NEW S, NEW n \in 1 .. Len(tx.table.rows)
  PROVE  KeptRows(S, n) = IF tx.table.rows[n].v \in S
                            THEN Append(KeptRows(S, n - 1), tx.table.rows[n])
                            ELSE KeptRows(S, n - 1)
<1> DEFINE a == Hits(S, n - 1)  b == Hits(S, n)  rows == tx.table.rows  N == Len(rows)
<1>0. \A i \in 1 .. N : rows[i] \in Rows
  BY ElementOfSeq
<1>1. /\ a \in Seq(1 .. N) /\ b = IF rows[n].v \in S THEN Append(a, n) ELSE a
      /\ n \in 1 .. N
  BY HitsStep
<1> HIDE DEF a, b, N, rows
<1>2. CASE rows[n].v \notin S
  BY <1>1, <1>2 DEF KeptRows, a, b, rows
<1>3. CASE rows[n].v \in S
  <2> DEFINE m == Len(a)  s == KeptRows(S, n - 1)  t == KeptRows(S, n)  T == 1 .. N
  <2>0. T = 1 .. N
    OBVIOUS
  <2> HIDE DEF T
  <2>1. /\ a \in Seq(T) /\ n \in T /\ m \in Nat /\ DOMAIN a = 1 .. m
        /\ \A k \in 1 .. m : a[k] \in T
    BY <1>1, <2>0, LenProperties, ElementOfSeq
  <2>2. /\ b \in Seq(T) /\ Len(b) = m + 1 /\ b[m + 1] = n
        /\ \A k \in 1 .. m : b[k] = a[k]
    <3>1. /\ Append(a, n) \in Seq(T) /\ Len(Append(a, n)) = Len(a) + 1
          /\ Append(a, n)[Len(a) + 1] = n
          /\ \A k \in 1 .. Len(a) : Append(a, n)[k] = a[k]
      BY <2>1, AppendProperties
    <3> QED
      BY <1>1, <1>3, <3>1
  <2>3. DOMAIN b = 1 .. m + 1 /\ \A k \in 1 .. m + 1 : b[k] \in T
    BY <2>2, LenProperties, ElementOfSeq
  <2>4. s = [k \in 1 .. m |-> rows[a[k]]] /\ t = [k \in 1 .. m + 1 |-> rows[b[k]]]
    BY <2>1, <2>3 DEF KeptRows, a, b, rows
  <2> HIDE DEF m, s, t
  <2>5. s \in Seq(Rows) /\ Len(s) = m /\ t \in Seq(Rows) /\ Len(t) = m + 1
    BY <1>0, <2>0, <2>1, <2>3, <2>4
  <2>6. /\ Append(s, rows[n]) \in Seq(Rows) /\ Len(Append(s, rows[n])) = m + 1
        /\ Append(s, rows[n])[m + 1] = rows[n]
        /\ \A k \in 1 .. m : Append(s, rows[n])[k] = s[k]
    <3>1. rows[n] \in Rows
      BY <1>0, <1>1
    <3> QED
      BY <2>5, <3>1, AppendProperties
  <2>7. \A k \in 1 .. Len(t) : t[k] = Append(s, rows[n])[k]
    <3>1. \A k \in 1 .. m + 1 : k \in 1 .. m \/ k = m + 1
      BY <2>1
    <3> QED
      BY <2>2, <2>4, <2>5, <2>6, <3>1
  <2>8. t = Append(s, rows[n])
    BY <2>5, <2>6, <2>7, SeqEqual
  <2> QED
    BY <1>3, <2>8 DEF s, t, rows
<1> QED
  BY <1>2, <1>3 DEF rows

\* Of a cell of S as many are kept as there are, of another none.
LEMMA KeptRowsAre ==
  ASSUME tx.table.rows \in Seq(Rows), NEW S, NEW v
  PROVE  \A n \in 0 .. Len(tx.table.rows) :
           /\ KeptRows(S, n) \in Seq(Rows)
           /\ Count(KeptRows(S, n), v) =
                IF v \in S THEN CountTo(Contents(tx.table.rows), v, n) ELSE 0
<1> DEFINE rows == tx.table.rows  N == Len(rows)  c == Contents(rows)
           T == {n \in 0 .. N : /\ KeptRows(S, n) \in Seq(Rows)
                                /\ Count(KeptRows(S, n), v) =
                                     IF v \in S THEN CountTo(c, v, n) ELSE 0}
<1>0. N \in Nat /\ \A i \in 1 .. N : c[i] = rows[i].v /\ rows[i] \in Rows
  BY ContentsIs, RowSets, ElementOfSeq
<1>1. 0 \in T
  <2>1. Hits(S, 0) = << >>
    BY PositionsZero DEF Hits
  <2>2. KeptRows(S, 0) = << >>
    <3>1. DOMAIN Hits(S, 0) = {}
      BY <2>1
    <3> QED
      BY <3>1 DEF KeptRows
  <2>3. << >> \in Seq(Rows) /\ Len(<< >>) = 0
    BY EmptySeq
  <2>4. \A i \in 1 .. Len(<< >>) : << >>[i].v # v
    BY <2>3
  <2>5. Count(<< >>, v) = 0
    BY <2>3, <2>4, RowSets, CountOfNone
  <2>6. CountTo(c, v, 0) = 0 /\ 0 \in 0 .. N
    BY <1>0, CountZero
  <2>7. KeptRows(S, 0) \in Seq(Rows) /\ Count(KeptRows(S, 0), v) = 0
    BY <2>2, <2>3, <2>5
  <2> QED
    BY <2>6, <2>7
<1>2. ASSUME NEW n \in 1 .. N, n - 1 \in T
      PROVE  n \in T
  <2>1. n \in Nat /\ n # 0 /\ n \in 0 .. N /\ n \in 1 .. N /\ n - 1 \in Nat
    BY <1>0
  <2> DEFINE a == KeptRows(S, n - 1)  b == KeptRows(S, n)  row == rows[n]
  <2>2. b = IF row.v \in S THEN Append(a, row) ELSE a
    BY <2>1, KeptRowsStep
  <2>3. a \in Seq(Rows) /\ Count(a, v) = IF v \in S THEN CountTo(c, v, n - 1) ELSE 0
    BY <1>2
  <2>4. CountTo(c, v, n) = CountTo(c, v, n - 1) + One(c[n] = v)
    <3> HIDE DEF c
    <3> QED
      BY <2>1, CountStep
  <2>5. row \in Rows /\ c[n] = row.v
    BY <1>0, <2>1
  <2>6. CountTo(c, v, n - 1) \in Nat
    BY <2>1, CountType
  <2> HIDE DEF a, b, c, row
  <2>7. Append(a, row) \in Seq(Rows) /\ Count(Append(a, row), v) = Count(a, v) + One(row.v = v)
    BY <2>3, <2>5, RowSets, CountOfAppend, AppendProperties
  <2>8. b \in Seq(Rows)
    BY <2>2, <2>3, <2>7
  <2>9. Count(b, v) = IF v \in S THEN CountTo(c, v, n) ELSE 0
    <3>1. CASE row.v = v
      <4>1. One(row.v = v) = 1 /\ One(c[n] = v) = 1
        BY <2>5, <3>1 DEF One
      <4>2. b = IF v \in S THEN Append(a, row) ELSE a
        BY <2>2, <3>1
      <4> QED
        BY <2>3, <2>4, <2>7, <4>1, <4>2
    <3>2. CASE row.v # v
      <4>1. One(row.v = v) = 0 /\ One(c[n] = v) = 0
        BY <2>5, <3>2 DEF One
      <4>2. Count(b, v) = Count(a, v)
        <5>1. CASE v \in S
          BY <2>2, <2>3, <2>6, <2>7, <4>1, <5>1
        <5>2. CASE v \notin S
          BY <2>2, <2>3, <2>7, <4>1, <5>2
        <5> QED
          BY <5>1, <5>2
      <4>3. CountTo(c, v, n) = CountTo(c, v, n - 1)
        BY <2>4, <2>6, <4>1
      <4> QED
        BY <2>3, <4>2, <4>3
    <3> QED
      BY <3>1, <3>2
  <2> QED
    BY <2>1, <2>8, <2>9 DEF b
<1>3. \A n \in 0 .. N : n \in T
  <2> HIDE DEF T
  <2> QED
    BY <1>0, <1>1, <1>2, UpTo
<1> QED
  BY <1>3

\* What a DELETE logs for each row.
RowDelete == [i \in DOMAIN tx.table.rows |-> DeleteOp(tx.table.rows[i].v)]

LEMMA RowDeleteIs ==
  ASSUME tx.table.rows \in Seq(Rows)
  PROVE  \A i \in 1 .. Len(tx.table.rows) :
           /\ RowDelete[i] = DeleteOp(tx.table.rows[i].v) /\ RowDelete[i] \in Operations
           /\ RowDelete[i].kind = "delete" /\ RowDelete[i].before = tx.table.rows[i].v
           /\ tx.table.rows[i].v \in Cells
<1> TAKE i \in 1 .. Len(tx.table.rows)
<1>1. tx.table.rows[i] \in Rows /\ i \in DOMAIN tx.table.rows
  BY LenProperties, ElementOfSeq
<1>2. tx.table.rows[i].v \in Cells
  BY <1>1, RowSets, RowCell
<1>3. RowDelete[i] = DeleteOp(tx.table.rows[i].v)
  BY <1>1 DEF RowDelete
<1> QED
  BY <1>2, <1>3, OpsAre

LEMMA CountGrows ==
  ASSUME NEW cells, NEW v, NEW N \in Nat, NEW n \in 0 .. N
  PROVE  CountTo(cells, v, n) <= CountTo(cells, v, N)
<1> DEFINE S == {k \in 0 .. N : n <= k => CountTo(cells, v, n) <= CountTo(cells, v, k)}
<1>0. CountTo(cells, v, n) \in Nat
  BY CountType
<1>1. 0 \in S
  <2>1. n <= 0 => n = 0
    OBVIOUS
  <2>2. n <= 0 => CountTo(cells, v, n) = CountTo(cells, v, 0)
    BY <2>1
  <2>3. 0 \in 0 .. N
    OBVIOUS
  <2> QED
    BY <1>0, <2>2, <2>3
<1>2. ASSUME NEW k \in 1 .. N, k - 1 \in S
      PROVE  k \in S
  <2>1. k \in Nat /\ k # 0 /\ k \in 0 .. N /\ k - 1 \in Nat
    OBVIOUS
  <2>2. CountTo(cells, v, k) = CountTo(cells, v, k - 1) + One(cells[k] = v)
    BY <2>1, CountStep
  <2>3. CountTo(cells, v, k - 1) \in Nat /\ One(cells[k] = v) \in Nat
    BY <2>1, CountType DEF One
  <2>4. CASE n <= k - 1
    <3>1. CountTo(cells, v, n) <= CountTo(cells, v, k - 1)
      BY <1>2, <2>4
    <3>2. CountTo(cells, v, n) <= CountTo(cells, v, k)
      BY <1>0, <2>2, <2>3, <3>1
    <3> QED
      BY <2>1, <3>2
  <2>5. CASE ~(n <= k - 1)
    <3>1. n <= k => n = k
      BY <2>5
    <3>2. n <= k => CountTo(cells, v, n) = CountTo(cells, v, k)
      BY <3>1
    <3> QED
      BY <1>0, <2>1, <3>2
  <2> QED
    BY <2>4, <2>5
<1>3. \A k \in 0 .. N : k \in S
  <2> HIDE DEF S
  <2> QED
    BY <1>1, <1>2, UpTo
<1>4. N \in 0 .. N /\ n <= N
  OBVIOUS
<1> QED
  BY <1>3, <1>4

\* A table of the flags of the transaction's, without what a DELETE of n rows removes.
Without(u, where, n) ==
  /\ u \in TablesOf(OwnRows) /\ u.exists = tx.table.exists
  /\ u.keyed = tx.table.keyed /\ u.indexed = tx.table.indexed
  /\ \A v \in Cells :
       Count(u.rows, v) + (IF v \in where THEN CountTo(Contents(tx.table.rows), v, n) ELSE 0)
         = Count(tx.table.rows, v)

\* The replay of one DELETE, of the row n.
LEMMA DeleteStep ==
  ASSUME tx.table.rows \in Seq(Rows), NEW where, NEW n \in 1 .. Len(tx.table.rows),
         tx.table.rows[n].v \in where, NEW u, Without(u, where, n - 1)
  PROVE  Without(ApplyOperation(u, RowDelete[n]), where, n)
<1> DEFINE rows == tx.table.rows  N == Len(rows)  c == Contents(rows)  w == rows[n].v
           op == RowDelete[n]  a == ReplayDelete(u.rows, op)  t == ApplyOperation(u, op)
<1>0. /\ N \in Nat /\ n \in Nat /\ n # 0 /\ n - 1 \in Nat /\ n \in 0 .. N
      /\ c[n] = w /\ Len(c) = N
  BY ContentsIs, RowSets
<1>1. op \in Operations /\ op.kind = "delete" /\ op.before = w /\ w \in Cells
  BY RowDeleteIs
<1>2. u \in TablesOf(OwnRows) /\ u.rows \in Seq(OwnRows)
  BY DEF Without, TablesOf
<1> HIDE DEF op
<1>3. t \in TablesOf(OwnRows) /\ SameRows(t, [u EXCEPT !.rows = a])
  BY <1>1, <1>2, RowSets, ApplyIs
<1>4. /\ a \in Seq(OwnRows)
      /\ \A v : IF Count(u.rows, w) = 0 THEN Count(a, v) = Count(u.rows, v)
                ELSE Count(a, v) + One(w = v) = Count(u.rows, v)
  <2> DEFINE s == u.rows
  <2>1. s \in Seq(OwnRows) /\ RowSet(OwnRows) /\ op \in Operations
    BY <1>1, <1>2, RowSets
  <2> HIDE DEF s, a, w
  <2>2. /\ ReplayDelete(s, op) \in Seq(OwnRows)
        /\ \A v : IF Count(s, op.before) = 0
                    THEN Count(ReplayDelete(s, op), v) = Count(s, v)
                    ELSE Count(ReplayDelete(s, op), v) + One(op.before = v) = Count(s, v)
    BY <2>1, ReplayDeleteIs
  <2>3. a = ReplayDelete(s, op) /\ op.before = w
    BY <1>1 DEF a, s, w
  <2> QED
    BY <2>2, <2>3 DEF s
<1> HIDE DEF a, t, c, w
<1>5. With([u EXCEPT !.rows = a], OwnRows, u, a, u.keys, u.index)
  BY <1>2, <1>4, WithRows
<1>6. \A v : /\ CountTo(c, v, n) = CountTo(c, v, n - 1) + One(w = v)
             /\ CountTo(c, v, n) <= CountTo(c, v, N)
             /\ CountTo(c, v, n) \in Nat /\ CountTo(c, v, n - 1) \in Nat
             /\ CountTo(c, v, N) \in Nat /\ One(w = v) \in Nat
  <2> TAKE v
  <2>1. CountTo(c, v, n) = CountTo(c, v, n - 1) + One(c[n] = v)
    BY <1>0, CountStep
  <2>2. CountTo(c, v, n) <= CountTo(c, v, N)
    BY <1>0, CountGrows
  <2>3. /\ CountTo(c, v, n) \in Nat /\ CountTo(c, v, n - 1) \in Nat
        /\ CountTo(c, v, N) \in Nat /\ One(w = v) \in Nat
    BY <1>0, CountType DEF One
  <2> QED
    BY <1>0, <2>1, <2>2, <2>3
<1>7. \A v \in Cells : /\ Count(rows, v) = CountTo(c, v, N)
                       /\ Count(u.rows, v) \in Nat /\ Count(a, v) \in Nat
  BY <1>0, <1>2, <1>4, RowSets, CountIs DEF c
<1>8. \A v \in Cells : Count(u.rows, v) + (IF v \in where THEN CountTo(c, v, n - 1) ELSE 0)
                         = Count(rows, v)
  BY DEF Without, c
<1>9. w \in where
  BY DEF w
<1>10. Count(u.rows, w) # 0
  <2>1. Count(u.rows, w) + CountTo(c, w, n - 1) = CountTo(c, w, N)
    BY <1>1, <1>7, <1>8, <1>9
  <2>2. CountTo(c, w, n) = CountTo(c, w, n - 1) + 1
    BY <1>6 DEF One
  <2> QED
    BY <1>1, <1>6, <1>7, <2>1, <2>2
<1>11. ASSUME NEW v \in Cells
       PROVE  Count(a, v) + (IF v \in where THEN CountTo(c, v, n) ELSE 0) = Count(rows, v)
  <2>1. Count(a, v) + One(w = v) = Count(u.rows, v)
    BY <1>4, <1>10
  <2>2. CASE v \in where
    <3>1. Count(u.rows, v) + CountTo(c, v, n - 1) = Count(rows, v)
      BY <1>8, <2>2
    <3>2. Count(a, v) + CountTo(c, v, n) = Count(rows, v)
      BY <1>6, <1>7, <2>1, <3>1
    <3> QED
      BY <2>2, <3>2
  <2>3. CASE v \notin where
    <3>1. Count(u.rows, v) + 0 = Count(rows, v)
      BY <1>8, <2>3
    <3>2. One(w = v) = 0
      BY <1>9, <2>3 DEF One
    <3> QED
      BY <1>7, <2>1, <2>3, <3>1, <3>2
  <2> QED
    BY <2>2, <2>3
<1>12. t.rows = a /\ t.exists = u.exists /\ t.keyed = u.keyed /\ t.indexed = u.indexed
  BY <1>3, <1>5 DEF SameRows, With
<1>13. /\ u.exists = tx.table.exists /\ u.keyed = tx.table.keyed
       /\ u.indexed = tx.table.indexed
  BY DEF Without
<1>14. Without(t, where, n)
  BY <1>3, <1>11, <1>12, <1>13 DEF Without, c
<1> QED
  BY <1>14 DEF t, op

\* The replay of the operations that a DELETE of n rows logs removes as many rows of each
\* cell: there is one to find for each of them.
LEMMA DeleteReplays ==
  ASSUME tx.table \in TablesOf(Rows), NEW where,
         NEW s \in TablesOf(OwnRows), SameContents(s, tx.table)
  PROVE  \A n \in 0 .. Len(tx.table.rows) :
           Without(Replayed(s, HitOps(where, RowDelete, n)), where, n)
<1> DEFINE rows == tx.table.rows  N == Len(rows)
           run(n) == Replayed(s, HitOps(where, RowDelete, n))
           S == {n \in 0 .. N : Without(run(n), where, n)}
<1>0. rows \in Seq(Rows) /\ N \in Nat /\ \A i \in 1 .. N : RowDelete[i] \in Operations
  BY RowDeleteIs, LenProperties DEF TablesOf
<1>1. 0 \in S
  <2>1. HitOps(where, RowDelete, 0) = << >>
    BY <1>0, HitOpsAre
  <2>2. run(0) = s
    BY <2>1, ReplayZero DEF Replayed
  <2>3. \A v \in Cells : /\ CountTo(Contents(rows), v, 0) = 0
                         /\ Count(s.rows, v) = Count(rows, v) /\ Count(rows, v) \in Nat
    BY <1>0, CountZero, RowSets, CountIs DEF SameContents
  <2>4. Without(s, where, 0)
    BY <2>3 DEF Without, SameContents
  <2>5. 0 \in 0 .. N /\ Without(run(0), where, 0)
    BY <1>0, <2>2, <2>4
  <2> QED
    BY <2>5
<1>2. ASSUME NEW n \in 1 .. N, n - 1 \in S
      PROVE  n \in S
  <2> DEFINE p == HitOps(where, RowDelete, n - 1)  q == HitOps(where, RowDelete, n)
             u == run(n - 1)
  <2>1. n \in Nat /\ n # 0 /\ n - 1 \in Nat /\ n \in 0 .. N /\ n - 1 \in 0 .. N
    BY <1>0
  <2>2. q = IF rows[n].v \in where THEN Append(p, RowDelete[n]) ELSE p
    BY <1>0, HitOpsStep
  <2>3. p \in Seq(Operations) /\ RowDelete[n] \in Operations
    BY <1>0, <2>1, HitOpsAre
  <2>4. Without(u, where, n - 1)
    BY <1>2
  <2>5. CASE rows[n].v \in where
    <3>1. run(n) = ApplyOperation(u, RowDelete[n])
      BY <2>2, <2>3, <2>5, ReplayAppend
    <3> HIDE DEF u
    <3>2. Without(ApplyOperation(u, RowDelete[n]), where, n)
      BY <1>0, <2>4, <2>5, DeleteStep
    <3> QED
      BY <2>1, <3>1, <3>2
  <2>6. CASE rows[n].v \notin where
    <3>1. run(n) = u
      BY <2>2, <2>6
    <3>2. \A v \in where : CountTo(Contents(rows), v, n) = CountTo(Contents(rows), v, n - 1)
      <4> TAKE v \in where
      <4> DEFINE c == Contents(rows)
      <4>1. c[n] = rows[n].v
        BY <1>0, <2>1, ContentsIs, RowSets
      <4> HIDE DEF c
      <4>2. CountTo(c, v, n) = CountTo(c, v, n - 1) + One(c[n] = v)
        BY <2>1, CountStep
      <4>3. One(c[n] = v) = 0
        BY <2>6, <4>1 DEF One
      <4>4. CountTo(c, v, n - 1) \in Nat
        BY <2>1, CountType
      <4> QED
        BY <4>2, <4>3, <4>4 DEF c
    <3> HIDE DEF u, run
    <3>3. Without(u, where, n)
      BY <2>4, <3>2 DEF Without
    <3> QED
      BY <2>1, <3>1, <3>3
  <2> QED
    BY <2>5, <2>6
<1> HIDE DEF N
<1>3. \A n \in 0 .. N : n \in S
  <2> HIDE DEF S
  <2> QED
    BY <1>0, <1>1, <1>2, UpTo
<1> QED
  BY <1>3 DEF N

LEMMA DeleteKeeps ==
  ASSUME TablesInv, NEW where \in Wheres, Delete(where)
  PROVE  TablesInv'
<1> DEFINE rows == tx.table.rows  N == Len(rows)  new == KeptRows(Cells \ where, N)
           made == [tx.table EXCEPT !.rows = new]  t == Updated(new)
           more == HitOps(where, RowDelete, N)  ops == tx.ops \o more
<1>1. /\ tx.table \in TablesOf(Rows) /\ rows \in Seq(Rows) /\ tx.ops \in Seq(Operations)
      /\ Sound(tx.table, tx.ops, tx.taint) /\ N \in Nat /\ N \in 0 .. N
      /\ DOMAIN rows = 1 .. N /\ Replayed(table, tx.ops) \in TablesOf(OwnRows)
  BY TxIs, LenProperties
<1>2. \A k \in DOMAIN Hits(where, N) : Hits(where, N)[k] \in 1 .. N
  <2> DEFINE h == Hits(where, N)
  <2>1. h \in Seq(1 .. N)
    BY <1>1, PositionsType DEF Hits
  <2> HIDE DEF h
  <2>2. \A k \in DOMAIN h : h[k] \in 1 .. N
    BY <2>1, LenProperties, ElementOfSeq
  <2> QED
    BY <2>2 DEF h
<1>3. Statement(t, ops, {})
  <2>1. more = [k \in DOMAIN Hits(where, N) |-> DeleteOp(rows[Hits(where, N)[k]].v)]
    BY <1>1, <1>2, RowDeleteIs DEF HitOps
  <2>2. new = [k \in DOMAIN Hits(Cells \ where, N) |-> rows[Hits(Cells \ where, N)[k]]]
    BY DEF KeptRows
  <2> QED
    BY <2>1, <2>2 DEF Delete
<1>4. \A i \in 1 .. N : RowDelete[i] \in Operations
  BY <1>1, RowDeleteIs
<1>5. more \in Seq(Operations) /\ ops \in Seq(Operations)
  <2>1. more \in Seq(Operations)
    BY <1>1, <1>4, HitOpsAre
  <2> HIDE DEF more
  <2> QED
    BY <1>1, <2>1, ConcatProperties
<1>6. /\ new \in Seq(Rows)
      /\ \A v \in Cells : Count(new, v) = IF v \in where THEN 0 ELSE Count(rows, v)
  <2> DEFINE T == Cells \ where
  <2>1. ASSUME NEW v
        PROVE  /\ new \in Seq(Rows)
               /\ Count(new, v) = IF v \in T THEN CountTo(Contents(rows), v, N) ELSE 0
    <3> HIDE DEF T
    <3>1. \A n \in 0 .. Len(tx.table.rows) :
            /\ KeptRows(T, n) \in Seq(Rows)
            /\ Count(KeptRows(T, n), v) =
                 IF v \in T THEN CountTo(Contents(tx.table.rows), v, n) ELSE 0
      BY <1>1, KeptRowsAre
    <3>2. N \in 0 .. Len(tx.table.rows)
      BY <1>1
    <3> QED
      BY <3>1, <3>2 DEF T
  <2>2. \A v : Count(rows, v) = CountTo(Contents(rows), v, N)
    BY <1>1, RowSets, CountIs, ContentsIs
  <2>3. new \in Seq(Rows)
    BY <2>1
  <2> HIDE DEF new
  <2> QED
    BY <2>1, <2>2, <2>3
<1>7. \A k \in DOMAIN new : \E i \in 1 .. N : new[k] = rows[i]
  <2> DEFINE h == Hits(Cells \ where, N)
  <2>1. h \in Seq(1 .. N)
    BY <1>1, PositionsType DEF Hits
  <2>2. new = [k \in DOMAIN h |-> rows[h[k]]]
    BY DEF KeptRows
  <2> HIDE DEF h, new
  <2>3. \A k \in DOMAIN h : h[k] \in 1 .. N
    BY <2>1, LenProperties, ElementOfSeq
  <2> QED
    BY <2>2, <2>3
<1> HIDE DEF new
<1>8. With(made, Rows, tx.table, new, tx.table.keys, tx.table.index)
  BY <1>1, <1>6, WithRows
<1>9. t = Rebuild(made)
  BY DEF Updated
<1> HIDE DEF t, made
<1>10. t \in TablesOf(Rows) /\ Cached(t) /\ SameRows(t, made)
  BY <1>8, <1>9, RowSets, RebuildIs DEF With
<1>11. /\ t.rows = new /\ t.keyed = tx.table.keyed /\ t.exists = tx.table.exists
       /\ t.indexed = tx.table.indexed
  BY <1>8, <1>10 DEF SameRows, With
<1>12. ASSUME tx.taint \union taint = {}, t.keyed
       PROVE  \A v \in Cells : Count(t.rows, v) <= 1
  <2>1. \A v \in Cells : Count(rows, v) <= 1
    BY <1>1, <1>11, <1>12 DEF Sound
  <2> QED
    BY <1>6, <1>11, <2>1
<1>13. ASSUME tx.taint \subseteq {"key"}, NEW k \in DOMAIN t.rows
       PROVE  Logged(ops, t.rows[k])
  <2>1. PICK i \in 1 .. N : t.rows[k] = rows[i]
    BY <1>7, <1>11, <1>13
  <2>2. Logged(tx.ops, rows[i])
    BY <1>1, <1>13 DEF Sound
  <2> HIDE DEF more
  <2> QED
    BY <1>1, <1>5, <2>1, <2>2, LoggedMore
<1>14. ASSUME tx.open, tx.base = version, tx.taint \subseteq {"key"}
       PROVE  SameContents(Replayed(table, ops), t)
  <2> DEFINE s == Replayed(table, tx.ops)
  <2>1. s \in TablesOf(OwnRows) /\ SameContents(s, tx.table)
    BY <1>1, <1>14 DEF Sound
  <2>2. Replayed(table, ops) = Replayed(s, more)
    BY <1>1, <1>5, ReplayConcat
  <2> HIDE DEF s
  <2>3. Without(Replayed(s, more), where, N)
    BY <1>1, <2>1, DeleteReplays
  <2> DEFINE u == Replayed(s, more)
  <2>4. Without(u, where, N)
    BY <2>3
  <2> HIDE DEF u
  <2>5. u.rows \in Seq(OwnRows)
    BY <2>4 DEF Without, TablesOf
  <2>6. \A v \in Cells : Count(u.rows, v) = Count(new, v)
    <3> TAKE v \in Cells
    <3>1. Count(u.rows, v) \in Nat /\ Count(rows, v) \in Nat
            /\ Count(rows, v) = CountTo(Contents(rows), v, N)
      BY <1>1, <2>5, RowSets, CountIs, ContentsIs
    <3>2. Count(u.rows, v) + (IF v \in where THEN CountTo(Contents(rows), v, N) ELSE 0)
            = Count(rows, v)
      BY <2>4 DEF Without
    <3>3. Count(new, v) = IF v \in where THEN 0 ELSE Count(rows, v)
      BY <1>6
    <3> QED
      BY <3>1, <3>2, <3>3
  <2>7. SameContents(u, t)
    BY <1>11, <2>4, <2>6 DEF SameContents, Without
  <2> QED
    BY <2>2, <2>7 DEF u
<1> HIDE DEF ops
<1>15. Sound(t, ops, tx.taint \union {})
  <2>1. tx.taint \union {} = tx.taint
    OBVIOUS
  <2> QED
    BY <1>10, <1>12, <1>13, <1>14, <2>1 DEF Sound
<1> QED
  BY <1>3, <1>5, <1>10, <1>15, StatementKeeps

-----------------------------------------------------------------------------
(* The calls that begin, end, bypass or outlive a transaction.             *)

LEMMA BeginKeeps ==
  ASSUME TablesInv, Begin
  PROVE  TablesInv'
<1>1. /\ EngineInv /\ version \in Nat /\ table \in TablesOf(OwnRows)
      /\ table \in TablesOf(Rows)
  BY TxIs DEF TablesInv, EngineInv
<1>2. /\ tx' = [[[NoTx EXCEPT !.open = TRUE] EXCEPT !.base = version] EXCEPT !.table = table]
      /\ UNCHANGED <<version, table, log, state, taint>>
  BY DEF Begin
<1>3. /\ tx' \in Transactions /\ tx'.open = TRUE /\ tx'.base = version
      /\ tx'.table = table /\ tx'.ops = << >> /\ tx'.taint = {}
  <2> DEFINE x == [NoTx EXCEPT !.open = TRUE]  y == [x EXCEPT !.base = version]
             z == [y EXCEPT !.table = table]
  <2>1. NoTx \in Transactions /\ NoTx.ops = << >> /\ NoTx.taint = {}
    BY NoTxIs DEF NoTx
  <2>2. x \in Transactions /\ x.ops = << >> /\ x.taint = {} /\ x.open = TRUE
    BY <2>1 DEF Transactions
  <2> HIDE DEF x
  <2>3. y \in Transactions /\ y.ops = << >> /\ y.taint = {} /\ y.open = TRUE /\ y.base = version
    BY <1>1, <2>2 DEF Transactions
  <2> HIDE DEF y
  <2>4. /\ z \in Transactions /\ z.ops = << >> /\ z.taint = {} /\ z.open = TRUE
        /\ z.base = version /\ z.table = table
    BY <1>1, <2>3 DEF Transactions
  <2>5. tx' = z
    BY <1>2 DEF x, y
  <2> QED
    BY <2>4, <2>5
<1>4. \A k \in DOMAIN table.rows : Logged(<< >>, table.rows[k])
  <2> DEFINE rows == table.rows
  <2>1. rows \in Seq(OwnRows)
    BY <1>1 DEF TablesOf
  <2> HIDE DEF rows
  <2>2. \A k \in DOMAIN rows : rows[k] \in OwnRows
    BY <2>1, LenProperties, ElementOfSeq
  <2>3. \A k \in DOMAIN rows : rows[k].src = << >>
    BY <2>2 DEF OwnRows
  <2> QED
    BY <2>3 DEF Logged, rows
<1>5. SameContents(Replayed(table, << >>), table)
  BY ReplayZero DEF Replayed, SameContents
<1>6. /\ "raised" \notin taint => Cached(table)
      /\ taint = {} /\ table.keyed => \A v \in Cells : Count(table.rows, v) <= 1
  BY <1>1 DEF EngineInv, KeysUnique
<1>7. Sound(tx.table, tx.ops, tx.taint)'
  BY <1>2, <1>3, <1>4, <1>5, <1>6 DEF Sound
<1>8. TxInv'
  BY <1>1, <1>2, <1>3, <1>7 DEF TxInv
<1>9. EngineInv'
  <2>1. Loaded' = Loaded
    BY <1>2 DEF Loaded
  <2> QED
    BY <1>1, <1>2, <2>1 DEF EngineInv, KeysUnique, ReplayMatchesUntainted, ReplayMatches
<1> QED
  BY <1>8, <1>9 DEF TablesInv

LEMMA RollbackKeeps ==
  ASSUME TablesInv, tx' = NoTx, UNCHANGED <<version, table, log, state, taint>>
  PROVE  TablesInv'
<1>1. EngineInv /\ version' \in Nat
  BY DEF TablesInv, EngineInv
<1>2. Loaded' = Loaded
  BY DEF Loaded
<1>3. EngineInv'
  BY <1>1, <1>2 DEF EngineInv, KeysUnique, ReplayMatchesUntainted, ReplayMatches
<1> QED
  BY <1>1, <1>3, NoTxKeeps DEF TablesInv

\* The engine of the directory, before anything is written to it.
LEMMA LoadedSound ==
  ASSUME EngineInv
  PROVE  /\ LoadAll(state, log) \in Engines /\ Cached(LoadAll(state, log).table)
         /\ LoadAll(state, log).table \in TablesOf(OwnRows)
         /\ LoadAll(state, log).version \in Nat /\ LoadAll(state, log).version <= version
         /\ state.version <= LoadAll(state, log).version
         /\ \A i \in 1 .. Len(log) : log[i].version <= LoadAll(state, log).version
         /\ taint \subseteq {"key"} => SameContents(LoadAll(state, log).table, table)
<1> DEFINE e == LoadAll(state, log)  N == Len(log)
<1>1. /\ state \in Engines /\ log \in Seq(Records) /\ version \in Nat
      /\ state.version <= version /\ \A i \in 1 .. N : log[i].version <= version
  BY DEF EngineInv
<1>2. N \in 0 .. N
  BY <1>1, LenProperties
<1>3. Loads(e, state, log, N)
  BY <1>1, <1>2, LoadIs DEF LoadAll
<1>4. e.version <= version
  BY <1>1, <1>2, LoadVersion DEF LoadAll
<1>5. taint \subseteq {"key"} => SameContents(e.table, table)
  BY LoadedIs DEF EngineInv, ReplayMatchesUntainted, ReplayMatches
<1> HIDE DEF e
<1>6. e \in Engines /\ e.table \in TablesOf(OwnRows) /\ e.version \in Nat
  BY <1>3 DEF Loads, Engines
<1> QED
  BY <1>3, <1>4, <1>5, <1>6 DEF Loads, e

\* The rows of a table, published, are equal to what they were.
LEMMA PublishSame ==
  ASSUME NEW R, RowSet(R), NEW t \in TablesOf(R)
  PROVE  /\ SameContents(t, Publish(t))
         /\ \A v : Count(t.rows, v) = Count(Publish(t).rows, v)
<1>1. /\ Publish(t) \in TablesOf(OwnRows) /\ Publish(t).exists = t.exists
      /\ Publish(t).keyed = t.keyed /\ Publish(t).indexed = t.indexed
      /\ Contents(Publish(t).rows) = Contents(t.rows)
  BY PublishIs
<1> DEFINE rows == t.rows  others == Publish(t).rows
<1>2. rows \in Seq(R) /\ others \in Seq(OwnRows) /\ Contents(rows) = Contents(others)
  BY <1>1 DEF TablesOf
<1> HIDE DEF rows, others
<1>3. \A v : Count(rows, v) = Count(others, v)
  BY <1>2, RowSets, CountsSame
<1> QED
  BY <1>1, <1>3 DEF SameContents, rows, others

\* A version more, from a table that the operations replay to: by the log, by state.json
\* when it is saved with it, or by neither when there are no operations.
LEMMA AdvanceKeeps ==
  ASSUME EngineInv, NEW R, RowSet(R), NEW t \in TablesOf(R), NEW ops \in Seq(Operations),
         NEW marks \in SUBSET Taints, Advance(t, ops), taint' = taint \union marks,
         "raised" \notin taint \union marks => Cached(t),
         taint \union marks = {} /\ t.keyed => \A v \in Cells : Count(t.rows, v) <= 1,
         taint \union marks \subseteq {"key"} => SameContents(Replayed(table, ops), t)
  PROVE  EngineInv' /\ version' = version + 1
<1> DEFINE p == Publish(t)  record == [version |-> version + 1, ops |-> ops]
           saves == (version + 1) % CheckpointEvery = 0
           e == LoadAll(state, log)
<1>1. /\ version \in Nat /\ table \in TablesOf(OwnRows) /\ log \in Seq(Records)
      /\ state \in Engines /\ taint \subseteq Taints /\ state.version <= version
      /\ \A i \in 1 .. Len(log) : log[i].version <= version
  BY DEF EngineInv
<1>2. /\ version' = version + 1 /\ table' = p
      /\ log' = IF ops = << >> THEN log ELSE Append(log, record)
      /\ state' = IF saves THEN [version |-> version + 1, table |-> p] ELSE state
  BY DEF Advance
<1>3. /\ p \in TablesOf(OwnRows) /\ p.keyed = t.keyed /\ (Cached(t) => Cached(p))
      /\ SameContents(t, p) /\ \A v : Count(t.rows, v) = Count(p.rows, v)
  BY PublishIs, PublishSame
<1> HIDE DEF p, saves
<1>4. record \in Records /\ record.version = version + 1 /\ record.ops = ops
  BY <1>1 DEF Records
<1> HIDE DEF record
<1>5. log' \in Seq(Records) /\ \A i \in 1 .. Len(log') : log'[i].version <= version + 1
  <2>1. log \in Seq(Records) /\ \A i \in 1 .. Len(log) : log[i].version <= version + 1
    <3>0. \A i \in 1 .. Len(log) : log[i] \in Records
      BY <1>1, ElementOfSeq
    <3>1. \A i \in 1 .. Len(log) : log[i].version \in Nat
      BY <3>0 DEF Records
    <3> QED
      BY <1>1, <3>1
  <2> DEFINE more == Append(log, record)
  <2>2. /\ more \in Seq(Records) /\ Len(more) = Len(log) + 1 /\ more[Len(log) + 1] = record
        /\ \A i \in 1 .. Len(log) : more[i] = log[i]
    BY <1>1, <1>4, AppendProperties
  <2> HIDE DEF more
  <2>3. \A i \in 1 .. Len(more) : i \in 1 .. Len(log) \/ i = Len(log) + 1
    BY <1>1, <2>2, LenProperties
  <2>4. \A i \in 1 .. Len(more) : more[i].version <= version + 1
    BY <1>1, <1>4, <2>1, <2>2, <2>3
  <2> QED
    BY <1>2, <2>1, <2>2, <2>4 DEF more
<1>6. state' \in Engines /\ state'.version <= version + 1
  BY <1>1, <1>2, <1>3 DEF Engines
<1>7. version' \in Nat /\ taint' \subseteq Taints
  BY <1>1, <1>2
<1>8. "raised" \notin taint' => Cached(table)'
  <2>1. "raised" \notin taint' => Cached(p)
    BY <1>3
  <2> QED
    BY <1>2, <2>1 DEF Cached
<1>9. KeysUnique'
  <2>1. taint' = {} /\ p.keyed => \A v \in Cells : Count(p.rows, v) <= 1
    BY <1>3
  <2> QED
    BY <1>2, <2>1 DEF KeysUnique
<1>10. Loaded' = LoadAll(state', log').table
  BY DEF Loaded, LoadAll
<1>11. ASSUME taint' \subseteq {"key"}
       PROVE  SameContents(Loaded', p)
  <2>1. /\ SameContents(Replayed(table, ops), t) /\ SameContents(e.table, table)
        /\ e \in Engines /\ Cached(e.table) /\ e.table \in TablesOf(OwnRows)
        /\ e.version \in Nat /\ e.version <= version
    BY <1>11, LoadedSound
  <2> HIDE DEF e
  <2>2. SameContents(Replayed(table, ops), p)
    BY <1>3, <2>1, SameTrans
  <2>3. CASE saves
    <3> DEFINE saved == [version |-> version + 1, table |-> p]
    <3>1. state' = saved /\ saved.version = version + 1 /\ saved.table = p
      BY <1>2, <2>3
    <3> HIDE DEF saved
    <3>2. saved \in Engines /\ \A i \in 1 .. Len(log') : log'[i].version <= saved.version
      BY <1>5, <1>6, <3>1
    <3>3. LoadAll(saved, log') = Saved(saved) /\ SameRows(Saved(saved).table, saved.table)
      BY <1>5, <3>2, LoadCovered, SavedIs
    <3>4. SameRows(Loaded', p)
      BY <1>10, <3>1, <3>3
    <3> QED
      BY <3>4, SameSelf
  <2>4. CASE ~saves /\ ops = << >>
    <3>1. Loaded' = e.table
      BY <1>2, <1>10, <2>4 DEF e
    <3>2. Replayed(table, ops) = table
      BY <2>4, ReplayZero DEF Replayed
    <3> QED
      BY <2>1, <2>2, <3>1, <3>2, SameTrans
  <2>5. CASE ~saves /\ ops # << >>
    <3>1. LoadAll(state', log') = LoadRecord(e, record)
      BY <1>1, <1>2, <1>4, <2>5, LoadAppend DEF e
    <3>2. record.version > e.version
      BY <1>1, <1>4, <2>1
    <3>3. SameRows(LoadRecord(e, record).table, Replayed(e.table, record.ops))
      BY <1>4, <2>1, <3>2, LoadRecordIs
    <3>4. SameContents(Replayed(e.table, ops), Replayed(table, ops))
      BY <1>1, <2>1, RowSets, ReplayedSame
    <3>5. SameContents(Loaded', Replayed(e.table, ops))
      BY <1>4, <1>10, <3>1, <3>3, SameSelf
    <3>6. SameContents(Loaded', Replayed(table, ops))
      BY <3>4, <3>5, SameTrans
    <3> QED
      BY <2>2, <3>6, SameTrans
  <2> QED
    BY <2>3, <2>4, <2>5
<1>12. ReplayMatchesUntainted'
  <2>1. ASSUME taint' \subseteq {"key"}
        PROVE  SameContents(Loaded', table')
    BY <1>2, <1>11, <2>1
  <2>2. ReplayMatches' <=> SameContents(Loaded', table')
    BY DEF ReplayMatches, SameContents
  <2> QED
    BY <2>1, <2>2 DEF ReplayMatchesUntainted
<1>13. /\ table' \in TablesOf(OwnRows) /\ state'.version <= version'
       /\ \A i \in 1 .. Len(log') : log'[i].version <= version'
  BY <1>2, <1>3, <1>5, <1>6
<1> QED
  BY <1>2, <1>5, <1>6, <1>7, <1>8, <1>9, <1>12, <1>13 DEF EngineInv

LEMMA CommitKeeps ==
  ASSUME TablesInv, Commit
  PROVE  TablesInv'
<1>1. tx.open /\ tx' = NoTx
  BY DEF Commit
<1>2. CASE tx.base = version
  <2>1. /\ Advance(tx.table, tx.ops) /\ taint' = taint \union tx.taint
    BY <1>2 DEF Commit
  <2>2. /\ tx.table \in TablesOf(Rows) /\ tx.ops \in Seq(Operations)
        /\ tx.taint \in SUBSET Taints /\ EngineInv
    BY TxIs DEF TablesInv
  <2> DEFINE marks == tx.taint
  <2>3. /\ "raised" \notin taint \union marks => Cached(tx.table)
        /\ taint \union marks = {} /\ tx.table.keyed =>
             \A v \in Cells : Count(tx.table.rows, v) <= 1
        /\ taint \union marks \subseteq {"key"} =>
             SameContents(Replayed(table, tx.ops), tx.table)
    BY <1>1, <1>2, TxIs DEF Sound
  <2>4. EngineInv' /\ version' = version + 1
    BY <2>1, <2>2, <2>3, RowSets, AdvanceKeeps
  <2>5. version' \in Nat
    BY <2>4 DEF EngineInv
  <2> QED
    BY <1>1, <2>4, <2>5, NoTxKeeps DEF TablesInv
<1>3. CASE tx.base # version
  <2>1. UNCHANGED <<version, table, log, state, taint>>
    BY <1>3 DEF Commit
  <2> QED
    BY <1>1, <2>1, RollbackKeeps
<1> QED
  BY <1>2, <1>3

LEMMA BulkInsertKeeps ==
  ASSUME TablesInv, NEW cells \in Seq(Cells), BulkInsert(cells)
  PROVE  TablesInv'
<1> DEFINE new == OwnRowsOf(cells)  t == Extend(table, new)  ops == << InsertOp(cells) >>
           op == InsertOp(cells)
<1>1. /\ EngineInv /\ TxInv /\ version \in Nat /\ table \in TablesOf(OwnRows)
      /\ table.rows \in Seq(OwnRows) /\ tx.base <= version /\ tx.base \in Nat
      /\ tx \in Transactions
  BY DEF TablesInv, EngineInv, TxInv, Transactions, TablesOf
<1>2. Advance(t, ops) /\ UNCHANGED <<tx, taint>> /\ ~Duplicate(table, cells)
  BY DEF BulkInsert, CanInsert, OwnRowsOf
<1>3. new \in Seq(OwnRows) /\ Contents(new) = cells
  BY OwnRowsAre
<1>4. op \in Operations /\ op.kind = "insert" /\ op.rows = cells
  BY OpsAre
<1>5. /\ t \in TablesOf(OwnRows) /\ t.rows = table.rows \o new /\ t.exists = table.exists
      /\ t.keyed = table.keyed /\ t.indexed = table.indexed /\ (Cached(table) => Cached(t))
  <2> HIDE DEF new
  <2> QED
    BY <1>1, <1>3, RowSets, ExtendIs
<1>6. ops \in Seq(Operations)
  BY <1>4
<1>7. SameContents(Replayed(table, ops), t)
  <2> HIDE DEF t, op, new
  <2>1. << >> \in Seq(Operations) /\ ops = Append(<< >>, op)
    BY <1>4, EmptySeq DEF op
  <2>2. Replayed(table, << >>) = table
    BY ReplayZero DEF Replayed
  <2>3. Replayed(table, ops) = ApplyOperation(table, op)
    <3> DEFINE none == << >>
    <3>1. none \in Seq(Operations)
      BY <2>1
    <3> HIDE DEF none
    <3>2. Replayed(table, Append(none, op)) = ApplyOperation(Replayed(table, none), op)
      BY <1>4, <3>1, ReplayAppend
    <3> QED
      BY <2>1, <2>2, <3>2 DEF none
  <2> DEFINE u == [table EXCEPT !.rows = table.rows \o new]
  <2>4. SameRows(ApplyOperation(table, op), u)
    BY <1>1, <1>4, RowSets, ApplyIs DEF new
  <2>5. SameRows(u, t)
    BY <1>1, <1>5 DEF SameRows, TablesOf
  <2>6. SameRows(ApplyOperation(table, op), t)
    BY <2>4, <2>5 DEF SameRows
  <2> QED
    BY <2>3, <2>6, SameSelf
<1>8. ASSUME taint = {}, t.keyed
      PROVE  \A v \in Cells : Count(t.rows, v) <= 1
  <2>1. /\ Cached(table) /\ table.keyed
        /\ \A v \in Cells : Count(table.rows, v) <= 1
    BY <1>1, <1>5, <1>8 DEF EngineInv, KeysUnique
  <2> HIDE DEF new, t
  <2>2. \A v \in Cells : Count(table.rows \o new, v) <= 1
    BY <1>1, <1>2, <1>3, <2>1, RowSets, InsertUnique
  <2> QED
    BY <1>5, <2>2
<1> HIDE DEF t, new, ops, op
<1>9. "raised" \notin taint => Cached(t)
  BY <1>1, <1>5 DEF EngineInv
<1>10. EngineInv' /\ version' = version + 1
  <2> DEFINE marks == {}
  <2>1. marks \in SUBSET Taints /\ taint \union marks = taint
    OBVIOUS
  <2> HIDE DEF marks
  <2> QED
    BY <1>1, <1>2, <1>5, <1>6, <1>7, <1>8, <1>9, <2>1, RowSets, AdvanceKeeps
<1>11. Sound(tx.table, tx.ops, tx.taint)'
  <2>1. Sound(tx.table, tx.ops, tx.taint)
    BY <1>1 DEF TxInv
  <2>2. tx.base # version'
    BY <1>1, <1>10
  <2> QED
    BY <1>2, <2>1, <2>2 DEF Sound
<1>12. TxInv'
  <2>1. tx' = tx /\ tx'.base <= version'
    BY <1>1, <1>2, <1>10
  <2> QED
    BY <1>1, <1>11, <2>1 DEF TxInv
<1> QED
  BY <1>10, <1>12 DEF TablesInv

\* What is written when the whole state is saved: state.json, and a log that it covers.
LEMMA SavedKeeps ==
  ASSUME TablesInv, UNCHANGED <<version, table, tx, taint>>,
         state' = [version |-> version, table |-> table], log' \in Seq(Records),
         \A i \in 1 .. Len(log') : log'[i].version <= version
  PROVE  TablesInv'
<1>1. /\ EngineInv /\ TxInv /\ version \in Nat /\ table \in TablesOf(OwnRows)
  BY DEF TablesInv, EngineInv
<1>2. TxInv'
  <2>1. Sound(tx.table, tx.ops, tx.taint)'
    BY <1>1 DEF TxInv, Sound
  <2> QED
    BY <1>1, <2>1 DEF TxInv
<1> DEFINE saved == [version |-> version, table |-> table]
<1>3. saved \in Engines /\ saved.version = version /\ saved.table = table
  BY <1>1 DEF Engines
<1>4. state' = saved
  OBVIOUS
<1> HIDE DEF saved
<1>5. LoadAll(saved, log') = Saved(saved)
  BY <1>3, LoadCovered
<1>6. Loaded' = Saved(saved).table
  BY <1>4, <1>5 DEF Loaded, LoadAll
<1>7. SameRows(Saved(saved).table, table)
  BY <1>3, SavedIs
<1>8. SameContents(Loaded', table')
  BY <1>6, <1>7, SameSelf
<1>9. ReplayMatches'
  BY <1>8 DEF ReplayMatches, SameContents
<1>10. EngineInv'
  BY <1>1, <1>3, <1>4, <1>9 DEF EngineInv, KeysUnique, ReplayMatchesUntainted
<1> QED
  BY <1>2, <1>10 DEF TablesInv

LEMMA CheckpointKeeps ==
  ASSUME TablesInv, Checkpoint
  PROVE  TablesInv'
<1>1. log \in Seq(Records) /\ \A i \in 1 .. Len(log) : log[i].version <= version
  BY DEF TablesInv, EngineInv
<1> QED
  BY <1>1, SavedKeeps DEF Checkpoint

LEMMA CompactKeeps ==
  ASSUME TablesInv, Compact
  PROVE  TablesInv'
<1>1. /\ version \in Nat /\ table.rows \in Seq(OwnRows) /\ table.keyed \in BOOLEAN
  BY DEF TablesInv, EngineInv, TablesOf
<1>2. CompactOps \in Seq(Operations)
  <2> DEFINE a == <<CreateTableOp(table.keyed)>>
             b == IF table.rows = << >> THEN << >> ELSE <<InsertOp(Contents(table.rows))>>
             c == IF table.indexed THEN <<CreateIndexOp>> ELSE << >>
  <2>1. Contents(table.rows) \in Seq(Cells)
    BY <1>1, RowSets, ContentsIs
  <2>2. /\ CreateTableOp(table.keyed) \in Operations /\ CreateIndexOp \in Operations
        /\ InsertOp(Contents(table.rows)) \in Operations
    BY <1>1, <2>1, OpsAre
  <2>3. a \in Seq(Operations)
    BY <2>2
  <2>4. b \in Seq(Operations)
    BY <2>2, EmptySeq
  <2>5. c \in Seq(Operations)
    BY <2>2, EmptySeq
  <2>6. CompactOps = IF ~table.exists THEN << >> ELSE (a \o b) \o c
    BY DEF CompactOps
  <2> HIDE DEF a, b, c
  <2>7. (a \o b) \o c \in Seq(Operations)
    BY <2>3, <2>4, <2>5, ConcatProperties
  <2> QED
    BY <2>6, <2>7, EmptySeq
<1> DEFINE record == [version |-> version, ops |-> CompactOps]
<1>3. record \in Records /\ record.version = version
  BY <1>1, <1>2 DEF Records
<1>4. log' = IF CompactOps = << >> THEN << >> ELSE << record >>
  BY DEF Compact
<1> HIDE DEF record
<1>5. log' \in Seq(Records) /\ \A i \in 1 .. Len(log') : log'[i].version <= version
  <2>1. CASE CompactOps = << >>
    <3>1. log' = << >>
      BY <1>4, <2>1
    <3>2. log' \in Seq(Records) /\ Len(log') = 0
      BY <3>1, EmptySeq
    <3> QED
      BY <3>2
  <2>2. CASE CompactOps # << >>
    <3> DEFINE one == << record >>
    <3>1. log' = one /\ one \in Seq(Records) /\ Len(one) = 1 /\ one[1] = record
      BY <1>3, <1>4, <2>2
    <3> HIDE DEF one
    <3>2. \A i \in 1 .. Len(log') : i = 1
      BY <3>1
    <3> QED
      BY <1>1, <1>3, <3>1, <3>2
  <2> QED
    BY <2>1, <2>2
<1> QED
  BY <1>5, SavedKeeps DEF Compact

LEMMA ReopenKeeps ==
  ASSUME TablesInv, Reopen
  PROVE  TablesInv'
<1> DEFINE e == LoadAll(state, log)
<1>1. /\ EngineInv /\ log \in Seq(Records) /\ state \in Engines /\ taint \subseteq Taints
  BY DEF TablesInv, EngineInv
<1>2. /\ version' = e.version /\ table' = e.table /\ tx' = NoTx
      /\ UNCHANGED <<log, state, taint>>
  BY LoadedIs DEF Reopen
<1>3. /\ e \in Engines /\ Cached(e.table) /\ e.table \in TablesOf(OwnRows)
      /\ e.version \in Nat /\ state.version <= e.version
      /\ \A i \in 1 .. Len(log) : log[i].version <= e.version
      /\ taint \subseteq {"key"} => SameContents(e.table, table)
  BY <1>1, LoadedSound
<1>4. Loaded' = e.table
  BY <1>2 DEF Loaded, LoadAll
<1> HIDE DEF e
<1>5. taint = {} /\ e.table.keyed => \A v \in Cells : Count(e.table.rows, v) <= 1
  <2> SUFFICES ASSUME taint = {}, e.table.keyed
               PROVE  \A v \in Cells : Count(e.table.rows, v) <= 1
    OBVIOUS
  <2>1. SameContents(e.table, table)
    BY <1>3
  <2> QED
    BY <1>1, <2>1 DEF EngineInv, KeysUnique, SameContents
<1>6. KeysUnique'
  BY <1>2, <1>5 DEF KeysUnique
<1>7. ReplayMatches'
  BY <1>2, <1>4 DEF ReplayMatches, SameContents
<1>8. EngineInv'
  BY <1>1, <1>2, <1>3, <1>6, <1>7 DEF EngineInv, ReplayMatchesUntainted, Cached
<1> QED
  BY <1>2, <1>3, <1>8, NoTxKeeps DEF TablesInv

-----------------------------------------------------------------------------
(* The theorems.                                                           *)

LEMMA InitKeeps ==
  ASSUME Init
  PROVE  TablesInv
<1>1. /\ version = 0 /\ table = Absent /\ tx = NoTx /\ log = << >> /\ taint = {}
      /\ state = [version |-> 0, table |-> Absent]
  BY DEF Init
<1>2. /\ Absent \in TablesOf(OwnRows) /\ Cached(Absent) /\ Absent.keyed = FALSE
  BY RowSets, FreshIs
<1>3. state \in Engines /\ state.version = 0 /\ state.table = Absent
  BY <1>1, <1>2 DEF Engines
<1>4. log \in Seq(Records) /\ Len(log) = 0
  BY <1>1, EmptySeq
<1>5. SameContents(Loaded, table)
  <2>1. Loaded = Saved(state).table
    BY <1>4, LoadZero DEF Loaded
  <2>2. SameRows(Saved(state).table, state.table)
    BY <1>3, SavedIs
  <2> QED
    BY <1>1, <1>3, <2>1, <2>2, SameSelf
<1>6. EngineInv
  BY <1>1, <1>2, <1>3, <1>4, <1>5 DEF EngineInv, KeysUnique, ReplayMatchesUntainted, ReplayMatches
<1>7. Sound(tx.table, tx.ops, tx.taint)
  BY <1>1, NoTxIs DEF Sound
<1>8. TxInv
  BY <1>1, <1>7, NoTxIs DEF TxInv
<1> QED
  BY <1>6, <1>8 DEF TablesInv

LEMMA BatchesAre ==
  ASSUME NEW cells \in Batches
  PROVE  cells \in Seq(Cells)
<1>1. \A v \in Values : v \in Cells
  BY DEF Cells
<1>2. CASE \E v \in Values : cells = <<v>>
  <2>1. PICK v \in Values : cells = <<v>>
    BY <1>2
  <2>2. v \in Cells
    BY <1>1
  <2> QED
    BY <2>1, <2>2
<1>3. CASE \E v, w \in Values : cells = <<v, w>>
  <2>1. PICK v \in Values, w \in Values : cells = <<v, w>>
    BY <1>3
  <2>2. v \in Cells /\ w \in Cells
    BY <1>1
  <2> QED
    BY <2>1, <2>2
<1> QED
  BY <1>2, <1>3 DEF Batches

LEMMA StutterKeeps ==
  ASSUME TablesInv, UNCHANGED vars
  PROVE  TablesInv'
<1>1. UNCHANGED <<version, table, tx, log, state, taint>>
  BY DEF vars
<1>2. Loaded' = Loaded
  BY <1>1 DEF Loaded
<1>3. EngineInv'
  BY <1>1, <1>2
     DEF TablesInv, EngineInv, KeysUnique, ReplayMatchesUntainted, ReplayMatches
<1>4. TxInv'
  BY <1>1 DEF TablesInv, TxInv, Sound
<1> QED
  BY <1>3, <1>4 DEF TablesInv

LEMMA NextKeeps ==
  ASSUME TablesInv, [Next]_vars
  PROVE  TablesInv'
<1>1. CASE Begin
  BY <1>1, BeginKeeps
<1>2. CASE Commit
  BY <1>2, CommitKeeps
<1>3. CASE Rollback
  BY <1>3, RollbackKeeps DEF Rollback
<1>4. CASE CreateIndex
  BY <1>4, CreateIndexKeeps
<1>5. CASE \E keyed \in BOOLEAN : CreateTable(keyed)
  BY <1>5, CreateTableKeeps
<1>6. CASE \E v \in Values : Insert(v)
  BY <1>6, InsertKeeps
<1>7. CASE \E cells \in Batches : InsertMany(cells)
  BY <1>7, BatchesAre, InsertManyKeeps
<1>8. CASE \E cells \in Batches : BulkInsert(cells)
  BY <1>8, BatchesAre, BulkInsertKeeps
<1>9. CASE \E where \in Wheres : Delete(where)
  BY <1>9, DeleteKeeps
<1>10. CASE \E where \in Wheres, assign \in Assignments : Update(where, assign)
  BY <1>10, UpdateKeeps
<1>11. CASE \E where \in Wheres, assign \in Assignments : UpdateRaises(where, assign)
  BY <1>11, UpdateRaisesKeeps
<1>12. CASE Checkpoint
  BY <1>12, CheckpointKeeps
<1>13. CASE Compact
  BY <1>13, CompactKeeps
<1>14. CASE Reopen
  BY <1>14, ReopenKeeps
<1>15. CASE UNCHANGED vars
  BY <1>15, StutterKeeps
<1> QED
  BY <1>1, <1>2, <1>3, <1>4, <1>5, <1>6, <1>7, <1>8, <1>9, <1>10, <1>11, <1>12, <1>13,
     <1>14, <1>15 DEF Next

\* The state that an engine and its directory are in, whatever the tables, statements,
\* batches, checkpoints, compactions and reopenings (engine.py:429-651, 865-1011): the
\* open transaction keeps its operations such that they replay to its table over the
\* engine's, and the log keeps the committed ones such that they replay to the engine's.
THEOREM TablesInvariant ==
  Spec => []TablesInv
<1>1. Init => TablesInv
  BY InitKeeps
<1>2. TablesInv /\ [Next]_vars => TablesInv'
  BY NextKeeps
<1> QED
  BY <1>1, <1>2, PTL DEF Spec

\* Every variable has its type, and the rows of the engine and of state.json are never
\* those that a logged insert holds (engine.py:620-629, 986-1003).
THEOREM TypeCorrect ==
  Spec => []TypeOK
<1>1. TablesInv => TypeOK
  BY TablesInvImplies
<1> QED
  BY <1>1, TablesInvariant, PTL

\* The key sets and the index, which inserts keep and the other statements rebuild
\* (engine.py:508-527, 594-611), say what a scan of the rows says, unless a statement raised.
THEOREM CachesAgreeHolds ==
  Spec => []CachesAgree
<1>1. TablesInv => CachesAgree
  BY TablesInvImplies
<1> QED
  BY <1>1, TablesInvariant, PTL

\* A primary key is unique in the engine's table (engine.py:554, 592), through the replays
\* of its log too, until an UPDATE assigns it or changes an inserted row.
THEOREM KeysUniqueHolds ==
  Spec => []KeysUnique
<1>1. TablesInv => KeysUnique
  BY TablesInvImplies
<1> QED
  BY <1>1, TablesInvariant, PTL

\* The directory holds the database that is served (engine.py:865-944): state.json and
\* the log replayed over it give the rows of the engine's table, with their multiplicity,
\* unless a transaction updated a row that it had inserted, or committed after a
\* statement of it raised.
THEOREM ReplayMatchesHolds ==
  Spec => []ReplayMatchesUntainted
<1>1. TablesInv => ReplayMatchesUntainted
  BY TablesInvImplies
<1> QED
  BY <1>1, TablesInvariant, PTL

=============================================================================
