----------------------------- MODULE Raft_proofs -----------------------------
(***************************************************************************)
(* Proofs about Raft, for any finite set of nodes, any commands and any    *)
(* bounds: at most one node is elected in a term, and logs with the same   *)
(* term at a position agree up to it, whatever requests are lost and       *)
(* whenever nodes restart.                                                 *)
(***************************************************************************)
EXTENDS Raft, SequenceTheorems, FiniteSetTheorems, WellFoundedInduction, TLAPS

-----------------------------------------------------------------------------
(* Positions and merged logs.                                              *)

\* A nonempty set of naturals has a least element, and Min is it.
LEMMA MinIs ==
  ASSUME NEW S \in SUBSET Nat, S # {}
  PROVE  Min(S) \in S /\ \A y \in S : Min(S) <= y
<1> DEFINE R == OpToRel(<, Nat)
<1>1. IsWellFoundedOn(R, Nat)
  BY NatLessThanWellFounded
<1>2. PICK m \in S : \A y \in S : ~(<<y, m>> \in R)
  <2> HIDE DEF R
  <2> QED
    BY <1>1, WFMin
<1>3. \A y \in S : m <= y
  <2>1. \A y \in S : y \in Nat /\ m \in Nat /\ ~(y < m)
    BY <1>2 DEF OpToRel
  <2> QED
    BY <2>1
<1> QED
  BY <1>3 DEF Min

\* A nonempty set of positions has a greatest element, and Max is it.
LEMMA MaxIs ==
  ASSUME NEW k \in Nat, NEW S \in SUBSET (1 .. k), S # {}
  PROVE  Max(S) \in S /\ \A y \in S : Max(S) >= y
<1> DEFINE T == {k - i : i \in S}
<1>1. \A i \in S : i \in Nat /\ k - i \in Nat /\ k - i \in T
  OBVIOUS
<1>2. T # {} /\ T \subseteq Nat
  BY <1>1
<1>3. Min(T) \in T /\ \A y \in T : Min(T) <= y
  <2> HIDE DEF T
  <2> QED
    BY <1>2, MinIs
<1>4. PICK m \in S : Min(T) = k - m
  BY <1>3
<1>5. \A i \in S : k - m <= k - i
  BY <1>1, <1>3, <1>4
<1>6. \A i \in S : m >= i
  BY <1>1, <1>5
<1> QED
  BY <1>6 DEF Max

\* Logs joined.
LEMMA ConcatFacts ==
  ASSUME NEW a \in Seq(Entries), NEW b \in Seq(Entries)
  PROVE  /\ a \o b \in Seq(Entries) /\ Len(a \o b) = Len(a) + Len(b)
         /\ \A x \in 1 .. Len(a) + Len(b) :
              (a \o b)[x] = IF x <= Len(a) THEN a[x] ELSE b[x - Len(a)]
BY ConcatProperties

\* A part of a log is a log.
LEMMA SubSeqIs ==
  ASSUME NEW s \in Seq(Entries), NEW i \in Nat \ {0}, NEW j \in Nat, j <= Len(s)
  PROVE  /\ SubSeq(s, i, j) \in Seq(Entries)
         /\ Len(SubSeq(s, i, j)) = IF i <= j THEN j - i + 1 ELSE 0
         /\ \A x \in 1 .. j - i + 1 : SubSeq(s, i, j)[x] = s[i + x - 1]
<1>1. i \in Int /\ j \in Int /\ \A x \in i .. j : s[x] \in Entries
  OBVIOUS
<1> HIDE DEF Entries
<1> QED
  BY <1>1, SubSeqProperties

\* Two logs that agree up to i have equal beginnings of length i.
LEMMA SamePrefix ==
  ASSUME NEW a \in Seq(Entries), NEW b \in Seq(Entries), NEW i \in Nat,
         i <= Len(a), i <= Len(b)
  PROVE  SubSeq(a, 1, i) = SubSeq(b, 1, i) <=> \A x \in 1 .. i : a[x] = b[x]
<1>1. /\ SubSeq(a, 1, i) \in Seq(Entries) /\ Len(SubSeq(a, 1, i)) = i
      /\ \A x \in 1 .. i : SubSeq(a, 1, i)[x] = a[x]
  BY SubSeqIs
<1>2. /\ SubSeq(b, 1, i) \in Seq(Entries) /\ Len(SubSeq(b, 1, i)) = i
      /\ \A x \in 1 .. i : SubSeq(b, 1, i)[x] = b[x]
  BY SubSeqIs
<1>3. ASSUME SubSeq(a, 1, i) = SubSeq(b, 1, i) PROVE \A x \in 1 .. i : a[x] = b[x]
  BY <1>1, <1>2, <1>3
<1>4. ASSUME \A x \in 1 .. i : a[x] = b[x] PROVE SubSeq(a, 1, i) = SubSeq(b, 1, i)
  BY <1>1, <1>2, <1>4, SeqEqual
<1> QED
  BY <1>3, <1>4

\* The loop over the entries keeps the log a log.
LEMMA MergeType ==
  ASSUME NEW a \in Seq(Entries), NEW k \in Nat, k <= Len(a), NEW e \in Seq(Entries)
  PROVE  Merge(a, k, e) \in Seq(Entries)
<1> DEFINE new == {i \in DOMAIN e : k + i > Len(a) \/ a[k + i].term # e[i].term}
<1>1. new \in SUBSET Nat /\ \A i \in new : i \in 1 .. Len(e)
  OBVIOUS
<1>2. CASE new = {}
  BY <1>2 DEF Merge
<1>3. CASE new # {}
  <2> DEFINE f == Min(new)
  <2>1. f \in new /\ \A y \in new : f <= y
    <3> HIDE DEF new
    <3> QED
      BY <1>1, <1>3, MinIs
  <2>2. f \in 1 .. Len(e) /\ Len(e) \in Nat
    BY <1>1, <2>1
  <2>3. \A i \in 1 .. f - 1 : k + i <= Len(a)
    <3>1. \A i \in 1 .. f - 1 : i \in 1 .. Len(e) /\ ~(f <= i)
      <4> HIDE DEF f
      <4> QED
        BY <2>2
    <3>2. \A i \in 1 .. f - 1 : i \notin new
      <4> HIDE DEF f, new
      <4> QED
        BY <2>1, <3>1
    <3> QED
      BY <3>1, <3>2
  <2>4. k + f - 1 <= Len(a) /\ k + f - 1 \in Nat
    <3>1. f = 1 \/ f - 1 \in 1 .. f - 1
      BY <2>2
    <3>2. f \in Nat /\ f >= 1
      BY <2>2
    <3> HIDE DEF f, new
    <3>3. f # 1 => k + (f - 1) <= Len(a)
      BY <2>3, <3>1
    <3> QED
      BY <3>2, <3>3
  <2>5. /\ SubSeq(a, 1, k + f - 1) \in Seq(Entries)
        /\ SubSeq(e, f, Len(e)) \in Seq(Entries)
    <3> HIDE DEF f
    <3> QED
      BY <2>2, <2>4, SubSeqIs
  <2>6. Merge(a, k, e) = SubSeq(a, 1, k + f - 1) \o SubSeq(e, f, Len(e))
    BY <1>3 DEF Merge
  <2> HIDE DEF f
  <2> QED
    BY <2>5, <2>6, ConcatProperties
<1> QED
  BY <1>2, <1>3

\* Between logs that match, the loop changes nothing or takes the whole log over.
LEMMA MergeIs ==
  ASSUME NEW a \in Seq(Entries), NEW b \in Seq(Entries), NEW k \in Nat,
         k <= Len(a), k <= Len(b),
         \A i \in (1 .. Len(a)) \intersect (1 .. Len(b)) :
           a[i].term = b[i].term => SubSeq(a, 1, i) = SubSeq(b, 1, i),
         k = 0 \/ a[k].term = b[k].term
  PROVE  LET c == Merge(a, k, SubSeq(b, k + 1, Len(b)))
         IN  c = b \/ (c = a /\ Len(a) > Len(b))
<1> DEFINE e == SubSeq(b, k + 1, Len(b))
           new == {i \in DOMAIN e : k + i > Len(a) \/ a[k + i].term # e[i].term}
<1>1. Len(a) \in Nat /\ Len(b) \in Nat
  OBVIOUS
<1>2. /\ e \in Seq(Entries) /\ Len(e) = Len(b) - k
      /\ \A x \in 1 .. Len(b) - k : e[x] = b[k + x]
  <2>1. /\ e \in Seq(Entries)
        /\ Len(e) = IF k + 1 <= Len(b) THEN Len(b) - (k + 1) + 1 ELSE 0
        /\ \A x \in 1 .. Len(b) - (k + 1) + 1 : e[x] = b[(k + 1) + x - 1]
    <3>1. k + 1 \in Nat \ {0} /\ Len(b) <= Len(b)
      BY <1>1
    <3> QED
      BY <1>1, <3>1, SubSeqIs
  <2>2. Len(b) - (k + 1) + 1 = Len(b) - k /\ \A x \in Nat : (k + 1) + x - 1 = k + x
    BY <1>1
  <2>3. Len(e) = Len(b) - k
    BY <1>1, <2>1
  <2> HIDE DEF e
  <2>4. \A x \in 1 .. Len(b) - k : e[x] = b[k + x]
    <3> SUFFICES ASSUME NEW x \in 1 .. Len(b) - k
                 PROVE  e[x] = b[k + x]
      OBVIOUS
    <3>1. x \in Nat /\ x \in 1 .. Len(b) - (k + 1) + 1
      BY <1>1
    <3>2. e[x] = b[(k + 1) + x - 1]
      BY <2>1, <3>1
    <3> QED
      BY <2>2, <3>1, <3>2
  <2> QED
    BY <2>1, <2>3, <2>4
<1>3. DOMAIN e = 1 .. Len(b) - k
  BY <1>2
<1> HIDE DEF e
<1>4. CASE new = {}
  <2>1. Merge(a, k, e) = a
    BY <1>4 DEF Merge
  <2>2. ASSUME Len(a) <= Len(b)
        PROVE  a = b
    <3>1. CASE k = Len(b)
      <4>1. Len(a) = Len(b)
        BY <1>1, <2>2, <3>1
      <4>2. CASE k = 0
        <5>1. \A x \in 1 .. Len(a) : a[x] = b[x]
          BY <3>1, <4>1, <4>2
        <5> QED
          BY <4>1, <5>1, SeqEqual
      <4>3. CASE k # 0
        <5>1. k \in (1 .. Len(a)) \intersect (1 .. Len(b))
          BY <1>1, <4>3
        <5>2. SubSeq(a, 1, k) = SubSeq(b, 1, k)
          BY <4>3, <5>1
        <5>3. \A x \in 1 .. k : a[x] = b[x]
          BY <5>2, SamePrefix
        <5> QED
          BY <3>1, <4>1, <5>3, SeqEqual
      <4> QED
        BY <4>2, <4>3
    <3>2. CASE k # Len(b)
      <4> DEFINE z == Len(b) - k
      <4>1. z \in 1 .. Len(b) - k /\ k + z = Len(b)
        BY <1>1, <3>2
      <4> HIDE DEF z
      <4>2. ~(k + z > Len(a)) /\ a[k + z].term = e[z].term
        BY <1>3, <1>4, <4>1
      <4>3. Len(a) = Len(b) /\ a[Len(b)].term = b[Len(b)].term
        BY <1>1, <1>2, <2>2, <4>1, <4>2
      <4>4. Len(b) \in (1 .. Len(a)) \intersect (1 .. Len(b))
        BY <1>1, <3>2, <4>3
      <4>5. SubSeq(a, 1, Len(b)) = SubSeq(b, 1, Len(b))
        BY <4>3, <4>4
      <4>6. \A x \in 1 .. Len(b) : a[x] = b[x]
        BY <1>1, <4>3, <4>5, SamePrefix
      <4> QED
        BY <4>3, <4>6, SeqEqual
    <3> QED
      BY <3>1, <3>2
  <2>3. Merge(a, k, e) = b \/ (Merge(a, k, e) = a /\ Len(a) > Len(b))
    BY <1>1, <2>1, <2>2
  <2> QED
    BY <2>3 DEF e
<1>5. CASE new # {}
  <2> DEFINE f == Min(new)
  <2>1. f \in new /\ \A y \in new : f <= y
    <3>1. new \in SUBSET Nat
      BY <1>3
    <3> HIDE DEF new
    <3> QED
      BY <1>5, <3>1, MinIs
  <2>2. f \in 1 .. Len(b) - k
    BY <1>3, <2>1
  <2>3. \A i \in 1 .. f - 1 : k + i <= Len(a) /\ a[k + i].term = b[k + i].term
    <3>1. \A i \in 1 .. f - 1 : i \in 1 .. Len(b) - k /\ ~(f <= i)
      <4> HIDE DEF f
      <4> QED
        BY <1>1, <2>2
    <3>2. \A i \in 1 .. f - 1 : i \notin new
      <4> HIDE DEF f, new
      <4> QED
        BY <2>1, <3>1
    <3> QED
      BY <1>2, <1>3, <3>1, <3>2
  <2> HIDE DEF f, new
  <2> DEFINE j == k + f - 1
  <2>4. j \in Nat /\ j <= Len(a) /\ j <= Len(b)
    <3>1. f \in Nat /\ f >= 1 /\ f <= Len(b) - k
      BY <1>1, <2>2
    <3>2. f # 1 => k + (f - 1) <= Len(a)
      <4>1. f # 1 => f - 1 \in 1 .. f - 1
        BY <3>1
      <4> QED
        BY <2>3, <4>1
    <3> QED
      BY <1>1, <3>1, <3>2
  <2>5. j = 0 \/ a[j].term = b[j].term
    <3>1. f \in Nat /\ f >= 1
      BY <1>1, <2>2
    <3>2. CASE f = 1
      BY <3>2
    <3>3. CASE f # 1
      <4>1. f - 1 \in 1 .. f - 1 /\ j = k + (f - 1)
        BY <3>1, <3>3
      <4> QED
        BY <2>3, <4>1
    <3> QED
      BY <3>2, <3>3
  <2>6. \A x \in 1 .. j : a[x] = b[x]
    <3>1. CASE j = 0
      BY <3>1
    <3>2. CASE j # 0
      <4> HIDE DEF j
      <4>1. j \in (1 .. Len(a)) \intersect (1 .. Len(b))
        BY <1>1, <2>4, <3>2
      <4>2. SubSeq(a, 1, j) = SubSeq(b, 1, j)
        BY <2>5, <3>2, <4>1
      <4> QED
        BY <2>4, <4>2, SamePrefix
    <3> QED
      BY <3>1, <3>2
  <2>7. Merge(a, k, e) = SubSeq(a, 1, j) \o SubSeq(e, f, Len(e))
    BY <1>5 DEF Merge, f, new
  <2>8. /\ SubSeq(a, 1, j) \in Seq(Entries) /\ Len(SubSeq(a, 1, j)) = j
        /\ \A x \in 1 .. j : SubSeq(a, 1, j)[x] = a[x]
    <3> HIDE DEF j
    <3>1. \A x \in 1 .. j : 1 + x - 1 = x /\ j - 1 + 1 = j
      BY <2>4
    <3> QED
      BY <2>4, <3>1, SubSeqIs
  <2>9. /\ SubSeq(e, f, Len(e)) \in Seq(Entries)
        /\ Len(SubSeq(e, f, Len(e))) = Len(b) - j
        /\ \A x \in 1 .. Len(b) - j : SubSeq(e, f, Len(e))[x] = b[j + x]
    <3>1. f \in Nat \ {0} /\ f <= Len(e) /\ Len(e) \in Nat
      BY <1>1, <1>2, <2>2
    <3>2. /\ SubSeq(e, f, Len(e)) \in Seq(Entries)
          /\ Len(SubSeq(e, f, Len(e))) = Len(e) - f + 1
          /\ \A x \in 1 .. Len(e) - f + 1 : SubSeq(e, f, Len(e))[x] = e[f + x - 1]
      BY <1>2, <3>1, SubSeqIs
    <3>3. Len(e) - f + 1 = Len(b) - j
      BY <1>1, <1>2, <3>1
    <3>4. \A x \in 1 .. Len(b) - j : f + x - 1 \in 1 .. Len(b) - k /\ k + (f + x - 1) = j + x
      BY <1>1, <3>1
    <3> HIDE DEF j
    <3> QED
      BY <1>2, <3>2, <3>3, <3>4
  <2> HIDE DEF j
  <2> DEFINE c == SubSeq(a, 1, j) \o SubSeq(e, f, Len(e))
             c1 == SubSeq(a, 1, j)
             c2 == SubSeq(e, f, Len(e))
  <2>10. /\ c \in Seq(Entries) /\ Len(c) = j + (Len(b) - j)
         /\ \A x \in 1 .. j + (Len(b) - j) :
              c[x] = IF x <= j THEN SubSeq(a, 1, j)[x] ELSE SubSeq(e, f, Len(e))[x - j]
    <3>1. c1 \in Seq(Entries) /\ c2 \in Seq(Entries) /\ Len(c1) = j /\ Len(c2) = Len(b) - j
      BY <2>8, <2>9
    <3> HIDE DEF c1, c2
    <3>2. /\ c1 \o c2 \in Seq(Entries) /\ Len(c1 \o c2) = Len(c1) + Len(c2)
          /\ \A x \in 1 .. Len(c1) + Len(c2) :
               (c1 \o c2)[x] = IF x <= Len(c1) THEN c1[x] ELSE c2[x - Len(c1)]
      BY <3>1, ConcatFacts
    <3> QED
      BY <3>1, <3>2 DEF c1, c2
  <2> HIDE DEF c, c1, c2
  <2>11. Len(c) = Len(b)
    BY <1>1, <2>4, <2>10
  <2>12. \A x \in 1 .. Len(b) : c[x] = b[x]
    <3>1. \A x \in 1 .. Len(b) : x <= j => x \in 1 .. j
      BY <2>4
    <3>2. \A x \in 1 .. Len(b) : ~(x <= j) => x - j \in 1 .. Len(b) - j /\ j + (x - j) = x
      BY <1>1, <2>4
    <3>3. j + (Len(b) - j) = Len(b)
      BY <1>1, <2>4
    <3> QED
      BY <2>6, <2>8, <2>9, <2>10, <3>1, <3>2, <3>3
  <2>13. c = b
    BY <2>10, <2>11, <2>12, SeqEqual
  <2> QED
    BY <2>7, <2>13 DEF c, e
<1> QED
  BY <1>4, <1>5

-----------------------------------------------------------------------------
(* What a handler does to its node.                                        *)

Saved(s) == s.disk = [term |-> s.term, votedFor |-> s.votedFor, log |-> s.log]

\* The two have applied and committed the same, and count the same.
SameData(s, u) == u.match = s.match /\ u.commit = s.commit /\ u.applied = s.applied

LEMMA PersistFacts ==
  ASSUME NEW s \in NodeStates
  PROVE  /\ Persist(s) \in NodeStates /\ Saved(Persist(s))
         /\ Persist(s).term = s.term /\ Persist(s).votedFor = s.votedFor
         /\ Persist(s).log = s.log /\ Persist(s).role = s.role
         /\ Persist(s).votes = s.votes /\ SameData(s, Persist(s))
<1>1. [term |-> s.term, votedFor |-> s.votedFor, log |-> s.log] \in Disks
  BY DEF NodeStates, Disks
<1>2. Persist(s) \in NodeStates
  BY <1>1 DEF Persist, NodeStates
<1> QED
  BY <1>2 DEF Persist, NodeStates, Saved, SameData

LEMMA StepDownFacts ==
  ASSUME NEW s \in NodeStates, NEW t \in Nat
  PROVE  /\ StepDown(s, t) \in NodeStates /\ Saved(StepDown(s, t))
         /\ StepDown(s, t).term = (IF t > s.term THEN t ELSE s.term)
         /\ StepDown(s, t).votedFor = (IF t > s.term THEN NoNode ELSE s.votedFor)
         /\ StepDown(s, t).log = s.log /\ StepDown(s, t).role = "follower"
         /\ SameData(s, StepDown(s, t))
<1> DEFINE u == [s EXCEPT !.term = IF t > s.term THEN t ELSE s.term,
                          !.votedFor = IF t > s.term THEN NoNode ELSE s.votedFor,
                          !.role = "follower", !.votes = {}]
<1>1. u \in NodeStates
  BY DEF NodeStates
<1>2. /\ u.term = (IF t > s.term THEN t ELSE s.term)
      /\ u.votedFor = (IF t > s.term THEN NoNode ELSE s.votedFor)
      /\ u.log = s.log /\ u.role = "follower" /\ SameData(s, u)
  BY DEF NodeStates, SameData
<1>3. StepDown(s, t) = Persist(u)
  BY DEF StepDown
<1> HIDE DEF u
<1> QED
  BY <1>1, <1>2, <1>3, PersistFacts DEF SameData

LEMMA ApplyFacts ==
  ASSUME NEW s \in NodeStates
  PROVE  /\ Apply(s) \in NodeStates
         /\ Apply(s).term = s.term /\ Apply(s).votedFor = s.votedFor
         /\ Apply(s).log = s.log /\ Apply(s).role = s.role
         /\ Apply(s).votes = s.votes /\ Apply(s).disk = s.disk
         /\ Apply(s).match = s.match /\ Apply(s).commit = s.commit
         /\ Apply(s).applied =
              s.applied \o SubSeq(s.log, Len(s.applied) + 1,
                                 IF s.commit < Len(s.log) THEN s.commit ELSE Len(s.log))
<1> DEFINE upTo == IF s.commit < Len(s.log) THEN s.commit ELSE Len(s.log)
           more == s.applied \o SubSeq(s.log, Len(s.applied) + 1, upTo)
<1>1. /\ s.log \in Seq(Entries) /\ s.applied \in Seq(Entries)
      /\ Len(s.log) \in Nat /\ Len(s.applied) \in Nat /\ s.commit \in Nat
  BY DEF NodeStates
<1>2. upTo \in Nat /\ upTo <= Len(s.log) /\ Len(s.applied) + 1 \in Nat \ {0}
  BY <1>1
<1>3. SubSeq(s.log, Len(s.applied) + 1, upTo) \in Seq(Entries)
  <2> HIDE DEF upTo
  <2> QED
    BY <1>1, <1>2, SubSeqIs
<1>4. more \in Seq(Entries)
  <2> HIDE DEF upTo
  <2> QED
    BY <1>1, <1>3, ConcatProperties
<1>5. Apply(s) = [s EXCEPT !.applied = more]
  BY DEF Apply, NodeStates
<1>6. Apply(s).applied = more
  <2> HIDE DEF more
  <2> QED
    BY <1>4, <1>5 DEF NodeStates
<1>7. /\ Apply(s) \in NodeStates
      /\ Apply(s).term = s.term /\ Apply(s).votedFor = s.votedFor
      /\ Apply(s).log = s.log /\ Apply(s).role = s.role
      /\ Apply(s).votes = s.votes /\ Apply(s).disk = s.disk
      /\ Apply(s).match = s.match /\ Apply(s).commit = s.commit
  <2> HIDE DEF more
  <2> QED
    BY <1>4, <1>5 DEF NodeStates
<1> QED
  BY <1>6, <1>7

\* A vote changes no log, is given once in a term, and ends no role in its term.
LEMMA VoteFacts ==
  ASSUME NEW s \in NodeStates, Saved(s), NEW request, request.term \in Nat,
         request.from \in Nodes
  PROVE  LET r == HandleVote(s, request)
         IN  /\ r.node \in NodeStates /\ Saved(r.node) /\ r.node.log = s.log
             /\ r.term = r.node.term
             /\ r.node.term = (IF request.term > s.term THEN request.term ELSE s.term)
             /\ r.node.term = s.term =>
                  s.votedFor = NoNode \/ r.node.votedFor = s.votedFor
             /\ \/ r.node.role = "follower"
                \/ /\ r.node.role = s.role /\ r.node.term = s.term
                   /\ r.node.votes = s.votes
             /\ r.granted =>
                  /\ r.node.votedFor = request.from /\ r.term = request.term
                  /\ s.term = r.term => s.votedFor \in {NoNode, request.from}
                  /\ UpToDate(s, request)
             /\ SameData(s, r.node)
<1> DEFINE r == HandleVote(s, request)
<1>1. s.term \in Nat /\ s.votedFor \in Nodes \union {NoNode}
  BY DEF NodeStates
<1>2. CASE request.term < s.term
  <2>1. r = [node |-> s, term |-> s.term, granted |-> FALSE]
    BY <1>2 DEF HandleVote
  <2> HIDE DEF r
  <2>2. /\ r.node = s /\ r.term = s.term /\ r.granted = FALSE
    BY <2>1
  <2>3. ~(request.term > s.term)
    BY <1>1, <1>2
  <2> QED
    BY <2>2, <2>3 DEF r, SameData
<1>3. CASE ~(request.term < s.term)
  <2> DEFINE t == IF request.term > s.term THEN StepDown(s, request.term) ELSE s
             grant == t.votedFor \in {NoNode, request.from} /\ UpToDate(t, request)
             g == Persist([t EXCEPT !.votedFor = request.from])
  <2>1. r = [node |-> IF grant THEN g ELSE t, term |-> t.term, granted |-> grant]
    BY <1>3 DEF HandleVote
  <2>2. /\ t \in NodeStates /\ Saved(t) /\ t.log = s.log
        /\ t.term = (IF request.term > s.term THEN request.term ELSE s.term)
        /\ t.term = s.term => t.votedFor = s.votedFor
        /\ t.role = "follower" \/ t = s
        /\ SameData(s, t)
    <3>1. CASE request.term > s.term
      <4>1. t = StepDown(s, request.term)
        BY <3>1
      <4> HIDE DEF t
      <4> QED
        BY <1>1, <3>1, <4>1, StepDownFacts
    <3>2. CASE ~(request.term > s.term)
      BY <1>1, <3>2 DEF SameData
    <3> QED
      BY <3>1, <3>2
  <2> HIDE DEF t
  <2>3. /\ [t EXCEPT !.votedFor = request.from] \in NodeStates
        /\ [t EXCEPT !.votedFor = request.from].votedFor = request.from
        /\ [t EXCEPT !.votedFor = request.from].term = t.term
        /\ [t EXCEPT !.votedFor = request.from].log = t.log
        /\ [t EXCEPT !.votedFor = request.from].role = t.role
        /\ [t EXCEPT !.votedFor = request.from].votes = t.votes
        /\ SameData(t, [t EXCEPT !.votedFor = request.from])
    BY <2>2 DEF NodeStates, SameData
  <2>4. /\ g \in NodeStates /\ Saved(g) /\ g.votedFor = request.from
        /\ g.term = t.term /\ g.log = t.log /\ g.role = t.role /\ g.votes = t.votes
        /\ SameData(t, g)
    BY <2>3, PersistFacts DEF SameData
  <2>5. t.term = request.term
    BY <1>1, <1>3, <2>2
  <2>6. grant => t.votedFor \in {NoNode, request.from} /\ UpToDate(s, request)
    BY <2>2 DEF UpToDate, LastTerm
  <2> HIDE DEF grant, g, r
  <2>7. CASE grant
    <3>1. r.node = g /\ r.term = t.term
      BY <2>1, <2>7
    <3>2. t.term = s.term => s.votedFor = NoNode \/ g.votedFor = s.votedFor
      BY <1>1, <2>2, <2>4, <2>6, <2>7
    <3> QED
      BY <1>1, <2>2, <2>4, <2>5, <2>6, <2>7, <3>1, <3>2 DEF r, SameData
  <2>8. CASE ~grant
    <3>1. r.node = t /\ r.term = t.term /\ ~r.granted
      BY <2>1, <2>8
    <3> QED
      BY <1>1, <2>2, <2>5, <3>1 DEF r
  <2> QED
    BY <2>7, <2>8
<1> QED
  BY <1>2, <1>3

\* s takes over the commit index of a leader, with the log of u, and applies up to it.
Catches(s, u, commit) ==
  /\ commit > s.commit
  /\ u.commit = (IF commit < Len(u.log) THEN commit ELSE Len(u.log))
  /\ u.applied = s.applied \o SubSeq(u.log, Len(s.applied) + 1, u.commit)

\* An accepted append merges the entries; whoever takes one is a follower after it.
LEMMA AppendFacts ==
  ASSUME NEW s \in NodeStates, Saved(s), NEW request,
         request.term \in Nat, request.prev \in Nat, request.commit \in Nat,
         request.entries \in Seq(Entries)
  PROVE  LET r == HandleAppend(s, request)
         IN  /\ r.node \in NodeStates /\ Saved(r.node) /\ r.match \in Nat
             /\ r.term = r.node.term
             /\ r.node.term = (IF request.term > s.term THEN request.term ELSE s.term)
             /\ r.node.term = s.term => r.node.votedFor = s.votedFor
             /\ r.node = s \/ r.node.role = "follower"
             /\ r.success \/ r.node.log = s.log
             /\ r.success => /\ r.node.role = "follower"
                             /\ Matches(s, request) /\ ~(request.term < s.term)
                             /\ r.node.log = Merge(s.log, request.prev, request.entries)
                             /\ r.match = Len(r.node.log)
             /\ r.node.match = s.match
             /\ \/ r.node.commit = s.commit /\ r.node.applied = s.applied
                \/ r.success /\ Catches(s, r.node, request.commit)
<1> DEFINE r == HandleAppend(s, request)
<1>1. s.term \in Nat /\ s.votedFor \in Nodes \union {NoNode} /\ s.log \in Seq(Entries)
  BY DEF NodeStates
<1>2. CASE request.term < s.term
  <2>1. r = [node |-> s, term |-> s.term, success |-> FALSE, match |-> Len(s.log)]
    BY <1>2 DEF HandleAppend
  <2> HIDE DEF r
  <2>2. r.node = s /\ r.term = s.term /\ r.match = Len(s.log) /\ ~r.success
    BY <2>1
  <2>3. ~(request.term > s.term) /\ Len(s.log) \in Nat
    BY <1>1, <1>2
  <2> QED
    BY <2>2, <2>3 DEF r
<1>3. CASE ~(request.term < s.term)
  <2> DEFINE t == IF request.term > s.term \/ s.role # "follower"
                    THEN StepDown(s, request.term) ELSE s
             log == Merge(t.log, request.prev, request.entries)
             commit == IF request.commit > t.commit
                         THEN IF request.commit < Len(log) THEN request.commit ELSE Len(log)
                         ELSE t.commit
             u == [t EXCEPT !.log = log, !.commit = commit]
             v == IF request.commit > t.commit THEN Apply(u) ELSE u
  <2>1. r = IF Matches(t, request)
              THEN [node |-> Persist(v), term |-> t.term, success |-> TRUE, match |-> Len(log)]
              ELSE [node |-> t, term |-> t.term, success |-> FALSE, match |-> Len(t.log)]
    BY <1>3 DEF HandleAppend
  <2>2. /\ t \in NodeStates /\ Saved(t) /\ t.log = s.log /\ t.role = "follower"
        /\ t.term = (IF request.term > s.term THEN request.term ELSE s.term)
        /\ t.term = s.term => t.votedFor = s.votedFor
        /\ SameData(s, t)
    <3>1. CASE request.term > s.term \/ s.role # "follower"
      <4>1. t = StepDown(s, request.term)
        BY <3>1
      <4> HIDE DEF t
      <4>2. /\ t \in NodeStates /\ Saved(t) /\ t.log = s.log /\ t.role = "follower"
            /\ t.term = (IF request.term > s.term THEN request.term ELSE s.term)
            /\ t.votedFor = (IF request.term > s.term THEN NoNode ELSE s.votedFor)
            /\ SameData(s, t)
        BY <4>1, StepDownFacts
      <4>3. t.term = s.term => ~(request.term > s.term)
        BY <1>1, <4>2
      <4> QED
        BY <4>2, <4>3
    <3>2. CASE ~(request.term > s.term \/ s.role # "follower")
      BY <1>1, <3>2 DEF SameData
    <3> QED
      BY <3>1, <3>2
  <2>3. Matches(t, request) <=> Matches(s, request)
    BY <2>2 DEF Matches
  <2> HIDE DEF t
  <2>4. CASE Matches(t, request)
    <3>1. log \in Seq(Entries)
      <4>1. request.prev <= Len(t.log)
        BY <1>1, <2>2, <2>4 DEF Matches
      <4> QED
        BY <1>1, <2>2, <4>1, MergeType
    <3>2. log = Merge(s.log, request.prev, request.entries)
      BY <2>2
    <3> HIDE DEF log
    <3>3. commit \in Nat
      <4>1. Len(log) \in Nat /\ t.commit \in Nat
        BY <2>2, <3>1 DEF NodeStates
      <4> QED
        BY <4>1
    <3>4. request.commit > t.commit =>
            commit = IF request.commit < Len(log) THEN request.commit ELSE Len(log)
      OBVIOUS
    <3>5. ~(request.commit > t.commit) => commit = t.commit
      OBVIOUS
    <3>6. request.commit > t.commit => commit <= Len(log)
      <4>1. Len(log) \in Nat
        BY <3>1
      <4> HIDE DEF commit
      <4> QED
        BY <3>3, <3>4, <4>1
    <3> HIDE DEF commit
    <3>7. /\ u \in NodeStates /\ u.log = log /\ u.term = t.term
          /\ u.votedFor = t.votedFor /\ u.role = t.role
          /\ u.match = t.match /\ u.commit = commit /\ u.applied = t.applied
      BY <2>2, <3>1, <3>3 DEF NodeStates
    <3> HIDE DEF u
    <3>8. /\ v \in NodeStates /\ v.log = log /\ v.term = t.term
          /\ v.votedFor = t.votedFor /\ v.role = t.role
          /\ v.match = t.match /\ v.commit = commit
      BY <3>7, ApplyFacts
    <3>9. \/ v.commit = s.commit /\ v.applied = s.applied
          \/ Catches(s, v, request.commit)
      <4>1. t.commit = s.commit /\ t.applied = s.applied
        BY <2>2 DEF SameData
      <4>2. CASE ~(request.commit > t.commit)
        BY <3>5, <3>7, <4>1, <4>2
      <4>3. CASE request.commit > t.commit
        <5>1. /\ v.applied = u.applied \o
                  SubSeq(u.log, Len(u.applied) + 1,
                         IF u.commit < Len(u.log) THEN u.commit ELSE Len(u.log))
          BY <3>7, <4>3, ApplyFacts
        <5>2. (IF commit < Len(log) THEN commit ELSE Len(log)) = commit
          <6>1. Len(log) \in Nat
            BY <3>1
          <6> QED
            BY <3>3, <3>6, <4>3, <6>1
        <5>3. v.applied = s.applied \o SubSeq(v.log, Len(s.applied) + 1, v.commit)
          BY <3>7, <3>8, <4>1, <5>1, <5>2
        <5> HIDE DEF v
        <5> QED
          BY <3>4, <3>8, <4>1, <4>3, <5>3 DEF Catches
      <4> QED
        BY <4>2, <4>3
    <3> HIDE DEF v
    <3>10. /\ Persist(v) \in NodeStates /\ Saved(Persist(v)) /\ Persist(v).log = log
           /\ Persist(v).term = t.term /\ Persist(v).votedFor = t.votedFor
           /\ Persist(v).role = "follower" /\ Persist(v).match = s.match
           /\ Persist(v).commit = v.commit /\ Persist(v).applied = v.applied
      BY <2>2, <3>8, PersistFacts DEF SameData
    <3> HIDE DEF r
    <3>11. r.node = Persist(v) /\ r.term = t.term /\ r.match = Len(log) /\ r.success
      BY <2>1, <2>4
    <3>12. Len(log) \in Nat
      BY <3>1
    <3>13. \/ r.node.commit = s.commit /\ r.node.applied = s.applied
           \/ Catches(s, r.node, request.commit)
      BY <3>8, <3>9, <3>10, <3>11 DEF Catches
    <3> QED
      BY <1>3, <2>2, <2>3, <2>4, <3>2, <3>10, <3>11, <3>12, <3>13 DEF r
  <2>5. CASE ~Matches(t, request)
    <3> HIDE DEF r
    <3>1. r.node = t /\ r.term = t.term /\ r.match = Len(t.log) /\ ~r.success
      BY <2>1, <2>5
    <3>2. Len(t.log) \in Nat
      BY <1>1, <2>2
    <3> QED
      BY <2>2, <3>1, <3>2 DEF r, SameData
  <2> QED
    BY <2>4, <2>5
<1> QED
  BY <1>2, <1>3

-----------------------------------------------------------------------------
(* What a step does, and the types.                                        *)

\* Terms grow, and a vote is not taken back in its term.
Advances(q) ==
  /\ node'[q].term >= node[q].term
  /\ node'[q].term = node[q].term =>
       node[q].votedFor = NoNode \/ node'[q].votedFor = node[q].votedFor

\* A node becomes a follower, or its role, term, votes and log are what they were.
Keeps(q) ==
  \/ node'[q].role = "follower"
  \/ /\ node'[q].role = node[q].role /\ node'[q].term = node[q].term
     /\ node'[q].votes = node[q].votes /\ node'[q].log = node[q].log

\* No node is elected, and no term is new.
Quiet ==
  /\ elected' = elected
  /\ \A q \in Nodes :
       /\ Advances(q) /\ Keeps(q)
       /\ \E m \in Nodes : node'[q].term \in {node[m].term, call[m].term}
       /\ call'[q].term = call[q].term \/ call'[q].term = 0

NodesTyped(nodes) ==
  nodes \in [Nodes -> NodeStates] /\ \A q \in Nodes : Saved(nodes[q])
CallsTyped(calls) ==
  /\ calls \in [Nodes -> Calls]
  /\ \A q \in Nodes : calls[q].voters \union calls[q].peers \subseteq Peers(q)

LEMMA TypeParts ==
  TypeOK <=> /\ NodesTyped(node) /\ CallsTyped(call)
             /\ elected \in [1 .. MaxTerm -> SUBSET Nodes] /\ overclaimed \in BOOLEAN
BY DEF TypeOK, NodesTyped, CallsTyped, Saved

LEMMA SetNode ==
  ASSUME NodesTyped(node), NEW n \in Nodes, NEW s \in NodeStates, Saved(s)
  PROVE  NodesTyped([node EXCEPT ![n] = s])
BY DEF NodesTyped

LEMMA SetCall ==
  ASSUME CallsTyped(call), NEW n \in Nodes, NEW c \in Calls,
         c.voters \union c.peers \subseteq Peers(n)
  PROVE  CallsTyped([call EXCEPT ![n] = c])
BY DEF CallsTyped

LEMMA IdleTyped == Idle \in Calls /\ Idle.voters = {} /\ Idle.peers = {} /\ Idle.term = 0
BY DEF Idle, Calls

LEMMA TimeoutStep ==
  ASSUME TypeOK, NEW n \in Nodes, Timeout(n)
  PROVE  /\ NodesTyped(node') /\ CallsTyped(call') /\ elected' = elected
         /\ UNCHANGED overclaimed
         /\ \A q \in Nodes : Advances(q) /\ node'[q].log = node[q].log
         /\ \A q \in Nodes \ {n} :
              node'[q] = node[q] /\ call'[q].term = call[q].term
         /\ node'[n].role = "candidate" /\ node'[n].term = node[n].term + 1
         /\ node[n].term < MaxTerm /\ call'[n].term = node[n].term + 1
         /\ node'[n].votedFor = n /\ node'[n].votes = {n}
         /\ SameData(node[n], node'[n])
<1> DEFINE s == node[n]
           u == [s EXCEPT !.role = "candidate", !.term = s.term + 1, !.votedFor = n,
                          !.votes = {n}]
           c == [Idle EXCEPT !.voters = Peers(n), !.term = s.term + 1]
<1>1. NodesTyped(node) /\ CallsTyped(call)
  BY TypeParts
<1>2. s \in NodeStates /\ s.term \in Nat
  BY <1>1 DEF NodesTyped, NodeStates
<1>3. /\ u \in NodeStates /\ u.role = "candidate" /\ u.term = s.term + 1
      /\ u.votedFor = n /\ u.votes = {n} /\ u.log = s.log
      /\ SameData(s, u)
  <2>1. s.term + 1 \in Nat /\ {n} \in SUBSET Nodes /\ n \in Nodes \union {NoNode}
    BY <1>2
  <2>2. u \in NodeStates
    BY <1>2, <2>1 DEF NodeStates
  <2> QED
    BY <1>2, <2>2 DEF NodeStates, SameData
<1>4. /\ c \in Calls /\ c.voters \union c.peers \subseteq Peers(n)
      /\ c.term = s.term + 1
  <2>1. s.term + 1 \in Nat /\ Peers(n) \in SUBSET Nodes
    BY <1>2 DEF Peers
  <2> QED
    BY <2>1, IdleTyped DEF Calls
<1>5. /\ node' = [node EXCEPT ![n] = Persist(u)] /\ call' = [call EXCEPT ![n] = c]
      /\ elected' = elected /\ UNCHANGED overclaimed /\ node[n].term < MaxTerm
  <2>1. node' = [node EXCEPT ![n] = Persist(u)]
    BY DEF Timeout
  <2>2. call' = [call EXCEPT ![n] = c]
    BY DEF Timeout
  <2> QED
    BY <2>1, <2>2 DEF Timeout
<1> HIDE DEF u, c
<1>6. /\ Persist(u) \in NodeStates /\ Saved(Persist(u)) /\ Persist(u).role = "candidate"
      /\ Persist(u).term = s.term + 1 /\ Persist(u).votedFor = n
      /\ Persist(u).votes = {n} /\ Persist(u).log = s.log
      /\ SameData(s, Persist(u))
  BY <1>3, PersistFacts DEF SameData
<1>7. NodesTyped(node') /\ CallsTyped(call')
  BY <1>1, <1>4, <1>5, <1>6, SetNode, SetCall
<1>8. /\ node'[n] = Persist(u) /\ call'[n] = c
      /\ \A q \in Nodes \ {n} : node'[q] = node[q] /\ call'[q] = call[q]
  BY <1>1, <1>5 DEF NodesTyped, CallsTyped
<1>9. \A q \in Nodes : node[q].term \in Nat
  BY <1>1 DEF NodesTyped, NodeStates
<1>10. \A q \in Nodes : Advances(q) /\ node'[q].log = node[q].log
  <2> TAKE q \in Nodes
  <2>1. CASE q = n
    BY <1>2, <1>6, <1>8, <2>1 DEF Advances
  <2>2. CASE q # n
    BY <1>8, <1>9, <2>2 DEF Advances
  <2> QED
    BY <2>1, <2>2
<1> QED
  BY <1>4, <1>5, <1>6, <1>7, <1>8, <1>10

LEMMA ProposeStep ==
  ASSUME TypeOK, NEW n \in Nodes, NEW command \in Commands, Propose(n, command)
  PROVE  /\ NodesTyped(node') /\ CallsTyped(call') /\ elected' = elected
         /\ UNCHANGED overclaimed
         /\ \A q \in Nodes \ {n} : node'[q] = node[q]
         /\ \A q \in Nodes : call'[q].term = call[q].term
         /\ node[n].role = "leader" /\ node'[n].role = "leader"
         /\ node'[n].term = node[n].term /\ node'[n].votedFor = node[n].votedFor
         /\ node'[n].votes = node[n].votes
         /\ node'[n].log = Append(node[n].log, [term |-> node[n].term, command |-> command])
         /\ SameData(node[n], node'[n])
<1> DEFINE s == node[n]
           e == [term |-> s.term, command |-> command]
           log == Append(s.log, e)
           u == [s EXCEPT !.log = log]
           c == Broadcast(n)
<1>1. NodesTyped(node) /\ CallsTyped(call)
  BY TypeParts
<1>2. s \in NodeStates /\ s.term \in Nat /\ s.log \in Seq(Entries)
  BY <1>1 DEF NodesTyped, NodeStates
<1>3. e \in Entries
  BY <1>2 DEF Entries
<1>4. log \in Seq(Entries)
  <2> HIDE DEF e
  <2> QED
    BY <1>2, <1>3, AppendProperties
<1>5. /\ c \in Calls /\ c.voters \union c.peers \subseteq Peers(n)
      /\ c.term = call[n].term
  <2>1. call[n] \in Calls /\ call[n].voters \subseteq Peers(n)
    BY <1>1 DEF CallsTyped
  <2> QED
    BY <2>1 DEF Broadcast, Calls, Peers
<1>6. /\ node' = [node EXCEPT ![n] = Persist(u)] /\ call' = [call EXCEPT ![n] = c]
      /\ elected' = elected /\ UNCHANGED overclaimed /\ node[n].role = "leader"
  <2>1. node' = [node EXCEPT ![n] = Persist(u)]
    BY DEF Propose
  <2>2. call' = [call EXCEPT ![n] = c]
    BY DEF Propose
  <2> QED
    BY <2>1, <2>2 DEF Propose
<1> HIDE DEF c
<1>7. /\ u \in NodeStates /\ u.log = log /\ u.term = s.term /\ u.role = s.role
      /\ u.votedFor = s.votedFor /\ u.votes = s.votes /\ SameData(s, u)
  <2> HIDE DEF log
  <2> QED
    BY <1>2, <1>4 DEF NodeStates, SameData
<1> HIDE DEF u
<1>8. /\ Persist(u) \in NodeStates /\ Saved(Persist(u)) /\ Persist(u).role = s.role
      /\ Persist(u).term = s.term /\ Persist(u).votedFor = s.votedFor
      /\ Persist(u).votes = s.votes /\ Persist(u).log = log
      /\ SameData(s, Persist(u))
  BY <1>7, PersistFacts DEF SameData
<1>9. NodesTyped(node') /\ CallsTyped(call')
  BY <1>1, <1>5, <1>6, <1>8, SetNode, SetCall
<1>10. /\ node'[n] = Persist(u) /\ call'[n] = c
       /\ \A q \in Nodes \ {n} : node'[q] = node[q] /\ call'[q] = call[q]
  BY <1>1, <1>6 DEF NodesTyped, CallsTyped
<1> QED
  BY <1>5, <1>6, <1>8, <1>9, <1>10

\* What leaves every node as it was only moves a call on.
LEMMA CallOnly ==
  ASSUME TypeOK, UNCHANGED <<node, elected>>,
         \A q \in Nodes : call'[q].term = call[q].term \/ call'[q].term = 0
  PROVE  Quiet /\ \A q \in Nodes : node'[q].log = node[q].log
<1>1. \A q \in Nodes : node[q].term \in Nat
  BY DEF TypeOK, NodeStates
<1> QED
  BY <1>1 DEF Quiet, Advances, Keeps

LEMMA CallStep ==
  ASSUME TypeOK, NEW n \in Nodes,
         \/ Heartbeat(n) \/ FinishElection(n)
         \/ \E p \in Peers(n) :
              VoteLost(n, p) \/ ReplicateSkipped(n, p) \/ ReplicateRaises(n, p)
  PROVE  /\ UNCHANGED <<node, elected, overclaimed>> /\ CallsTyped(call')
         /\ \A q \in Nodes : call'[q].term = call[q].term \/ call'[q].term = 0
<1>1. CallsTyped(call) /\ call[n] \in Calls
      /\ call[n].voters \union call[n].peers \subseteq Peers(n)
  BY TypeParts DEF CallsTyped
<1>2. \A c \in Calls :
        /\ call' = [call EXCEPT ![n] = c]
        /\ c.voters \union c.peers \subseteq Peers(n)
        /\ c.term = call[n].term \/ c.term = 0
        => /\ CallsTyped(call')
           /\ \A q \in Nodes : call'[q].term = call[q].term \/ call'[q].term = 0
  BY <1>1, SetCall DEF CallsTyped
<1>3. CASE Heartbeat(n)
  <2>1. /\ Broadcast(n) \in Calls /\ Broadcast(n).term = call[n].term
        /\ Broadcast(n).voters \union Broadcast(n).peers \subseteq Peers(n)
    BY <1>1 DEF Broadcast, Calls, Peers
  <2> QED
    BY <1>2, <1>3, <2>1 DEF Heartbeat
<1>4. CASE FinishElection(n)
  BY <1>2, <1>4, IdleTyped DEF FinishElection
<1>5. ASSUME NEW p \in Peers(n), VoteLost(n, p)
      PROVE  /\ UNCHANGED <<node, elected, overclaimed>> /\ CallsTyped(call')
             /\ \A q \in Nodes : call'[q].term = call[q].term \/ call'[q].term = 0
  <2> DEFINE c == [call[n] EXCEPT !.voters = call[n].voters \ {p}]
  <2>1. /\ c \in Calls /\ c.voters \union c.peers \subseteq Peers(n)
        /\ c.term = call[n].term
    BY <1>1 DEF Calls
  <2>2. call' = [call EXCEPT ![n] = c]
    BY <1>1, <1>5 DEF VoteLost, CallsTyped
  <2> HIDE DEF c
  <2> QED
    BY <1>2, <1>5, <2>1, <2>2 DEF VoteLost
<1>6. ASSUME NEW p \in Peers(n), ReplicateSkipped(n, p)
      PROVE  /\ UNCHANGED <<node, elected, overclaimed>> /\ CallsTyped(call')
             /\ \A q \in Nodes : call'[q].term = call[q].term \/ call'[q].term = 0
  <2> DEFINE c == [call[n] EXCEPT !.peers = call[n].peers \ {p}]
  <2>1. /\ c \in Calls /\ c.voters \union c.peers \subseteq Peers(n)
        /\ c.term = call[n].term
    BY <1>1 DEF Calls
  <2>2. call' = [call EXCEPT ![n] = c]
    BY <1>1, <1>6 DEF ReplicateSkipped, CallsTyped
  <2> HIDE DEF c
  <2> QED
    BY <1>2, <1>6, <2>1, <2>2 DEF ReplicateSkipped
<1>7. ASSUME NEW p \in Peers(n), ReplicateRaises(n, p)
      PROVE  /\ UNCHANGED <<node, elected, overclaimed>> /\ CallsTyped(call')
             /\ \A q \in Nodes : call'[q].term = call[q].term \/ call'[q].term = 0
  BY <1>2, <1>7, IdleTyped DEF ReplicateRaises
<1> QED
  BY <1>3, <1>4, <1>5, <1>6, <1>7

\* A node that changes by itself, keeping its term, vote, role, votes and log.
LEMMA OneNode ==
  ASSUME TypeOK, NEW n \in Nodes, NEW s \in NodeStates, Saved(s),
         s.term = node[n].term, s.votedFor = node[n].votedFor, s.log = node[n].log,
         \/ s.role = "follower"
         \/ s.role = node[n].role /\ s.votes = node[n].votes,
         node' = [node EXCEPT ![n] = s], elected' = elected,
         \A q \in Nodes : call'[q].term = call[q].term \/ call'[q].term = 0
  PROVE  NodesTyped(node') /\ Quiet /\ \A q \in Nodes : node'[q].log = node[q].log
<1>1. NodesTyped(node)
  BY TypeParts
<1>2. NodesTyped(node')
  BY <1>1, SetNode
<1>3. \A q \in Nodes : node[q].term \in Nat
  BY <1>1 DEF NodesTyped, NodeStates
<1>4. node'[n] = s /\ \A q \in Nodes \ {n} : node'[q] = node[q]
  BY <1>1 DEF NodesTyped
<1>5. \A q \in Nodes : /\ Advances(q) /\ Keeps(q) /\ node'[q].log = node[q].log
                       /\ node'[q].term = node[q].term
  <2> TAKE q \in Nodes
  <2>1. CASE q = n
    BY <1>3, <1>4, <2>1 DEF Advances, Keeps
  <2>2. CASE q # n
    BY <1>3, <1>4, <2>2 DEF Advances, Keeps
  <2> QED
    BY <2>1, <2>2
<1> QED
  BY <1>2, <1>5 DEF Quiet

LEMMA AdvanceCommitStep ==
  ASSUME TypeOK, NEW n \in Nodes, AdvanceCommit(n)
  PROVE  /\ NodesTyped(node') /\ CallsTyped(call') /\ UNCHANGED overclaimed
         /\ Quiet /\ \A q \in Nodes : node'[q].log = node[q].log
         /\ \A q \in Nodes \ {n} : node'[q] = node[q]
         /\ node'[n].match = node[n].match /\ node'[n].applied = node[n].applied
         /\ \/ node'[n].commit = node[n].commit
            \/ /\ node[n].role = "leader" /\ node'[n].role = "leader"
               /\ node'[n].commit \in DOMAIN node[n].log /\ HasQuorum(n, node'[n].commit)
               /\ node'[n].commit > node[n].commit
<1> DEFINE s == node[n]
           ready == IF s.role # "leader" THEN {}
                    ELSE {i \in s.commit + 1 .. Len(s.log) : HasQuorum(n, i)}
           commit == IF ready = {} THEN s.commit ELSE Max(ready)
           u == [s EXCEPT !.commit = commit]
           c == [call[n] EXCEPT !.pass = "second", !.peers = Peers(n)]
<1>1. NodesTyped(node) /\ CallsTyped(call)
  BY TypeParts
<1>2. s \in NodeStates /\ Saved(s) /\ s.commit \in Nat /\ s.log \in Seq(Entries)
  BY <1>1 DEF NodesTyped, NodeStates
<1>3. /\ commit \in Nat
      /\ \/ commit = s.commit
         \/ /\ s.role = "leader" /\ commit \in DOMAIN s.log /\ HasQuorum(n, commit)
            /\ commit > s.commit
  <2>1. ready \in SUBSET (1 .. Len(s.log)) /\ Len(s.log) \in Nat
    BY <1>2
  <2>2. CASE ready = {}
    BY <1>2, <2>2
  <2>3. CASE ready # {}
    <3>1. \A i \in ready : /\ s.role = "leader" /\ i \in DOMAIN s.log /\ HasQuorum(n, i)
                            /\ i > s.commit
      BY <1>2, <2>1
    <3> HIDE DEF ready
    <3>2. Max(ready) \in ready
      BY <2>1, <2>3, MaxIs
    <3>3. commit \in ready
      BY <2>3, <3>2
    <3>4. ready \subseteq Nat
      BY <2>1
    <3> HIDE DEF commit
    <3> QED
      BY <3>1, <3>3, <3>4
  <2> QED
    BY <2>2, <2>3
<1>4. node' = [node EXCEPT ![n] = u]
  BY DEF AdvanceCommit
<1>5. call' = [call EXCEPT ![n] = c]
  BY <1>1 DEF AdvanceCommit, CallsTyped
<1>6. elected' = elected /\ overclaimed' = overclaimed
  BY DEF AdvanceCommit
<1>7. CallsTyped(call') /\ \A q \in Nodes : call'[q].term = call[q].term
  <2>1. call[n] \in Calls /\ call[n].voters \subseteq Peers(n) /\ Peers(n) \subseteq Nodes
    BY <1>1 DEF CallsTyped, Peers
  <2>2. /\ c \in Calls /\ c.voters \union c.peers \subseteq Peers(n)
        /\ c.term = call[n].term
    BY <2>1 DEF Calls
  <2> HIDE DEF c
  <2>3. CallsTyped(call')
    BY <1>1, <1>5, <2>2, SetCall
  <2> QED
    BY <1>1, <1>5, <2>2, <2>3 DEF CallsTyped
<1> HIDE DEF commit
<1>8. /\ u \in NodeStates /\ Saved(u) /\ u.term = s.term /\ u.votedFor = s.votedFor
      /\ u.log = s.log /\ u.role = s.role /\ u.votes = s.votes
      /\ u.match = s.match /\ u.applied = s.applied /\ u.commit = commit
  BY <1>2, <1>3 DEF NodeStates, Saved
<1> HIDE DEF u
<1>9. node'[n] = u /\ \A q \in Nodes \ {n} : node'[q] = node[q]
  BY <1>1, <1>4 DEF NodesTyped
<1>10. NodesTyped(node') /\ Quiet /\ \A q \in Nodes : node'[q].log = node[q].log
  BY <1>4, <1>6, <1>7, <1>8, OneNode
<1> QED
  BY <1>3, <1>6, <1>7, <1>8, <1>9, <1>10

LEMMA FinishBroadcastStep ==
  ASSUME TypeOK, NEW n \in Nodes, FinishBroadcast(n)
  PROVE  /\ NodesTyped(node') /\ CallsTyped(call') /\ UNCHANGED overclaimed
         /\ Quiet /\ \A q \in Nodes : node'[q].log = node[q].log
         /\ node'[n] = Apply(node[n]) /\ \A q \in Nodes \ {n} : node'[q] = node[q]
<1> DEFINE c == IF call[n].voters = {} THEN Idle ELSE [call[n] EXCEPT !.pass = "none"]
<1>1. NodesTyped(node) /\ CallsTyped(call)
  BY TypeParts
<1>2. node[n] \in NodeStates /\ Saved(node[n])
  BY <1>1 DEF NodesTyped
<1>3. node' = [node EXCEPT ![n] = Apply(node[n])]
  BY DEF FinishBroadcast
<1>4. call' = [call EXCEPT ![n] = c]
  BY DEF FinishBroadcast
<1>5. elected' = elected /\ overclaimed' = overclaimed
  BY DEF FinishBroadcast
<1>6. /\ CallsTyped(call')
      /\ \A q \in Nodes : call'[q].term = call[q].term \/ call'[q].term = 0
  <2>1. call[n] \in Calls /\ call[n].voters \union call[n].peers \subseteq Peers(n)
    BY <1>1 DEF CallsTyped
  <2>2. /\ c \in Calls /\ c.voters \union c.peers \subseteq Peers(n)
        /\ c.term = call[n].term \/ c.term = 0
    <3>1. CASE call[n].voters = {}
      BY <3>1, IdleTyped
    <3>2. CASE call[n].voters # {}
      BY <2>1, <3>2 DEF Calls
    <3> QED
      BY <3>1, <3>2
  <2> HIDE DEF c
  <2>3. CallsTyped(call')
    BY <1>1, <1>4, <2>2, SetCall
  <2> QED
    BY <1>1, <1>4, <2>2, <2>3 DEF CallsTyped
<1>7. /\ Apply(node[n]) \in NodeStates /\ Saved(Apply(node[n]))
      /\ Apply(node[n]).term = node[n].term /\ Apply(node[n]).votedFor = node[n].votedFor
      /\ Apply(node[n]).log = node[n].log /\ Apply(node[n]).role = node[n].role
      /\ Apply(node[n]).votes = node[n].votes
  BY <1>2, ApplyFacts DEF Saved
<1>8. node'[n] = Apply(node[n]) /\ \A q \in Nodes \ {n} : node'[q] = node[q]
  BY <1>1, <1>3 DEF NodesTyped
<1>9. NodesTyped(node') /\ Quiet /\ \A q \in Nodes : node'[q].log = node[q].log
  BY <1>3, <1>5, <1>6, <1>7, OneNode
<1> QED
  BY <1>5, <1>6, <1>8, <1>9

\* A restarted node is what it promised before.
LEMMA RestartStep ==
  ASSUME TypeOK, NEW n \in Nodes, Restart(n)
  PROVE  /\ NodesTyped(node') /\ CallsTyped(call') /\ UNCHANGED overclaimed
         /\ Quiet /\ \A q \in Nodes : node'[q].log = node[q].log
         /\ \A q \in Nodes \ {n} : node'[q] = node[q]
         /\ node'[n].role = "follower" /\ node'[n].commit = 0 /\ node'[n].applied = << >>
<1> DEFINE s == node[n]
           u == Loaded(s.disk)
<1>1. NodesTyped(node) /\ CallsTyped(call)
  BY TypeParts
<1>2. s \in NodeStates /\ Saved(s)
  BY <1>1 DEF NodesTyped
<1>3. /\ s.disk \in Disks /\ s.disk.term = s.term /\ s.disk.votedFor = s.votedFor
      /\ s.disk.log = s.log /\ s.term \in Nat /\ s.votedFor \in Nodes \union {NoNode}
      /\ s.log \in Seq(Entries)
  BY <1>2 DEF NodeStates, Saved
<1>4. u \in NodeStates
  <2>1. << >> \in Seq(Entries) /\ {} \in SUBSET Nodes
    OBVIOUS
  <2>2. /\ [p \in Nodes |-> 1] \in [Nodes -> Nat \ {0}]
        /\ [p \in Nodes |-> 0] \in [Nodes -> Nat]
    OBVIOUS
  <2> QED
    BY <1>3, <2>1, <2>2 DEF Loaded, NodeStates
<1>5. /\ u.term = s.term /\ u.votedFor = s.votedFor /\ u.log = s.log
      /\ u.disk = s.disk /\ u.role = "follower" /\ u.commit = 0 /\ u.applied = << >>
  BY <1>3 DEF Loaded
<1>6. Saved(u)
  BY <1>2, <1>5 DEF Saved
<1>7. node' = [node EXCEPT ![n] = u]
  BY DEF Restart
<1>8. call' = [call EXCEPT ![n] = Idle] /\ elected' = elected /\ overclaimed' = overclaimed
  BY DEF Restart
<1>9. /\ CallsTyped(call')
      /\ \A q \in Nodes : call'[q].term = call[q].term \/ call'[q].term = 0
  BY <1>1, <1>8, IdleTyped, SetCall DEF CallsTyped
<1> HIDE DEF u
<1>10. node'[n] = u /\ \A q \in Nodes \ {n} : node'[q] = node[q]
  BY <1>1, <1>7 DEF NodesTyped
<1>11. NodesTyped(node') /\ Quiet /\ \A q \in Nodes : node'[q].log = node[q].log
  BY <1>4, <1>5, <1>6, <1>7, <1>8, <1>9, OneNode
<1> QED
  BY <1>5, <1>8, <1>9, <1>10, <1>11

\* A remote call: the caller n and the peer p change.
LEMMA TwoNodes ==
  ASSUME NodesTyped(node), NEW n \in Nodes, NEW p \in Nodes \ {n},
         NEW s \in NodeStates, Saved(s), NEW u \in NodeStates, Saved(u),
         node' = [node EXCEPT ![p] = s, ![n] = u]
  PROVE  /\ NodesTyped(node') /\ node'[p] = s /\ node'[n] = u
         /\ \A q \in Nodes \ {n, p} : node'[q] = node[q]
BY DEF NodesTyped

SameApplied(q) == node'[q].commit = node[q].commit /\ node'[q].applied = node[q].applied

\* p accepts what n sends it, in n's term, and n notes the length of p's log.
Takes(n, p) ==
  /\ Matches(node[p], Request(n, p)) /\ Prev(n, p) <= Len(node[n].log)
  /\ node[n].role = "leader" /\ node[p].term <= node[n].term
  /\ node'[p].log = Merge(node[p].log, Prev(n, p),
                          SubSeq(node[n].log, Prev(n, p) + 1, Len(node[n].log)))
  /\ node'[p].term = node[n].term /\ node'[p].role = "follower"
  /\ node'[n].match = [node[n].match EXCEPT ![p] = Len(node'[p].log)]
  /\ SameApplied(p) \/ Catches(node[p], node'[p], node[n].commit)
  /\ overclaimed' = (overclaimed \/ Len(node'[p].log) > Len(node[n].log))

LEMMA ReplicateStep ==
  ASSUME TypeOK, NEW n \in Nodes, NEW p \in Peers(n), Replicate(n, p)
  PROVE  /\ NodesTyped(node') /\ CallsTyped(call') /\ overclaimed' \in BOOLEAN /\ Quiet
         /\ \A q \in Nodes \ {p} : node'[q].log = node[q].log
         /\ \A q \in Nodes \ {p} : SameApplied(q)
         /\ \A q \in Nodes \ {n} : node'[q].match = node[q].match
         /\ \/ Takes(n, p)
            \/ /\ node'[p].log = node[p].log /\ SameApplied(p)
               /\ node'[n].match = node[n].match
<1> DEFINE s == node[n]
           request == Request(n, p)
           r == HandleAppend(node[p], request)
           back == IF s.next[p] > 1 THEN s.next[p] - 1 ELSE 1
           again == r.term <= s.term /\ ~r.success /\ back # s.next[p]
           u == IF r.term > s.term THEN StepDown(s, r.term)
                ELSE IF r.success
                  THEN [s EXCEPT !.match[p] = r.match, !.next[p] = r.match + 1]
                ELSE [s EXCEPT !.next[p] = back]
           c == [call[n] EXCEPT !.peers = call[n].peers \ {p}]
<1>1. NodesTyped(node) /\ CallsTyped(call) /\ p \in Nodes /\ p # n
  BY TypeParts DEF Peers
<1>2. s \in NodeStates /\ Saved(s) /\ node[p] \in NodeStates /\ Saved(node[p])
  BY <1>1 DEF NodesTyped
<1>3. /\ s.term \in Nat /\ s.log \in Seq(Entries) /\ s.next \in [Nodes -> Nat \ {0}]
      /\ s.match \in [Nodes -> Nat] /\ s.commit \in Nat /\ s.next[p] \in Nat \ {0}
      /\ Len(s.log) \in Nat /\ node[p].term \in Nat
  <2>1. /\ s.term \in Nat /\ s.log \in Seq(Entries) /\ s.next \in [Nodes -> Nat \ {0}]
        /\ s.match \in [Nodes -> Nat] /\ s.commit \in Nat
    BY <1>2 DEF NodeStates
  <2>2. node[p].term \in Nat
    BY <1>2 DEF NodeStates
  <2>3. s.next[p] \in Nat \ {0}
    BY <1>1, <2>1
  <2>4. Len(s.log) \in Nat
    BY <2>1
  <2> QED
    BY <2>1, <2>2, <2>3, <2>4
<1>4. /\ Prev(n, p) \in Nat /\ Prev(n, p) + 1 = s.next[p]
      /\ Prev(n, p) <= Len(s.log)
  <2>0. s.next[p] \in Nat \ {0}
    BY <1>3
  <2> HIDE DEF s
  <2>1. s.next[p] - 1 \in Nat /\ (s.next[p] - 1) + 1 = s.next[p]
    BY <2>0
  <2> QED
    BY <2>1 DEF s, Prev, Replicate
<1>5. /\ request.term = s.term /\ request.prev = Prev(n, p)
      /\ request.commit = s.commit
      /\ request.entries = SubSeq(s.log, Prev(n, p) + 1, Len(s.log))
  BY <1>4 DEF Request
<1>6. request.entries \in Seq(Entries)
  <2>1. Prev(n, p) + 1 \in Nat \ {0}
    BY <1>4
  <2>2. s.log \in Seq(Entries) /\ Len(s.log) \in Nat /\ Len(s.log) <= Len(s.log)
    BY <1>3
  <2> HIDE DEF s, request
  <2>3. SubSeq(s.log, Prev(n, p) + 1, Len(s.log)) \in Seq(Entries)
    BY <2>1, <2>2, SubSeqIs
  <2> QED
    BY <1>5, <2>3
<1>7. /\ node' = [node EXCEPT ![p] = r.node, ![n] = u]
      /\ call' = IF again THEN call ELSE [call EXCEPT ![n] = c]
      /\ overclaimed' = (overclaimed \/ (r.success /\ r.match > Len(s.log)))
      /\ elected' = elected
  <2>1. /\ overclaimed' = (overclaimed \/ (r.success /\ r.match > Len(s.log)))
        /\ elected' = elected
    BY DEF Replicate
  <2>2. call' = IF again THEN call ELSE [call EXCEPT ![n] = c]
    BY <1>1 DEF Replicate, CallsTyped
  <2>3. node' = [node EXCEPT ![p] = r.node, ![n] = u]
    BY <1>1 DEF Replicate, NodesTyped
  <2> QED
    BY <2>1, <2>2, <2>3
<1> HIDE DEF request
<1>8. /\ r.node \in NodeStates /\ Saved(r.node) /\ r.match \in Nat
      /\ r.term = r.node.term
      /\ r.node.term = (IF s.term > node[p].term THEN s.term ELSE node[p].term)
      /\ r.node.term = node[p].term => r.node.votedFor = node[p].votedFor
      /\ r.node = node[p] \/ r.node.role = "follower"
      /\ r.success \/ r.node.log = node[p].log
      /\ r.success => /\ r.node.role = "follower"
                      /\ Matches(node[p], request) /\ ~(s.term < node[p].term)
                      /\ r.node.log = Merge(node[p].log, request.prev, request.entries)
                      /\ r.match = Len(r.node.log)
      /\ r.node.match = node[p].match
      /\ \/ r.node.commit = node[p].commit /\ r.node.applied = node[p].applied
         \/ r.success /\ Catches(node[p], r.node, s.commit)
  <2>1. request.term \in Nat /\ request.prev \in Nat /\ request.commit \in Nat
    BY <1>3, <1>4, <1>5
  <2>2. /\ node[p] \in NodeStates /\ Saved(node[p])
        /\ request.term = s.term /\ request.commit = s.commit
    BY <1>2, <1>5
  <2> HIDE DEF s
  <2> QED
    BY <1>6, <2>1, <2>2, AppendFacts
<1> HIDE DEF r
<1>9. r.term \in Nat
  BY <1>3, <1>8
<1>10. /\ u \in NodeStates /\ Saved(u) /\ u.log = s.log
       /\ u.commit = s.commit /\ u.applied = s.applied
       /\ u.match = IF ~(r.term > s.term) /\ r.success
                     THEN [s.match EXCEPT ![p] = r.match] ELSE s.match
       /\ \/ u.role = "follower" /\ r.term > s.term /\ u.term = r.term
          \/ /\ u.role = s.role /\ u.term = s.term /\ u.votes = s.votes
             /\ u.votedFor = s.votedFor
  <2>1. CASE r.term > s.term
    BY <1>2, <1>9, <2>1, StepDownFacts DEF SameData
  <2>2. CASE ~(r.term > s.term) /\ r.success
    <3> DEFINE m == [s.match EXCEPT ![p] = r.match]
               x == [s.next EXCEPT ![p] = r.match + 1]
    <3>1. m \in [Nodes -> Nat] /\ x \in [Nodes -> Nat \ {0}]
      <4>1. r.match \in Nat /\ r.match + 1 \in Nat \ {0}
        BY <1>8
      <4>2. s.match \in [Nodes -> Nat] /\ s.next \in [Nodes -> Nat \ {0}]
        BY <1>3
      <4> HIDE DEF s
      <4> QED
        BY <4>1, <4>2
    <3>2. u = [s EXCEPT !.match = m, !.next = x]
      BY <1>2, <2>2 DEF NodeStates
    <3> HIDE DEF m, x, u
    <3>3. /\ u \in NodeStates /\ Saved(u) /\ u.log = s.log
          /\ u.commit = s.commit /\ u.applied = s.applied /\ u.match = m
          /\ u.role = s.role /\ u.term = s.term /\ u.votes = s.votes
          /\ u.votedFor = s.votedFor
      BY <1>2, <3>1, <3>2 DEF NodeStates, Saved
    <3> QED
      BY <2>2, <3>3 DEF m
  <2>3. CASE ~(r.term > s.term) /\ ~r.success
    <3> DEFINE x == [s.next EXCEPT ![p] = back]
    <3>1. x \in [Nodes -> Nat \ {0}]
      <4>1. s.next \in [Nodes -> Nat \ {0}] /\ s.next[p] \in Nat \ {0}
        BY <1>3
      <4>2. back \in Nat \ {0}
        BY <4>1
      <4> HIDE DEF back, s
      <4> QED
        BY <4>1, <4>2
    <3>2. u = [s EXCEPT !.next = x]
      BY <1>2, <2>3 DEF NodeStates
    <3> HIDE DEF x, u
    <3>3. /\ u \in NodeStates /\ Saved(u) /\ u.log = s.log
          /\ u.commit = s.commit /\ u.applied = s.applied /\ u.match = s.match
          /\ u.role = s.role /\ u.term = s.term /\ u.votes = s.votes
          /\ u.votedFor = s.votedFor
      BY <1>2, <3>1, <3>2 DEF NodeStates, Saved
    <3> QED
      BY <2>3, <3>3
  <2> QED
    BY <2>1, <2>2, <2>3
<1> HIDE DEF u
<1>11. /\ NodesTyped(node') /\ node'[p] = r.node /\ node'[n] = u
       /\ \A q \in Nodes \ {n, p} : node'[q] = node[q]
  BY <1>1, <1>7, <1>8, <1>10, TwoNodes
<1>12. CallsTyped(call') /\ \A q \in Nodes : call'[q].term = call[q].term
  <2>1. call[n] \in Calls /\ call[n].voters \union call[n].peers \subseteq Peers(n)
    BY <1>1 DEF CallsTyped
  <2>2. /\ c \in Calls /\ c.voters \union c.peers \subseteq Peers(n)
        /\ c.term = call[n].term
    BY <2>1 DEF Calls
  <2> HIDE DEF c, again
  <2>3. CallsTyped(call')
    BY <1>1, <1>7, <2>2, SetCall
  <2> QED
    BY <1>1, <1>7, <2>2, <2>3 DEF CallsTyped
<1>13. overclaimed' \in BOOLEAN
  BY <1>7
<1>14. \A q \in Nodes : node[q].term \in Nat
  BY <1>1 DEF NodesTyped, NodeStates
<1>15. \A q \in Nodes : /\ Advances(q) /\ Keeps(q)
                        /\ \E m \in Nodes : node'[q].term \in {node[m].term, call[m].term}
  <2> TAKE q \in Nodes
  <2>1. CASE q = n
    <3>1. Advances(n)
      BY <1>3, <1>9, <1>10, <1>11 DEF Advances
    <3>2. Keeps(n)
      BY <1>10, <1>11 DEF Keeps
    <3>3. node'[n].term = s.term \/ node'[n].term = node[p].term
      BY <1>3, <1>8, <1>10, <1>11
    <3> QED
      BY <1>1, <2>1, <3>1, <3>2, <3>3
  <2>2. CASE q = p
    <3>1. Advances(p)
      BY <1>3, <1>8, <1>11 DEF Advances
    <3>2. Keeps(p)
      BY <1>8, <1>11 DEF Keeps
    <3>3. node'[p].term = s.term \/ node'[p].term = node[p].term
      BY <1>8, <1>11
    <3> QED
      BY <1>1, <2>2, <3>1, <3>2, <3>3
  <2>3. CASE q \notin {n, p}
    BY <1>11, <1>14, <2>3 DEF Advances, Keeps
  <2> QED
    BY <2>1, <2>2, <2>3
<1>16. Quiet
  BY <1>7, <1>12, <1>15 DEF Quiet
<1>17. \A q \in Nodes \ {p} : node'[q].log = node[q].log /\ SameApplied(q)
  BY <1>10, <1>11 DEF SameApplied
<1>18. \A q \in Nodes \ {n} : node'[q].match = node[q].match
  BY <1>8, <1>11
<1>19. CASE r.success
  <2>1. ~(s.term < node[p].term)
    BY <1>8, <1>19
  <2>2. node[p].term <= s.term /\ r.node.term = s.term /\ ~(r.term > s.term)
    BY <1>3, <1>8, <2>1
  <2>3. r.node.role = "follower"
    BY <1>8, <1>19
  <2>4. node[n].role = "leader" /\ Prev(n, p) <= Len(s.log) /\ node[p].term <= s.term
    BY <2>2 DEF Replicate, Sends
  <2>5. node'[n].match = [s.match EXCEPT ![p] = Len(node'[p].log)]
    BY <1>8, <1>10, <1>11, <1>19, <2>2
  <2>6. overclaimed' = (overclaimed \/ Len(node'[p].log) > Len(s.log))
    BY <1>7, <1>8, <1>11, <1>19
  <2>7. SameApplied(p) \/ Catches(node[p], node'[p], s.commit)
    BY <1>8, <1>11 DEF SameApplied
  <2>8. /\ Matches(node[p], request) /\ node'[p].term = s.term
        /\ node'[p].role = "follower"
        /\ node'[p].log = Merge(node[p].log, Prev(n, p),
                                SubSeq(s.log, Prev(n, p) + 1, Len(s.log)))
    BY <1>5, <1>8, <1>11, <1>19, <2>2, <2>3
  <2>9. Takes(n, p)
    BY <2>4, <2>5, <2>6, <2>7, <2>8 DEF Takes, request
  <2> QED
    BY <1>11, <1>12, <1>13, <1>16, <1>17, <1>18, <2>9
<1>20. CASE ~r.success
  <2>1. node'[p].log = node[p].log /\ SameApplied(p) /\ node'[n].match = s.match
    BY <1>8, <1>10, <1>11, <1>20 DEF SameApplied
  <2> QED
    BY <1>11, <1>12, <1>13, <1>16, <1>17, <1>18, <2>1
<1> QED
  BY <1>19, <1>20

\* Granted: p is bound to n in n's term, and was bound to no other one.
Granted(n, p) ==
  /\ node'[p].term = node[n].term /\ node'[p].votedFor = n
  /\ node[p].term = node[n].term => node[p].votedFor \in {NoNode, n}
  /\ UpToDate(node[p], [lastTerm |-> LastTerm(node[n]), lastIndex |-> Len(node[n].log)])

\* A vote that counts for n: its own state but the votes, and perhaps the role.
Counts(n, p, role) ==
  /\ Granted(n, p) /\ node[n].role = "candidate" /\ node'[n].role = role
  /\ node'[n].term = node[n].term /\ node'[n].votes = node[n].votes \union {p}

LEMMA RequestVoteStep ==
  ASSUME TypeOK, NEW n \in Nodes, NEW p \in Peers(n), RequestVote(n, p)
  PROVE  /\ NodesTyped(node') /\ CallsTyped(call') /\ UNCHANGED overclaimed
         /\ elected' \in [1 .. MaxTerm -> SUBSET Nodes]
         /\ \A q \in Nodes : /\ node'[q].log = node[q].log /\ Advances(q)
                             /\ call'[q].term = call[q].term
                             /\ \E m \in Nodes : node'[q].term \in {node[m].term, call[m].term}
                             /\ node'[q].commit = node[q].commit
                             /\ node'[q].applied = node[q].applied
         /\ \A q \in Nodes \ {n} : Keeps(q) /\ node'[q].match = node[q].match
         /\ \/ Keeps(n) /\ elected' = elected /\ node'[n].match = node[n].match
            \/ /\ Counts(n, p, "candidate") /\ elected' = elected
               /\ node'[n].match = node[n].match
            \/ /\ Counts(n, p, "leader") /\ Cardinality(node'[n].votes) >= Majority
               /\ elected' = [elected EXCEPT ![node[n].term] = @ \union {n}]
               /\ node'[n].match = [y \in Nodes |-> 0]
<1> DEFINE s == node[n]
           request == [term |-> call[n].term, from |-> n,
                       lastTerm |-> LastTerm(s), lastIndex |-> Len(s.log)]
           r == HandleVote(node[p], request)
           votes == s.votes \union {p}
           counts == s.role = "candidate" /\ r.term = s.term /\ r.granted
           wins == counts /\ Cardinality(votes) >= Majority
           w == [s EXCEPT !.votes = votes]
           u == IF r.term > s.term THEN StepDown(s, r.term)
                ELSE IF wins THEN BecomeLeader(w) ELSE IF counts THEN w ELSE s
           rest == [call[n] EXCEPT !.voters = call[n].voters \ {p}]
           c == IF wins THEN [rest EXCEPT !.pass = "first", !.peers = Peers(n)] ELSE rest
<1>1. NodesTyped(node) /\ CallsTyped(call) /\ p \in Nodes /\ p # n
  BY TypeParts DEF Peers
<1>2. s \in NodeStates /\ Saved(s) /\ node[p] \in NodeStates /\ Saved(node[p])
  BY <1>1 DEF NodesTyped
<1>3. /\ s.term \in Nat /\ s.log \in Seq(Entries) /\ s.votes \in SUBSET Nodes
      /\ Len(s.log) \in Nat /\ node[p].term \in Nat /\ call[n].term \in Nat
  <2>1. s.term \in Nat /\ s.log \in Seq(Entries) /\ s.votes \in SUBSET Nodes
    BY <1>2 DEF NodeStates
  <2>2. node[p].term \in Nat
    BY <1>2 DEF NodeStates
  <2>3. call[n].term \in Nat
    BY <1>1 DEF CallsTyped, Calls
  <2> QED
    BY <2>1, <2>2, <2>3
<1>4. /\ node' = [node EXCEPT ![p] = r.node, ![n] = u]
      /\ call' = [call EXCEPT ![n] = c]
      /\ elected' = IF wins THEN [elected EXCEPT ![s.term] = @ \union {n}] ELSE elected
      /\ overclaimed' = overclaimed
  <2>1. /\ elected' = IF wins THEN [elected EXCEPT ![s.term] = @ \union {n}] ELSE elected
        /\ overclaimed' = overclaimed
    BY DEF RequestVote
  <2>2. call' = [call EXCEPT ![n] = c]
    BY DEF RequestVote
  <2>3. node' = [node EXCEPT ![p] = r.node, ![n] = u]
    BY <1>1 DEF RequestVote, NodesTyped
  <2> QED
    BY <2>1, <2>2, <2>3
<1>5. /\ request.term = call[n].term /\ request.from = n
      /\ request.lastTerm = LastTerm(s) /\ request.lastIndex = Len(s.log)
  OBVIOUS
<1> HIDE DEF request
<1>6. /\ r.node \in NodeStates /\ Saved(r.node) /\ r.node.log = node[p].log
      /\ r.term = r.node.term
      /\ r.node.term = (IF call[n].term > node[p].term THEN call[n].term ELSE node[p].term)
      /\ r.node.term = node[p].term =>
           node[p].votedFor = NoNode \/ r.node.votedFor = node[p].votedFor
      /\ \/ r.node.role = "follower"
         \/ /\ r.node.role = node[p].role /\ r.node.term = node[p].term
            /\ r.node.votes = node[p].votes
      /\ r.granted => /\ r.node.votedFor = n
                      /\ node[p].term = r.term => node[p].votedFor \in {NoNode, n}
                      /\ UpToDate(node[p], request)
      /\ SameData(node[p], r.node)
  BY <1>2, <1>3, <1>5, VoteFacts
<1> HIDE DEF r
<1>7. r.term \in Nat
  BY <1>3, <1>6
<1>8. /\ w \in NodeStates /\ Saved(w) /\ w.log = s.log /\ w.role = s.role
      /\ w.term = s.term /\ w.votedFor = s.votedFor /\ w.votes = votes
      /\ SameData(s, w)
  <2>1. votes \in SUBSET Nodes
    BY <1>1, <1>3
  <2> HIDE DEF votes
  <2> QED
    BY <1>2, <2>1 DEF NodeStates, Saved, SameData
<1> HIDE DEF w
<1>9. /\ BecomeLeader(w) \in NodeStates /\ Saved(BecomeLeader(w))
      /\ BecomeLeader(w).log = s.log /\ BecomeLeader(w).role = "leader"
      /\ BecomeLeader(w).term = s.term /\ BecomeLeader(w).votedFor = s.votedFor
      /\ BecomeLeader(w).votes = votes /\ BecomeLeader(w).commit = s.commit
      /\ BecomeLeader(w).applied = s.applied
      /\ BecomeLeader(w).match = [y \in Nodes |-> 0]
  <2> DEFINE x == [y \in Nodes |-> Len(w.log) + 1]
             m == [y \in Nodes |-> 0]
  <2>1. x \in [Nodes -> Nat \ {0}] /\ m \in [Nodes -> Nat]
    BY <1>3, <1>8
  <2>2. BecomeLeader(w) = [w EXCEPT !.role = "leader", !.next = x, !.match = m]
    BY DEF BecomeLeader
  <2> HIDE DEF x, votes
  <2>3. BecomeLeader(w).match = m
    BY <1>8, <2>2 DEF NodeStates
  <2> HIDE DEF m, s
  <2>4. /\ BecomeLeader(w).role = "leader" /\ BecomeLeader(w).disk = w.disk
        /\ BecomeLeader(w).log = w.log /\ BecomeLeader(w).term = w.term
        /\ BecomeLeader(w).votedFor = w.votedFor /\ BecomeLeader(w).votes = w.votes
        /\ BecomeLeader(w).commit = w.commit /\ BecomeLeader(w).applied = w.applied
    BY <1>8, <2>2 DEF NodeStates
  <2>5. BecomeLeader(w) \in NodeStates
    BY <1>8, <2>1, <2>2 DEF NodeStates
  <2>6. Saved(BecomeLeader(w))
    BY <1>8, <2>4 DEF Saved
  <2> QED
    BY <1>8, <2>3, <2>4, <2>5, <2>6 DEF SameData, m
<1>10. /\ u \in NodeStates /\ Saved(u) /\ u.log = s.log
       /\ u.commit = s.commit /\ u.applied = s.applied
       /\ u.match = IF wins THEN [y \in Nodes |-> 0] ELSE s.match
       /\ \/ u.role = "follower" /\ r.term > s.term /\ u.term = r.term /\ ~wins
          \/ u = s /\ ~wins
          \/ /\ counts /\ u.votes = votes /\ u.term = s.term /\ u.votedFor = s.votedFor
             /\ u.role = IF wins THEN "leader" ELSE s.role
  <2> HIDE DEF votes
  <2>1. CASE r.term > s.term
    <3>1. r.term # s.term
      BY <1>3, <1>7, <2>1
    <3> QED
      BY <1>2, <1>7, <2>1, <3>1, StepDownFacts DEF SameData
  <2>2. CASE ~(r.term > s.term) /\ wins
    BY <1>9, <2>2
  <2>3. CASE ~(r.term > s.term) /\ ~wins /\ counts
    <3>1. u = w
      BY <2>3
    <3> HIDE DEF u
    <3> QED
      BY <1>8, <2>3, <3>1 DEF SameData
  <2>4. CASE ~(r.term > s.term) /\ ~wins /\ ~counts
    BY <1>2, <2>4
  <2> QED
    BY <2>1, <2>2, <2>3, <2>4
<1> HIDE DEF u
<1>11. /\ NodesTyped(node') /\ node'[p] = r.node /\ node'[n] = u
       /\ \A q \in Nodes \ {n, p} : node'[q] = node[q]
  BY <1>1, <1>4, <1>6, <1>10, TwoNodes
<1>12. CallsTyped(call') /\ \A q \in Nodes : call'[q].term = call[q].term
  <2>1. call[n] \in Calls /\ call[n].voters \union call[n].peers \subseteq Peers(n)
        /\ Peers(n) \subseteq Nodes
    BY <1>1 DEF CallsTyped, Peers
  <2>2. /\ rest \in Calls /\ rest.voters \union rest.peers \subseteq Peers(n)
        /\ rest.term = call[n].term
    BY <2>1 DEF Calls
  <2> HIDE DEF rest, wins
  <2>3. /\ c \in Calls /\ c.voters \union c.peers \subseteq Peers(n)
        /\ c.term = call[n].term
    BY <2>1, <2>2 DEF Calls
  <2> HIDE DEF c
  <2>4. CallsTyped(call')
    BY <1>1, <1>4, <2>3, SetCall
  <2> QED
    BY <1>1, <1>4, <2>3, <2>4 DEF CallsTyped
<1>13. elected' \in [1 .. MaxTerm -> SUBSET Nodes]
  <2>1. elected \in [1 .. MaxTerm -> SUBSET Nodes]
    BY TypeParts
  <2> HIDE DEF wins
  <2> QED
    BY <1>4, <2>1
<1>14. \A q \in Nodes : node[q].term \in Nat
  BY <1>1 DEF NodesTyped, NodeStates
<1>15. \A q \in Nodes : /\ node'[q].log = node[q].log /\ Advances(q)
                        /\ \E m \in Nodes : node'[q].term \in {node[m].term, call[m].term}
                        /\ node'[q].commit = node[q].commit
                        /\ node'[q].applied = node[q].applied
  <2> TAKE q \in Nodes
  <2> HIDE DEF wins, counts, votes
  <2>1. CASE q = n
    <3>1. Advances(n) /\ node'[n].log = s.log
      BY <1>3, <1>7, <1>10, <1>11 DEF Advances
    <3>2. node'[n].term \in {s.term, node[p].term, call[n].term}
      BY <1>3, <1>6, <1>10, <1>11
    <3> QED
      BY <1>1, <1>10, <1>11, <2>1, <3>1, <3>2
  <2>2. CASE q = p
    <3>1. Advances(p) /\ node'[p].log = node[p].log
      BY <1>3, <1>6, <1>11 DEF Advances
    <3>2. node'[p].term \in {node[p].term, call[n].term}
      BY <1>6, <1>11
    <3> QED
      BY <1>1, <1>6, <1>11, <2>2, <3>1, <3>2 DEF SameData
  <2>3. CASE q \notin {n, p}
    BY <1>11, <1>14, <2>3 DEF Advances
  <2> QED
    BY <2>1, <2>2, <2>3
<1>16. \A q \in Nodes \ {n} : Keeps(q) /\ node'[q].match = node[q].match
  <2> TAKE q \in Nodes \ {n}
  <2>1. CASE q = p
    BY <1>6, <1>11, <2>1 DEF Keeps, SameData
  <2>2. CASE q # p
    BY <1>11, <2>2 DEF Keeps
  <2> QED
    BY <2>1, <2>2
<1>17. \/ Keeps(n) /\ elected' = elected /\ node'[n].match = s.match
       \/ /\ Counts(n, p, "candidate") /\ elected' = elected
          /\ node'[n].match = s.match
       \/ /\ Counts(n, p, "leader") /\ Cardinality(node'[n].votes) >= Majority
          /\ elected' = [elected EXCEPT ![s.term] = @ \union {n}]
          /\ node'[n].match = [y \in Nodes |-> 0]
  <2>1. counts => Granted(n, p)
    <3>1. UpToDate(node[p], request) =>
            UpToDate(node[p], [lastTerm |-> LastTerm(s), lastIndex |-> Len(s.log)])
      BY <1>5 DEF UpToDate
    <3> QED
      BY <1>6, <1>11, <3>1 DEF Granted
  <2>2. CASE u.role = "follower" /\ ~wins
    BY <1>4, <1>10, <1>11, <2>2 DEF Keeps
  <2>3. CASE u = s /\ ~wins
    BY <1>4, <1>10, <1>11, <2>3 DEF Keeps
  <2>4. CASE /\ counts /\ u.votes = votes /\ u.term = s.term
             /\ u.role = IF wins THEN "leader" ELSE s.role
    <3>1. CASE wins
      BY <1>4, <1>10, <1>11, <2>1, <2>4, <3>1 DEF Counts
    <3>2. CASE ~wins
      BY <1>4, <1>10, <1>11, <2>1, <2>4, <3>2 DEF Counts
    <3> QED
      BY <3>1, <3>2
  <2> QED
    BY <1>10, <2>2, <2>3, <2>4
<1> QED
  BY <1>4, <1>11, <1>12, <1>13, <1>15, <1>16, <1>17

\* Every step, by what it does: an election starts, a vote is asked for, an entry
\* is proposed, or nothing but logs moves, if anything.
LEMMA StepCases ==
  ASSUME TypeOK, [Next]_vars
  PROVE  /\ TypeOK'
         /\ \/ \E n \in Nodes : Timeout(n)
            \/ \E n \in Nodes : \E command \in Commands : Propose(n, command)
            \/ \E n \in Nodes : \E p \in Peers(n) : RequestVote(n, p)
            \/ Quiet /\ \A q \in Nodes : node'[q].log = node[q].log
            \/ Quiet /\ \E n \in Nodes : \E p \in Peers(n) : Replicate(n, p)
<1> DEFINE Calm == Quiet /\ \A q \in Nodes : node'[q].log = node[q].log
<1>1. TypeOK' <=> /\ NodesTyped(node') /\ CallsTyped(call')
                  /\ elected' \in [1 .. MaxTerm -> SUBSET Nodes] /\ overclaimed' \in BOOLEAN
  BY DEF TypeOK, NodesTyped, CallsTyped, Saved
<1>2. /\ NodesTyped(node) /\ CallsTyped(call)
      /\ elected \in [1 .. MaxTerm -> SUBSET Nodes] /\ overclaimed \in BOOLEAN
  BY TypeParts
<1>3. CASE UNCHANGED vars
  <2>1. node' = node /\ call' = call /\ elected' = elected /\ overclaimed' = overclaimed
    BY <1>3 DEF vars
  <2>2. TypeOK'
    BY <1>1, <1>2, <2>1
  <2>3. Calm
    BY <2>1, CallOnly
  <2> QED
    BY <2>2, <2>3
<1>4. ASSUME NEW n \in Nodes, Timeout(n) PROVE TypeOK'
  BY <1>1, <1>2, <1>4, TimeoutStep
<1>5. ASSUME NEW n \in Nodes, NEW command \in Commands, Propose(n, command) PROVE TypeOK'
  BY <1>1, <1>2, <1>5, ProposeStep
<1>6. ASSUME NEW n \in Nodes, NEW p \in Peers(n), RequestVote(n, p) PROVE TypeOK'
  BY <1>1, <1>2, <1>6, RequestVoteStep
<1>7. ASSUME NEW n \in Nodes, NEW p \in Peers(n), Replicate(n, p) PROVE TypeOK' /\ Quiet
  <2>1. NodesTyped(node') /\ CallsTyped(call') /\ overclaimed' \in BOOLEAN /\ Quiet
    BY <1>7, ReplicateStep
  <2> QED
    BY <1>1, <1>2, <2>1 DEF Quiet
<1>8. ASSUME NEW n \in Nodes,
             \/ Heartbeat(n) \/ FinishElection(n)
             \/ \E p \in Peers(n) :
                  VoteLost(n, p) \/ ReplicateSkipped(n, p) \/ ReplicateRaises(n, p)
      PROVE  TypeOK' /\ Calm
  <2>1. /\ node' = node /\ elected' = elected /\ overclaimed' = overclaimed
        /\ CallsTyped(call')
        /\ \A q \in Nodes : call'[q].term = call[q].term \/ call'[q].term = 0
    BY <1>8, CallStep
  <2>2. TypeOK'
    BY <1>1, <1>2, <2>1
  <2>3. Calm
    BY <2>1, CallOnly
  <2> QED
    BY <2>2, <2>3
<1>9. ASSUME NEW n \in Nodes, AdvanceCommit(n) \/ FinishBroadcast(n) \/ Restart(n)
      PROVE  TypeOK' /\ Calm
  <2>1. NodesTyped(node') /\ CallsTyped(call') /\ UNCHANGED overclaimed /\ Calm
    BY <1>9, AdvanceCommitStep, FinishBroadcastStep, RestartStep
  <2> QED
    BY <1>1, <1>2, <2>1 DEF Quiet
<1> HIDE DEF Calm
<1>10. CASE Next
  <2>1. PICK n \in Nodes :
          \/ Timeout(n) \/ Heartbeat(n) \/ Restart(n)
          \/ AdvanceCommit(n) \/ FinishBroadcast(n) \/ FinishElection(n)
          \/ \E command \in Commands : Propose(n, command)
          \/ \E p \in Peers(n) :
               \/ RequestVote(n, p) \/ VoteLost(n, p)
               \/ Replicate(n, p) \/ ReplicateSkipped(n, p) \/ ReplicateRaises(n, p)
    BY <1>10 DEF Next
  <2>2. CASE Timeout(n)
    BY <1>4, <2>2
  <2>3. CASE \E command \in Commands : Propose(n, command)
    BY <1>5, <2>3
  <2>4. CASE \E p \in Peers(n) : RequestVote(n, p)
    BY <1>6, <2>4
  <2>5. CASE \E p \in Peers(n) : Replicate(n, p)
    BY <1>7, <2>5
  <2>6. CASE \/ Heartbeat(n) \/ FinishElection(n)
             \/ \E p \in Peers(n) :
                  VoteLost(n, p) \/ ReplicateSkipped(n, p) \/ ReplicateRaises(n, p)
    BY <1>8, <2>6 DEF Calm
  <2>7. CASE AdvanceCommit(n) \/ FinishBroadcast(n) \/ Restart(n)
    BY <1>9, <2>7 DEF Calm
  <2> QED
    BY <2>1, <2>2, <2>3, <2>4, <2>5, <2>6, <2>7
<1> QED
  BY <1>3, <1>10

LEMMA TypeInit == Init => TypeOK
<1> SUFFICES ASSUME Init PROVE TypeOK
  OBVIOUS
<1> DEFINE d == [term |-> 0, votedFor |-> NoNode, log |-> << >>]
<1>1. d \in Disks /\ d.term = 0 /\ d.votedFor = NoNode /\ d.log = << >>
  BY DEF Disks
<1>2. Loaded(d) \in NodeStates /\ Saved(Loaded(d))
  <2>1. << >> \in Seq(Entries) /\ {} \in SUBSET Nodes
    OBVIOUS
  <2>2. /\ [p \in Nodes |-> 1] \in [Nodes -> Nat \ {0}]
        /\ [p \in Nodes |-> 0] \in [Nodes -> Nat]
    OBVIOUS
  <2>3. Loaded(d) \in NodeStates
    BY <1>1, <2>1, <2>2 DEF Loaded, NodeStates
  <2>4. /\ Loaded(d).disk = d /\ Loaded(d).term = d.term
        /\ Loaded(d).votedFor = d.votedFor /\ Loaded(d).log = d.log
    BY DEF Loaded
  <2>5. d = [term |-> d.term, votedFor |-> d.votedFor, log |-> d.log]
    OBVIOUS
  <2> HIDE DEF d
  <2> QED
    BY <2>3, <2>4, <2>5 DEF Saved
<1>3. node = [n \in Nodes |-> Loaded(d)]
  BY DEF Init
<1> HIDE DEF d
<1>4. NodesTyped(node)
  BY <1>2, <1>3 DEF NodesTyped
<1>5. CallsTyped(call)
  BY IdleTyped DEF Init, CallsTyped
<1>6. elected \in [1 .. MaxTerm -> SUBSET Nodes] /\ overclaimed \in BOOLEAN
  BY DEF Init
<1> QED
  BY <1>4, <1>5, <1>6, TypeParts

\* TypeOK, for any number of nodes: raft-state.json always holds the node's term,
\* vote and log, and a call asks its peers only.
THEOREM TypeCorrect == Spec => []TypeOK
<1>1. TypeOK /\ [Next]_vars => TypeOK'
  BY StepCases
<1> QED
  BY TypeInit, <1>1, PTL DEF Spec

-----------------------------------------------------------------------------
(* Elections.                                                              *)

\* A node becomes a follower, or its role, term and votes are what they were.
Stays(q) ==
  \/ node'[q].role = "follower"
  \/ /\ node'[q].role = node[q].role /\ node'[q].term = node[q].term
     /\ node'[q].votes = node[q].votes

\* n has p's vote, which p gave to no other node in this term.
Gains(n, p) ==
  /\ node'[p].term = node'[n].term /\ node'[p].votedFor = n
  /\ node[p].term = node'[n].term => node[p].votedFor \in {NoNode, n}
  /\ node'[n].term >= 1
  /\ \/ node'[n].votes = {p}
     \/ /\ Running(n) /\ node'[n].term = node[n].term
        /\ node'[n].votes = node[n].votes \union {p}

\* At most one node n gains a vote in a step.
Moves(n) ==
  /\ \A q \in Nodes :
       /\ Advances(q) /\ node'[q].term <= MaxTerm /\ call'[q].term <= MaxTerm
       /\ node'[q].role = "candidate" =>
            node'[q].term > node[q].term \/ node[q].role = "candidate"
  /\ \A q \in Nodes \ {n} : Stays(q)
  /\ Stays(n) \/ \E p \in Nodes : Gains(n, p)

\* A candidate becomes leader on the votes it has then.
Wins(n) ==
  /\ node[n].role = "candidate" /\ node'[n].role = "leader"
  /\ node'[n].term = node[n].term /\ Cardinality(node'[n].votes) >= Majority
  /\ \E p \in Nodes : Gains(n, p) /\ node'[n].votes = node[n].votes \union {p}
  /\ elected' = [elected EXCEPT ![node[n].term] = @ \union {n}]

\* No node becomes leader.
ElectsNone ==
  /\ elected' = elected
  /\ \A q \in Nodes : node'[q].role = "leader" =>
       node[q].role = "leader" /\ node'[q].term = node[q].term

LEMMA Terms ==
  ASSUME TypeOK
  PROVE  \A q \in Nodes : node[q].term \in Nat /\ node[q].role \in {"follower", "candidate", "leader"}
                          /\ node[q].votes \in SUBSET Nodes /\ call[q].term \in Nat
BY DEF TypeOK, NodeStates, Calls

LEMMA QuietMoves ==
  ASSUME TypeOK, VoteInv, Quiet, NEW n \in Nodes
  PROVE  Moves(n) /\ ElectsNone
<1>1. \A q \in Nodes : Advances(q) /\ Keeps(q) /\ Stays(q)
  BY DEF Quiet, Keeps, Stays
<1>2. \A q \in Nodes : node'[q].term <= MaxTerm /\ call'[q].term <= MaxTerm
  BY RaftBoundsAssumption DEF Quiet, VoteInv
<1>3. \A q \in Nodes : node'[q].role \in {"candidate", "leader"} =>
        node'[q].role = node[q].role /\ node'[q].term = node[q].term
  BY <1>1 DEF Stays
<1> QED
  BY <1>1, <1>2, <1>3 DEF Moves, ElectsNone, Quiet

LEMMA StepMoves ==
  ASSUME TypeOK, VoteInv, [Next]_vars
  PROVE  \E n \in Nodes : Moves(n) /\ (ElectsNone \/ Wins(n))
<1>1. CASE Quiet
  BY <1>1, QuietMoves, NodesAssumption
<1>2. ASSUME NEW n \in Nodes, Timeout(n)
      PROVE  Moves(n) /\ ElectsNone
  <2>1. /\ elected' = elected
        /\ \A q \in Nodes : Advances(q) /\ node'[q].log = node[q].log
        /\ \A q \in Nodes \ {n} :
             node'[q] = node[q] /\ call'[q].term = call[q].term
        /\ node'[n].role = "candidate" /\ node'[n].term = node[n].term + 1
        /\ node[n].term < MaxTerm /\ call'[n].term = node[n].term + 1
        /\ node'[n].votedFor = n /\ node'[n].votes = {n}
    BY <1>2, TimeoutStep
  <2>2. node[n].term \in Nat /\ MaxTerm \in Nat
    BY Terms, RaftBoundsAssumption
  <2>3. Gains(n, n)
    BY <2>1, <2>2 DEF Gains
  <2>4. \A q \in Nodes \ {n} : Stays(q)
    BY <2>1 DEF Stays
  <2>5. \A q \in Nodes : node'[q].term <= MaxTerm /\ call'[q].term <= MaxTerm
    <3> TAKE q \in Nodes
    <3>1. CASE q = n
      BY <2>1, <2>2, <3>1
    <3>2. CASE q # n
      BY <2>1, <3>2 DEF VoteInv
    <3> QED
      BY <3>1, <3>2
  <2>6. \A q \in Nodes : node'[q].role = "candidate" =>
          node'[q].term > node[q].term \/ node[q].role = "candidate"
    BY <2>1, <2>2
  <2>7. ElectsNone
    <3>1. node'[n].role # "leader"
      BY <2>1
    <3> QED
      BY <2>1, <3>1 DEF ElectsNone
  <2> QED
    BY <2>1, <2>3, <2>4, <2>5, <2>6, <2>7 DEF Moves
<1>3. ASSUME NEW n \in Nodes, NEW command \in Commands, Propose(n, command)
      PROVE  Moves(n) /\ ElectsNone
  <2>1. /\ elected' = elected
        /\ \A q \in Nodes \ {n} : node'[q] = node[q]
        /\ \A q \in Nodes : call'[q].term = call[q].term
        /\ node[n].role = "leader" /\ node'[n].role = "leader"
        /\ node'[n].term = node[n].term /\ node'[n].votedFor = node[n].votedFor
        /\ node'[n].votes = node[n].votes
    BY <1>3, ProposeStep
  <2>2. \A q \in Nodes : /\ node'[q].term = node[q].term /\ node'[q].role = node[q].role
                         /\ node'[q].votes = node[q].votes
                         /\ node'[q].votedFor = node[q].votedFor
    BY <2>1
  <2>3. \A q \in Nodes : Advances(q) /\ Stays(q)
    BY <2>2, Terms DEF Advances, Stays
  <2> QED
    BY <2>1, <2>2, <2>3 DEF Moves, ElectsNone, VoteInv
<1>4. ASSUME NEW n \in Nodes, NEW p \in Peers(n), RequestVote(n, p)
      PROVE  Moves(n) /\ (ElectsNone \/ Wins(n))
  <2>1. /\ \A q \in Nodes : /\ Advances(q) /\ call'[q].term = call[q].term
                            /\ \E m \in Nodes : node'[q].term \in {node[m].term, call[m].term}
        /\ \A q \in Nodes \ {n} : Keeps(q)
        /\ \/ Keeps(n) /\ elected' = elected
           \/ Counts(n, p, "candidate") /\ elected' = elected
           \/ /\ Counts(n, p, "leader") /\ Cardinality(node'[n].votes) >= Majority
              /\ elected' = [elected EXCEPT ![node[n].term] = @ \union {n}]
    BY <1>4, RequestVoteStep
  <2>2. p \in Nodes
    BY DEF Peers
  <2>3. \A q \in Nodes : node'[q].term <= MaxTerm /\ call'[q].term <= MaxTerm
    BY <2>1 DEF VoteInv
  <2>4. \A q \in Nodes : Keeps(q) => Stays(q)
    BY DEF Keeps, Stays
  <2>5. \A q \in Nodes : Stays(q) =>
          /\ node'[q].role = "candidate" => node[q].role = "candidate"
          /\ node'[q].role = "leader" =>
               node[q].role = "leader" /\ node'[q].term = node[q].term
    BY DEF Stays
  <2>6. \A role : Counts(n, p, role) => Gains(n, p) /\ node[n].role = "candidate"
    <3> SUFFICES ASSUME NEW role, Counts(n, p, role)
                 PROVE  Gains(n, p) /\ node[n].role = "candidate"
      OBVIOUS
    <3>1. node[n].role = "candidate" /\ Running(n)
      BY DEF Counts, Running
    <3>2. node[n].term >= 1
      BY <3>1 DEF VoteInv
    <3> QED
      BY <3>1, <3>2 DEF Counts, Granted, Gains
  <2>7. CASE Keeps(n) /\ elected' = elected
    BY <2>1, <2>3, <2>4, <2>5, <2>7 DEF Moves, ElectsNone
  <2>8. CASE Counts(n, p, "candidate") /\ elected' = elected
    <3>1. node'[n].role = "candidate" /\ node[n].role = "candidate" /\ Gains(n, p)
      BY <2>6, <2>8 DEF Counts
    <3>2. ElectsNone
      BY <2>1, <2>4, <2>5, <2>8, <3>1 DEF ElectsNone
    <3>3. Moves(n)
      BY <2>1, <2>2, <2>3, <2>4, <2>5, <3>1 DEF Moves
    <3> QED
      BY <3>2, <3>3
  <2>9. CASE /\ Counts(n, p, "leader") /\ Cardinality(node'[n].votes) >= Majority
             /\ elected' = [elected EXCEPT ![node[n].term] = @ \union {n}]
    <3>1. /\ node'[n].role = "leader" /\ node[n].role = "candidate" /\ Gains(n, p)
          /\ node'[n].term = node[n].term /\ node'[n].votes = node[n].votes \union {p}
      BY <2>6, <2>9 DEF Counts
    <3>2. Wins(n)
      BY <2>2, <2>9, <3>1 DEF Wins
    <3>3. Moves(n)
      BY <2>1, <2>2, <2>3, <2>4, <2>5, <3>1 DEF Moves
    <3> QED
      BY <3>2, <3>3
  <2> QED
    BY <2>1, <2>7, <2>8, <2>9
<1> QED
  BY <1>1, <1>2, <1>3, <1>4, StepCases

\* Whoever is bound stays so: terms grow, and the vote of a term is kept.
LEMMA BoundKept ==
  ASSUME TypeOK, TypeOK', NEW q \in Nodes, NEW n \in Nodes, NEW t \in Nat,
         Advances(q), Bound(q, n, t)
  PROVE  node'[q].term > t \/ (node'[q].term = t /\ node'[q].votedFor = n)
<1>1. node[q].term \in Nat /\ node'[q].term \in Nat
  BY DEF TypeOK, NodeStates
<1>2. n # NoNode
  BY NodesAssumption
<1> QED
  BY <1>1, <1>2 DEF Advances, Bound

\* A node bound to m gives no vote to another one in that term.
LEMMA NoSecondVote ==
  ASSUME TypeOK, TypeOK', NEW p \in Nodes, NEW m \in Nodes, NEW n \in Nodes, m # n,
         Advances(p), Gains(n, p), Bound(p, m, node'[n].term)
  PROVE  FALSE
<1>1. node[p].term \in Nat /\ node'[p].term \in Nat /\ node'[n].term \in Nat
  BY DEF TypeOK, NodeStates
<1>2. m # NoNode
  BY NodesAssumption
<1> QED
  BY <1>1, <1>2 DEF Advances, Bound, Gains

LEMMA VoteStep ==
  ASSUME TypeOK, TypeOK', VoteInv, NEW n \in Nodes, Moves(n)
  PROVE  VoteInv'
<1>1. \A q \in Nodes : node[q].term \in Nat /\ node'[q].term \in Nat
  BY DEF TypeOK, NodeStates
<1>2. \A q \in Nodes : Advances(q)
  BY DEF Moves
<1>3. \A q \in Nodes : node'[q].role # "follower" /\ Stays(q) =>
        /\ Running(q) /\ node'[q].term = node[q].term /\ node'[q].votes = node[q].votes
  BY DEF Stays, Running
<1>4. \A q \in Nodes : node'[q].role # "follower" /\ Stays(q) =>
        /\ node'[q].term >= 1
        /\ \A x \in node'[q].votes :
             node'[x].term > node'[q].term
               \/ (node'[x].term = node'[q].term /\ node'[x].votedFor = q)
  <2> SUFFICES ASSUME NEW q \in Nodes, node'[q].role # "follower", Stays(q)
               PROVE  /\ node'[q].term >= 1
                      /\ \A x \in node'[q].votes :
                           node'[x].term > node'[q].term
                             \/ (node'[x].term = node'[q].term /\ node'[x].votedFor = q)
    OBVIOUS
  <2>1. node[q].term >= 1 /\ \A x \in node[q].votes : Bound(x, q, node[q].term)
    BY <1>3 DEF VoteInv
  <2>2. node[q].votes \subseteq Nodes
    BY Terms
  <2> QED
    BY <1>1, <1>2, <1>3, <2>1, <2>2, BoundKept
<1>5. ASSUME NEW p \in Nodes, Gains(n, p)
      PROVE  /\ node'[n].term >= 1
             /\ \A x \in node'[n].votes :
                  node'[x].term > node'[n].term
                    \/ (node'[x].term = node'[n].term /\ node'[x].votedFor = n)
  <2>1. node'[n].term >= 1 /\ node'[p].term = node'[n].term /\ node'[p].votedFor = n
    BY <1>5 DEF Gains
  <2>2. CASE node'[n].votes = {p}
    BY <2>1, <2>2
  <2>3. CASE /\ Running(n) /\ node'[n].term = node[n].term
             /\ node'[n].votes = node[n].votes \union {p}
    <3>1. \A x \in node[n].votes : x \in Nodes /\ Bound(x, n, node[n].term)
      BY <2>3, Terms DEF VoteInv
    <3>2. \A x \in node[n].votes :
            node'[x].term > node'[n].term
              \/ (node'[x].term = node'[n].term /\ node'[x].votedFor = n)
      BY <1>1, <1>2, <2>3, <3>1, BoundKept
    <3> QED
      BY <2>1, <2>3, <3>2
  <2> QED
    BY <1>5, <2>2, <2>3 DEF Gains
<1>6. \A q \in Nodes : node'[q].role # "follower" =>
        /\ node'[q].term >= 1
        /\ \A x \in node'[q].votes :
             node'[x].term > node'[q].term
               \/ (node'[x].term = node'[q].term /\ node'[x].votedFor = q)
  BY <1>4, <1>5 DEF Moves
<1>7. ASSUME NEW m \in Nodes \ {n}, node'[m].role # "follower",
             node'[n].role # "follower", node'[m].term = node'[n].term
      PROVE  node'[m].votes \intersect node'[n].votes = {}
  <2>1. Running(m) /\ node'[m].term = node[m].term /\ node'[m].votes = node[m].votes
    BY <1>3, <1>7 DEF Moves
  <2>2. CASE Stays(n)
    <3>1. Running(n) /\ node'[n].term = node[n].term /\ node'[n].votes = node[n].votes
      BY <1>3, <1>7, <2>2
    <3> QED
      BY <1>7, <2>1, <3>1 DEF VoteInv
  <2>3. ASSUME NEW p \in Nodes, Gains(n, p)
        PROVE  node'[m].votes \intersect node'[n].votes = {}
    <3>1. p \notin node[m].votes
      <4>1. p \in node[m].votes => Bound(p, m, node'[n].term)
        BY <1>7, <2>1 DEF VoteInv
      <4>2. Advances(p) /\ m \in Nodes /\ m # n
        BY <1>2
      <4> QED
        BY <2>3, <4>1, <4>2, NoSecondVote
    <3>2. CASE node'[n].votes = {p}
      BY <2>1, <3>1, <3>2
    <3>3. CASE /\ Running(n) /\ node'[n].term = node[n].term
               /\ node'[n].votes = node[n].votes \union {p}
      <4>1. node[m].votes \intersect node[n].votes = {}
        BY <1>7, <2>1, <3>3 DEF VoteInv
      <4> QED
        BY <2>1, <3>1, <3>3, <4>1
    <3> QED
      BY <2>3, <3>2, <3>3 DEF Gains
  <2> QED
    BY <2>2, <2>3 DEF Moves
<1>8. ASSUME NEW m \in Nodes, NEW q \in Nodes, m # q, node'[m].role # "follower",
             node'[q].role # "follower", node'[m].term = node'[q].term
      PROVE  node'[m].votes \intersect node'[q].votes = {}
  <2>1. CASE q = n
    BY <1>7, <1>8, <2>1
  <2>2. CASE m = n
    <3>1. node'[q].votes \intersect node'[n].votes = {}
      BY <1>7, <1>8, <2>2
    <3> QED
      BY <2>2, <3>1
  <2>3. CASE m # n /\ q # n
    <3>1. Stays(m) /\ Stays(q)
      BY <2>3 DEF Moves
    <3>2. /\ Running(m) /\ node'[m].term = node[m].term /\ node'[m].votes = node[m].votes
          /\ Running(q) /\ node'[q].term = node[q].term /\ node'[q].votes = node[q].votes
      BY <1>3, <1>8, <3>1
    <3> QED
      BY <1>8, <3>2 DEF VoteInv
  <2> QED
    BY <2>1, <2>2, <2>3
<1>9. \A q \in Nodes : node'[q].term <= MaxTerm /\ call'[q].term <= MaxTerm
  BY DEF Moves
<1> QED
  BY <1>6, <1>8, <1>9 DEF VoteInv, Running, Bound

\* Two majorities of the nodes have a node in common.
LEMMA MajoritiesMeet ==
  ASSUME NEW Q \in SUBSET Nodes, NEW V \in SUBSET Nodes,
         Cardinality(Q) >= Majority, Cardinality(V) >= Majority
  PROVE  Q \intersect V # {}
<1>1. Cardinality(Q) \in Nat /\ Cardinality(V) \in Nat /\ Cardinality(Nodes) \in Nat
  BY NodesAssumption, FS_Subset, FS_CardinalityType
<1>2. Cardinality(Q) + Cardinality(V) > Cardinality(Nodes)
  BY <1>1 DEF Majority
<1> QED
  BY <1>2, NodesAssumption, FS_MajoritiesIntersect

\* The electors of m stay its electors, and m is no candidate of that term again.
LEMMA ElectedStay ==
  ASSUME TypeOK, TypeOK', NEW n \in Nodes, Moves(n), NEW t \in 1 .. MaxTerm, NEW m \in Nodes,
         \E Q \in SUBSET Nodes : Electors(Q, m, t),
         node[m].term > t \/ (node[m].term = t /\ node[m].role # "candidate")
  PROVE  /\ \E Q \in SUBSET Nodes : Electors(Q, m, t)'
         /\ node'[m].term > t \/ (node'[m].term = t /\ node'[m].role # "candidate")
<1>1. \A q \in Nodes : node[q].term \in Nat /\ node'[q].term \in Nat
  BY DEF TypeOK, NodeStates
<1>2. t \in Nat /\ \A q \in Nodes : Advances(q)
  BY RaftBoundsAssumption DEF Moves
<1>3. PICK Q \in SUBSET Nodes : Electors(Q, m, t)
  OBVIOUS
<1>4. \A p \in Q : p \in Nodes /\ Bound(p, m, t)
  BY <1>3 DEF Electors
<1>5. \A p \in Q : node'[p].term > t \/ (node'[p].term = t /\ node'[p].votedFor = m)
  BY <1>2, <1>4, BoundKept
<1>6. ASSUME NEW q \in Nodes \ {m}, node'[q].role # "follower", node'[q].term = t
      PROVE  Q \intersect node'[q].votes = {}
  <2>1. CASE Stays(q)
    <3>1. Running(q) /\ node[q].term = t /\ node'[q].votes = node[q].votes
      BY <1>6, <2>1 DEF Stays, Running
    <3> QED
      BY <1>3, <3>1 DEF Electors
  <2>2. ASSUME q = n, NEW p \in Nodes, Gains(n, p)
        PROVE  Q \intersect node'[q].votes = {}
    <3>1. p \notin Q
      <4>1. p \in Q => Bound(p, m, node'[n].term) /\ Advances(p) /\ m # n
        BY <1>2, <1>4, <1>6, <2>2
      <4> QED
        BY <2>2, <4>1, NoSecondVote
    <3>2. CASE node'[n].votes = {p}
      BY <2>2, <3>1, <3>2
    <3>3. CASE /\ Running(n) /\ node'[n].term = node[n].term
               /\ node'[n].votes = node[n].votes \union {p}
      <4>1. Q \intersect node[n].votes = {}
        BY <1>3, <1>6, <2>2, <3>3 DEF Electors
      <4> QED
        BY <2>2, <3>1, <3>3, <4>1
    <3> QED
      BY <2>2, <3>2, <3>3 DEF Gains
  <2> QED
    BY <2>1, <2>2 DEF Moves
<1>7. Cardinality(Q) >= Majority
  BY <1>3 DEF Electors
<1>8. Electors(Q, m, t)'
  BY <1>5, <1>6, <1>7 DEF Electors, Bound, Running
<1>9. node'[m].term > t \/ (node'[m].term = t /\ node'[m].role # "candidate")
  <2>1. node'[m].role = "candidate" => node'[m].term > node[m].term \/ node[m].role = "candidate"
    BY DEF Moves
  <2>2. node'[m].term >= node[m].term
    BY <1>2 DEF Advances
  <2> QED
    BY <1>1, <1>2, <2>1, <2>2
<1> QED
  BY <1>8, <1>9

\* Nobody was elected in the term that a candidate wins: its voters are a majority,
\* and so were the electors of another.
LEMMA FirstInTerm ==
  ASSUME TypeOK, TypeOK', VoteInv, ElectionInv, NEW n \in Nodes, Moves(n), Wins(n)
  PROVE  node[n].term \in 1 .. MaxTerm /\ elected[node[n].term] = {}
<1> DEFINE t == node[n].term
<1>1. t \in Nat /\ node[n].role = "candidate" /\ Running(n)
  BY Terms DEF Wins, Running
<1>2. t \in 1 .. MaxTerm
  BY <1>1, RaftBoundsAssumption DEF VoteInv
<1>3. elected[t] \in SUBSET Nodes
  BY <1>2 DEF TypeOK
<1>4. ASSUME NEW m \in elected[t] PROVE FALSE
  <2>1. /\ m \in Nodes /\ \E Q \in SUBSET Nodes : Electors(Q, m, t)
        /\ node[m].term > t \/ (node[m].term = t /\ node[m].role # "candidate")
    BY <1>2, <1>3, <1>4 DEF ElectionInv
  <2>2. m # n
    BY <1>1, <2>1
  <2>3. PICK Q \in SUBSET Nodes : Electors(Q, m, t)
    BY <2>1
  <2>4. Cardinality(Q) >= Majority /\ Q \intersect node[n].votes = {}
        /\ \A x \in Q : Bound(x, m, t)
    BY <1>1, <2>2, <2>3 DEF Electors
  <2>5. PICK p \in Nodes : Gains(n, p) /\ node'[n].votes = node[n].votes \union {p}
    BY DEF Wins
  <2>6. node'[n].term = t /\ Cardinality(node'[n].votes) >= Majority
    BY DEF Wins
  <2>7. p \notin Q
    <3>1. p \in Q => Bound(p, m, node'[n].term) /\ Advances(p)
      BY <2>4, <2>6 DEF Moves
    <3> QED
      BY <2>1, <2>2, <2>5, <3>1, NoSecondVote
  <2>8. node'[n].votes \in SUBSET Nodes
    BY DEF TypeOK, NodeStates
  <2>9. Q \intersect node'[n].votes # {}
    BY <2>4, <2>6, <2>8, MajoritiesMeet
  <2> QED
    BY <2>4, <2>5, <2>7, <2>9
<1> QED
  BY <1>2, <1>3, <1>4

LEMMA ElectionStep ==
  ASSUME TypeOK, TypeOK', VoteInv, ElectionInv, NEW n \in Nodes, Moves(n),
         ElectsNone \/ Wins(n)
  PROVE  ElectionInv'
<1>1. VoteInv'
  BY VoteStep
<1>2. \A t \in 1 .. MaxTerm : elected[t] \in SUBSET Nodes
  BY DEF TypeOK
<1>3. \A t \in 1 .. MaxTerm : \A m \in elected[t] :
        /\ \E Q \in SUBSET Nodes : Electors(Q, m, t)'
        /\ node'[m].term > t \/ (node'[m].term = t /\ node'[m].role # "candidate")
  <2> TAKE t \in 1 .. MaxTerm
  <2> TAKE m \in elected[t]
  <2>1. /\ m \in Nodes /\ \E Q \in SUBSET Nodes : Electors(Q, m, t)
        /\ node[m].term > t \/ (node[m].term = t /\ node[m].role # "candidate")
    BY <1>2 DEF ElectionInv
  <2> QED
    BY <2>1, ElectedStay
<1>4. CASE ElectsNone
  <2>1. elected' = elected
    BY <1>4 DEF ElectsNone
  <2>2. \A t \in 1 .. MaxTerm : \A m \in elected'[t] :
          /\ \E Q \in SUBSET Nodes : Electors(Q, m, t)'
          /\ node'[m].term > t \/ (node'[m].term = t /\ node'[m].role # "candidate")
          /\ \A q \in elected'[t] : q = m
    BY <1>3, <2>1 DEF ElectionInv
  <2>3. \A q \in Nodes : node'[q].role = "leader" => q \in elected'[node'[q].term]
    BY <1>4, <2>1 DEF ElectsNone, ElectionInv
  <2> QED
    BY <2>2, <2>3 DEF ElectionInv
<1>5. CASE Wins(n)
  <2>0. PICK u, V : u = node[n].term /\ V = node'[n].votes
    OBVIOUS
  <2>1. u \in 1 .. MaxTerm /\ elected[u] = {}
    BY <1>5, <2>0, FirstInTerm
  <2>2. node'[n].term = u /\ node'[n].role = "leader" /\ Cardinality(V) >= Majority
    BY <1>5, <2>0 DEF Wins
  <2>3. /\ elected'[u] = {n}
        /\ \A t \in 1 .. MaxTerm : t # u => elected'[t] = elected[t]
    BY <1>5, <2>0, <2>1 DEF Wins, TypeOK
  <2>4. Electors(V, n, u)'
    <3>1. \A p \in V : node'[p].term > u \/ (node'[p].term = u /\ node'[p].votedFor = n)
      BY <1>1, <2>0, <2>2 DEF VoteInv, Running, Bound
    <3>2. \A q \in Nodes \ {n} : node'[q].role # "follower" /\ node'[q].term = u
            => V \intersect node'[q].votes = {}
      BY <1>1, <2>0, <2>2 DEF VoteInv, Running
    <3> QED
      BY <2>2, <3>1, <3>2 DEF Electors, Bound, Running
  <2>5. V \in SUBSET Nodes
    BY <2>0 DEF TypeOK, NodeStates
  <2>6. \A t \in 1 .. MaxTerm : \A m \in elected'[t] :
          /\ \E Q \in SUBSET Nodes : Electors(Q, m, t)'
          /\ node'[m].term > t \/ (node'[m].term = t /\ node'[m].role # "candidate")
          /\ \A q \in elected'[t] : q = m
    <3> TAKE t \in 1 .. MaxTerm
    <3> TAKE m \in elected'[t]
    <3>1. CASE t = u
      <4>1. m = n
        BY <2>3, <3>1
      <4>2. \E Q \in SUBSET Nodes : Electors(Q, m, t)'
        BY <2>4, <2>5, <3>1, <4>1
      <4> QED
        BY <2>2, <2>3, <3>1, <4>1, <4>2
    <3>2. CASE t # u
      BY <1>3, <2>3, <3>2 DEF ElectionInv
    <3> QED
      BY <3>1, <3>2
  <2>7. \A q \in Nodes : node'[q].role = "leader" => q \in elected'[node'[q].term]
    <3> TAKE q \in Nodes
    <3>1. CASE q = n
      BY <2>2, <2>3, <3>1
    <3>2. ASSUME q # n, node'[q].role = "leader" PROVE q \in elected'[node'[q].term]
      <4>1. node[q].role = "leader" /\ node'[q].term = node[q].term
        BY <3>2 DEF Moves, Stays
      <4>2. q \in elected[node[q].term]
        BY <4>1 DEF ElectionInv
      <4>3. node[q].term \in 1 .. MaxTerm
        <5>1. Running(q) /\ node[q].term \in Nat
          BY <4>1, Terms DEF Running
        <5> QED
          BY <5>1, RaftBoundsAssumption DEF VoteInv
      <4> QED
        BY <2>1, <2>3, <4>1, <4>2, <4>3
    <3> QED
      BY <3>1, <3>2
  <2> QED
    BY <2>6, <2>7 DEF ElectionInv
<1> QED
  BY <1>4, <1>5

-----------------------------------------------------------------------------
(* Logs.                                                                   *)

\* But for a proposal, every log is one there was, and a leader's its own.
LogsMove ==
  /\ \A q \in Nodes : \E m \in Nodes : node'[q].log = node[m].log
  /\ \A q \in Nodes : node'[q].role = "leader" => node'[q].log = node[q].log

LEMMA LogTypes ==
  ASSUME TypeOK
  PROVE  \A q \in Nodes : /\ node[q].log \in Seq(Entries) /\ Len(node[q].log) \in Nat
                          /\ DOMAIN node[q].log = 1 .. Len(node[q].log)
<1>1. \A q \in Nodes : node[q].log \in Seq(Entries)
  BY DEF TypeOK, NodeStates
<1> QED
  BY <1>1

\* A replication leaves the peer its log or gives it the caller's, and gives it that
\* one whenever no more is reported than the caller has.
LEMMA ReplicateMerges ==
  ASSUME TypeOK, LogMatching, NEW n \in Nodes, NEW p \in Peers(n), Replicate(n, p)
  PROVE  /\ node'[p].log \in {node[p].log, node[n].log}
         /\ Takes(n, p) /\ ~overclaimed' => node'[p].log = node[n].log
<1> DEFINE a == node[p].log
           b == node[n].log
           k == Prev(n, p)
<1>1. /\ a \in Seq(Entries) /\ b \in Seq(Entries) /\ p \in Nodes
      /\ DOMAIN a = 1 .. Len(a) /\ DOMAIN b = 1 .. Len(b)
  BY LogTypes DEF Peers
<1>2. k \in Nat
  <2>1. node[n].next[p] \in Nat \ {0}
    BY <1>1 DEF TypeOK, NodeStates
  <2> QED
    BY <2>1 DEF Prev
<1>3. CASE Takes(n, p)
  <2>0. /\ Matches(node[p], Request(n, p)) /\ k <= Len(b)
        /\ node'[p].log = Merge(a, k, SubSeq(b, k + 1, Len(b)))
    BY <1>3 DEF Takes
  <2>1. Request(n, p).prev = k /\ Request(n, p).prevTerm = IF k = 0 THEN 0 ELSE b[k].term
    BY DEF Request
  <2>2. k = 0 \/ (k <= Len(a) /\ a[k].term = b[k].term)
    BY <2>0, <2>1 DEF Matches
  <2>3. k <= Len(a)
    BY <1>1, <1>2, <2>2
  <2>4. \A i \in (1 .. Len(a)) \intersect (1 .. Len(b)) :
          a[i].term = b[i].term => SubSeq(a, 1, i) = SubSeq(b, 1, i)
    BY <1>1 DEF LogMatching
  <2> HIDE DEF a, b, k
  <2>5. node'[p].log = b \/ (node'[p].log = a /\ Len(a) > Len(b))
    BY <1>1, <1>2, <2>0, <2>2, <2>3, <2>4, MergeIs
  <2>6. ~overclaimed' => ~(Len(node'[p].log) > Len(b))
    BY <1>3 DEF Takes, b
  <2> QED
    BY <2>5, <2>6 DEF a, b
<1> QED
  BY <1>3, ReplicateStep

LEMMA StepLogs ==
  ASSUME TypeOK, LogMatching, [Next]_vars
  PROVE  LogsMove \/ \E n \in Nodes : \E command \in Commands : Propose(n, command)
<1>1. CASE \A q \in Nodes : node'[q].log = node[q].log
  BY <1>1 DEF LogsMove
<1>2. ASSUME NEW n \in Nodes, NEW p \in Peers(n), Replicate(n, p), Quiet
      PROVE  LogsMove
  <2>1. node'[p].log \in {node[p].log, node[n].log} /\ p \in Nodes
    BY <1>2, ReplicateMerges DEF Peers
  <2>2. \A q \in Nodes \ {p} : node'[q].log = node[q].log
    BY <1>2, ReplicateStep
  <2>3. \A q \in Nodes : node'[q].role = "leader" => node'[q].log = node[q].log
    BY <1>2 DEF Quiet, Keeps
  <2> QED
    BY <2>1, <2>2, <2>3 DEF LogsMove
<1>3. ASSUME NEW n \in Nodes, Timeout(n)
      PROVE  LogsMove
  <2>1. \A q \in Nodes : node'[q].log = node[q].log
    BY <1>3, TimeoutStep
  <2> QED
    BY <2>1 DEF LogsMove
<1>4. ASSUME NEW n \in Nodes, NEW p \in Peers(n), RequestVote(n, p)
      PROVE  LogsMove
  <2>1. \A q \in Nodes : node'[q].log = node[q].log
    BY <1>4, RequestVoteStep
  <2> QED
    BY <2>1 DEF LogsMove
<1> QED
  BY <1>1, <1>2, <1>3, <1>4, StepCases

\* A proposal appends an entry of the leader's term, of which no other log has one
\* at that position.
LEMMA Proposed ==
  ASSUME TypeOK, EntryInv, NEW n \in Nodes, NEW command \in Commands, Propose(n, command)
  PROVE  LET k == Len(node[n].log) + 1
         IN  /\ node[n].role = "leader"
             /\ DOMAIN node'[n].log = 1 .. k /\ node'[n].log \in Seq(Entries)
             /\ node'[n].log[k].term = node[n].term
             /\ \A i \in 1 .. k - 1 : node'[n].log[i] = node[n].log[i]
             /\ \A q \in Nodes : k \in DOMAIN node[q].log =>
                  node[q].log[k].term # node[n].term
<1> DEFINE a == node[n].log
           e == [term |-> node[n].term, command |-> command]
           k == Len(a) + 1
<1>1. a \in Seq(Entries) /\ Len(a) \in Nat /\ DOMAIN a = 1 .. Len(a)
  BY LogTypes
<1>2. e \in Entries /\ e.term = node[n].term
  <2>1. node[n].term \in Nat
    BY Terms
  <2> QED
    BY <2>1 DEF Entries
<1>3. node'[n].log = Append(a, e) /\ node[n].role = "leader"
  BY ProposeStep
<1>4. k \notin DOMAIN a
  BY <1>1
<1> HIDE DEF a, e
<1>5. /\ Append(a, e) \in Seq(Entries) /\ Len(Append(a, e)) = k
      /\ \A i \in 1 .. Len(a) : Append(a, e)[i] = a[i]
      /\ Append(a, e)[k] = e
  BY <1>1, <1>2, AppendProperties
<1>6. DOMAIN Append(a, e) = 1 .. k /\ k - 1 = Len(a)
  BY <1>1, <1>5
<1>7. \A q \in Nodes : k \in DOMAIN node[q].log => node[q].log[k].term # node[n].term
  BY <1>3, <1>4 DEF EntryInv, a
<1> QED
  BY <1>2, <1>3, <1>5, <1>6, <1>7 DEF a

LEMMA MatchStep ==
  ASSUME TypeOK, TypeOK', EntryInv, LogMatching, [Next]_vars
  PROVE  LogMatching'
<1>0. \A m, q \in Nodes : \A i \in DOMAIN node[m].log \intersect DOMAIN node[q].log :
        node[m].log[i].term = node[q].log[i].term
          => SubSeq(node[m].log, 1, i) = SubSeq(node[q].log, 1, i)
  BY DEF LogMatching
<1>1. CASE LogsMove
  <2> SUFFICES ASSUME NEW m \in Nodes, NEW q \in Nodes,
                      NEW i \in DOMAIN node'[m].log \intersect DOMAIN node'[q].log,
                      node'[m].log[i].term = node'[q].log[i].term
               PROVE  SubSeq(node'[m].log, 1, i) = SubSeq(node'[q].log, 1, i)
    BY DEF LogMatching
  <2>1. PICK m0 \in Nodes, q0 \in Nodes :
          node'[m].log = node[m0].log /\ node'[q].log = node[q0].log
    BY <1>1 DEF LogsMove
  <2>2. /\ i \in DOMAIN node[m0].log \intersect DOMAIN node[q0].log
        /\ node[m0].log[i].term = node[q0].log[i].term
    BY <2>1
  <2>3. SubSeq(node[m0].log, 1, i) = SubSeq(node[q0].log, 1, i)
    BY <1>0, <2>2
  <2> QED
    BY <2>1, <2>3
<1>2. ASSUME NEW n \in Nodes, NEW command \in Commands, Propose(n, command)
      PROVE  LogMatching'
  <2>0. PICK k : k = Len(node[n].log) + 1
    OBVIOUS
  <2>1. /\ DOMAIN node'[n].log = 1 .. k /\ node'[n].log \in Seq(Entries)
        /\ node'[n].log[k].term = node[n].term
        /\ \A i \in 1 .. k - 1 : node'[n].log[i] = node[n].log[i]
        /\ \A q \in Nodes : k \in DOMAIN node[q].log =>
             node[q].log[k].term # node[n].term
    BY <1>2, <2>0, Proposed
  <2>2. \A q \in Nodes \ {n} : node'[q].log = node[q].log
    BY <1>2, ProposeStep
  <2>3. /\ node[n].log \in Seq(Entries) /\ Len(node[n].log) \in Nat
        /\ DOMAIN node[n].log = 1 .. k - 1 /\ k \in Nat \ {0} /\ k - 1 = Len(node[n].log)
        /\ Len(node'[n].log) = k
    BY <2>0, <2>1, LogTypes
  <2>4. ASSUME NEW q \in Nodes \ {n},
               NEW i \in DOMAIN node'[q].log \intersect DOMAIN node'[n].log,
               node'[q].log[i].term = node'[n].log[i].term
        PROVE  SubSeq(node'[q].log, 1, i) = SubSeq(node'[n].log, 1, i)
    <3>1. i \in DOMAIN node[q].log /\ i \in 1 .. k
      BY <2>1, <2>2
    <3>2. i # k
      BY <2>1, <2>2, <2>4, <3>1
    <3>3. i \in 1 .. k - 1
      BY <2>3, <3>1, <3>2
    <3>4. SubSeq(node[q].log, 1, i) = SubSeq(node[n].log, 1, i)
      <4>1. i \in DOMAIN node[q].log /\ i \in DOMAIN node[n].log
        BY <2>3, <3>1, <3>3
      <4>2. node[q].log[i].term = node[n].log[i].term
        BY <2>1, <2>2, <2>4, <3>3
      <4> QED
        BY <1>0, <4>1, <4>2
    <3>5. SubSeq(node[n].log, 1, i) = SubSeq(node'[n].log, 1, i)
      <4>1. i \in Nat /\ i <= Len(node[n].log) /\ i <= Len(node'[n].log)
        BY <2>3, <3>3
      <4>2. \A x \in 1 .. i : node[n].log[x] = node'[n].log[x]
        <5>1. \A x \in 1 .. i : x \in 1 .. k - 1
          BY <2>3, <3>3
        <5> QED
          BY <2>1, <5>1
      <4> QED
        BY <2>1, <2>3, <4>1, <4>2, SamePrefix
    <3> QED
      BY <2>2, <3>4, <3>5
  <2>5. ASSUME NEW m \in Nodes, NEW q \in Nodes,
               NEW i \in DOMAIN node'[m].log \intersect DOMAIN node'[q].log,
               node'[m].log[i].term = node'[q].log[i].term
        PROVE  SubSeq(node'[m].log, 1, i) = SubSeq(node'[q].log, 1, i)
    <3>1. CASE m = n /\ q = n
      BY <3>1
    <3>2. CASE m # n /\ q = n
      BY <2>4, <2>5, <3>2
    <3>3. CASE m = n /\ q # n
      <4>1. SubSeq(node'[q].log, 1, i) = SubSeq(node'[n].log, 1, i)
        BY <2>4, <2>5, <3>3
      <4> QED
        BY <3>3, <4>1
    <3>4. CASE m # n /\ q # n
      <4>1. node'[m].log = node[m].log /\ node'[q].log = node[q].log
        BY <2>2, <3>4
      <4>2. /\ i \in DOMAIN node[m].log \intersect DOMAIN node[q].log
            /\ node[m].log[i].term = node[q].log[i].term
        BY <2>5, <4>1
      <4>3. SubSeq(node[m].log, 1, i) = SubSeq(node[q].log, 1, i)
        BY <1>0, <4>2
      <4> QED
        BY <4>1, <4>3
    <3> QED
      BY <3>1, <3>2, <3>3, <3>4
  <2> QED
    BY <2>5 DEF LogMatching
<1> QED
  BY <1>1, <1>2, StepLogs

LEMMA EntryStep ==
  ASSUME RaftInv, TypeOK', [Next]_vars, NEW n \in Nodes, Moves(n), ElectsNone \/ Wins(n)
  PROVE  EntryInv'
<1>1. TypeOK /\ VoteInv /\ ElectionInv /\ EntryInv /\ LogMatching
  BY DEF RaftInv
<1>2. \A t \in 1 .. MaxTerm : elected[t] # {} => elected'[t] # {}
  BY <1>1 DEF ElectsNone, Wins, TypeOK
<1>3. \A q \in Nodes : node'[q].role = "leader" =>
        \/ node[q].role = "leader" /\ node'[q].term = node[q].term
        \/ elected[node'[q].term] = {}
  <2> SUFFICES ASSUME NEW q \in Nodes, node'[q].role = "leader"
               PROVE  \/ node[q].role = "leader" /\ node'[q].term = node[q].term
                      \/ elected[node'[q].term] = {}
    OBVIOUS
  <2>1. CASE ElectsNone
    BY <2>1 DEF ElectsNone
  <2>2. CASE Wins(n) /\ q = n
    BY <1>1, <2>2, FirstInTerm DEF Wins
  <2>3. CASE q # n
    BY <2>3 DEF Moves, Stays
  <2> QED
    BY <2>1, <2>2, <2>3
<1>4. CASE LogsMove
  <2> SUFFICES ASSUME NEW m \in Nodes, NEW i \in DOMAIN node'[m].log
               PROVE  /\ node'[m].log[i].term \in 1 .. MaxTerm
                      /\ elected'[node'[m].log[i].term] # {}
                      /\ \A q \in Nodes :
                           node'[q].role = "leader" /\ node'[m].log[i].term = node'[q].term
                             => /\ i \in DOMAIN node'[q].log
                                /\ node'[q].log[i].term = node'[q].term
    BY DEF EntryInv
  <2>1. PICK m0 \in Nodes : node'[m].log = node[m0].log
    BY <1>4 DEF LogsMove
  <2>2. /\ node'[m].log[i].term \in 1 .. MaxTerm /\ elected[node'[m].log[i].term] # {}
        /\ \A q \in Nodes :
             node[q].role = "leader" /\ node'[m].log[i].term = node[q].term
               => i \in DOMAIN node[q].log /\ node[q].log[i].term = node[q].term
    BY <1>1, <2>1 DEF EntryInv
  <2>3. ASSUME NEW q \in Nodes, node'[q].role = "leader", node'[m].log[i].term = node'[q].term
        PROVE  i \in DOMAIN node'[q].log /\ node'[q].log[i].term = node'[q].term
    <3>1. node[q].role = "leader" /\ node'[q].term = node[q].term
      BY <1>3, <2>2, <2>3
    <3>2. node'[q].log = node[q].log
      BY <1>4, <2>3 DEF LogsMove
    <3> QED
      BY <2>2, <2>3, <3>1, <3>2
  <2> QED
    BY <1>2, <2>2, <2>3
<1>5. ASSUME NEW p \in Nodes, NEW command \in Commands, Propose(p, command)
      PROVE  EntryInv'
  <2>0. PICK k : k = Len(node[p].log) + 1
    OBVIOUS
  <2>1. /\ node[p].role = "leader" /\ DOMAIN node'[p].log = 1 .. k
        /\ node'[p].log[k].term = node[p].term
        /\ \A i \in 1 .. k - 1 : node'[p].log[i] = node[p].log[i]
    BY <1>1, <1>5, <2>0, Proposed
  <2>2. /\ \A q \in Nodes \ {p} : node'[q] = node[q]
        /\ node'[p].role = "leader" /\ node'[p].term = node[p].term /\ elected' = elected
    BY <1>1, <1>5, ProposeStep
  <2>3. Len(node[p].log) \in Nat /\ DOMAIN node[p].log = 1 .. k - 1 /\ k \in Nat \ {0}
    BY <1>1, <2>0, LogTypes
  <2>4. node[p].term \in 1 .. MaxTerm /\ p \in elected[node[p].term]
    <3>1. Running(p) /\ node[p].term \in Nat
      BY <1>1, <2>1, Terms DEF Running
    <3> QED
      BY <1>1, <2>1, <3>1, RaftBoundsAssumption DEF VoteInv, ElectionInv
  <2>5. \A q \in Nodes : /\ node'[q].role = node[q].role /\ node'[q].term = node[q].term
                         /\ DOMAIN node[q].log \subseteq DOMAIN node'[q].log
                         /\ \A i \in DOMAIN node[q].log : node'[q].log[i] = node[q].log[i]
    <3> TAKE q \in Nodes
    <3>1. CASE q = p
      <4>1. 1 .. k - 1 \subseteq 1 .. k
        BY <2>3
      <4> QED
        BY <2>1, <2>2, <2>3, <3>1, <4>1
    <3>2. CASE q # p
      BY <2>2, <3>2
    <3> QED
      BY <3>1, <3>2
  <2>6. \A m \in Nodes : \A i \in DOMAIN node'[m].log :
          i \in DOMAIN node[m].log \/ (m = p /\ i = k)
    <3> TAKE m \in Nodes
    <3>1. CASE m = p
      <4>1. \A i \in 1 .. k : i \in 1 .. k - 1 \/ i = k
        BY <2>3
      <4> QED
        BY <2>1, <2>3, <3>1, <4>1
    <3>2. CASE m # p
      BY <2>2, <3>2
    <3> QED
      BY <3>1, <3>2
  <2>7. ASSUME NEW m \in Nodes, NEW i \in DOMAIN node'[m].log
        PROVE  /\ node'[m].log[i].term \in 1 .. MaxTerm
               /\ elected'[node'[m].log[i].term] # {}
               /\ \A q \in Nodes :
                    node'[q].role = "leader" /\ node'[m].log[i].term = node'[q].term
                      => /\ i \in DOMAIN node'[q].log
                         /\ node'[q].log[i].term = node'[q].term
    <3>1. CASE i \in DOMAIN node[m].log
      <4>1. node'[m].log[i] = node[m].log[i]
        BY <2>5, <3>1
      <4>2. /\ node[m].log[i].term \in 1 .. MaxTerm /\ elected[node[m].log[i].term] # {}
            /\ \A q \in Nodes :
                 node[q].role = "leader" /\ node[m].log[i].term = node[q].term
                   => i \in DOMAIN node[q].log /\ node[q].log[i].term = node[q].term
        BY <1>1, <3>1 DEF EntryInv
      <4>3. ASSUME NEW q \in Nodes, node'[q].role = "leader",
                   node'[m].log[i].term = node'[q].term
            PROVE  i \in DOMAIN node'[q].log /\ node'[q].log[i].term = node'[q].term
        <5>1. i \in DOMAIN node[q].log /\ node[q].log[i].term = node[q].term
          BY <2>5, <4>1, <4>2, <4>3
        <5> QED
          BY <2>5, <5>1
      <4> QED
        BY <2>2, <4>1, <4>2, <4>3
    <3>2. CASE m = p /\ i = k
      <4>1. node'[m].log[i].term = node[p].term
        BY <2>1, <3>2
      <4>2. ASSUME NEW q \in Nodes, node'[q].role = "leader", node[p].term = node'[q].term
            PROVE  q = p
        <5>1. node[q].role = "leader" /\ node[q].term = node[p].term
          BY <2>5, <4>2
        <5>2. q \in elected[node[p].term]
          BY <1>1, <5>1 DEF ElectionInv
        <5> QED
          BY <1>1, <2>4, <5>2 DEF ElectionInv
      <4>3. k \in DOMAIN node'[p].log
        BY <2>1, <2>3
      <4> QED
        BY <2>1, <2>2, <2>4, <3>2, <4>1, <4>2, <4>3
    <3> QED
      BY <2>6, <3>1, <3>2
  <2> QED
    BY <2>7 DEF EntryInv
<1> QED
  BY <1>1, <1>4, <1>5, StepLogs

-----------------------------------------------------------------------------
(* The theorems.                                                           *)

LEMMA RaftInit == Init => RaftInv
<1> SUFFICES ASSUME Init PROVE RaftInv
  OBVIOUS
<1>1. TypeOK
  BY TypeInit
<1>2. /\ \A n \in Nodes : /\ node[n].term = 0 /\ node[n].log = << >>
                          /\ node[n].role = "follower" /\ call[n].term = 0
      /\ \A t \in 1 .. MaxTerm : elected[t] = {}
  BY DEF Init, Loaded, Idle
<1>3. VoteInv
  BY <1>2, RaftBoundsAssumption DEF VoteInv, Running
<1>4. ElectionInv
  BY <1>2 DEF ElectionInv
<1>5. EntryInv
  BY <1>2 DEF EntryInv
<1>6. LogMatching
  BY <1>2 DEF LogMatching
<1> QED
  BY <1>1, <1>3, <1>4, <1>5, <1>6 DEF RaftInv

LEMMA RaftStep == RaftInv /\ [Next]_vars => RaftInv'
<1> SUFFICES ASSUME RaftInv, [Next]_vars PROVE RaftInv'
  OBVIOUS
<1>1. TypeOK /\ VoteInv /\ ElectionInv /\ EntryInv /\ LogMatching
  BY DEF RaftInv
<1>2. TypeOK'
  BY <1>1, StepCases
<1>3. PICK n \in Nodes : Moves(n) /\ (ElectsNone \/ Wins(n))
  BY <1>1, StepMoves
<1>4. VoteInv' /\ ElectionInv'
  BY <1>1, <1>2, <1>3, VoteStep, ElectionStep
<1>5. EntryInv' /\ LogMatching'
  BY <1>1, <1>2, <1>3, EntryStep, MatchStep
<1> QED
  BY <1>2, <1>4, <1>5 DEF RaftInv

\* RaftInv is inductive: votes bind, a majority elects once in a term, and every
\* entry of a term was its leader's first.
THEOREM RaftInvariant == Spec => []RaftInv
BY RaftInit, RaftStep, PTL DEF Spec

\* ElectionSafety, for any number of nodes and terms: no two nodes are elected in a
\* term, with lost requests, overtaking elections and restarts.
THEOREM ElectionSafetyHolds == Spec => []ElectionSafety
<1>1. RaftInv => ElectionSafety
  <2> SUFFICES ASSUME RaftInv, NEW t \in 1 .. MaxTerm
               PROVE  Cardinality(elected[t]) <= 1
    BY DEF ElectionSafety, RaftInv, TypeOK
  <2>1. \A m \in elected[t] : \A n \in elected[t] : n = m
    BY DEF RaftInv, ElectionInv
  <2>2. CASE elected[t] = {}
    BY <2>2, FS_EmptySet
  <2>3. ASSUME NEW m \in elected[t] PROVE Cardinality(elected[t]) <= 1
    <3>1. elected[t] = {m}
      BY <2>1
    <3>2. Cardinality({m}) = 1
      BY FS_Singleton
    <3> QED
      BY <3>1, <3>2
  <2> QED
    BY <2>2, <2>3
<1> QED
  BY RaftInvariant, <1>1, PTL

\* LogMatching, for logs of any length: logs with the same term at a position agree
\* up to it, although a merge keeps what it finds with the same term.
THEOREM LogMatchingHolds == Spec => []LogMatching
<1>1. RaftInv => LogMatching
  BY DEF RaftInv
<1> QED
  BY RaftInvariant, <1>1, PTL

=============================================================================
