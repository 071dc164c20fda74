---------------------------- MODULE Services_proofs ----------------------------
(***************************************************************************)
(* Proofs about the Services, for any sets and any bounds: backups,        *)
(* identities, the agent memory and the rate limiter.                      *)
(***************************************************************************)
EXTENDS Services, SequenceTheorems, FiniteSetTheorems, WellFoundedInduction, TLAPS

-----------------------------------------------------------------------------
(* Memory: the rows that upsert keeps and those that a request sees.       *)

\* The filter over the first n rows, as a function of how many.
Filters(g, n, seen, Places) ==
  g = [i \in 0 .. n |->
        IF i = 0 THEN << >>
        ELSE IF i \in Places THEN Append(g[i - 1], seen[i]) ELSE g[i - 1]]

\* What g has kept of the first n rows: those at Places, each as often
\* as it is there.
KeptOf(g, n, seen, Places) ==
  /\ g[n] \in Seq(Memory!Memory)
  /\ \A i \in DOMAIN g[n] : \E j \in 1 .. n : g[n][i] = seen[j] /\ j \in Places
  /\ \A j \in 1 .. n : j \in Places => \E i \in DOMAIN g[n] : g[n][i] = seen[j]
  /\ (\A i, j \in 1 .. n : seen[i].id = seen[j].id => i = j)
       => \A i, j \in DOMAIN g[n] : g[n][i].id = g[n][j].id => i = j

\* A nonempty set of naturals has a least element.
LEMMA LeastNat ==
  ASSUME NEW S \in SUBSET Nat, S # {}
  PROVE  \E m \in S : \A y \in S : m <= y
<1> DEFINE R == OpToRel(<, Nat)
<1>1. IsWellFoundedOn(R, Nat)
  BY NatLessThanWellFounded
<1>2. PICK m \in S : \A y \in S : ~(<<y, m>> \in R)
  <2> HIDE DEF R
  <2> QED
    BY <1>1, WFMin
<1>3. \A y \in S : y \in Nat /\ m \in Nat /\ ~(y < m)
  BY <1>2 DEF OpToRel
<1> QED
  BY <1>3

\* The recursive function of Kept exists, by induction on the number of rows.
LEMMA FilterExists ==
  ASSUME NEW seen \in Seq(Memory!Memory), NEW Places, NEW n \in Nat
  PROVE  \E g : Filters(g, n, seen, Places)
<1> DEFINE S == {k \in Nat : ~\E g : Filters(g, k, seen, Places)}
<1> SUFFICES ASSUME S # {} PROVE FALSE
  OBVIOUS
<1>1. PICK k \in S : \A y \in S : k <= y
  <2>1. S \in SUBSET Nat
    OBVIOUS
  <2> HIDE DEF S
  <2> QED
    BY <2>1, LeastNat
<1>2. k # 0
  <2>1. Filters([i \in 0 .. 0 |-> << >>], 0, seen, Places)
    BY DEF Filters
  <2> QED
    BY <1>1, <2>1
<1>3. k - 1 \in Nat /\ k \in Nat \ {0}
  BY <1>1, <1>2
<1>4. PICK g : Filters(g, k - 1, seen, Places)
  <2>1. k - 1 \notin S
    BY <1>1, <1>3
  <2> QED
    BY <1>3, <2>1
<1> DEFINE last == IF k \in Places THEN Append(g[k - 1], seen[k]) ELSE g[k - 1]
           h == [i \in 0 .. k |-> IF i < k THEN g[i] ELSE last]
<1>5. \A i \in 0 .. k - 1 : h[i] = g[i]
  BY <1>3
<1>6. h[k] = last
  BY <1>3
<1>7. \A i \in 0 .. k : h[i] =
        IF i = 0 THEN << >>
        ELSE IF i \in Places THEN Append(h[i - 1], seen[i]) ELSE h[i - 1]
  <2> SUFFICES ASSUME NEW i \in 0 .. k
               PROVE  h[i] = IF i = 0 THEN << >>
                             ELSE IF i \in Places THEN Append(h[i - 1], seen[i]) ELSE h[i - 1]
    OBVIOUS
  <2>1. CASE i = k
    <3>1. h[k - 1] = g[k - 1]
      BY <1>3, <1>5
    <3> HIDE DEF h
    <3> QED
      BY <1>3, <1>6, <2>1, <3>1
  <2>2. CASE i # k
    <3>1. i \in 0 .. k - 1 /\ (i # 0 => i - 1 \in 0 .. k - 1)
      BY <1>3, <2>2
    <3>2. g[i] = IF i = 0 THEN << >>
                 ELSE IF i \in Places THEN Append(g[i - 1], seen[i]) ELSE g[i - 1]
      BY <1>4, <3>1 DEF Filters
    <3> HIDE DEF h
    <3> QED
      BY <1>5, <3>1, <3>2
  <2> QED
    BY <2>1, <2>2
<1>8. h = [i \in 0 .. k |->
            IF i = 0 THEN << >>
            ELSE IF i \in Places THEN Append(h[i - 1], seen[i]) ELSE h[i - 1]]
  <2>1. h = [i \in 0 .. k |-> h[i]]
    OBVIOUS
  <2> HIDE DEF h
  <2> QED
    BY <1>7, <2>1
<1>9. Filters(h, k, seen, Places)
  BY <1>8 DEF Filters
<1> QED
  BY <1>1, <1>9

\* One more at the end of a sequence.
Longer(r, q, e) ==
  /\ DOMAIN q = 1 .. Len(q) /\ DOMAIN r = 1 .. Len(q) + 1 /\ Len(q) \in Nat
  /\ Len(r) = Len(q) + 1
  /\ \A i \in 1 .. Len(q) : r[i] = q[i]
  /\ r[Len(q) + 1] = e

\* That is what Append does.
LEMMA AppendFacts ==
  ASSUME NEW S, NEW q \in Seq(S), NEW e \in S
  PROVE  Append(q, e) \in Seq(S) /\ Longer(Append(q, e), q, e)
<1> DEFINE r == Append(q, e)
<1>1. /\ r \in Seq(S) /\ Len(r) = Len(q) + 1
      /\ \A i \in 1 .. Len(q) : r[i] = q[i]
      /\ r[Len(q) + 1] = e
  BY AppendProperties
<1> HIDE DEF r
<1>2. DOMAIN q = 1 .. Len(q) /\ DOMAIN r = 1 .. Len(r) /\ Len(q) \in Nat
  BY <1>1
<1>3. r \in Seq(S) /\ Longer(r, q, e)
  BY <1>1, <1>2 DEF Longer
<1> QED
  BY <1>3 DEF r

\* What such a function has kept, by induction again.
LEMMA FilterKeeps ==
  ASSUME NEW seen \in Seq(Memory!Memory), NEW Places, NEW g, Filters(g, Len(seen), seen, Places)
  PROVE  \A n \in 0 .. Len(seen) : KeptOf(g, n, seen, Places)
<1> DEFINE S == {k \in 0 .. Len(seen) : ~KeptOf(g, k, seen, Places)}
<1> SUFFICES ASSUME S # {} PROVE FALSE
  OBVIOUS
<1>0. Len(seen) \in Nat /\ \A j \in 1 .. Len(seen) : seen[j] \in Memory!Memory
  OBVIOUS
<1>1. PICK k \in S : \A y \in S : k <= y
  <2>1. S \in SUBSET Nat
    BY <1>0
  <2> HIDE DEF S
  <2> QED
    BY <2>1, LeastNat
<1>2. k # 0
  <2>1. g[0] = << >>
    BY <1>0 DEF Filters
  <2>2. KeptOf(g, 0, seen, Places)
    BY <2>1 DEF KeptOf
  <2> QED
    BY <1>1, <2>2
<1>3. k - 1 \in 0 .. Len(seen) /\ k \in 1 .. Len(seen) /\ k \in Nat
  BY <1>0, <1>1, <1>2
<1>4. KeptOf(g, k - 1, seen, Places)
  <2>1. k - 1 \notin S
    BY <1>1, <1>3
  <2> QED
    BY <1>3, <2>1
<1>5. g[k] = IF k \in Places THEN Append(g[k - 1], seen[k]) ELSE g[k - 1]
  <2>1. \A i \in 0 .. Len(seen) : g[i] =
          IF i = 0 THEN << >>
          ELSE IF i \in Places THEN Append(g[i - 1], seen[i]) ELSE g[i - 1]
    BY DEF Filters
  <2>2. k \in 0 .. Len(seen) /\ k # 0
    BY <1>2, <1>3
  <2> QED
    BY <2>1, <2>2
<1>6. PICK s : s = g[k - 1]
  OBVIOUS
<1>7. /\ s \in Seq(Memory!Memory) /\ Len(s) \in Nat
      /\ \A i \in DOMAIN s : \E j \in 1 .. k - 1 : s[i] = seen[j] /\ j \in Places
      /\ \A j \in 1 .. k - 1 : j \in Places => \E i \in DOMAIN s : s[i] = seen[j]
      /\ (\A i, j \in 1 .. k - 1 : seen[i].id = seen[j].id => i = j)
           => \A i, j \in DOMAIN s : s[i].id = s[j].id => i = j
  BY <1>4, <1>6 DEF KeptOf
<1>8. \A j \in 1 .. k : j = k \/ j \in 1 .. k - 1
  BY <1>3
<1>9. \A j \in 1 .. k - 1 : j \in 1 .. k /\ j # k
  BY <1>3
<1>10. CASE k \notin Places
  <2>1. g[k] = s
    BY <1>5, <1>6, <1>10
  <2>2. KeptOf(g, k, seen, Places)
    BY <1>7, <1>8, <1>9, <1>10, <2>1 DEF KeptOf
  <2> QED
    BY <1>1, <2>2
<1>11. CASE k \in Places
  <2>1. PICK r : r = g[k]
    OBVIOUS
  <2>2. r = Append(s, seen[k]) /\ seen[k] \in Memory!Memory
    BY <1>0, <1>3, <1>5, <1>6, <1>11, <2>1
  <2>3. /\ r \in Seq(Memory!Memory) /\ Len(r) = Len(s) + 1
        /\ r[Len(r)] = seen[k] /\ Len(r) \in DOMAIN r
        /\ \A i \in DOMAIN s : i \in DOMAIN r /\ r[i] = s[i]
        /\ \A i \in DOMAIN r : i = Len(r) \/ i \in DOMAIN s
    <3>1. r \in Seq(Memory!Memory) /\ Longer(r, s, seen[k])
      BY <1>7, <2>2, AppendFacts
    <3> QED
      BY <3>1 DEF Longer
  <2>4. ASSUME NEW i \in DOMAIN r
        PROVE  \E j \in 1 .. k : r[i] = seen[j] /\ j \in Places
    <3>1. CASE i = Len(r)
      BY <1>3, <1>11, <2>3, <3>1
    <3>2. CASE i \in DOMAIN s
      BY <1>7, <1>9, <2>3, <3>2
    <3> QED
      BY <2>3, <3>1, <3>2
  <2>5. ASSUME NEW j \in 1 .. k, j \in Places
        PROVE  \E i \in DOMAIN r : r[i] = seen[j]
    <3>1. CASE j = k
      BY <2>3, <3>1
    <3>2. CASE j \in 1 .. k - 1
      <4>1. PICK i \in DOMAIN s : s[i] = seen[j]
        BY <1>7, <2>5, <3>2
      <4> QED
        BY <2>3, <4>1
    <3> QED
      BY <1>8, <3>1, <3>2
  <2>6. ASSUME \A i, j \in 1 .. k : seen[i].id = seen[j].id => i = j
        PROVE  \A i, j \in DOMAIN r : r[i].id = r[j].id => i = j
    <3>1. \A i, j \in DOMAIN s : s[i].id = s[j].id => i = j
      BY <1>7, <1>9, <2>6
    <3>2. ASSUME NEW i \in DOMAIN s
          PROVE  s[i].id # seen[k].id
      <4>1. PICK j \in 1 .. k - 1 : s[i] = seen[j]
        BY <1>7
      <4>2. j \in 1 .. k /\ k \in 1 .. k /\ j # k
        BY <1>3, <1>9
      <4> QED
        BY <2>6, <4>1, <4>2
    <3> QED
      BY <2>3, <3>1, <3>2
  <2>7. KeptOf(g, k, seen, Places)
    BY <2>1, <2>3, <2>4, <2>5, <2>6 DEF KeptOf
  <2> QED
    BY <1>1, <2>7
<1> QED
  BY <1>10, <1>11

\* The rows r are those of seen at Places.
KeepsPlaces(r, seen, Places) ==
  /\ r \in Seq(Memory!Memory)
  /\ \A i \in DOMAIN r : \E j \in 1 .. Len(seen) : r[i] = seen[j] /\ j \in Places
  /\ \A j \in 1 .. Len(seen) : j \in Places => \E i \in DOMAIN r : r[i] = seen[j]
  /\ (\A i, j \in 1 .. Len(seen) : seen[i].id = seen[j].id => i = j)
       => \A i, j \in DOMAIN r : r[i].id = r[j].id => i = j

\* That is what Filtered keeps.
LEMMA FilteredFacts ==
  ASSUME NEW seen \in Seq(Memory!Memory), NEW Places
  PROVE  KeepsPlaces(Memory!Filtered(seen, Places), seen, Places)
<1> DEFINE kept == CHOOSE g : Filters(g, Len(seen), seen, Places)
<1>1. Len(seen) \in Nat /\ Len(seen) \in 0 .. Len(seen)
  OBVIOUS
<1>2. Filters(kept, Len(seen), seen, Places)
  BY <1>1, FilterExists
<1>3. Memory!Filtered(seen, Places) = kept[Len(seen)]
  BY DEF Memory!Filtered, Filters
<1> HIDE DEF kept
<1>4. KeptOf(kept, Len(seen), seen, Places)
  BY <1>1, <1>2, FilterKeeps
<1>5. KeepsPlaces(kept[Len(seen)], seen, Places)
  BY <1>4 DEF KeptOf, KeepsPlaces
<1> QED
  BY <1>3, <1>5

\* What upsert leaves in the table: each row that may stay, once if it was there once.
Keeps(m, row) == m.id # row.id /\ m.expires > row.created

KeepsRows(kept, seen, row) ==
  /\ kept \in Seq(Memory!Memory)
  /\ \A i \in DOMAIN kept : kept[i].id # row.id
  /\ \A j \in DOMAIN seen : Keeps(seen[j], row) => \E i \in DOMAIN kept : kept[i] = seen[j]
  /\ (\A i, j \in DOMAIN seen : seen[i].id = seen[j].id => i = j)
       => \A i, j \in DOMAIN kept : kept[i].id = kept[j].id => i = j

\* Kept does so.
LEMMA KeptFacts ==
  ASSUME NEW seen \in Seq(Memory!Memory), NEW row
  PROVE  KeepsRows(Memory!Kept(seen, row), seen, row)
<1> DEFINE Places == {i \in DOMAIN seen : seen[i].id # row.id /\ seen[i].expires > row.created}
<1>1. PICK r : r = Memory!Kept(seen, row)
  OBVIOUS
<1>2. DOMAIN seen = 1 .. Len(seen)
  OBVIOUS
<1>3. KeepsPlaces(r, seen, Places)
  <2>1. r = Memory!Filtered(seen, Places)
    BY <1>1 DEF Memory!Kept
  <2> HIDE DEF Places
  <2> QED
    BY <2>1, FilteredFacts
<1>4. \A i \in DOMAIN r : r[i].id # row.id
  BY <1>3 DEF KeepsPlaces
<1>5. \A j \in 1 .. Len(seen) : Keeps(seen[j], row) => j \in Places
  BY <1>2 DEF Keeps
<1> HIDE DEF Places
<1>6. KeepsRows(r, seen, row)
  BY <1>2, <1>3, <1>4, <1>5 DEF KeepsRows, KeepsPlaces
<1> QED
  BY <1>1, <1>6

-----------------------------------------------------------------------------
(* Memory: what the transactions know.                                     *)

Calls == [at : {"idle", "row", "transaction"}, row : Memory!Memory \union {NoMemory},
          seen : Seq(Memory!Memory), doomed : BOOLEAN]

MemoryTypes ==
  /\ time \in Nat /\ memories \in Seq(Memory!Memory)
  /\ acked \in [Ids -> Memory!Memory \union {NoMemory}]
  /\ call \in [Agents -> Calls]

\* What was acknowledged of an id is a memory of that id.
AckedInv == \A id \in Ids : acked[id] # NoMemory => acked[id].id = id

\* A request was made before now, and a transaction that may still commit has seen
\* the table as it is.
CallsInv ==
  \A a \in Agents :
    /\ call[a].at # "idle" => call[a].row \in Memory!Memory /\ call[a].row.created <= time
    /\ call[a].at = "transaction" /\ ~call[a].doomed => call[a].seen = memories

MemoryInv == MemoryTypes /\ AckedInv /\ CallsInv /\ AckedRetrievable

\* The invariant holds of the empty table.
LEMMA InitMemory ==
  ASSUME ServicesAssumption, Memory!Init
  PROVE  MemoryInv
BY DEF Memory!Init, MemoryInv, MemoryTypes, AckedInv, CallsInv, AckedRetrievable,
  Memory!AckedRetrievable, Calls, Memory!NoCall

\* Time passes: memories expire, nothing else changes.
LEMMA TickMemory ==
  ASSUME MemoryInv, Memory!Tick
  PROVE  MemoryInv'
<1> USE DEF Memory!Tick, MemoryInv
<1>1. MemoryTypes' /\ AckedInv'
  BY DEF MemoryTypes, AckedInv
<1>2. CallsInv'
  <2>1. ASSUME NEW a \in Agents, call[a].row \in Memory!Memory, call[a].row.created <= time
        PROVE  call[a].row.created <= time + 1
    BY <2>1 DEF MemoryTypes, Memory!Memory
  <2> QED
    BY <2>1 DEF CallsInv
<1>3. AckedRetrievable'
  <2>1. ASSUME NEW id \in Ids, acked[id] # NoMemory, acked[id].expires > time + 1
        PROVE  acked[id].expires > time
    BY <2>1 DEF MemoryTypes, Memory!Memory
  <2> QED
    BY <2>1 DEF AckedRetrievable, Memory!AckedRetrievable
<1> QED
  BY <1>1, <1>2, <1>3

\* A request is made, at this time (memory.py:196-205).
LEMMA UpsertMemory ==
  ASSUME ServicesAssumption, MemoryInv, NEW a \in Agents, NEW id \in Ids, NEW scope \in Scopes,
         NEW ttl \in Ttls, Memory!Upsert(a, id, scope, ttl)
  PROVE  MemoryInv'
<1> DEFINE row == [id |-> id, scope |-> scope, by |-> a, created |-> time,
                   expires |-> time + ttl]
           new == [at |-> "row", seen |-> << >>, doomed |-> FALSE, row |-> row]
<1>1. row \in Memory!Memory /\ row.created <= time
  BY DEF MemoryInv, MemoryTypes, ServicesAssumption, Memory!MemoryAssumption, Memory!Memory
<1>2. call' = [call EXCEPT ![a] = new] /\ UNCHANGED <<time, memories, acked>>
  BY DEF Memory!Upsert
<1> HIDE DEF row
<1>3. new \in Calls /\ new.at = "row" /\ new.row = row
  BY <1>1 DEF Calls
<1> HIDE DEF new
<1>4. MemoryTypes'
  BY <1>2, <1>3 DEF MemoryInv, MemoryTypes
<1>5. CallsInv'
  BY <1>1, <1>2, <1>3 DEF MemoryInv, MemoryTypes, CallsInv
<1>6. AckedInv' /\ AckedRetrievable'
  BY <1>2 DEF MemoryInv, AckedInv, AckedRetrievable, Memory!AckedRetrievable
<1> QED
  BY <1>4, <1>5, <1>6 DEF MemoryInv

\* The transaction begins and sees the table as it is.
LEMMA BeginMemory ==
  ASSUME MemoryInv, NEW a \in Agents, Memory!Begin(a)
  PROVE  MemoryInv'
<1>1. MemoryTypes'
  BY DEF MemoryInv, MemoryTypes, Memory!Begin, Calls
<1>2. CallsInv'
  BY DEF MemoryInv, MemoryTypes, CallsInv, Memory!Begin, Calls
<1>3. AckedInv' /\ AckedRetrievable'
  BY DEF MemoryInv, AckedInv, AckedRetrievable, Memory!AckedRetrievable, Memory!Begin
<1> QED
  BY <1>1, <1>2, <1>3 DEF MemoryInv

\* A request that is refused, or conflicts, leaves no trace.
LEMMA FailMemory ==
  ASSUME MemoryInv, NEW a \in Agents, Memory!Refuse(a) \/ Memory!Conflict(a)
  PROVE  MemoryInv'
<1>1. call' = [call EXCEPT ![a] = Memory!NoCall] /\ UNCHANGED <<time, memories, acked>>
  BY DEF Memory!Refuse, Memory!Conflict
<1>2. Memory!NoCall \in Calls /\ Memory!NoCall.at = "idle"
  BY DEF Memory!NoCall, Calls
<1>3. MemoryTypes'
  BY <1>1, <1>2 DEF MemoryInv, MemoryTypes
<1>4. CallsInv'
  BY <1>1, <1>2 DEF MemoryInv, MemoryTypes, CallsInv
<1>5. AckedInv' /\ AckedRetrievable'
  BY <1>1 DEF MemoryInv, AckedInv, AckedRetrievable, Memory!AckedRetrievable
<1> QED
  BY <1>3, <1>4, <1>5 DEF MemoryInv

\* After a commit of a thread it is idle and no transaction may commit any more.
LEMMA CommitsCalls ==
  ASSUME MemoryTypes, CallsInv, NEW a \in Agents, Memory!Commits(a), UNCHANGED time
  PROVE  call' \in [Agents -> Calls] /\ CallsInv'
<1>1. ASSUME NEW b \in Agents
      PROVE  /\ call'[b] \in Calls
             /\ call'[b].at = "transaction" => call'[b].doomed
             /\ call'[b].at # "idle" => call'[b].row = call[b].row /\ call[b].at # "idle"
  <2>1. CASE b = a
    BY <2>1 DEF Memory!Commits, Memory!NoCall, Calls
  <2>2. CASE b # a
    <3>1. call'[b] = [call[b] EXCEPT !.doomed = call[b].at = "transaction"]
      BY <2>2 DEF Memory!Commits
    <3>2. call[b] \in Calls /\ (call[b].at = "transaction") \in BOOLEAN
      BY DEF MemoryTypes
    <3> QED
      BY <3>1, <3>2 DEF Calls
  <2> QED
    BY <2>1, <2>2
<1>2. call' \in [Agents -> Calls]
  <2>1. call' = [b \in Agents |-> call'[b]]
    BY DEF Memory!Commits
  <2> QED
    BY <1>1, <2>1
<1>3. CallsInv'
  BY <1>1 DEF CallsInv
<1> QED
  BY <1>2, <1>3

\* audit dooms the transactions, without touching the memories (memory.py:286-303).
LEMMA AuditMemory ==
  ASSUME MemoryInv, NEW a \in Agents, Memory!Audit(a)
  PROVE  MemoryInv'
<1>1. call' \in [Agents -> Calls] /\ CallsInv' /\ UNCHANGED <<time, memories, acked>>
  BY CommitsCalls DEF MemoryInv, Memory!Audit
<1> QED
  BY <1>1 DEF MemoryInv, MemoryTypes, AckedInv, AckedRetrievable, Memory!AckedRetrievable

\* A commit of upsert keeps what was acknowledged of the other ids, as its transaction
\* has seen the last table, and puts its own memory there once (memory.py:206-228).
LEMMA CommitMemory ==
  ASSUME MemoryInv, NEW a \in Agents, Memory!Commit(a)
  PROVE  MemoryInv'
<1> DEFINE row == call[a].row
           kept == Memory!Kept(memories, row)
<1>1. /\ row \in Memory!Memory /\ row.created <= time /\ row.created \in Nat /\ row.id \in Ids
      /\ call[a].seen = memories
  BY DEF MemoryInv, MemoryTypes, CallsInv, Memory!Commit, Memory!Doomed, Memory!Memory
<1>2. /\ memories' = Append(kept, row) /\ acked' = [acked EXCEPT ![row.id] = row]
      /\ Memory!Commits(a) /\ UNCHANGED time
  BY <1>1 DEF Memory!Commit, Memory!Written
<1>3. memories \in Seq(Memory!Memory) /\ time \in Nat
  BY DEF MemoryInv, MemoryTypes
<1> HIDE DEF row, kept
<1>4. /\ kept \in Seq(Memory!Memory)
      /\ \A i \in DOMAIN kept : kept[i].id # row.id
      /\ \A j \in DOMAIN memories :
           Keeps(memories[j], row) => \E i \in DOMAIN kept : kept[i] = memories[j]
      /\ \A i, j \in DOMAIN kept : kept[i].id = kept[j].id => i = j
  <2>1. \A i, j \in DOMAIN memories : memories[i].id = memories[j].id => i = j
    BY DEF MemoryInv, AckedRetrievable, Memory!AckedRetrievable
  <2>2. KeepsRows(kept, memories, row)
    BY <1>3, KeptFacts DEF kept
  <2> QED
    BY <2>1, <2>2 DEF KeepsRows
<1>5. /\ memories' \in Seq(Memory!Memory) /\ Len(memories') \in DOMAIN memories'
      /\ memories'[Len(memories')] = row
      /\ \A i \in DOMAIN kept : i \in DOMAIN memories' /\ memories'[i] = kept[i]
      /\ \A i \in DOMAIN memories' : i = Len(memories') \/ i \in DOMAIN kept
  BY <1>1, <1>2, <1>4
<1>6. call' \in [Agents -> Calls] /\ CallsInv'
  BY <1>2, CommitsCalls DEF MemoryInv
<1>7. acked' \in [Ids -> Memory!Memory \union {NoMemory}]
  BY <1>1, <1>2 DEF MemoryInv, MemoryTypes
<1>8. MemoryTypes'
  BY <1>2, <1>3, <1>5, <1>6, <1>7 DEF MemoryTypes
<1>9. AckedInv'
  BY <1>1, <1>2 DEF MemoryInv, MemoryTypes, AckedInv
<1>10. \A i, j \in DOMAIN memories' : memories'[i].id = memories'[j].id => i = j
  BY <1>4, <1>5
<1>11. ASSUME NEW id \in Ids, acked'[id] # NoMemory, acked'[id].expires > time
       PROVE  \E i \in DOMAIN memories' : memories'[i] = acked'[id]
  <2>1. CASE id = row.id
    BY <1>2, <1>5, <2>1 DEF MemoryInv, MemoryTypes
  <2>2. CASE id # row.id
    <3>1. acked'[id] = acked[id]
      BY <1>2, <2>2 DEF MemoryInv, MemoryTypes
    <3>2. PICK j \in DOMAIN memories : memories[j] = acked[id]
      BY <1>11, <3>1 DEF MemoryInv, AckedRetrievable, Memory!AckedRetrievable
    <3>3. memories[j].id # row.id
      BY <1>11, <2>2, <3>1, <3>2 DEF MemoryInv, AckedInv
    <3>4. memories[j].expires > row.created
      <4>1. memories[j].expires \in Nat /\ memories[j].expires > time
        <5>1. memories[j] \in Memory!Memory
          BY <1>3
        <5> QED
          BY <1>11, <3>1, <3>2, <5>1 DEF Memory!Memory
      <4> QED
        BY <1>1, <1>3, <4>1
    <3> QED
      BY <1>4, <1>5, <3>1, <3>2, <3>3, <3>4 DEF Keeps
  <2> QED
    BY <2>1, <2>2
<1>12. AckedRetrievable'
  BY <1>2, <1>10, <1>11 DEF AckedRetrievable, Memory!AckedRetrievable
<1> QED
  BY <1>6, <1>8, <1>9, <1>12 DEF MemoryInv

\* The inductive step, under the steps of the others too.
LEMMA MemoryInvStep ==
  ASSUME ServicesAssumption, MemoryInv, [ServicesNext]_<<part, gate, admin, memory, copies>>
  PROVE  MemoryInv'
<1>1. CASE UNCHANGED memory
  BY <1>1 DEF memory, MemoryInv, MemoryTypes, AckedInv, CallsInv, AckedRetrievable,
    Memory!AckedRetrievable
<1>2. CASE Memory!Next
  BY <1>2, TickMemory, UpsertMemory, BeginMemory, FailMemory, AuditMemory, CommitMemory
    DEF Memory!Next
<1> QED
  BY <1>1, <1>2 DEF ServicesNext, GateStep, AdminStep, MemoryStep, CopiesStep

\* A memory whose upsert returned is in the table once and as it was sent, until it
\* expires or another upsert of its id returns, for any number of threads, ids and
\* upserts (memory.py:201-224).
THEOREM AckedRetrievableHolds ==
  ASSUME ServicesAssumption
  PROVE  ServicesSpec => []AckedRetrievable
<1>1. ServicesInit => MemoryInv
  BY InitMemory DEF ServicesInit
<1>2. MemoryInv => AckedRetrievable
  BY DEF MemoryInv
<1> QED
  BY <1>1, <1>2, MemoryInvStep, PTL DEF ServicesSpec

-----------------------------------------------------------------------------
(* Memory: what recent and search answer.                                  *)

\* A strict order of the first n numbers in which any two can be compared.
Orders(R, n) ==
  /\ \A i \in 1 .. n : <<i, i>> \notin R
  /\ \A i, j \in 1 .. n : i # j => <<i, j>> \in R \/ <<j, i>> \in R
  /\ \A i, j, k \in 1 .. n : <<i, j>> \in R /\ <<j, k>> \in R => <<i, k>> \in R

Before(R, n, i) == {j \in 1 .. n : <<j, i>> \in R}

\* The number with k - 1 others before it.
Place(R, n, k) == CHOOSE i \in 1 .. n : Cardinality(Before(R, n, i)) = k - 1

\* How many are before a number grows along the order.
LEMMA BeforeGrows ==
  ASSUME NEW n \in Nat, NEW R, Orders(R, n)
  PROVE  /\ \A i \in 1 .. n : Cardinality(Before(R, n, i)) \in 0 .. n - 1
         /\ \A i, j \in 1 .. n : <<i, j>> \in R =>
              Cardinality(Before(R, n, i)) < Cardinality(Before(R, n, j))
<1>1. IsFiniteSet(1 .. n) /\ Cardinality(1 .. n) = n
  <2>1. 1 \in Int /\ n \in Int /\ (IF 1 > n THEN 0 ELSE n - 1 + 1) = n
    OBVIOUS
  <2> QED
    BY <2>1, FS_Interval
<1>2. ASSUME NEW i \in 1 .. n
      PROVE  /\ IsFiniteSet(Before(R, n, i)) /\ Cardinality(Before(R, n, i)) \in Nat
             /\ Cardinality(Before(R, n, i)) < n
  <2>1. Before(R, n, i) \subseteq 1 .. n /\ Before(R, n, i) # 1 .. n
    BY DEF Before, Orders
  <2> QED
    BY <1>1, <2>1, FS_Subset, FS_CardinalityType
<1>3. ASSUME NEW i \in 1 .. n, NEW j \in 1 .. n, <<i, j>> \in R
      PROVE  Cardinality(Before(R, n, i)) < Cardinality(Before(R, n, j))
  <2>1. Before(R, n, i) \subseteq Before(R, n, j)
    BY <1>3 DEF Before, Orders
  <2>2. i \in Before(R, n, j) /\ i \notin Before(R, n, i)
    BY <1>3 DEF Before, Orders
  <2> QED
    BY <1>2, <2>1, <2>2, FS_Subset, FS_CardinalityType
<1> QED
  BY <1>2, <1>3

\* So each place is taken by one number, and the places follow the order.
LEMMA PlaceFacts ==
  ASSUME NEW n \in Nat, NEW R, Orders(R, n)
  PROVE  /\ \A k \in 1 .. n : /\ Place(R, n, k) \in 1 .. n
                              /\ Cardinality(Before(R, n, Place(R, n, k))) = k - 1
         /\ \A k, i \in 1 .. n : Cardinality(Before(R, n, i)) = k - 1 => i = Place(R, n, k)
         /\ \A i \in 1 .. n : \E k \in 1 .. n : Place(R, n, k) = i
         /\ \A k, l \in 1 .. n : k < l => <<Place(R, n, l), Place(R, n, k)>> \notin R
<1>0. PICK rank : rank = [i \in 1 .. n |-> Cardinality(Before(R, n, i))]
  OBVIOUS
<1>1. \A i \in 1 .. n : rank[i] \in 0 .. n - 1
  BY <1>0, BeforeGrows
<1>2. \A i, j \in 1 .. n : <<i, j>> \in R => rank[i] < rank[j]
  BY <1>0, BeforeGrows
<1>3. ASSUME NEW i \in 1 .. n, NEW j \in 1 .. n, rank[i] = rank[j]
      PROVE  i = j
  <2>1. rank[i] \in Int /\ rank[j] \in Int /\ ~(rank[i] < rank[j]) /\ ~(rank[j] < rank[i])
    BY <1>1, <1>3
  <2>2. <<i, j>> \notin R /\ <<j, i>> \notin R
    BY <1>2, <2>1
  <2> QED
    BY <2>2 DEF Orders
<1>4. ASSUME NEW k \in 1 .. n
      PROVE  \E i \in 1 .. n : rank[i] = k - 1
  <2> SUFFICES ASSUME \A i \in 1 .. n : rank[i] # k - 1 PROVE FALSE
    OBVIOUS
  <2> DEFINE T == (0 .. n - 1) \ {k - 1}
             f == [i \in 1 .. n |-> rank[i]]
  <2>1. IsFiniteSet(1 .. n) /\ Cardinality(1 .. n) = n
    <3>1. 1 \in Int /\ n \in Int /\ (IF 1 > n THEN 0 ELSE n - 1 + 1) = n
      OBVIOUS
    <3> QED
      BY <3>1, FS_Interval
  <2>2. IsFiniteSet(0 .. n - 1) /\ Cardinality(0 .. n - 1) = n
    <3>1. 0 \in Int /\ n - 1 \in Int /\ (IF 0 > n - 1 THEN 0 ELSE n - 1 - 0 + 1) = n
      OBVIOUS
    <3> QED
      BY <3>1, FS_Interval
  <2>3. IsFiniteSet(T) /\ Cardinality(T) = n - 1
    <3>1. k - 1 \in 0 .. n - 1
      OBVIOUS
    <3> QED
      BY <2>2, <3>1, FS_RemoveElement
  <2>4. f \in [1 .. n -> T]
    BY <1>1
  <2>5. n - 1 < n
    OBVIOUS
  <2> HIDE DEF T, f
  <2>6. \E i, j \in 1 .. n : i # j /\ f[i] = f[j]
    BY <2>1, <2>3, <2>4, <2>5, FS_PigeonHole
  <2> QED
    BY <1>3, <2>6 DEF f
<1>5. \A k \in 1 .. n : Place(R, n, k) \in 1 .. n /\ rank[Place(R, n, k)] = k - 1
  BY <1>0, <1>4 DEF Place
<1>6. ASSUME NEW i \in 1 .. n
      PROVE  \E k \in 1 .. n : Place(R, n, k) = i
  <2>1. PICK k \in 1 .. n : k - 1 = rank[i]
    <3>1. PICK k : k = rank[i] + 1
      OBVIOUS
    <3>2. k \in 1 .. n /\ k - 1 = rank[i]
      BY <1>1, <3>1
    <3> QED
      BY <3>2
  <2>2. Place(R, n, k) \in 1 .. n /\ rank[Place(R, n, k)] = rank[i]
    BY <1>5, <2>1
  <2> QED
    BY <1>3, <2>2
<1>7. ASSUME NEW k \in 1 .. n, NEW l \in 1 .. n, k < l
      PROVE  <<Place(R, n, l), Place(R, n, k)>> \notin R
  <2>1. rank[Place(R, n, l)] = l - 1 /\ rank[Place(R, n, k)] = k - 1
    BY <1>5
  <2>2. ~(l - 1 < k - 1)
    BY <1>7
  <2> QED
    BY <1>2, <1>5, <2>1, <2>2
<1>8. ASSUME NEW k \in 1 .. n, NEW i \in 1 .. n, Cardinality(Before(R, n, i)) = k - 1
      PROVE  i = Place(R, n, k)
  <2>1. rank[i] = k - 1 /\ rank[Place(R, n, k)] = k - 1 /\ Place(R, n, k) \in 1 .. n
    BY <1>0, <1>5, <1>8
  <2> QED
    BY <1>3, <2>1
<1>9. \A k \in 1 .. n : Cardinality(Before(R, n, Place(R, n, k))) = k - 1
  BY <1>0, <1>5
<1> QED
  BY <1>5, <1>6, <1>7, <1>8, <1>9

\* The rows of s in the order of R.
Arranged(s, R) == [k \in 1 .. Len(s) |-> s[Place(R, Len(s), k)]]

\* Leads is in R wherever one row is better than another.
Follows(R, s, Leads) ==
  \A i, j \in 1 .. Len(s) : <<s[i], s[j]>> \in Leads => <<i, j>> \in R

\* The answer is the best of the live rows, in their order: Best, of a set of pairs.
BestOf(answer, live, Leads, limit) ==
  /\ Len(answer) = (IF Len(live) < limit THEN Len(live) ELSE limit)
  /\ Range(answer) \subseteq Range(live)
  /\ \A m \in Range(answer) : \A q \in Range(live) \ Range(answer) : <<q, m>> \notin Leads
  /\ \A i \in 1 .. Len(answer) - 1 : <<answer[i + 1], answer[i]>> \notin Leads

\* The first of the arranged rows are the best ones.
LEMMA FirstOfArranged ==
  ASSUME NEW S, NEW s \in Seq(S), NEW R, Orders(R, Len(s)),
         NEW Leads, Follows(R, s, Leads), NEW limit \in Nat
  PROVE  /\ BestOf(Memory!First(Arranged(s, R), limit), s, Leads, limit)
         /\ Memory!First(Arranged(s, R), limit) \in Seq(S)
<1> DEFINE n == Len(s)
           p(k) == Place(R, n, k)
           c == IF n < limit THEN n ELSE limit
           sorted == Arranged(s, R)
           answer == Memory!First(sorted, limit)
<1>1. n \in Nat /\ DOMAIN s = 1 .. n /\ c \in Nat /\ c <= n /\ \A i \in 1 .. n : s[i] \in S
  OBVIOUS
<1>2. /\ \A k \in 1 .. n : p(k) \in 1 .. n
      /\ \A i \in 1 .. n : \E k \in 1 .. n : p(k) = i
      /\ \A k, l \in 1 .. n : k < l => <<p(l), p(k)>> \notin R
  BY <1>1, PlaceFacts
<1>3. \A k \in 1 .. n : sorted[k] = s[p(k)]
  BY DEF Arranged
<1>4. sorted \in Seq(S) /\ Len(sorted) = n
  <2>1. sorted \in [1 .. n -> S]
    BY <1>1, <1>2 DEF Arranged
  <2> QED
    BY <1>1, <2>1
<1>5. answer = SubSeq(sorted, 1, c)
  BY <1>4 DEF Memory!First
<1> HIDE DEF n, p, c, sorted, answer
<1>6. Len(answer) = c /\ DOMAIN answer = 1 .. c /\ \A k \in 1 .. c : answer[k] = sorted[k]
  BY <1>1, <1>4, <1>5
<1>7. \A k \in 1 .. c : k \in 1 .. n /\ answer[k] = s[p(k)]
  BY <1>1, <1>3, <1>6
<1>8. Range(answer) = {s[p(k)] : k \in 1 .. c} /\ Range(s) = {s[i] : i \in 1 .. n}
  BY <1>1, <1>6, <1>7 DEF Range
<1>9. Range(answer) \subseteq Range(s)
  BY <1>2, <1>7, <1>8
<1>10. ASSUME NEW m \in Range(answer), NEW q \in Range(s) \ Range(answer)
       PROVE  <<q, m>> \notin Leads
  <2>1. PICK k \in 1 .. c : m = s[p(k)]
    BY <1>8
  <2>2. PICK j \in 1 .. n : q = s[j]
    BY <1>8
  <2>3. PICK l \in 1 .. n : p(l) = j
    BY <1>2
  <2>4. l \notin 1 .. c
    BY <1>8, <2>2, <2>3
  <2>5. k \in 1 .. n /\ k < l
    BY <1>1, <1>7, <2>4
  <2>6. <<p(l), p(k)>> \notin R /\ p(l) \in 1 .. n /\ p(k) \in 1 .. n
    BY <1>2, <2>5
  <2> QED
    BY <2>1, <2>2, <2>3, <2>6 DEF Follows, n
<1>11. ASSUME NEW i \in 1 .. c - 1
       PROVE  <<answer[i + 1], answer[i]>> \notin Leads
  <2>1. i \in 1 .. c /\ i + 1 \in 1 .. c /\ i < i + 1
    BY <1>1
  <2>2. <<p(i + 1), p(i)>> \notin R /\ p(i + 1) \in 1 .. n /\ p(i) \in 1 .. n
    BY <1>2, <1>7, <2>1
  <2>3. answer[i + 1] = s[p(i + 1)] /\ answer[i] = s[p(i)]
    BY <1>7, <2>1
  <2> QED
    BY <2>2, <2>3 DEF Follows, n
<1>12. BestOf(answer, s, Leads, limit) /\ answer \in Seq(S)
  BY <1>1, <1>4, <1>5, <1>6, <1>9, <1>10, <1>11 DEF BestOf, c, n
<1> QED
  BY <1>12 DEF answer, sorted

\* A request sees memories only.
LEMMA LiveType ==
  ASSUME MemoryTypes, NEW scope
  PROVE  Memory!Live(scope, time) \in Seq(Memory!Memory)
<1>1. memories \in Seq(Memory!Memory)
  BY DEF MemoryTypes
<1> QED
  BY <1>1, FilteredFacts DEF Memory!Live, KeepsPlaces

\* The pairs of memories of which recent puts the first ahead, and search.
NewerPairs == {p \in Memory!Memory \X Memory!Memory : Memory!Newer(p[1], p[2])}
NearerPairs == {p \in Memory!Memory \X Memory!Memory : Near[p[1].id] < Near[p[2].id]}

\* The orders that the two sort by.
NewerOrder(s) ==
  {p \in (1 .. Len(s)) \X (1 .. Len(s)) :
     p \in Memory!NewerPlaces(s) \/ (p[1] < p[2] /\ <<p[2], p[1]>> \notin Memory!NewerPlaces(s))}
NearerOrder(s) ==
  {p \in (1 .. Len(s)) \X (1 .. Len(s)) :
     p \in Memory!NearerPlaces(s) \/ (p[1] < p[2] /\ <<p[2], p[1]>> \notin Memory!NearerPlaces(s))}

\* What recent compares, of a row: numbers.
LEMMA RowNumbers ==
  ASSUME ServicesAssumption, NEW s \in Seq(Memory!Memory)
  PROVE  /\ Len(s) \in Nat /\ DOMAIN s = 1 .. Len(s)
         /\ \A i \in 1 .. Len(s) : /\ s[i] \in Memory!Memory /\ s[i].created \in Int
                                   /\ s[i].id \in Int /\ Near[s[i].id] \in Int
<1>1. Ids \subseteq Nat /\ Near \in [Ids -> Nat]
  BY DEF ServicesAssumption, Memory!MemoryAssumption
<1>2. Len(s) \in Nat /\ DOMAIN s = 1 .. Len(s) /\ \A i \in 1 .. Len(s) : s[i] \in Memory!Memory
  OBVIOUS
<1>3. ASSUME NEW m \in Memory!Memory
      PROVE  m.created \in Int /\ m.id \in Int /\ Near[m.id] \in Int
  <2>1. m.created \in Nat /\ m.id \in Ids
    BY DEF Memory!Memory
  <2>2. \A id \in Ids : id \in Int /\ Near[id] \in Int
    BY <1>1
  <2> QED
    BY <2>1, <2>2
<1> QED
  BY <1>2, <1>3

\* Two numbers and then the place: such an order is transitive.
LEMMA TwoKeys ==
  ASSUME NEW a \in Int, NEW b \in Int, NEW i \in Int, NEW c \in Int, NEW d \in Int, NEW j \in Int,
         NEW e \in Int, NEW f \in Int, NEW k \in Int,
         a > c \/ (a = c /\ b > d) \/ (i < j /\ ~(c > a \/ (c = a /\ d > b))),
         c > e \/ (c = e /\ d > f) \/ (j < k /\ ~(e > c \/ (e = c /\ f > d)))
  PROVE  a > e \/ (a = e /\ b > f) \/ (i < k /\ ~(e > a \/ (e = a /\ f > b)))
OBVIOUS

\* And it compares any two places.
LEMMA TwoKeysTotal ==
  ASSUME NEW a \in Int, NEW b \in Int, NEW i \in Int, NEW c \in Int, NEW d \in Int, NEW j \in Int,
         i # j
  PROVE  \/ a > c \/ (a = c /\ b > d) \/ (i < j /\ ~(c > a \/ (c = a /\ d > b)))
         \/ c > a \/ (c = a /\ d > b) \/ (j < i /\ ~(a > c \/ (a = c /\ b > d)))
OBVIOUS

\* Newest first, and of one age the larger id.
LEMMA NewerOrders ==
  ASSUME ServicesAssumption, NEW s \in Seq(Memory!Memory)
  PROVE  Orders(NewerOrder(s), Len(s)) /\ Follows(NewerOrder(s), s, NewerPairs)
<1>1. /\ Len(s) \in Nat
      /\ \A i \in 1 .. Len(s) : s[i].created \in Int /\ s[i].id \in Int
  BY RowNumbers
<1>2. PICK c : c = [i \in 1 .. Len(s) |-> s[i].created]
  OBVIOUS
<1>3. PICK d : d = [i \in 1 .. Len(s) |-> s[i].id]
  OBVIOUS
<1>4. \A i \in 1 .. Len(s) : c[i] \in Int /\ d[i] \in Int
  BY <1>1, <1>2, <1>3
<1>5. \A i, j \in 1 .. Len(s) :
        Memory!Newer(s[i], s[j]) <=> c[i] > c[j] \/ (c[i] = c[j] /\ d[i] > d[j])
  BY <1>2, <1>3 DEF Memory!Newer
<1>6. \A i, j \in 1 .. Len(s) :
        <<i, j>> \in NewerOrder(s)
          <=> \/ c[i] > c[j] \/ (c[i] = c[j] /\ d[i] > d[j])
              \/ i < j /\ ~(c[j] > c[i] \/ (c[j] = c[i] /\ d[j] > d[i]))
  <2>1. \A i, j \in 1 .. Len(s) : <<i, j>> \in Memory!NewerPlaces(s) <=> Memory!Newer(s[i], s[j])
    BY DEF Memory!NewerPlaces
  <2> QED
    BY <1>5, <2>1 DEF NewerOrder
<1>7. ASSUME NEW i \in 1 .. Len(s)
      PROVE  <<i, i>> \notin NewerOrder(s)
  <2>1. c[i] \in Int /\ d[i] \in Int /\ i \in Int
    BY <1>4
  <2>2. ~(c[i] > c[i]) /\ ~(d[i] > d[i]) /\ ~(i < i)
    BY <2>1
  <2> QED
    BY <1>6, <2>2
<1>8. ASSUME NEW i \in 1 .. Len(s), NEW j \in 1 .. Len(s), i # j
      PROVE  <<i, j>> \in NewerOrder(s) \/ <<j, i>> \in NewerOrder(s)
  <2>1. /\ i \in Int /\ c[i] \in Int /\ d[i] \in Int
        /\ j \in Int /\ c[j] \in Int /\ d[j] \in Int
    BY <1>4
  <2>2. \/ c[i] > c[j] \/ (c[i] = c[j] /\ d[i] > d[j])
          \/ (i < j /\ ~(c[j] > c[i] \/ (c[j] = c[i] /\ d[j] > d[i])))
        \/ c[j] > c[i] \/ (c[j] = c[i] /\ d[j] > d[i])
          \/ (j < i /\ ~(c[i] > c[j] \/ (c[i] = c[j] /\ d[i] > d[j])))
    BY <1>8, <2>1, TwoKeysTotal
  <2> QED
    BY <1>6, <2>2
<1>9. ASSUME NEW i \in 1 .. Len(s), NEW j \in 1 .. Len(s), NEW k \in 1 .. Len(s),
             <<i, j>> \in NewerOrder(s), <<j, k>> \in NewerOrder(s)
      PROVE  <<i, k>> \in NewerOrder(s)
  <2>1. /\ i \in Int /\ j \in Int /\ k \in Int
        /\ c[i] \in Int /\ c[j] \in Int /\ c[k] \in Int
        /\ d[i] \in Int /\ d[j] \in Int /\ d[k] \in Int
    BY <1>4
  <2>2. /\ c[i] > c[j] \/ (c[i] = c[j] /\ d[i] > d[j])
             \/ (i < j /\ ~(c[j] > c[i] \/ (c[j] = c[i] /\ d[j] > d[i])))
        /\ c[j] > c[k] \/ (c[j] = c[k] /\ d[j] > d[k])
             \/ (j < k /\ ~(c[k] > c[j] \/ (c[k] = c[j] /\ d[k] > d[j])))
    BY <1>6, <1>9
  <2>3. c[i] > c[k] \/ (c[i] = c[k] /\ d[i] > d[k])
          \/ (i < k /\ ~(c[k] > c[i] \/ (c[k] = c[i] /\ d[k] > d[i])))
    BY <2>1, <2>2, TwoKeys
  <2> QED
    BY <1>6, <2>3
<1>10. Follows(NewerOrder(s), s, NewerPairs)
  BY DEF Follows, NewerOrder, NewerPairs, Memory!NewerPlaces
<1> QED
  BY <1>7, <1>8, <1>9, <1>10 DEF Orders

\* Nearest first, and of one distance the newest.
LEMMA NearerOrders ==
  ASSUME ServicesAssumption, NEW s \in Seq(Memory!Memory)
  PROVE  Orders(NearerOrder(s), Len(s)) /\ Follows(NearerOrder(s), s, NearerPairs)
<1>1. /\ Len(s) \in Nat
      /\ \A i \in 1 .. Len(s) : s[i].created \in Int /\ Near[s[i].id] \in Int
  BY RowNumbers
<1>2. PICK c : c = [i \in 1 .. Len(s) |-> s[i].created]
  OBVIOUS
<1>3. PICK d : d = [i \in 1 .. Len(s) |-> 0 - Near[s[i].id]]
  OBVIOUS
<1>4. \A i \in 1 .. Len(s) : c[i] \in Int /\ d[i] \in Int
  BY <1>1, <1>2, <1>3
<1>5. \A i, j \in 1 .. Len(s) :
        Memory!Nearer(s[i], s[j]) <=> d[i] > d[j] \/ (d[i] = d[j] /\ c[i] > c[j])
  <2>1. ASSUME NEW i \in 1 .. Len(s), NEW j \in 1 .. Len(s)
        PROVE  /\ Near[s[i].id] < Near[s[j].id] <=> d[i] > d[j]
               /\ Near[s[i].id] = Near[s[j].id] <=> d[i] = d[j]
               /\ c[i] = s[i].created /\ c[j] = s[j].created
    <3>1. /\ d[i] = 0 - Near[s[i].id] /\ d[j] = 0 - Near[s[j].id]
          /\ Near[s[i].id] \in Int /\ Near[s[j].id] \in Int
      BY <1>1, <1>3
    <3>2. PICK x \in Int, y \in Int : x = Near[s[i].id] /\ y = Near[s[j].id]
      BY <3>1
    <3>3. (x < y <=> 0 - x > 0 - y) /\ (x = y <=> 0 - x = 0 - y)
      OBVIOUS
    <3>4. c[i] = s[i].created /\ c[j] = s[j].created
      BY <1>2
    <3> QED
      BY <3>1, <3>2, <3>3, <3>4
  <2> QED
    BY <2>1 DEF Memory!Nearer
<1>6. \A i, j \in 1 .. Len(s) :
        <<i, j>> \in NearerOrder(s)
          <=> \/ d[i] > d[j] \/ (d[i] = d[j] /\ c[i] > c[j])
              \/ i < j /\ ~(d[j] > d[i] \/ (d[j] = d[i] /\ c[j] > c[i]))
  <2>1. \A i, j \in 1 .. Len(s) : <<i, j>> \in Memory!NearerPlaces(s) <=> Memory!Nearer(s[i], s[j])
    BY DEF Memory!NearerPlaces
  <2> QED
    BY <1>5, <2>1 DEF NearerOrder
<1>7. ASSUME NEW i \in 1 .. Len(s)
      PROVE  <<i, i>> \notin NearerOrder(s)
  <2>1. d[i] \in Int /\ c[i] \in Int /\ i \in Int
    BY <1>4
  <2>2. ~(d[i] > d[i]) /\ ~(c[i] > c[i]) /\ ~(i < i)
    BY <2>1
  <2> QED
    BY <1>6, <2>2
<1>8. ASSUME NEW i \in 1 .. Len(s), NEW j \in 1 .. Len(s), i # j
      PROVE  <<i, j>> \in NearerOrder(s) \/ <<j, i>> \in NearerOrder(s)
  <2>1. /\ i \in Int /\ d[i] \in Int /\ c[i] \in Int
        /\ j \in Int /\ d[j] \in Int /\ c[j] \in Int
    BY <1>4
  <2>2. \/ d[i] > d[j] \/ (d[i] = d[j] /\ c[i] > c[j])
          \/ (i < j /\ ~(d[j] > d[i] \/ (d[j] = d[i] /\ c[j] > c[i])))
        \/ d[j] > d[i] \/ (d[j] = d[i] /\ c[j] > c[i])
          \/ (j < i /\ ~(d[i] > d[j] \/ (d[i] = d[j] /\ c[i] > c[j])))
    BY <1>8, <2>1, TwoKeysTotal
  <2> QED
    BY <1>6, <2>2
<1>9. ASSUME NEW i \in 1 .. Len(s), NEW j \in 1 .. Len(s), NEW k \in 1 .. Len(s),
             <<i, j>> \in NearerOrder(s), <<j, k>> \in NearerOrder(s)
      PROVE  <<i, k>> \in NearerOrder(s)
  <2>1. /\ i \in Int /\ j \in Int /\ k \in Int
        /\ d[i] \in Int /\ d[j] \in Int /\ d[k] \in Int
        /\ c[i] \in Int /\ c[j] \in Int /\ c[k] \in Int
    BY <1>4
  <2>2. /\ d[i] > d[j] \/ (d[i] = d[j] /\ c[i] > c[j])
             \/ (i < j /\ ~(d[j] > d[i] \/ (d[j] = d[i] /\ c[j] > c[i])))
        /\ d[j] > d[k] \/ (d[j] = d[k] /\ c[j] > c[k])
             \/ (j < k /\ ~(d[k] > d[j] \/ (d[k] = d[j] /\ c[k] > c[j])))
    BY <1>6, <1>9
  <2>3. d[i] > d[k] \/ (d[i] = d[k] /\ c[i] > c[k])
          \/ (i < k /\ ~(d[k] > d[i] \/ (d[k] = d[i] /\ c[k] > c[i])))
    BY <2>1, <2>2, TwoKeys
  <2> QED
    BY <1>6, <2>3
<1>10. Follows(NearerOrder(s), s, NearerPairs)
  <2>1. \A i, j \in 1 .. Len(s) : <<s[i], s[j]>> \in NearerPairs => d[i] > d[j]
    <3>1. \A i, j \in 1 .. Len(s) : Near[s[i].id] < Near[s[j].id] => d[i] > d[j]
      BY <1>1, <1>3
    <3> QED
      BY <3>1 DEF NearerPairs
  <2> QED
    BY <1>6, <2>1 DEF Follows
<1> QED
  BY <1>7, <1>8, <1>9, <1>10 DEF Orders

\* The memory counts as everybody does.
LEMMA MemoryCardinality ==
  ASSUME NEW S
  PROVE  Memory!Cardinality(S) = Cardinality(S)
BY DEF Memory!Cardinality, Cardinality

\* The sorts of the model arrange the rows in those orders.
LEMMA SortedArranges ==
  ASSUME ServicesAssumption, NEW s \in Seq(Memory!Memory)
  PROVE  /\ Memory!Sorted(s, Memory!NewerPlaces(s)) = Arranged(s, NewerOrder(s))
         /\ Memory!Sorted(s, Memory!NearerPlaces(s)) = Arranged(s, NearerOrder(s))
<1>1. DOMAIN s = 1 .. Len(s) /\ Len(s) \in Nat
  OBVIOUS
<1>2. \A i \in 1 .. Len(s) :
        Memory!Ahead(s, i, Memory!NewerPlaces(s)) = Before(NewerOrder(s), Len(s), i)
  BY <1>1 DEF Memory!Ahead, Before, NewerOrder
<1>3. \A i \in 1 .. Len(s) :
        Memory!Ahead(s, i, Memory!NearerPlaces(s)) = Before(NearerOrder(s), Len(s), i)
  BY <1>1 DEF Memory!Ahead, Before, NearerOrder
<1>4. Memory!Sorted(s, Memory!NewerPlaces(s)) = Arranged(s, NewerOrder(s))
  <2> DEFINE row(k) == s[CHOOSE i \in DOMAIN s :
                          Memory!Cardinality(Memory!Ahead(s, i, Memory!NewerPlaces(s))) = k - 1]
  <2>1. Orders(NewerOrder(s), Len(s))
    BY NewerOrders
  <2>2. ASSUME NEW k \in 1 .. Len(s)
        PROVE  row(k) = s[Place(NewerOrder(s), Len(s), k)]
    <3> DEFINE Fits(i) == Memory!Cardinality(Memory!Ahead(s, i, Memory!NewerPlaces(s))) = k - 1
               place == CHOOSE i \in DOMAIN s : Fits(i)
    <3>1. \A i \in 1 .. Len(s) : Fits(i) <=> Cardinality(Before(NewerOrder(s), Len(s), i)) = k - 1
      BY <1>2, MemoryCardinality
    <3> HIDE DEF Fits
    <3>2. /\ Place(NewerOrder(s), Len(s), k) \in 1 .. Len(s)
          /\ Fits(Place(NewerOrder(s), Len(s), k))
      <4>1. PICK n, R : n = Len(s) /\ R = NewerOrder(s)
        OBVIOUS
      <4>2. n \in Nat /\ Orders(R, n)
        BY <1>1, <2>1, <4>1
      <4>3. Place(R, n, k) \in 1 .. n /\ Cardinality(Before(R, n, Place(R, n, k))) = k - 1
        BY <4>1, <4>2, PlaceFacts
      <4> QED
        BY <3>1, <4>1, <4>3
    <3>3. place \in 1 .. Len(s) /\ Fits(place)
      BY <1>1, <3>2
    <3>4. place = Place(NewerOrder(s), Len(s), k)
      <4> HIDE DEF place
      <4> QED
        BY <1>1, <2>1, <3>1, <3>3, PlaceFacts
    <3> QED
      BY <3>4 DEF Fits
  <2>3. Memory!Sorted(s, Memory!NewerPlaces(s)) = [k \in DOMAIN s |-> row(k)]
    BY DEF Memory!Sorted
  <2> HIDE DEF row
  <2> QED
    BY <1>1, <2>2, <2>3 DEF Arranged
<1>5. Memory!Sorted(s, Memory!NearerPlaces(s)) = Arranged(s, NearerOrder(s))
  <2> DEFINE row(k) == s[CHOOSE i \in DOMAIN s :
                          Memory!Cardinality(Memory!Ahead(s, i, Memory!NearerPlaces(s))) = k - 1]
  <2>1. Orders(NearerOrder(s), Len(s))
    BY NearerOrders
  <2>2. ASSUME NEW k \in 1 .. Len(s)
        PROVE  row(k) = s[Place(NearerOrder(s), Len(s), k)]
    <3> DEFINE Fits(i) == Memory!Cardinality(Memory!Ahead(s, i, Memory!NearerPlaces(s))) = k - 1
               place == CHOOSE i \in DOMAIN s : Fits(i)
    <3>1. \A i \in 1 .. Len(s) : Fits(i) <=> Cardinality(Before(NearerOrder(s), Len(s), i)) = k - 1
      BY <1>3, MemoryCardinality
    <3> HIDE DEF Fits
    <3>2. /\ Place(NearerOrder(s), Len(s), k) \in 1 .. Len(s)
          /\ Fits(Place(NearerOrder(s), Len(s), k))
      <4>1. PICK n, R : n = Len(s) /\ R = NearerOrder(s)
        OBVIOUS
      <4>2. n \in Nat /\ Orders(R, n)
        BY <1>1, <2>1, <4>1
      <4>3. Place(R, n, k) \in 1 .. n /\ Cardinality(Before(R, n, Place(R, n, k))) = k - 1
        BY <4>1, <4>2, PlaceFacts
      <4> QED
        BY <3>1, <4>1, <4>3
    <3>3. place \in 1 .. Len(s) /\ Fits(place)
      BY <1>1, <3>2
    <3>4. place = Place(NearerOrder(s), Len(s), k)
      <4> HIDE DEF place
      <4> QED
        BY <1>1, <2>1, <3>1, <3>3, PlaceFacts
    <3> QED
      BY <3>4 DEF Fits
  <2>3. Memory!Sorted(s, Memory!NearerPlaces(s)) = [k \in DOMAIN s |-> row(k)]
    BY DEF Memory!Sorted
  <2> HIDE DEF row
  <2> QED
    BY <1>1, <2>2, <2>3 DEF Arranged
<1> QED
  BY <1>4, <1>5

\* Best, of each of the two.
NewestIn(answer, live, limit) ==
  /\ Len(answer) = (IF Len(live) < limit THEN Len(live) ELSE limit)
  /\ Memory!ToSet(answer) \subseteq Memory!ToSet(live)
  /\ \A m \in Memory!ToSet(answer) : \A n \in Memory!ToSet(live) \ Memory!ToSet(answer) :
       ~Memory!Newer(n, m)
  /\ \A i \in 1 .. Len(answer) - 1 : ~Memory!Newer(answer[i + 1], answer[i])

NearestIn(answer, live, limit) ==
  /\ Len(answer) = (IF Len(live) < limit THEN Len(live) ELSE limit)
  /\ Memory!ToSet(answer) \subseteq Memory!ToSet(live)
  /\ \A m \in Memory!ToSet(answer) : \A n \in Memory!ToSet(live) \ Memory!ToSet(answer) :
       ~(Near[n.id] < Near[m.id])
  /\ \A i \in 1 .. Len(answer) - 1 : ~(Near[answer[i + 1].id] < Near[answer[i].id])

\* Recent returns the newest and search the nearest of the memories they look at: of
\* all live ones of the scope, unless the table was cut.
LEMMA RecentAnswers ==
  ASSUME ServicesAssumption, MemoryTypes
  PROVE  RecentIsLatest
<1> SUFFICES ASSUME NEW scope \in Scopes, NEW limit \in 1 .. Cut,
                    Len(Memory!Live(scope, time)) <= Cut
             PROVE  /\ NewestIn(Memory!Recent(scope, time, limit),
                                Memory!Live(scope, time), limit)
                    /\ NearestIn(Memory!Search(scope, time, limit),
                                 Memory!Live(scope, time), limit)
  BY DEF RecentIsLatest, Memory!RecentIsLatest, Memory!Best, NewestIn, NearestIn
<1>1. PICK live \in Seq(Memory!Memory) : live = Memory!Live(scope, time)
  BY LiveType
<1>2. Len(live) \in Nat /\ Len(live) <= Cut /\ Cut \in Nat /\ limit \in Nat
  BY <1>1 DEF ServicesAssumption, Memory!MemoryAssumption
<1>3. Memory!Visible(scope, time) = live
  <2>1. (IF Len(live) < Cut THEN Len(live) ELSE Cut) = Len(live)
    BY <1>2
  <2>2. SubSeq(live, 1, Len(live)) = live
    OBVIOUS
  <2>3. Memory!Visible(scope, time) = SubSeq(live, 1, IF Len(live) < Cut THEN Len(live) ELSE Cut)
    BY <1>1 DEF Memory!Visible
  <2> QED
    BY <2>1, <2>2, <2>3
<1>4. PICK newest : newest = Memory!Recent(scope, time, limit)
  OBVIOUS
<1>5. PICK nearest : nearest = Memory!Search(scope, time, limit)
  OBVIOUS
<1>6. BestOf(newest, live, NewerPairs, limit) /\ newest \in Seq(Memory!Memory)
  <2>1. newest = Memory!First(Arranged(live, NewerOrder(live)), limit)
    BY <1>3, <1>4, SortedArranges DEF Memory!Recent
  <2> QED
    BY <1>2, <2>1, NewerOrders, FirstOfArranged
<1>7. BestOf(nearest, live, NearerPairs, limit) /\ nearest \in Seq(Memory!Memory)
  <2>1. nearest = Memory!First(Arranged(live, NearerOrder(live)), limit)
    BY <1>3, <1>5, SortedArranges DEF Memory!Search
  <2> QED
    BY <1>2, <2>1, NearerOrders, FirstOfArranged
<1>8. Range(live) \subseteq Memory!Memory
  BY DEF Range
<1>9. NewestIn(newest, live, limit)
  <2>1. \A m, q \in Memory!Memory : <<q, m>> \notin NewerPairs => ~(Memory!Newer(q, m))
    BY DEF NewerPairs
  <2>2. Range(newest) \subseteq Memory!Memory
    BY <1>6, <1>8 DEF BestOf
  <2>3. \A m \in Range(newest) : \A q \in Range(live) \ Range(newest) : ~(Memory!Newer(q, m))
    BY <1>6, <1>8, <2>1, <2>2 DEF BestOf
  <2>4. \A i \in 1 .. Len(newest) - 1 : ~(Memory!Newer(newest[i + 1], newest[i]))
    <3> SUFFICES ASSUME NEW i \in 1 .. Len(newest) - 1
                 PROVE  ~(Memory!Newer(newest[i + 1], newest[i]))
      OBVIOUS
    <3>1. i \in 1 .. Len(newest) /\ i + 1 \in 1 .. Len(newest)
      BY <1>2, <1>6 DEF BestOf
    <3>2. newest[i] \in Memory!Memory /\ newest[i + 1] \in Memory!Memory
      BY <1>6, <3>1
    <3> QED
      BY <1>6, <2>1, <3>2 DEF BestOf
  <2> QED
    BY <1>6, <2>3, <2>4 DEF BestOf, NewestIn, Memory!ToSet, Range
<1>10. NearestIn(nearest, live, limit)
  <2>1. \A m, q \in Memory!Memory : <<q, m>> \notin NearerPairs => ~(Near[q.id] < Near[m.id])
    BY DEF NearerPairs
  <2>2. Range(nearest) \subseteq Memory!Memory
    BY <1>7, <1>8 DEF BestOf
  <2>3. \A m \in Range(nearest) : \A q \in Range(live) \ Range(nearest) : ~(Near[q.id] < Near[m.id])
    BY <1>7, <1>8, <2>1, <2>2 DEF BestOf
  <2>4. \A i \in 1 .. Len(nearest) - 1 : ~(Near[nearest[i + 1].id] < Near[nearest[i].id])
    <3> SUFFICES ASSUME NEW i \in 1 .. Len(nearest) - 1
                 PROVE  ~(Near[nearest[i + 1].id] < Near[nearest[i].id])
      OBVIOUS
    <3>1. i \in 1 .. Len(nearest) /\ i + 1 \in 1 .. Len(nearest)
      BY <1>2, <1>7 DEF BestOf
    <3>2. nearest[i] \in Memory!Memory /\ nearest[i + 1] \in Memory!Memory
      BY <1>7, <3>1
    <3> QED
      BY <1>7, <2>1, <3>2 DEF BestOf
  <2> QED
    BY <1>7, <2>3, <2>4 DEF BestOf, NearestIn, Memory!ToSet, Range
<1> QED
  BY <1>1, <1>4, <1>5, <1>9, <1>10

\* Up to Cut memories, recent and search find the newest and the nearest, whatever the
\* order of the table, for any number of memories, threads and upserts
\* (memory.py:255-284).
THEOREM RecentIsLatestHolds ==
  ASSUME ServicesAssumption
  PROVE  ServicesSpec => []RecentIsLatest
<1>1. ServicesInit => MemoryInv
  BY InitMemory DEF ServicesInit
<1>2. MemoryInv => RecentIsLatest
  BY RecentAnswers DEF MemoryInv
<1> QED
  BY <1>1, <1>2, MemoryInvStep, PTL DEF ServicesSpec

-----------------------------------------------------------------------------
(* Identities.  AdminDurable is inductive with the types: a save writes    *)
(* all identities, so a failed call leaves memory and file apart only for  *)
(* users nothing is known of.                                              *)

AdminInv == Admin!TypeOK /\ AdminDurable

\* The inductive step (auth.py:67-123), under the steps of the others too.
LEMMA AdminInvStep ==
  ASSUME AdminInv, [ServicesNext]_<<part, gate, admin, memory, copies>>
  PROVE  AdminInv'
<1> USE DEF AdminInv, Admin!TypeOK, AdminDurable, Admin!AdminDurable, Admin!States
<1>1. ASSUME NEW u \in Users, Admin!Add(u) \/ Admin!Revoke(u) PROVE AdminInv'
  BY <1>1 DEF Admin!Add, Admin!Revoke, Admin!Change
<1>2. CASE Admin!Save
  BY <1>2 DEF Admin!Save, Admin!Written
<1>3. CASE Admin!SaveRaises
  BY <1>3 DEF Admin!SaveRaises, Admin!Unanswered
<1>4. CASE Admin!Load
  BY <1>4 DEF Admin!Load, Admin!Unanswered
<1>5. CASE UNCHANGED admin
  BY <1>5 DEF admin
<1>6. Admin!Next \/ UNCHANGED admin
  BY DEF ServicesNext, GateStep, AdminStep, MemoryStep, CopiesStep
<1> QED
  BY <1>1, <1>2, <1>3, <1>4, <1>5, <1>6 DEF Admin!Next

\* What a call that returned has said of a user is so in memory and in the file,
\* through failing saves and restarts, for any users and calls (auth.py:83-123).
THEOREM AdminDurableHolds ==
  ASSUME ServicesAssumption
  PROVE  ServicesSpec => []AdminDurable
<1>1. ServicesInit => AdminInv
  BY DEF ServicesInit, Admin!Init, AdminInv, Admin!TypeOK, AdminDurable, Admin!AdminDurable,
    Admin!States
<1>2. AdminInv => AdminDurable
  BY DEF AdminInv
<1> QED
  BY <1>1, <1>2, AdminInvStep, PTL DEF ServicesSpec

-----------------------------------------------------------------------------
(* Backups.  The step that publishes needs to know that the database files *)
(* have not changed since the checkpoint, and how far hashes and copies    *)
(* have come.                                                              *)

Database == {"pages.dat", "state.json"}
Trail == "http-audit.jsonl"

\* The places of Files whose size, whose digest and whose copy are there.
Sized ==
  {i \in 1 .. 3 : \/ job.at \in {"copy", "publish"}
                  \/ job.at = "stat" /\ i < job.next
                  \/ job.at = "hash" /\ i <= job.next}

Hashed ==
  {i \in 1 .. 3 : \/ job.at \in {"copy", "publish"}
                  \/ job.at \in {"stat", "hash"} /\ i < job.next}

Copied == {i \in 1 .. 3 : job.at = "publish" \/ (job.at = "copy" /\ i < job.next)}

Jobs == [at : {"idle", "stat", "hash", "copy", "publish"}, next : 1 .. 3]

ShapeInv ==
  /\ content \in Copies!Images /\ temporary \in Copies!Archives
  /\ archive # Nothing => archive \in Copies!Archives
  /\ job \in Jobs

\* While a backup runs nobody commits.
FrozenInv == job.at # "idle" => content["state.json"] = content["pages.dat"]

\* The trail only grows.
ProgressInv ==
  /\ \A i \in Sized :
       IF Copies!Files[i] = Trail THEN temporary.size[Trail] <= content[Trail]
       ELSE temporary.size[Copies!Files[i]] = content[Copies!Files[i]]
  /\ \A i \in Hashed :
       IF Copies!Files[i] = Trail
         THEN /\ temporary.size[Trail] <= temporary.manifest[Trail]
              /\ temporary.manifest[Trail] <= content[Trail]
         ELSE temporary.manifest[Copies!Files[i]] = content[Copies!Files[i]]
  /\ \A i \in Copied :
       IF Copies!Files[i] = Trail
         THEN temporary.manifest[Trail] <= temporary.copied[Trail]
         ELSE temporary.copied[Copies!Files[i]] = content[Copies!Files[i]]

ArchiveInv ==
  archive # Nothing =>
    /\ \A n \in Database :
         archive.copied[n] = taken /\ archive.manifest[n] = taken /\ archive.size[n] = taken
    /\ archive.size[Trail] <= archive.manifest[Trail]
    /\ archive.manifest[Trail] <= archive.copied[Trail]

BackupInv == ShapeInv /\ FrozenInv /\ ProgressInv /\ ArchiveInv

-----------------------------------------------------------------------------
\* The files are these three.
LEMMA NamesAre ==
  /\ Copies!Names = {"http-audit.jsonl", "pages.dat", "state.json"}
  /\ Len(Copies!Files) = 3
  /\ Copies!Files[1] = "http-audit.jsonl" /\ Copies!Files[2] = "pages.dat"
  /\ Copies!Files[3] = "state.json"
BY DEF Copies!Names, Copies!Files, Copies!ToSet

\* The invariant holds before anything was backed up.
LEMMA InitBackup ==
  ASSUME Copies!WritesAssumption, Copies!Init
  PROVE  BackupInv
BY NamesAre DEF Copies!Init, BackupInv, ShapeInv, Jobs, FrozenInv, ProgressInv,
  ArchiveInv, Sized, Hashed, Copied,
  Copies!NoJob, Copies!Fresh, Copies!Empty, Copies!Images, Copies!Archives, Copies!WritesAssumption

\* Steps that change files (engine.py:1000-1010, server.py:61-80).
LEMMA ContentSteps ==
  ASSUME Copies!WritesAssumption, BackupInv, Copies!Commit \/ Copies!Audit
  PROVE  BackupInv'
<1> USE NamesAre DEF BackupInv, ShapeInv, Jobs, FrozenInv, ProgressInv, ArchiveInv,
    Copies!Images, Copies!Archives,
    Trail, Database, Copies!WritesAssumption
<1>1. CASE Copies!Commit
  BY <1>1 DEF Copies!Commit, Copies!LockFree, Sized, Hashed, Copied
<1>2. CASE Copies!Audit
  BY <1>2 DEF Copies!Audit, Sized, Hashed, Copied
<1> QED
  BY <1>1, <1>2

\* The checkpoint makes the database files equal, and the backup starts from nothing.
LEMMA BeginStep ==
  ASSUME Copies!WritesAssumption, BackupInv, Copies!Begin
  PROVE  BackupInv'
<1> USE NamesAre DEF BackupInv, ShapeInv, Copies!Images, Copies!Archives, Trail, Database
<1>1. job' = [at |-> "stat", next |-> 1]
  BY DEF Copies!Begin, Copies!NoJob
<1>2. content' \in Copies!Images /\ temporary' \in Copies!Archives
  BY DEF Copies!Begin, Copies!Fresh, Copies!Empty, Copies!WritesAssumption
<1>3. content'["state.json"] = content'["pages.dat"]
  BY DEF Copies!Begin
<1>4. UNCHANGED <<archive, taken>>
  BY DEF Copies!Begin
<1>5. job' \in Jobs
  BY <1>1 DEF Jobs
<1>6. Sized' = {} /\ Hashed' = {} /\ Copied' = {}
  BY <1>1 DEF Sized, Hashed, Copied
<1> QED
  BY <1>2, <1>3, <1>4, <1>5, <1>6 DEF FrozenInv, ProgressInv, ArchiveInv

\* The size of one more file is in the manifest (backup.py:49).
LEMMA StatStep ==
  ASSUME BackupInv, Copies!Stat
  PROVE  BackupInv'
<1> USE NamesAre DEF BackupInv, ShapeInv, Jobs, FrozenInv, ArchiveInv, Copies!Images,
    Copies!Archives, Trail,
    Database, Copies!Stat
<1>1. job.at = "stat" /\ job.next \in 1 .. 3
  OBVIOUS
<1>2. job' \in Jobs /\ job'.at = "hash" /\ job'.next = job.next
  OBVIOUS
<1>3. temporary' \in Copies!Archives
  OBVIOUS
<1>4. Sized' \subseteq Sized \union {job.next} /\ Hashed' = Hashed /\ Copied' = {}
  BY <1>1, <1>2 DEF Sized, Hashed, Copied
<1>5. job.next \notin Hashed
  BY <1>1 DEF Hashed
<1>6. /\ content' = content /\ temporary'.copied = temporary.copied
      /\ temporary'.manifest = temporary.manifest
      /\ \A n \in Copies!Names :
           temporary'.size[n] = IF n = Copies!Files[job.next] THEN content[n]
                                ELSE temporary.size[n]
  OBVIOUS
<1>7. \A i \in Sized' :
        IF Copies!Files[i] = Trail THEN temporary'.size[Trail] <= content'[Trail]
        ELSE temporary'.size[Copies!Files[i]] = content'[Copies!Files[i]]
  BY <1>1, <1>4, <1>6 DEF ProgressInv
<1>8. \A i \in Hashed' :
        IF Copies!Files[i] = Trail
          THEN /\ temporary'.size[Trail] <= temporary'.manifest[Trail]
               /\ temporary'.manifest[Trail] <= content'[Trail]
          ELSE temporary'.manifest[Copies!Files[i]] = content'[Copies!Files[i]]
  <2> SUFFICES ASSUME NEW i \in Hashed
               PROVE  IF Copies!Files[i] = Trail
                        THEN /\ temporary'.size[Trail] <= temporary.manifest[Trail]
                             /\ temporary.manifest[Trail] <= content[Trail]
                        ELSE temporary.manifest[Copies!Files[i]] = content[Copies!Files[i]]
    BY <1>4, <1>6
  <2>1. i \in 1 .. 3 /\ i # job.next
    BY <1>5 DEF Hashed
  <2>2. Copies!Files[i] = Trail => temporary'.size[Trail] = temporary.size[Trail]
    BY <1>1, <1>6, <2>1
  <2> QED
    BY <2>2 DEF ProgressInv
<1>9. ProgressInv'
  BY <1>4, <1>7, <1>8 DEF ProgressInv
<1> QED
  BY <1>1, <1>2, <1>3, <1>9

\* Its digest is too; the trail may have grown in between (backup.py:49).
LEMMA HashStep ==
  ASSUME BackupInv, Copies!Hash
  PROVE  BackupInv'
<1> USE NamesAre DEF BackupInv, ShapeInv, Jobs, FrozenInv, ArchiveInv, Copies!Images,
    Copies!Archives, Trail,
    Database, Copies!Hash, Copies!Advance
<1>1. job.at = "hash" /\ job.next \in 1 .. 3
  OBVIOUS
<1>2. job' \in Jobs /\ job'.at \in {"stat", "copy"}
  OBVIOUS
<1>3. temporary' \in Copies!Archives
  OBVIOUS
<1>4. /\ Sized' = Sized /\ job.next \in Sized
      /\ Hashed' \subseteq Hashed \union {job.next} /\ Copied' = {}
  BY DEF Sized, Hashed, Copied
<1>5. ProgressInv'
  BY <1>1, <1>4 DEF ProgressInv
<1> QED
  BY <1>1, <1>2, <1>3, <1>5

\* One more file has been copied; the trail may have grown since its hash
\* (backup.py:57-59).
LEMMA CopyStep ==
  ASSUME BackupInv, Copies!Copy
  PROVE  BackupInv'
<1> USE NamesAre DEF BackupInv, ShapeInv, Jobs, FrozenInv, ArchiveInv, Copies!Images,
    Copies!Archives, Trail,
    Database, Copies!Copy, Copies!Advance
<1>1. job.at = "copy" /\ job.next \in 1 .. 3
  OBVIOUS
<1>2. job' \in Jobs /\ job'.at \in {"copy", "publish"}
  OBVIOUS
<1>3. temporary' \in Copies!Archives
  OBVIOUS
<1>4. /\ Sized = 1 .. 3 /\ Sized' = 1 .. 3 /\ Hashed = 1 .. 3 /\ Hashed' = 1 .. 3
      /\ Copied' \subseteq Copied \union {job.next}
  BY DEF Sized, Hashed, Copied
<1>5. ProgressInv'
  BY <1>1, <1>4 DEF ProgressInv
<1> QED
  BY <1>1, <1>2, <1>3, <1>5

\* Everything is entered and copied when the archive is put in its place
\* (backup.py:60-69).
LEMMA PublishStep ==
  ASSUME BackupInv, Copies!Publish
  PROVE  BackupInv'
<1> USE NamesAre DEF BackupInv, ShapeInv, Jobs, FrozenInv, ProgressInv, Copies!Images,
    Copies!Archives, Trail,
    Database, Copies!Publish, Copies!NoJob
<1>1. /\ Sized = 1 .. 3 /\ Hashed = 1 .. 3 /\ Copied = 1 .. 3
      /\ Sized' = {} /\ Hashed' = {} /\ Copied' = {}
  BY DEF Sized, Hashed, Copied
<1>2. /\ temporary.size["pages.dat"] = content["pages.dat"]
      /\ temporary.size["state.json"] = content["state.json"]
      /\ temporary.manifest["pages.dat"] = content["pages.dat"]
      /\ temporary.manifest["state.json"] = content["state.json"]
      /\ temporary.copied["pages.dat"] = content["pages.dat"]
      /\ temporary.copied["state.json"] = content["state.json"]
      /\ temporary.size[Trail] <= temporary.manifest[Trail]
      /\ temporary.manifest[Trail] <= temporary.copied[Trail]
  BY <1>1
<1>3. ArchiveInv'
  BY <1>2 DEF ArchiveInv
<1> QED
  BY <1>1, <1>3

\* A crash, and what happens to archives, leave the files and the archive alone.
LEMMA OtherSteps ==
  ASSUME BackupInv, Copies!Crash \/ Copies!Restore \/ Copies!Discard \/ UNCHANGED copies
  PROVE  BackupInv'
BY NamesAre DEF BackupInv, ShapeInv, Jobs, FrozenInv, ProgressInv, ArchiveInv,
  Copies!Images, Copies!Archives,
  Trail, Database, Copies!Crash, Copies!Restore, Copies!Discard, copies, Copies!NoJob,
  Sized, Hashed, Copied

\* Manifest and copies of a published archive can differ in the trail only.
LEMMA BackupSuffices ==
  ASSUME Copies!WritesAssumption, BackupInv
  PROVE  ArchiveRestores
<1> USE NamesAre DEF BackupInv, ShapeInv, Jobs, ArchiveInv, Copies!Images, Copies!Archives,
    Trail, Database,
    Copies!WritesAssumption
<1> SUFFICES ASSUME archive # Nothing PROVE ArchiveRestores
  BY DEF ArchiveRestores, Copies!ArchiveRestores
<1>1. archive.copied["state.json"] = taken /\ archive.copied["pages.dat"] = taken
  OBVIOUS
<1>2. ASSUME NEW image \in Copies!Images, \A n \in Database : image[n] = taken,
             archive.copied # image
      PROVE  archive.copied[Trail] # image[Trail]
  <2>1. PICK n \in Copies!Names : archive.copied[n] # image[n]
    BY <1>2
  <2>2. n = Trail
    BY <1>2, <2>1
  <2> QED
    BY <2>1, <2>2
<1>3. ASSUME ~Copies!Verified(archive)
      PROVE  archive.copied[Trail] > archive.size[Trail]
  <2>1. CASE archive.copied # archive.size
    BY <1>2, <2>1
  <2>2. CASE archive.copied # archive.manifest
    BY <1>2, <2>2
  <2> QED
    BY <1>3, <2>1, <2>2 DEF Copies!Verified
<1> QED
  BY <1>1, <1>3 DEF ArchiveRestores, Copies!ArchiveRestores

\* The inductive step, under the steps of the others too.
LEMMA BackupInvStep ==
  ASSUME ServicesAssumption, BackupInv, [ServicesNext]_<<part, gate, admin, memory, copies>>
  PROVE  BackupInv'
<1>1. CASE UNCHANGED copies
  BY <1>1, OtherSteps
<1>2. CASE Copies!Next
  BY <1>2, ContentSteps, BeginStep, StatStep, HashStep, CopyStep, PublishStep, OtherSteps
    DEF Copies!Next, ServicesAssumption
<1> QED
  BY <1>1, <1>2 DEF ServicesNext, GateStep, AdminStep, MemoryStep, CopiesStep

\* The database in a published archive is of one moment and restores, for any number of
\* commits and audit lines; only a trail that grew between its stat and its copy makes
\* the restore refuse it (backup.py:37-109).
THEOREM ArchiveRestoresHolds ==
  ASSUME ServicesAssumption
  PROVE  ServicesSpec => []ArchiveRestores
<1>1. ServicesInit => BackupInv
  BY InitBackup DEF ServicesInit, ServicesAssumption
<1>2. BackupInv => ArchiveRestores
  BY BackupSuffices DEF ServicesAssumption
<1> QED
  BY <1>1, <1>2, BackupInvStep, PTL DEF ServicesSpec

-----------------------------------------------------------------------------
(* The rate limiter.  The window is the end of what was admitted, and what *)
(* was taken from it is a window old: so a request and the one Limit       *)
(* places later are as far apart as the clock of the one admitted last     *)
(* allows, which is MaxDelay old at most.                                  *)

Gone == Len(admitted) - Len(window)

RateTypes ==
  /\ clock \in 0 .. MaxClock
  /\ window \in Seq(0 .. MaxClock) /\ admitted \in Seq(0 .. MaxClock)
  /\ stamp \in [Threads -> {Gate!NoStamp} \union 0 .. MaxClock]

WaitInv == \A t \in Gate!Waiting : stamp[t] <= clock /\ clock <= stamp[t] + MaxDelay

WindowInv ==
  /\ Len(window) <= Limit /\ Gone \in Nat
  /\ \A i \in 1 .. Len(window) : window[i] = admitted[Gone + i]
  /\ \A i \in 1 .. Gone : admitted[i] + Window <= clock

SpacingInv ==
  \A i, j \in DOMAIN admitted :
    i + Limit <= j => admitted[i] + Window <= admitted[j] + MaxDelay

RateInv == RateTypes /\ WaitInv /\ WindowInv /\ SpacingInv

\* The limiter counts as everybody does.
LEMMA GateCardinality ==
  ASSUME NEW S
  PROVE  Gate!Cardinality(S) = Cardinality(S)
BY DEF Gate!Cardinality, Cardinality

\* The purge drops the first k stamps, and none of them is young (server.py:103-104).
LEMMA PurgedFacts ==
  ASSUME RateTypes, NEW now \in 0 .. MaxClock, Window \in Nat, MaxClock \in Nat
  PROVE  \E k \in 0 .. Len(window), p \in Seq(0 .. MaxClock) :
           /\ p = Gate!Purged(now) /\ Len(p) = Len(window) - k
           /\ \A i \in 1 .. Len(p) : p[i] = window[k + i]
           /\ \A i \in 1 .. k : window[i] + Window <= now
<1>0. /\ window \in Seq(0 .. MaxClock) /\ Len(window) \in Nat /\ MaxClock \in Int
      /\ \A i \in 1 .. Len(window) : window[i] \in 0 .. MaxClock
  BY DEF RateTypes
<1> DEFINE I == {i \in 1 .. Len(window) : window[i] > now - Window}
<1>1. Gate!Purged(now) = IF (IF I # {} THEN Gate!Min(I) ELSE 0) = 0 THEN << >>
        ELSE SubSeq(window, IF I # {} THEN Gate!Min(I) ELSE 0, Len(window))
  BY DEF Gate!Purged, Gate!SelectInSeq
<1>2. CASE I = {}
  <2>1. PICK p : p = << >>
    OBVIOUS
  <2>2. p = Gate!Purged(now)
    BY <1>1, <1>2, <2>1
  <2>3. \A i \in 1 .. Len(window) : window[i] + Window <= now
    BY <1>0, <1>2
  <2>4. /\ p \in Seq(0 .. MaxClock) /\ Len(p) = Len(window) - Len(window)
        /\ \A i \in 1 .. Len(p) : p[i] = window[Len(window) + i]
    BY <1>0, <2>1
  <2>5. Len(window) \in 0 .. Len(window)
    BY <1>0
  <2> HIDE DEF I
  <2> QED
    BY <2>2, <2>3, <2>4, <2>5
<1>3. CASE I # {}
  <2>1. PICK m \in I : \A y \in I : m <= y
    <3>1. I \in SUBSET Nat
      BY <1>0
    <3> HIDE DEF I
    <3> QED
      BY <1>3, <3>1, LeastNat
  <2>2. Gate!Min(I) \in I /\ \A y \in I : Gate!Min(I) <= y
    <3> HIDE DEF I
    <3> QED
      BY <2>1 DEF Gate!Min
  <2>3. PICK y \in 1 .. Len(window) : y = Gate!Min(I) /\ \A i \in I : y <= i
    BY <2>2
  <2>4. \A i \in 1 .. y - 1 : window[i] + Window <= now
    <3>1. \A i \in 1 .. y - 1 : i \in 1 .. Len(window) /\ i \notin I
      <4> HIDE DEF I
      <4> QED
        BY <1>0, <2>3
    <3> QED
      BY <1>0, <3>1
  <2>5. Gate!Purged(now) = SubSeq(window, y, Len(window))
    <3>1. (IF I # {} THEN Gate!Min(I) ELSE 0) = y /\ y # 0
      <4> HIDE DEF I
      <4> QED
        BY <1>0, <1>3, <2>3
    <3> HIDE DEF I
    <3> QED
      BY <1>1, <3>1
  <2> HIDE DEF I
  <2> DEFINE p == SubSeq(window, y, Len(window))
  <2>6. p \in Seq(0 .. MaxClock) /\ Len(p) = Len(window) - (y - 1)
    BY <1>0
  <2>7. \A i \in 1 .. Len(p) : p[i] = window[(y - 1) + i]
    BY <1>0
  <2>8. y - 1 \in 0 .. Len(window)
    BY <1>0
  <2> HIDE DEF p
  <2> QED
    BY <2>4, <2>5, <2>6, <2>7, <2>8 DEF p
<1> QED
  BY <1>2, <1>3

\* The invariant holds when the server starts.
LEMMA InitRate ==
  ASSUME ServicesAssumption, Gate!Init
  PROVE  RateInv
BY DEF Gate!Init, RateInv, RateTypes, WaitInv, WindowInv, SpacingInv, Gone, Gate!Waiting,
  Gate!NoStamp, ServicesAssumption, Gate!RateAssumption

\* The clock goes on as long as nobody has waited for MaxDelay.
LEMMA TickRate ==
  ASSUME ServicesAssumption, RateInv, Gate!Tick
  PROVE  RateInv'
<1>0. Window \in Nat /\ MaxDelay \in Nat /\ MaxClock \in Nat /\ Limit \in Nat
  BY DEF ServicesAssumption, Gate!RateAssumption
<1>1. clock' = clock + 1 /\ UNCHANGED <<window, stamp, admitted>> /\ clock \in Nat
  BY <1>0 DEF Gate!Tick, RateInv, RateTypes
<1>2. RateTypes'
  BY <1>0, <1>1 DEF RateInv, RateTypes, Gate!Tick
<1>3. WaitInv'
  <2>1. ASSUME NEW t \in Gate!Waiting
        PROVE  stamp[t] <= clock + 1 /\ clock + 1 <= stamp[t] + MaxDelay
    <3>1. /\ stamp[t] <= clock /\ clock - stamp[t] < MaxDelay
          /\ stamp[t] \in Int
      BY <1>0 DEF RateInv, WaitInv, RateTypes, Gate!Tick, Gate!Waiting, Gate!NoStamp
    <3> QED
      BY <1>0, <1>1, <3>1
  <2>2. Gate!Waiting' = Gate!Waiting
    BY <1>1 DEF Gate!Waiting
  <2> QED
    BY <1>1, <2>1, <2>2 DEF WaitInv
<1>4. WindowInv'
  <2>1. ASSUME NEW i \in 1 .. Gone
        PROVE  admitted[i] + Window <= clock + 1
    <3>1. i \in DOMAIN admitted /\ admitted[i] + Window <= clock
      BY <2>1 DEF RateInv, WindowInv, RateTypes, Gone
    <3>2. admitted[i] \in Int
      BY <1>0, <3>1 DEF RateInv, RateTypes
    <3> QED
      BY <1>0, <1>1, <3>1, <3>2
  <2> QED
    BY <1>1, <2>1 DEF RateInv, WindowInv, Gone
<1>5. SpacingInv'
  BY <1>1 DEF RateInv, SpacingInv
<1> QED
  BY <1>2, <1>3, <1>4, <1>5 DEF RateInv

\* A thread reads the clock before it waits for the lock (server.py:98-100).
LEMMA ArriveRate ==
  ASSUME ServicesAssumption, RateInv, NEW t \in Threads, Gate!Arrive(t)
  PROVE  RateInv'
<1>0. MaxDelay \in Nat /\ MaxClock \in Nat
  BY DEF ServicesAssumption, Gate!RateAssumption
<1>1. stamp' = [stamp EXCEPT ![t] = clock] /\ UNCHANGED <<clock, window, admitted>>
  BY DEF Gate!Arrive
<1>2. RateTypes'
  BY <1>0, <1>1 DEF RateInv, RateTypes
<1>3. WaitInv'
  <2>1. ASSUME NEW u \in Threads, stamp'[u] # Gate!NoStamp
        PROVE  stamp'[u] <= clock /\ clock <= stamp'[u] + MaxDelay
    BY <1>0, <1>1, <2>1 DEF RateInv, WaitInv, RateTypes, Gate!Waiting
  <2> QED
    BY <1>1, <2>1 DEF WaitInv, Gate!Waiting
<1>4. WindowInv' /\ SpacingInv'
  BY <1>1 DEF RateInv, WindowInv, SpacingInv, Gone
<1> QED
  BY <1>2, <1>3, <1>4 DEF RateInv

\* What is left of the window is the end of what was admitted.
LEMMA PurgedWindow ==
  ASSUME ServicesAssumption, RateInv, NEW t \in Gate!Waiting
  PROVE  \E p \in Seq(0 .. MaxClock) :
           /\ p = Gate!Purged(stamp[t]) /\ Len(p) <= Len(window)
           /\ \A i \in 1 .. Len(p) : p[i] = admitted[Len(admitted) - Len(p) + i]
           /\ \A i \in 1 .. Len(admitted) - Len(p) : admitted[i] + Window <= clock
<1>0. /\ Window \in Nat /\ MaxClock \in Nat /\ clock \in Nat
      /\ stamp[t] \in 0 .. MaxClock /\ stamp[t] <= clock
      /\ window \in Seq(0 .. MaxClock) /\ admitted \in Seq(0 .. MaxClock)
      /\ Len(window) \in Nat /\ Len(admitted) \in Nat
      /\ \A i \in 1 .. Len(window) : window[i] \in Nat
  <2>1. Window \in Nat /\ MaxClock \in Nat
    BY DEF ServicesAssumption, Gate!RateAssumption
  <2>2. window \in Seq(0 .. MaxClock) /\ admitted \in Seq(0 .. MaxClock) /\ clock \in Nat
    BY <2>1 DEF RateInv, RateTypes
  <2>3. Len(window) \in Nat /\ Len(admitted) \in Nat
        /\ \A i \in 1 .. Len(window) : window[i] \in Nat
    BY <2>1, <2>2
  <2>4. stamp[t] \in 0 .. MaxClock /\ stamp[t] <= clock
    BY DEF RateInv, RateTypes, WaitInv, Gate!Waiting
  <2> QED
    BY <2>1, <2>2, <2>3, <2>4
<1>1. PICK k \in 0 .. Len(window), p \in Seq(0 .. MaxClock) :
        /\ p = Gate!Purged(stamp[t]) /\ Len(p) = Len(window) - k
        /\ \A i \in 1 .. Len(p) : p[i] = window[k + i]
        /\ \A i \in 1 .. k : window[i] + Window <= stamp[t]
  BY <1>0, PurgedFacts DEF RateInv
<1>2. /\ Gone \in Nat /\ Gone = Len(admitted) - Len(window)
      /\ \A i \in 1 .. Len(window) : window[i] = admitted[Gone + i]
      /\ \A i \in 1 .. Gone : admitted[i] + Window <= clock
  BY DEF RateInv, WindowInv, Gone
<1>3. Len(admitted) - Len(p) = Gone + k
  BY <1>0, <1>1, <1>2
<1>4. ASSUME NEW i \in 1 .. Len(p)
      PROVE  p[i] = admitted[Gone + k + i]
  <2>1. k + i \in 1 .. Len(window) /\ Gone + (k + i) = Gone + k + i
    BY <1>0, <1>1, <1>2
  <2> QED
    BY <1>1, <1>2, <2>1
<1>5. ASSUME NEW i \in 1 .. Gone + k
      PROVE  admitted[i] + Window <= clock
  <2>1. CASE i \in 1 .. Gone
    BY <1>2, <2>1
  <2>2. CASE i > Gone
    <3>1. i - Gone \in 1 .. k /\ i - Gone \in 1 .. Len(window) /\ Gone + (i - Gone) = i
      <4>1. /\ k \in Nat /\ k <= Len(window) /\ Len(window) \in Nat /\ Gone \in Nat
            /\ i \in Nat /\ i <= Gone + k
        BY <1>0, <1>1, <1>2
      <4> QED
        BY <2>2, <4>1
    <3>2. window[i - Gone] + Window <= stamp[t] /\ window[i - Gone] = admitted[i]
      BY <1>1, <1>2, <3>1
    <3>3. window[i - Gone] \in Nat
      BY <1>0, <3>1
    <3>4. Window \in Nat /\ clock \in Nat /\ stamp[t] \in Nat /\ stamp[t] <= clock
      BY <1>0
    <3> QED
      BY <3>2, <3>3, <3>4
  <2> QED
    BY <1>1, <1>2, <2>1, <2>2
<1>6. Len(p) <= Len(window)
  BY <1>0, <1>1
<1> QED
  BY <1>1, <1>3, <1>4, <1>5, <1>6

\* A request lets the others wait as they did.
LEMMA AnsweredWait ==
  ASSUME RateTypes, WaitInv, NEW t \in Threads, UNCHANGED clock,
         stamp' = [stamp EXCEPT ![t] = Gate!NoStamp]
  PROVE  /\ WaitInv'
         /\ stamp' \in [Threads -> {Gate!NoStamp} \union 0 .. MaxClock]
<1>1. \A u \in Gate!Waiting' : u \in Gate!Waiting /\ stamp'[u] = stamp[u]
  BY DEF Gate!Waiting, RateTypes
<1>2. WaitInv'
  BY <1>1 DEF WaitInv
<1> QED
  BY <1>2 DEF RateTypes

\* The request that is refused purges the window too (server.py:105-106).
LEMMA RefuseRate ==
  ASSUME ServicesAssumption, RateInv, NEW t \in Threads, Gate!Refuse(t)
  PROVE  RateInv'
<1>1. /\ t \in Gate!Waiting /\ stamp' = [stamp EXCEPT ![t] = Gate!NoStamp]
      /\ window' = Gate!Purged(stamp[t]) /\ UNCHANGED <<clock, admitted>>
  BY DEF Gate!Refuse
<1>2. PICK p \in Seq(0 .. MaxClock) :
        /\ p = Gate!Purged(stamp[t]) /\ Len(p) <= Len(window)
        /\ \A i \in 1 .. Len(p) : p[i] = admitted[Len(admitted) - Len(p) + i]
        /\ \A i \in 1 .. Len(admitted) - Len(p) : admitted[i] + Window <= clock
  BY <1>1, PurgedWindow
<1>3. window' = p
  BY <1>1, <1>2
<1>4. WaitInv' /\ RateTypes'
  BY <1>1, <1>3, AnsweredWait DEF RateInv, RateTypes
<1>5. Gone' = Len(admitted) - Len(p)
  BY <1>1, <1>3 DEF Gone
<1>6. Len(p) <= Limit /\ Len(admitted) - Len(p) \in Nat
  BY <1>2 DEF RateInv, RateTypes, WindowInv, Gone, ServicesAssumption, Gate!RateAssumption
<1>7. WindowInv'
  BY <1>1, <1>2, <1>3, <1>5, <1>6 DEF WindowInv
<1>8. SpacingInv'
  BY <1>1 DEF RateInv, SpacingInv
<1> QED
  BY <1>4, <1>7, <1>8 DEF RateInv

\* The request that is let through: what is Limit places before it is gone from the
\* window, so a window older than the clock (server.py:107-108).
LEMMA AdmitRate ==
  ASSUME ServicesAssumption, RateInv, NEW t \in Threads, Gate!Admit(t)
  PROVE  RateInv'
<1>0. /\ Window \in Nat /\ MaxClock \in Nat /\ MaxDelay \in Nat /\ Limit \in Nat
      /\ clock \in Nat
      /\ window \in Seq(0 .. MaxClock) /\ admitted \in Seq(0 .. MaxClock)
      /\ Len(admitted) \in Nat /\ Len(window) \in Nat
      /\ \A i \in 1 .. Len(admitted) : admitted[i] \in Nat
  BY DEF ServicesAssumption, Gate!RateAssumption, RateInv, RateTypes
<1>1. /\ t \in Gate!Waiting /\ stamp' = [stamp EXCEPT ![t] = Gate!NoStamp]
      /\ ~(Len(Gate!Purged(stamp[t])) >= Limit)
      /\ window' = Append(Gate!Purged(stamp[t]), stamp[t])
      /\ admitted' = Append(admitted, stamp[t]) /\ UNCHANGED clock
  BY DEF Gate!Admit, Gate!Full
<1>2. PICK p \in Seq(0 .. MaxClock) :
        /\ p = Gate!Purged(stamp[t]) /\ Len(p) <= Len(window)
        /\ \A i \in 1 .. Len(p) : p[i] = admitted[Len(admitted) - Len(p) + i]
        /\ \A i \in 1 .. Len(admitted) - Len(p) : admitted[i] + Window <= clock
  BY <1>1, PurgedWindow
<1>3. PICK s \in 0 .. MaxClock : s = stamp[t] /\ s <= clock /\ clock <= s + MaxDelay
  BY <1>1 DEF RateInv, RateTypes, WaitInv, Gate!Waiting
<1>4. Len(p) \in Nat /\ Len(p) + 1 <= Limit /\ Len(p) <= Len(admitted)
  BY <1>0, <1>1, <1>2 DEF RateInv, WindowInv, Gone
<1>5. p \in Seq(0 .. MaxClock) /\ s \in 0 .. MaxClock
  BY <1>2, <1>3
<1>6. PICK v \in Seq(0 .. MaxClock) : v = Append(p, s) /\ Longer(v, p, s)
  BY <1>5, AppendFacts
<1>7. PICK a \in Seq(0 .. MaxClock) : a = Append(admitted, s) /\ Longer(a, admitted, s)
  BY <1>0, <1>5, AppendFacts
<1>8. /\ v = window' /\ Len(v) = Len(p) + 1 /\ v[Len(p) + 1] = s
      /\ \A i \in 1 .. Len(p) : v[i] = p[i]
  BY <1>1, <1>2, <1>3, <1>6 DEF Longer
<1>9. /\ a = admitted' /\ Len(a) = Len(admitted) + 1 /\ a[Len(admitted) + 1] = s
      /\ \A i \in 1 .. Len(admitted) : a[i] = admitted[i]
      /\ DOMAIN a = 1 .. Len(admitted) + 1
  BY <1>1, <1>3, <1>7 DEF Longer
<1>10. WaitInv' /\ RateTypes'
  BY <1>1, <1>8, <1>9, AnsweredWait DEF RateInv, RateTypes
<1>11. Gone' = Len(admitted) - Len(p) /\ Gone' \in Nat
  <2>1. Gone' = Len(a) - Len(v)
    BY <1>8, <1>9 DEF Gone
  <2>2. Len(a) = Len(admitted) + 1 /\ Len(v) = Len(p) + 1
    BY <1>8, <1>9
  <2>3. Len(admitted) \in Nat
    BY <1>0
  <2> QED
    BY <1>4, <2>1, <2>2, <2>3
<1>12. WindowInv'
  <2>1. ASSUME NEW i \in 1 .. Len(v)
        PROVE  v[i] = a[Len(admitted) - Len(p) + i]
    <3>1. CASE i = Len(p) + 1
      <4>1. Len(admitted) - Len(p) + i = Len(admitted) + 1
        BY <1>0, <1>4, <3>1
      <4> QED
        BY <1>8, <1>9, <3>1, <4>1
    <3>2. CASE i \in 1 .. Len(p)
      <4>1. Len(admitted) - Len(p) + i \in 1 .. Len(admitted)
        BY <1>0, <1>4, <3>2
      <4> QED
        BY <1>2, <1>8, <1>9, <3>2, <4>1
    <3> QED
      BY <1>4, <1>8, <3>1, <3>2
  <2>2. ASSUME NEW i \in 1 .. Len(admitted) - Len(p)
        PROVE  a[i] + Window <= clock
    <3>1. i \in 1 .. Len(admitted)
      BY <1>0, <1>4
    <3> QED
      BY <1>2, <1>9, <3>1
  <2>3. Len(v) <= Limit
    BY <1>4, <1>8
  <2> QED
    BY <1>1, <1>8, <1>9, <1>11, <2>1, <2>2, <2>3 DEF WindowInv
<1>13. SpacingInv'
  <2>1. ASSUME NEW i \in DOMAIN a, NEW j \in DOMAIN a, i + Limit <= j
        PROVE  a[i] + Window <= a[j] + MaxDelay
    <3>0. i \in 1 .. Len(admitted) + 1 /\ j \in 1 .. Len(admitted) + 1
      BY <1>8, <1>9
    <3>1. CASE j = Len(admitted) + 1
      <4>1. i \in 1 .. Len(admitted) - Len(p) /\ i \in 1 .. Len(admitted)
        <5>1. Len(admitted) \in Nat /\ Limit \in Nat /\ i \in Nat /\ i > 0
          BY <1>0, <3>0
        <5> QED
          BY <1>4, <2>1, <3>1, <5>1
      <4>2. a[i] = admitted[i] /\ a[j] = s
        BY <1>9, <3>1, <4>1
      <4>3. admitted[i] + Window <= clock
        BY <1>2, <4>1
      <4>4. a[i] \in Nat
        BY <1>0, <4>1, <4>2
      <4> QED
        <5>1. s \in Int /\ clock <= s + MaxDelay
          BY <1>0, <1>3
        <5>2. Window \in Nat /\ MaxDelay \in Nat /\ clock \in Nat
          BY <1>0
        <5> QED
          BY <4>2, <4>3, <4>4, <5>1, <5>2
    <3>2. CASE j \in 1 .. Len(admitted)
      <4>1. Limit \in Nat /\ Len(admitted) \in Nat /\ DOMAIN admitted = 1 .. Len(admitted)
        BY <1>0
      <4>2. i \in 1 .. Len(admitted)
        BY <2>1, <3>0, <3>2, <4>1
      <4> QED
        BY <1>9, <2>1, <3>2, <4>1, <4>2 DEF RateInv, SpacingInv
    <3>3. Len(admitted) \in Nat
      BY <1>0
    <3> QED
      BY <3>0, <3>1, <3>2, <3>3
  <2> QED
    BY <1>8, <1>9, <2>1 DEF SpacingInv
<1> QED
  BY <1>10, <1>12, <1>13 DEF RateInv

\* A new process has let nothing through, and nobody waits.
LEMMA ServeRate ==
  ASSUME ServicesAssumption, RateInv, Gate!Serve
  PROVE  RateInv'
<1>1. window' = << >> /\ admitted' = << >> /\ UNCHANGED clock
  BY DEF Gate!Serve
<1>2. stamp' = [t \in Threads |-> Gate!NoStamp]
  BY DEF Gate!Serve
<1>3. Gate!Waiting' = {}
  BY <1>2 DEF Gate!Waiting
<1>4. RateTypes' /\ WaitInv'
  BY <1>1, <1>2, <1>3 DEF RateInv, RateTypes, WaitInv
<1>5. Gone' = 0 /\ Limit \in Nat
  BY <1>1 DEF Gone, ServicesAssumption, Gate!RateAssumption
<1>6. WindowInv' /\ SpacingInv'
  BY <1>1, <1>5 DEF WindowInv, SpacingInv
<1> QED
  BY <1>4, <1>6 DEF RateInv

\* The inductive step, under the steps of the others too.
LEMMA RateInvStep ==
  ASSUME ServicesAssumption, RateInv, [ServicesNext]_<<part, gate, admin, memory, copies>>
  PROVE  RateInv'
<1>1. CASE UNCHANGED gate
  BY <1>1 DEF gate, RateInv, RateTypes, WaitInv, WindowInv, SpacingInv, Gone, Gate!Waiting
<1>2. CASE Gate!Next
  BY <1>2, TickRate, ArriveRate, AdmitRate, RefuseRate, ServeRate DEF Gate!Next
<1> QED
  BY <1>1, <1>2 DEF ServicesNext, GateStep, AdminStep, MemoryStep, CopiesStep

\* The requests of one span are Limit neighbours at most.
LEMMA RateSuffices ==
  ASSUME ServicesAssumption, RateInv
  PROVE  RateHolds
<1>0. /\ Window \in Nat /\ MaxClock \in Nat /\ MaxDelay \in Nat /\ Limit \in Nat \ {0}
      /\ Len(admitted) \in Nat /\ DOMAIN admitted = 1 .. Len(admitted)
      /\ \A i \in DOMAIN admitted : admitted[i] \in Nat
  BY DEF ServicesAssumption, Gate!RateAssumption, RateInv, RateTypes
<1> SUFFICES ASSUME NEW now \in 0 .. MaxClock
             PROVE  Gate!Cardinality({i \in DOMAIN admitted :
                      admitted[i] <= now /\ now - admitted[i] < Window - MaxDelay}) <= Limit
  BY DEF RateHolds, Gate!RateHolds
<1> DEFINE S == {i \in DOMAIN admitted :
                   admitted[i] <= now /\ now - admitted[i] < Window - MaxDelay}
<1>1. CASE S = {}
  BY <1>0, <1>1, GateCardinality, FS_EmptySet
<1>2. CASE S # {}
  <2>1. PICK m \in S : \A y \in S : m <= y
    <3>1. S \in SUBSET Nat
      BY <1>0
    <3> HIDE DEF S
    <3> QED
      BY <1>2, <3>1, LeastNat
  <2>2. ASSUME NEW y \in S
        PROVE  y \in m .. m + Limit - 1
    <3>1. m \in DOMAIN admitted /\ y \in DOMAIN admitted /\ m <= y /\ m \in Nat /\ y \in Nat
      BY <1>0, <2>1
    <3>2. ~(admitted[m] + Window <= admitted[y] + MaxDelay)
      BY <1>0, <2>1, <3>1
    <3>3. ~(m + Limit <= y)
      BY <3>1, <3>2 DEF RateInv, SpacingInv
    <3> QED
      BY <1>0, <3>1, <3>3
  <2>3. m \in Nat
    BY <1>0
  <2> HIDE DEF S
  <2>4. /\ IsFiniteSet(m .. m + Limit - 1)
        /\ Cardinality(m .. m + Limit - 1) = Limit
    <3>1. m \in Int /\ m + Limit - 1 \in Int /\ ~(m > m + Limit - 1)
          /\ (m + Limit - 1) - m + 1 = Limit
      BY <1>0, <2>3
    <3> QED
      BY <3>1, FS_Interval
  <2>5. S \in SUBSET (m .. m + Limit - 1)
    BY <2>2
  <2>6. Cardinality(S) <= Limit
    <3>1. Cardinality(S) <= Cardinality(m .. m + Limit - 1)
      BY <2>4, <2>5, FS_Subset, Zenon
    <3> QED
      BY <2>4, <3>1
  <2> QED
    BY <2>6, GateCardinality DEF S
<1> QED
  BY <1>1, <1>2

\* No span of the window less the longest wait for the lock holds more than Limit
\* admitted requests, for any threads, limit, window and delay (server.py:95-110).
THEOREM RateHoldsAlways ==
  ASSUME ServicesAssumption
  PROVE  ServicesSpec => []RateHolds
<1>1. ServicesInit => RateInv
  BY InitRate DEF ServicesInit
<1>2. RateInv => RateHolds
  BY RateSuffices
<1> QED
  BY <1>1, <1>2, RateInvStep, PTL DEF ServicesSpec

=============================================================================
