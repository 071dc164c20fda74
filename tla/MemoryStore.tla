----------------------------- MODULE MemoryStore -----------------------------
(***************************************************************************)
(* MemoryStore (memory.py): upsert and audit are transactions of one       *)
(* table, made by the handler threads beside each other; recent and search *)
(* read the table under the engine lock.  A transaction sees the table as  *)
(* it was at its begin and commits only if nobody else has committed since *)
(* (the subject of EngineStorage); the ones that did are doomed here.      *)
(***************************************************************************)
EXTENDS Integers, Sequences, SequencesExt, FiniteSets

CONSTANTS
  Ids,         \* of memories: a set of naturals, as they sort
  Scopes,      \* pairs of namespace and session
  Agents,      \* handler threads
  NoMemory,
  Ttls,
  Near,        \* the distance of a memory from the one query embedding, by id
  Cut,         \* 50: how many rows a request looks at
  MaxTime, MaxUpserts  \* bounds

MemoryAssumption ==
  /\ Ids \subseteq Nat /\ Ttls \subseteq Nat \ {0} /\ Near \in [Ids -> Nat]
  /\ Cut \in Nat \ {0} /\ MaxTime \in Nat /\ MaxUpserts \in Nat

VARIABLES
  time,     \* int(time.time())
  memories, \* the rows of agent_memory, in table order
  call,     \* what each thread is in the middle of
  acked,    \* history: for each id the memory of the last upsert that returned
  upserts   \* history: how many upserts began

vars == <<time, memories, call, acked, upserts>>

Memory == [id : Ids, scope : Scopes, by : Agents, created : Nat, expires : Nat]

NoCall == [at |-> "idle", row |-> NoMemory, seen |-> << >>, doomed |-> FALSE]

Init ==
  /\ time = 0 /\ memories = << >> /\ upserts = 0
  /\ call = [a \in Agents |-> NoCall]
  /\ acked = [id \in Ids |-> NoMemory]

Tick ==
  /\ time < MaxTime
  /\ time' = time + 1
  /\ UNCHANGED <<memories, call, acked, upserts>>

\* upsert up to the row: the time is taken before the transaction begins.
Upsert(a, id, scope, ttl) ==
  /\ call[a].at = "idle" /\ upserts < MaxUpserts
  /\ call' = [call EXCEPT ![a] =
       [at |-> "row", seen |-> << >>, doomed |-> FALSE, row |->
         [id |-> id, scope |-> scope, by |-> a, created |-> time, expires |-> time + ttl]]]
  /\ upserts' = upserts + 1
  /\ UNCHANGED <<time, memories, acked>>

Begin(a) ==
  /\ call[a].at = "row"
  /\ call' = [call EXCEPT ![a] = [@ EXCEPT !.at = "transaction", !.seen = memories]]
  /\ UNCHANGED <<time, memories, acked, upserts>>

OtherScope(a) ==
  \E m \in ToSet(call[a].seen) : m.id = call[a].row.id /\ m.scope # call[a].row.scope

\* "memory_id belongs to a different memory scope", even if that memory has expired.
Refuse(a) ==
  /\ call[a].at = "transaction" /\ OtherScope(a)
  /\ call' = [call EXCEPT ![a] = NoCall]
  /\ UNCHANGED <<time, memories, acked, upserts>>

\* The rows of a table at some places, in their order.
Filtered(table, places) ==
  LET kept[i \in 0 .. Len(table)] ==
        IF i = 0 THEN << >>
        ELSE IF i \in places THEN Append(kept[i - 1], table[i]) ELSE kept[i - 1]
  IN  kept[Len(table)]

\* The rows that upsert leaves in the table: neither the memory of the same id nor those
\* expired when the request came.
Kept(seen, row) ==
  Filtered(seen, {i \in DOMAIN seen : seen[i].id # row.id /\ seen[i].expires > row.created})

\* The table of the transaction, with the new memory at its end.
Written(a) == Append(Kept(call[a].seen, call[a].row), call[a].row)

\* Whoever commits dooms the transactions that have begun.
Commits(a) ==
  call' = [b \in Agents |-> IF b = a THEN NoCall
                            ELSE [call[b] EXCEPT !.doomed = call[b].at = "transaction"]]

\* Mutant of Doomed: the version is not compared.
NeverDoomed(a) == FALSE

Doomed(a) == call[a].doomed

Commit(a) ==
  /\ call[a].at = "transaction" /\ ~OtherScope(a) /\ ~Doomed(a)
  /\ memories' = Written(a)
  /\ acked' = [acked EXCEPT ![call[a].row.id] = call[a].row]
  /\ Commits(a)
  /\ UNCHANGED <<time, upserts>>

\* TransactionConflict is a NovaDBError: 422, and nothing was written.
Conflict(a) ==
  /\ call[a].at = "transaction" /\ ~OtherScope(a) /\ Doomed(a)
  /\ call' = [call EXCEPT ![a] = NoCall]
  /\ UNCHANGED <<time, memories, acked, upserts>>

\* audit, a transaction over the other table, from begin to commit.
Audit(a) ==
  /\ call[a].at = "idle"
  /\ Commits(a)
  /\ UNCHANGED <<time, memories, acked, upserts>>

Next ==
  \/ \E a \in Agents, id \in Ids, scope \in Scopes, ttl \in Ttls : Upsert(a, id, scope, ttl)
  \/ \E a \in Agents : Begin(a) \/ Refuse(a) \/ Commit(a) \/ Conflict(a) \/ Audit(a)
  \/ Tick

-----------------------------------------------------------------------------
(* Reading.                                                                *)

Live(scope, now) ==
  Filtered(memories, {i \in DOMAIN memories : memories[i].scope = scope
                                               /\ memories[i].expires > now})

\* _visible: the first rows of the table, not the newest ones.
Visible(scope, now) ==
  LET live == Live(scope, now) IN SubSeq(live, 1, IF Len(live) < Cut THEN Len(live) ELSE Cut)

Newer(m, n) == m.created > n.created \/ (m.created = n.created /\ m.id > n.id)

\* Mutant of Nearer: the farthest first.
Farther(m, n) == Near[m.id] > Near[n.id]

Nearer(m, n) ==
  Near[m.id] < Near[n.id] \/ (Near[m.id] = Near[n.id] /\ m.created > n.created)

\* The rows of s, of which better says, as pairs of places, which belong ahead of which:
\* rows.sort is stable, so that equals keep their order.  (SortSeq of the library is not
\* defined when two elements tie.)
Ahead(s, i, better) ==
  {j \in DOMAIN s : <<j, i>> \in better \/ (j < i /\ <<i, j>> \notin better)}

Sorted(s, better) ==
  [k \in DOMAIN s |-> s[CHOOSE i \in DOMAIN s : Cardinality(Ahead(s, i, better)) = k - 1]]

NewerPlaces(s) == {p \in (DOMAIN s) \X (DOMAIN s) : Newer(s[p[1]], s[p[2]])}

NearerPlaces(s) == {p \in (DOMAIN s) \X (DOMAIN s) : Nearer(s[p[1]], s[p[2]])}

First(s, limit) == SubSeq(s, 1, IF Len(s) < limit THEN Len(s) ELSE limit)

Recent(scope, now, limit) ==
  LET rows == Visible(scope, now) IN First(Sorted(rows, NewerPlaces(rows)), limit)

\* search by embedding; without one it is recent, filtered by the text.
Search(scope, now, limit) ==
  LET rows == Visible(scope, now) IN First(Sorted(rows, NearerPlaces(rows)), limit)

-----------------------------------------------------------------------------
(* Properties.                                                             *)

TypeOK ==
  /\ time \in 0 .. MaxTime /\ memories \in Seq(Memory)
  /\ acked \in [Ids -> Memory \union {NoMemory}]
  /\ \A a \in Agents : /\ call[a].at \in {"idle", "row", "transaction"}
                       /\ call[a].at # "idle" => call[a].row \in Memory

\* A memory whose upsert returned is in the table once and as it was sent, until it
\* expires or another upsert of its id returns: neither a concurrent upsert or audit,
\* nor the expiry with a time taken earlier, nor the replacement of an id drops,
\* doubles or revives it (memory.py:201-224).
AckedRetrievable ==
  /\ \A i, j \in DOMAIN memories : memories[i].id = memories[j].id => i = j
  /\ \A id \in Ids :
       acked[id] # NoMemory /\ acked[id].expires > time
         => \E i \in DOMAIN memories : memories[i] = acked[id]

Best(answer, live, Better(_, _), limit) ==
  /\ Len(answer) = (IF Len(live) < limit THEN Len(live) ELSE limit)
  /\ ToSet(answer) \subseteq ToSet(live)
  /\ \A m \in ToSet(answer) : \A n \in ToSet(live) \ ToSet(answer) : ~Better(n, m)
  /\ \A i \in 1 .. Len(answer) - 1 : ~Better(answer[i + 1], answer[i])

\* Recent returns the newest live memories of a scope and search the nearest ones,
\* whatever the order of the table, in which a memory may stand behind one that is
\* newer; as long as the scope has no more than Cut (memory.py:255-284).
RecentIsLatest ==
  \A scope \in Scopes, limit \in 1 .. Cut :
    LET live == Live(scope, time)
    IN  Len(live) <= Cut =>
          /\ Best(Recent(scope, time, limit), live, Newer, limit)
          /\ Best(Search(scope, time, limit), live,
                  LAMBDA m, n : Near[m.id] < Near[n.id], limit)

\* "/memory/recent returns the latest non-expired summaries" (README.md:88), however
\* many there are.
RecentIsAlwaysLatest ==
  \A scope \in Scopes, limit \in 1 .. Cut :
    Best(Recent(scope, time, limit), Live(scope, time), Newer, limit)

=============================================================================
