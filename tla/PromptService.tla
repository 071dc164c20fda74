---------------------------- MODULE PromptService ----------------------------
(***************************************************************************)
(* PromptSQLService (prompting.py): plans that expire, approval of a plan  *)
(* once and only on the database it was previewed on, and the undo/redo    *)
(* history of approved mutations, beside clients that commit directly.     *)
(*                                                                         *)
(* approve, undo and redo hold the engine lock from end to end and are one *)
(* step each; a preview releases it while the planner runs.  The tables    *)
(* are the sequence of changes that made them, one per mutation.           *)
(***************************************************************************)
EXTENDS Naturals, Sequences, FiniteSets

CONSTANTS
  Plans,         \* plan ids; a plan has at most one execution, named after it
  Other,         \* the change of a commit that is not an approved plan
  Ttl,           \* ttl_seconds
  MaxPlans,      \* max_plans
  HistoryLimit,  \* history_limit
  LateFailures,  \* BOOLEAN: a checkpoint may raise after a write was published
  MaxVersion,    \* bound: no version change starts at this version
  MaxClock       \* bound of the clock

ASSUME PlansAssumption == Other \notin Plans
ASSUME LimitsAssumption ==
  /\ Ttl \in Nat \ {0} /\ MaxPlans \in Nat \ {0} /\ HistoryLimit \in Nat \ {0}
  /\ LateFailures \in BOOLEAN /\ MaxVersion \in Nat /\ MaxClock \in Nat

VARIABLES
  version, tables,  \* of the engine
  clock,            \* time.time()
  plan,             \* the PromptPlan of each id
  record,           \* the ExecutionRecord of each id
  history, redo,    \* the two deques, of ids
  runs,             \* history: how often approve ran the statement of a plan
  previewed,        \* history: the tables its preview was made on
  disturbed         \* history: something changed the tables without a record

engineVars == <<version, tables>>
ghostVars == <<runs, previewed, disturbed>>
vars == <<engineVars, clock, plan, record, history, redo, ghostVars>>

NoPlan == [status |-> "none", readOnly |-> FALSE, base |-> 0, created |-> 0]

\* undone is 0 for None: an undo makes a version of at least 2.
NoRecord == [before |-> << >>, after |-> << >>, applied |-> 0, undone |-> 0]

Init ==
  /\ version = 0 /\ tables = << >> /\ clock = 0
  /\ plan = [p \in Plans |-> NoPlan]
  /\ record = [p \in Plans |-> NoRecord]
  /\ history = << >> /\ redo = << >>
  /\ runs = [p \in Plans |-> 0]
  /\ previewed = [p \in Plans |-> << >>]
  /\ disturbed = FALSE

-----------------------------------------------------------------------------
(* Plans.                                                                  *)

\* self._plans
Stored == {p \in Plans : plan[p].status \notin {"none", "planning", "gone"}}

Expires(p) == plan[p].created + Ttl

\* The first part of preview: schema and version under the lock.
Preview(p, readOnly) ==
  /\ plan[p].status = "none"
  /\ plan' = [plan EXCEPT ![p] = [status |-> "planning", readOnly |-> readOnly,
                                  base |-> version, created |-> 0]]
  /\ previewed' = [previewed EXCEPT ![p] = tables]
  /\ UNCHANGED <<engineVars, clock, record, history, redo, runs, disturbed>>

\* Mutant of Room: the new plan is not counted.
RoomForOneLess == MaxPlans

\* How many plans _purge_plans leaves before the new one is stored.
Room == MaxPlans - 1

\* The planner has answered: _purge_plans, then the plan is stored.
Propose(p) ==
  /\ plan[p].status = "planning"
  /\ \E kept \in SUBSET {q \in Stored : Expires(q) > clock} :
       LET fresh == {q \in Stored : Expires(q) > clock}
       IN  /\ Cardinality(kept) = (IF Cardinality(fresh) <= Room
                                     THEN Cardinality(fresh) ELSE Room)
           /\ \A q \in kept, old \in fresh \ kept : plan[old].created <= plan[q].created
           /\ plan' = [q \in Plans |->
                         IF q = p THEN [plan[p] EXCEPT !.status = "PENDING_APPROVAL",
                                                       !.created = clock]
                         ELSE IF q \in Stored \ kept THEN [NoPlan EXCEPT !.status = "gone"]
                         ELSE plan[q]]
  /\ UNCHANGED <<engineVars, clock, record, history, redo, ghostVars>>

SetStatus(p, status) ==
  plan' = IF p \in Stored THEN [plan EXCEPT ![p].status = status] ELSE plan

\* approve of an expired plan, whatever became of it before.
ApproveExpired(p) ==
  /\ p \in Stored /\ clock > Expires(p)
  /\ SetStatus(p, "EXPIRED")
  /\ UNCHANGED <<engineVars, clock, record, history, redo, ghostVars>>

Reject(p) ==
  /\ plan[p].status = "PENDING_APPROVAL" /\ clock <= Expires(p)
  /\ SetStatus(p, "REJECTED")
  /\ UNCHANGED <<engineVars, clock, record, history, redo, ghostVars>>

\* Mutant of Approvable: a plan survives changes that its preview did not see.
ApprovableAtAnyVersion(p) ==
  plan[p].status = "PENDING_APPROVAL" /\ clock <= Expires(p)

\* Mutant of Approvable: an executed plan may be approved again.
ApprovableAgain(p) ==
  /\ plan[p].status \in {"PENDING_APPROVAL", "UNDONE"} /\ clock <= Expires(p)

Approvable(p) ==
  /\ plan[p].status = "PENDING_APPROVAL" /\ clock <= Expires(p)
  /\ plan[p].base = version

ApproveRead(p) ==
  /\ Approvable(p) /\ plan[p].readOnly
  /\ SetStatus(p, "EXECUTED")
  /\ runs' = [runs EXCEPT ![p] = @ + 1]
  /\ UNCHANGED <<engineVars, clock, record, history, redo, previewed, disturbed>>

\* Mutant of Push: a deque without its maxlen.
PushUnbounded(deque, p) == Append(deque, p)

\* deque(maxlen=history_limit)
Push(deque, p) ==
  LET longer == Append(deque, p)
  IN  IF Len(longer) > HistoryLimit THEN Tail(longer) ELSE longer

\* Mutant of NewHistory: redo survives a new mutation.
KeepRedo(p) == history' = Push(history, p) /\ UNCHANGED redo

NewHistory(p) == history' = Push(history, p) /\ redo' = << >>

\* Mutant of Executed: the undo snapshot is taken after the commit.
ExecutedTwice(p) ==
  [before |-> Append(tables, p), after |-> Append(tables, p),
   applied |-> version + 1, undone |-> 0]

Executed(p) ==
  [before |-> tables, after |-> Append(tables, p), applied |-> version + 1, undone |-> 0]

ApproveWrite(p) ==
  /\ Approvable(p) /\ ~plan[p].readOnly /\ version < MaxVersion
  /\ version' = version + 1
  /\ tables' = Append(tables, p)
  /\ record' = [record EXCEPT ![p] = Executed(p)]
  /\ NewHistory(p)
  /\ SetStatus(p, "EXECUTED")
  /\ runs' = [runs EXCEPT ![p] = @ + 1]
  /\ UNCHANGED <<clock, previewed, disturbed>>

\* The commit is published and its checkpoint then raises: approve raises too.
ApproveRaises(p) ==
  /\ LateFailures /\ Approvable(p) /\ ~plan[p].readOnly /\ version < MaxVersion
  /\ version' = version + 1
  /\ tables' = Append(tables, p)
  /\ runs' = [runs EXCEPT ![p] = @ + 1]
  /\ disturbed' = TRUE
  /\ UNCHANGED <<clock, plan, record, history, redo, previewed>>

-----------------------------------------------------------------------------
(* Undo and redo.                                                          *)

Undoable == {i \in DOMAIN history : record[history[i]].undone = 0}

LastUndoable == CHOOSE i \in Undoable : \A j \in Undoable : j <= i

\* restore_state: refused unless the version is the expected one.
Restore(state, expected) ==
  /\ version = expected /\ version < MaxVersion
  /\ version' = version + 1
  /\ tables' = state

\* The record before the undone one is taken to apply to the restored version.
AfterUndo(i) ==
  [p \in Plans |->
     IF p = history[i] THEN [record[p] EXCEPT !.undone = version + 1]
     ELSE IF i > 1 /\ p = history[i - 1] THEN [record[p] EXCEPT !.applied = version + 1]
     ELSE record[p]]

Undo ==
  /\ Undoable # {}
  /\ LET p == history[LastUndoable]
     IN  /\ Restore(record[p].before, record[p].applied)
         /\ record' = AfterUndo(LastUndoable)
         /\ redo' = Push(redo, p)
         /\ SetStatus(p, "UNDONE")
  /\ UNCHANGED <<clock, history, ghostVars>>

AfterRedo(i) ==
  [p \in Plans |->
     IF p = history[i] THEN [record[p] EXCEPT !.applied = version + 1, !.undone = 0]
     ELSE IF i < Len(history) /\ p = history[i + 1] /\ record[p].undone # 0
       THEN [record[p] EXCEPT !.undone = version + 1]
     ELSE record[p]]

Redo ==
  /\ redo # << >>
  /\ LET p == redo[Len(redo)]
     IN  /\ record[p].undone # 0
         /\ Restore(record[p].after, record[p].undone)
         /\ \E i \in DOMAIN history : history[i] = p /\ record' = AfterRedo(i)
         /\ redo' = SubSeq(redo, 1, Len(redo) - 1)
         /\ SetStatus(p, "EXECUTED")
  /\ UNCHANGED <<clock, history, ghostVars>>

\* restore_state publishes and its checkpoint then raises.
RestoreRaises ==
  /\ LateFailures
  /\ \/ /\ Undoable # {}
        /\ LET p == history[LastUndoable]
           IN  Restore(record[p].before, record[p].applied)
     \/ /\ redo # << >>
        /\ LET p == redo[Len(redo)]
           IN  record[p].undone # 0 /\ Restore(record[p].after, record[p].undone)
  /\ disturbed' = TRUE
  /\ UNCHANGED <<clock, plan, record, history, redo, runs, previewed>>

-----------------------------------------------------------------------------
\* A client that does not go through this service.
OutsideCommit ==
  /\ version < MaxVersion
  /\ version' = version + 1
  /\ tables' = Append(tables, Other)
  /\ disturbed' = TRUE
  /\ UNCHANGED <<clock, plan, record, history, redo, runs, previewed>>

\* The clock of the model stops at its bound; time does not.
PassTime ==
  /\ clock' = IF clock < MaxClock THEN clock + 1 ELSE clock
  /\ UNCHANGED <<engineVars, plan, record, history, redo, ghostVars>>

Next ==
  \/ \E p \in Plans :
       \/ \E readOnly \in BOOLEAN : Preview(p, readOnly)
       \/ Propose(p) \/ ApproveExpired(p) \/ Reject(p)
       \/ ApproveRead(p) \/ ApproveWrite(p) \/ ApproveRaises(p)
  \/ Undo \/ Redo \/ RestoreRaises \/ OutsideCommit \/ PassTime

Spec == Init /\ [][Next]_vars

-----------------------------------------------------------------------------
(* Properties.                                                             *)

Statuses ==
  {"none", "planning", "gone", "PENDING_APPROVAL", "REJECTED", "EXPIRED", "EXECUTED",
   "UNDONE"}
Tables == Seq(Plans \union {Other})

\* Every variable has its type, and the deques stay within their length.
TypeOK ==
  /\ version \in Nat /\ tables \in Tables /\ clock \in Nat
  /\ plan \in [Plans -> [status : Statuses, readOnly : BOOLEAN, base : Nat, created : Nat]]
  /\ record \in [Plans -> [before : Tables, after : Tables, applied : Nat, undone : Nat]]
  /\ history \in Seq(Plans) /\ Len(history) <= HistoryLimit
  /\ redo \in Seq(Plans) /\ Len(redo) <= HistoryLimit
  /\ runs \in [Plans -> Nat] /\ previewed \in [Plans -> Tables]
  /\ disturbed \in BOOLEAN

\* Single use (prompting.py:410): the statement of a plan runs at most once,
\* however often it is approved and even when its commit raised after publishing.
RunsOnce == \A p \in Plans : runs[p] <= 1

\* A statement runs on exactly the tables its preview described (prompting.py:419):
\* equal versions mean equal tables, through commits, undos and redos in between.
RunsAsPreviewed ==
  [][\A p \in Plans : runs'[p] # runs[p] => tables = previewed[p]]_vars

\* What redo relies on (prompting.py:467-476): each entry is undone, is there once
\* and is still in the history, so that list.index finds it.
RedoStack ==
  \A i \in DOMAIN redo :
    /\ record[redo[i]].undone # 0
    /\ \E j \in DOMAIN history : history[j] = redo[i]
    /\ \A j \in 1 .. i - 1 : redo[j] # redo[i]

\* The table of plans never holds more than max_plans (prompting.py:303).
PlansBounded == Cardinality(Stored) <= MaxPlans

Undone(p) == record[p].undone = 0 /\ record'[p].undone # 0
Redone(p) == record[p].undone # 0 /\ record'[p].undone = 0

\* An undo takes back its own mutation and a redo puts back its own, nothing else
\* (README.md:67: "restore is refused if another commit intervened").
RestoresExactly ==
  [][\A p \in Plans :
       /\ Undone(p) => tables = Append(tables', p)
       /\ Redone(p) => tables' = Append(tables, p)]_vars

\* While every change of the tables has a record, undo and redo are exact, through
\* any mixture of approvals, undos and redos (prompting.py:453-455, 476-480).
RestoresExactlyAlone ==
  [][~disturbed => \A p \in Plans :
       /\ Undone(p) => tables = Append(tables', p)
       /\ Redone(p) => tables' = Append(tables, p)]_vars

-----------------------------------------------------------------------------
(* The inductive invariants behind them.                                   *)

\* A plan that can still run has not run, and if the version is still its own the
\* tables are still those of its preview; the version counts every change.
PlanInv ==
  /\ IsFiniteSet(Stored) /\ PlansBounded
  /\ \A p \in Plans :
       /\ plan[p].base <= version /\ runs[p] <= 1
       /\ plan[p].status \in {"none", "planning"} => runs[p] = 0
       /\ plan[p].status \in {"planning", "PENDING_APPROVAL"} /\ plan[p].base = version
            => runs[p] = 0 /\ previewed[p] = tables

\* The entry of the history that undo may take back; redo holds those behind it.
Top == Len(history) - Len(redo)

Entry(i) == record[history[i]]

\* Redo is the end of the history, the last undone on top, and no entry but Top
\* is done and at the version of the moment: every other undo is refused.
HistoryInv ==
  /\ \A i, j \in DOMAIN history : history[i] = history[j] => i = j
  /\ \A i \in DOMAIN history :
       /\ runs[history[i]] = 1
       /\ Entry(i).after = Append(Entry(i).before, history[i])
       /\ Entry(i).undone = 0 /\ Entry(i).applied = version => i = Top
  /\ \A p \in Plans :
       record[p].applied <= version /\ (runs[p] = 0 => record[p].undone = 0)
  /\ Len(redo) <= Len(history)
  /\ \A j \in DOMAIN redo :
       redo[j] = history[Len(history) + 1 - j] /\ record[redo[j]].undone # 0

\* While every change has a record: a done entry, or one that redo holds, ends
\* where its successor begins, and the tables stand between Top and redo.
UndoInv ==
  ~disturbed =>
    /\ \A i \in DOMAIN history :
         i < Len(history) /\ (Entry(i).undone = 0 \/ i > Top)
           => Entry(i).after = Entry(i + 1).before
    /\ Top >= 1 /\ Entry(Top).undone = 0 => tables = Entry(Top).after
    /\ redo # << >> => tables = Entry(Top + 1).before

\* The conjunction is inductive, and every property above follows from it.
ServiceInv == TypeOK /\ PlanInv /\ HistoryInv /\ UndoInv

=============================================================================
