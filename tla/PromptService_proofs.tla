------------------------- MODULE PromptService_proofs -------------------------
(***************************************************************************)
(* Proofs about PromptService, for any number of plans and any limits: a   *)
(* plan runs at most once and on what it described, the plan table and the *)
(* deques stay bounded, and undo and redo are exact as long as every       *)
(* change of the tables has its record.                                    *)
(***************************************************************************)
EXTENDS PromptService, SequenceTheorems, FiniteSetTheorems, WellFoundedInduction, TLAPS

-----------------------------------------------------------------------------
(* The operators the actions are built from.                               *)

PlanRecords == [status : Statuses, readOnly : BOOLEAN, base : Nat, created : Nat]
ExecutionRecords == [before : Tables, after : Tables, applied : Nat, undone : Nat]

\* A nonempty set of positions of a sequence has a last one.
LEMMA LastPosition ==
  ASSUME NEW n \in Nat, NEW S \in SUBSET (1 .. n), S # {}
  PROVE  \E i \in S : \A j \in S : j <= i
<1> DEFINE T == {n - i : i \in S}
           R == OpToRel(<, Nat)
<1>1. IsWellFoundedOn(R, Nat)
  BY NatLessThanWellFounded
<1>2. \A j \in S : j \in Nat /\ n - j \in Nat /\ n - j \in T
  OBVIOUS
<1>3. T # {} /\ T \subseteq Nat
  BY <1>2
<1>4. PICK m \in T : \A y \in T : ~(<<y, m>> \in R)
  <2> HIDE DEF T, R
  <2> QED
    BY <1>1, <1>3, WFMin
<1>5. \A y \in T : ~(y < m)
  BY <1>3, <1>4 DEF OpToRel
<1>6. PICK i \in S : m = n - i
  BY <1>4
<1>7. \A j \in S : ~(n - j < n - i)
  BY <1>2, <1>5, <1>6
<1> QED
  BY <1>2, <1>7

LEMMA LastUndoableIs ==
  ASSUME TypeOK, Undoable # {}
  PROVE  /\ LastUndoable \in DOMAIN history /\ history[LastUndoable] \in Plans
         /\ record[history[LastUndoable]].undone = 0
<1>1. Len(history) \in Nat /\ Undoable \in SUBSET (1 .. Len(history))
  <2>1. Len(history) \in Nat /\ DOMAIN history = 1 .. Len(history)
    BY DEF TypeOK
  <2> QED
    BY <2>1 DEF Undoable
<1>2. \E i \in Undoable : \A j \in Undoable : j <= i
  BY <1>1, LastPosition
<1>3. LastUndoable \in Undoable
  BY <1>2 DEF LastUndoable
<1> QED
  BY <1>3 DEF Undoable, TypeOK

\* A sequence without its last element.
LEMMA FrontOf ==
  ASSUME NEW S, NEW s \in Seq(S), s # << >>
  PROVE  /\ SubSeq(s, 1, Len(s) - 1) \in Seq(S)
         /\ Len(SubSeq(s, 1, Len(s) - 1)) = Len(s) - 1
         /\ \A i \in 1 .. Len(s) - 1 : SubSeq(s, 1, Len(s) - 1)[i] = s[i]
<1> DEFINE n == Len(s) - 1
<1>1. n \in Nat /\ n \in Int /\ 1 \in Int
  OBVIOUS
<1>2. \A i \in 1 .. Len(s) - 1 : s[i] \in S
  OBVIOUS
<1> HIDE DEF n
<1>3. /\ SubSeq(s, 1, n) \in Seq(S)
      /\ Len(SubSeq(s, 1, n)) = IF 1 <= n THEN n - 1 + 1 ELSE 0
      /\ \A i \in 1 .. n - 1 + 1 : SubSeq(s, 1, n)[i] = s[1 + i - 1]
  BY <1>1, <1>2, SubSeqProperties DEF n
<1>4. n - 1 + 1 = n /\ (~(1 <= n) => n = 0) /\ \A i \in 1 .. n : 1 + i - 1 = i
  BY <1>1
<1>5. Len(SubSeq(s, 1, n)) = n /\ \A i \in 1 .. n : SubSeq(s, 1, n)[i] = s[i]
  BY <1>3, <1>4
<1> QED
  BY <1>3, <1>5 DEF n

\* deque(maxlen): the element goes to the end, and the first falls off a full one.
LEMMA PushFacts ==
  ASSUME NEW deque \in Seq(Plans), Len(deque) <= HistoryLimit, NEW p \in Plans
  PROVE  /\ Push(deque, p) \in Seq(Plans) /\ Len(Push(deque, p)) <= HistoryLimit
         /\ \E d \in {0, 1} :
              /\ Len(deque) < HistoryLimit => d = 0
              /\ Len(Push(deque, p)) = Len(deque) + 1 - d
              /\ Len(Push(deque, p)) >= 1
              /\ Push(deque, p)[Len(Push(deque, p))] = p
              /\ \A i \in 1 .. Len(Push(deque, p)) - 1 : Push(deque, p)[i] = deque[i + d]
<1> DEFINE longer == Append(deque, p)
<1>1. /\ longer \in Seq(Plans) /\ Len(longer) = Len(deque) + 1 /\ Len(deque) \in Nat
      /\ HistoryLimit \in Nat \ {0}
      /\ longer[Len(deque) + 1] = p /\ \A i \in 1 .. Len(deque) : longer[i] = deque[i]
  BY LimitsAssumption
<1> HIDE DEF longer
<1>2. CASE Len(longer) > HistoryLimit
  <2>1. Push(deque, p) = Tail(longer)
    BY <1>2 DEF Push, longer
  <2>2. /\ Tail(longer) \in Seq(Plans) /\ Len(Tail(longer)) = Len(deque)
        /\ \A i \in 1 .. Len(deque) : Tail(longer)[i] = longer[i + 1]
    <3>1. longer # << >>
      BY <1>1
    <3> QED
      BY <1>1, <3>1, HeadTailProperties
  <2>3. Len(deque) = HistoryLimit /\ Len(deque) >= 1
    BY <1>1, <1>2
  <2>4. Tail(longer)[Len(deque)] = p
    BY <1>1, <2>2, <2>3
  <2>5. \A i \in 1 .. Len(deque) - 1 : Tail(longer)[i] = deque[i + 1]
    BY <1>1, <2>2
  <2>6. Len(Tail(longer)) = Len(deque) + 1 - 1
    BY <1>1, <2>2
  <2> QED
    BY <1>1, <2>1, <2>2, <2>3, <2>4, <2>5, <2>6
<1>3. CASE ~(Len(longer) > HistoryLimit)
  <2>1. Push(deque, p) = longer
    BY <1>3 DEF Push, longer
  <2>2. Len(longer) = Len(deque) + 1 - 0 /\ Len(longer) >= 1
    BY <1>1
  <2>3. \A i \in 1 .. Len(longer) - 1 : longer[i] = deque[i + 0]
    BY <1>1
  <2> QED
    BY <1>1, <1>3, <2>1, <2>2, <2>3
<1> QED
  BY <1>2, <1>3

LEMMA SetStatusFacts ==
  ASSUME TypeOK, NEW p \in Plans,
         NEW status \in {"REJECTED", "EXPIRED", "EXECUTED", "UNDONE"}, SetStatus(p, status)
  PROVE  /\ plan' \in [Plans -> PlanRecords]
         /\ \A q \in Plans :
              /\ plan'[q].base = plan[q].base
              /\ plan'[q].status = plan[q].status \/ plan'[q].status = status
         /\ p \in Stored => plan'[p].status = status
         /\ Stored' = Stored
<1>1. plan \in [Plans -> PlanRecords]
  BY DEF TypeOK, PlanRecords
<1>2. CASE p \in Stored
  <2>1. plan' = [plan EXCEPT ![p].status = status]
    BY <1>2 DEF SetStatus
  <2>2. /\ plan'[p] \in PlanRecords /\ plan'[p].base = plan[p].base
        /\ plan'[p].status = status
    BY <1>1, <2>1 DEF PlanRecords, Statuses
  <2>3. \A q \in Plans \ {p} : plan'[q] = plan[q]
    BY <1>1, <2>1
  <2>4. plan' \in [Plans -> PlanRecords]
    BY <1>1, <2>1, <2>2, <2>3
  <2>5. Stored' = Stored
    BY <1>2, <2>2, <2>3 DEF Stored
  <2> QED
    BY <2>2, <2>3, <2>4, <2>5
<1>3. CASE p \notin Stored
  <2>1. plan' = plan
    BY <1>3 DEF SetStatus
  <2> QED
    BY <1>1, <1>3, <2>1 DEF Stored
<1> QED
  BY <1>2, <1>3

\* An approvable plan is stored, of the current version, and has not run.
LEMMA ApprovableFacts ==
  ASSUME PlanInv, NEW p \in Plans, Approvable(p)
  PROVE  p \in Stored /\ runs[p] = 0 /\ previewed[p] = tables /\ plan[p].base = version
BY DEF PlanInv, Approvable, Stored

-----------------------------------------------------------------------------
(* Types.                                                                  *)

LEMMA TypePlans ==
  ASSUME TypeOK, NEW p \in Plans,
         \/ \E readOnly \in BOOLEAN : Preview(p, readOnly)
         \/ Propose(p) \/ ApproveExpired(p) \/ Reject(p)
  PROVE  TypeOK'
<1>0. plan \in [Plans -> PlanRecords] /\ clock \in Nat /\ version \in Nat
  BY DEF TypeOK, PlanRecords
<1>1. ASSUME NEW readOnly \in BOOLEAN, Preview(p, readOnly) PROVE TypeOK'
  <2>1. [status |-> "planning", readOnly |-> readOnly, base |-> version, created |-> 0]
          \in PlanRecords
    BY <1>0 DEF PlanRecords, Statuses
  <2>2. plan' \in [Plans -> PlanRecords] /\ previewed' \in [Plans -> Tables]
    BY <1>0, <1>1, <2>1 DEF Preview, TypeOK
  <2> QED
    BY <1>1, <2>2 DEF Preview, TypeOK, PlanRecords, engineVars
<1>2. CASE Propose(p)
  <2>1. PICK kept :
          plan' = [q \in Plans |->
                     IF q = p THEN [plan[p] EXCEPT !.status = "PENDING_APPROVAL",
                                                   !.created = clock]
                     ELSE IF q \in Stored \ kept THEN [NoPlan EXCEPT !.status = "gone"]
                     ELSE plan[q]]
    BY <1>2 DEF Propose
  <2>2. /\ [plan[p] EXCEPT !.status = "PENDING_APPROVAL", !.created = clock] \in PlanRecords
        /\ [NoPlan EXCEPT !.status = "gone"] \in PlanRecords
    BY <1>0 DEF PlanRecords, Statuses, NoPlan
  <2>3. plan' \in [Plans -> PlanRecords]
    BY <1>0, <2>1, <2>2
  <2> QED
    BY <1>2, <2>3 DEF Propose, TypeOK, PlanRecords, engineVars, ghostVars
<1>3. CASE ApproveExpired(p) \/ Reject(p)
  <2>1. plan' \in [Plans -> PlanRecords]
    BY <1>3, SetStatusFacts DEF ApproveExpired, Reject
  <2> QED
    BY <1>3, <2>1 DEF ApproveExpired, Reject, TypeOK, PlanRecords, engineVars, ghostVars
<1> QED
  BY <1>1, <1>2, <1>3

LEMMA TypeApprovals ==
  ASSUME TypeOK, NEW p \in Plans, ApproveRead(p) \/ ApproveWrite(p) \/ ApproveRaises(p)
  PROVE  TypeOK'
<1>1. runs' \in [Plans -> Nat]
  <2>1. runs' = [runs EXCEPT ![p] = runs[p] + 1] /\ runs \in [Plans -> Nat]
    BY DEF TypeOK, ApproveRead, ApproveWrite, ApproveRaises
  <2> QED
    BY <2>1
<1>2. Append(tables, p) \in Tables /\ tables \in Tables /\ version + 1 \in Nat
  BY DEF TypeOK, Tables
<1>3. CASE ApproveRead(p)
  <2>1. plan' \in [Plans -> PlanRecords]
    BY <1>3, SetStatusFacts DEF ApproveRead
  <2> QED
    BY <1>1, <1>3, <2>1 DEF ApproveRead, TypeOK, PlanRecords, engineVars
<1>4. CASE ApproveWrite(p)
  <2>1. plan' \in [Plans -> PlanRecords]
    BY <1>4, SetStatusFacts DEF ApproveWrite
  <2>2. history' \in Seq(Plans) /\ Len(history') <= HistoryLimit
    BY <1>4, PushFacts DEF ApproveWrite, NewHistory, TypeOK
  <2>3. redo' \in Seq(Plans) /\ Len(redo') <= HistoryLimit
    <3>1. redo' = << >> /\ Len(<< >>) = 0 /\ HistoryLimit \in Nat
      BY <1>4, LimitsAssumption DEF ApproveWrite, NewHistory
    <3> QED
      BY <3>1
  <2>4. Executed(p) \in ExecutionRecords
    BY <1>2 DEF Executed, ExecutionRecords
  <2>5. record' \in [Plans -> ExecutionRecords]
    BY <1>4, <2>4 DEF ApproveWrite, TypeOK, ExecutionRecords
  <2> QED
    BY <1>1, <1>2, <1>4, <2>1, <2>2, <2>3, <2>5
       DEF ApproveWrite, TypeOK, PlanRecords, ExecutionRecords
<1>5. CASE ApproveRaises(p)
  BY <1>1, <1>2, <1>5 DEF ApproveRaises, TypeOK
<1> QED
  BY <1>3, <1>4, <1>5

LEMMA TypeRestores ==
  ASSUME TypeOK, Undo \/ Redo
  PROVE  TypeOK'
<1>0. /\ record \in [Plans -> ExecutionRecords] /\ version + 1 \in Nat
      /\ history \in Seq(Plans) /\ redo \in Seq(Plans)
  BY DEF TypeOK, ExecutionRecords
<1>1. \A q \in Plans :
        /\ record[q].before \in Tables /\ record[q].after \in Tables
        /\ [record[q] EXCEPT !.undone = version + 1] \in ExecutionRecords
        /\ [record[q] EXCEPT !.applied = version + 1] \in ExecutionRecords
        /\ [record[q] EXCEPT !.applied = version + 1, !.undone = 0] \in ExecutionRecords
  BY <1>0 DEF ExecutionRecords
<1>2. CASE Undo
  <2> DEFINE p == history[LastUndoable]
  <2>1. p \in Plans
    BY <1>2, LastUndoableIs DEF Undo
  <2>2. plan' \in [Plans -> PlanRecords]
    BY <1>2, <2>1, SetStatusFacts DEF Undo
  <2>3. redo' \in Seq(Plans) /\ Len(redo') <= HistoryLimit
    BY <1>2, <2>1, PushFacts DEF Undo, TypeOK
  <2>4. record' \in [Plans -> ExecutionRecords]
    BY <1>0, <1>1, <1>2 DEF Undo, AfterUndo
  <2>5. version' \in Nat /\ tables' \in Tables
    BY <1>0, <1>1, <1>2, <2>1 DEF Undo, Restore
  <2> QED
    BY <1>2, <2>2, <2>3, <2>4, <2>5
       DEF Undo, TypeOK, PlanRecords, ExecutionRecords, ghostVars
<1>3. CASE Redo
  <2> DEFINE p == redo[Len(redo)]
  <2>1. p \in Plans
    BY <1>0, <1>3 DEF Redo
  <2>2. plan' \in [Plans -> PlanRecords]
    BY <1>3, <2>1, SetStatusFacts DEF Redo
  <2>3. redo' \in Seq(Plans) /\ Len(redo') <= HistoryLimit
    <3>1. redo' = SubSeq(redo, 1, Len(redo) - 1) /\ redo # << >>
      BY <1>3 DEF Redo
    <3>2. SubSeq(redo, 1, Len(redo) - 1) \in Seq(Plans)
          /\ Len(SubSeq(redo, 1, Len(redo) - 1)) = Len(redo) - 1
      BY <1>0, <3>1, FrontOf
    <3>3. Len(redo) \in Nat /\ Len(redo) <= HistoryLimit /\ HistoryLimit \in Nat
      BY LimitsAssumption DEF TypeOK
    <3> QED
      BY <3>1, <3>2, <3>3
  <2>4. record' \in [Plans -> ExecutionRecords]
    BY <1>0, <1>1, <1>3 DEF Redo, AfterRedo
  <2>5. version' \in Nat /\ tables' \in Tables
    BY <1>0, <1>1, <1>3, <2>1 DEF Redo, Restore
  <2> QED
    BY <1>3, <2>2, <2>3, <2>4, <2>5
       DEF Redo, TypeOK, PlanRecords, ExecutionRecords, ghostVars
<1> QED
  BY <1>2, <1>3

LEMMA TypeOthers ==
  ASSUME TypeOK, RestoreRaises \/ OutsideCommit \/ PassTime \/ UNCHANGED vars
  PROVE  TypeOK'
<1>1. CASE RestoreRaises
  <2>1. version' \in Nat /\ tables' \in Tables
    <3>1. CASE /\ Undoable # {}
               /\ LET p == history[LastUndoable]
                  IN  Restore(record[p].before, record[p].applied)
      <4>1. PICK p \in Plans : Restore(record[p].before, record[p].applied)
        BY <3>1, LastUndoableIs
      <4> QED
        BY <4>1 DEF Restore, TypeOK
    <3>2. CASE /\ redo # << >>
               /\ LET p == redo[Len(redo)]
                  IN  record[p].undone # 0 /\ Restore(record[p].after, record[p].undone)
      <4>1. PICK p \in Plans : Restore(record[p].after, record[p].undone)
        <5>1. redo[Len(redo)] \in Plans
          BY <3>2 DEF TypeOK
        <5> QED
          BY <3>2, <5>1
      <4> QED
        BY <4>1 DEF Restore, TypeOK
    <3> QED
      BY <1>1, <3>1, <3>2 DEF RestoreRaises
  <2> QED
    BY <1>1, <2>1 DEF RestoreRaises, TypeOK
<1>2. CASE OutsideCommit
  <2>1. tables' \in Tables
    BY <1>2 DEF OutsideCommit, TypeOK, Tables
  <2> QED
    BY <1>2, <2>1 DEF OutsideCommit, TypeOK
<1>3. CASE PassTime
  BY <1>3 DEF PassTime, TypeOK, engineVars, ghostVars
<1>4. CASE UNCHANGED vars
  BY <1>4 DEF vars, TypeOK, engineVars, ghostVars
<1> QED
  BY <1>1, <1>2, <1>3, <1>4

LEMMA TypeInit ==
  ASSUME Init
  PROVE  TypeOK
<1>1. << >> \in Tables /\ << >> \in Seq(Plans) /\ Len(<< >>) <= HistoryLimit
  BY LimitsAssumption DEF Tables
<1>2. NoPlan \in PlanRecords /\ NoRecord \in ExecutionRecords
  BY <1>1 DEF NoPlan, NoRecord, PlanRecords, ExecutionRecords, Statuses
<1> QED
  BY <1>1, <1>2 DEF Init, TypeOK, PlanRecords, ExecutionRecords

LEMMA TypeStep ==
  ASSUME TypeOK, [Next]_vars
  PROVE  TypeOK'
BY TypePlans, TypeApprovals, TypeRestores, TypeOthers DEF Next

\* Every reachable state is well typed, and the deques stay within their maxlen.
THEOREM TypeCorrect == Spec => []TypeOK
<1> QED
  BY TypeInit, TypeStep, PTL DEF Spec

-----------------------------------------------------------------------------
(* Plans: PlanInv, and what follows from it.                               *)

\* A step that runs no plan twice, revives none and counts what it changes.
LEMMA PlanKept ==
  ASSUME TypeOK, PlanInv, Stored' \subseteq Stored, previewed' = previewed,
         version' \in Nat, version' >= version, version' = version => tables' = tables,
         \A q \in Plans :
           /\ plan'[q].base = plan[q].base
           /\ \/ plan'[q].status = plan[q].status
              \/ plan'[q].status \notin {"none", "planning", "PENDING_APPROVAL"}
           /\ \/ runs'[q] = runs[q]
              \/ /\ runs[q] = 0 /\ runs'[q] = 1
                 /\ plan'[q].status \notin {"none", "planning"}
                 /\ version' > version \/ plan'[q].status # "PENDING_APPROVAL"
  PROVE  PlanInv'
<1>1. IsFiniteSet(Stored') /\ PlansBounded'
  <2>1. IsFiniteSet(Stored) /\ Cardinality(Stored) <= MaxPlans
    BY DEF PlanInv, PlansBounded
  <2>2. /\ IsFiniteSet(Stored') /\ Cardinality(Stored') <= Cardinality(Stored)
        /\ Cardinality(Stored') \in Nat /\ Cardinality(Stored) \in Nat
    BY <2>1, FS_Subset, FS_CardinalityType
  <2> QED
    BY <2>1, <2>2, LimitsAssumption DEF PlansBounded
<1>2. ASSUME NEW q \in Plans
      PROVE  /\ plan'[q].base <= version' /\ runs'[q] <= 1
             /\ plan'[q].status \in {"none", "planning"} => runs'[q] = 0
             /\ plan'[q].status \in {"planning", "PENDING_APPROVAL"}
                  /\ plan'[q].base = version'
                  => runs'[q] = 0 /\ previewed'[q] = tables'
  <2>1. /\ plan[q].base <= version /\ runs[q] <= 1
        /\ plan[q].status \in {"none", "planning"} => runs[q] = 0
        /\ plan[q].status \in {"planning", "PENDING_APPROVAL"} /\ plan[q].base = version
             => runs[q] = 0 /\ previewed[q] = tables
    BY DEF PlanInv
  <2>2. plan[q].base \in Nat /\ version \in Nat
    BY DEF TypeOK
  <2>3. plan'[q].base <= version' /\ (plan'[q].base = version' => version' = version)
    BY <2>1, <2>2
  <2> QED
    BY <2>1, <2>2, <2>3
<1> QED
  BY <1>1, <1>2 DEF PlanInv

LEMMA PlanPreview ==
  ASSUME TypeOK, PlanInv, NEW p \in Plans, NEW readOnly \in BOOLEAN, Preview(p, readOnly)
  PROVE  PlanInv'
<1>1. /\ plan[p].status = "none"
      /\ plan'[p].status = "planning" /\ plan'[p].base = version /\ previewed'[p] = tables
      /\ \A q \in Plans \ {p} : plan'[q] = plan[q] /\ previewed'[q] = previewed[q]
      /\ UNCHANGED <<version, tables, runs>>
  BY DEF Preview, TypeOK, engineVars
<1>2. Stored' = Stored
  BY <1>1 DEF Stored
<1>3. version \in Nat
  BY DEF TypeOK
<1> QED
  BY <1>1, <1>2, <1>3 DEF PlanInv, PlansBounded

\* _purge_plans leaves room for the plan that is stored.
LEMMA PlanPropose ==
  ASSUME TypeOK, PlanInv, NEW p \in Plans, Propose(p)
  PROVE  PlanInv'
<1> DEFINE fresh == {q \in Stored : Expires(q) > clock}
<1>1. plan[p].status = "planning" /\ p \notin Stored /\ IsFiniteSet(Stored)
  BY DEF Propose, Stored, PlanInv
<1>2. PICK kept \in SUBSET fresh :
        /\ Cardinality(kept) = (IF Cardinality(fresh) <= Room
                                  THEN Cardinality(fresh) ELSE Room)
        /\ plan' = [q \in Plans |->
                      IF q = p THEN [plan[p] EXCEPT !.status = "PENDING_APPROVAL",
                                                    !.created = clock]
                      ELSE IF q \in Stored \ kept THEN [NoPlan EXCEPT !.status = "gone"]
                      ELSE plan[q]]
  BY DEF Propose
<1>3. UNCHANGED <<version, tables, runs, previewed>>
  BY DEF Propose, engineVars, ghostVars
<1>4. /\ plan'[p].status = "PENDING_APPROVAL" /\ plan'[p].base = plan[p].base
      /\ \A q \in Plans \ {p} :
           IF q \in Stored \ kept THEN plan'[q].status = "gone" /\ plan'[q].base = 0
                                  ELSE plan'[q] = plan[q]
  <2>1. plan[p] \in PlanRecords
    BY DEF TypeOK, PlanRecords
  <2>2. /\ plan'[p] = [plan[p] EXCEPT !.status = "PENDING_APPROVAL", !.created = clock]
        /\ \A q \in Plans \ {p} :
             plan'[q] = IF q \in Stored \ kept THEN [NoPlan EXCEPT !.status = "gone"]
                                               ELSE plan[q]
    BY <1>2
  <2> QED
    BY <2>1, <2>2 DEF PlanRecords, NoPlan
<1>5. Stored' = kept \union {p}
  <2>1. kept \subseteq Stored /\ Stored \subseteq Plans
    BY <1>2 DEF Stored
  <2>2. ASSUME NEW q \in Plans
        PROVE  plan'[q].status \notin {"none", "planning", "gone"} <=> q \in kept \union {p}
    <3>1. CASE q = p
      BY <1>4, <3>1
    <3>2. CASE q # p /\ q \in Stored \ kept
      BY <1>4, <3>2
    <3>3. CASE q # p /\ q \in kept
      BY <1>4, <2>1, <3>3 DEF Stored
    <3>4. CASE q # p /\ q \notin Stored
      BY <1>4, <2>1, <3>4 DEF Stored
    <3> QED
      BY <3>1, <3>2, <3>3, <3>4
  <2> QED
    BY <2>1, <2>2 DEF Stored
<1>6. IsFiniteSet(Stored') /\ Cardinality(Stored') <= MaxPlans
  <2>1. fresh \subseteq Stored
    OBVIOUS
  <2>2. /\ IsFiniteSet(fresh) /\ IsFiniteSet(kept) /\ p \notin kept
        /\ Cardinality(fresh) \in Nat
    BY <1>1, <1>2, <2>1, FS_Subset, FS_CardinalityType
  <2>3. Cardinality(kept) <= MaxPlans - 1 /\ Cardinality(kept) \in Nat
    BY <1>2, <2>2, LimitsAssumption, FS_CardinalityType DEF Room
  <2>4. IsFiniteSet(kept \union {p}) /\ Cardinality(kept \union {p}) = Cardinality(kept) + 1
    BY <2>2, FS_AddElement
  <2> QED
    BY <1>5, <2>3, <2>4, LimitsAssumption
<1>7. version \in Nat /\ \A q \in Plans : 0 <= version
  BY DEF TypeOK
<1>8. ASSUME NEW q \in Plans
      PROVE  /\ plan'[q].base <= version /\ runs[q] <= 1
             /\ plan'[q].status \in {"none", "planning"} => runs[q] = 0
             /\ plan'[q].status \in {"planning", "PENDING_APPROVAL"}
                  /\ plan'[q].base = version
                  => runs[q] = 0 /\ previewed[q] = tables
  <2>1. /\ plan[q].base <= version /\ runs[q] <= 1
        /\ plan[q].status \in {"none", "planning"} => runs[q] = 0
        /\ plan[q].status \in {"planning", "PENDING_APPROVAL"} /\ plan[q].base = version
             => runs[q] = 0 /\ previewed[q] = tables
    BY DEF PlanInv
  <2>2. CASE q = p
    BY <1>1, <1>4, <2>1, <2>2
  <2>3. CASE q # p /\ q \in Stored \ kept
    BY <1>4, <1>7, <2>1, <2>3
  <2>4. CASE q # p /\ q \notin Stored \ kept
    BY <1>4, <2>1, <2>4
  <2> QED
    BY <2>2, <2>3, <2>4
<1> QED
  BY <1>3, <1>6, <1>8 DEF PlanInv, PlansBounded

LEMMA PlanStep ==
  ASSUME TypeOK, PlanInv, [Next]_vars
  PROVE  PlanInv'
<1>0. version \in Nat /\ runs \in [Plans -> Nat] /\ TypeOK'
  BY TypeStep DEF TypeOK
<1>1. ASSUME NEW p \in Plans, ApproveExpired(p) \/ Reject(p)
      PROVE  PlanInv'
  <2>1. PICK status \in {"EXPIRED", "REJECTED"} : SetStatus(p, status)
    BY <1>1 DEF ApproveExpired, Reject
  <2>2. UNCHANGED <<version, tables, runs, previewed>>
    BY <1>1 DEF ApproveExpired, Reject, engineVars, ghostVars
  <2> QED
    BY <1>0, <2>1, <2>2, SetStatusFacts, PlanKept
<1>2. ASSUME NEW p \in Plans, ApproveRead(p) \/ ApproveWrite(p)
      PROVE  PlanInv'
  <2>1. /\ SetStatus(p, "EXECUTED") /\ Approvable(p)
        /\ runs' = [runs EXCEPT ![p] = runs[p] + 1] /\ previewed' = previewed
        /\ \/ version' = version /\ tables' = tables
           \/ version' = version + 1
    BY <1>2 DEF ApproveRead, ApproveWrite, engineVars
  <2>2. p \in Stored /\ runs[p] = 0
    BY <2>1, ApprovableFacts
  <2>3. runs'[p] = 1 /\ \A q \in Plans \ {p} : runs'[q] = runs[q]
    BY <1>0, <2>1, <2>2
  <2> QED
    BY <1>0, <2>1, <2>2, <2>3, SetStatusFacts, PlanKept
<1>3. ASSUME NEW p \in Plans, ApproveRaises(p)
      PROVE  PlanInv'
  <2>1. /\ plan' = plan /\ Approvable(p) /\ version' = version + 1
        /\ runs' = [runs EXCEPT ![p] = runs[p] + 1] /\ previewed' = previewed
    BY <1>3 DEF ApproveRaises
  <2>2. runs[p] = 0 /\ plan[p].status = "PENDING_APPROVAL"
    BY <2>1, ApprovableFacts DEF Approvable
  <2>3. runs'[p] = 1 /\ \A q \in Plans \ {p} : runs'[q] = runs[q]
    BY <1>0, <2>1, <2>2
  <2>4. Stored' = Stored
    BY <2>1 DEF Stored
  <2> QED
    BY <1>0, <2>1, <2>2, <2>3, <2>4, PlanKept
<1>4. CASE Undo \/ Redo
  <2>1. PICK p \in Plans, status \in {"UNDONE", "EXECUTED"} :
          SetStatus(p, status) /\ version' = version + 1
    <3>1. CASE Undo
      BY <3>1, LastUndoableIs DEF Undo, Restore
    <3>2. CASE Redo
      <4>1. redo[Len(redo)] \in Plans
        BY <3>2 DEF Redo, TypeOK
      <4> QED
        BY <3>2, <4>1 DEF Redo, Restore
    <3> QED
      BY <1>4, <3>1, <3>2
  <2>2. UNCHANGED <<runs, previewed>>
    BY <1>4 DEF Undo, Redo, ghostVars
  <2> QED
    BY <1>0, <2>1, <2>2, SetStatusFacts, PlanKept
<1>5. CASE RestoreRaises \/ OutsideCommit \/ PassTime \/ UNCHANGED vars
  <2>1. /\ plan' = plan /\ UNCHANGED <<runs, previewed>>
        /\ \/ version' = version /\ tables' = tables
           \/ version' = version + 1
    BY <1>5 DEF RestoreRaises, OutsideCommit, PassTime, Restore, vars, engineVars, ghostVars
  <2>2. Stored' = Stored
    BY <2>1 DEF Stored
  <2> QED
    BY <1>0, <2>1, <2>2, PlanKept
<1> QED
  BY <1>1, <1>2, <1>3, <1>4, <1>5, PlanPreview, PlanPropose DEF Next

LEMMA PlanInit ==
  ASSUME Init
  PROVE  PlanInv
<1>1. Stored = {} /\ version = 0 /\ \A p \in Plans : plan[p].base = 0 /\ runs[p] = 0
  BY DEF Init, Stored, NoPlan
<1>2. \A p \in Plans : plan[p].status = "none"
  BY DEF Init, NoPlan
<1>3. IsFiniteSet(Stored) /\ Cardinality(Stored) = 0
  BY <1>1, FS_EmptySet
<1> QED
  BY <1>1, <1>2, <1>3, LimitsAssumption DEF PlanInv, PlansBounded

LEMMA PlansHold == Spec => []PlanInv
<1> QED
  BY PlanInit, PlanStep, TypeCorrect, PTL DEF Spec

\* Single use (prompting.py:410): a plan's statement runs at most once, for any
\* number of plans and any interleaving of approvals, undos and other commits.
THEOREM RunsOnceHolds == Spec => []RunsOnce
<1>1. PlanInv => RunsOnce
  BY DEF PlanInv, RunsOnce
<1> QED
  BY <1>1, PlansHold, PTL

\* The plan table never exceeds max_plans (prompting.py:303).
THEOREM PlansBoundedHolds == Spec => []PlansBounded
<1>1. PlanInv => PlansBounded
  BY DEF PlanInv
<1> QED
  BY <1>1, PlansHold, PTL

\* A statement runs on exactly the tables its preview described
\* (prompting.py:419): the version check is enough, whatever came in between.
THEOREM RunsAsPreviewedHolds == Spec => RunsAsPreviewed
<1>1. TypeOK /\ PlanInv /\ [Next]_vars
        => [\A p \in Plans : runs'[p] # runs[p] => tables = previewed[p]]_vars
  <2> SUFFICES ASSUME TypeOK, PlanInv, Next, NEW p \in Plans, runs'[p] # runs[p]
               PROVE  tables = previewed[p]
    OBVIOUS
  <2>1. \/ \E q \in Plans : ApproveRead(q) \/ ApproveWrite(q) \/ ApproveRaises(q)
        \/ runs' = runs
    BY DEF Next, Preview, Propose, ApproveExpired, Reject, Undo, Redo, RestoreRaises,
           OutsideCommit, PassTime, ghostVars
  <2>2. PICK q \in Plans : Approvable(q) /\ runs' = [runs EXCEPT ![q] = runs[q] + 1]
    BY <2>1 DEF ApproveRead, ApproveWrite, ApproveRaises
  <2>3. p = q
    BY <2>2 DEF TypeOK
  <2> QED
    BY <2>2, <2>3, ApprovableFacts
<1> QED
  BY <1>1, TypeCorrect, PlansHold, PTL DEF Spec, RunsAsPreviewed

-----------------------------------------------------------------------------
(* The history, and redo as its end.                                       *)

LEMMA HistoryFacts ==
  ASSUME TypeOK, HistoryInv
  PROVE  /\ Len(history) \in Nat /\ Len(redo) \in Nat /\ Top \in Nat /\ version \in Nat
         /\ Top <= Len(history) /\ Top + Len(redo) = Len(history)
         /\ DOMAIN history = 1 .. Len(history) /\ DOMAIN redo = 1 .. Len(redo)
         /\ \A i \in 1 .. Len(history) :
              /\ history[i] \in Plans
              /\ Entry(i) \in ExecutionRecords
              /\ Entry(i).applied \in Nat /\ Entry(i).undone \in Nat
         /\ \A p \in Plans : record[p].applied \in Nat /\ record[p].undone \in Nat
         /\ \A i \in Top + 1 .. Len(history) : Entry(i).undone # 0
<1>1. /\ history \in Seq(Plans) /\ redo \in Seq(Plans) /\ version \in Nat
      /\ record \in [Plans -> ExecutionRecords]
  BY DEF TypeOK, ExecutionRecords
<1>2. /\ Len(history) \in Nat /\ Len(redo) \in Nat
      /\ DOMAIN history = 1 .. Len(history) /\ DOMAIN redo = 1 .. Len(redo)
      /\ \A i \in 1 .. Len(history) : history[i] \in Plans
  BY <1>1
<1>3. Top \in Nat /\ Top <= Len(history) /\ Top + Len(redo) = Len(history)
  BY <1>2 DEF HistoryInv, Top
<1>4. \A p \in Plans : record[p].applied \in Nat /\ record[p].undone \in Nat
  BY <1>1 DEF ExecutionRecords
<1>5. \A i \in 1 .. Len(history) :
        /\ Entry(i) \in ExecutionRecords
        /\ Entry(i).applied \in Nat /\ Entry(i).undone \in Nat
  BY <1>1, <1>2, <1>4 DEF Entry
<1>6. ASSUME NEW i \in Top + 1 .. Len(history)
      PROVE  Entry(i).undone # 0
  <2> DEFINE j == Len(history) + 1 - i
  <2>1. j \in 1 .. Len(redo) /\ Len(history) + 1 - j = i
    BY <1>2, <1>3
  <2> HIDE DEF j
  <2>2. redo[j] = history[i] /\ record[redo[j]].undone # 0
    BY <1>2, <2>1 DEF HistoryInv
  <2> QED
    BY <2>2 DEF Entry
<1> QED
  BY <1>1, <1>2, <1>3, <1>4, <1>5, <1>6

\* What an approved mutation does to the history.
LEMMA WriteFacts ==
  ASSUME TypeOK, PlanInv, HistoryInv, NEW p \in Plans, ApproveWrite(p)
  PROVE  \E d \in {0, 1} :
           /\ Len(history') = Len(history) + 1 - d /\ Len(history') >= 1
           /\ Len(history') \in Nat /\ redo' = << >> /\ Len(redo') = 0
           /\ Top' = Len(history') /\ DOMAIN history' = 1 .. Len(history')
           /\ history'[Len(history')] = p /\ record'[p] = Executed(p)
           /\ \A i \in 1 .. Len(history') - 1 :
                /\ i + d \in 1 .. Len(history) /\ history'[i] = history[i + d]
                /\ history[i + d] # p /\ record'[history'[i]] = Entry(i + d)
           /\ \A q \in Plans \ {p} : record'[q] = record[q]
           /\ runs[p] = 0 /\ runs'[p] = 1 /\ \A q \in Plans \ {p} : runs'[q] = runs[q]
           /\ \A q \in Plans : record'[q].applied <= version'
<1>1. /\ history' = Push(history, p) /\ redo' = << >> /\ Approvable(p)
      /\ record' = [record EXCEPT ![p] = Executed(p)]
      /\ runs' = [runs EXCEPT ![p] = runs[p] + 1] /\ version' = version + 1
  BY DEF ApproveWrite, NewHistory
<1>2. PICK d \in {0, 1} :
        /\ Len(history') = Len(history) + 1 - d /\ Len(history') >= 1
        /\ history'[Len(history')] = p
        /\ \A i \in 1 .. Len(history') - 1 : history'[i] = history[i + d]
  <2>1. history \in Seq(Plans) /\ Len(history) <= HistoryLimit
    BY DEF TypeOK
  <2> QED
    BY <1>1, <2>1, PushFacts
<1>3. Len(history') \in Nat /\ DOMAIN history' = 1 .. Len(history')
  BY TypeStep DEF Next, TypeOK
<1>4. /\ runs[p] = 0 /\ runs'[p] = 1 /\ \A q \in Plans \ {p} : runs'[q] = runs[q]
      /\ record'[p] = Executed(p) /\ \A q \in Plans \ {p} : record'[q] = record[q]
  BY <1>1, ApprovableFacts DEF TypeOK
<1>5. \A i \in 1 .. Len(history) : history[i] # p
  BY <1>4, HistoryFacts DEF HistoryInv
<1>6. \A i \in 1 .. Len(history') - 1 :
        /\ i + d \in 1 .. Len(history)
        /\ history[i + d] # p /\ record'[history'[i]] = Entry(i + d)
  <2> SUFFICES ASSUME NEW i \in 1 .. Len(history') - 1
               PROVE  /\ i + d \in 1 .. Len(history)
                      /\ history[i + d] # p /\ record'[history'[i]] = Entry(i + d)
    OBVIOUS
  <2>1. i + d \in 1 .. Len(history)
    BY <1>2, <1>3, HistoryFacts
  <2>2. history[i + d] \in Plans \ {p} /\ history'[i] = history[i + d]
    BY <1>2, <1>5, <2>1, HistoryFacts
  <2> QED
    BY <1>4, <2>1, <2>2 DEF Entry
<1>7. \A q \in Plans : record'[q].applied <= version'
  <2>1. Executed(p).applied = version + 1
    BY DEF Executed
  <2>2. \A q \in Plans \ {p} : record[q].applied <= version + 1
    BY HistoryFacts DEF HistoryInv
  <2> QED
    BY <1>1, <1>4, <2>1, <2>2, HistoryFacts
<1>8. Len(redo') = 0 /\ Top' = Len(history')
  BY <1>1, <1>3 DEF Top
<1> QED
  BY <1>1, <1>2, <1>3, <1>4, <1>6, <1>7, <1>8

\* An undo takes back Top, and nothing else passes the version check.
LEMMA UndoFacts ==
  ASSUME TypeOK, HistoryInv, Undo
  PROVE  /\ Top \in 1 .. Len(history) /\ Entry(Top).undone = 0 /\ Entry(Top).applied = version
         /\ history' = history /\ version' = version + 1 /\ tables' = Entry(Top).before
         /\ Len(redo') = Len(redo) + 1 /\ redo'[Len(redo) + 1] = history[Top]
         /\ \A j \in 1 .. Len(redo) : redo'[j] = redo[j]
         /\ Top' = Top - 1
         /\ \A q \in Plans :
              /\ record'[q].before = record[q].before /\ record'[q].after = record[q].after
              /\ record'[q].applied <= version'
              /\ q = history[Top] =>
                   record'[q].undone = version + 1 /\ record'[q].applied = record[q].applied
              /\ q # history[Top] => record'[q].undone = record[q].undone
         /\ \A i \in 1 .. Len(history) :
              i # Top - 1 => record'[history[i]].applied = record[history[i]].applied
<1> DEFINE top == LastUndoable
<1>1. /\ top \in DOMAIN history /\ history[top] \in Plans /\ record[history[top]].undone = 0
      /\ version = record[history[top]].applied /\ version' = version + 1
      /\ tables' = record[history[top]].before
      /\ record' = AfterUndo(top) /\ redo' = Push(redo, history[top]) /\ history' = history
  BY LastUndoableIs DEF Undo, Restore
<1> HIDE DEF top
<1>2. top = Top
  BY <1>1 DEF HistoryInv, Entry
<1>3. /\ Top \in 1 .. Len(history) /\ Len(history) <= HistoryLimit
      /\ redo \in Seq(Plans) /\ Len(redo) \in Nat /\ Len(redo) < HistoryLimit
      /\ HistoryLimit \in Nat
  <2>1. /\ Len(history) <= HistoryLimit /\ redo \in Seq(Plans) /\ HistoryLimit \in Nat
        /\ Len(redo) \in Nat /\ Len(history) \in Nat
    BY LimitsAssumption DEF TypeOK
  <2>2. Top \in 1 .. Len(history)
    BY <1>1, <1>2, HistoryFacts
  <2>3. Top + Len(redo) = Len(history)
    BY HistoryFacts
  <2> QED
    BY <2>1, <2>2, <2>3
<1>4. /\ Len(redo') = Len(redo) + 1 /\ redo'[Len(redo) + 1] = history[Top]
      /\ \A j \in 1 .. Len(redo) : redo'[j] = redo[j]
  <2>1. PICK d \in {0, 1} :
          /\ Len(redo) < HistoryLimit => d = 0
          /\ Len(redo') = Len(redo) + 1 - d
          /\ redo'[Len(redo')] = history[Top]
          /\ \A i \in 1 .. Len(redo') - 1 : redo'[i] = redo[i + d]
    BY <1>1, <1>2, <1>3, PushFacts
  <2>2. d = 0 /\ Len(redo') = Len(redo) + 1 /\ Len(redo') - 1 = Len(redo)
    BY <1>3, <2>1
  <2> QED
    BY <1>3, <2>1, <2>2
<1>5. Top' = Top - 1
  BY <1>1, <1>3, <1>4, HistoryFacts DEF Top
<1>6. ASSUME NEW q \in Plans
      PROVE  /\ record'[q].before = record[q].before /\ record'[q].after = record[q].after
             /\ record'[q].applied \in {record[q].applied, version + 1}
             /\ record'[q].applied = record[q].applied \/ (Top > 1 /\ q = history[Top - 1])
             /\ q = history[Top] =>
                  record'[q].undone = version + 1 /\ record'[q].applied = record[q].applied
             /\ q # history[Top] => record'[q].undone = record[q].undone
  <2>1. record[q] \in ExecutionRecords
    BY DEF TypeOK, ExecutionRecords
  <2>2. record'[q] = IF q = history[Top] THEN [record[q] EXCEPT !.undone = version + 1]
                     ELSE IF Top > 1 /\ q = history[Top - 1]
                       THEN [record[q] EXCEPT !.applied = version + 1]
                     ELSE record[q]
    BY <1>1, <1>2 DEF AfterUndo
  <2> QED
    BY <2>1, <2>2 DEF ExecutionRecords
<1>7. ASSUME NEW q \in Plans PROVE record'[q].applied <= version'
  <2>1. record[q].applied <= version /\ record[q].applied \in Nat /\ version \in Nat
    BY HistoryFacts DEF HistoryInv
  <2>2. record'[q].applied \in {record[q].applied, version + 1}
    BY <1>6
  <2> QED
    BY <1>1, <2>1, <2>2
<1>8. ASSUME NEW i \in 1 .. Len(history), i # Top - 1
      PROVE  record'[history[i]].applied = record[history[i]].applied
  <2>1. Top > 1 => history[i] # history[Top - 1]
    <3>1. Top > 1 => Top - 1 \in 1 .. Len(history)
      BY <1>3
    <3> QED
      BY <1>8, <3>1, HistoryFacts DEF HistoryInv
  <2> QED
    BY <1>6, <2>1, HistoryFacts
<1> QED
  BY <1>1, <1>2, <1>3, <1>4, <1>5, <1>6, <1>7, <1>8 DEF Entry

\* A redo puts back the entry after Top.
LEMMA RedoFacts ==
  ASSUME TypeOK, HistoryInv, Redo
  PROVE  /\ Top + 1 \in 1 .. Len(history) /\ Entry(Top + 1).undone # 0
         /\ history' = history /\ version' = version + 1 /\ tables' = Entry(Top + 1).after
         /\ redo # << >> /\ Len(redo') = Len(redo) - 1 /\ Len(redo) >= 1
         /\ \A j \in 1 .. Len(redo) - 1 : redo'[j] = redo[j]
         /\ Top' = Top + 1
         /\ \A q \in Plans :
              /\ record'[q].before = record[q].before /\ record'[q].after = record[q].after
              /\ q = history[Top + 1] =>
                   record'[q].undone = 0 /\ record'[q].applied = version + 1
              /\ q # history[Top + 1] =>
                   /\ record'[q].applied = record[q].applied
                   /\ record'[q].undone # 0 <=> record[q].undone # 0
<1> DEFINE m == Len(redo)
           p == redo[m]
<1>1. PICK i \in DOMAIN history :
        /\ redo # << >> /\ record[p].undone # 0
        /\ version' = version + 1 /\ tables' = record[p].after
        /\ history[i] = p /\ record' = AfterRedo(i)
        /\ redo' = SubSeq(redo, 1, m - 1) /\ history' = history
  BY DEF Redo, Restore
<1>2. m \in Nat /\ m >= 1 /\ Len(redo') = m - 1 /\ \A j \in 1 .. m - 1 : redo'[j] = redo[j]
  <2>1. redo \in Seq(Plans) /\ m \in Nat /\ m >= 1
    <3>1. redo \in Seq(Plans) /\ redo # << >>
      BY <1>1 DEF TypeOK
    <3> QED
      BY <3>1
  <2>2. /\ Len(SubSeq(redo, 1, Len(redo) - 1)) = Len(redo) - 1
        /\ \A j \in 1 .. Len(redo) - 1 : SubSeq(redo, 1, Len(redo) - 1)[j] = redo[j]
    BY <1>1, <2>1, FrontOf
  <2> QED
    BY <1>1, <2>1, <2>2
<1>3. Top + 1 \in 1 .. Len(history) /\ p = history[Top + 1]
  <2>1. m \in DOMAIN redo /\ Len(history) + 1 - m = Top + 1
    BY <1>2, HistoryFacts DEF Top
  <2>2. p = history[Len(history) + 1 - m]
    BY <2>1 DEF HistoryInv
  <2> QED
    BY <1>2, <2>1, <2>2, HistoryFacts
<1>4. i = Top + 1
  BY <1>1, <1>3, HistoryFacts DEF HistoryInv
<1>5. Top' = Top + 1
  <2>1. Len(history') = Len(history) /\ Len(redo') = Len(redo) - 1
    BY <1>1, <1>2
  <2>2. Len(history) \in Nat /\ Len(redo) \in Nat
    BY HistoryFacts
  <2> QED
    BY <2>1, <2>2 DEF Top
<1>6. ASSUME NEW q \in Plans
      PROVE  /\ record'[q].before = record[q].before /\ record'[q].after = record[q].after
             /\ q = history[Top + 1] =>
                  record'[q].undone = 0 /\ record'[q].applied = version + 1
             /\ q # history[Top + 1] =>
                  /\ record'[q].applied = record[q].applied
                  /\ record'[q].undone # 0 <=> record[q].undone # 0
  <2>1. record[q] \in ExecutionRecords /\ version + 1 # 0
    BY DEF TypeOK, ExecutionRecords
  <2>2. \/ /\ q = history[Top + 1]
           /\ record'[q] = [record[q] EXCEPT !.applied = version + 1, !.undone = 0]
        \/ /\ q # history[Top + 1] /\ record[q].undone # 0
           /\ record'[q] = [record[q] EXCEPT !.undone = version + 1]
        \/ q # history[Top + 1] /\ record'[q] = record[q]
    BY <1>1, <1>4 DEF AfterRedo
  <2> QED
    BY <2>1, <2>2 DEF ExecutionRecords
<1> QED
  BY <1>1, <1>2, <1>3, <1>5, <1>6 DEF Entry

\* Steps that change no record: those that change the version leave every entry
\* out of date.
LEMMA HistoryKept ==
  ASSUME TypeOK, HistoryInv, UNCHANGED <<record, history, redo>>,
         \/ version' = version
         \/ version' = version + 1,
         \A q \in Plans : runs'[q] = runs[q] \/ (runs[q] = 0 /\ runs'[q] = 1)
  PROVE  HistoryInv' /\ Top' = Top
<1>1. Top' = Top /\ \A i : Entry(i)' = Entry(i)
  BY DEF Top, Entry
<1>2. ASSUME NEW i \in DOMAIN history
      PROVE  /\ runs'[history[i]] = 1
             /\ Entry(i).undone = 0 /\ Entry(i).applied = version' => i = Top
  <2>1. /\ runs[history[i]] = 1 /\ history[i] \in Plans
        /\ Entry(i).undone = 0 /\ Entry(i).applied = version => i = Top
    BY HistoryFacts DEF HistoryInv
  <2>2. Entry(i).applied <= version /\ Entry(i).applied \in Nat /\ version \in Nat
    BY <2>1, HistoryFacts DEF HistoryInv, Entry
  <2> QED
    BY <2>1, <2>2
<1>3. ASSUME NEW q \in Plans
      PROVE  record[q].applied <= version' /\ (runs'[q] = 0 => record[q].undone = 0)
  <2>1. /\ record[q].applied <= version /\ record[q].applied \in Nat /\ version \in Nat
        /\ runs[q] = 0 => record[q].undone = 0
    BY HistoryFacts DEF HistoryInv
  <2> QED
    BY <2>1
<1> QED
  BY <1>1, <1>2, <1>3 DEF HistoryInv, Entry

LEMMA HistoryWrite ==
  ASSUME TypeOK, PlanInv, HistoryInv, NEW p \in Plans, ApproveWrite(p)
  PROVE  HistoryInv'
<1> DEFINE n == Len(history')
<1>1. PICK d \in {0, 1} :
        /\ n = Len(history) + 1 - d /\ n >= 1
        /\ n \in Nat /\ redo' = << >> /\ Len(redo') = 0
        /\ Top' = n /\ DOMAIN history' = 1 .. n
        /\ history'[n] = p /\ record'[p] = Executed(p)
        /\ \A i \in 1 .. n - 1 :
             /\ i + d \in 1 .. Len(history) /\ history'[i] = history[i + d]
             /\ history[i + d] # p /\ record'[history'[i]] = Entry(i + d)
        /\ \A q \in Plans \ {p} : record'[q] = record[q]
        /\ runs[p] = 0 /\ runs'[p] = 1 /\ \A q \in Plans \ {p} : runs'[q] = runs[q]
        /\ \A q \in Plans : record'[q].applied <= version'
  BY WriteFacts
<1> HIDE DEF n
<1>2. \A i \in 1 .. n : i = n \/ i \in 1 .. n - 1
  BY <1>1
<1>3. version' = version + 1 /\ version \in Nat
  BY HistoryFacts DEF ApproveWrite
<1>4. ASSUME NEW i \in 1 .. n, NEW j \in 1 .. n, history'[i] = history'[j]
      PROVE  i = j
  <2>1. CASE i = n \/ j = n
    BY <1>1, <1>2, <1>4, <2>1
  <2>2. CASE i \in 1 .. n - 1 /\ j \in 1 .. n - 1
    <3>1. i + d \in DOMAIN history /\ j + d \in DOMAIN history
      BY <1>1, <2>2, HistoryFacts
    <3>2. i + d = j + d
      BY <1>1, <1>4, <2>2, <3>1 DEF HistoryInv
    <3> QED
      BY <1>1, <3>2
  <2> QED
    BY <1>2, <2>1, <2>2
<1>5. ASSUME NEW i \in 1 .. n
      PROVE  /\ runs'[history'[i]] = 1
             /\ record'[history'[i]].after = Append(record'[history'[i]].before, history'[i])
             /\ record'[history'[i]].undone = 0 /\ record'[history'[i]].applied = version'
                  => i = n
  <2>1. CASE i = n
    BY <1>1, <2>1 DEF Executed
  <2>2. CASE i \in 1 .. n - 1
    <3>1. /\ i + d \in 1 .. Len(history) /\ history'[i] = history[i + d]
          /\ history[i + d] \in Plans \ {p} /\ record'[history'[i]] = Entry(i + d)
      BY <1>1, <2>2, HistoryFacts
    <3>2. runs[history[i + d]] = 1 /\ Entry(i + d).after = Append(Entry(i + d).before, history[i + d])
      BY <3>1, HistoryFacts DEF HistoryInv
    <3>3. Entry(i + d).applied <= version /\ Entry(i + d).applied \in Nat
      BY <3>1, HistoryFacts DEF HistoryInv, Entry
    <3> QED
      BY <1>1, <1>3, <3>1, <3>2, <3>3
  <2> QED
    BY <1>2, <2>1, <2>2
<1>6. \A q \in Plans : runs'[q] = 0 => record'[q].undone = 0
  BY <1>1 DEF HistoryInv
<1>7. DOMAIN redo' = {}
  BY <1>1
<1> SUFFICES /\ \A i, j \in 1 .. n : history'[i] = history'[j] => i = j
             /\ \A i \in 1 .. n :
                  /\ runs'[history'[i]] = 1
                  /\ record'[history'[i]].after
                       = Append(record'[history'[i]].before, history'[i])
                  /\ record'[history'[i]].undone = 0
                       /\ record'[history'[i]].applied = version' => i = n
             /\ \A q \in Plans :
                  record'[q].applied <= version' /\ (runs'[q] = 0 => record'[q].undone = 0)
             /\ Len(redo') <= n /\ DOMAIN redo' = {}
  BY <1>1 DEF HistoryInv, Entry, n
<1> QED
  BY <1>1, <1>4, <1>5, <1>6, <1>7

LEMMA HistoryUndo ==
  ASSUME TypeOK, HistoryInv, Undo
  PROVE  HistoryInv'
<1>1. runs' = runs /\ history' = history /\ version' = version + 1 /\ version \in Nat
  BY HistoryFacts DEF Undo, Restore, ghostVars
<1>2. Top \in 1 .. Len(history) /\ Top \in Nat /\ Top' = Top - 1
  BY UndoFacts, HistoryFacts
<1>3. ASSUME NEW i \in DOMAIN history
      PROVE  /\ record'[history[i]].after = Append(record'[history[i]].before, history[i])
             /\ record'[history[i]].undone = 0 /\ record'[history[i]].applied = version'
                  => i = Top - 1
  <2>1. i \in 1 .. Len(history) /\ history[i] \in Plans
    BY HistoryFacts
  <2>2. Entry(i).after = Append(Entry(i).before, history[i])
    BY DEF HistoryInv
  <2>3. record'[history[i]].after = Append(record'[history[i]].before, history[i])
    BY <2>1, <2>2, UndoFacts DEF Entry
  <2>4. i # Top - 1 => record'[history[i]].applied # version'
    <3>1. record[history[i]].applied <= version /\ record[history[i]].applied \in Nat
      BY <2>1, HistoryFacts DEF HistoryInv
    <3>2. i # Top - 1 => record'[history[i]].applied = record[history[i]].applied
      BY <2>1, UndoFacts
    <3> QED
      BY <1>1, <3>1, <3>2
  <2> QED
    BY <2>3, <2>4
<1>4. ASSUME NEW q \in Plans
      PROVE  record'[q].applied <= version' /\ (runs'[q] = 0 => record'[q].undone = 0)
  <2>1. record'[q].applied <= version'
    BY UndoFacts
  <2>2. runs[q] = 0 => q # history[Top]
    BY <1>2, HistoryFacts DEF HistoryInv
  <2>3. q # history[Top] => record'[q].undone = record[q].undone
    BY UndoFacts
  <2> QED
    BY <1>1, <2>1, <2>2, <2>3 DEF HistoryInv
<1>5. /\ Len(redo) \in Nat /\ Len(redo') = Len(redo) + 1 /\ Len(history) \in Nat
      /\ DOMAIN redo' = 1 .. Len(redo) + 1 /\ Top + Len(redo) = Len(history)
  <2>1. redo' \in Seq(Plans)
    BY TypeStep DEF Next, TypeOK
  <2> QED
    BY <2>1, UndoFacts, HistoryFacts
<1>6. ASSUME NEW j \in DOMAIN redo'
      PROVE  redo'[j] = history[Len(history) + 1 - j] /\ record'[redo'[j]].undone # 0
  <2>1. CASE j = Len(redo) + 1
    <3>1. redo'[j] = history[Top] /\ Len(history) + 1 - j = Top
      BY <1>2, <1>5, <2>1, UndoFacts
    <3>2. record'[history[Top]].undone = version + 1
      BY <1>2, UndoFacts, HistoryFacts
    <3> QED
      BY <1>1, <3>1, <3>2
  <2>2. CASE j \in 1 .. Len(redo)
    <3>1. /\ redo'[j] = redo[j] /\ redo[j] = history[Len(history) + 1 - j]
          /\ record[redo[j]].undone # 0
      BY <2>2, UndoFacts, HistoryFacts DEF HistoryInv
    <3>2. redo[j] \in Plans
      BY <2>2 DEF TypeOK
    <3>3. record'[redo[j]].undone # 0
      <4>1. CASE redo[j] = history[Top]
        BY <1>1, <3>2, <4>1, UndoFacts
      <4>2. CASE redo[j] # history[Top]
        BY <3>1, <3>2, <4>2, UndoFacts
      <4> QED
        BY <4>1, <4>2
    <3> QED
      BY <3>1, <3>3
  <2> QED
    BY <1>5, <2>1, <2>2
<1>7. Len(redo') <= Len(history)
  BY <1>2, <1>5
<1> QED
  BY <1>1, <1>2, <1>3, <1>4, <1>6, <1>7 DEF HistoryInv, Entry

LEMMA HistoryRedo ==
  ASSUME TypeOK, HistoryInv, Redo
  PROVE  HistoryInv'
<1>1. runs' = runs /\ history' = history /\ version' = version + 1 /\ version \in Nat
  BY HistoryFacts DEF Redo, Restore, ghostVars
<1>2. Top + 1 \in 1 .. Len(history) /\ Top \in Nat /\ Top' = Top + 1
  BY RedoFacts, HistoryFacts
<1>3. ASSUME NEW i \in DOMAIN history
      PROVE  /\ record'[history[i]].after = Append(record'[history[i]].before, history[i])
             /\ record'[history[i]].undone = 0 /\ record'[history[i]].applied = version'
                  => i = Top + 1
  <2>1. i \in 1 .. Len(history) /\ history[i] \in Plans
    BY HistoryFacts
  <2>2. Entry(i).after = Append(Entry(i).before, history[i])
    BY DEF HistoryInv
  <2>3. record'[history[i]].after = Append(record'[history[i]].before, history[i])
    BY <2>1, <2>2, RedoFacts DEF Entry
  <2>4. i # Top + 1 => record'[history[i]].applied # version'
    <3>1. record[history[i]].applied <= version /\ record[history[i]].applied \in Nat
      BY <2>1, HistoryFacts DEF HistoryInv
    <3>2. i # Top + 1 => history[i] # history[Top + 1]
      BY <1>2, HistoryFacts DEF HistoryInv
    <3>3. i # Top + 1 => record'[history[i]].applied = record[history[i]].applied
      BY <2>1, <3>2, RedoFacts
    <3> QED
      BY <1>1, <3>1, <3>3
  <2> QED
    BY <2>3, <2>4
<1>4. ASSUME NEW q \in Plans
      PROVE  record'[q].applied <= version' /\ (runs'[q] = 0 => record'[q].undone = 0)
  <2>1. /\ record[q].applied <= version /\ record[q].applied \in Nat
        /\ runs[q] = 0 => record[q].undone = 0
    BY HistoryFacts DEF HistoryInv
  <2>2. CASE q = history[Top + 1]
    BY <1>1, <2>2, RedoFacts
  <2>3. CASE q # history[Top + 1]
    <3>1. record'[q].applied = record[q].applied /\ (record'[q].undone # 0 <=> record[q].undone # 0)
      BY <2>3, RedoFacts
    <3> QED
      BY <1>1, <2>1, <3>1
  <2> QED
    BY <2>2, <2>3
<1>5. /\ Len(redo) \in Nat /\ Len(redo') = Len(redo) - 1 /\ Len(history) \in Nat
      /\ DOMAIN redo' = 1 .. Len(redo) - 1 /\ Top + Len(redo) = Len(history)
  <2>1. redo' \in Seq(Plans)
    BY TypeStep DEF Next, TypeOK
  <2> QED
    BY <2>1, RedoFacts, HistoryFacts
<1>6. ASSUME NEW j \in DOMAIN redo'
      PROVE  redo'[j] = history[Len(history) + 1 - j] /\ record'[redo'[j]].undone # 0
  <2>1. j \in 1 .. Len(redo) - 1 /\ j \in 1 .. Len(redo)
    BY <1>5
  <2>2. /\ redo'[j] = redo[j] /\ redo[j] = history[Len(history) + 1 - j]
        /\ record[redo[j]].undone # 0
    BY <2>1, RedoFacts, HistoryFacts DEF HistoryInv
  <2>3. Len(history) + 1 - j # Top + 1 /\ Len(history) + 1 - j \in 1 .. Len(history)
    BY <1>5, <2>1, <1>2
  <2>4. redo[j] # history[Top + 1] /\ redo[j] \in Plans
    BY <1>2, <2>2, <2>3, HistoryFacts DEF HistoryInv
  <2> QED
    BY <2>2, <2>4, RedoFacts
<1>7. Len(redo') <= Len(history)
  BY <1>2, <1>5
<1> QED
  BY <1>1, <1>2, <1>3, <1>4, <1>6, <1>7 DEF HistoryInv, Entry

\* The classification of a step that both invariants of the history use.
LEMMA StepKinds ==
  ASSUME TypeOK, PlanInv, [Next]_vars
  PROVE  \/ \E p \in Plans : ApproveWrite(p)
         \/ Undo \/ Redo
         \/ /\ UNCHANGED <<record, history, redo>>
            /\ \A q \in Plans : runs'[q] = runs[q] \/ (runs[q] = 0 /\ runs'[q] = 1)
            /\ \/ version' = version /\ tables' = tables /\ disturbed' = disturbed
               \/ version' = version + 1 /\ disturbed'
<1>1. ASSUME NEW p \in Plans,
             \/ \E readOnly \in BOOLEAN : Preview(p, readOnly)
             \/ Propose(p) \/ ApproveExpired(p) \/ Reject(p)
      PROVE  UNCHANGED <<record, history, redo, runs, version, tables, disturbed>>
  BY <1>1 DEF Preview, Propose, ApproveExpired, Reject, engineVars, ghostVars
<1>2. ASSUME NEW p \in Plans, ApproveRead(p) \/ ApproveRaises(p)
      PROVE  /\ UNCHANGED <<record, history, redo>>
             /\ \A q \in Plans : runs'[q] = runs[q] \/ (runs[q] = 0 /\ runs'[q] = 1)
             /\ \/ version' = version /\ tables' = tables /\ disturbed' = disturbed
                \/ version' = version + 1 /\ disturbed'
  <2>1. /\ Approvable(p) /\ runs' = [runs EXCEPT ![p] = runs[p] + 1]
        /\ UNCHANGED <<record, history, redo>>
        /\ \/ version' = version /\ tables' = tables /\ disturbed' = disturbed
           \/ version' = version + 1 /\ disturbed'
    BY <1>2 DEF ApproveRead, ApproveRaises, engineVars
  <2>2. runs[p] = 0
    BY <2>1, ApprovableFacts
  <2> QED
    BY <2>1, <2>2 DEF TypeOK
<1>3. CASE RestoreRaises \/ OutsideCommit
  BY <1>3 DEF RestoreRaises, OutsideCommit, Restore
<1>4. CASE PassTime \/ UNCHANGED vars
  BY <1>4 DEF PassTime, vars, engineVars, ghostVars
<1> QED
  BY <1>1, <1>2, <1>3, <1>4 DEF Next

LEMMA HistoryStep ==
  ASSUME TypeOK, PlanInv, HistoryInv, [Next]_vars
  PROVE  HistoryInv'
<1>1. \/ \E p \in Plans : ApproveWrite(p)
      \/ Undo \/ Redo
      \/ /\ UNCHANGED <<record, history, redo>>
         /\ \A q \in Plans : runs'[q] = runs[q] \/ (runs[q] = 0 /\ runs'[q] = 1)
         /\ version' = version \/ version' = version + 1
  BY StepKinds
<1> QED
  BY <1>1, HistoryWrite, HistoryUndo, HistoryRedo, HistoryKept

LEMMA HistoryInit ==
  ASSUME Init
  PROVE  HistoryInv /\ UndoInv
<1>1. /\ history = << >> /\ redo = << >> /\ Len(<< >>) = 0
      /\ DOMAIN history = {} /\ DOMAIN redo = {}
      /\ \A p \in Plans : record[p].applied = 0 /\ record[p].undone = 0
      /\ version = 0 /\ Top = 0
  BY DEF Init, NoRecord, Top
<1> QED
  BY <1>1 DEF HistoryInv, UndoInv

LEMMA HistoryHolds == Spec => [](TypeOK /\ PlanInv /\ HistoryInv)
<1>1. Init => HistoryInv
  BY HistoryInit
<1> QED
  BY <1>1, HistoryStep, TypeCorrect, PlansHold, PTL DEF Spec

\* What redo relies on (prompting.py:467-476): its entries are undone, distinct
\* and still in the history, whatever the deques have dropped.
THEOREM RedoStackHolds == Spec => []RedoStack
<1>1. TypeOK /\ HistoryInv => RedoStack
  <2> SUFFICES ASSUME TypeOK, HistoryInv, NEW i \in DOMAIN redo
               PROVE  /\ record[redo[i]].undone # 0
                      /\ \E j \in DOMAIN history : history[j] = redo[i]
                      /\ \A j \in 1 .. i - 1 : redo[j] # redo[i]
    BY DEF RedoStack
  <2> DEFINE n == Len(history)
  <2>1. /\ n \in Nat /\ Len(redo) \in Nat /\ Len(redo) <= n
        /\ DOMAIN history = 1 .. n /\ DOMAIN redo = 1 .. Len(redo)
    BY HistoryFacts DEF HistoryInv
  <2>2. redo[i] = history[n + 1 - i] /\ n + 1 - i \in DOMAIN history
    BY <2>1 DEF HistoryInv
  <2>3. ASSUME NEW j \in 1 .. i - 1 PROVE redo[j] # redo[i]
    <3>1. j \in DOMAIN redo /\ n + 1 - j \in DOMAIN history /\ n + 1 - j # n + 1 - i
      BY <2>1
    <3>2. redo[j] = history[n + 1 - j]
      BY <3>1 DEF HistoryInv
    <3> QED
      BY <2>2, <3>1, <3>2 DEF HistoryInv
  <2> QED
    BY <2>2, <2>3 DEF HistoryInv
<1> QED
  BY <1>1, HistoryHolds, PTL

-----------------------------------------------------------------------------
(* Undo and redo are exact.                                                *)

LEMMA UndoWrite ==
  ASSUME TypeOK, PlanInv, HistoryInv, UndoInv, NEW p \in Plans, ApproveWrite(p)
  PROVE  UndoInv'
<1> SUFFICES ASSUME ~disturbed'
             PROVE  /\ \A i \in DOMAIN history' :
                         /\ i < Len(history')
                         /\ record'[history'[i]].undone = 0 \/ i > Top'
                         => record'[history'[i]].after = record'[history'[i + 1]].before
                    /\ tables' = record'[history'[Top']].after
                    /\ redo' = << >>
  BY DEF UndoInv, Entry
<1>1. ~disturbed /\ tables' = Append(tables, p)
  BY DEF ApproveWrite
<1> DEFINE n == Len(history')
<1>2. PICK d \in {0, 1} :
        /\ n = Len(history) + 1 - d /\ n \in Nat /\ n >= 1 /\ redo' = << >>
        /\ Top' = n /\ DOMAIN history' = 1 .. n
        /\ history'[n] = p /\ record'[p] = Executed(p)
        /\ \A i \in 1 .. n - 1 :
             /\ i + d \in 1 .. Len(history) /\ record'[history'[i]] = Entry(i + d)
  BY WriteFacts
<1> HIDE DEF n
<1>3. record'[history'[n]].after = tables' /\ record'[history'[n]].before = tables
  BY <1>1, <1>2 DEF Executed
<1>4. ASSUME NEW i \in 1 .. n - 1, Entry(i + d).undone = 0
      PROVE  record'[history'[i]].after = record'[history'[i + 1]].before
  <2>1. /\ i + d \in DOMAIN history /\ i + d \in 1 .. Len(history)
        /\ record'[history'[i]] = Entry(i + d)
    BY <1>2, HistoryFacts
  <2>2. CASE i = n - 1
    <3>1. i + d = Len(history) /\ i + 1 = n
      BY <1>2, <2>2, HistoryFacts
    <3>2. Top = Len(history)
      BY <1>4, <2>1, <3>1, HistoryFacts
    <3>3. Entry(Top).undone = 0 /\ Top >= 1
      BY <1>4, <2>1, <3>1, <3>2
    <3>4. tables = Entry(Top).after
      BY <1>1, <3>3 DEF UndoInv
    <3> QED
      BY <1>3, <2>1, <3>1, <3>2, <3>4
  <2>3. CASE i # n - 1
    <3>1. i + 1 \in 1 .. n - 1 /\ i + d < Len(history) /\ (i + 1) + d = (i + d) + 1
      BY <1>2, <2>3, HistoryFacts
    <3>2. record'[history'[i + 1]] = Entry((i + d) + 1)
      BY <1>2, <3>1
    <3>3. Entry(i + d).after = Entry((i + d) + 1).before
      BY <1>1, <1>4, <2>1, <3>1 DEF UndoInv
    <3> QED
      BY <2>1, <3>2, <3>3
  <2> QED
    BY <2>2, <2>3
<1>5. ASSUME NEW i \in DOMAIN history', i < n,
             record'[history'[i]].undone = 0 \/ i > Top'
      PROVE  record'[history'[i]].after = record'[history'[i + 1]].before
  <2>1. i \in 1 .. n - 1 /\ ~(i > Top')
    BY <1>2, <1>5
  <2>2. Entry(i + d).undone = 0
    BY <1>2, <1>5, <2>1
  <2> QED
    BY <1>4, <2>1, <2>2
<1> QED
  BY <1>2, <1>3, <1>5 DEF n

\* The links between entries survive a step that moves Top and changes no tables
\* of a record.
LEMMA LinksKept ==
  ASSUME TypeOK, HistoryInv, UndoInv, ~disturbed, history' = history,
         \A q \in Plans :
           record'[q].before = record[q].before /\ record'[q].after = record[q].after,
         NEW i \in 1 .. Len(history), i < Len(history), Entry(i).undone = 0 \/ i > Top
  PROVE  record'[history'[i]].after = record'[history'[i + 1]].before
<1>1. i \in DOMAIN history /\ i + 1 \in 1 .. Len(history)
  BY HistoryFacts
<1>2. Entry(i).after = Entry(i + 1).before
  BY <1>1 DEF UndoInv
<1>3. history[i] \in Plans /\ history[i + 1] \in Plans
  BY <1>1, HistoryFacts
<1> QED
  BY <1>2, <1>3 DEF Entry

LEMMA UndoUndo ==
  ASSUME TypeOK, HistoryInv, UndoInv, Undo
  PROVE  UndoInv' /\ (~disturbed => tables = Append(tables', history[Top]))
<1>0. /\ disturbed' = disturbed /\ history' = history /\ tables' = Entry(Top).before
      /\ Top \in 1 .. Len(history) /\ Entry(Top).undone = 0 /\ Top' = Top - 1
      /\ Top \in Nat /\ Len(history) \in Nat /\ DOMAIN history = 1 .. Len(history)
      /\ \A i \in 1 .. Len(history) : history[i] \in Plans
      /\ \A q \in Plans :
           record'[q].before = record[q].before /\ record'[q].after = record[q].after
      /\ \A q \in Plans : q # history[Top] => record'[q].undone = record[q].undone
  BY UndoFacts, HistoryFacts DEF Undo, ghostVars
<1>1. CASE disturbed
  BY <1>0, <1>1 DEF UndoInv
<1>2. CASE ~disturbed
  <2>1. tables = Entry(Top).after
    BY <1>0, <1>2 DEF UndoInv
  <2>2. Entry(Top).after = Append(Entry(Top).before, history[Top])
    BY <1>0 DEF HistoryInv
  <2>3. ASSUME NEW i \in DOMAIN history', i < Len(history'),
               record'[history'[i]].undone = 0 \/ i > Top'
        PROVE  record'[history'[i]].after = record'[history'[i + 1]].before
    <3>1. i \in 1 .. Len(history) /\ i < Len(history)
      BY <1>0, <2>3
    <3>2. Entry(i).undone = 0 \/ i > Top
      <4>1. CASE i = Top
        BY <1>0, <4>1
      <4>2. CASE i # Top
        <5>1. history[i] # history[Top] /\ history[i] \in Plans
          BY <1>0, <3>1, <4>2 DEF HistoryInv
        <5> QED
          BY <1>0, <2>3, <3>1, <4>2, <5>1 DEF Entry
      <4> QED
        BY <4>1, <4>2
    <3> QED
      BY <1>0, <1>2, <3>1, <3>2, LinksKept
  <2>4. ASSUME Top' >= 1, record'[history'[Top']].undone = 0
        PROVE  tables' = record'[history'[Top']].after
    <3>1. Top - 1 \in 1 .. Len(history) /\ Top - 1 < Len(history) /\ Top - 1 + 1 = Top
      BY <1>0, <2>4
    <3>2. history[Top - 1] # history[Top]
      BY <1>0, <3>1 DEF HistoryInv
    <3>3. Entry(Top - 1).undone = 0
      BY <1>0, <2>4, <3>1, <3>2 DEF Entry
    <3>4. record'[history'[Top - 1]].after = record'[history'[Top]].before
      BY <1>0, <1>2, <3>1, <3>3, LinksKept
    <3> QED
      BY <1>0, <3>4 DEF Entry
  <2>5. Top' + 1 = Top /\ tables' = record'[history'[Top]].before
    BY <1>0 DEF Entry
  <2> QED
    BY <1>0, <2>1, <2>2, <2>3, <2>4, <2>5 DEF UndoInv, Entry
<1> QED
  BY <1>1, <1>2

LEMMA UndoRedo ==
  ASSUME TypeOK, HistoryInv, UndoInv, Redo
  PROVE  UndoInv' /\ (~disturbed => tables' = Append(tables, history[Top + 1]))
<1>0. /\ disturbed' = disturbed /\ history' = history /\ tables' = Entry(Top + 1).after
      /\ Top + 1 \in 1 .. Len(history) /\ Top' = Top + 1 /\ redo # << >>
      /\ Len(redo') = Len(redo) - 1 /\ Len(redo) \in Nat
      /\ Top \in Nat /\ Len(history) \in Nat /\ DOMAIN history = 1 .. Len(history)
      /\ Top + Len(redo) = Len(history)
      /\ \A i \in 1 .. Len(history) : history[i] \in Plans
      /\ \A q \in Plans :
           record'[q].before = record[q].before /\ record'[q].after = record[q].after
      /\ \A q \in Plans : q # history[Top + 1] =>
           (record'[q].undone # 0 <=> record[q].undone # 0)
  BY UndoFacts, RedoFacts, HistoryFacts DEF Redo, ghostVars
<1>1. CASE disturbed
  BY <1>0, <1>1 DEF UndoInv
<1>2. CASE ~disturbed
  <2>1. tables = Entry(Top + 1).before
    BY <1>0, <1>2 DEF UndoInv
  <2>2. Entry(Top + 1).after = Append(Entry(Top + 1).before, history[Top + 1])
    BY <1>0 DEF HistoryInv
  <2>3. ASSUME NEW i \in DOMAIN history', i < Len(history'),
               record'[history'[i]].undone = 0 \/ i > Top'
        PROVE  record'[history'[i]].after = record'[history'[i + 1]].before
    <3>1. i \in 1 .. Len(history) /\ i < Len(history)
      BY <1>0, <2>3
    <3>2. Entry(i).undone = 0 \/ i > Top
      <4>1. CASE i = Top + 1
        BY <1>0, <4>1
      <4>2. CASE i # Top + 1
        <5>1. history[i] # history[Top + 1] /\ history[i] \in Plans
          BY <1>0, <3>1, <4>2 DEF HistoryInv
        <5> QED
          BY <1>0, <2>3, <3>1, <5>1 DEF Entry
      <4> QED
        BY <4>1, <4>2
    <3> QED
      BY <1>0, <1>2, <3>1, <3>2, LinksKept
  <2>4. tables' = record'[history'[Top']].after
    BY <1>0 DEF Entry
  <2>5. ASSUME redo' # << >>
        PROVE  tables' = record'[history'[Top' + 1]].before
    <3>1. Len(redo') # 0
      <4>1. redo' \in Seq(Plans)
        BY TypeStep DEF Next, TypeOK
      <4> QED
        BY <2>5, <4>1
    <3>2. Top + 1 < Len(history) /\ Top + 1 > Top
      BY <1>0, <3>1
    <3>3. record'[history'[Top + 1]].after = record'[history'[Top + 1 + 1]].before
      BY <1>0, <1>2, <3>2, LinksKept
    <3> QED
      BY <1>0, <2>4, <3>3
  <2> QED
    BY <1>0, <2>1, <2>2, <2>3, <2>4, <2>5 DEF UndoInv, Entry
<1> QED
  BY <1>1, <1>2

LEMMA UndoStep ==
  ASSUME TypeOK, PlanInv, HistoryInv, UndoInv, [Next]_vars
  PROVE  UndoInv'
<1>1. CASE UNCHANGED <<record, history, redo, tables, disturbed>>
  BY <1>1 DEF UndoInv, Entry, Top
<1>2. CASE disturbed'
  BY <1>2 DEF UndoInv
<1> QED
  BY <1>1, <1>2, StepKinds, UndoWrite, UndoUndo, UndoRedo

\* The whole inductive invariant of the service.
THEOREM ServiceInvariant == Spec => []ServiceInv
<1>1. Init => UndoInv
  BY HistoryInit
<1>2. (TypeOK /\ PlanInv /\ HistoryInv) /\ UndoInv /\ [Next]_vars => UndoInv'
  BY UndoStep
<1> QED
  BY <1>1, <1>2, HistoryHolds, PTL DEF Spec, ServiceInv

\* While every change of the tables has a record, an undo takes back its own
\* mutation and a redo puts back its own, nothing else, for any number of plans
\* and any history_limit (prompting.py:453-455, 476-480).
THEOREM RestoresExactlyHolds == Spec => RestoresExactlyAlone
<1>1. ServiceInv /\ [Next]_vars
        => [~disturbed => \A p \in Plans :
              /\ Undone(p) => tables = Append(tables', p)
              /\ Redone(p) => tables' = Append(tables, p)]_vars
  <2> SUFFICES ASSUME TypeOK, PlanInv, HistoryInv, UndoInv, Next, ~disturbed,
                      NEW p \in Plans
               PROVE  /\ Undone(p) => tables = Append(tables', p)
                      /\ Redone(p) => tables' = Append(tables, p)
    BY DEF ServiceInv
  <2>1. ASSUME NEW q \in Plans, ApproveWrite(q)
        PROVE  ~Undone(p) /\ ~Redone(p)
    <3>1. /\ record'[q] = Executed(q) /\ \A r \in Plans \ {q} : record'[r] = record[r]
          /\ runs[q] = 0
      BY <2>1, WriteFacts
    <3>2. record[q].undone = 0
      BY <3>1 DEF HistoryInv
    <3> QED
      BY <3>1, <3>2 DEF Undone, Redone, Executed
  <2>2. CASE Undo
    <3>1. /\ Entry(Top).undone = 0 /\ history[Top] \in Plans
          /\ p # history[Top] => record'[p].undone = record[p].undone
      BY <2>2, UndoFacts, HistoryFacts
    <3> QED
      BY <2>2, <3>1, UndoUndo DEF Undone, Redone, Entry
  <2>3. CASE Redo
    <3>1. /\ p # history[Top + 1] => (record'[p].undone # 0 <=> record[p].undone # 0)
          /\ Entry(Top + 1).undone # 0
      BY <2>3, RedoFacts
    <3> QED
      BY <2>3, <3>1, UndoRedo DEF Undone, Redone, Entry
  <2>4. CASE record' = record
    BY <2>4 DEF Undone, Redone
  <2> QED
    BY <2>1, <2>2, <2>3, <2>4, StepKinds
<1> QED
  BY <1>1, ServiceInvariant, PTL DEF Spec, RestoresExactlyAlone

=============================================================================
