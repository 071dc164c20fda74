---------------------------- MODULE DurableStore ----------------------------
(***************************************************************************)
(* What the NovaDB engine promises about durability, with no files in it.  *)
(*                                                                         *)
(* The database is the sequence of logged operations that made it.  A      *)
(* write call takes effect on the disk at one instant, becomes visible and *)
(* is then acknowledged; a crash in the middle of it decides it one way or *)
(* the other, never both, never a part of it.  Checkpoints, compactions    *)
(* and interrupted recoveries are invisible here.                          *)
(*                                                                         *)
(* A state saved for an undo is not a copy: until a transaction commits it *)
(* shares its rows with the store, and a batch insert goes into both.      *)
(***************************************************************************)
EXTENDS Naturals, Sequences

CONSTANTS
  Ops,      \* logged operations
  MaxOps    \* bound: operations of one transaction

VARIABLES
  durable,   \* what an engine opened on the disk now would serve
  view,      \* << t >> while an engine is open and serves t, << >> otherwise
  inflight,  \* {t} while a write call that leads to t is not answered, or {}
  calls,     \* {k}: the kind of that call, or {}
  saved,     \* << t >> once snapshot_state returned t to a caller, or << >>
  shared     \* whether the rows of saved are those of the store

vars == <<durable, view, inflight, calls, saved, shared>>

Transactions == UNION {[1 .. n -> Ops] : n \in 0 .. MaxOps}

Init ==
  /\ durable = << >>
  /\ view = << >>
  /\ inflight = {} /\ calls = {}
  /\ saved = << >> /\ shared = FALSE

\* A write call that leads to t is made; one at a time, on a store that is open.
Call(kind, t) ==
  /\ view = <<durable>> /\ inflight = {}
  /\ inflight' = {t} /\ calls' = {kind}
  /\ UNCHANGED <<durable, view, saved, shared>>

\* The operations of a transaction or of a batch follow what is served.
Commit(ops) == Call("commit", durable \o ops)
Batch(o) == Call("bulk", Append(durable, o))

\* An undo: the database goes back to what a caller saved, as it now reads.
Restore == saved # << >> /\ Call("restore", saved[1])

TakeEffect ==
  /\ durable' \in inflight
  /\ UNCHANGED <<view, inflight, calls, saved, shared>>

\* A transaction replaces every row; a batch adds to the rows in place; an undo
\* puts the saved rows themselves back.
BecomeVisible ==
  /\ view # << >>
  /\ \E t \in inflight :
       /\ view' = <<t>>
       /\ saved' = IF "bulk" \in calls /\ shared THEN <<t>> ELSE saved
  /\ shared' = ("restore" \in calls \/ ("bulk" \in calls /\ shared))
  /\ UNCHANGED <<durable, inflight, calls>>

Acknowledge ==
  /\ view = <<durable>> /\ durable \in inflight
  /\ inflight' = {} /\ calls' = {}
  /\ UNCHANGED <<durable, view, saved, shared>>

\* A refused call leaves no trace.
Reject ==
  /\ view = <<durable>> /\ inflight # {}
  /\ inflight' = {} /\ calls' = {}
  /\ UNCHANGED <<durable, view, saved, shared>>

Snapshot ==
  /\ view # << >>
  /\ saved' = view /\ shared' = TRUE
  /\ UNCHANGED <<durable, view, inflight, calls>>

Crash ==
  /\ durable' \in {durable} \union inflight
  /\ view' = << >> /\ calls' = {}
  /\ saved' = << >> /\ shared' = FALSE
  /\ UNCHANGED inflight

Open ==
  /\ view = << >>
  /\ view' = <<durable>>
  /\ inflight' = {}
  /\ UNCHANGED <<durable, calls, saved, shared>>

Next ==
  \/ \E ops \in Transactions : Commit(ops)
  \/ \E o \in Ops : Batch(o)
  \/ Restore \/ TakeEffect \/ BecomeVisible \/ Acknowledge \/ Reject
  \/ Snapshot \/ Crash \/ Open

Spec == Init /\ [][Next]_vars

=============================================================================
