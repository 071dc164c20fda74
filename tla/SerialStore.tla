----------------------------- MODULE SerialStore -----------------------------
(***************************************************************************)
(* Strict serializability for a store of keys and values: a transaction    *)
(* may be told anything while it runs, but it commits only at an instant   *)
(* at which all it was told is true, and its writes happen at that instant.*)
(***************************************************************************)
CONSTANTS
  Clients, Keys, Values,
  Missing,   \* the key has no value
  NoEntry    \* the transaction neither read nor wrote the key

VARIABLES
  db,       \* the value of each key
  seen,     \* what the store told each transaction about each key
  writes    \* what each transaction means to write

vars == <<db, seen, writes>>

Nothing == [k \in Keys |-> NoEntry]

Init ==
  /\ db = [k \in Keys |-> Missing]
  /\ seen = [c \in Clients |-> Nothing]
  /\ writes = [c \in Clients |-> Nothing]

\* What was told once is never taken back.
Observe(c) ==
  /\ UNCHANGED writes
  /\ \A d \in Clients \ {c} : seen'[d] = seen[d]
  /\ \A k \in Keys : seen[c][k] # NoEntry => seen'[c][k] = seen[c][k]
  /\ UNCHANGED db

Write(c) ==
  /\ UNCHANGED seen
  /\ \A d \in Clients \ {c} : writes'[d] = writes[d]
  /\ UNCHANGED db

Finish(c) ==
  /\ seen' = [seen EXCEPT ![c] = Nothing]
  /\ writes' = [writes EXCEPT ![c] = Nothing]

Commit(c) ==
  /\ Finish(c)
  /\ \A k \in Keys : seen[c][k] \in {NoEntry, db[k]}
  /\ db' = [k \in Keys |-> IF writes[c][k] = NoEntry THEN db[k] ELSE writes[c][k]]

Abort(c) ==
  /\ Finish(c)
  /\ UNCHANGED db

Next == \E c \in Clients : Observe(c) \/ Write(c) \/ Commit(c) \/ Abort(c)

Spec == Init /\ [][Next]_vars

=============================================================================
