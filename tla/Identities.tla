----------------------------- MODULE Identities -----------------------------
(***************************************************************************)
(* IdentityStore (auth.py): the identities in memory and the file that is  *)
(* replaced after each change of them.  A call is two steps, the change of *)
(* the dictionary and the replacement of the file.                         *)
(***************************************************************************)
EXTENDS Naturals

CONSTANTS
  Users,
  MaxCalls  \* bound: calls of add and revoke

CallsAssumption == MaxCalls \in Nat

VARIABLES
  identities,  \* what each name is in the dictionary
  file,        \* and in the identity file
  pending,     \* the users whose call has changed the dictionary, not the file
  told,        \* history: what the last call about a user said
  calls        \* history: how many there were

vars == <<identities, file, pending, told, calls>>

States == {"none", "active", "disabled"}

Init ==
  /\ identities = [u \in Users |-> "none"] /\ file = identities /\ told = identities
  /\ pending = {} /\ calls = 0

Change(u, state) ==
  /\ pending = {} /\ calls < MaxCalls
  /\ identities' = [identities EXCEPT ![u] = state]
  /\ pending' = {u} /\ calls' = calls + 1
  /\ UNCHANGED <<file, told>>

Add(u) == identities[u] = "none" /\ Change(u, "active")

Revoke(u) == identities[u] # "none" /\ Change(u, "disabled")

\* Mutant of Written: the disabled identities are left out.
WrittenActive == [u \in Users |-> IF identities[u] = "disabled" THEN "none" ELSE identities[u]]

\* All the identities, the disabled ones too, and those of calls that failed before.
Written == identities

Save ==
  /\ pending # {}
  /\ file' = Written
  /\ told' = [u \in Users |-> IF u \in pending THEN identities[u] ELSE told[u]]
  /\ pending' = {}
  /\ UNCHANGED <<identities, calls>>

\* Of the user of a call that did not return nothing is known any more.
Unanswered == [u \in Users |-> IF u \in pending THEN "unknown" ELSE told[u]]

\* OSError before the replacement: the dictionary keeps the change, the file has not got it.
SaveRaises ==
  /\ pending # {}
  /\ told' = Unanswered /\ pending' = {}
  /\ UNCHANGED <<identities, file, calls>>

\* The process ends and the next one loads the file.
Load ==
  /\ identities' = file
  /\ told' = Unanswered /\ pending' = {}
  /\ UNCHANGED <<file, calls>>

Next == (\E u \in Users : Add(u) \/ Revoke(u)) \/ Save \/ SaveRaises \/ Load

Spec == Init /\ [][Next]_vars

-----------------------------------------------------------------------------
(* Properties.                                                             *)

TypeOK ==
  /\ identities \in [Users -> States] /\ file \in [Users -> States]
  /\ told \in [Users -> States \union {"unknown"}] /\ pending \subseteq Users

\* What a call that returned has said of a user is so, in memory and in the file,
\* through later calls of others, ones that fail and leave memory and file apart, and
\* restarts: an identity does not vanish and a revocation is not taken back
\* (auth.py:83-123).
AdminDurable ==
  \A u \in Users \ pending :
    told[u] # "unknown" => identities[u] = told[u] /\ file[u] = told[u]

=============================================================================
