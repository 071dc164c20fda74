-------------------------- MODULE RaftCommit_proofs --------------------------
(***************************************************************************)
(* Proofs about what Raft commits, for any finite set of nodes, any        *)
(* commands and any bounds: what a node has applied is held by a majority, *)
(* as long as no follower reports more entries than its leader has.        *)
(***************************************************************************)
EXTENDS Raft_proofs

-----------------------------------------------------------------------------
(* What a step does to one node's log, role, match_index and commit index. *)

\* The log of q stays, becomes that of the leader it hears, or is proposed to.
LogStep(q) ==
  \/ node'[q].log = node[q].log
  \/ \E n \in Nodes \ {q} : Takes(n, q) /\ node'[q].log = node[n].log
  \/ \E command \in Commands : Propose(q, command)

\* The candidate c counts the vote of p, whose log is no further than c's.
Polls(c, p) ==
  /\ node[c].role = "candidate" /\ node'[c].term = node[c].term
  /\ node'[c].votes = node[c].votes \union {p}
  /\ UpToDate(node[p], [lastTerm |-> LastTerm(node[c]), lastIndex |-> Len(node[c].log)])
  /\ node'[c].role = "leader" => Cardinality(node'[c].votes) >= Majority

\* q stands or leads as it did, has just stood, or counts one vote more.
RoleStep(q) ==
  \/ node'[q].role = "follower"
  \/ /\ node'[q].role = node[q].role /\ node'[q].term = node[q].term
     /\ node'[q].votes = node[q].votes
  \/ node'[q].role = "candidate" /\ node'[q].votes = {q}
  \/ \E p \in Nodes : Polls(q, p)

\* p has all of the leader n's log, unless it reported more.
TakesAll(n, p) == Takes(n, p) /\ (overclaimed' \/ node'[p].log = node[n].log)

\* A leader is a new one that counts nothing, or counts what it did and at most
\* what one more peer took.
AckStep(q) ==
  node'[q].role = "leader" =>
    \/ /\ node[q].role = "leader" /\ node'[q].term = node[q].term
       /\ \/ node'[q].match = node[q].match
          \/ \E p \in Nodes \ {q} : TakesAll(q, p)
    \/ /\ node'[q].match = [y \in Nodes |-> 0] /\ node'[q].log = node[q].log
       /\ node'[q].term = node[q].term /\ elected[node[q].term] = {}

\* The commit index and what is applied: the same, lost in a restart, caught up with
\* a leader's, applied further, or moved to an index a leader counted a quorum for.
CommitStep(q) ==
  \/ SameApplied(q)
  \/ node'[q].commit = 0 /\ node'[q].applied = << >>
  \/ \E n \in Nodes \ {q} : TakesAll(n, q) /\ Catches(node[q], node'[q], node[n].commit)
  \/ node'[q] = Apply(node[q])
  \/ /\ node'[q].applied = node[q].applied /\ node'[q].log = node[q].log
     /\ node[q].role = "leader"
     /\ node'[q].commit \in DOMAIN node[q].log /\ HasQuorum(q, node'[q].commit)
     /\ node'[q].commit > node[q].commit

DataStep(q) == LogStep(q) /\ RoleStep(q) /\ AckStep(q) /\ CommitStep(q)

LEMMA Untouched ==
  ASSUME NEW q \in Nodes, node'[q] = node[q]
  PROVE  DataStep(q)
BY DEF DataStep, LogStep, RoleStep, AckStep, CommitStep, SameApplied

\* In a step that elects a node, nobody was elected in its term before.
LEMMA NewLeader ==
  ASSUME TypeOK, TypeOK', VoteInv, ElectionInv, [Next]_vars, NEW q \in Nodes,
         node[q].role = "candidate", node'[q].role = "leader"
  PROVE  node'[q].term = node[q].term /\ elected[node[q].term] = {}
<1>1. PICK n \in Nodes : Moves(n) /\ (ElectsNone \/ Wins(n))
  BY StepMoves
<1>2. ~ElectsNone
  BY DEF ElectsNone
<1>3. q = n
  BY <1>1 DEF Moves, Stays
<1> QED
  BY <1>1, <1>2, <1>3, FirstInTerm DEF Wins

LEMMA TimeoutData ==
  ASSUME TypeOK, NEW n \in Nodes, Timeout(n), NEW q \in Nodes
  PROVE  DataStep(q)
<1>1. CASE q # n
  <2>1. node'[q] = node[q]
    BY <1>1, TimeoutStep
  <2> QED
    BY <2>1, Untouched
<1>2. CASE q = n
  <2>1. /\ node'[n].log = node[n].log /\ node'[n].role = "candidate"
        /\ node'[n].votes = {n} /\ SameData(node[n], node'[n])
    BY TimeoutStep
  <2> QED
    BY <1>2, <2>1 DEF DataStep, LogStep, RoleStep, AckStep, CommitStep, SameApplied, SameData
<1> QED
  BY <1>1, <1>2

LEMMA ProposeData ==
  ASSUME TypeOK, NEW n \in Nodes, NEW command \in Commands, Propose(n, command),
         NEW q \in Nodes
  PROVE  DataStep(q)
<1>1. CASE q # n
  <2>1. node'[q] = node[q]
    BY <1>1, ProposeStep
  <2> QED
    BY <2>1, Untouched
<1>2. CASE q = n
  <2>1. /\ node[n].role = "leader" /\ node'[n].role = "leader"
        /\ node'[n].term = node[n].term /\ node'[n].votes = node[n].votes
        /\ SameData(node[n], node'[n])
    BY ProposeStep
  <2> QED
    BY <1>2, <2>1 DEF DataStep, LogStep, RoleStep, AckStep, CommitStep, SameApplied, SameData
<1> QED
  BY <1>1, <1>2

LEMMA RequestVoteData ==
  ASSUME TypeOK, TypeOK', VoteInv, ElectionInv, [Next]_vars, NEW n \in Nodes,
         NEW p \in Peers(n), RequestVote(n, p), NEW q \in Nodes
  PROVE  DataStep(q)
<1>1. /\ node'[q].log = node[q].log /\ SameApplied(q)
  BY RequestVoteStep DEF SameApplied
<1>2. CASE Keeps(q) /\ node'[q].match = node[q].match
  BY <1>1, <1>2 DEF DataStep, LogStep, RoleStep, AckStep, CommitStep, Keeps
<1>3. ASSUME q = n, NEW role \in {"candidate", "leader"}, Counts(n, p, role),
             role = "leader" => /\ Cardinality(node'[n].votes) >= Majority
                                /\ node'[n].match = [y \in Nodes |-> 0]
      PROVE  DataStep(q)
  <2>1. /\ node[n].role = "candidate" /\ node'[n].role = role
        /\ node'[n].term = node[n].term /\ node'[n].votes = node[n].votes \union {p}
        /\ UpToDate(node[p], [lastTerm |-> LastTerm(node[n]), lastIndex |-> Len(node[n].log)])
        /\ p \in Nodes
    BY <1>3 DEF Counts, Granted, Peers
  <2>2. Polls(n, p)
    BY <1>3, <2>1 DEF Polls
  <2>3. AckStep(n)
    <3>1. role = "leader" => elected[node[n].term] = {}
      BY <2>1, NewLeader
    <3> QED
      BY <1>1, <1>3, <2>1, <3>1 DEF AckStep
  <2> QED
    BY <1>1, <1>3, <2>1, <2>2, <2>3 DEF DataStep, LogStep, RoleStep, CommitStep
<1>4. \/ Keeps(q) /\ node'[q].match = node[q].match
      \/ q = n /\ Counts(n, p, "candidate")
      \/ /\ q = n /\ Counts(n, p, "leader") /\ Cardinality(node'[n].votes) >= Majority
         /\ node'[n].match = [y \in Nodes |-> 0]
  BY RequestVoteStep
<1> QED
  BY <1>2, <1>3, <1>4

LEMMA ReplicateData ==
  ASSUME TypeOK, LogMatching, NEW n \in Nodes, NEW p \in Peers(n), Replicate(n, p),
         NEW q \in Nodes
  PROVE  DataStep(q)
<1>1. Keeps(q) /\ p \in Nodes \ {n}
  BY ReplicateStep DEF Quiet, Peers
<1>2. RoleStep(q)
  BY <1>1 DEF Keeps, RoleStep
<1>3. LogStep(q)
  <2>1. CASE q # p
    BY <2>1, ReplicateStep DEF LogStep
  <2>2. CASE q = p
    <3>1. node'[p].log = node[p].log \/ (Takes(n, p) /\ node'[p].log = node[n].log)
      BY ReplicateStep, ReplicateMerges
    <3> QED
      BY <1>1, <2>2, <3>1 DEF LogStep
  <2> QED
    BY <2>1, <2>2
<1>4. AckStep(q)
  <2>1. node'[q].match = node[q].match \/ (q = n /\ TakesAll(n, p))
    BY ReplicateStep, ReplicateMerges DEF TakesAll
  <2> QED
    BY <1>1, <2>1 DEF AckStep, Keeps
<1>5. CommitStep(q)
  <2>1. SameApplied(q) \/ (q = p /\ TakesAll(n, p))
    BY ReplicateStep, ReplicateMerges DEF TakesAll
  <2> QED
    BY <1>1, <2>1 DEF CommitStep, TakesAll, Takes
<1> QED
  BY <1>2, <1>3, <1>4, <1>5 DEF DataStep

\* advance_commit, apply_committed and a restart change one node by itself.
LEMMA OwnData ==
  ASSUME TypeOK, NEW n \in Nodes, AdvanceCommit(n) \/ FinishBroadcast(n) \/ Restart(n),
         NEW q \in Nodes
  PROVE  DataStep(q)
<1>1. CASE q # n
  <2>1. node'[q] = node[q]
    BY <1>1, AdvanceCommitStep, FinishBroadcastStep, RestartStep
  <2> QED
    BY <2>1, Untouched
<1>2. Keeps(n) /\ node'[n].log = node[n].log
  BY AdvanceCommitStep, FinishBroadcastStep, RestartStep DEF Quiet
<1>3. CASE q = n /\ AdvanceCommit(n)
  <2>1. /\ node'[n].match = node[n].match /\ node'[n].applied = node[n].applied
        /\ \/ node'[n].commit = node[n].commit
           \/ /\ node[n].role = "leader" /\ node'[n].commit \in DOMAIN node[n].log
              /\ HasQuorum(n, node'[n].commit) /\ node'[n].commit > node[n].commit
    BY <1>3, AdvanceCommitStep
  <2> QED
    BY <1>2, <1>3, <2>1
    DEF DataStep, LogStep, RoleStep, AckStep, CommitStep, SameApplied, Keeps
<1>4. CASE q = n /\ FinishBroadcast(n)
  <2>1. node'[n] = Apply(node[n])
    BY <1>4, FinishBroadcastStep
  <2>2. node[n] \in NodeStates
    BY DEF TypeOK
  <2>3. node'[n].match = node[n].match
    BY <2>1, <2>2, ApplyFacts
  <2> QED
    BY <1>2, <1>4, <2>1, <2>3
    DEF DataStep, LogStep, RoleStep, AckStep, CommitStep, Keeps
<1>5. CASE q = n /\ Restart(n)
  <2>1. node'[n].role = "follower" /\ node'[n].commit = 0 /\ node'[n].applied = << >>
    BY <1>5, RestartStep
  <2> QED
    BY <1>2, <1>5, <2>1 DEF DataStep, LogStep, RoleStep, AckStep, CommitStep
<1> QED
  BY <1>1, <1>3, <1>4, <1>5

LEMMA StepData ==
  ASSUME RaftInv, TypeOK', [Next]_vars
  PROVE  \A q \in Nodes : DataStep(q) /\ node'[q].term >= node[q].term
<1>0. TypeOK /\ VoteInv /\ ElectionInv /\ LogMatching
  BY DEF RaftInv
<1>1. \A q \in Nodes : node'[q].term >= node[q].term
  <2>1. PICK n \in Nodes : Moves(n)
    BY <1>0, StepMoves
  <2> QED
    BY <2>1 DEF Moves, Advances
<1>2. CASE node' = node
  BY <1>1, <1>2, Untouched
<1>3. CASE Next
  <2>1. PICK n \in Nodes :
          \/ Timeout(n) \/ Heartbeat(n) \/ Restart(n)
          \/ AdvanceCommit(n) \/ FinishBroadcast(n) \/ FinishElection(n)
          \/ \E command \in Commands : Propose(n, command)
          \/ \E p \in Peers(n) :
               \/ RequestVote(n, p) \/ VoteLost(n, p)
               \/ Replicate(n, p) \/ ReplicateSkipped(n, p) \/ ReplicateRaises(n, p)
    BY <1>3 DEF Next
  <2>2. CASE Timeout(n)
    BY <1>0, <1>1, <2>2, TimeoutData
  <2>3. CASE \E command \in Commands : Propose(n, command)
    BY <1>0, <1>1, <2>3, ProposeData
  <2>4. CASE \E p \in Peers(n) : RequestVote(n, p)
    BY <1>0, <1>1, <2>4, RequestVoteData
  <2>5. CASE \E p \in Peers(n) : Replicate(n, p)
    BY <1>0, <1>1, <2>5, ReplicateData
  <2>6. CASE \/ Heartbeat(n) \/ FinishElection(n)
             \/ \E p \in Peers(n) :
                  VoteLost(n, p) \/ ReplicateSkipped(n, p) \/ ReplicateRaises(n, p)
    BY <1>0, <1>2, <2>6, CallStep
  <2>7. CASE AdvanceCommit(n) \/ FinishBroadcast(n) \/ Restart(n)
    BY <1>0, <1>1, <2>7, OwnData
  <2> QED
    BY <2>1, <2>2, <2>3, <2>4, <2>5, <2>6, <2>7
<1> QED
  BY <1>2, <1>3 DEF vars

-----------------------------------------------------------------------------
(* Terms along the logs.                                                   *)

LEMMA OrderInit == Init => OrderInv
BY DEF Init, Loaded, OrderInv

LEMMA OrderStep ==
  ASSUME RaftInv, OrderInv, TypeOK', [Next]_vars
  PROVE  OrderInv'
<1>1. TypeOK /\ EntryInv
  BY DEF RaftInv
<1>2. \A q \in Nodes : /\ node[q].term \in Nat /\ node'[q].term \in Nat
                       /\ node'[q].term >= node[q].term
  BY <1>1, StepData, Terms DEF TypeOK, NodeStates
<1>3. \A q \in Nodes : \A i \in DOMAIN node[q].log :
        i \in Nat /\ node[q].log[i].term \in Nat
  <2> TAKE q \in Nodes
  <2>1. /\ node[q].log \in Seq(Entries) /\ Len(node[q].log) \in Nat
        /\ DOMAIN node[q].log = 1 .. Len(node[q].log)
    BY <1>1, LogTypes
  <2>2. \A i \in DOMAIN node[q].log : node[q].log[i] \in Entries
    BY <2>1
  <2> QED
    BY <2>1, <2>2 DEF Entries
<1>4. CASE \A q \in Nodes : \A command \in Commands : ~Propose(q, command)
  <2>1. \A q \in Nodes : \E m \in Nodes :
          node'[q].log = node[m].log /\ node'[q].term >= node[m].term
    <3> TAKE q \in Nodes
    <3>1. CASE node'[q].log = node[q].log
      BY <1>2, <3>1
    <3>2. ASSUME NEW n \in Nodes, Takes(n, q), node'[q].log = node[n].log
          PROVE  \E m \in Nodes :
                   node'[q].log = node[m].log /\ node'[q].term >= node[m].term
      <4>1. node'[q].term = node[n].term
        BY <3>2 DEF Takes
      <4> QED
        BY <1>2, <3>2, <4>1
    <3> QED
      BY <1>4, <3>1, <3>2, StepData DEF DataStep, LogStep
  <2> SUFFICES ASSUME NEW m \in Nodes, NEW i \in DOMAIN node'[m].log
               PROVE  /\ node'[m].log[i].term <= node'[m].term
                      /\ \A j \in DOMAIN node'[m].log :
                           i <= j => node'[m].log[i].term <= node'[m].log[j].term
                      /\ \A n \in Nodes : \A j \in DOMAIN node'[n].log :
                           i <= j /\ node'[n].log[j].term = node'[m].log[i].term
                             => node'[n].log[i].term = node'[m].log[i].term
    BY DEF OrderInv
  <2>2. PICK m0 \in Nodes : node'[m].log = node[m0].log /\ node'[m].term >= node[m0].term
    BY <2>1
  <2>3. node[m0].log[i].term <= node'[m].term
    <3>1. node[m0].log[i].term <= node[m0].term
      BY <2>2 DEF OrderInv
    <3> QED
      BY <1>2, <1>3, <2>2, <3>1
  <2>4. ASSUME NEW n \in Nodes, NEW j \in DOMAIN node'[n].log,
               i <= j, node'[n].log[j].term = node'[m].log[i].term
        PROVE  node'[n].log[i].term = node'[m].log[i].term
    <3>1. PICK n0 \in Nodes : node'[n].log = node[n0].log
      BY <2>1
    <3> QED
      BY <2>2, <2>4, <3>1 DEF OrderInv
  <2>5. \A j \in DOMAIN node'[m].log :
          i <= j => node'[m].log[i].term <= node'[m].log[j].term
    BY <2>2 DEF OrderInv
  <2> QED
    BY <2>2, <2>3, <2>4, <2>5
<1>5. ASSUME NEW p \in Nodes, NEW command \in Commands, Propose(p, command)
      PROVE  OrderInv'
  <2>0. PICK k : k = Len(node[p].log) + 1
    OBVIOUS
  <2>1. /\ node[p].role = "leader" /\ DOMAIN node'[p].log = 1 .. k
        /\ node'[p].log[k].term = node[p].term
        /\ \A i \in 1 .. k - 1 : node'[p].log[i] = node[p].log[i]
    BY <1>1, <1>5, <2>0, Proposed
  <2>2. /\ \A q \in Nodes \ {p} : node'[q] = node[q]
        /\ node'[p].term = node[p].term
    BY <1>1, <1>5, ProposeStep
  <2>3. /\ DOMAIN node[p].log = 1 .. k - 1 /\ k \in Nat \ {0}
    BY <1>1, <2>0, LogTypes
  <2>4. \A q \in Nodes : \A i \in DOMAIN node[q].log :
          i \in DOMAIN node'[q].log /\ node'[q].log[i] = node[q].log[i]
    <3> TAKE q \in Nodes
    <3>1. 1 .. k - 1 \subseteq 1 .. k
      BY <2>3
    <3> QED
      BY <2>1, <2>2, <2>3, <3>1
  <2>5. \A q \in Nodes : \A i \in DOMAIN node'[q].log :
          i \in DOMAIN node[q].log \/ (q = p /\ i = k)
    <3> TAKE q \in Nodes
    <3>1. \A i \in 1 .. k : i \in 1 .. k - 1 \/ i = k
      BY <2>3
    <3> QED
      BY <2>1, <2>2, <2>3, <3>1
  <2>6. \A q \in Nodes : \A i \in DOMAIN node[q].log :
          node[q].log[i].term = node[p].term
            => i \in 1 .. k - 1 /\ node[p].log[i].term = node[p].term
    BY <1>1, <2>1, <2>3 DEF EntryInv
  <2>7. ASSUME NEW m \in Nodes, NEW i \in DOMAIN node'[m].log
        PROVE  node'[m].log[i].term <= node'[m].term
    <3>1. CASE i \in DOMAIN node[m].log
      BY <2>2, <2>4, <3>1 DEF OrderInv
    <3>2. CASE m = p /\ i = k
      BY <1>2, <2>1, <2>2, <3>2
    <3> QED
      BY <2>5, <3>1, <3>2
  <2>8. ASSUME NEW m \in Nodes, NEW i \in DOMAIN node'[m].log,
               NEW j \in DOMAIN node'[m].log, i <= j
        PROVE  node'[m].log[i].term <= node'[m].log[j].term
    <3>1. CASE i \in DOMAIN node[m].log /\ j \in DOMAIN node[m].log
      BY <2>4, <2>8, <3>1 DEF OrderInv
    <3>2. CASE m = p /\ j = k
      BY <2>1, <2>2, <2>7, <3>2
    <3>3. CASE m = p /\ i = k /\ j # k
      <4>1. j \in 1 .. k - 1
        BY <2>3, <2>5, <3>3
      <4> QED
        BY <2>3, <2>8, <3>3, <4>1
    <3> QED
      BY <2>5, <3>1, <3>2, <3>3
  <2>9. ASSUME NEW m \in Nodes, NEW i \in DOMAIN node'[m].log,
               NEW n \in Nodes, NEW j \in DOMAIN node'[n].log,
               i <= j, node'[n].log[j].term = node'[m].log[i].term
        PROVE  node'[n].log[i].term = node'[m].log[i].term
    <3>1. CASE i \in DOMAIN node[m].log /\ j \in DOMAIN node[n].log
      <4>1. node[n].log[j].term = node[m].log[i].term
        BY <2>4, <2>9, <3>1
      <4>2. node[n].log[i].term = node[m].log[i].term
        BY <2>9, <3>1, <4>1 DEF OrderInv
      <4>3. i \in DOMAIN node[n].log
        <5>1. /\ DOMAIN node[n].log = 1 .. Len(node[n].log) /\ Len(node[n].log) \in Nat
              /\ DOMAIN node[m].log = 1 .. Len(node[m].log) /\ Len(node[m].log) \in Nat
          BY <1>1, LogTypes
        <5> QED
          BY <2>9, <3>1, <5>1
      <4> QED
        BY <2>4, <3>1, <4>2, <4>3
    <3>2. CASE i \in DOMAIN node[m].log /\ n = p /\ j = k
      <4>1. node[m].log[i].term = node[p].term
        BY <2>1, <2>4, <2>9, <3>2
      <4>2. i \in 1 .. k - 1 /\ node[p].log[i].term = node[p].term
        BY <2>6, <3>2, <4>1
      <4> QED
        BY <2>1, <2>4, <3>2, <4>1, <4>2
    <3>3. CASE m = p /\ i = k /\ j \in DOMAIN node[n].log
      <4>1. node[n].log[j].term = node[p].term
        BY <2>1, <2>4, <2>9, <3>3
      <4>2. j \in 1 .. k - 1
        BY <2>6, <3>3, <4>1
      <4> QED
        BY <2>3, <2>9, <3>3, <4>2
    <3>4. CASE m = p /\ i = k /\ n = p /\ j = k
      BY <3>4
    <3> QED
      BY <2>5, <3>1, <3>2, <3>3, <3>4
  <2> QED
    BY <2>7, <2>8, <2>9 DEF OrderInv
<1> QED
  BY <1>4, <1>5

-----------------------------------------------------------------------------
(* What is held for good.                                                  *)

\* The entries of a log are typed, and so are their terms.
LEMMA LogTerms ==
  ASSUME RaftInv
  PROVE  \A q \in Nodes :
           /\ node[q].term \in Nat /\ Len(node[q].log) \in Nat
           /\ DOMAIN node[q].log = 1 .. Len(node[q].log)
           /\ \A j \in DOMAIN node[q].log : j \in Nat \ {0} /\ node[q].log[j].term \in 1 .. MaxTerm
<1>1. TypeOK /\ EntryInv
  BY DEF RaftInv
<1> TAKE q \in Nodes
<1>2. /\ node[q].log \in Seq(Entries) /\ Len(node[q].log) \in Nat
      /\ DOMAIN node[q].log = 1 .. Len(node[q].log)
  BY <1>1, LogTypes
<1> QED
  BY <1>1, <1>2, Terms DEF EntryInv

\* A proposal leaves the entries there were.
LEMMA ProposeKeeps ==
  ASSUME RaftInv, NEW p \in Nodes, NEW command \in Commands, Propose(p, command)
  PROVE  /\ node[p].role = "leader" /\ node'[p].term = node[p].term
         /\ \A j \in DOMAIN node[p].log :
              j \in DOMAIN node'[p].log /\ node'[p].log[j] = node[p].log[j]
         /\ \A j \in DOMAIN node'[p].log :
              j \in DOMAIN node[p].log
                \/ (j = Len(node[p].log) + 1 /\ node'[p].log[j].term = node[p].term)
<1>0. PICK k : k = Len(node[p].log) + 1
  OBVIOUS
<1>1. TypeOK /\ EntryInv
  BY DEF RaftInv
<1>2. /\ node[p].role = "leader" /\ DOMAIN node'[p].log = 1 .. k
      /\ node'[p].log[k].term = node[p].term
      /\ \A i \in 1 .. k - 1 : node'[p].log[i] = node[p].log[i]
  BY <1>0, <1>1, Proposed
<1>3. node'[p].term = node[p].term
  BY <1>1, ProposeStep
<1>4. DOMAIN node[p].log = 1 .. k - 1 /\ k \in Nat \ {0}
  BY <1>0, <1>1, LogTypes
<1>5. 1 .. k - 1 \subseteq 1 .. k /\ \A j \in 1 .. k : j \in 1 .. k - 1 \/ j = k
  BY <1>4
<1> QED
  BY <1>0, <1>2, <1>3, <1>4, <1>5

\* Who holds a frozen entry keeps it: a leader that could take it away holds it too.
LEMMA HoldsKept ==
  ASSUME RaftInv, TypeOK', [Next]_vars,
         NEW t \in Nat, NEW i, NEW A \in SUBSET Nodes, Frozen(i, t, A),
         NEW p \in Nodes, Holds(p, i, t)
  PROVE  Holds(p, i, t)'
<1>1. /\ node[p].term \in Nat /\ node'[p].term \in Nat /\ node'[p].term >= node[p].term
      /\ DataStep(p) /\ TypeOK /\ EntryInv
  BY StepData, Terms DEF RaftInv, TypeOK, NodeStates
<1>2. i \in DOMAIN node[p].log /\ node[p].log[i].term = t /\ node[p].term >= t
  BY DEF Holds
<1>3. node'[p].term >= t
  BY <1>1, <1>2
<1>4. CASE node'[p].log = node[p].log
  BY <1>2, <1>3, <1>4 DEF Holds
<1>5. ASSUME NEW n \in Nodes, Takes(n, p), node'[p].log = node[n].log
      PROVE  Holds(p, i, t)'
  <2>1. node[n].role = "leader" /\ node[n].term >= node[p].term /\ node[n].term \in Nat
    BY <1>1, <1>5, Terms DEF Takes
  <2>2. CASE node[n].term = t
    <3>1. i \in DOMAIN node[n].log /\ node[n].log[i].term = t
      BY <1>1, <1>2, <2>1, <2>2 DEF EntryInv
    <3> QED
      BY <1>3, <1>5, <3>1 DEF Holds
  <2>3. CASE node[n].term > t
    <3>1. Holds(n, i, t)
      BY <2>1, <2>3 DEF Frozen
    <3> QED
      BY <1>3, <1>5, <3>1 DEF Holds
  <2> QED
    BY <1>1, <1>2, <2>1, <2>2, <2>3
<1>6. ASSUME NEW command \in Commands, Propose(p, command)
      PROVE  Holds(p, i, t)'
  <2>1. i \in DOMAIN node'[p].log /\ node'[p].log[i] = node[p].log[i]
    BY <1>2, <1>6, ProposeKeeps
  <2> QED
    BY <1>2, <1>3, <2>1 DEF Holds
<1> QED
  BY <1>1, <1>4, <1>5, <1>6 DEF DataStep, LogStep

\* Whoever gets the vote of a node that holds a frozen entry holds it.
LEMMA VoteHolds ==
  ASSUME RaftInv, OrderInv, NEW t \in Nat, NEW i, NEW A \in SUBSET Nodes, Frozen(i, t, A),
         NEW p \in A, NEW c \in Nodes, node[c].term >= t,
         UpToDate(node[p], [lastTerm |-> LastTerm(node[c]), lastIndex |-> Len(node[c].log)])
  PROVE  Holds(c, i, t)
<1> DEFINE a == node[p].log
           b == node[c].log
<1>1. p \in Nodes /\ Holds(p, i, t)
  BY DEF Frozen
<1>2. i \in DOMAIN a /\ a[i].term = t
  BY <1>1 DEF Holds
<1>3. /\ Len(a) \in Nat /\ Len(b) \in Nat
      /\ DOMAIN a = 1 .. Len(a) /\ DOMAIN b = 1 .. Len(b)
      /\ \A j \in DOMAIN a : a[j].term \in 1 .. MaxTerm
      /\ \A j \in DOMAIN b : b[j].term \in 1 .. MaxTerm
  BY <1>1, LogTerms
<1>4. /\ Len(a) \in DOMAIN a /\ i \in Nat \ {0} /\ i <= Len(a) /\ a # << >>
      /\ a[Len(a)].term >= t /\ a[Len(a)].term \in 1 .. MaxTerm
  <2>1. Len(a) \in DOMAIN a /\ i \in Nat \ {0} /\ i <= Len(a)
    BY <1>2, <1>3
  <2>2. a[i].term <= a[Len(a)].term
    BY <1>1, <1>2, <2>1 DEF OrderInv
  <2>3. a # << >>
    BY <1>3, <2>1
  <2> QED
    BY <1>2, <1>3, <2>1, <2>2, <2>3
<1>5. LastTerm(node[p]) = a[Len(a)].term
  BY <1>4 DEF LastTerm
<1>6. LastTerm(node[c]) >= a[Len(a)].term
      /\ (LastTerm(node[c]) = a[Len(a)].term => Len(b) >= Len(a))
  <2>1. \/ LastTerm(node[c]) > LastTerm(node[p])
        \/ LastTerm(node[c]) = LastTerm(node[p]) /\ Len(b) >= Len(a)
    BY DEF UpToDate
  <2>2. LastTerm(node[c]) \in Nat
    <3>1. CASE b = << >>
      BY <3>1 DEF LastTerm
    <3>2. CASE b # << >>
      <4>1. Len(b) \in DOMAIN b
        <5>1. b \in Seq(Entries)
          BY LogTypes DEF RaftInv
        <5>2. Len(b) # 0
          BY <3>2, <5>1, EmptySeq
        <5> QED
          BY <1>3, <5>2
      <4> QED
        BY <1>3, <3>2, <4>1, RaftBoundsAssumption DEF LastTerm
    <3> QED
      BY <3>1, <3>2
  <2> QED
    BY <1>4, <1>5, <2>1, <2>2, RaftBoundsAssumption
<1>7. /\ b # << >> /\ LastTerm(node[c]) = b[Len(b)].term /\ Len(b) \in DOMAIN b
      /\ b[Len(b)].term \in 1 .. MaxTerm
  <2>1. b # << >>
    <3> SUFFICES ASSUME b = << >> PROVE FALSE
      OBVIOUS
    <3>1. LastTerm(node[c]) = 0
      BY DEF LastTerm
    <3> QED
      BY <1>4, <1>6, <3>1, RaftBoundsAssumption
  <2>2. b \in Seq(Entries)
    BY LogTypes DEF RaftInv
  <2>3. Len(b) # 0
    BY <2>1, <2>2, EmptySeq
  <2> QED
    BY <1>3, <2>1, <2>3 DEF LastTerm
<1> HIDE DEF a, b
<1>8. CASE b[Len(b)].term > t
  <2>1. \E j \in DOMAIN node[c].log : node[c].log[j].term > t
    BY <1>7, <1>8 DEF b
  <2> QED
    BY <2>1 DEF Frozen
<1>9. CASE b[Len(b)].term = t
  <2>1. a[Len(a)].term = t
    BY <1>4, <1>6, <1>7, <1>9, RaftBoundsAssumption
  <2>2. i <= Len(b) /\ i \in DOMAIN b
    BY <1>3, <1>4, <1>6, <1>7, <1>9, <2>1
  <2>3. b[i].term = t
    BY <1>1, <1>2, <1>7, <1>9, <2>2 DEF OrderInv, a, b
  <2> QED
    BY <2>2, <2>3 DEF Holds, b
<1> QED
  BY <1>4, <1>6, <1>7, <1>8, <1>9, RaftBoundsAssumption

\* A frozen entry stays frozen, unless a node is elected for a later term with no
\* vote of A.
LEMMA FrozenKept ==
  ASSUME RaftInv, RaftInv', OrderInv, [Next]_vars,
         NEW t \in Nat, NEW i, NEW A \in SUBSET Nodes, Frozen(i, t, A)
  PROVE  Frozen(i, t, A)' \/ Surpassed(t, A)'
<1>0. TypeOK /\ TypeOK' /\ VoteInv'
  BY DEF RaftInv
<1>1. \A q \in Nodes : /\ DataStep(q) /\ node'[q].term >= node[q].term
                       /\ node[q].term \in Nat /\ node'[q].term \in Nat
  BY <1>0, StepData, Terms DEF TypeOK, NodeStates
<1>2. \A p \in Nodes : Holds(p, i, t) => Holds(p, i, t)'
  BY <1>0, HoldsKept
<1>3. ASSUME NEW m \in Nodes, NEW j \in DOMAIN node'[m].log, node'[m].log[j].term > t
      PROVE  Holds(m, i, t)'
  <2>1. CASE node'[m].log = node[m].log
    <3>1. \E x \in DOMAIN node[m].log : node[m].log[x].term > t
      BY <1>3, <2>1
    <3>2. Holds(m, i, t)
      BY <3>1 DEF Frozen
    <3> QED
      BY <1>2, <3>2
  <2>2. ASSUME NEW n \in Nodes, Takes(n, m), node'[m].log = node[n].log
        PROVE  Holds(m, i, t)'
    <3>1. \E x \in DOMAIN node[n].log : node[n].log[x].term > t
      BY <1>3, <2>2
    <3>2. Holds(n, i, t)
      BY <3>1 DEF Frozen
    <3>3. node'[m].term = node[n].term
      BY <2>2 DEF Takes
    <3> QED
      BY <2>2, <3>2, <3>3 DEF Holds
  <2>3. ASSUME NEW command \in Commands, Propose(m, command)
        PROVE  Holds(m, i, t)'
    <3>1. CASE j \in DOMAIN node[m].log
      <4>1. node[m].log[j].term > t
        BY <1>3, <2>3, <3>1, ProposeKeeps
      <4>2. Holds(m, i, t)
        BY <3>1, <4>1 DEF Frozen
      <4> QED
        BY <1>2, <4>2
    <3>2. CASE j \notin DOMAIN node[m].log
      <4>1. node[m].role = "leader" /\ node'[m].log[j].term = node[m].term
        BY <1>3, <2>3, <3>2, ProposeKeeps
      <4>2. Holds(m, i, t)
        BY <1>3, <4>1 DEF Frozen
      <4> QED
        BY <1>2, <4>2
    <3> QED
      BY <3>1, <3>2
  <2> QED
    BY <1>1, <2>1, <2>2, <2>3 DEF DataStep, LogStep
<1>4. ASSUME NEW c \in Nodes, node'[c].term > t,
             node'[c].role = "leader"
               \/ (node'[c].role = "candidate" /\ node'[c].votes \intersect A # {}),
             ~Holds(c, i, t)'
      PROVE  Surpassed(t, A)'
  <2>0. ~Holds(c, i, t)
    BY <1>2, <1>4
  <2>1. CASE /\ node'[c].role = node[c].role /\ node'[c].term = node[c].term
             /\ node'[c].votes = node[c].votes
    <3>1. Holds(c, i, t)
      BY <1>4, <2>1 DEF Frozen
    <3> QED
      BY <2>0, <3>1
  <2>2. CASE node'[c].role = "candidate" /\ node'[c].votes = {c}
    <3>1. c \in A
      BY <1>4, <2>2
    <3>2. Holds(c, i, t)
      BY <3>1 DEF Frozen
    <3> QED
      BY <2>0, <3>2
  <2>3. ASSUME NEW p \in Nodes, Polls(c, p)
        PROVE  Surpassed(t, A)'
    <3>1. /\ node[c].role = "candidate" /\ node[c].term > t
          /\ node'[c].votes = node[c].votes \union {p}
          /\ UpToDate(node[p], [lastTerm |-> LastTerm(node[c]), lastIndex |-> Len(node[c].log)])
      BY <1>4, <2>3 DEF Polls
    <3>2. node[c].votes \intersect A = {}
      BY <2>0, <3>1 DEF Frozen
    <3>3. p \notin A
      <4> SUFFICES ASSUME p \in A PROVE FALSE
        OBVIOUS
      <4>1. node[c].term >= t
        BY <1>1, <3>1
      <4>2. Holds(c, i, t)
        BY <3>1, <4>1, VoteHolds
      <4> QED
        BY <2>0, <4>2
    <3>4. node'[c].votes \intersect A = {}
      BY <3>1, <3>2, <3>3
    <3>5. node'[c].role = "leader" /\ Cardinality(node'[c].votes) >= Majority
      BY <1>4, <2>3, <3>4 DEF Polls
    <3>6. \A q \in node'[c].votes : node'[q].term > t
      <4>1. node'[c].votes \in SUBSET Nodes
        BY <1>0 DEF TypeOK, NodeStates
      <4>2. \A q \in node'[c].votes :
              node'[q].term > node'[c].term \/ node'[q].term = node'[c].term
        BY <1>0, <3>5 DEF VoteInv, Running, Bound
      <4> QED
        BY <1>1, <1>4, <4>1, <4>2
    <3>7. node'[c].votes \in SUBSET Nodes
      BY <1>0 DEF TypeOK, NodeStates
    <3> QED
      BY <3>4, <3>5, <3>6, <3>7 DEF Surpassed
  <2> QED
    BY <1>1, <1>4, <2>1, <2>2, <2>3 DEF DataStep, RoleStep
<1>5. \A p \in A : Holds(p, i, t)'
  BY <1>2 DEF Frozen
<1> QED
  BY <1>3, <1>4, <1>5 DEF Frozen

-----------------------------------------------------------------------------
(* What a leader counts.                                                   *)

\* After a step: where a node was elected for a later term, a majority is past this
\* one.
LEMMA LaterTerm ==
  ASSUME RaftInv', NEW t \in Nat, NEW u \in 1 .. MaxTerm, u > t, elected'[u] # {},
         NEW A \in SUBSET Nodes, \A p \in A : node'[p].term <= t
  PROVE  Surpassed(t, A)'
<1>1. PICK e \in elected'[u] : TRUE
  OBVIOUS
<1>2. PICK Q \in SUBSET Nodes : Electors(Q, e, u)'
  BY <1>1 DEF RaftInv, ElectionInv
<1>3. \A q \in Nodes : node'[q].term \in Nat
  BY DEF RaftInv, TypeOK, NodeStates
<1>4. Cardinality(Q) >= Majority /\ \A q \in Q : node'[q].term > u \/ node'[q].term = u
  BY <1>2 DEF Electors, Bound
<1>5. \A q \in Q : node'[q].term > t
  BY <1>3, <1>4, RaftBoundsAssumption
<1>6. Q \intersect A = {}
  BY <1>3, <1>5
<1> QED
  BY <1>4, <1>5, <1>6 DEF Surpassed

\* After a step: a leader alone holds an entry of its term for good, or a majority
\* has left its term.
LEMMA FirstHolder ==
  ASSUME RaftInv', NEW n \in Nodes, node'[n].role = "leader", NEW i \in DOMAIN node'[n].log,
         NEW t, t = node'[n].term, node'[n].log[i].term = t
  PROVE  Surpassed(t, {n})' \/ Frozen(i, t, {n})'
<1> SUFFICES ASSUME ~Surpassed(t, {n})' PROVE Frozen(i, t, {n})'
  OBVIOUS
<1>1. t \in Nat /\ \A q \in Nodes : node'[q].term \in Nat
  BY DEF RaftInv, TypeOK, NodeStates
<1>2. VoteInv' /\ ElectionInv' /\ EntryInv'
  BY DEF RaftInv
<1>3. \A u \in 1 .. MaxTerm : u > t => elected'[u] = {}
  <2>1. \A p \in {n} : node'[p].term <= t
    BY <1>1
  <2> QED
    BY <1>1, <2>1, LaterTerm
<1>4. Holds(n, i, t)'
  BY <1>1 DEF Holds
<1>5. \A m \in Nodes : \A j \in DOMAIN node'[m].log : ~(node'[m].log[j].term > t)
  BY <1>2, <1>3 DEF EntryInv
<1>6. \A c \in Nodes : node'[c].term > t => node'[c].role # "leader"
  <2> SUFFICES ASSUME NEW c \in Nodes, node'[c].term > t, node'[c].role = "leader"
               PROVE  FALSE
    OBVIOUS
  <2>1. c \in elected'[node'[c].term]
    BY <1>2 DEF ElectionInv
  <2>2. node'[c].term \in 1 .. MaxTerm
    BY <1>1, <1>2, RaftBoundsAssumption DEF VoteInv, Running
  <2> QED
    BY <1>3, <2>1, <2>2
<1>7. \A c \in Nodes : node'[c].term > t /\ node'[c].role = "candidate"
        => node'[c].votes \intersect {n} = {}
  <2> SUFFICES ASSUME NEW c \in Nodes, node'[c].term > t, node'[c].role = "candidate",
                      n \in node'[c].votes
               PROVE  FALSE
    OBVIOUS
  <2>1. node'[n].term > node'[c].term \/ node'[n].term = node'[c].term
    BY <1>2 DEF VoteInv, Running, Bound
  <2> QED
    BY <1>1, <2>1
<1> QED
  BY <1>4, <1>5, <1>6, <1>7 DEF Frozen

\* After a step: one more node in the leader's term that holds the entry freezes it
\* no less.
LEMMA OneMoreHolder ==
  ASSUME RaftInv', NEW t \in Nat, NEW i, NEW A \in SUBSET Nodes, Frozen(i, t, A)',
         NEW p \in Nodes, Holds(p, i, t)', node'[p].term = t,
         NEW B \in SUBSET (A \union {p})
  PROVE  Frozen(i, t, B)'
<1>1. (\A q \in Nodes : node'[q].term \in Nat) /\ VoteInv'
  BY DEF RaftInv, TypeOK, NodeStates
<1>2. \A q \in B : Holds(q, i, t)'
  BY DEF Frozen
<1>3. ASSUME NEW c \in Nodes, node'[c].term > t,
             node'[c].role = "leader"
               \/ (node'[c].role = "candidate" /\ node'[c].votes \intersect B # {})
      PROVE  Holds(c, i, t)'
  <2>1. CASE node'[c].role = "leader"
    BY <1>3, <2>1 DEF Frozen
  <2>2. CASE node'[c].role = "candidate" /\ node'[c].votes \intersect B # {}
    <3>1. p \notin node'[c].votes
      <4> SUFFICES ASSUME p \in node'[c].votes PROVE FALSE
        OBVIOUS
      <4>1. node'[p].term > node'[c].term \/ node'[p].term = node'[c].term
        BY <1>1, <2>2 DEF VoteInv, Running, Bound
      <4> QED
        BY <1>1, <1>3, <4>1
    <3>2. node'[c].votes \intersect A # {}
      BY <2>2, <3>1
    <3> QED
      BY <1>3, <2>2, <3>2 DEF Frozen
  <2> QED
    BY <1>3, <2>1, <2>2
<1>4. \A m \in Nodes : (\E j \in DOMAIN node'[m].log : node'[m].log[j].term > t)
                         => Holds(m, i, t)'
  BY DEF Frozen
<1> QED
  BY <1>2, <1>3, <1>4 DEF Frozen

\* A leader's log only grows, by entries of its term, one at its end.
LEMMA LeaderLog ==
  ASSUME RaftInv, RaftInv', NEW n \in Nodes, DataStep(n), node'[n].role = "leader"
  PROVE  /\ \A i \in DOMAIN node[n].log :
              i \in DOMAIN node'[n].log /\ node'[n].log[i] = node[n].log[i]
         /\ \A i \in DOMAIN node'[n].log :
              i \in DOMAIN node[n].log \/ i = Len(node[n].log) + 1
         /\ Len(node[n].log) \in Nat /\ Len(node'[n].log) \in Nat
         /\ Len(node[n].log) <= Len(node'[n].log)
<1>1. /\ Len(node[n].log) \in Nat /\ DOMAIN node[n].log = 1 .. Len(node[n].log)
      /\ Len(node'[n].log) \in Nat /\ DOMAIN node'[n].log = 1 .. Len(node'[n].log)
  <2>1. node'[n].log \in Seq(Entries)
    BY DEF RaftInv, TypeOK, NodeStates
  <2> QED
    BY <2>1, LogTerms
<1>2. node'[n].log = node[n].log \/ \E command \in Commands : Propose(n, command)
  BY DEF DataStep, LogStep, Takes
<1>3. /\ \A i \in DOMAIN node[n].log :
           i \in DOMAIN node'[n].log /\ node'[n].log[i] = node[n].log[i]
      /\ \A i \in DOMAIN node'[n].log :
           i \in DOMAIN node[n].log \/ i = Len(node[n].log) + 1
  BY <1>2, ProposeKeeps
<1>4. Len(node[n].log) <= Len(node'[n].log)
  <2>1. CASE Len(node[n].log) = 0
    BY <1>1, <2>1
  <2>2. CASE Len(node[n].log) # 0
    <3>1. Len(node[n].log) \in DOMAIN node[n].log
      BY <1>1, <2>2
    <3>2. Len(node[n].log) \in 1 .. Len(node'[n].log)
      BY <1>1, <1>3, <3>1
    <3> QED
      BY <1>1, <3>2
  <2> QED
    BY <2>1, <2>2
<1> QED
  BY <1>1, <1>3, <1>4

\* Whom a leader counts for i is what it counted, and perhaps one peer more, in its
\* term, that now has the leader's log.
LEMMA AckersMove ==
  ASSUME RaftInv, RaftInv', ~overclaimed', NEW n \in Nodes, DataStep(n),
         node[n].role = "leader", node'[n].role = "leader",
         \A p \in Nodes : node[n].match[p] <= Len(node[n].log), NEW i
  PROVE  /\ node'[n].term = node[n].term
         /\ \A p \in Nodes : node'[n].match[p] <= Len(node'[n].log)
         /\ \/ node'[n].match = node[n].match /\ Ackers(n, i)' = Ackers(n, i)
            \/ \E p \in Nodes : /\ Ackers(n, i)' \subseteq Ackers(n, i) \union {p}
                                /\ node'[p].log = node[n].log
                                /\ node'[p].term = node[n].term
                                /\ node[p].term <= node[n].term
<1>1. /\ node[n].match \in [Nodes -> Nat] /\ node'[n].match \in [Nodes -> Nat]
      /\ node[n].term \in Nat
  BY DEF RaftInv, TypeOK, NodeStates
<1>2. /\ Len(node[n].log) \in Nat /\ Len(node'[n].log) \in Nat
      /\ Len(node[n].log) <= Len(node'[n].log)
  BY LeaderLog
<1>3. node[n].term \in 1 .. MaxTerm /\ elected[node[n].term] # {}
  <2>1. n \in elected[node[n].term]
    BY DEF RaftInv, ElectionInv
  <2> QED
    BY <1>1, <2>1, RaftBoundsAssumption DEF RaftInv, VoteInv, Running
<1>4. CASE node'[n].term = node[n].term /\ node'[n].match = node[n].match
  <2>1. \A p \in Nodes : node'[n].match[p] <= Len(node'[n].log)
    BY <1>1, <1>2, <1>4
  <2> QED
    BY <1>4, <2>1 DEF Ackers
<1>5. ASSUME NEW p \in Nodes \ {n}, node'[n].term = node[n].term, TakesAll(n, p)
      PROVE  /\ \A q \in Nodes : node'[n].match[q] <= Len(node'[n].log)
             /\ Ackers(n, i)' \subseteq Ackers(n, i) \union {p}
             /\ node'[p].log = node[n].log /\ node'[p].term = node[n].term
             /\ node[p].term <= node[n].term
  <2>1. /\ node'[p].log = node[n].log /\ node'[p].term = node[n].term
        /\ node[p].term <= node[n].term
        /\ node'[n].match = [node[n].match EXCEPT ![p] = Len(node'[p].log)]
    BY <1>5 DEF TakesAll, Takes
  <2>2. node'[n].match[p] = Len(node[n].log)
    BY <1>1, <2>1
  <2>3. \A q \in Nodes \ {p} : node'[n].match[q] = node[n].match[q]
    BY <1>1, <2>1
  <2>4. \A q \in Nodes : node'[n].match[q] <= Len(node'[n].log)
    BY <1>1, <1>2, <2>2, <2>3
  <2>5. Ackers(n, i)' \subseteq Ackers(n, i) \union {p}
    BY <2>3 DEF Ackers
  <2> QED
    BY <2>1, <2>4, <2>5
<1>6. \/ /\ node'[n].term = node[n].term
         /\ \/ node'[n].match = node[n].match
            \/ \E p \in Nodes \ {n} : TakesAll(n, p)
      \/ elected[node[n].term] = {}
  BY DEF DataStep, AckStep
<1> QED
  BY <1>3, <1>4, <1>5, <1>6

LEMMA LeadStep ==
  ASSUME RaftInv, RaftInv', OrderInv, [Next]_vars, ~overclaimed', LeadInv
  PROVE  LeadInv'
<1>0. TypeOK /\ TypeOK' /\ EntryInv
  BY DEF RaftInv
<1>1. \A q \in Nodes : /\ DataStep(q) /\ node'[q].term >= node[q].term
                       /\ node[q].term \in Nat /\ node'[q].term \in Nat
  BY <1>0, StepData, Terms DEF TypeOK, NodeStates
<1> SUFFICES ASSUME NEW n \in Nodes, node'[n].role = "leader"
             PROVE  /\ \A p \in Nodes : node'[n].match[p] <= Len(node'[n].log)
                    /\ \A i \in DOMAIN node'[n].log :
                         node'[n].log[i].term = node'[n].term
                           => (\/ Surpassed(node[n].term, Ackers(n, i))
                               \/ Frozen(i, node[n].term, Ackers(n, i)))'
  BY DEF LeadInv
<1>2. CASE node[n].role = "leader"
  <2>1. /\ \A p \in Nodes : node[n].match[p] <= Len(node[n].log)
        /\ \A i \in DOMAIN node[n].log :
             node[n].log[i].term = node[n].term
               => \/ Surpassed(node[n].term, Ackers(n, i))
                  \/ Frozen(i, node[n].term, Ackers(n, i))
    BY <1>2 DEF LeadInv
  <2>2. /\ \A i \in DOMAIN node[n].log :
             i \in DOMAIN node'[n].log /\ node'[n].log[i] = node[n].log[i]
        /\ \A i \in DOMAIN node'[n].log :
             i \in DOMAIN node[n].log \/ i = Len(node[n].log) + 1
        /\ Len(node[n].log) \in Nat
    BY <1>1, LeaderLog
  <2>3. node'[n].term = node[n].term
        /\ \A p \in Nodes : node'[n].match[p] <= Len(node'[n].log)
    BY <1>1, <1>2, <2>1, AckersMove
  <2>4. PICK t \in Nat : t = node[n].term
    BY <1>1
  <2>5. ASSUME NEW i \in DOMAIN node'[n].log, node'[n].log[i].term = node'[n].term
        PROVE  (\/ Surpassed(node[n].term, Ackers(n, i))
                \/ Frozen(i, node[n].term, Ackers(n, i)))'
    <3>1. PICK A \in SUBSET Nodes, B \in SUBSET Nodes :
            A = Ackers(n, i) /\ B = Ackers(n, i)'
      BY DEF Ackers
    <3>2. Surpassed(t, B)' \/ Frozen(i, t, B)'
      <4>1. CASE i \in DOMAIN node[n].log
        <5>1. node[n].log[i].term = t
          BY <2>2, <2>3, <2>4, <2>5, <4>1
        <5>2. Surpassed(t, A) \/ Frozen(i, t, A)
          BY <2>1, <2>4, <3>1, <4>1, <5>1
        <5>3. \/ B = A
              \/ \E p \in Nodes : /\ B \subseteq A \union {p} /\ node'[p].log = node[n].log
                                  /\ node'[p].term = t /\ node[p].term <= t
          BY <1>1, <1>2, <2>1, <2>4, <3>1, AckersMove
        <5>4. CASE Surpassed(t, A)
          <6>1. PICK V \in SUBSET Nodes :
                  /\ Cardinality(V) >= Majority /\ V \intersect A = {}
                  /\ \A q \in V : node[q].term > t
            BY <5>4 DEF Surpassed
          <6>2. \A q \in V : node'[q].term > t
            BY <1>1, <6>1
          <6>3. V \intersect B = {}
            BY <1>1, <5>3, <6>1
          <6> QED
            BY <6>1, <6>2, <6>3 DEF Surpassed
        <5>5. CASE Frozen(i, t, A)
          <6>1. Frozen(i, t, A)' \/ Surpassed(t, A)'
            BY <5>5, FrozenKept
          <6>2. CASE Surpassed(t, A)'
            <7>1. PICK V \in SUBSET Nodes :
                    /\ Cardinality(V) >= Majority /\ V \intersect A = {}
                    /\ \A q \in V : node'[q].term > t
              BY <6>2 DEF Surpassed
            <7>2. V \intersect B = {}
              BY <1>1, <5>3, <7>1
            <7> QED
              BY <7>1, <7>2 DEF Surpassed
          <6>3. CASE Frozen(i, t, A)'
            <7>1. CASE B = A
              BY <6>3, <7>1
            <7>2. ASSUME NEW p \in Nodes, B \subseteq A \union {p},
                         node'[p].log = node[n].log, node'[p].term = t
                  PROVE  Frozen(i, t, B)'
              <8>1. Holds(p, i, t)'
                BY <4>1, <5>1, <7>2 DEF Holds
              <8> QED
                BY <6>3, <7>2, <8>1, OneMoreHolder
            <7> QED
              BY <5>3, <7>1, <7>2
          <6> QED
            BY <6>1, <6>2, <6>3
        <5> QED
          BY <5>2, <5>4, <5>5
      <4>2. CASE i \notin DOMAIN node[n].log
        <5>1. i = Len(node[n].log) + 1
          BY <2>2, <4>2
        <5>2. \E command \in Commands : Propose(n, command)
          BY <1>1, <2>5, <4>2 DEF DataStep, LogStep, Takes
        <5>3. node'[n].match = node[n].match
          BY <1>0, <5>2, ProposeStep DEF SameData
        <5>4. \A p \in Nodes : ~(node[n].match[p] >= i)
          <6>1. node[n].match \in [Nodes -> Nat]
            BY <1>0 DEF TypeOK, NodeStates
          <6> QED
            BY <2>1, <2>2, <5>1, <6>1
        <5>5. B = {n}
          BY <3>1, <5>3, <5>4 DEF Ackers
        <5>6. t = node'[n].term /\ node'[n].log[i].term = t
          BY <2>3, <2>4, <2>5
        <5> QED
          BY <2>5, <5>5, <5>6, FirstHolder
      <4> QED
        BY <4>1, <4>2
    <3>3. t = node'[n].term
      BY <2>3, <2>4
    <3> QED
      BY <3>1, <3>2, <3>3 DEF Surpassed, Frozen, Holds
  <2> QED
    BY <2>3, <2>5
<1>3. CASE node[n].role # "leader"
  <2>1. /\ node'[n].match = [y \in Nodes |-> 0] /\ node'[n].log = node[n].log
        /\ node'[n].term = node[n].term /\ elected[node[n].term] = {}
    BY <1>1, <1>3 DEF DataStep, AckStep
  <2>2. \A p \in Nodes : node'[n].match[p] <= Len(node'[n].log)
    BY <1>0, <2>1, LogTypes
  <2>3. \A i \in DOMAIN node'[n].log : node'[n].log[i].term # node'[n].term
    BY <1>0, <2>1 DEF EntryInv
  <2> QED
    BY <2>2, <2>3
<1> QED
  BY <1>2, <1>3

-----------------------------------------------------------------------------
(* What is committed.                                                      *)

\* What a majority holds for good, it holds for good after any step.
LEMMA MajorityFrozen ==
  ASSUME RaftInv, RaftInv', OrderInv, [Next]_vars,
         NEW t \in Nat, NEW i, NEW A \in SUBSET Nodes, Cardinality(A) >= Majority,
         Frozen(i, t, A)
  PROVE  Frozen(i, t, A)'
<1>1. CASE Surpassed(t, A)'
  <2>1. PICK V \in SUBSET Nodes : Cardinality(V) >= Majority /\ V \intersect A = {}
    BY <1>1 DEF Surpassed
  <2> QED
    BY <2>1, MajoritiesMeet
<1> QED
  BY <1>1, FrozenKept

\* A quorum of match_index is a majority of acknowledgements.
LEMMA QuorumAcks ==
  ASSUME NEW n \in Nodes, NEW i, HasQuorum(n, i), node[n].match \in [Nodes -> Nat]
  PROVE  /\ node[n].log[i].term = node[n].term
         /\ Cardinality(Ackers(n, i)) >= Majority
<1> DEFINE S == {p \in Nodes \ {n} : node[n].match[p] >= i}
<1>1. node[n].log[i].term = node[n].term /\ 1 + Cardinality(S) >= Majority
  BY DEF HasQuorum
<1>2. IsFiniteSet(S) /\ n \notin S
  <2>1. S \in SUBSET Nodes
    OBVIOUS
  <2> QED
    BY <2>1, NodesAssumption, FS_Subset
<1>3. Ackers(n, i) = S \union {n}
  BY DEF Ackers
<1> HIDE DEF S
<1>4. Cardinality(S \union {n}) = Cardinality(S) + 1 /\ Cardinality(S) \in Nat
  BY <1>2, FS_AddElement, FS_CardinalityType
<1> QED
  BY <1>1, <1>3, <1>4

\* A node whose commit index is covered has the entries up to it in common with
\* whoever holds the covering one.
LEMMA SameUpTo ==
  ASSUME RaftInv, NEW p \in Nodes, NEW q \in Nodes, NEW i, NEW t,
         i \in DOMAIN node[p].log, node[p].log[i].term = t,
         i \in DOMAIN node[q].log, node[q].log[i].term = t
  PROVE  \A j \in 1 .. i : node[p].log[j] = node[q].log[j]
<1>1. SubSeq(node[p].log, 1, i) = SubSeq(node[q].log, 1, i)
  <2>1. LogMatching /\ i \in DOMAIN node[p].log \intersect DOMAIN node[q].log
    BY DEF RaftInv
  <2>2. node[p].log[i].term = node[q].log[i].term
    OBVIOUS
  <2> QED
    BY <2>1, <2>2 DEF LogMatching
<1>2. /\ node[p].log \in Seq(Entries) /\ node[q].log \in Seq(Entries)
      /\ i \in Nat /\ i <= Len(node[p].log) /\ i <= Len(node[q].log)
  <2>1. node[p].log \in Seq(Entries) /\ node[q].log \in Seq(Entries)
    BY LogTypes DEF RaftInv
  <2> QED
    BY <2>1, LogTerms
<1> QED
  BY <1>1, <1>2, SamePrefix

\* The covering entry stays at a node, and the entries before it with it.
LEMMA CoverStays ==
  ASSUME RaftInv, RaftInv', [Next]_vars,
         NEW t \in Nat, NEW i, NEW A \in SUBSET Nodes, Frozen(i, t, A),
         NEW m \in Nodes, Holds(m, i, t)
  PROVE  /\ Holds(m, i, t)'
         /\ \A j \in 1 .. i : node'[m].log[j] = node[m].log[j]
<1>1. TypeOK' /\ DataStep(m)
  BY StepData DEF RaftInv
<1>2. Holds(m, i, t)'
  BY <1>1, HoldsKept
<1>3. /\ i \in DOMAIN node[m].log /\ node[m].log[i].term = t
      /\ i \in DOMAIN node'[m].log /\ node'[m].log[i].term = t
  BY <1>2 DEF Holds
<1>4. ASSUME NEW n \in Nodes, node'[m].log = node[n].log
      PROVE  \A j \in 1 .. i : node'[m].log[j] = node[m].log[j]
  BY <1>3, <1>4, SameUpTo
<1>5. ASSUME NEW command \in Commands, Propose(m, command)
      PROVE  \A j \in 1 .. i : node'[m].log[j] = node[m].log[j]
  <2>1. \A j \in 1 .. i : j \in DOMAIN node[m].log
    BY <1>3, LogTerms
  <2> QED
    BY <1>5, <2>1, ProposeKeeps
<1> QED
  BY <1>1, <1>2, <1>4, <1>5 DEF DataStep, LogStep

\* A cover after a step makes the commit index it covers a committed one.
LEMMA CommittedAfter ==
  ASSUME NEW m \in Nodes, NEW t \in 1 .. MaxTerm, NEW i, NEW A \in SUBSET Nodes,
         Cardinality(A) >= Majority, Frozen(i, t, A)', Holds(m, i, t)',
         node'[m].commit <= i
  PROVE  Committed(m)'
<1>1. i \in DOMAIN node'[m].log
  BY DEF Holds
<1> QED
  BY <1>1 DEF Committed

\* A log's prefix, extended with what follows it in the log, is a longer prefix.
LEMMA Extends ==
  ASSUME NEW log \in Seq(Entries), NEW a \in Seq(Entries), NEW k \in Nat,
         Len(a) <= k, k <= Len(log), \A j \in 1 .. Len(a) : a[j] = log[j]
  PROVE  LET b == a \o SubSeq(log, Len(a) + 1, k)
         IN  Len(b) = k /\ \A j \in DOMAIN b : b[j] = log[j]
<1> DEFINE c == SubSeq(log, Len(a) + 1, k)
           b == a \o c
<1>1. Len(a) \in Nat /\ Len(log) \in Nat /\ Len(a) + 1 \in Nat \ {0}
  OBVIOUS
<1>2. /\ c \in Seq(Entries)
      /\ Len(c) = IF Len(a) + 1 <= k THEN k - (Len(a) + 1) + 1 ELSE 0
      /\ \A x \in 1 .. k - (Len(a) + 1) + 1 : c[x] = log[Len(a) + 1 + x - 1]
  BY <1>1, SubSeqIs
<1> HIDE DEF c
<1>3. Len(c) = k - Len(a)
  BY <1>1, <1>2
<1>4. /\ b \in Seq(Entries) /\ Len(b) = Len(a) + Len(c)
      /\ \A x \in 1 .. Len(a) + Len(c) :
           b[x] = IF x <= Len(a) THEN a[x] ELSE c[x - Len(a)]
  BY <1>2, ConcatProperties
<1> HIDE DEF b
<1>5. Len(b) = k
  BY <1>1, <1>3, <1>4
<1>6. ASSUME NEW j \in 1 .. k PROVE b[j] = log[j]
  <2>1. j \in 1 .. Len(a) + Len(c) /\ j \in Nat
    BY <1>1, <1>3
  <2>2. CASE j <= Len(a)
    <3>1. j \in 1 .. Len(a)
      BY <1>1, <2>1, <2>2
    <3> QED
      BY <1>4, <2>1, <2>2, <3>1
  <2>3. CASE ~(j <= Len(a))
    <3>1. /\ j - Len(a) \in 1 .. k - (Len(a) + 1) + 1
          /\ Len(a) + 1 + (j - Len(a)) - 1 = j
      BY <1>1, <2>1, <2>3
    <3>2. c[j - Len(a)] = log[Len(a) + 1 + (j - Len(a)) - 1]
      BY <1>2, <3>1
    <3> QED
      BY <1>4, <2>1, <2>3, <3>1, <3>2
  <2> QED
    BY <2>2, <2>3
<1>7. DOMAIN b = 1 .. k
  BY <1>4, <1>5
<1> QED
  BY <1>5, <1>6, <1>7 DEF b, c

LEMMA CommittedStep ==
  ASSUME RaftInv, RaftInv', OrderInv, [Next]_vars, ~overclaimed', LeadInv, CommitInv
  PROVE  CommitInv'
<1>0. TypeOK /\ TypeOK'
  BY DEF RaftInv
<1>1. \A q \in Nodes : /\ DataStep(q) /\ node'[q].term >= node[q].term
                       /\ node[q].term \in Nat /\ node'[q].term \in Nat
                       /\ node[q].commit \in Nat /\ node'[q].commit \in Nat
                       /\ node[q].log \in Seq(Entries) /\ node'[q].log \in Seq(Entries)
                       /\ node[q].applied \in Seq(Entries)
                       /\ node'[q].applied \in Seq(Entries)
                       /\ node[q].match \in [Nodes -> Nat]
  BY <1>0, StepData DEF TypeOK, NodeStates
<1> SUFFICES ASSUME NEW m \in Nodes
             PROVE  /\ node'[m].commit = 0 \/ Committed(m)'
                    /\ Len(node'[m].applied) <= node'[m].commit
                    /\ Len(node'[m].applied) <= Len(node'[m].log)
                    /\ \A j \in DOMAIN node'[m].applied :
                         node'[m].applied[j] = node'[m].log[j]
  BY DEF CommitInv
<1> DEFINE a == node[m].applied
           log == node'[m].log
           k == node'[m].commit
<1>2. /\ node[m].commit = 0 \/ Committed(m)
      /\ Len(a) <= node[m].commit /\ Len(a) <= Len(node[m].log)
      /\ \A j \in DOMAIN a : a[j] = node[m].log[j]
      /\ Len(a) \in Nat /\ DOMAIN a = 1 .. Len(a)
      /\ Len(log) \in Nat /\ Len(node[m].log) \in Nat /\ k \in Nat
  BY <1>1 DEF CommitInv
<1>3. ASSUME Committed(m)
      PROVE  /\ k <= node[m].commit => Committed(m)'
             /\ Len(a) <= Len(log) /\ \A j \in 1 .. Len(a) : a[j] = log[j]
  <2>1. PICK t \in 1 .. MaxTerm, i \in DOMAIN node[m].log, A \in SUBSET Nodes :
          /\ Cardinality(A) >= Majority /\ Frozen(i, t, A)
          /\ Holds(m, i, t) /\ node[m].commit <= i
    BY <1>3 DEF Committed
  <2>2. i \in Nat /\ t \in Nat
    BY LogTerms, RaftBoundsAssumption
  <2>3. /\ Frozen(i, t, A)' /\ Holds(m, i, t)'
        /\ \A j \in 1 .. i : node'[m].log[j] = node[m].log[j]
    BY <2>1, <2>2, MajorityFrozen, CoverStays
  <2>4. ASSUME k <= node[m].commit PROVE Committed(m)'
    <3>1. node'[m].commit <= i
      BY <1>1, <2>1, <2>2, <2>4
    <3> QED
      BY <2>1, <2>3, <3>1, CommittedAfter
  <2>5. Len(a) <= i
    BY <1>1, <1>2, <2>1, <2>2
  <2>6. i <= Len(log)
    <3>1. i \in DOMAIN log
      BY <2>3 DEF Holds
    <3> QED
      BY <1>1, <1>2, <2>2, <3>1
  <2>7. \A j \in 1 .. Len(a) : j \in 1 .. i
    BY <1>2, <2>2, <2>5
  <2>8. Len(a) <= Len(log)
    BY <1>2, <2>2, <2>5, <2>6
  <2>9. \A j \in 1 .. Len(a) : a[j] = log[j]
    BY <1>2, <2>3, <2>7
  <2> QED
    BY <2>4, <2>8, <2>9
<1>4. Len(a) <= Len(log) /\ \A j \in 1 .. Len(a) : a[j] = log[j]
  <2>1. CASE node[m].commit = 0
    BY <1>2, <2>1
  <2> QED
    BY <1>2, <1>3, <2>1
<1>5. k <= node[m].commit => k = 0 \/ Committed(m)'
  BY <1>1, <1>2, <1>3
<1>6. CASE SameApplied(m)
  <2>1. k = node[m].commit /\ node'[m].applied = a
    BY <1>6 DEF SameApplied
  <2>2. k <= node[m].commit
    BY <1>2, <2>1
  <2>3. k = 0 \/ Committed(m)'
    BY <1>5, <2>2
  <2> QED
    BY <1>2, <1>4, <2>1, <2>3
<1>7. CASE k = 0 /\ node'[m].applied = << >>
  BY <1>2, <1>7
<1>8. ASSUME NEW n \in Nodes, TakesAll(n, m), Catches(node[m], node'[m], node[n].commit)
      PROVE  /\ Committed(m)' /\ Len(node'[m].applied) = k /\ k <= Len(log)
             /\ \A j \in DOMAIN node'[m].applied : node'[m].applied[j] = log[j]
  <2>1. /\ node[n].commit > node[m].commit /\ log = node[n].log
        /\ k = (IF node[n].commit < Len(log) THEN node[n].commit ELSE Len(log))
        /\ node'[m].applied = a \o SubSeq(log, Len(a) + 1, k)
        /\ node'[m].term = node[n].term
    BY <1>8 DEF TakesAll, Takes, Catches
  <2>2. Committed(n)
    <3>1. node[n].commit # 0
      BY <1>1, <2>1
    <3> QED
      BY <3>1 DEF CommitInv
  <2>3. PICK t \in 1 .. MaxTerm, i \in DOMAIN node[n].log, A \in SUBSET Nodes :
          /\ Cardinality(A) >= Majority /\ Frozen(i, t, A)
          /\ Holds(n, i, t) /\ node[n].commit <= i
    BY <2>2 DEF Committed
  <2>4. i \in Nat /\ t \in Nat
    BY LogTerms, RaftBoundsAssumption
  <2>5. Frozen(i, t, A)'
    BY <2>3, <2>4, MajorityFrozen
  <2>6. Holds(m, i, t)'
    BY <2>1, <2>3 DEF Holds
  <2>7. k <= node[n].commit /\ k <= Len(log) /\ Len(a) <= k
    <3>1. /\ node[n].commit \in Nat /\ node[m].commit \in Nat
          /\ Len(log) \in Nat /\ Len(a) \in Nat
      BY <1>1, <1>2
    <3>2. Len(a) <= Len(log) /\ Len(a) <= node[m].commit
      BY <1>2, <1>4
    <3> HIDE DEF a, log, k
    <3> QED
      BY <2>1, <3>1, <3>2
  <2>8. node'[m].commit <= i
    BY <1>1, <2>3, <2>4, <2>7
  <2>9. Committed(m)'
    BY <2>3, <2>5, <2>6, <2>8, CommittedAfter
  <2>10. a \in Seq(Entries) /\ log \in Seq(Entries) /\ k \in Nat
    BY <1>1
  <2> HIDE DEF a, log, k
  <2>11. /\ Len(node'[m].applied) = k
         /\ \A j \in DOMAIN node'[m].applied : node'[m].applied[j] = log[j]
    <3> DEFINE b == a \o SubSeq(log, Len(a) + 1, k)
    <3>1. Len(b) = k /\ \A j \in DOMAIN b : b[j] = log[j]
      BY <1>4, <2>7, <2>10, Extends
    <3>2. node'[m].applied = b
      BY <2>1
    <3> HIDE DEF b
    <3> QED
      BY <3>1, <3>2
  <2> QED
    BY <2>7, <2>9, <2>11
<1>9. ASSUME node'[m] = Apply(node[m])
      PROVE  /\ k = node[m].commit /\ Len(node'[m].applied) <= k
             /\ Len(node'[m].applied) <= Len(log)
             /\ \A j \in DOMAIN node'[m].applied : node'[m].applied[j] = log[j]
  <2> DEFINE upTo == IF node[m].commit < Len(node[m].log) THEN node[m].commit
                     ELSE Len(node[m].log)
  <2>1. /\ k = node[m].commit /\ log = node[m].log
        /\ node'[m].applied = a \o SubSeq(node[m].log, Len(a) + 1, upTo)
    <3>1. node[m] \in NodeStates
      BY <1>0 DEF TypeOK
    <3> DEFINE s == node[m]
    <3>2. Apply(s).commit = s.commit /\ Apply(s).log = s.log
          /\ Apply(s).applied = s.applied \o SubSeq(s.log, Len(s.applied) + 1,
               IF s.commit < Len(s.log) THEN s.commit ELSE Len(s.log))
      <4> HIDE DEF s, upTo, a, k, log
      <4> QED
        BY <3>1, ApplyFacts DEF s
    <3> QED
      BY <1>9, <3>2
  <2>2. upTo \in Nat /\ upTo <= k /\ upTo <= Len(log) /\ Len(a) <= upTo
    BY <1>1, <1>2, <2>1
  <2>3. a \in Seq(Entries) /\ log \in Seq(Entries)
    BY <1>1
  <2> HIDE DEF a, log, k, upTo
  <2>4. /\ Len(node'[m].applied) = upTo
        /\ \A j \in DOMAIN node'[m].applied : node'[m].applied[j] = log[j]
    <3> DEFINE b == a \o SubSeq(log, Len(a) + 1, upTo)
    <3>1. Len(b) = upTo /\ \A j \in DOMAIN b : b[j] = log[j]
      BY <1>4, <2>2, <2>3, Extends
    <3>2. node'[m].applied = b
      BY <2>1
    <3> HIDE DEF b
    <3> QED
      BY <3>1, <3>2
  <2> QED
    BY <2>1, <2>2, <2>4
<1>10. ASSUME node'[m].applied = a, log = node[m].log, node[m].role = "leader",
              k \in DOMAIN node[m].log, HasQuorum(m, k), k > node[m].commit
       PROVE  Committed(m)' /\ Len(a) <= k
  <2>1. PICK i : i = k
    OBVIOUS
  <2>2. PICK t \in Nat, A \in SUBSET Nodes : t = node[m].term /\ A = Ackers(m, i)
    BY <1>1 DEF Ackers
  <2>3. node[m].log[i].term = t /\ Cardinality(A) >= Majority
    BY <1>1, <1>10, <2>1, <2>2, QuorumAcks
  <2>4. i \in DOMAIN node[m].log /\ t \in 1 .. MaxTerm
    BY <1>10, <2>1, <2>3, LogTerms
  <2>5. Surpassed(t, A) \/ Frozen(i, t, A)
    BY <1>10, <2>2, <2>3, <2>4 DEF LeadInv
  <2>6. ~Surpassed(t, A)
    BY <2>3, MajoritiesMeet DEF Surpassed
  <2>7. Holds(m, i, t)
    BY <1>1, <2>2, <2>3, <2>4 DEF Holds
  <2>8. Frozen(i, t, A)' /\ Holds(m, i, t)'
    BY <2>3, <2>5, <2>6, <2>7, MajorityFrozen, CoverStays
  <2>9. node'[m].commit <= i
    BY <1>1, <2>1
  <2>10. Committed(m)'
    BY <2>3, <2>4, <2>8, <2>9, CommittedAfter
  <2> QED
    BY <1>1, <1>2, <1>10, <2>10
<1>11. CommitStep(m)
  BY <1>1 DEF DataStep
<1>12. CASE node'[m] = Apply(node[m])
  BY <1>1, <1>5, <1>9, <1>12
<1>13. CASE /\ node'[m].applied = a /\ log = node[m].log /\ node[m].role = "leader"
            /\ k \in DOMAIN node[m].log /\ HasQuorum(m, k) /\ k > node[m].commit
  BY <1>2, <1>4, <1>10, <1>13
<1>14. CASE \E n \in Nodes \ {m} :
              TakesAll(n, m) /\ Catches(node[m], node'[m], node[n].commit)
  BY <1>2, <1>8, <1>14
<1> QED
  BY <1>6, <1>7, <1>11, <1>12, <1>13, <1>14 DEF CommitStep

-----------------------------------------------------------------------------
(* The theorems.                                                           *)

\* A report of more than the leader has is remembered.
LEMMA Remembered ==
  ASSUME TypeOK, [Next]_vars, overclaimed
  PROVE  overclaimed'
<1>1. CASE overclaimed' = overclaimed
  BY <1>1
<1>2. ASSUME NEW n \in Nodes, NEW p \in Peers(n), Replicate(n, p)
      PROVE  overclaimed'
  BY <1>2 DEF Replicate
<1>3. CASE UNCHANGED vars
  BY <1>3 DEF vars
<1>4. CASE Next
  <2>1. PICK n \in Nodes :
          \/ Timeout(n) \/ Heartbeat(n) \/ Restart(n)
          \/ AdvanceCommit(n) \/ FinishBroadcast(n) \/ FinishElection(n)
          \/ \E command \in Commands : Propose(n, command)
          \/ \E p \in Peers(n) :
               \/ RequestVote(n, p) \/ VoteLost(n, p)
               \/ Replicate(n, p) \/ ReplicateSkipped(n, p) \/ ReplicateRaises(n, p)
    BY <1>4 DEF Next
  <2>2. CASE \/ Timeout(n) \/ Heartbeat(n) \/ Restart(n)
             \/ AdvanceCommit(n) \/ FinishBroadcast(n) \/ FinishElection(n)
    BY <1>1, <2>2
    DEF Timeout, Heartbeat, Restart, AdvanceCommit, FinishBroadcast, FinishElection
  <2>3. CASE \E command \in Commands : Propose(n, command)
    BY <1>1, <2>3 DEF Propose
  <2>4. CASE \E p \in Peers(n) :
               \/ RequestVote(n, p) \/ VoteLost(n, p)
               \/ ReplicateSkipped(n, p) \/ ReplicateRaises(n, p)
    BY <1>1, <2>4 DEF RequestVote, VoteLost, ReplicateSkipped, ReplicateRaises
  <2> QED
    BY <1>2, <2>1, <2>2, <2>3, <2>4
<1> QED
  BY <1>3, <1>4

LEMMA HeldInit == Init => OrderInv /\ HeldInv
<1> SUFFICES ASSUME Init PROVE OrderInv /\ HeldInv
  OBVIOUS
<1>1. OrderInv
  BY OrderInit
<1>2. \A n \in Nodes : /\ node[n].role = "follower" /\ node[n].commit = 0
                       /\ node[n].applied = << >> /\ node[n].log = << >>
  BY DEF Init, Loaded
<1>3. LeadInv /\ CommitInv
  BY <1>2 DEF LeadInv, CommitInv
<1> QED
  BY <1>1, <1>3 DEF HeldInv

LEMMA HeldStep == RaftInv /\ OrderInv /\ HeldInv /\ [Next]_vars => OrderInv' /\ HeldInv'
<1> SUFFICES ASSUME RaftInv, OrderInv, HeldInv, [Next]_vars PROVE OrderInv' /\ HeldInv'
  OBVIOUS
<1>1. RaftInv'
  BY RaftStep
<1>2. OrderInv'
  BY <1>1, OrderStep DEF RaftInv
<1>3. ASSUME ~overclaimed' PROVE LeadInv' /\ CommitInv'
  <2>1. ~overclaimed
    BY <1>3, Remembered DEF RaftInv
  <2>2. LeadInv /\ CommitInv
    BY <2>1 DEF HeldInv
  <2> QED
    BY <1>1, <1>3, <2>2, LeadStep, CommittedStep
<1> QED
  BY <1>2, <1>3 DEF HeldInv

\* What leaders count and nodes commit is held for good by a majority, until a
\* follower reports more than its leader has.
THEOREM HeldInvariant == Spec => [](OrderInv /\ HeldInv)
<1>1. Init => RaftInv /\ OrderInv /\ HeldInv
  BY RaftInit, HeldInit
<1>2. RaftInv /\ OrderInv /\ HeldInv /\ [Next]_vars => (RaftInv /\ OrderInv /\ HeldInv)'
  BY RaftStep, HeldStep
<1> QED
  BY <1>1, <1>2, PTL DEF Spec

\* HeldUnlessOverclaimed, the state machines' safety: for any number of nodes, terms
\* and entries, whatever is lost and whoever restarts, what a node applied is held at
\* its position by a majority, as long as no follower reports more than its leader has.
THEOREM HeldHolds == Spec => []HeldUnlessOverclaimed
<1>1. ASSUME RaftInv, CommitInv PROVE CommittedHeld
  <2> SUFFICES ASSUME NEW n \in Nodes, NEW j \in DOMAIN node[n].applied
               PROVE  Cardinality({m \in Nodes : /\ j <= Len(node[m].log)
                                                 /\ node[m].log[j] = node[n].applied[j]})
                        >= Majority
    BY DEF CommittedHeld
  <2>1. /\ node[n].applied \in Seq(Entries) /\ node[n].commit \in Nat
        /\ node[n].log \in Seq(Entries)
    BY <1>1 DEF RaftInv, TypeOK, NodeStates
  <2>2. /\ node[n].commit = 0 \/ Committed(n)
        /\ Len(node[n].applied) <= node[n].commit
        /\ node[n].applied[j] = node[n].log[j]
    BY <1>1 DEF CommitInv
  <2>3. /\ j \in Nat /\ j >= 1 /\ j <= node[n].commit
        /\ Len(node[n].applied) \in Nat
    BY <2>1, <2>2
  <2>4. PICK t \in 1 .. MaxTerm, i \in DOMAIN node[n].log, A \in SUBSET Nodes :
          /\ Cardinality(A) >= Majority /\ Frozen(i, t, A)
          /\ Holds(n, i, t) /\ node[n].commit <= i
    BY <2>1, <2>2, <2>3 DEF Committed
  <2>5. i \in Nat /\ j \in 1 .. i
    BY <1>1, <2>1, <2>3, <2>4, LogTerms
  <2> DEFINE S == {m \in Nodes : /\ j <= Len(node[m].log)
                                 /\ node[m].log[j] = node[n].applied[j]}
  <2>6. A \subseteq S
    <3> SUFFICES ASSUME NEW p \in A PROVE p \in S
      OBVIOUS
    <3>1. /\ i \in DOMAIN node[p].log /\ node[p].log[i].term = t
          /\ i \in DOMAIN node[n].log /\ node[n].log[i].term = t
      BY <2>4 DEF Frozen, Holds
    <3>2. node[p].log[j] = node[n].log[j]
      BY <1>1, <2>5, <3>1, SameUpTo
    <3>3. i <= Len(node[p].log) /\ Len(node[p].log) \in Nat
      BY <1>1, <3>1, LogTerms
    <3> QED
      BY <2>2, <2>3, <2>5, <3>2, <3>3
  <2>7. IsFiniteSet(S)
    <3>1. S \in SUBSET Nodes
      OBVIOUS
    <3> QED
      BY <3>1, NodesAssumption, FS_Subset
  <2> HIDE DEF S
  <2>8. Cardinality(A) <= Cardinality(S) /\ Cardinality(A) \in Nat /\ Cardinality(S) \in Nat
    <3>1. A \in SUBSET S
      BY <2>6
    <3> QED
      BY <2>7, <3>1, FS_Subset, FS_CardinalityType
  <2>9. Majority \in Nat
    BY NodesAssumption, FS_CardinalityType DEF Majority
  <2>10. Cardinality(S) >= Majority
    BY <2>4, <2>8, <2>9
  <2> QED
    BY <2>10 DEF S
<1>2. RaftInv /\ OrderInv /\ HeldInv => HeldUnlessOverclaimed
  BY <1>1 DEF HeldInv, HeldUnlessOverclaimed
<1> QED
  BY RaftInvariant, HeldInvariant, <1>2, PTL

=============================================================================
