-------------------------------- MODULE Raft --------------------------------
(***************************************************************************)
(* RaftNode and RaftCluster (raft.py).  A remote call is synchronous: the  *)
(* handler runs on the peer, under the peer's lock, and the caller handles *)
(* the answer before it goes on.  One step here is one remote call, or the *)
(* local work between two; tick and propose hold the caller's lock over    *)
(* all of theirs.  Calls of different nodes interleave, any request may be *)
(* refused by the partition set, and nodes restart from RaftStorage.       *)
(*                                                                         *)
(* Log positions start at 1 here and at 0 in the code, so the code's -1    *)
(* is 0.  The election timers are abstracted: a timeout may come any time. *)
(***************************************************************************)
EXTENDS Naturals, Sequences, FiniteSets, FiniteSetsExt

CONSTANTS
  Nodes,
  NoNode,     \* voted_for = None
  Commands,
  MaxTerm,    \* bound: no election starts in this term
  MaxLog      \* bound: no proposal extends a log of this length

ASSUME NodesAssumption ==
  IsFiniteSet(Nodes) /\ Nodes # {} /\ NoNode \notin Nodes
ASSUME RaftBoundsAssumption == MaxTerm \in Nat /\ MaxLog \in Nat

VARIABLES
  node,        \* the RaftNode objects, with their raft-state.json
  call,        \* the tick or propose each node is in the middle of
  elected,     \* history: the nodes that became leader in each term
  overclaimed  \* history: a follower once reported more than its leader has

vars == <<node, call, elected, overclaimed>>

\* A call in progress: the peers still to ask for a vote and the term asked for,
\* and the pass of broadcast_append_entries with the peers it has still to reach.
Idle == [voters |-> {}, term |-> 0, pass |-> "none", peers |-> {}]

Loaded(disk) ==
  [term |-> disk.term, votedFor |-> disk.votedFor, log |-> disk.log, disk |-> disk,
   role |-> "follower", commit |-> 0, applied |-> << >>,
   next |-> [p \in Nodes |-> 1], match |-> [p \in Nodes |-> 0], votes |-> {}]

Init ==
  /\ node = [n \in Nodes |-> Loaded([term |-> 0, votedFor |-> NoNode, log |-> << >>])]
  /\ call = [n \in Nodes |-> Idle]
  /\ elected = [t \in 1 .. MaxTerm |-> {}]
  /\ overclaimed = FALSE

-----------------------------------------------------------------------------
(* What one node does to its own state: operators from node to node.       *)

Majority == Cardinality(Nodes) \div 2 + 1

LastTerm(s) == IF s.log = << >> THEN 0 ELSE s.log[Len(s.log)].term

\* Mutant of Persist: the vote is not written to raft-state.json.
PersistWithoutVote(s) ==
  [s EXCEPT !.disk = [term |-> s.term, votedFor |-> NoNode, log |-> s.log]]

Persist(s) ==
  [s EXCEPT !.disk = [term |-> s.term, votedFor |-> s.votedFor, log |-> s.log]]

StepDown(s, term) ==
  Persist([s EXCEPT !.term = IF term > s.term THEN term ELSE s.term,
                    !.votedFor = IF term > s.term THEN NoNode ELSE s.votedFor,
                    !.role = "follower", !.votes = {}])

\* apply_committed; "applied" lists the entries whose commands were applied, and
\* last_applied is its length.
Apply(s) ==
  LET upTo == IF s.commit < Len(s.log) THEN s.commit ELSE Len(s.log)
  IN  [s EXCEPT !.applied = @ \o SubSeq(s.log, Len(@) + 1, upTo)]

\* Mutant of UpToDate: any candidate's log will do.
UpToDateAlways(s, request) == TRUE

UpToDate(s, request) ==
  \/ request.lastTerm > LastTerm(s)
  \/ request.lastTerm = LastTerm(s) /\ request.lastIndex >= Len(s.log)

HandleVote(s, request) ==
  IF request.term < s.term THEN [node |-> s, term |-> s.term, granted |-> FALSE]
  ELSE LET t == IF request.term > s.term THEN StepDown(s, request.term) ELSE s
           grant == t.votedFor \in {NoNode, request.from} /\ UpToDate(t, request)
       IN  [node |-> IF grant THEN Persist([t EXCEPT !.votedFor = request.from]) ELSE t,
            term |-> t.term, granted |-> grant]

\* Mutant of Matches: the term at the previous position is not compared.
MatchesLength(s, request) == request.prev <= Len(s.log)

Matches(s, request) ==
  \/ request.prev = 0
  \/ request.prev <= Len(s.log) /\ s.log[request.prev].term = request.prevTerm

\* The loop over the entries: those the log has with the same term are kept, and
\* from the first that it has not, or has with another term, all are taken over.
Merge(log, prev, entries) ==
  LET new == {i \in DOMAIN entries : prev + i > Len(log)
                                       \/ log[prev + i].term # entries[i].term}
  IN  IF new = {} THEN log
      ELSE SubSeq(log, 1, prev + Min(new) - 1) \o SubSeq(entries, Min(new), Len(entries))

HandleAppend(s, request) ==
  IF request.term < s.term
    THEN [node |-> s, term |-> s.term, success |-> FALSE, match |-> Len(s.log)]
  ELSE LET t == IF request.term > s.term \/ s.role # "follower"
                  THEN StepDown(s, request.term) ELSE s
           log == Merge(t.log, request.prev, request.entries)
           commit == IF request.commit > t.commit
                       THEN IF request.commit < Len(log) THEN request.commit ELSE Len(log)
                       ELSE t.commit
           u == [t EXCEPT !.log = log, !.commit = commit]
       IN  IF Matches(t, request)
             THEN [node |-> Persist(IF request.commit > t.commit THEN Apply(u) ELSE u),
                   term |-> t.term, success |-> TRUE, match |-> Len(log)]
             ELSE [node |-> t, term |-> t.term, success |-> FALSE, match |-> Len(t.log)]

BecomeLeader(s) ==
  [s EXCEPT !.role = "leader",
            !.next = [p \in Nodes |-> Len(s.log) + 1],
            !.match = [p \in Nodes |-> 0]]

HasQuorum(n, i) ==
  /\ node[n].log[i].term = node[n].term
  /\ 1 + Cardinality({p \in Nodes \ {n} : node[n].match[p] >= i}) >= Majority

-----------------------------------------------------------------------------
(* tick and propose.                                                       *)

Peers(n) == Nodes \ {n}

Broadcast(n) == [call[n] EXCEPT !.pass = "first", !.peers = Peers(n)]

\* tick of a node that is not leader: start_election.
Timeout(n) ==
  /\ call[n] = Idle /\ node[n].role # "leader" /\ node[n].term < MaxTerm
  /\ node' = [node EXCEPT ![n] =
       Persist([@ EXCEPT !.role = "candidate", !.term = node[n].term + 1,
                         !.votedFor = n, !.votes = {n}])]
  /\ call' = [call EXCEPT ![n] = [Idle EXCEPT !.voters = Peers(n),
                                              !.term = node[n].term + 1]]
  /\ UNCHANGED <<elected, overclaimed>>

\* tick of a leader, or RaftCluster.heal.
Heartbeat(n) ==
  /\ call[n] = Idle /\ node[n].role = "leader"
  /\ call' = [call EXCEPT ![n] = Broadcast(n)]
  /\ UNCHANGED <<node, elected, overclaimed>>

Propose(n, command) ==
  /\ call[n] = Idle /\ node[n].role = "leader" /\ Len(node[n].log) < MaxLog
  /\ node' = [node EXCEPT ![n] =
       Persist([@ EXCEPT !.log = Append(node[n].log,
                                       [term |-> node[n].term, command |-> command])])]
  /\ call' = [call EXCEPT ![n] = Broadcast(n)]
  /\ UNCHANGED <<elected, overclaimed>>

\* One turn of start_election's loop; connected() is false for a lost request.
RequestVote(n, p) ==
  /\ call[n].pass = "none" /\ p \in call[n].voters /\ call[p] = Idle
  /\ LET request == [term |-> call[n].term, from |-> n,
                     lastTerm |-> LastTerm(node[n]), lastIndex |-> Len(node[n].log)]
         reply == HandleVote(node[p], request)
         votes == node[n].votes \union {p}
         counts == /\ node[n].role = "candidate" /\ reply.term = node[n].term
                   /\ reply.granted
         wins == counts /\ Cardinality(votes) >= Majority
         rest == [call[n] EXCEPT !.voters = @ \ {p}]
     IN  /\ node' = [node EXCEPT
              ![p] = reply.node,
              ![n] = IF reply.term > @.term THEN StepDown(@, reply.term)
                     ELSE IF wins THEN BecomeLeader([@ EXCEPT !.votes = votes])
                     ELSE IF counts THEN [@ EXCEPT !.votes = votes] ELSE @]
         /\ call' = [call EXCEPT ![n] =
              IF wins THEN [rest EXCEPT !.pass = "first", !.peers = Peers(n)] ELSE rest]
         /\ elected' = IF wins THEN [elected EXCEPT ![node[n].term] = @ \union {n}]
                       ELSE elected
  /\ UNCHANGED overclaimed

VoteLost(n, p) ==
  /\ call[n].pass = "none" /\ p \in call[n].voters
  /\ call' = [call EXCEPT ![n].voters = @ \ {p}]
  /\ UNCHANGED <<node, elected, overclaimed>>

Prev(n, p) == node[n].next[p] - 1

Request(n, p) ==
  [term |-> node[n].term, prev |-> Prev(n, p),
   prevTerm |-> IF Prev(n, p) = 0 THEN 0 ELSE node[n].log[Prev(n, p)].term,
   entries |-> SubSeq(node[n].log, node[n].next[p], Len(node[n].log)),
   commit |-> node[n].commit]

Sends(n, p) ==
  call[n].pass \in {"first", "second"} /\ p \in call[n].peers /\ node[n].role = "leader"

\* replicate_to.  After a refusal it goes one position back and tries again.
Replicate(n, p) ==
  /\ Sends(n, p) /\ Prev(n, p) <= Len(node[n].log) /\ call[p] = Idle
  /\ LET reply == HandleAppend(node[p], Request(n, p))
         back == IF node[n].next[p] > 1 THEN node[n].next[p] - 1 ELSE 1
         again == reply.term <= node[n].term /\ ~reply.success /\ back # node[n].next[p]
     IN  /\ node' = [node EXCEPT
              ![p] = reply.node,
              ![n] = IF reply.term > @.term THEN StepDown(@, reply.term)
                     ELSE IF reply.success
                       THEN [@ EXCEPT !.match[p] = reply.match, !.next[p] = reply.match + 1]
                     ELSE [@ EXCEPT !.next[p] = back]]
         /\ call' = IF again THEN call ELSE [call EXCEPT ![n].peers = @ \ {p}]
         /\ overclaimed' = (overclaimed \/ (reply.success /\ reply.match > Len(node[n].log)))
  /\ UNCHANGED elected

\* Not connected, or no longer leader.
ReplicateSkipped(n, p) ==
  /\ call[n].pass \in {"first", "second"} /\ p \in call[n].peers
  /\ node[n].role = "leader" => Prev(n, p) <= Len(node[n].log)
  /\ call' = [call EXCEPT ![n].peers = @ \ {p}]
  /\ UNCHANGED <<node, elected, overclaimed>>

\* self.log[previous_index] raises IndexError, which ends the whole call.
ReplicateRaises(n, p) ==
  /\ Sends(n, p) /\ Prev(n, p) > Len(node[n].log)
  /\ call' = [call EXCEPT ![n] = Idle]
  /\ UNCHANGED <<node, elected, overclaimed>>

\* advance_commit between the two passes, apply_committed after the second.
AdvanceCommit(n) ==
  /\ call[n].pass = "first" /\ call[n].peers = {}
  /\ LET ready == IF node[n].role # "leader" THEN {}
                  ELSE {i \in node[n].commit + 1 .. Len(node[n].log) : HasQuorum(n, i)}
     IN  node' = [node EXCEPT ![n].commit = IF ready = {} THEN @ ELSE Max(ready)]
  /\ call' = [call EXCEPT ![n].pass = "second", ![n].peers = Peers(n)]
  /\ UNCHANGED <<elected, overclaimed>>

FinishBroadcast(n) ==
  /\ call[n].pass = "second" /\ call[n].peers = {}
  /\ node' = [node EXCEPT ![n] = Apply(@)]
  /\ call' = [call EXCEPT ![n] =
       IF call[n].voters = {} THEN Idle ELSE [@ EXCEPT !.pass = "none"]]
  /\ UNCHANGED <<elected, overclaimed>>

FinishElection(n) ==
  /\ call[n] # Idle /\ call[n].pass = "none" /\ call[n].voters = {}
  /\ call' = [call EXCEPT ![n] = Idle]
  /\ UNCHANGED <<node, elected, overclaimed>>

\* The node is built again from raft-state.json, with a new state machine.
Restart(n) ==
  /\ node' = [node EXCEPT ![n] = Loaded(@.disk)]
  /\ call' = [call EXCEPT ![n] = Idle]
  /\ UNCHANGED <<elected, overclaimed>>

Next ==
  \E n \in Nodes :
    \/ Timeout(n) \/ Heartbeat(n) \/ Restart(n)
    \/ AdvanceCommit(n) \/ FinishBroadcast(n) \/ FinishElection(n)
    \/ \E command \in Commands : Propose(n, command)
    \/ \E p \in Peers(n) :
         \/ RequestVote(n, p) \/ VoteLost(n, p)
         \/ Replicate(n, p) \/ ReplicateSkipped(n, p) \/ ReplicateRaises(n, p)

Spec == Init /\ [][Next]_vars

-----------------------------------------------------------------------------
(* Properties.                                                             *)

Entries == [term : Nat, command : Commands]
Disks == [term : Nat, votedFor : Nodes \union {NoNode}, log : Seq(Entries)]
NodeStates ==
  [term : Nat, votedFor : Nodes \union {NoNode}, log : Seq(Entries), disk : Disks,
   role : {"follower", "candidate", "leader"}, commit : Nat, applied : Seq(Entries),
   next : [Nodes -> Nat \ {0}], match : [Nodes -> Nat], votes : SUBSET Nodes]
Calls ==
  [voters : SUBSET Nodes, term : Nat, pass : {"none", "first", "second"},
   peers : SUBSET Nodes]

\* The nodes and their calls have their types, and raft-state.json always holds
\* what the node promised: its term, its vote and its log.
TypeOK ==
  /\ node \in [Nodes -> NodeStates]
  /\ \A n \in Nodes :
       /\ node[n].disk = [term |-> node[n].term, votedFor |-> node[n].votedFor,
                          log |-> node[n].log]
       /\ call[n].voters \union call[n].peers \subseteq Peers(n)
  /\ call \in [Nodes -> Calls]
  /\ elected \in [1 .. MaxTerm -> SUBSET Nodes]
  /\ overclaimed \in BOOLEAN

\* At most one node is ever elected in a term, restarts included.
ElectionSafety == \A t \in DOMAIN elected : Cardinality(elected[t]) <= 1

\* Two logs with the same term at a position agree up to it.
LogMatching ==
  \A m, n \in Nodes :
    \A i \in DOMAIN node[m].log \intersect DOMAIN node[n].log :
      node[m].log[i].term = node[n].log[i].term
        => SubSeq(node[m].log, 1, i) = SubSeq(node[n].log, 1, i)

\* What a node applied is held at its position by a majority (raft.py:264, "a
\* leader advances commit only when a current-term entry is replicated to a quorum"):
\* only then can no later leader overwrite it, and no two nodes apply differently.
CommittedHeld ==
  \A n \in Nodes : \A i \in DOMAIN node[n].applied :
    Cardinality({m \in Nodes : /\ i <= Len(node[m].log)
                               /\ node[m].log[i] = node[n].applied[i]}) >= Majority

\* It does hold as long as no match_index that a leader accepted (raft.py:257)
\* named entries the leader does not have: that report is the only cause.
HeldUnlessOverclaimed == overclaimed \/ CommittedHeld

-----------------------------------------------------------------------------
(* The inductive invariants behind ElectionSafety and LogMatching.         *)

Running(n) == node[n].role # "follower"

\* p is past term t, or in it and bound to the vote it gave to n.
Bound(p, n, t) ==
  node[p].term > t \/ (node[p].term = t /\ node[p].votedFor = n)

\* Whoever gave a running node its vote is bound to it, and gave no other one.
VoteInv ==
  /\ \A n \in Nodes :
       /\ node[n].term <= MaxTerm /\ call[n].term <= MaxTerm
       /\ Running(n) =>
            node[n].term >= 1 /\ \A p \in node[n].votes : Bound(p, n, node[n].term)
  /\ \A m, n \in Nodes :
       m # n /\ Running(m) /\ Running(n) /\ node[m].term = node[n].term
         => node[m].votes \intersect node[n].votes = {}

\* The majority that elected m is still bound to it, and gave no vote to another.
Electors(Q, m, t) ==
  /\ Cardinality(Q) >= Majority
  /\ \A p \in Q : Bound(p, m, t)
  /\ \A n \in Nodes \ {m} : Running(n) /\ node[n].term = t => Q \intersect node[n].votes = {}

ElectionInv ==
  /\ \A t \in 1 .. MaxTerm : \A m \in elected[t] :
       /\ \E Q \in SUBSET Nodes : Electors(Q, m, t)
       /\ node[m].term > t \/ (node[m].term = t /\ node[m].role # "candidate")
       /\ \A n \in elected[t] : n = m
  /\ \A n \in Nodes : node[n].role = "leader" => n \in elected[node[n].term]

\* Every entry was made by an elected leader, and a leader has all of its term.
EntryInv ==
  \A m \in Nodes : \A i \in DOMAIN node[m].log :
    /\ node[m].log[i].term \in 1 .. MaxTerm /\ elected[node[m].log[i].term] # {}
    /\ \A n \in Nodes :
         node[n].role = "leader" /\ node[m].log[i].term = node[n].term
           => i \in DOMAIN node[n].log /\ node[n].log[i].term = node[n].term

\* The conjunction is inductive: a merge leaves the log as it was or makes it the
\* leader's, so that logs only ever grow into one another.
RaftInv == TypeOK /\ VoteInv /\ ElectionInv /\ EntryInv /\ LogMatching

-----------------------------------------------------------------------------
(* The inductive invariant behind HeldUnlessOverclaimed.                   *)

\* Terms grow along a log up to the node's own, and the entries of a term have the
\* same positions wherever they are.
OrderInv ==
  \A m \in Nodes : \A i \in DOMAIN node[m].log :
    /\ node[m].log[i].term <= node[m].term
    /\ \A j \in DOMAIN node[m].log : i <= j => node[m].log[i].term <= node[m].log[j].term
    /\ \A n \in Nodes : \A j \in DOMAIN node[n].log :
         i <= j /\ node[n].log[j].term = node[m].log[i].term
           => node[n].log[i].term = node[m].log[i].term

Holds(p, i, t) ==
  i \in DOMAIN node[p].log /\ node[p].log[i].term = t /\ node[p].term >= t

\* A holds the entry of term t at position i, and so does whoever could take it away:
\* the leaders of later terms, their entries' logs, and the candidates A voted for.
Frozen(i, t, A) ==
  /\ \A p \in A : Holds(p, i, t)
  /\ \A m \in Nodes : (\E j \in DOMAIN node[m].log : node[m].log[j].term > t) => Holds(m, i, t)
  /\ \A c \in Nodes :
       /\ node[c].term > t
       /\ node[c].role = "leader"
            \/ (node[c].role = "candidate" /\ node[c].votes \intersect A # {})
       => Holds(c, i, t)

Ackers(n, i) == {p \in Nodes : p = n \/ node[n].match[p] >= i}

\* A majority with nothing of A is past term t.
Surpassed(t, A) ==
  \E V \in SUBSET Nodes :
    /\ Cardinality(V) >= Majority /\ V \intersect A = {}
    /\ \A q \in V : node[q].term > t

\* What a leader counts for an entry of its term is held for good, unless a majority
\* can no longer come together.
LeadInv ==
  \A n \in Nodes : node[n].role = "leader" =>
    /\ \A p \in Nodes : node[n].match[p] <= Len(node[n].log)
    /\ \A i \in DOMAIN node[n].log :
         node[n].log[i].term = node[n].term
           => \/ Surpassed(node[n].term, Ackers(n, i))
              \/ Frozen(i, node[n].term, Ackers(n, i))

\* A majority holds for good what a node's commit index covers.
Committed(m) ==
  \E t \in 1 .. MaxTerm : \E i \in DOMAIN node[m].log : \E A \in SUBSET Nodes :
    /\ Cardinality(A) >= Majority /\ Frozen(i, t, A)
    /\ Holds(m, i, t) /\ node[m].commit <= i

CommitInv ==
  \A m \in Nodes :
    /\ node[m].commit = 0 \/ Committed(m)
    /\ Len(node[m].applied) <= node[m].commit /\ Len(node[m].applied) <= Len(node[m].log)
    /\ \A j \in DOMAIN node[m].applied : node[m].applied[j] = node[m].log[j]

HeldInv == overclaimed \/ (LeadInv /\ CommitInv)

=============================================================================
