------------------------------- MODULE MCRaft -------------------------------
(***************************************************************************)
(* Small instances of Raft for TLC; nodes are interchangeable.             *)
(***************************************************************************)
EXTENDS Raft, TLC

Symmetry == Permutations(Nodes)

=============================================================================
