------------------------------- MODULE MCMvcc -------------------------------
(***************************************************************************)
(* A small instance of Mvcc.  Its one prefix is the empty one, which every *)
(* key starts with, so clients, keys and values are interchangeable.       *)
(***************************************************************************)
EXTENDS Mvcc, TLC

MCPrefixes == {Keys}

Symmetry == Permutations(Clients) \union Permutations(Keys) \union Permutations(Values)

=============================================================================
