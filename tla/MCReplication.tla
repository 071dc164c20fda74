---------------------------- MODULE MCReplication ----------------------------
(***************************************************************************)
(* A small instance of Replication.  CatchesUp is a liveness property, so  *)
(* nothing is declared symmetric.                                          *)
(***************************************************************************)
EXTENDS Replication

=============================================================================
