--------------------------- MODULE MCEngineStorage ---------------------------
(***************************************************************************)
(* Small instances of EngineStorage for TLC.  Threads and operations are   *)
(* interchangeable, so the runs without a liveness property use Symmetry.  *)
(***************************************************************************)
EXTENDS EngineStorage, TLC

\* Two equal operations in a row put an index record beyond a page.
MCUnsavable == {<<o, o>> : o \in Ops}

Symmetry == Permutations(Threads) \union Permutations(Ops)

=============================================================================
