--------------------------- MODULE MCPromptService ---------------------------
(***************************************************************************)
(* Small instances of PromptService for TLC; plan ids are interchangeable. *)
(***************************************************************************)
EXTENDS PromptService, TLC

Symmetry == Permutations(Plans)

=============================================================================
