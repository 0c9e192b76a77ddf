------------------------------- MODULE MCTsh -------------------------------
(***************************************************************************)
(* Tsh for TLC.  Process ids are interchangeable as long as no property    *)
(* compares one with a job ID.                                             *)
(***************************************************************************)
EXTENDS Tsh, TLC

Symmetry == Permutations(Pids)

=============================================================================
