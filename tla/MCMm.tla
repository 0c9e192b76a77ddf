-------------------------------- MODULE MCMm --------------------------------
(***************************************************************************)
(* Instances of Mm for TLC: a heap with room for a few small blocks.       *)
(***************************************************************************)
EXTENDS Mm

=============================================================================
