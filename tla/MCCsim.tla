------------------------------- MODULE MCCsim -------------------------------
(***************************************************************************)
(* Csim for TLC: blocks of two bytes, two sets of two lines.  Addresses 0  *)
(* and 1 are in one block; 0, 4, 8 and 12 are in set 0 and compete for its *)
(* lines; 2 is in set 1 and has the tag of 0.                              *)
(***************************************************************************)
EXTENDS Csim

MCLocations == {0, 1, 2, 4, 8, 12}

=============================================================================
