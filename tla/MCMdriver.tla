------------------------------ MODULE MCMdriver ------------------------------
(***************************************************************************)
(* Mdriver for TLC.  The indices are interchangeable.                      *)
(***************************************************************************)
EXTENDS Mdriver, TLC

Symmetry == Permutations(Ids)

\* All levels of checking; -c, -s and -l by themselves.
AllOptions ==
  {o \in [debug_mode : {"none", "cheap", "expensive"}, ignore_ranges : BOOLEAN,
          onetime_flag : BOOLEAN, set_timeout : BOOLEAN, run_libc : BOOLEAN] :
     /\ o.debug_mode # "cheap" => ~o.onetime_flag /\ ~o.set_timeout
     /\ o.run_libc => o.set_timeout}

=============================================================================
