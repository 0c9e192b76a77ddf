------------------------------- MODULE Arch -------------------------------
(***************************************************************************)
(* What the Y86-64 simulators promise: one instruction of step_state after  *)
(* the other, until one of them halts or faults.  It is the specification  *)
(* that "psim -t" and "ssim -t" hold a simulator to (run_tty_sim runs       *)
(* step_state on a copy of the memory and compares).                       *)
(*                                                                         *)
(* One thing is left open.  step_state moves %rsp before it finds that the  *)
(* stack address of a push, a pop or a call is bad; the simulators change   *)
(* nothing then.  Both are allowed.                                         *)
(***************************************************************************)
EXTENDS Isa

VARIABLES state,  \* [pc, r, m, cc]
          stat    \* the status of the last instruction

vars == <<state, stat>>

Init ==
  /\ state.m \in [0 .. (MemLen - 1) -> Byte]
  /\ state = InitState(state.m)
  /\ stat = "AOK"

\* step_state, called while it returns STAT_AOK.
Instruction(result) ==
  /\ stat = "AOK"
  /\ stat' = result.e
  /\ state' = result.s

Next ==
  \/ Instruction(StepState(state))
  \/ /\ StepState(state).e = "ADR"
     /\ Instruction(Stop(state, "ADR"))

Spec == Init /\ [][Next]_vars
==========================================================================
