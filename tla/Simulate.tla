------------------------------ MODULE Simulate ------------------------------
(***************************************************************************)
(* run_tty_sim of psim.c and of ssim.c: load a program, run the simulator    *)
(* until it faults, halts or meets its limit, then run step_state on a copy  *)
(* of the program and compare (the -t option).                              *)
(*                                                                         *)
(* Both simulators work on reg, mem and cc; the pipe registers are psim's   *)
(* and pc is ssim's.  A step of phase "run" is the end of one call of        *)
(* sim_step_pipe (sim_step), the test of the loop around it, and the          *)
(* beginning of the next call.                                             *)
(***************************************************************************)
EXTENDS Pipe

CONSTANTS Sims,        \* the simulators: "psim", "ssim"
          Images,      \* for each of them, the memory contents its programs load
          InstrLimit   \* instr_limit, the option -l

ASSUME LimitAssumption == InstrLimit \in Nat \ {0}

ASSUME ImagesAssumption == \A s \in Sims : Images[s] \subseteq [0 .. (MemLen - 1) -> Byte]

VARIABLES pc,                      \* ssim's program counter
          sim,                     \* the simulator that runs
          phase,                   \* "run", then "check", then "done"
          icount, ccount,          \* what the loop of sim_run_pipe counts
          run_status,              \* the status of the last call
          isa, e, step, match      \* the check's state, its status, its steps, its result

S == INSTANCE Seq

simVars == <<pc, sim, phase, icount, ccount, run_status, isa, e, step, match>>
vars == <<pipeVars, simVars>>

Init ==
  /\ sim \in Sims
  /\ mem \in Images[sim]
  /\ PipeInit
  /\ pc = 0
  /\ phase = "run"
  /\ icount = 0
  /\ ccount = 0
  /\ run_status = "AOK"
  /\ isa = InitState(mem)
  /\ e = "AOK"
  /\ step = 0
  /\ match = TRUE

\* What the call that ends returns.
Status == IF sim = "psim" THEN Stat ELSE S!Stat

\* The loop of sim_run_pipe (sim_run) counts the call that ends.  Stat is never
\* "BUB", so that icount counts calls.
Return ==
  /\ phase = "run"
  /\ run_status' = Status
  /\ icount' = icount + (IF Status # "BUB" THEN 1 ELSE 0)

GoesOn == Status \in {"AOK", "BUB"}

Run ==
  /\ Return
  /\ GoesOn
  /\ ccount' = ccount + 1
  /\ icount' < InstrLimit
  /\ UNCHANGED <<sim, phase, isa, e, step, match>>

RunPsim ==
  /\ sim = "psim"
  /\ Run
  /\ ccount' < 5 * InstrLimit
  /\ Cycle(InstrLimit - icount')
  /\ UNCHANGED pc

RunSsim ==
  /\ sim = "ssim"
  /\ Run
  /\ S!SeqCycle
  /\ UNCHANGED <<ccIn, F, D, E, M, W, instructions, cycles>>

EndRun ==
  /\ Return
  /\ ccount' = ccount + (IF GoesOn THEN 1 ELSE 0)
  /\ GoesOn => \/ icount' >= InstrLimit
               \/ sim = "psim" /\ ccount' >= 5 * InstrLimit
  /\ phase' = "check"
  /\ UNCHANGED <<pipeVars, pc, sim, isa, e, step, match>>

CheckGoesOn == step < InstrLimit /\ e = "AOK"

CheckStepWith(result) ==
  /\ isa' = result.s
  /\ e' = result.e
  /\ step' = step + 1

CheckStep ==
  /\ phase = "check"
  /\ CheckGoesOn
  /\ CheckStepWith(StepState(isa))
  /\ UNCHANGED <<pipeVars, pc, sim, phase, icount, ccount, run_status, match>>

Compare ==
  /\ phase = "check"
  /\ ~CheckGoesOn
  /\ match' = (isa.r = reg /\ isa.m = mem /\ isa.cc = cc)
  /\ phase' = "done"
  /\ UNCHANGED <<pipeVars, pc, sim, icount, ccount, run_status, isa, e, step>>

Next == RunPsim \/ RunSsim \/ EndRun \/ CheckStep \/ Compare

Spec == Init /\ [][Next]_vars
=============================================================================
