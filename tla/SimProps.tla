------------------------------ MODULE SimProps ------------------------------
(***************************************************************************)
(* What the two simulators have to get right: each implements Arch, the one- *)
(* instruction-at-a-time machine; the pipeline's control logic keeps its     *)
(* promises; and the comparison at the end of a run says what it should.     *)
(***************************************************************************)
EXTENDS Simulate

VARIABLES lost,   \* cycles without an instruction that the program's text explains
          last    \* the instruction step_state executed last, and whether it jumped

propVars == <<vars, lost, last>>

\* How long f waits behind the instruction p in the textbook's account: three
\* cycles for a ret, two for a jump that was predicted wrongly, one for a
\* register that comes from memory.
Sources(f) ==
  CASE f.icode = I_RRMOVQ -> {f.rA}
    [] f.icode \in {I_RMMOVQ, I_ALU} -> {f.rA, f.rB}
    [] f.icode \in {I_MRMOVQ, I_IADDQ} -> {f.rB}
    [] f.icode = I_PUSHQ -> {f.rA, REG_RSP}
    [] f.icode \in {I_POPQ, I_CALL, I_RET} -> {REG_RSP}
    [] OTHER -> {}
Waits(p, f) ==
  CASE p.icode = I_RET -> 3
    [] p.icode = I_JMP /\ ~p.taken -> 2
    [] p.icode \in {I_MRMOVQ, I_POPQ} /\ p.rA \in Sources(f) -> 1
    [] OTHER -> 0

Nothing == [icode |-> I_NOP, rA |-> REG_NONE, taken |-> FALSE]

Account(f) ==
  /\ lost' = lost + Waits(last, f)
  /\ last' = [icode |-> f.icode, rA |-> f.rA, taken |-> CondHolds(isa.cc, f.ifun)]

PropInit == Init /\ lost = 0 /\ last = Nothing

PropNext ==
  \/ /\ CheckStep
     /\ Account(Fetched(isa.m, isa.pc, GetByte(isa.m, isa.pc, I_NOP * 16)))
  \/ /\ RunPsim \/ RunSsim \/ EndRun \/ Compare
     /\ UNCHANGED <<lost, last>>

PropSpec == PropInit /\ [][PropNext]_propVars
-----------------------------------------------------------------------------
\* The architectural state of the pipeline: what the instructions up to the one
\* in the memory stage have done, or those up to the one that faulted.

memStat == IF W.stat \in Exceptional THEN W.stat
           ELSE IF m_stat \in Exceptional THEN m_stat ELSE "AOK"
afterW == SetReg(SetReg(reg, W.dstE, W.valE), W.dstM, W.valM)
psimReg ==
  CASE W.stat \in Exceptional -> reg
    [] W.stat \notin Exceptional /\ m_stat \in Exceptional -> afterW
    [] OTHER -> SetReg(SetReg(afterW, M.dstE, M.valE), M.dstM, m_valM)
psimMem == IF mem_write THEN SetWord(mem, mem_addr, M.valA) ELSE mem

\* The address of the next instruction: that of the oldest one behind the
\* memory stage, or the one fetch would take up now.
psimPc ==
  CASE W.stat \in Exceptional -> W.pc
    [] W.stat \notin Exceptional /\ m_stat \in Exceptional -> M.pc
    [] memStat = "AOK" /\ M.icode = I_RET -> m_valM
    [] memStat = "AOK" /\ M.icode = I_JMP /\ ~M.cnd -> M.valA
    [] memStat = "AOK" /\ M.icode # I_RET /\ ~(M.icode = I_JMP /\ ~M.cnd) ->
         IF E.stat # "BUB" THEN E.pc ELSE IF D.stat # "BUB" THEN D.pc ELSE f_pc

psimState == [pc |-> psimPc, r |-> psimReg, m |-> psimMem, cc |-> cc]
ssimState == [pc |-> pc, r |-> reg, m |-> mem, cc |-> cc]

archStat == IF sim = "psim" THEN memStat ELSE run_status

A == INSTANCE Arch WITH
       state <- IF sim = "psim" THEN psimState ELSE ssimState,
       stat <- archStat

\* Both simulators implement the one-instruction-at-a-time machine: whatever is
\* forwarded, stalled, predicted and cancelled on the way, psim's memory stage
\* takes the steps of step_state in program order, and stops where it stops.
ImplementsArch == A!Spec
-----------------------------------------------------------------------------
Status5 == {"AOK", "BUB", "ADR", "INS", "HLT"}

\* Conditions that occur at the same time never give one pipe register both a
\* stall and a bubble ("At most one of these can be true", pipe-full.hcl), which
\* pipe_cntl would answer with a PIP status: a load/use hazard in front of a
\* ret, a mispredicted jump over a ret and a fault behind either are told apart.
NoPipeError == {F.stat, D.stat, E.stat, M.stat, W.stat} \subseteq Status5

\* Nothing younger than a ret and older than the instruction it returns to, and
\* nothing from the wrong arm of a jump, is let into the execute stage.
WrongPathCancelled ==
  /\ E.icode = I_RET => D.stat = "BUB"
  /\ M.icode = I_RET => D.stat = "BUB" /\ E.stat = "BUB"
  /\ M.icode = I_JMP /\ ~M.cnd => D.stat = "BUB" /\ E.stat = "BUB"

\* The pipeline never runs empty: as long as it runs, one of the stages that
\* follow fetch holds an instruction.
NeverDrained ==
  phase = "run" /\ sim = "psim" /\ ccount > 0 =>
    \E stage \in {D.stat, E.stat, M.stat, W.stat} : stage # "BUB"

\* Once an instruction has faulted in the memory stage or behind it, no younger
\* one changes the memory or the condition codes.
FaultFreezesState ==
  [][sim = "psim" /\ memStat # "AOK" => mem' = mem /\ cc' = cc]_vars

Finished == phase = "done" /\ run_status \in Exceptional

\* The performance counters that the CPI is printed from: every instruction is
\* counted once, the faulting one included, and every cycle beyond one per
\* instruction is due to a load/use pair, a wrongly predicted jump or a ret that
\* the program executes.  An I_POP2, the second half of a popq, is not counted.
CountersExplained ==
  Finished /\ sim = "psim" /\ W.icode # I_POP2 => instructions = step /\ cycles = step + lost

\* The comparison with step_state succeeds, except that step_state has moved
\* %rsp when it finds a push, a pop or a call at a bad address.
MatchUnlessStackFault ==
  Finished => /\ e = run_status
              /\ \/ match
                 \/ /\ e = "ADR"
                    /\ last.icode \in {I_CALL, I_PUSHQ, I_POPQ}
                    /\ isa.m = mem /\ isa.cc = cc
                    /\ \A id \in RegId \ {REG_RSP} : isa.r[id] = reg[id]

\* What y86-code/README promises of the programs it comes with: "ISA Check
\* Succeeds".
IsaCheckSucceeds == phase = "done" => match
-----------------------------------------------------------------------------
\* The programs for which psim is to agree with step_state.

Memory == [0 .. (MemLen - 1) -> Byte]
MachineState == [pc : Word, r : [RegId -> Word], m : Memory, cc : CondCode]

\* The instruction at the program counter of st, and where it is.
FetchedAt(st) == Fetched(st.m, st.pc, GetByte(st.m, st.pc, 0))
Covers(st) == st.pc .. (st.pc + Length(FetchedAt(st).icode) - 1)

\* The instruction f of the state st is one that the simulator s executes as
\* step_state does.  Both simulators test no register fields and do not tell an
\* immediate outside memory from a bad code.  psim knows no jm, takes a source of
\* REG_NONE for every destination of REG_NONE, and wants the byte at FetchAhead.
Fits(s, st, f) ==
  /\ f.icode \notin {I_POP2, 15} => FetchStatus(f) = "AOK"
  /\ s = "psim" => /\ f.icode # I_JM
                   /\ REG_NONE \notin Sources(f)
                   /\ InMem(st.pc + FetchAhead, 1)

\* The program loaded as image stays within states, all of whose instructions fit,
\* and within its text, which psim's programs do not write.
Contains(s, image, states, text) ==
  /\ states \subseteq MachineState
  /\ InitState(image) \in states
  /\ \A st \in states :
       /\ InMem(st.pc, 1) => Fits(s, st, FetchedAt(st)) /\ Covers(st) \subseteq text
       /\ s = "psim" => \A a \in text : st.m[a] = image[a]
       /\ StepState(st).e = "AOK" => StepState(st).s \in states

ProgramsFit ==
  \A s \in Sims : \A image \in Images[s] : \E states, text : Contains(s, image, states, text)

\* psim's run is more than three calls away from the limit, where update_mem and
\* update_cc begin to be suspended.
BelowLimit == sim = "psim" => icount + 3 < InstrLimit
=============================================================================
