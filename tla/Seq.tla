-------------------------------- MODULE Seq --------------------------------
(***************************************************************************)
(* The sequential processor: ssim.c's sim_step with the control logic of    *)
(* seq-full.hcl (the Y86-64 with iaddq and jm).                             *)
(*                                                                         *)
(* sim_step first writes what the call before computed and then computes    *)
(* the next instruction.  A state of this module is the machine in the      *)
(* middle of a call, after update_state; the operators are the signals of    *)
(* the HCL file in that state, and SeqCycle is the next call's update.      *)
(***************************************************************************)
EXTENDS Isa

VARIABLES reg, mem, cc,   \* the programmer-visible state
          pc

\* Fetch.
imem_error == ~InMem(pc, 1)
imem == GetByte(mem, pc, I_NOP * 16)
icode == IF imem_error THEN I_NOP ELSE Hi4(imem)
ifun == IF imem_error THEN 0 ELSE Lo4(imem)
instr_valid == icode \notin {I_POP2, 15}
regids == IF NeedRegids(icode) THEN GetByte(mem, Wrap(pc + 1), 255) ELSE 255
rA == Hi4(regids)
rB == Lo4(regids)
valP == Wrap(pc + Length(icode))
valC == IF NeedImm(icode) THEN GetWord(mem, Wrap(valP - WordBytes), 0) ELSE 0

\* Decode.
srcA == CASE icode \in {I_RRMOVQ, I_RMMOVQ, I_ALU, I_PUSHQ} -> rA
          [] icode \in {I_POPQ, I_RET} -> REG_RSP
          [] OTHER -> REG_NONE
srcB == CASE icode \in {I_ALU, I_RMMOVQ, I_MRMOVQ, I_IADDQ, I_JM} -> rB
          [] icode \in {I_PUSHQ, I_POPQ, I_CALL, I_RET} -> REG_RSP
          [] OTHER -> REG_NONE
valA == GetReg(reg, srcA)
valB == GetReg(reg, srcB)
Cnd == CondHolds(cc, ifun)
\* Variant: a conditional move always moves.
dstEWithoutCnd ==
  CASE icode \in {I_RRMOVQ, I_IRMOVQ, I_ALU, I_IADDQ} -> rB
    [] icode \in {I_PUSHQ, I_POPQ, I_CALL, I_RET} -> REG_RSP
    [] OTHER -> REG_NONE
dstE == CASE icode = I_RRMOVQ /\ Cnd -> rB
          [] icode \in {I_IRMOVQ, I_ALU, I_IADDQ} -> rB
          [] icode \in {I_PUSHQ, I_POPQ, I_CALL, I_RET} -> REG_RSP
          [] OTHER -> REG_NONE
dstM == IF icode \in {I_MRMOVQ, I_POPQ} THEN rA ELSE REG_NONE

\* Execute.
aluA == CASE icode \in {I_RRMOVQ, I_ALU} -> valA
          [] icode \in {I_IRMOVQ, I_RMMOVQ, I_MRMOVQ, I_IADDQ, I_JM} -> valC
          [] icode \in {I_CALL, I_PUSHQ} -> Wrap(-WordBytes)
          [] icode \in {I_RET, I_POPQ} -> Wrap(WordBytes)
          [] OTHER -> 0
aluB == IF icode \in {I_RMMOVQ, I_MRMOVQ, I_ALU, I_CALL,
                      I_PUSHQ, I_RET, I_POPQ, I_IADDQ, I_JM}
        THEN valB ELSE 0
alufun == IF icode = I_ALU THEN ifun ELSE A_ADD
valE == ComputeAlu(alufun, aluA, aluB)
set_cc == icode \in {I_ALU, I_IADDQ}

\* Memory.
mem_read == icode \in {I_MRMOVQ, I_POPQ, I_RET, I_JM}
mem_write == icode \in {I_RMMOVQ, I_PUSHQ, I_CALL}
mem_addr == CASE icode \in {I_RMMOVQ, I_PUSHQ, I_CALL, I_MRMOVQ, I_JM} -> valE
              [] icode \in {I_POPQ, I_RET} -> valA
              [] OTHER -> 0
mem_data == CASE icode \in {I_RMMOVQ, I_PUSHQ} -> valA
              [] icode = I_CALL -> valP
              [] OTHER -> 0
dmem_error == (mem_read \/ mem_write) /\ ~InMem(mem_addr, WordBytes)
valM == IF mem_read THEN GetWord(mem, mem_addr, 0) ELSE 0

\* gen_Stat, which overwrites the STAT_ADR that sim_step sets when the register
\* byte or the constant is outside the memory.
Stat == CASE imem_error \/ dmem_error -> "ADR"
          [] ~(imem_error \/ dmem_error) /\ ~instr_valid -> "INS"
          [] ~(imem_error \/ dmem_error) /\ icode = I_HALT -> "HLT"
          [] OTHER -> "AOK"

new_pc == CASE icode = I_CALL -> valC
            [] icode = I_JMP /\ Cnd -> valC
            [] icode \in {I_RET, I_JM} -> valM
            [] OTHER -> valP

SeqCycle ==
  /\ pc' = new_pc
  /\ cc' = IF set_cc THEN ComputeCc(alufun, aluA, aluB) ELSE cc
  /\ reg' = SetReg(SetReg(reg, dstE, valE), dstM, valM)
  /\ mem' = IF mem_write THEN SetWord(mem, mem_addr, mem_data) ELSE mem
=============================================================================
