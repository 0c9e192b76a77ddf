------------------------------- MODULE Pipe -------------------------------
(***************************************************************************)
(* The five-stage pipeline: psim.c's pipe registers and stage functions     *)
(* with the control logic of pipe-full.hcl (the Y86-64 with iaddq).         *)
(*                                                                         *)
(* sim_step_pipe first latches what the stages computed at the end of the   *)
(* call before and then runs the stages on the new registers.  A state of   *)
(* this module is the machine in the middle of a call, after update_pipes:  *)
(* the stages' results are functions of it (the operators below, named as   *)
(* in the HCL file), and Cycle latches them.                                *)
(***************************************************************************)
EXTENDS Isa

CONSTANT FetchAhead   \* do_if_stage tests the byte at f_pc + FetchAhead (5 in the code)

ASSUME FetchAheadAssumption == FetchAhead \in Nat

VARIABLES reg, mem, cc,     \* the programmer-visible state
          ccIn,             \* cc_in, which keeps its value when nothing sets it
          F, D, E, M, W,    \* the pipe registers (their current values)
          instructions,     \* instructions that reached write-back
          cycles            \* cycles since the first of them did

pipeVars == <<reg, mem, cc, ccIn, F, D, E, M, W, instructions, cycles>>

SADR == "ADR"
Exceptional == {"ADR", "INS", "HLT"}

BubbleF == [pc |-> 0, stat |-> "AOK"]
BubbleD == [icode |-> I_NOP, ifun |-> 0, rA |-> REG_NONE, rB |-> REG_NONE,
            valC |-> 0, valP |-> 0, stat |-> "BUB", pc |-> 0]
BubbleE == [icode |-> I_NOP, ifun |-> 0, valC |-> 0, valA |-> 0, valB |-> 0,
            srcA |-> REG_NONE, srcB |-> REG_NONE, dstE |-> REG_NONE, dstM |-> REG_NONE,
            stat |-> "BUB", pc |-> 0]
BubbleM == [icode |-> I_NOP, ifun |-> 0, cnd |-> FALSE, valE |-> 0, valA |-> 0,
            dstE |-> REG_NONE, dstM |-> REG_NONE, stat |-> "BUB", pc |-> 0]
BubbleW == [icode |-> I_NOP, ifun |-> 0, valE |-> 0, valM |-> 0,
            dstE |-> REG_NONE, dstM |-> REG_NONE, stat |-> "BUB", pc |-> 0]

PipeInit ==
  /\ reg = [id \in RegId |-> 0]
  /\ cc = DefaultCc
  /\ ccIn = DefaultCc
  /\ F = BubbleF
  /\ D = BubbleD
  /\ E = BubbleE
  /\ M = BubbleM
  /\ W = BubbleW
  /\ instructions = 0
  /\ cycles = 0
--------------------------------------------------------------------------
\* Memory stage (do_mem_stage).

mem_addr == CASE M.icode \in {I_RMMOVQ, I_PUSHQ, I_CALL, I_MRMOVQ} -> M.valE
              [] M.icode \in {I_POPQ, I_RET} -> M.valA
              [] OTHER -> 0
mem_read == M.icode \in {I_MRMOVQ, I_POPQ, I_RET}
mem_write == M.icode \in {I_RMMOVQ, I_PUSHQ, I_CALL}
dmem_error == (mem_read \/ mem_write) /\ ~InMem(mem_addr, WordBytes)
m_valM == IF mem_read THEN GetWord(mem, mem_addr, 0) ELSE 0
m_stat == IF dmem_error THEN SADR ELSE M.stat
--------------------------------------------------------------------------
\* Execute stage (do_ex_stage).

aluA == CASE E.icode \in {I_RRMOVQ, I_ALU} -> E.valA
          [] E.icode \in {I_IRMOVQ, I_RMMOVQ, I_MRMOVQ, I_IADDQ} -> E.valC
          [] E.icode \in {I_CALL, I_PUSHQ} -> Wrap(-WordBytes)
          [] E.icode \in {I_RET, I_POPQ} -> Wrap(WordBytes)
          [] OTHER -> 0
aluB == CASE E.icode \in {I_RMMOVQ, I_MRMOVQ, I_ALU, I_CALL,
                          I_PUSHQ, I_RET, I_POPQ, I_IADDQ} -> E.valB
          [] OTHER -> 0
alufun == IF E.icode = I_ALU THEN E.ifun ELSE A_ADD
\* Variant: an instruction behind a fault sets the condition codes.
set_ccBehindFault == E.icode \in {I_ALU, I_IADDQ}
set_cc == /\ E.icode \in {I_ALU, I_IADDQ}
          /\ m_stat \notin Exceptional
          /\ W.stat \notin Exceptional
e_Cnd == CondHolds(cc, E.ifun)
e_valE == ComputeAlu(alufun, aluA, aluB)
e_dstE == IF E.icode = I_RRMOVQ /\ ~e_Cnd THEN REG_NONE ELSE E.dstE
--------------------------------------------------------------------------
\* Fetch stage (do_if_stage).

f_pc == CASE M.icode = I_JMP /\ ~M.cnd -> M.valA
          [] W.icode = I_RET -> W.valM
          [] OTHER -> F.pc
imem_error == ~InMem(f_pc, 1) \/ ~InMem(f_pc + FetchAhead, 1)
imem == GetByte(mem, f_pc, I_NOP * 16)
f_icode == IF imem_error THEN I_NOP ELSE Hi4(imem)
f_ifun == IF imem_error THEN 0 ELSE Lo4(imem)
instr_valid == f_icode \notin {I_POP2, I_JM, 15}
f_stat == CASE imem_error -> SADR
            [] ~instr_valid -> "INS"
            [] f_icode = I_HALT -> "HLT"
            [] OTHER -> "AOK"
need_regids ==
  f_icode \in {I_RRMOVQ, I_ALU, I_PUSHQ, I_POPQ, I_IRMOVQ, I_RMMOVQ, I_MRMOVQ, I_IADDQ}
need_valC == f_icode \in {I_IRMOVQ, I_RMMOVQ, I_MRMOVQ, I_JMP, I_CALL, I_IADDQ}
f_regids == IF need_regids THEN GetByte(mem, Wrap(f_pc + 1), 255) ELSE 255
f_valAt == Wrap(f_pc + 1 + (IF need_regids THEN 1 ELSE 0))
f_valC == IF need_valC THEN GetWord(mem, f_valAt, 0) ELSE 0
f_valP == Wrap(f_valAt + (IF need_valC THEN WordBytes ELSE 0))
f_predPC == IF f_icode \in {I_JMP, I_CALL} THEN f_valC ELSE f_valP
--------------------------------------------------------------------------
\* Decode stage (do_id_wb_stages).

d_srcA == CASE D.icode \in {I_RRMOVQ, I_RMMOVQ, I_ALU, I_PUSHQ} -> D.rA
            [] D.icode \in {I_POPQ, I_RET} -> REG_RSP
            [] OTHER -> REG_NONE
d_srcB == CASE D.icode \in {I_ALU, I_RMMOVQ, I_MRMOVQ, I_IADDQ} -> D.rB
            [] D.icode \in {I_PUSHQ, I_POPQ, I_CALL, I_RET} -> REG_RSP
            [] OTHER -> REG_NONE
d_dstE == CASE D.icode \in {I_RRMOVQ, I_IRMOVQ, I_ALU, I_IADDQ} -> D.rB
            [] D.icode \in {I_PUSHQ, I_POPQ, I_CALL, I_RET} -> REG_RSP
            [] OTHER -> REG_NONE
d_dstM == IF D.icode \in {I_MRMOVQ, I_POPQ} THEN D.rA ELSE REG_NONE

\* Variant: Writers with the oldest first.
WritersOldestFirst == << [dst |-> W.dstE, val |-> W.valE],
                         [dst |-> W.dstM, val |-> W.valM],
                         [dst |-> M.dstE, val |-> M.valE],
                         [dst |-> M.dstM, val |-> m_valM],
                         [dst |-> e_dstE, val |-> e_valE] >>
\* The instructions ahead of the one in decode that write a register, the
\* youngest first, and what they write.
Writers == << [dst |-> e_dstE, val |-> e_valE],   \* from execute
              [dst |-> M.dstM, val |-> m_valM],   \* from memory
              [dst |-> M.dstE, val |-> M.valE],
              [dst |-> W.dstM, val |-> W.valM],   \* from write back
              [dst |-> W.dstE, val |-> W.valE] >>

\* The value of the source register src: from the first writer of it, else
\* from the register file.  A src of REG_NONE is not excepted: it equals the
\* destination of every instruction that writes no register.
Forward(src) ==
  LET hits == {i \in DOMAIN Writers : Writers[i].dst = src}
  IN  IF hits = {} THEN GetReg(reg, src)
      ELSE Writers[CHOOSE i \in hits : \A j \in hits : i <= j].val

d_valA == IF D.icode \in {I_CALL, I_JMP} THEN D.valP ELSE Forward(d_srcA)
d_valB == Forward(d_srcB)

Stat == IF W.stat = "BUB" THEN "AOK" ELSE W.stat
--------------------------------------------------------------------------
\* Pipeline register control (do_stall_check).

\* Variant: every load stalls the instruction behind it.
LoadUseWhateverRegister == E.icode \in {I_MRMOVQ, I_POPQ}
LoadUse == E.icode \in {I_MRMOVQ, I_POPQ} /\ E.dstM \in {d_srcA, d_srcB}
Mispredicted == E.icode = I_JMP /\ ~e_Cnd
Returning == I_RET \in {D.icode, E.icode, M.icode}

F_bubble == FALSE
F_stall == LoadUse \/ Returning
D_stall == LoadUse
\* Variant: the conditions that overlap are not told apart.
D_bubbleDespiteLoadUse == Mispredicted \/ Returning
E_bubbleOnLoadUseOnly == LoadUse
D_bubble == Mispredicted \/ (~LoadUse /\ Returning)
E_stall == FALSE
E_bubble == Mispredicted \/ LoadUse
M_stall == FALSE
M_bubble == m_stat \in Exceptional \/ W.stat \in Exceptional
W_stall == W.stat \in Exceptional
W_bubble == FALSE

pipe_cntl(stall, bubble) ==
  CASE stall /\ bubble -> "ERROR"
    [] stall /\ ~bubble -> "STALL"
    [] ~stall /\ bubble -> "BUBBLE"
    [] OTHER -> "LOAD"

\* update_pipes for one register, and the status P_ERROR leaves in it.
Latch(op, current, next, bubble) ==
  CASE op = "LOAD" -> next
    [] op = "STALL" -> current
    [] op = "BUBBLE" -> bubble
    [] op = "ERROR" -> [bubble EXCEPT !.stat = "PIP"]

nextF == [pc |-> f_predPC, stat |-> IF f_stat = "AOK" THEN "AOK" ELSE "BUB"]
nextD == [icode |-> f_icode, ifun |-> f_ifun, rA |-> Hi4(f_regids), rB |-> Lo4(f_regids),
          valC |-> f_valC, valP |-> f_valP, stat |-> f_stat, pc |-> f_pc]
nextE == [icode |-> D.icode, ifun |-> D.ifun, valC |-> D.valC, valA |-> d_valA, valB |-> d_valB,
          srcA |-> d_srcA, srcB |-> d_srcB, dstE |-> d_dstE, dstM |-> d_dstM,
          stat |-> D.stat, pc |-> D.pc]
nextM == [icode |-> E.icode, ifun |-> E.ifun, cnd |-> e_Cnd, valE |-> e_valE, valA |-> E.valA,
          dstE |-> e_dstE, dstM |-> E.dstM, stat |-> E.stat, pc |-> E.pc]
nextW == [icode |-> M.icode, ifun |-> M.ifun, valE |-> M.valE, valM |-> m_valM,
          dstE |-> M.dstE, dstM |-> M.dstM, stat |-> m_stat, pc |-> M.pc]

\* update_state: the register write of W's instruction (valM last, which is
\* what popq %rsp keeps), the memory write of M's and the condition codes of E's.
UpdateState(update_mem, update_cc) ==
  /\ reg' = SetReg(SetReg(reg, W.dstE, W.valE), W.dstM, W.valM)
  /\ mem' = IF mem_write /\ update_mem THEN SetWord(mem, mem_addr, M.valA) ELSE mem
  /\ ccIn' = IF set_cc THEN ComputeCc(alufun, aluA, aluB) ELSE ccIn
  /\ cc' = IF update_cc THEN ccIn' ELSE cc

\* The next call of sim_step_pipe, which is to complete at most max_instr
\* instructions.
Cycle(max_instr) ==
  LET ahead_mem == IF W.stat # "BUB" THEN 1 ELSE 0
      ahead_ex == ahead_mem + (IF m_stat # "BUB" THEN 1 ELSE 0)
  IN  /\ UpdateState(ahead_mem < max_instr, ahead_ex < max_instr)
      /\ F' = Latch(pipe_cntl(F_stall, F_bubble), F, nextF, BubbleF)
      /\ D' = Latch(pipe_cntl(D_stall, D_bubble), D, nextD, BubbleD)
      /\ E' = Latch(pipe_cntl(E_stall, E_bubble), E, nextE, BubbleE)
      /\ M' = Latch(pipe_cntl(M_stall, M_bubble), M, nextM, BubbleM)
      /\ W' = Latch(pipe_cntl(W_stall, W_bubble), W, nextW, BubbleW)
      /\ instructions' = instructions + (IF W'.stat # "BUB" /\ W'.icode # I_POP2 THEN 1 ELSE 0)
      /\ cycles' = cycles + (IF instructions' > 0 THEN 1 ELSE 0)
==========================================================================
