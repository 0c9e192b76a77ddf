----------------------------- MODULE SimProofs -----------------------------
(***************************************************************************)
(* Proofs about the pipeline's control logic, for every program, word size   *)
(* and instruction limit.  The invariant says what a bubble is, what an       *)
(* instruction with a bad status cannot do, which stages are empty behind a   *)
(* ret and a mispredicted jump, and when cc_in may differ from cc.           *)
(***************************************************************************)
EXTENDS SimProps, WellFoundedInduction, TLAPS

\* The instructions that read and write nothing.
Effectless == {I_HALT, I_NOP, I_POP2, I_JM, 15}

\* A bubble is a nop, and what fetch finds wrong has no effect further on.
StageOK(r) ==
  /\ r.stat \in Status5
  /\ r.stat = "BUB" => r.icode = I_NOP
  /\ r.stat \in Exceptional => r.icode \in Effectless

\* In write-back a push, pop, call, ret or move may have a bad status as well.
WriteBackOK == W.stat \in Status5 /\ (W.stat = "BUB" => W.icode = I_NOP)

StagesOK == F.stat \in {"AOK", "BUB"} /\ StageOK(D) /\ StageOK(E) /\ StageOK(M) /\ WriteBackOK

\* cc_in is behind cc only when no later cycle of the run sets cc again.
CcInKept ==
  sim = "psim" /\ ccIn # cc =>
    \/ InstrLimit - icount <= 1
    \/ InstrLimit - icount = 2 /\ W.stat # "BUB"

MemIsFunction == mem = [a \in DOMAIN mem |-> mem[a]]

ControlInv ==
  /\ StagesOK
  /\ WrongPathCancelled
  /\ NeverDrained
  /\ CcInKept
  /\ MemIsFunction
  /\ icount \in Nat
  /\ ccount \in Nat

--------------------------------------------------------------------------
\* Memory stays a function when eight bytes of it are set.
LEMMA SetWordIsFunction ==
  ASSUME NEW m, NEW pos, NEW val
  PROVE  SetWord(m, pos, val) = [a \in DOMAIN SetWord(m, pos, val) |-> SetWord(m, pos, val)[a]]
  BY DEF SetWord

\* Later there are not more instructions to go.
LEMMA LeftShrinks ==
  ASSUME NEW i \in Nat, NEW j \in Nat, j >= i
  PROVE  /\ InstrLimit - i <= 1 => InstrLimit - j <= 1
         /\ InstrLimit - i = 2 => InstrLimit - j <= 1 \/ InstrLimit - j = 2
  BY LimitAssumption

\* What each pipe register holds after a cycle.
LEMMA CycleLatches ==
  ASSUME NEW n, Cycle(n), W.stat \notin Exceptional
  PROVE  /\ F' = F \/ F' = nextF
         /\ LoadUse => D' = D
         /\ ~LoadUse /\ (Mispredicted \/ Returning) => D' = BubbleD
         /\ ~LoadUse /\ ~Mispredicted /\ ~Returning => D' = nextD
         /\ Mispredicted \/ LoadUse => E' = BubbleE
         /\ ~Mispredicted /\ ~LoadUse => E' = nextE
         /\ m_stat \in Exceptional => M' = BubbleM
         /\ m_stat \notin Exceptional => M' = nextM
         /\ W' = nextW
  <1>1. LoadUse => ~Mispredicted
    BY DEF LoadUse, Mispredicted, I_MRMOVQ, I_POPQ, I_JMP
  <1>2. F' = F \/ F' = nextF
    BY DEF Cycle, Latch, pipe_cntl, F_stall, F_bubble
  <1>3. /\ LoadUse => D' = D
        /\ ~LoadUse /\ (Mispredicted \/ Returning) => D' = BubbleD
        /\ ~LoadUse /\ ~Mispredicted /\ ~Returning => D' = nextD
    BY <1>1 DEF Cycle, Latch, pipe_cntl, D_stall, D_bubble
  <1>4. /\ Mispredicted \/ LoadUse => E' = BubbleE
        /\ ~Mispredicted /\ ~LoadUse => E' = nextE
    BY DEF Cycle, Latch, pipe_cntl, E_stall, E_bubble
  <1>5. /\ m_stat \in Exceptional => M' = BubbleM
        /\ m_stat \notin Exceptional => M' = nextM
    BY DEF Cycle, Latch, pipe_cntl, M_stall, M_bubble
  <1>6. W' = nextW
    BY DEF Cycle, Latch, pipe_cntl, W_stall, W_bubble
  <1> QED
    BY <1>2, <1>3, <1>4, <1>5, <1>6

\* A call of sim_step_pipe is followed by another one only while write-back is
\* fine; it counts as an instruction whatever it is.
LEMMA RunPsimGoesOn ==
  ASSUME RunPsim
  PROVE  /\ sim = "psim" /\ phase = "run"
         /\ W.stat \in {"AOK", "BUB"}
         /\ icount' = icount + 1 /\ icount' < InstrLimit
         /\ ccount' = ccount + 1
         /\ Cycle(InstrLimit - icount')
         /\ UNCHANGED <<sim, phase>>
  <1>1. sim = "psim" /\ Status = Stat /\ Stat # "BUB"
    BY DEF RunPsim, Status, Stat
  <1>2. W.stat \in {"AOK", "BUB"}
    BY <1>1 DEF RunPsim, Run, GoesOn, Stat
  <1> QED
    BY <1>1, <1>2 DEF RunPsim, Run, Return
--------------------------------------------------------------------------
\* A cycle moves each register's instruction to the next one with the status and
\* the effects it may have there.
LEMMA StagesOKKept ==
  ASSUME StagesOK, NEW n, Cycle(n), W.stat \notin Exceptional
  PROVE  StagesOK'
  <1> USE DEF StagesOK, StageOK, WriteBackOK, Status5, Exceptional, Effectless,
              I_NOP, I_HALT, I_POP2, I_JM
  <1>1. F'.stat \in {"AOK", "BUB"}
    BY CycleLatches DEF nextF
  <1>2. StageOK(nextD)
    BY DEF nextD, f_stat, f_icode, instr_valid, SADR
  <1>3. StageOK(D')
    BY CycleLatches, <1>2 DEF BubbleD
  <1>4. StageOK(E')
    BY CycleLatches DEF BubbleE, nextE
  <1>5. StageOK(M')
    BY CycleLatches DEF BubbleM, nextM
  <1>6. m_stat \in Status5 /\ (m_stat = "BUB" => M.stat = "BUB")
    BY DEF m_stat, SADR
  <1>7. WriteBackOK'
    BY CycleLatches, <1>6 DEF nextW
  <1> QED
    BY <1>1, <1>3, <1>4, <1>5, <1>7

\* A ret, or a jump that is not taken, leaves bubbles behind.
LEMMA WrongPathCancelledKept ==
  ASSUME StagesOK, WrongPathCancelled, NEW n, Cycle(n), W.stat \notin Exceptional
  PROVE  WrongPathCancelled'
  <1> USE DEF I_RET, I_JMP, I_NOP, I_MRMOVQ, I_POPQ
  <1>1. E'.icode = I_RET => D'.stat = "BUB"
    BY CycleLatches DEF BubbleE, BubbleD, nextE, Returning
  <1>2. M'.icode = I_RET => D'.stat = "BUB" /\ E'.stat = "BUB"
    <2> SUFFICES ASSUME M'.icode = I_RET  PROVE D'.stat = "BUB" /\ E'.stat = "BUB"
      OBVIOUS
    <2>1. E.icode = I_RET
      BY CycleLatches DEF BubbleM, nextM
    <2>2. ~LoadUse /\ ~Mispredicted /\ Returning /\ D.stat = "BUB"
      BY <2>1 DEF LoadUse, Mispredicted, Returning, WrongPathCancelled
    <2> QED
      BY <2>2, CycleLatches DEF BubbleD, nextE
  <1>3. M'.icode = I_JMP /\ ~M'.cnd => D'.stat = "BUB" /\ E'.stat = "BUB"
    <2> SUFFICES ASSUME M'.icode = I_JMP, ~M'.cnd  PROVE D'.stat = "BUB" /\ E'.stat = "BUB"
      OBVIOUS
    <2>1. Mispredicted /\ ~LoadUse
      BY CycleLatches DEF BubbleM, nextM, Mispredicted, LoadUse
    <2> QED
      BY <2>1, CycleLatches DEF BubbleD, BubbleE
  <1> QED
    BY <1>1, <1>2, <1>3 DEF WrongPathCancelled

\* Whatever empties a stage leaves the instruction that does it in the pipeline.
LEMMA SomeStageOccupied ==
  ASSUME StagesOK, NEW n, Cycle(n), W.stat \notin Exceptional
  PROVE  \E stage \in {D.stat, E.stat, M.stat, W.stat}' : stage # "BUB"
  <1>1. CASE m_stat \in Exceptional
    BY <1>1, CycleLatches DEF nextW, Exceptional
  <1>2. CASE m_stat \notin Exceptional
    <2>1. M' = nextM
      BY <1>2, CycleLatches
    <2>2. CASE LoadUse \/ Mispredicted
      <3>1. E.icode # I_NOP
        BY <2>2 DEF LoadUse, Mispredicted, I_NOP, I_MRMOVQ, I_POPQ, I_JMP
      <3>2. M'.stat # "BUB"
        BY <3>1, <2>1 DEF nextM, StagesOK, StageOK
      <3> QED
        BY <3>2
    <2>3. CASE ~LoadUse /\ ~Mispredicted /\ Returning
      <3>1. CASE D.icode = I_RET
        BY <3>1, <2>3, CycleLatches DEF nextE, StagesOK, StageOK, I_RET, I_NOP
      <3>2. CASE E.icode = I_RET
        BY <3>2, <2>1 DEF nextM, StagesOK, StageOK, I_RET, I_NOP
      <3>3. CASE M.icode = I_RET
        BY <3>3, CycleLatches DEF nextW, m_stat, SADR, StagesOK, StageOK, I_RET, I_NOP
      <3> QED
        BY <2>3, <3>1, <3>2, <3>3 DEF Returning
    <2>4. CASE ~LoadUse /\ ~Mispredicted /\ ~Returning
      BY <2>4, CycleLatches DEF nextD, f_stat, SADR
    <2> QED
      BY <2>2, <2>3, <2>4
  <1> QED
    BY <1>1, <1>2

\* sim_step_pipe suspends the condition codes only in the last two cycles.
LEMMA CcInStaysKept ==
  ASSUME ControlInv, RunPsim
  PROVE  CcInKept'
  <1> DEFINE r == InstrLimit - icount'
             ahead == (IF W.stat # "BUB" THEN 1 ELSE 0) + (IF m_stat # "BUB" THEN 1 ELSE 0)
  <1>1. icount' \in Nat /\ r >= 1 /\ Cycle(r) /\ W.stat \notin Exceptional
    BY RunPsimGoesOn, LimitAssumption DEF ControlInv, Exceptional
  <1>2. ahead < r => cc' = ccIn'
    BY <1>1 DEF Cycle, UpdateState
  <1>3. r \in Int
    BY <1>1, LimitAssumption
  <1>4. ahead < r \/ r <= 1 \/ (r = 2 /\ m_stat # "BUB")
    <2> HIDE DEF r
    <2> QED
      BY <1>3
  <1>5. W'.stat = m_stat
    BY <1>1, CycleLatches DEF nextW
  <1> QED
    BY <1>2, <1>4, <1>5, LimitAssumption DEF CcInKept
--------------------------------------------------------------------------
\* The pipe is empty at first.
THEOREM ControlInit == Init => ControlInv
  <1> SUFFICES ASSUME Init PROVE ControlInv
    OBVIOUS
  <1> USE DEF Init, PipeInit
  <1>1. StagesOK
    BY DEF StagesOK, StageOK, WriteBackOK, Status5, Exceptional,
           BubbleF, BubbleD, BubbleE, BubbleM, BubbleW
  <1>2. WrongPathCancelled
    BY DEF WrongPathCancelled, BubbleE, BubbleM, I_NOP, I_RET, I_JMP
  <1>3. MemIsFunction
    BY ImagesAssumption DEF MemIsFunction
  <1> QED
    BY <1>1, <1>2, <1>3 DEF ControlInv, NeverDrained, CcInKept

\* Whatever else the simulators do keeps the invariant.
LEMMA UnchangedPipe ==
  ASSUME ControlInv, UNCHANGED pipeVars, UNCHANGED <<sim, icount>>,
         ccount' \in Nat, phase' = "run" => phase = "run" /\ ccount' = ccount
  PROVE  ControlInv'
  BY DEF ControlInv, pipeVars, StagesOK, StageOK, WriteBackOK, WrongPathCancelled,
         NeverDrained, CcInKept, MemIsFunction

\* Every step of the simulators keeps it: a cycle, a ssim run, an end of a run, a check.
THEOREM ControlStep == ControlInv /\ [Next]_vars => ControlInv'
  <1> SUFFICES ASSUME ControlInv, [Next]_vars PROVE ControlInv'
    OBVIOUS
  <1>1. CASE RunPsim
    <2>1. /\ W.stat \notin Exceptional /\ Cycle(InstrLimit - icount')
          /\ icount' \in Nat /\ ccount' \in Nat
      BY <1>1, RunPsimGoesOn DEF ControlInv, Exceptional
    <2>2. StagesOK' /\ WrongPathCancelled'
      BY <2>1, StagesOKKept, WrongPathCancelledKept DEF ControlInv
    <2>3. NeverDrained'
      BY <2>1, SomeStageOccupied DEF ControlInv, NeverDrained
    <2>4. CcInKept'
      BY <1>1, CcInStaysKept
    <2>5. MemIsFunction'
      BY <2>1, SetWordIsFunction DEF Cycle, UpdateState, ControlInv, MemIsFunction
    <2> QED
      BY <2>1, <2>2, <2>3, <2>4, <2>5 DEF ControlInv
  <1>2. CASE RunSsim
    <2>1. sim = "ssim" /\ sim' = "ssim" /\ UNCHANGED <<F, D, E, M, W>>
      BY <1>2 DEF RunSsim, Run
    <2>2. icount' \in Nat /\ ccount' \in Nat
      BY <1>2 DEF RunSsim, Run, Return, ControlInv
    <2>3. MemIsFunction'
      BY <1>2, SetWordIsFunction DEF RunSsim, S!SeqCycle, S!SetWord, SetWord, ControlInv, MemIsFunction
    <2> QED
      BY <2>1, <2>2, <2>3 DEF ControlInv, StagesOK, StageOK, WriteBackOK, WrongPathCancelled,
                              NeverDrained, CcInKept
  <1>3. CASE EndRun
    <2>1. UNCHANGED <<pipeVars, sim>> /\ phase' = "check"
      BY <1>3 DEF EndRun
    <2>2. icount \in Nat /\ icount' \in Nat /\ icount' >= icount /\ ccount' \in Nat
      BY <1>3 DEF EndRun, Return, ControlInv
    <2>3. UNCHANGED <<sim, cc, ccIn, W>> /\ CcInKept
      BY <2>1 DEF ControlInv, pipeVars
    <2>4. /\ InstrLimit - icount <= 1 => InstrLimit - icount' <= 1
          /\ InstrLimit - icount = 2 => InstrLimit - icount' <= 1 \/ InstrLimit - icount' = 2
      BY <2>2, LeftShrinks
    <2>5. CcInKept'
      BY <2>3, <2>4 DEF CcInKept
    <2> QED
      BY <2>1, <2>2, <2>5 DEF ControlInv, pipeVars, StagesOK, StageOK, WriteBackOK, WrongPathCancelled,
                        NeverDrained, MemIsFunction
  <1>4. CASE CheckStep \/ Compare \/ UNCHANGED vars
    <2>1. /\ UNCHANGED pipeVars /\ UNCHANGED <<sim, icount, ccount>>
          /\ phase' = phase \/ phase' = "done"
      BY <1>4 DEF CheckStep, Compare, vars, simVars
    <2> QED
      BY <2>1, UnchangedPipe DEF ControlInv
  <1> QED
    BY <1>1, <1>2, <1>3, <1>4 DEF Next
--------------------------------------------------------------------------
\* The run of the simulators, whatever is accounted beside it.
LEMMA PropImpliesSpec == PropSpec => Spec
  <1>1. PropInit => Init
    BY DEF PropInit
  <1>2. [PropNext]_propVars => [Next]_vars
    BY DEF PropNext, Next, propVars
  <1> QED
    BY <1>1, <1>2, PTL DEF PropSpec, Spec

\* The invariant of the control logic holds for every program and every run.
THEOREM ControlInvariant == Spec => []ControlInv
  BY ControlInit, ControlStep, PTL DEF Spec

\* No pipe register is ever asked to stall and to take a bubble at once, so that
\* no stage ever holds the status PIP.
THEOREM NoPipeErrorHolds == PropSpec => []NoPipeError
  <1>1. ControlInv => NoPipeError
    BY DEF ControlInv, StagesOK, StageOK, WriteBackOK, NoPipeError, Status5
  <1> QED
    BY <1>1, PropImpliesSpec, ControlInvariant, PTL

\* Behind a ret and a mispredicted jump the stages are empty, for every program.
THEOREM WrongPathIsCancelled == PropSpec => []WrongPathCancelled
  <1>1. ControlInv => WrongPathCancelled
    BY DEF ControlInv
  <1> QED
    BY <1>1, PropImpliesSpec, ControlInvariant, PTL

\* Some stage behind fetch always holds an instruction.
THEOREM PipelineNeverDrains == PropSpec => []NeverDrained
  <1>1. ControlInv => NeverDrained
    BY DEF ControlInv
  <1> QED
    BY <1>1, PropImpliesSpec, ControlInvariant, PTL

\* A faulting instruction in the memory stage stops the one behind it from
\* setting the condition codes, and itself from writing; cc_in, which the last
\* cycles of a run may not copy, does not slip in later.
THEOREM FaultFreezes == PropSpec => FaultFreezesState
  <1>1. ASSUME ControlInv, [Next]_vars, sim = "psim", memStat # "AOK"
        PROVE  mem' = mem /\ cc' = cc
    <2>1. CASE RunPsim
      <3> DEFINE r == InstrLimit - icount'
                 ahead == (IF W.stat # "BUB" THEN 1 ELSE 0) + (IF m_stat # "BUB" THEN 1 ELSE 0)
      <3>1. /\ icount \in Nat /\ icount' = icount + 1 /\ icount' < InstrLimit
            /\ Cycle(r) /\ W.stat \in {"AOK", "BUB"} /\ W.stat \notin Exceptional
        BY <1>1, <2>1, RunPsimGoesOn DEF ControlInv, Exceptional
      <3>2. m_stat \in Exceptional
        BY <1>1, <3>1 DEF memStat
      <3>3. ccIn' = ccIn
        BY <3>1, <3>2 DEF Cycle, UpdateState, set_cc
      <3>4. cc' = cc
        <4>1. CASE ccIn = cc
          BY <3>1, <3>3, <4>1 DEF Cycle, UpdateState
        <4>2. CASE ccIn # cc
          <5>1. W.stat # "BUB" /\ r = 1
            BY <1>1, <3>1, <4>2, LimitAssumption DEF ControlInv, CcInKept
          <5> QED
            BY <5>1, <3>1 DEF Cycle, UpdateState
        <4> QED
          BY <4>1, <4>2
      <3>5. mem' = mem
        <4>1. CASE ~mem_write
          BY <4>1, <3>1 DEF Cycle, UpdateState
        <4>2. CASE mem_write
          <5>1. ~InMem(mem_addr, WordBytes)
            <6>1. M.icode \notin Effectless
              BY <4>2 DEF mem_write, Effectless, I_RMMOVQ, I_PUSHQ, I_CALL, I_HALT, I_NOP,
                          I_POP2, I_JM
            <6> QED
              BY <1>1, <6>1, <3>2 DEF m_stat, dmem_error, ControlInv, StagesOK, StageOK
          <5>2. SetWord(mem, mem_addr, M.valA) = [a \in DOMAIN mem |-> mem[a]]
            BY <5>1 DEF SetWord
          <5> QED
            BY <1>1, <5>2, <3>1 DEF Cycle, UpdateState, ControlInv, MemIsFunction
        <4> QED
          BY <4>1, <4>2
      <3> QED
        BY <3>4, <3>5
    <2>2. CASE ~RunPsim
      <3>1. UNCHANGED <<mem, cc>>
        BY <1>1, <2>2 DEF Next, RunSsim, EndRun, CheckStep, Compare, vars, pipeVars
      <3> QED
        BY <3>1
    <2> QED
      BY <2>1, <2>2
  <1> QED
    BY <1>1, PropImpliesSpec, ControlInvariant, PTL DEF Spec, FaultFreezesState
--------------------------------------------------------------------------
\* Recursive functions and sums, by well-founded induction on their domain.

\* What holds of 0 and of each next number holds up to n.
LEMMA UpTo ==
  ASSUME NEW n \in Nat, NEW G, 0 \in G, \A i \in 0 .. (n - 1) : i \in G => i + 1 \in G
  PROVE  0 .. n \subseteq G
<1> DEFINE T == {i \in Nat : i <= n /\ i \notin G}
<1> SUFFICES ASSUME T # {} PROVE FALSE
  OBVIOUS
<1>1. PICK x \in T : \A y \in T : ~ (<<y, x>> \in OpToRel(<, Nat))
  BY NatLessThanWellFounded, WFMin
<1>2. x \in Nat /\ x <= n /\ x \notin G /\ x # 0
  OBVIOUS
<1>3. x - 1 \in Nat /\ x - 1 < x /\ x - 1 <= n - 1
  BY <1>2
<1>4. <<x - 1, x>> \in OpToRel(<, Nat)
  BY <1>2, <1>3 DEF OpToRel
<1>5. x - 1 \notin T
  BY <1>1, <1>4
<1>6. x - 1 \in G
  BY <1>2, <1>3, <1>5
<1> QED
  BY <1>2, <1>3, <1>6

\* Moves from c, the i-th one by move[i], stay in V.
Moves(n, V, c, move) ==
  \E g \in [0 .. n -> V] : g[0] = c /\ \A i \in 1 .. n : g[i] = move[i][g[i-1]]

\* Every finite recursion has a solution.
LEMMA MovesExist ==
  ASSUME NEW n \in Nat, NEW V, NEW c \in V, NEW move \in [1 .. n -> [V -> V]]
  PROVE  Moves(n, V, c, move)
<1> DEFINE From(k, g) == g[0] = c /\ \A i \in 1 .. k : g[i] = move[i][g[i-1]]
           G == {k \in 0 .. n : \E g \in [0 .. k -> V] : From(k, g)}
<1>1. 0 \in G
  <2> DEFINE h == [i \in 0 .. 0 |-> c]
  <2>1. h \in [0 .. 0 -> V] /\ From(0, h)
    OBVIOUS
  <2> HIDE DEF h, From
  <2> QED
    BY <2>1
<1>2. ASSUME NEW k \in 0 .. (n - 1), k \in G  PROVE k + 1 \in G
  <2>1. PICK g \in [0 .. k -> V] : From(k, g)
    BY <1>2
  <2> DEFINE h == [i \in 0 .. (k + 1) |-> IF i <= k THEN g[i] ELSE move[k + 1][g[k]]]
  <2>2. k \in 0 .. k /\ k + 1 \in 1 .. n /\ g[k] \in V /\ move[k + 1][g[k]] \in V
    OBVIOUS
  <2>3. h \in [0 .. (k + 1) -> V]
    BY <2>2
  <2>4. From(k + 1, h)
    <3>1. h[0] = c
      BY <2>1
    <3>2. ASSUME NEW i \in 1 .. (k + 1) PROVE h[i] = move[i][h[i-1]]
      <4>1. CASE i <= k
        BY <2>1, <4>1
      <4>2. CASE i = k + 1
        <5>1. h[k + 1] = move[k + 1][g[k]] /\ h[k] = g[k] /\ i - 1 = k
          BY <4>2, <2>2
        <5> QED
          BY <4>2, <5>1
      <4> QED
        BY <4>1, <4>2
    <3> QED
      BY <3>1, <3>2
  <2> HIDE DEF h, From
  <2> QED
    BY <2>2, <2>3, <2>4
<1>3. 0 .. n \subseteq G
  BY <1>1, <1>2, UpTo
<1> QED
  BY <1>3 DEF Moves

\* The powers of two.
LEMMA Powers ==
  /\ Pow2 \in [0 .. (8 * WordBytes) -> Nat \ {0}]
  /\ Pow2[0] = 1
  /\ \A i \in 1 .. (8 * WordBytes) : Pow2[i] = 2 * Pow2[i-1]
<1> DEFINE n == 8 * WordBytes
           Body(f) == [i \in 0 .. n |-> IF i = 0 THEN 1 ELSE 2 * f[i-1]]
           P == Nat \ {0}
           move == [i \in 1 .. n |-> [x \in P |-> 2 * x]]
<1>1. n \in Nat
  BY SizesAssumption
<1>2. move \in [1 .. n -> [P -> P]]
  OBVIOUS
<1>3. PICK g \in [0 .. n -> P] : g[0] = 1 /\ \A i \in 1 .. n : g[i] = move[i][g[i-1]]
  <2>1. 1 \in P
    OBVIOUS
  <2> HIDE DEF move, P, n
  <2>2. Moves(n, P, 1, move)
    BY <1>1, <1>2, <2>1, MovesExist
  <2> QED
    BY <2>2 DEF Moves
<1>4. g = Body(g)
  <2> HIDE DEF n
  <2>1. \A i \in 1 .. n : i - 1 \in 0 .. n /\ g[i-1] \in P /\ g[i] = 2 * g[i-1]
    <3> SUFFICES ASSUME NEW i \in 1 .. n
                 PROVE  i - 1 \in 0 .. n /\ g[i-1] \in P /\ g[i] = 2 * g[i-1]
      OBVIOUS
    <3>1. i - 1 \in 0 .. n /\ g[i-1] \in P
      BY <1>1, <1>3
    <3>2. move[i] = [x \in P |-> 2 * x]
      OBVIOUS
    <3>3. g[i] = move[i][g[i-1]]
      BY <1>3
    <3> HIDE DEF move
    <3> QED
      BY <3>1, <3>2, <3>3
  <2> QED
    BY <1>1, <1>3, <2>1
<1>5. Pow2 = Body(Pow2)
  BY <1>4 DEF Pow2
<1> HIDE DEF n
<1>6. Pow2[0] = 1 /\ \A i \in 1 .. n : Pow2[i] = 2 * Pow2[i-1]
  BY <1>1, <1>5
<1> DEFINE G == {i \in 0 .. n : Pow2[i] \in P}
<1>7. 0 .. n \subseteq G
  <2>1. 0 \in G
    BY <1>1, <1>6
  <2>2. \A i \in 0 .. (n - 1) : i \in G => i + 1 \in G
    BY <1>1, <1>6
  <2> HIDE DEF G
  <2> QED
    BY <1>1, <2>1, <2>2, UpTo
<1>8. Pow2 \in [0 .. n -> P]
  BY <1>5, <1>7
<1> QED
  BY <1>6, <1>8 DEF n

\* A sum of integers that Bytes and BitAnd make, term by term.
SumsUp(n, t, f) == f = [i \in 0 .. n |-> IF i = 0 THEN 0 ELSE f[i-1] + t[i]]

\* A running sum of integers exists.
LEMMA SumExists ==
  ASSUME NEW n \in Nat, NEW t \in [1 .. n -> Int]
  PROVE  \E f : SumsUp(n, t, f)
<1> DEFINE move == [i \in 1 .. n |-> [x \in Int |-> x + t[i]]]
<1>1. move \in [1 .. n -> [Int -> Int]]
  OBVIOUS
<1>2. PICK g \in [0 .. n -> Int] : g[0] = 0 /\ \A i \in 1 .. n : g[i] = move[i][g[i-1]]
  <2> DEFINE I == Int
  <2>1. 0 \in I /\ move \in [1 .. n -> [I -> I]]
    BY <1>1
  <2> HIDE DEF move, I
  <2>2. Moves(n, I, 0, move)
    BY <2>1, MovesExist
  <2> QED
    BY <2>2 DEF Moves, I
<1>3. g = [i \in 0 .. n |-> IF i = 0 THEN 0 ELSE g[i-1] + t[i]]
  <2>1. ASSUME NEW i \in 1 .. n PROVE i - 1 \in 0 .. n /\ g[i] = g[i-1] + t[i]
    <3>1. i - 1 \in 0 .. n /\ g[i-1] \in Int
      BY <1>2
    <3>2. move[i] = [x \in Int |-> x + t[i]]
      OBVIOUS
    <3>3. g[i] = move[i][g[i-1]]
      BY <1>2
    <3> HIDE DEF move
    <3> QED
      BY <3>1, <3>2, <3>3
  <2> QED
    BY <1>2, <2>1
<1> QED
  BY <1>3 DEF SumsUp

\* What satisfies the equations of a running sum consists of integers, each the one
\* before it plus a term.
LEMMA RunningSum ==
  ASSUME NEW n \in Nat, NEW t \in [1 .. n -> Int], NEW f, SumsUp(n, t, f)
  PROVE  /\ f \in [0 .. n -> Int]
         /\ f[0] = 0
         /\ \A i \in 1 .. n : f[i] = f[i-1] + t[i]
<1>4. f = [i \in 0 .. n |-> IF i = 0 THEN 0 ELSE f[i-1] + t[i]]
  BY DEF SumsUp
<1>5. f[0] = 0 /\ \A i \in 1 .. n : f[i] = f[i-1] + t[i]
  <2>1. f[0] = 0
    BY <1>4
  <2>2. ASSUME NEW i \in 1 .. n PROVE f[i] = f[i-1] + t[i]
    BY <1>4
  <2> QED
    BY <2>1, <2>2
<1> DEFINE G == {i \in 0 .. n : f[i] \in Int}
<1>6. 0 .. n \subseteq G
  <2>1. 0 \in G
    BY <1>5
  <2>2. ASSUME NEW i \in 0 .. (n - 1), i \in G PROVE i + 1 \in G
    <3>1. i + 1 \in 1 .. n /\ i + 1 - 1 = i /\ f[i] \in Int /\ t[i + 1] \in Int
      BY <2>2
    <3>2. f[i + 1] = f[i + 1 - 1] + t[i + 1]
      BY <1>5, <3>1
    <3> QED
      BY <3>1, <3>2
  <2> HIDE DEF G
  <2> QED
    BY <2>1, <2>2, UpTo
<1> QED
  BY <1>4, <1>5, <1>6
--------------------------------------------------------------------------
\* Words.

\* Eight doublings.
LEMMA Pow256 ==
  ASSUME NEW k \in Nat, k < WordBytes
  PROVE  /\ Pow2[8 * k] \in Nat \ {0}
         /\ Pow2[8 * (k + 1)] = 256 * Pow2[8 * k]
<1> DEFINE n == 8 * WordBytes
           j == 8 * k
<1>1. n \in Nat /\ j \in Nat /\ j + 8 <= n
  BY SizesAssumption
<1>2. 8 * (k + 1) = j + 8
  OBVIOUS
<1>3. /\ Pow2 \in [0 .. n -> Nat \ {0}]
      /\ \A i \in 1 .. n : Pow2[i] = 2 * Pow2[i-1]
  BY Powers
<1> HIDE DEF n, j
<1>4. \A d \in 0 .. 7 : Pow2[j + d + 1] = 2 * Pow2[j + d]
  <2> SUFFICES ASSUME NEW d \in 0 .. 7 PROVE Pow2[j + d + 1] = 2 * Pow2[j + d]
    OBVIOUS
  <2> DEFINE i == j + d + 1
  <2>1. i \in 1 .. n /\ i - 1 = j + d
    BY <1>1
  <2> HIDE DEF i
  <2>2. Pow2[i] = 2 * Pow2[i-1]
    BY <2>1, <1>3
  <2> QED
    BY <2>1, <2>2 DEF i
<1>5. Pow2[j] \in Nat \ {0}
  BY <1>1, <1>3
<1>6. Pow2[j + 8] = 256 * Pow2[j]
  <2>1. /\ Pow2[j + 1] = 2 * Pow2[j] /\ Pow2[j + 2] = 2 * Pow2[j + 1]
        /\ Pow2[j + 3] = 2 * Pow2[j + 2] /\ Pow2[j + 4] = 2 * Pow2[j + 3]
        /\ Pow2[j + 5] = 2 * Pow2[j + 4] /\ Pow2[j + 6] = 2 * Pow2[j + 5]
        /\ Pow2[j + 7] = 2 * Pow2[j + 6] /\ Pow2[j + 8] = 2 * Pow2[j + 7]
    <3>1. /\ Pow2[j + 0 + 1] = 2 * Pow2[j + 0] /\ Pow2[j + 1 + 1] = 2 * Pow2[j + 1]
          /\ Pow2[j + 2 + 1] = 2 * Pow2[j + 2] /\ Pow2[j + 3 + 1] = 2 * Pow2[j + 3]
          /\ Pow2[j + 4 + 1] = 2 * Pow2[j + 4] /\ Pow2[j + 5 + 1] = 2 * Pow2[j + 5]
          /\ Pow2[j + 6 + 1] = 2 * Pow2[j + 6] /\ Pow2[j + 7 + 1] = 2 * Pow2[j + 7]
      BY <1>4
    <3>2. /\ j + 0 = j /\ j + 0 + 1 = j + 1 /\ j + 1 + 1 = j + 2 /\ j + 2 + 1 = j + 3 /\ j + 3 + 1 = j + 4
          /\ j + 4 + 1 = j + 5 /\ j + 5 + 1 = j + 6 /\ j + 6 + 1 = j + 7 /\ j + 7 + 1 = j + 8
      BY <1>1
    <3> QED
      BY <3>1, <3>2
  <2>2. Pow2[j] \in Int
    BY <1>5
  <2> QED
    BY <2>1, <2>2
<1> QED
  BY <1>2, <1>5, <1>6 DEF j

\* The modulus is a positive number, beyond every address.
LEMMA ModulusPositive ==
  /\ Modulus \in Nat \ {0}
  /\ MemLen \in Nat /\ WordBytes \in Nat \ {0}
  /\ 2 * MemLen <= Modulus
BY Powers, SizesAssumption DEF Modulus

\* Wrap makes a word of every number.
LEMMA WrapIsWord == \A x \in Int : Wrap(x) \in Word
  <1> SUFFICES ASSUME NEW x \in Int PROVE Wrap(x) \in Word
    OBVIOUS
  <1> QED
    BY ModulusPositive DEF Wrap, Word

\* A word is a number that Wrap leaves alone.
LEMMA WrapOfWord == \A x \in Word : x \in Int /\ Wrap(x) = x
BY ModulusPositive DEF Wrap, Word

\* A number is made of its quotient and its remainder in one way.
LEMMA QuotientUnique ==
  ASSUME NEW m \in Nat \ {0}, NEW t \in Int, NEW k \in 0 .. m - 1
  PROVE  (m * t + k) % m = k /\ (m * t + k) \div m = t
OBVIOUS

\* Wrapping before and after.
LEMMA WrapWrap == \A x, y \in Int : Wrap(Wrap(x) + y) = Wrap(x + y)
<1> SUFFICES ASSUME NEW x \in Int, NEW y \in Int PROVE ((x % Modulus) + y) % Modulus = (x + y) % Modulus
  BY DEF Wrap
<1> DEFINE q == x \div Modulus
           r == x % Modulus
           q2 == (r + y) \div Modulus
           r2 == (r + y) % Modulus
<1>1. x = Modulus * q + r /\ q \in Int /\ r \in Int
  BY ModulusPositive
<1>2. r + y = Modulus * q2 + r2 /\ q2 \in Int /\ r2 \in 0 .. (Modulus - 1)
  BY ModulusPositive, <1>1
<1> HIDE DEF q, r, q2, r2
<1>3. x + y = Modulus * (q + q2) + r2
  BY <1>1, <1>2, ModulusPositive
<1>4. (x + y) % Modulus = r2
  <2> DEFINE t == q + q2
  <2>1. t \in Int /\ x + y = Modulus * t + r2
    BY <1>1, <1>2, <1>3
  <2> HIDE DEF t
  <2> QED
    BY <2>1, <1>2, ModulusPositive, QuotientUnique
<1> QED
  BY <1>4 DEF r, r2
--------------------------------------------------------------------------
\* Bytes and words in memory.

\* A word in memory is a word.
LEMMA BytesWord ==
  ASSUME NEW m \in Memory, NEW p \in Nat, p + WordBytes <= MemLen
  PROVE  Bytes(m, p, WordBytes) \in Word
<1> DEFINE n == WordBytes
           t == [i \in 1 .. n |-> m[p + i - 1] * Pow2[8 * (i-1)]]
           f == CHOOSE h : h = [i \in 0 .. n |-> IF i = 0 THEN 0 ELSE h[i-1] + m[p + i - 1] * Pow2[8 * (i-1)]]
           G == {i \in 0 .. n : f[i] \in 0 .. (Pow2[8 * i] - 1)}
<1>1. n \in Nat
  BY SizesAssumption
<1>2. ASSUME NEW i \in 1 .. n
      PROVE  /\ m[p + i - 1] \in 0 .. 255
             /\ Pow2[8 * (i-1)] \in Nat \ {0}
             /\ Pow2[8 * i] = 256 * Pow2[8 * (i-1)]
  <2>1. p + i - 1 \in 0 .. (MemLen - 1)
    BY <1>1, SizesAssumption
  <2>2. i - 1 \in Nat /\ i - 1 < WordBytes /\ i - 1 + 1 = i
    BY <1>1
  <2>3. m[p + i - 1] \in Byte
    BY <2>1 DEF Memory
  <2> HIDE DEF n
  <2> QED
    BY <2>2, <2>3, Pow256 DEF Byte
<1>3. t \in [1 .. n -> Int]
  <2>1. ASSUME NEW i \in 1 .. n PROVE m[p + i - 1] * Pow2[8 * (i-1)] \in Int
    BY <1>2
  <2> QED
    BY <2>1
<1>4. SumsUp(n, t, f)
  <2>0. ASSUME NEW h
        PROVE  [i \in 0 .. n |-> IF i = 0 THEN 0 ELSE h[i-1] + t[i]]
                 = [i \in 0 .. n |-> IF i = 0 THEN 0 ELSE h[i-1] + m[p + i - 1] * Pow2[8 * (i-1)]]
    <3>1. \A i \in 0 .. n : i # 0 => t[i] = m[p + i - 1] * Pow2[8 * (i-1)]
      BY <1>1
    <3> HIDE DEF t
    <3> QED
      BY <3>1
  <2>1. PICK h : SumsUp(n, t, h)
    <3> HIDE DEF n, t
    <3> QED
      BY <1>1, <1>3, SumExists
  <2>2. h = [i \in 0 .. n |-> IF i = 0 THEN 0 ELSE h[i-1] + m[p + i - 1] * Pow2[8 * (i-1)]]
    BY <2>0, <2>1 DEF SumsUp
  <2>3. f = [i \in 0 .. n |-> IF i = 0 THEN 0 ELSE f[i-1] + m[p + i - 1] * Pow2[8 * (i-1)]]
    BY <2>2
  <2> HIDE DEF f
  <2> QED
    BY <2>0, <2>3 DEF SumsUp
<1> HIDE DEF f
<1>5. f \in [0 .. n -> Int] /\ f[0] = 0 /\ \A i \in 1 .. n : f[i] = f[i-1] + t[i]
  <2> HIDE DEF n, t
  <2> QED
    BY <1>1, <1>3, <1>4, RunningSum
<1>6. 0 .. n \subseteq G
  <2>1. 0 \in G
    BY <1>5, <1>1, Powers
  <2>2. ASSUME NEW i \in 0 .. (n - 1), i \in G PROVE i + 1 \in G
    <3> DEFINE k == i + 1
    <3>1. k \in 1 .. n /\ k - 1 = i
      BY <1>1
    <3> HIDE DEF k
    <3>2. f[k] = f[i] + t[k] /\ t[k] = m[p + k - 1] * Pow2[8 * i]
      BY <3>1, <1>5
    <3>3. m[p + k - 1] \in 0 .. 255 /\ Pow2[8 * i] \in Nat \ {0} /\ Pow2[8 * k] = 256 * Pow2[8 * i]
      BY <3>1, <1>2
    <3>4. f[i] \in 0 .. (Pow2[8 * i] - 1)
      BY <2>2
    <3>5. \A b \in 0 .. 255, q \in Nat \ {0} : \A x \in 0 .. (q - 1) : x + b * q \in 0 .. (256 * q - 1)
      <4> SUFFICES ASSUME NEW b \in 0 .. 255, NEW q \in Nat \ {0}, NEW x \in 0 .. (q - 1)
                   PROVE  x + b * q \in 0 .. (256 * q - 1)
        OBVIOUS
      <4>1. b * q \in Int /\ b * q >= 0 /\ b * q <= 255 * q
        OBVIOUS
      <4> QED
        BY <4>1
    <3>6. f[k] \in 0 .. (Pow2[8 * k] - 1)
      <4>1. f[i] + m[p + k - 1] * Pow2[8 * i] \in 0 .. (256 * Pow2[8 * i] - 1)
        BY <3>3, <3>4, <3>5
      <4> QED
        BY <4>1, <3>2, <3>3
    <3> QED
      BY <3>1, <3>6 DEF k
  <2> HIDE DEF G
  <2> QED
    BY <1>1, <2>1, <2>2, UpTo
<1>7. f[n] \in Word
  BY <1>1, <1>6 DEF Word, Modulus
<1> QED
  BY <1>7 DEF Bytes, f

\* What get_word_val reads is a word.
LEMMA GetWordWord ==
  ASSUME NEW m \in Memory, NEW p \in Word
  PROVE  GetWord(m, p, 0) \in Word
<1>1. p \in Nat /\ 0 \in Word
  BY ModulusPositive DEF Word
<1> QED
  BY <1>1, BytesWord DEF GetWord, InMem

\* What get_byte_val reads is a byte.
LEMMA GetByteByte ==
  ASSUME NEW m \in Memory, NEW p \in Word, NEW d \in Byte
  PROVE  GetByte(m, p, d) \in Byte
<1>1. p \in Nat
  BY ModulusPositive DEF Word
<1> QED
  BY <1>1, SizesAssumption DEF GetByte, InMem, Memory

\* What a word is depends on its bytes only.
LEMMA SameBytes ==
  ASSUME NEW m1, NEW m2, NEW p, NEW n \in Nat, \A i \in 1 .. n : m1[p + i - 1] = m2[p + i - 1]
  PROVE  Bytes(m1, p, n) = Bytes(m2, p, n)
<1> DEFINE P1(f) == f = [i \in 0 .. n |-> IF i = 0 THEN 0 ELSE f[i-1] + m1[p + i - 1] * Pow2[8 * (i-1)]]
           P2(f) == f = [i \in 0 .. n |-> IF i = 0 THEN 0 ELSE f[i-1] + m2[p + i - 1] * Pow2[8 * (i-1)]]
<1>1. \A f : P1(f) <=> P2(f)
  OBVIOUS
<1>2. (CHOOSE f : P1(f)) = (CHOOSE f : P2(f))
  <2> HIDE DEF P1, P2
  <2> QED
    BY <1>1, Zenon
<1> QED
  BY <1>2 DEF Bytes

\* set_word_val leaves a memory of bytes.
LEMMA SetWordMemory ==
  ASSUME NEW m \in Memory, NEW p \in Word, NEW v \in Word
  PROVE  SetWord(m, p, v) \in Memory
<1> SUFFICES ASSUME NEW a \in 0 .. (MemLen - 1), a \in p .. (p + WordBytes - 1)
             PROVE  (v \div Pow2[8 * (a - p)]) % 256 \in Byte
  BY DEF SetWord, Memory
<1> DEFINE k == a - p
<1>1. k \in Nat /\ k < WordBytes /\ v \in Nat
  BY SizesAssumption, ModulusPositive DEF Word
<1> HIDE DEF k
<1>2. Pow2[8 * k] \in Nat \ {0}
  BY <1>1, Pow256
<1>3. (v \div Pow2[8 * k]) \in Int
  BY <1>1, <1>2
<1> QED
  BY <1>3 DEF Byte, k
--------------------------------------------------------------------------
\* The bitwise and of two words is a word, and so is their sum without it twice.

\* One bit more of a number.
LEMMA OneMoreBit ==
  ASSUME NEW a \in Nat, NEW q \in Nat \ {0}
  PROVE  /\ (a \div q) % 2 \in {0, 1}
         /\ a % q \in 0 .. (q - 1)
         /\ a % (2 * q) = (a % q) + q * ((a \div q) % 2)
<1> DEFINE d == a \div q
           r == a % q
           h == d \div 2
           c == d % 2
<1>1. a = q * d + r /\ d \in Nat /\ r \in 0 .. (q - 1)
  OBVIOUS
<1>2. d = 2 * h + c /\ h \in Nat /\ c \in {0, 1}
  BY <1>1
<1> HIDE DEF d, r, h, c
<1>3. q * c + r \in 0 .. (2 * q - 1)
  <2>1. CASE c = 0
    <3>1. q * c = 0
      BY <2>1
    <3> QED
      BY <1>1, <3>1
  <2>2. CASE c = 1
    <3>1. q * c = q
      BY <2>2
    <3> QED
      BY <1>1, <3>1
  <2> QED
    BY <1>2, <2>1, <2>2
<1>4. a = (2 * q) * h + (q * c + r)
  <2>1. q * d = q * (2 * h) + q * c
    BY <1>2
  <2>2. q * (2 * h) = (2 * q) * h
    BY <1>2
  <2> QED
    BY <1>1, <1>2, <2>1, <2>2
<1>5. a % (2 * q) = q * c + r
  <2> DEFINE m == 2 * q
             k == q * c + r
  <2>1. m \in Nat \ {0} /\ k \in 0 .. (m - 1) /\ a = m * h + k
    BY <1>3, <1>4
  <2> HIDE DEF m, k
  <2>2. a % m = k
    BY <1>2, <2>1, QuotientUnique
  <2> QED
    BY <2>2 DEF m, k
<1>6. q * c \in Int
  BY <1>2
<1> QED
  BY <1>1, <1>2, <1>5, <1>6 DEF d, r, c

\* And and exclusive or of two words are words.
LEMMA BitwiseWord ==
  ASSUME NEW a \in Word, NEW b \in Word
  PROVE  BitAnd(a, b) \in Word /\ a + b - 2 * BitAnd(a, b) \in Word
<1> DEFINE n == 8 * WordBytes
           A1(i) == (a \div Pow2[i]) % 2
           B1(i) == (b \div Pow2[i]) % 2
           t == [i \in 1 .. n |-> Pow2[i-1] * A1(i-1) * B1(i-1)]
           f == CHOOSE h : h = [i \in 0 .. n |-> IF i = 0 THEN 0
                  ELSE h[i-1] + Pow2[i-1] * ((a \div Pow2[i-1]) % 2) * ((b \div Pow2[i-1]) % 2)]
           G == {i \in 0 .. n : /\ f[i] \in 0 .. (Pow2[i] - 1)
                                /\ (a % Pow2[i]) + (b % Pow2[i]) - 2 * f[i] \in 0 .. (Pow2[i] - 1)}
<1>1. n \in Nat /\ a \in Nat /\ b \in Nat
  BY SizesAssumption, ModulusPositive DEF Word
<1>2. ASSUME NEW i \in 1 .. n
      PROVE  /\ Pow2[i-1] \in Nat \ {0} /\ Pow2[i] = 2 * Pow2[i-1]
             /\ A1(i-1) \in {0, 1} /\ B1(i-1) \in {0, 1}
             /\ a % Pow2[i-1] \in 0 .. (Pow2[i-1] - 1) /\ b % Pow2[i-1] \in 0 .. (Pow2[i-1] - 1)
             /\ a % Pow2[i] = (a % Pow2[i-1]) + Pow2[i-1] * A1(i-1)
             /\ b % Pow2[i] = (b % Pow2[i-1]) + Pow2[i-1] * B1(i-1)
  <2>1. i - 1 \in 0 .. n
    BY <1>1
  <2>2. Pow2[i-1] \in Nat \ {0} /\ Pow2[i] = 2 * Pow2[i-1]
    BY <2>1, Powers
  <2> HIDE DEF n
  <2> QED
    BY <2>2, <1>1, OneMoreBit
<1>3. t \in [1 .. n -> Int]
  <2>1. ASSUME NEW i \in 1 .. n PROVE Pow2[i-1] * A1(i-1) * B1(i-1) \in Int
    <3> HIDE DEF A1, B1, n
    <3>1. Pow2[i-1] \in Int /\ A1(i-1) \in Int /\ B1(i-1) \in Int
      BY <1>2
    <3> QED
      BY <3>1
  <2> HIDE DEF n, A1, B1
  <2> QED
    BY <2>1
<1>4. SumsUp(n, t, f)
  <2>0. ASSUME NEW h
        PROVE  [i \in 0 .. n |-> IF i = 0 THEN 0 ELSE h[i-1] + t[i]]
                 = [i \in 0 .. n |-> IF i = 0 THEN 0
                      ELSE h[i-1] + Pow2[i-1] * ((a \div Pow2[i-1]) % 2) * ((b \div Pow2[i-1]) % 2)]
    <3>1. \A i \in 0 .. n : i # 0 => t[i] = Pow2[i-1] * ((a \div Pow2[i-1]) % 2) * ((b \div Pow2[i-1]) % 2)
      BY <1>1
    <3> HIDE DEF t
    <3> QED
      BY <3>1
  <2>1. PICK h : SumsUp(n, t, h)
    <3> HIDE DEF n, t
    <3> QED
      BY <1>1, <1>3, SumExists
  <2>2. h = [i \in 0 .. n |-> IF i = 0 THEN 0
               ELSE h[i-1] + Pow2[i-1] * ((a \div Pow2[i-1]) % 2) * ((b \div Pow2[i-1]) % 2)]
    <3> HIDE DEF t, n
    <3> QED
      BY <2>0, <2>1 DEF SumsUp
  <2>3. f = [i \in 0 .. n |-> IF i = 0 THEN 0
               ELSE f[i-1] + Pow2[i-1] * ((a \div Pow2[i-1]) % 2) * ((b \div Pow2[i-1]) % 2)]
    <3> HIDE DEF t, n
    <3> QED
      BY <2>2
  <2> HIDE DEF f, t, n
  <2> QED
    BY <2>0, <2>3 DEF SumsUp
<1> HIDE DEF f
<1>5. f \in [0 .. n -> Int] /\ f[0] = 0 /\ \A i \in 1 .. n : f[i] = f[i-1] + t[i]
  <2> HIDE DEF n, t
  <2> QED
    BY <1>1, <1>3, <1>4, RunningSum
<1>6. 0 .. n \subseteq G
  <2>1. 0 \in G
    <3>1. a % 1 = 0 /\ b % 1 = 0
      BY <1>1
    <3> QED
      BY <1>1, <1>5, <3>1, Powers
  <2>2. ASSUME NEW i \in 0 .. (n - 1), i \in G PROVE i + 1 \in G
    <3> DEFINE k == i + 1
               q == Pow2[i]
    <3>1. k \in 1 .. n /\ k - 1 = i
      BY <1>1
    <3> HIDE DEF k
    <3>2. f[k] = f[i] + q * A1(i) * B1(i)
      BY <3>1, <1>5
    <3>3. /\ q \in Nat \ {0} /\ Pow2[k] = 2 * q
          /\ A1(i) \in {0, 1} /\ B1(i) \in {0, 1}
          /\ a % q \in 0 .. (q - 1) /\ b % q \in 0 .. (q - 1)
          /\ a % Pow2[k] = (a % q) + q * A1(i)
          /\ b % Pow2[k] = (b % q) + q * B1(i)
      <4> HIDE DEF A1, B1, n
      <4> QED
        BY <3>1, <1>2
    <3>4. f[i] \in 0 .. (q - 1) /\ (a % q) + (b % q) - 2 * f[i] \in 0 .. (q - 1)
      BY <2>2
    <3> HIDE DEF A1, B1, q
    <3>5. \/ q * A1(i) * B1(i) = 0 /\ q * A1(i) + q * B1(i) \in {0, q}
          \/ q * A1(i) * B1(i) = q /\ q * A1(i) + q * B1(i) = 2 * q
      <4>1. A1(i) = 0 => q * A1(i) = 0 /\ q * A1(i) * B1(i) = 0
        BY <3>3
      <4>2. A1(i) = 1 => q * A1(i) = q
        BY <3>3
      <4>3. B1(i) = 0 => q * B1(i) = 0 /\ q * A1(i) * B1(i) = 0
        BY <3>3
      <4>4. B1(i) = 1 => q * B1(i) = q /\ q * A1(i) * B1(i) = q * A1(i)
        BY <3>3
      <4> QED
        BY <3>3, <4>1, <4>2, <4>3, <4>4
    <3>6. q * A1(i) \in Int /\ q * B1(i) \in Int
      BY <3>3
    <3>7. f[k] \in 0 .. (2 * q - 1)
      BY <3>2, <3>3, <3>4, <3>5
    <3>8. ((a % q) + q * A1(i)) + ((b % q) + q * B1(i)) - 2 * f[k] \in 0 .. (2 * q - 1)
      <4> DEFINE x == q * A1(i)
                 y == q * B1(i)
                 z == q * A1(i) * B1(i)
                 u == a % q
                 v == b % q
      <4>1. \/ z = 0 /\ x + y \in {0, q}
            \/ z = q /\ x + y = 2 * q
        BY <3>5
      <4>2. f[k] = f[i] + z /\ f[i] \in Int /\ u + v - 2 * f[i] \in 0 .. (q - 1)
        <5>1. u + v - 2 * f[i] \in 0 .. (q - 1) /\ f[i] \in 0 .. (q - 1)
          BY <3>4
        <5>2. f[k] = f[i] + z
          BY <3>2
        <5> HIDE DEF u, v, z
        <5> QED
          BY <5>1, <5>2
      <4>3. x \in Int /\ y \in Int /\ u \in Int /\ v \in Int /\ q \in Int
        BY <3>3, <3>6
      <4> HIDE DEF x, y, z, u, v
      <4>4. (u + x) + (v + y) - 2 * f[k] = (u + v - 2 * f[i]) + (x + y - 2 * z)
        BY <4>1, <4>2, <4>3
      <4>5. x + y - 2 * z \in {0, q}
        BY <4>1, <4>3
      <4>6. (u + x) + (v + y) - 2 * f[k] \in 0 .. (2 * q - 1)
        BY <4>2, <4>3, <4>4, <4>5
      <4> QED
        BY <4>6 DEF u, v, x, y
    <3>9. /\ f[k] \in 0 .. (Pow2[k] - 1)
          /\ (a % Pow2[k]) + (b % Pow2[k]) - 2 * f[k] \in 0 .. (Pow2[k] - 1)
      <4> DEFINE x == a % Pow2[k]
                 y == b % Pow2[k]
                 u == (a % q) + q * A1(i)
                 v == (b % q) + q * B1(i)
      <4>1. x = u /\ y = v /\ Pow2[k] = 2 * q
        BY <3>3
      <4>2. f[k] \in 0 .. (2 * q - 1) /\ u + v - 2 * f[k] \in 0 .. (2 * q - 1)
        BY <3>7, <3>8
      <4> HIDE DEF x, y, u, v
      <4>3. f[k] \in 0 .. (Pow2[k] - 1) /\ x + y - 2 * f[k] \in 0 .. (Pow2[k] - 1)
        BY <4>1, <4>2
      <4> QED
        BY <4>3 DEF x, y
    <3>10. k \in 0 .. n
      BY <1>1, <3>1
    <3> QED
      BY <3>9, <3>10 DEF k
  <2> HIDE DEF G
  <2> QED
    BY <1>1, <2>1, <2>2, UpTo
<1>7. n \in G
  <2> HIDE DEF G, n
  <2> QED
    BY <1>1, <1>6
<1>8. a % Modulus = a /\ b % Modulus = b
  BY WrapOfWord DEF Wrap
<1>9. f[n] \in Word /\ a + b - 2 * f[n] \in Word
  <2>1. /\ f[n] \in 0 .. (Pow2[n] - 1)
        /\ (a % Pow2[n]) + (b % Pow2[n]) - 2 * f[n] \in 0 .. (Pow2[n] - 1)
    BY <1>7
  <2>2. Pow2[n] = Modulus
    BY DEF Modulus
  <2>3. a % Pow2[n] = a /\ b % Pow2[n] = b
    BY <2>2, <1>8
  <2> HIDE DEF n, G
  <2>4. f[n] \in 0 .. (Modulus - 1) /\ a + b - 2 * f[n] \in 0 .. (Modulus - 1)
    BY <2>1, <2>2, <2>3
  <2> QED
    BY <2>4 DEF Word
<1> QED
  BY <1>9 DEF BitAnd, f
--------------------------------------------------------------------------
\* The datapath: what an instruction computes from its operands, as the stages of both
\* simulators compute it.

\* What a field for a register or a code can hold.
RegField == 0 .. 15

\* The registers an instruction reads and writes in the datapath: the source of valA,
SrcA(f) == CASE f.icode \in {I_RRMOVQ, I_RMMOVQ, I_ALU, I_PUSHQ} -> f.rA
             [] f.icode \in {I_POPQ, I_RET} -> REG_RSP
             [] OTHER -> REG_NONE

\* the source of valB,
SrcB(f) == CASE f.icode \in {I_ALU, I_RMMOVQ, I_MRMOVQ, I_IADDQ, I_JM} -> f.rB
             [] f.icode \in {I_PUSHQ, I_POPQ, I_CALL, I_RET} -> REG_RSP
             [] OTHER -> REG_NONE

\* the destination of the ALU's result
DstE(f) == CASE f.icode \in {I_RRMOVQ, I_IRMOVQ, I_ALU, I_IADDQ} -> f.rB
             [] f.icode \in {I_PUSHQ, I_POPQ, I_CALL, I_RET} -> REG_RSP
             [] OTHER -> REG_NONE

\* and that of the word from memory.
DstM(f) == IF f.icode \in {I_MRMOVQ, I_POPQ} THEN f.rA ELSE REG_NONE

\* The datapath of the textbook, on the operands a and b.
OpA(f, a) == CASE f.icode \in {I_RRMOVQ, I_ALU} -> a
               [] f.icode \in {I_IRMOVQ, I_RMMOVQ, I_MRMOVQ, I_IADDQ, I_JM} -> f.valC
               [] f.icode \in {I_CALL, I_PUSHQ} -> Wrap(-WordBytes)
               [] f.icode \in {I_RET, I_POPQ} -> Wrap(WordBytes)
               [] OTHER -> 0

\* The other operand, the operation, and the result.
OpB(f, b) == IF f.icode \in {I_RMMOVQ, I_MRMOVQ, I_ALU, I_CALL, I_PUSHQ, I_RET, I_POPQ, I_IADDQ, I_JM}
             THEN b ELSE 0

AluFun(f) == IF f.icode = I_ALU THEN f.ifun ELSE A_ADD

Result(f, a, b) == ComputeAlu(AluFun(f), OpA(f, a), OpB(f, b))

\* Which instructions set the condition codes, load and store.
SetsCc(f) == f.icode \in {I_ALU, I_IADDQ}

Loads(f) == f.icode \in {I_MRMOVQ, I_POPQ, I_RET, I_JM}

Stores(f) == f.icode \in {I_RMMOVQ, I_PUSHQ, I_CALL}

\* The address they access, and whether it is bad.
Address(f, a, b) ==
  CASE f.icode \in {I_RMMOVQ, I_PUSHQ, I_CALL, I_MRMOVQ, I_JM} -> Result(f, a, b)
    [] f.icode \in {I_POPQ, I_RET} -> a
    [] OTHER -> 0

MemFault(f, a, b) == (Loads(f) \/ Stores(f)) /\ ~InMem(Address(f, a, b), WordBytes)

\* The destination after the condition of a conditional move, and the word that is loaded.
Moved(f, c) == IF f.icode = I_RRMOVQ /\ ~CondHolds(c, f.ifun) THEN REG_NONE ELSE DstE(f)

Loaded(st, f, a, b) == IF Loads(f) THEN GetWord(st.m, Address(f, a, b), 0) ELSE 0

\* The address of the next instruction.
NextPc(st, f, a, b) ==
  CASE f.icode = I_CALL -> f.valC
    [] f.icode = I_JMP /\ CondHolds(st.cc, f.ifun) -> f.valC
    [] f.icode \in {I_RET, I_JM} -> Loaded(st, f, a, b)
    [] OTHER -> f.valP

\* The state after the instruction.
Done(st, f, a, b) ==
  [pc |-> NextPc(st, f, a, b),
   r  |-> SetReg(SetReg(st.r, Moved(f, st.cc), Result(f, a, b)), DstM(f), Loaded(st, f, a, b)),
   m  |-> IF Stores(f) THEN SetWord(st.m, Address(f, a, b), IF f.icode = I_CALL THEN f.valP ELSE a)
          ELSE st.m,
   cc |-> IF SetsCc(f) THEN ComputeCc(AluFun(f), OpA(f, a), OpB(f, b)) ELSE st.cc]

\* The operands of f in the state st.
ValA(st, f) == GetReg(st.r, SrcA(f))

ValB(st, f) == GetReg(st.r, SrcB(f))

\* What get_reg_val reads is a word.
LEMMA GetRegWord ==
  ASSUME NEW r \in [RegId -> Word], NEW id \in RegField
  PROVE  GetReg(r, id) \in Word
  BY ModulusPositive DEF GetReg, RegField, RegId, REG_NONE, Word

\* set_reg_val leaves a register file.
LEMMA SetRegType ==
  ASSUME NEW V, NEW r \in [RegId -> V], NEW id \in RegField, NEW val \in V
  PROVE  SetReg(r, id, val) \in [RegId -> V]
  BY DEF SetReg, RegField, RegId, REG_NONE

\* REG_NONE reads as 0 and swallows what is written to it.
LEMMA NoneReads ==
  ASSUME NEW r PROVE GetReg(r, REG_NONE) = 0 /\ \A v : SetReg(r, REG_NONE, v) = r
  BY DEF GetReg, SetReg, REG_NONE

\* The stack pointer's sums in the datapath and in step_state are the same words.
LEMMA WrapSums ==
  ASSUME NEW a \in Word
  PROVE  /\ Wrap(a + 0) = a /\ Wrap(0 + a) = a
         /\ Wrap(Wrap(-WordBytes) + a) = Wrap(a - WordBytes)
         /\ Wrap(Wrap(WordBytes) + a) = Wrap(a + WordBytes)
<1>1. a \in Int /\ WordBytes \in Int /\ -WordBytes \in Int /\ Wrap(a) = a
  BY WrapOfWord, ModulusPositive
<1>2. /\ Wrap(Wrap(-WordBytes) + a) = Wrap((-WordBytes) + a)
      /\ Wrap(Wrap(WordBytes) + a) = Wrap(WordBytes + a)
  BY <1>1, WrapWrap
<1>3. (-WordBytes) + a = a - WordBytes /\ WordBytes + a = a + WordBytes /\ a + 0 = a /\ 0 + a = a
  BY <1>1
<1> QED
  BY <1>1, <1>2, <1>3

\* A_ADD adds and wraps.
LEMMA AddIsWrap == \A a, b : ComputeAlu(A_ADD, a, b) = Wrap(a + b)
  BY DEF ComputeAlu, A_ADD, A_SUB, A_AND, A_XOR
--------------------------------------------------------------------------
\* The datapath computes what step_state computes.

\* What the updates of a machine state are.
Whole(st) == st = [pc |-> st.pc, r |-> st.r, m |-> st.m, cc |-> st.cc]

\* A state with one part changed.
LEMMA Update1 ==
  ASSUME NEW s, Whole(s), NEW v
      PROVE  /\ [s EXCEPT !.pc = v] = [pc |-> v, r |-> s.r, m |-> s.m, cc |-> s.cc]
             /\ [s EXCEPT !.r = v] = [pc |-> s.pc, r |-> v, m |-> s.m, cc |-> s.cc]
             /\ [s EXCEPT !.m = v] = [pc |-> s.pc, r |-> s.r, m |-> v, cc |-> s.cc]
             /\ [s EXCEPT !.cc = v] = [pc |-> s.pc, r |-> s.r, m |-> s.m, cc |-> v]
  BY DEF Whole

\* A state with its registers and its program counter changed.
LEMMA UpdateR ==
  ASSUME NEW st, Whole(st), NEW v, NEW q
  PROVE  [st EXCEPT !.r = v, !.pc = q] = [pc |-> q, r |-> v, m |-> st.m, cc |-> st.cc]
<1>1. [st EXCEPT !.r = v, !.pc = q] = [[st EXCEPT !.r = v] EXCEPT !.pc = q]
  OBVIOUS
<1> DEFINE s == [pc |-> st.pc, r |-> v, m |-> st.m, cc |-> st.cc]
<1>2. s = [st EXCEPT !.r = v]
  BY Update1
<1>3. Whole(s) /\ s.r = v /\ s.m = st.m /\ s.cc = st.cc
  BY DEF Whole
<1> HIDE DEF s
<1>4. [s EXCEPT !.pc = q] = [pc |-> q, r |-> s.r, m |-> s.m, cc |-> s.cc]
  BY <1>3, Update1
<1> QED
  BY <1>1, <1>2, <1>3, <1>4, Zenon

\* A state with its memory and its program counter changed.
LEMMA UpdateM ==
  ASSUME NEW st, Whole(st), NEW v, NEW q
  PROVE  [st EXCEPT !.m = v, !.pc = q] = [pc |-> q, r |-> st.r, m |-> v, cc |-> st.cc]
<1>1. [st EXCEPT !.m = v, !.pc = q] = [[st EXCEPT !.m = v] EXCEPT !.pc = q]
  OBVIOUS
<1> DEFINE s == [pc |-> st.pc, r |-> st.r, m |-> v, cc |-> st.cc]
<1>2. s = [st EXCEPT !.m = v]
  BY Update1
<1>3. Whole(s) /\ s.r = st.r /\ s.m = v /\ s.cc = st.cc
  BY DEF Whole
<1> HIDE DEF s
<1>4. [s EXCEPT !.pc = q] = [pc |-> q, r |-> s.r, m |-> s.m, cc |-> s.cc]
  BY <1>3, Update1
<1> QED
  BY <1>1, <1>2, <1>3, <1>4, Zenon

\* What a store of step_state does, part by part.
LEMMA StoreDoes ==
  ASSUME NEW st, Whole(st), NEW addr, NEW val, NEW q
  PROVE  Store(st, addr, val, q) =
           IF InMem(addr, WordBytes)
           THEN Ok([pc |-> q, r |-> st.r, m |-> SetWord(st.m, addr, val), cc |-> st.cc])
           ELSE Stop(st, "ADR")
<1>1. [st EXCEPT !.m = SetWord(@, addr, val), !.pc = q]
        = [pc |-> q, r |-> st.r, m |-> SetWord(st.m, addr, val), cc |-> st.cc]
  BY UpdateM
<1> QED
  BY <1>1, Zenon DEF Store

\* What a load of step_state does, part by part.
LEMMA LoadDoes ==
  ASSUME NEW st, Whole(st), NEW addr, NEW id, NEW q
  PROVE  Load(st, addr, id, q) =
           IF InMem(addr, WordBytes)
           THEN Ok([pc |-> q, r |-> SetReg(st.r, id, GetWord(st.m, addr, 0)), m |-> st.m, cc |-> st.cc])
           ELSE Stop(st, "ADR")
<1>1. [st EXCEPT !.r = SetReg(@, id, GetWord(st.m, addr, 0)), !.pc = q]
        = [pc |-> q, r |-> SetReg(st.r, id, GetWord(st.m, addr, 0)), m |-> st.m, cc |-> st.cc]
  BY UpdateR
<1> QED
  BY <1>1, Zenon DEF Load

\* The codes, for leaves that tell them apart.
LEMMA DatapathRight ==
  ASSUME NEW st \in MachineState, NEW f, f.icode \in (1 .. 14) \ {13}, f.ifun \in RegField,
         f.rA \in RegField, f.rB \in RegField, f.valC \in Word, f.valP \in Word,
         NEW a, a = ValA(st, f), NEW b, b = ValB(st, f)
  PROVE  IF MemFault(f, a, b) THEN Execute(st, f) = Stop(Execute(st, f).s, "ADR")
         ELSE Execute(st, f) = Ok(Done(st, f, a, b))
<1> DEFINE Goal == IF MemFault(f, a, b) THEN Execute(st, f) = Stop(Execute(st, f).s, "ADR")
                   ELSE Execute(st, f) = Ok(Done(st, f, a, b))
           ra == GetReg(st.r, f.rA)
           rb == GetReg(st.r, f.rB)
           sp == GetReg(st.r, REG_RSP)
<1> USE DEF I_HALT, I_NOP, I_RRMOVQ, I_IRMOVQ, I_RMMOVQ, I_MRMOVQ, I_ALU, I_JMP, I_CALL, I_RET, I_PUSHQ,
            I_POPQ, I_IADDQ, I_JM
<1>1. /\ st = [pc |-> st.pc, r |-> st.r, m |-> st.m, cc |-> st.cc]
      /\ st.r \in [RegId -> Word]
  BY DEF MachineState
<1>u. Whole(st)
  BY <1>1 DEF Whole
<1>2. ra \in Word /\ rb \in Word /\ sp \in Word
  BY <1>1, GetRegWord DEF REG_RSP, RegField
<1>3. \A x, y : ComputeAlu(A_ADD, x, y) = Wrap(x + y)
  BY AddIsWrap
<1>a. /\ f.icode \in {I_RRMOVQ, I_RMMOVQ, I_ALU, I_PUSHQ} => a = ra
      /\ f.icode \in {I_POPQ, I_RET} => a = sp
  BY DEF ValA, SrcA
<1>b. /\ f.icode \in {I_ALU, I_RMMOVQ, I_MRMOVQ, I_IADDQ, I_JM} => b = rb
      /\ f.icode \in {I_PUSHQ, I_POPQ, I_CALL, I_RET} => b = sp
  BY DEF ValB, SrcB
<1> HIDE DEF ra, rb, sp
<1>n. \A v : SetReg(st.r, REG_NONE, v) = st.r
  BY NoneReads
<1>4. CASE f.icode = I_NOP
  <2>1. ~MemFault(f, a, b)
    BY <1>4 DEF MemFault, Loads, Stores
  <2>2. Execute(st, f) = Ok([st EXCEPT !.pc = f.valP])
    BY <1>4 DEF Execute
  <2>3. Moved(f, st.cc) = REG_NONE /\ DstM(f) = REG_NONE /\ NextPc(st, f, a, b) = f.valP /\ ~Stores(f) /\ ~SetsCc(f)
    BY <1>4 DEF Moved, DstE, DstM, NextPc, Stores, SetsCc
  <2>4. Done(st, f, a, b) = [pc |-> f.valP, r |-> st.r, m |-> st.m, cc |-> st.cc]
    BY <2>3, <1>n DEF Done
  <2>5. [st EXCEPT !.pc = f.valP] = [pc |-> f.valP, r |-> st.r, m |-> st.m, cc |-> st.cc]
    BY <1>1
  <2> QED
    BY <2>1, <2>2, <2>4, <2>5
<1>5. CASE f.icode = I_RRMOVQ
  <2>1. ~MemFault(f, a, b)
    BY <1>5 DEF MemFault, Loads, Stores
  <2>2. Result(f, a, b) = ra
    BY <1>5, <1>2, <1>3, <1>a, WrapSums DEF Result, AluFun, OpA, OpB
  <2>3. DstM(f) = REG_NONE /\ NextPc(st, f, a, b) = f.valP /\ ~Stores(f) /\ ~SetsCc(f)
    BY <1>5 DEF DstM, NextPc, Stores, SetsCc
  <2>4. Done(st, f, a, b) = [pc |-> f.valP, r |-> SetReg(st.r, Moved(f, st.cc), ra), m |-> st.m, cc |-> st.cc]
    BY <2>2, <2>3, NoneReads DEF Done
  <2>5. Moved(f, st.cc) = IF CondHolds(st.cc, f.ifun) THEN f.rB ELSE REG_NONE
    BY <1>5 DEF Moved, DstE
  <2>6. Execute(st, f) = IF CondHolds(st.cc, f.ifun)
                         THEN Ok([st EXCEPT !.r = SetReg(@, f.rB, ra), !.pc = f.valP])
                         ELSE Ok([st EXCEPT !.pc = f.valP])
    BY <1>5 DEF Execute, ra
  <2>7. /\ [st EXCEPT !.r = SetReg(@, f.rB, ra), !.pc = f.valP]
             = [pc |-> f.valP, r |-> SetReg(st.r, f.rB, ra), m |-> st.m, cc |-> st.cc]
        /\ [st EXCEPT !.pc = f.valP] = [pc |-> f.valP, r |-> st.r, m |-> st.m, cc |-> st.cc]
    <3>1. [st EXCEPT !.r = SetReg(@, f.rB, ra), !.pc = f.valP]
             = [pc |-> f.valP, r |-> SetReg(st.r, f.rB, ra), m |-> st.m, cc |-> st.cc]
      BY <1>u, UpdateR
    <3>2. [st EXCEPT !.pc = f.valP] = [pc |-> f.valP, r |-> st.r, m |-> st.m, cc |-> st.cc]
      BY <1>1
    <3> QED
      BY <3>1, <3>2
  <2> QED
    BY <2>1, <2>4, <2>5, <2>6, <2>7, <1>n
<1>6. CASE f.icode = I_IRMOVQ
  <2>1. ~MemFault(f, a, b)
    BY <1>6 DEF MemFault, Loads, Stores
  <2>2. Result(f, a, b) = f.valC
    BY <1>6, <1>3, WrapSums DEF Result, AluFun, OpA, OpB
  <2>3. /\ DstM(f) = REG_NONE /\ NextPc(st, f, a, b) = f.valP /\ ~Stores(f) /\ ~SetsCc(f)
        /\ Moved(f, st.cc) = f.rB
    BY <1>6 DEF DstM, NextPc, Stores, SetsCc, Moved, DstE
  <2>4. Done(st, f, a, b) = [pc |-> f.valP, r |-> SetReg(st.r, f.rB, f.valC), m |-> st.m, cc |-> st.cc]
    BY <2>2, <2>3, NoneReads DEF Done
  <2>6. Execute(st, f) = Ok([st EXCEPT !.r = SetReg(@, f.rB, f.valC), !.pc = f.valP])
    BY <1>6 DEF Execute
  <2>7. [st EXCEPT !.r = SetReg(@, f.rB, f.valC), !.pc = f.valP]
             = [pc |-> f.valP, r |-> SetReg(st.r, f.rB, f.valC), m |-> st.m, cc |-> st.cc]
    BY <1>u, UpdateR
  <2> QED
    BY <2>1, <2>4, <2>6, <2>7
<1>7. CASE f.icode \in {I_RMMOVQ, I_PUSHQ, I_CALL}
  <2> DEFINE addr == IF f.icode = I_RMMOVQ THEN Wrap(f.valC + rb) ELSE Wrap(sp - WordBytes)
             val == IF f.icode = I_CALL THEN f.valP ELSE ra
             pcn == IF f.icode = I_CALL THEN f.valC ELSE f.valP
             rn == IF f.icode = I_RMMOVQ THEN st.r ELSE SetReg(st.r, REG_RSP, Wrap(sp - WordBytes))
  <2>1. Result(f, a, b) = addr
    BY <1>7, <1>2, <1>3, <1>b, WrapSums DEF Result, AluFun, OpA, OpB
  <2>2. Address(f, a, b) = addr /\ Stores(f) /\ ~Loads(f)
    BY <1>7, <2>1 DEF Address, Stores, Loads
  <2>3. DstM(f) = REG_NONE /\ NextPc(st, f, a, b) = pcn /\ ~SetsCc(f)
    BY <1>7 DEF DstM, NextPc, SetsCc
  <2>4. SetReg(st.r, Moved(f, st.cc), Result(f, a, b)) = rn
    BY <1>7, <2>1, NoneReads DEF Moved, DstE
  <2>5. (IF f.icode = I_CALL THEN f.valP ELSE a) = val
    BY <1>7, <1>a
  <2> HIDE DEF addr, val, pcn, rn
  <2>6. Done(st, f, a, b) = [pc |-> pcn, r |-> rn, m |-> SetWord(st.m, addr, val), cc |-> st.cc]
    BY <2>1, <2>2, <2>3, <2>4, <2>5, NoneReads DEF Done
  <2> DEFINE s0 == [st EXCEPT !.r = rn]
  <2>7. s0 = [pc |-> st.pc, r |-> rn, m |-> st.m, cc |-> st.cc]
    BY <1>1
  <2>8. Execute(st, f) = Store(s0, addr, val, pcn)
    <3>1. CASE f.icode = I_RMMOVQ
      <4>1. st = s0
        BY <3>1, <1>1 DEF rn
      <4>2. Execute(st, f) = Store(st, Wrap(f.valC + rb), ra, f.valP)
        BY <3>1 DEF Execute, rb, ra
      <4> HIDE DEF s0
      <4> QED
        BY <3>1, <4>1, <4>2 DEF addr, val, pcn
    <3>2. CASE f.icode = I_PUSHQ
      <4>1. Execute(st, f) = Store([st EXCEPT !.r = SetReg(@, REG_RSP, Wrap(sp - WordBytes))],
                                   Wrap(sp - WordBytes), ra, f.valP)
        BY <3>2 DEF Execute, sp, ra
      <4>2. [st EXCEPT !.r = SetReg(@, REG_RSP, Wrap(sp - WordBytes))] = s0
        BY <3>2, <1>1 DEF rn
      <4> HIDE DEF s0
      <4> QED
        BY <3>2, <4>1, <4>2 DEF addr, val, pcn
    <3>3. CASE f.icode = I_CALL
      <4>1. Execute(st, f) = Store([st EXCEPT !.r = SetReg(@, REG_RSP, Wrap(sp - WordBytes))],
                                   Wrap(sp - WordBytes), f.valP, f.valC)
        BY <3>3 DEF Execute, sp
      <4>2. [st EXCEPT !.r = SetReg(@, REG_RSP, Wrap(sp - WordBytes))] = s0
        BY <3>3, <1>1 DEF rn
      <4> HIDE DEF s0
      <4> QED
        BY <3>3, <4>1, <4>2 DEF addr, val, pcn
    <3> QED
      BY <1>7, <3>1, <3>2, <3>3
  <2>9. Whole(s0) /\ s0.m = st.m /\ s0.r = rn /\ s0.cc = st.cc
    BY <2>7 DEF Whole
  <2> HIDE DEF s0
  <2>10. Store(s0, addr, val, pcn) = IF InMem(addr, WordBytes)
           THEN Ok([pc |-> pcn, r |-> s0.r, m |-> SetWord(s0.m, addr, val), cc |-> s0.cc])
           ELSE Stop(s0, "ADR")
    BY <2>9, StoreDoes
  <2>11. MemFault(f, a, b) <=> ~InMem(addr, WordBytes)
    BY <2>2 DEF MemFault
  <2>12. CASE InMem(addr, WordBytes)
    BY <2>6, <2>8, <2>9, <2>10, <2>11, <2>12
  <2>13. CASE ~InMem(addr, WordBytes)
    BY <2>8, <2>10, <2>11, <2>13 DEF Stop
  <2> QED
    BY <2>12, <2>13
<1>8. CASE f.icode \in {I_MRMOVQ, I_POPQ}
  <2> DEFINE addr == IF f.icode = I_MRMOVQ THEN Wrap(f.valC + rb) ELSE sp
             rn == IF f.icode = I_MRMOVQ THEN st.r ELSE SetReg(st.r, REG_RSP, Wrap(sp + WordBytes))
  <2>1. Result(f, a, b) = IF f.icode = I_MRMOVQ THEN Wrap(f.valC + rb) ELSE Wrap(sp + WordBytes)
    BY <1>8, <1>2, <1>3, <1>b, WrapSums DEF Result, AluFun, OpA, OpB
  <2>2. Address(f, a, b) = addr /\ Loads(f) /\ ~Stores(f)
    BY <1>8, <2>1, <1>a DEF Address, Stores, Loads
  <2>3. DstM(f) = f.rA /\ NextPc(st, f, a, b) = f.valP /\ ~SetsCc(f)
    BY <1>8 DEF DstM, NextPc, SetsCc
  <2>4. SetReg(st.r, Moved(f, st.cc), Result(f, a, b)) = rn
    BY <1>8, <2>1, NoneReads DEF Moved, DstE
  <2> HIDE DEF addr, rn
  <2>5. Loaded(st, f, a, b) = GetWord(st.m, addr, 0)
    BY <2>2 DEF Loaded
  <2>6. Done(st, f, a, b) = [pc |-> f.valP, r |-> SetReg(rn, f.rA, GetWord(st.m, addr, 0)), m |-> st.m, cc |-> st.cc]
    BY <2>2, <2>3, <2>4, <2>5 DEF Done
  <2> DEFINE s0 == [st EXCEPT !.r = rn]
  <2>7. s0 = [pc |-> st.pc, r |-> rn, m |-> st.m, cc |-> st.cc]
    BY <1>1
  <2>8. Execute(st, f) = Load(s0, addr, f.rA, f.valP)
    <3>1. CASE f.icode = I_MRMOVQ
      <4>1. st = s0
        BY <3>1, <1>1 DEF rn
      <4>2. Execute(st, f) = Load(st, Wrap(f.valC + rb), f.rA, f.valP)
        BY <3>1 DEF Execute, rb
      <4> HIDE DEF s0
      <4> QED
        BY <3>1, <4>1, <4>2 DEF addr
    <3>2. CASE f.icode = I_POPQ
      <4>1. Execute(st, f) = Load([st EXCEPT !.r = SetReg(@, REG_RSP, Wrap(sp + WordBytes))],
                                  sp, f.rA, f.valP)
        BY <3>2 DEF Execute, sp
      <4>2. [st EXCEPT !.r = SetReg(@, REG_RSP, Wrap(sp + WordBytes))] = s0
        BY <3>2, <1>1 DEF rn
      <4> HIDE DEF s0
      <4> QED
        BY <3>2, <4>1, <4>2 DEF addr
    <3> QED
      BY <1>8, <3>1, <3>2
  <2>9. Whole(s0) /\ s0.m = st.m /\ s0.r = rn /\ s0.cc = st.cc
    BY <2>7 DEF Whole
  <2> HIDE DEF s0
  <2>10. Load(s0, addr, f.rA, f.valP) = IF InMem(addr, WordBytes)
           THEN Ok([pc |-> f.valP, r |-> SetReg(s0.r, f.rA, GetWord(s0.m, addr, 0)), m |-> s0.m, cc |-> s0.cc])
           ELSE Stop(s0, "ADR")
    BY <2>9, LoadDoes
  <2>11. MemFault(f, a, b) <=> ~InMem(addr, WordBytes)
    BY <2>2 DEF MemFault
  <2>12. CASE InMem(addr, WordBytes)
    BY <2>6, <2>8, <2>9, <2>10, <2>11, <2>12
  <2>13. CASE ~InMem(addr, WordBytes)
    BY <2>8, <2>10, <2>11, <2>13 DEF Stop
  <2> QED
    BY <2>12, <2>13
<1>9. CASE f.icode \in {I_ALU, I_IADDQ}
  <2>1. ~MemFault(f, a, b)
    BY <1>9 DEF MemFault, Loads, Stores
  <2>3. /\ DstM(f) = REG_NONE /\ NextPc(st, f, a, b) = f.valP /\ ~Stores(f) /\ SetsCc(f)
        /\ Moved(f, st.cc) = f.rB
    BY <1>9 DEF DstM, NextPc, Stores, SetsCc, Moved, DstE
  <2> DEFINE val == Result(f, a, b)
             c == ComputeCc(AluFun(f), OpA(f, a), OpB(f, b))
  <2>4. Done(st, f, a, b) = [pc |-> f.valP, r |-> SetReg(st.r, f.rB, val), m |-> st.m, cc |-> c]
    BY <2>3, NoneReads DEF Done
  <2>5. Execute(st, f) = Ok([[st EXCEPT !.r = SetReg(@, f.rB, val), !.pc = f.valP] EXCEPT !.cc = c])
    <3>1. CASE f.icode = I_ALU
      <4>1. val = ComputeAlu(f.ifun, ra, rb) /\ c = ComputeCc(f.ifun, ra, rb)
        BY <3>1, <1>a, <1>b DEF Result, AluFun, OpA, OpB
      <4>2. Execute(st, f) = Ok([[st EXCEPT !.r = SetReg(@, f.rB, ComputeAlu(f.ifun, ra, rb)), !.pc = f.valP]
                                 EXCEPT !.cc = ComputeCc(f.ifun, ra, rb)])
        BY <3>1 DEF Execute, ra, rb
      <4> HIDE DEF val, c
      <4> QED
        BY <4>1, <4>2
    <3>2. CASE f.icode = I_IADDQ
      <4>1. val = ComputeAlu(A_ADD, f.valC, rb) /\ c = ComputeCc(A_ADD, f.valC, rb)
        BY <3>2, <1>b DEF Result, AluFun, OpA, OpB
      <4>2. val = Wrap(rb + f.valC)
        <5>1. f.valC + rb = rb + f.valC
          BY <1>2, WrapOfWord
        <5> HIDE DEF val
        <5> QED
          BY <4>1, <1>3, <5>1
      <4>3. Execute(st, f) = Ok([[st EXCEPT !.r = SetReg(@, f.rB, Wrap(rb + f.valC)), !.pc = f.valP]
                                 EXCEPT !.cc = ComputeCc(A_ADD, f.valC, rb)])
        BY <3>2 DEF Execute, rb
      <4> HIDE DEF val, c
      <4> QED
        BY <4>1, <4>2, <4>3
    <3> QED
      BY <1>9, <3>1, <3>2
  <2> HIDE DEF val, c
  <2> DEFINE x == SetReg(st.r, f.rB, val)
             s1 == [st EXCEPT !.r = x, !.pc = f.valP]
  <2>6. s1 = [pc |-> f.valP, r |-> x, m |-> st.m, cc |-> st.cc]
    <3> HIDE DEF x
    <3> QED
      BY <1>u, UpdateR
  <2>7. [[st EXCEPT !.r = SetReg(@, f.rB, val), !.pc = f.valP] EXCEPT !.cc = c] = [s1 EXCEPT !.cc = c]
    OBVIOUS
  <2>8. [s1 EXCEPT !.cc = c] = [pc |-> f.valP, r |-> x, m |-> st.m, cc |-> c]
    <3> HIDE DEF s1, x
    <3> QED
      BY <2>6
  <2> HIDE DEF s1
  <2> QED
    BY <2>1, <2>4, <2>5, <2>7, <2>8, Zenon
<1>10. CASE f.icode = I_JMP
  <2>1. ~MemFault(f, a, b)
    BY <1>10 DEF MemFault, Loads, Stores
  <2>2. Execute(st, f) = Ok([st EXCEPT !.pc = IF CondHolds(st.cc, f.ifun) THEN f.valC ELSE f.valP])
    BY <1>10 DEF Execute
  <2>3. /\ Moved(f, st.cc) = REG_NONE /\ DstM(f) = REG_NONE /\ ~Stores(f) /\ ~SetsCc(f)
        /\ NextPc(st, f, a, b) = IF CondHolds(st.cc, f.ifun) THEN f.valC ELSE f.valP
    BY <1>10 DEF Moved, DstE, DstM, NextPc, Stores, SetsCc
  <2> DEFINE pcn == IF CondHolds(st.cc, f.ifun) THEN f.valC ELSE f.valP
  <2>4. Done(st, f, a, b) = [pc |-> pcn, r |-> st.r, m |-> st.m, cc |-> st.cc]
    BY <2>3, <1>n DEF Done
  <2> HIDE DEF pcn
  <2>5. [st EXCEPT !.pc = pcn] = [pc |-> pcn, r |-> st.r, m |-> st.m, cc |-> st.cc]
    BY <1>1
  <2> QED
    BY <2>1, <2>2, <2>4, <2>5 DEF pcn
<1>11. CASE f.icode = I_RET
  <2> DEFINE val == GetWord(st.m, sp, 0)
             rn == SetReg(st.r, REG_RSP, Wrap(sp + WordBytes))
  <2>1. Result(f, a, b) = Wrap(sp + WordBytes)
    BY <1>11, <1>2, <1>3, <1>b, WrapSums DEF Result, AluFun, OpA, OpB
  <2>2. Address(f, a, b) = sp /\ Loads(f) /\ ~Stores(f)
    BY <1>11, <1>a DEF Address, Stores, Loads
  <2>3. DstM(f) = REG_NONE /\ ~SetsCc(f) /\ Moved(f, st.cc) = REG_RSP
    BY <1>11 DEF DstM, SetsCc, Moved, DstE
  <2>4. Loaded(st, f, a, b) = val
    BY <2>2 DEF Loaded
  <2>5. NextPc(st, f, a, b) = val
    BY <1>11, <2>4 DEF NextPc
  <2>6. Done(st, f, a, b) = [pc |-> val, r |-> rn, m |-> st.m, cc |-> st.cc]
    BY <2>1, <2>2, <2>3, <2>5, NoneReads DEF Done
  <2>7. Execute(st, f) = IF InMem(sp, WordBytes)
                         THEN Ok([[st EXCEPT !.r = SetReg(@, REG_RSP, Wrap(sp + WordBytes))] EXCEPT !.pc = val])
                         ELSE Stop(st, "ADR")
    BY <1>11 DEF Execute, sp
  <2> HIDE DEF val
  <2>8. [[st EXCEPT !.r = SetReg(@, REG_RSP, Wrap(sp + WordBytes))] EXCEPT !.pc = val]
          = [pc |-> val, r |-> rn, m |-> st.m, cc |-> st.cc]
    BY <1>u, UpdateR
  <2> QED
    BY <2>2, <2>6, <2>7, <2>8 DEF MemFault, Stop
<1>12. CASE f.icode = I_JM
  <2> DEFINE addr == Wrap(rb + f.valC)
             val == GetWord(st.m, addr, 0)
  <2>1. Result(f, a, b) = addr
    <3>1. f.valC + rb = rb + f.valC
      BY <1>2, WrapOfWord
    <3>2. Result(f, a, b) = Wrap(f.valC + rb)
      BY <1>12, <1>3, <1>b DEF Result, AluFun, OpA, OpB
    <3> QED
      BY <3>1, <3>2
  <2>2. Address(f, a, b) = addr /\ Loads(f) /\ ~Stores(f)
    BY <1>12, <2>1 DEF Address, Stores, Loads
  <2>3. DstM(f) = REG_NONE /\ ~SetsCc(f) /\ Moved(f, st.cc) = REG_NONE
    BY <1>12 DEF DstM, SetsCc, Moved, DstE
  <2>4. Loaded(st, f, a, b) = val
    BY <2>2 DEF Loaded
  <2>5. NextPc(st, f, a, b) = val
    BY <1>12, <2>4 DEF NextPc
  <2>6. Done(st, f, a, b) = [pc |-> val, r |-> st.r, m |-> st.m, cc |-> st.cc]
    BY <2>2, <2>3, <2>5, NoneReads DEF Done
  <2>7. Execute(st, f) = IF InMem(addr, WordBytes) THEN Ok([st EXCEPT !.pc = val]) ELSE Stop(st, "ADR")
    BY <1>12 DEF Execute, rb
  <2> HIDE DEF val, addr
  <2>8. [st EXCEPT !.pc = val] = [pc |-> val, r |-> st.r, m |-> st.m, cc |-> st.cc]
    BY <1>1
  <2> QED
    BY <2>2, <2>6, <2>7, <2>8 DEF MemFault, Stop
<1> QED
  BY <1>4, <1>5, <1>6, <1>7, <1>8, <1>9, <1>10, <1>11, <1>12
--------------------------------------------------------------------------
\* The machine states of a program that fits.

\* The instruction at the state st fits, if there is one.
FitsAt(s, st) == InMem(st.pc, 1) => Fits(s, st, FetchedAt(st))

\* The status that fetch gives the instruction at st.
StatAt(st) ==
  IF ~InMem(st.pc, 1) THEN "ADR"
  ELSE CASE FetchedAt(st).icode \in {I_POP2, 15} -> "INS"
         [] FetchedAt(st).icode = I_HALT -> "HLT"
         [] OTHER -> "AOK"

\* The halves of a byte are codes.
LEMMA NibblesInRange == \A x \in Byte : Hi4(x) \in RegField /\ Lo4(x) \in RegField
  BY DEF Byte, Hi4, Lo4, RegField

\* How long an instruction can be.
LEMMA LengthRange == \A i : Length(i) \in {1, 2, WordBytes + 1, WordBytes + 2}
  BY ModulusPositive DEF Length

\* The parts of a fetched instruction are codes and words.
LEMMA FetchedTyped ==
  ASSUME NEW m \in Memory, NEW p \in Word, NEW x \in Byte
  PROVE  /\ Fetched(m, p, x).icode \in RegField /\ Fetched(m, p, x).ifun \in RegField
         /\ Fetched(m, p, x).rA \in RegField /\ Fetched(m, p, x).rB \in RegField
         /\ Fetched(m, p, x).valC \in Word /\ Fetched(m, p, x).valP \in Word
<1> DEFINE i == Hi4(x)
           at == Wrap(p + Length(i) - WordBytes)
           y == GetByte(m, Wrap(p + 1), 0)
<1>1. p \in Int /\ Length(i) \in Int /\ WordBytes \in Int
  BY LengthRange, WrapOfWord, ModulusPositive
<1>2. at \in Word /\ Wrap(p + Length(i)) \in Word /\ Wrap(p + 1) \in Word
  BY <1>1, WrapIsWord
<1>3. y \in Byte
  BY <1>2, GetByteByte DEF Byte
<1>4. GetWord(m, at, 0) \in Word /\ 0 \in Word
  BY <1>2, GetWordWord, ModulusPositive DEF Word
<1>5. /\ Hi4(x) \in RegField /\ Lo4(x) \in RegField /\ Hi4(y) \in RegField /\ Lo4(y) \in RegField
      /\ REG_NONE \in RegField
  BY <1>3, NibblesInRange DEF REG_NONE, RegField
<1> QED
  BY <1>2, <1>4, <1>5 DEF Fetched

\* The same of the instruction at the program counter of a state.
LEMMA FetchedAtTyped ==
  ASSUME NEW st \in MachineState
  PROVE  /\ FetchedAt(st).icode \in RegField /\ FetchedAt(st).ifun \in RegField
         /\ FetchedAt(st).rA \in RegField /\ FetchedAt(st).rB \in RegField
         /\ FetchedAt(st).valC \in Word /\ FetchedAt(st).valP \in Word
<1>1. st.m \in Memory /\ st.pc \in Word /\ 0 \in Byte
  BY DEF MachineState, Byte
<1>2. GetByte(st.m, st.pc, 0) \in Byte
  BY <1>1, GetByteByte
<1> QED
  BY <1>1, <1>2, FetchedTyped DEF FetchedAt

\* The ALU makes words of words.
LEMMA AluWord ==
  ASSUME NEW op, NEW a \in Word, NEW b \in Word
  PROVE  ComputeAlu(op, a, b) \in Word
<1>1. a \in Int /\ b \in Int /\ 0 \in Word
  BY WrapOfWord, ModulusPositive DEF Word
<1>2. Wrap(a + b) \in Word /\ Wrap(b - a) \in Word
  BY <1>1, WrapIsWord
<1>3. BitAnd(a, b) \in Word /\ a + b - 2 * BitAnd(a, b) \in Word
  BY BitwiseWord
<1> QED
  BY <1>1, <1>2, <1>3 DEF ComputeAlu, A_ADD, A_SUB, A_AND, A_XOR

\* compute_cc makes condition codes.
LEMMA CcTyped == \A op, a, b : ComputeCc(op, a, b) \in CondCode
<1> SUFFICES ASSUME NEW op, NEW a, NEW b, NEW v PROVE Flags(op, a, b, v) \in CondCode
  BY DEF ComputeCc
<1> DEFINE o == CASE op = A_ADD -> /\ Negative(a) = Negative(b)
                            /\ Negative(v) # Negative(a)
           [] op = A_SUB -> /\ Positive(a) = Negative(b)
                            /\ Negative(v) # Negative(b)
           [] OTHER      -> FALSE
<1>1. o \in BOOLEAN
  BY DEF A_ADD, A_SUB
<1>2. (v = 0) \in BOOLEAN /\ Negative(v) \in BOOLEAN
  BY DEF Negative
<1> HIDE DEF o
<1>3. [z |-> v = 0, s |-> Negative(v), o |-> o] \in CondCode
  BY <1>1, <1>2 DEF CondCode
<1> QED
  BY <1>3 DEF Flags, o

\* What the datapath leaves is a machine state.
LEMMA DoneTyped ==
  ASSUME NEW st \in MachineState, NEW f, f.rA \in RegField, f.rB \in RegField,
         f.valC \in Word, f.valP \in Word, NEW a \in Word, NEW b \in Word
  PROVE  /\ Result(f, a, b) \in Word /\ Address(f, a, b) \in Word
         /\ Done(st, f, a, b) \in MachineState
<1>1. st.pc \in Word /\ st.r \in [RegId -> Word] /\ st.m \in Memory /\ st.cc \in CondCode
  BY DEF MachineState
<1>2. Wrap(-WordBytes) \in Word /\ Wrap(WordBytes) \in Word /\ 0 \in Word
  BY WrapIsWord, ModulusPositive DEF Word
<1>3. OpA(f, a) \in Word /\ OpB(f, b) \in Word
  BY <1>2 DEF OpA, OpB
<1>4. Result(f, a, b) \in Word
  BY <1>3, AluWord DEF Result
<1>5. Address(f, a, b) \in Word
  BY <1>2, <1>4 DEF Address
<1>6. Loaded(st, f, a, b) \in Word
  BY <1>1, <1>2, <1>5, GetWordWord DEF Loaded
<1>7. NextPc(st, f, a, b) \in Word
  BY <1>6 DEF NextPc
<1>8. Moved(f, st.cc) \in RegField /\ DstM(f) \in RegField
  BY DEF Moved, DstE, DstM, REG_NONE, REG_RSP, RegField
<1>9. SetReg(SetReg(st.r, Moved(f, st.cc), Result(f, a, b)), DstM(f), Loaded(st, f, a, b)) \in [RegId -> Word]
  BY <1>1, <1>4, <1>6, <1>8, SetRegType
<1>10. (IF f.icode = I_CALL THEN f.valP ELSE a) \in Word
  OBVIOUS
<1>11. (IF Stores(f) THEN SetWord(st.m, Address(f, a, b), IF f.icode = I_CALL THEN f.valP ELSE a) ELSE st.m) \in Memory
  BY <1>1, <1>5, <1>10, SetWordMemory
<1>12. (IF SetsCc(f) THEN ComputeCc(AluFun(f), OpA(f, a), OpB(f, b)) ELSE st.cc) \in CondCode
  BY <1>1, CcTyped
<1> QED
  BY <1>4, <1>5, <1>7, <1>9, <1>11, <1>12 DEF Done, MachineState

\* The operands are words.
LEMMA OperandsTyped ==
  ASSUME NEW st \in MachineState, NEW f, f.rA \in RegField, f.rB \in RegField
  PROVE  ValA(st, f) \in Word /\ ValB(st, f) \in Word
<1>1. SrcA(f) \in RegField /\ SrcB(f) \in RegField
  BY DEF SrcA, SrcB, REG_NONE, REG_RSP, RegField
<1> QED
  BY <1>1, GetRegWord DEF ValA, ValB, MachineState

\* The instruction at st accesses a bad address, and the state after it if it does not.
FaultAt(st) == LET f == FetchedAt(st) IN MemFault(f, ValA(st, f), ValB(st, f))

DoneAt(st) == LET f == FetchedAt(st) IN Done(st, f, ValA(st, f), ValB(st, f))

\* What step_state does, by the status of the instruction.
LEMMA StepByStatus ==
  ASSUME NEW s, NEW st \in MachineState, FitsAt(s, st)
  PROVE  /\ StatAt(st) \in {"AOK", "ADR", "INS", "HLT"}
         /\ StatAt(st) # "AOK" => StepState(st) = Stop(st, StatAt(st))
         /\ StatAt(st) = "AOK" => /\ InMem(st.pc, 1) /\ FetchedAt(st).icode \in (1 .. 14) \ {13}
                                  /\ FetchStatus(FetchedAt(st)) = "AOK"
                                  /\ FaultAt(st) => StepState(st).e = "ADR"
                                  /\ ~FaultAt(st) => StepState(st) = Ok(DoneAt(st))
<1> DEFINE f == FetchedAt(st)
           a == ValA(st, f)
           b == ValB(st, f)
<1>1. StepState(st) = IF InMem(st.pc, 1) THEN ExecuteIf(st, f, FetchStatus(f)) ELSE Stop(st, "ADR")
  BY DEF StepState, ExecuteFetched, FetchedAt
<1>2. /\ f.icode \in RegField /\ f.ifun \in RegField /\ f.rA \in RegField /\ f.rB \in RegField
      /\ f.valC \in Word /\ f.valP \in Word
  BY FetchedAtTyped
<1>3. StatAt(st) = IF ~InMem(st.pc, 1) THEN "ADR"
                   ELSE IF f.icode \in {13, 15} THEN "INS" ELSE IF f.icode = 0 THEN "HLT" ELSE "AOK"
  BY DEF StatAt, I_POP2, I_HALT
<1> HIDE DEF f
<1>4. f.icode \notin {13, 15} /\ InMem(st.pc, 1) => FetchStatus(f) = "AOK"
  BY DEF FitsAt, Fits, f, I_POP2
<1>5. f.icode \in {13, 15} => FetchStatus(f) = "INS"
  BY DEF FetchStatus, I_POP2
<1>6. f.icode = 0 => Execute(st, f) = Stop(st, "HLT")
  BY DEF Execute, I_HALT, I_NOP, I_RRMOVQ, I_IRMOVQ, I_RMMOVQ, I_MRMOVQ, I_ALU, I_JMP, I_CALL, I_RET,
         I_PUSHQ, I_POPQ, I_IADDQ, I_JM
<1>7. f.icode \in (1 .. 14) \ {13} =>
        IF MemFault(f, a, b) THEN Execute(st, f) = Stop(Execute(st, f).s, "ADR")
        ELSE Execute(st, f) = Ok(Done(st, f, a, b))
  BY <1>2, DatapathRight
<1>8. (FaultAt(st) <=> MemFault(f, a, b)) /\ DoneAt(st) = Done(st, f, a, b)
  BY DEF FaultAt, DoneAt, f
<1>9. CASE ~InMem(st.pc, 1)
  BY <1>1, <1>3, <1>9
<1>10. CASE InMem(st.pc, 1) /\ f.icode \in {13, 15}
  BY <1>1, <1>3, <1>5, <1>10 DEF ExecuteIf
<1>11. CASE InMem(st.pc, 1) /\ f.icode = 0
  BY <1>1, <1>3, <1>4, <1>6, <1>11 DEF ExecuteIf
<1>12. CASE InMem(st.pc, 1) /\ f.icode \notin {0, 13, 15}
  <2>1. f.icode \in (1 .. 14) \ {13}
    BY <1>2, <1>12 DEF RegField
  <2>2. StepState(st) = Execute(st, f) /\ StatAt(st) = "AOK"
    BY <1>1, <1>3, <1>4, <1>12 DEF ExecuteIf
  <2> HIDE DEF a, b
  <2>3. MemFault(f, a, b) => StepState(st).e = "ADR"
    <3>1. \A x : Stop(x, "ADR").e = "ADR"
      BY DEF Stop
    <3> QED
      BY <2>1, <2>2, <1>7, <3>1
  <2> QED
    BY <2>1, <2>2, <2>3, <1>4, <1>7, <1>8, <1>12 DEF f
<1> QED
  BY <1>9, <1>10, <1>11, <1>12

\* A step that is fine leads from a machine state to a machine state.
LEMMA StepTyped ==
  ASSUME NEW s, NEW st \in MachineState, FitsAt(s, st), StepState(st).e = "AOK"
  PROVE  /\ StatAt(st) = "AOK" /\ ~FaultAt(st)
         /\ StepState(st) = Ok(DoneAt(st)) /\ StepState(st).s = DoneAt(st)
         /\ DoneAt(st) \in MachineState
<1>1. StatAt(st) = "AOK" /\ ~FaultAt(st)
  BY StepByStatus DEF Stop
<1>2. StepState(st) = Ok(DoneAt(st))
  BY <1>1, StepByStatus
<1>3. StepState(st).s = DoneAt(st)
  BY <1>2 DEF Ok
<1>4. DoneAt(st) \in MachineState
  BY FetchedAtTyped, OperandsTyped, DoneTyped DEF DoneAt
<1> QED
  BY <1>1, <1>2, <1>3, <1>4
--------------------------------------------------------------------------
\* ssim's operators.

\* Seq's powers of two are Isa's.
LEMMA SeqPow == S!Pow2 = Pow2
  BY DEF S!Pow2, Pow2

\* Seq's modulus is Isa's.
LEMMA SeqModulus == S!Modulus = Modulus
  BY SeqPow DEF S!Modulus, Modulus

\* Seq wraps and signs words as Isa does.
LEMMA SeqWrap == \A x : S!Wrap(x) = Wrap(x) /\ (S!Negative(x) <=> Negative(x))
  BY SeqModulus DEF S!Wrap, Wrap, S!Negative, Negative

\* Seq tests addresses as Isa does.
LEMMA SeqInMem == \A p, n : S!InMem(p, n) <=> InMem(p, n)
  BY SeqWrap DEF S!InMem, InMem

\* Seq reads a number from bytes as Isa does.
LEMMA SeqBytes == \A m, p, n : S!Bytes(m, p, n) = Bytes(m, p, n)
  BY Zenon DEF S!Bytes, Bytes, S!Pow2, Pow2

\* Seq reads a byte as Isa does.
LEMMA SeqGetByte == \A m, p, d : S!GetByte(m, p, d) = GetByte(m, p, d)
  BY SeqInMem DEF S!GetByte, GetByte

\* Seq reads a word as Isa does.
LEMMA SeqGetWord == \A m, p, d : S!GetWord(m, p, d) = GetWord(m, p, d)
  BY SeqInMem, SeqBytes DEF S!GetWord, GetWord

\* Seq writes a word as Isa does.
LEMMA SeqSetWord == \A m, p, v : S!SetWord(m, p, v) = SetWord(m, p, v)
  BY SeqInMem, SeqPow DEF S!SetWord, SetWord

\* Seq's register file is Isa's.
LEMMA SeqRegs == /\ \A r, i : S!GetReg(r, i) = GetReg(r, i)
                 /\ \A r, i, v : S!SetReg(r, i, v) = SetReg(r, i, v)
  BY DEF S!GetReg, GetReg, S!SetReg, SetReg, S!REG_NONE, REG_NONE

\* Seq's bitwise and is Isa's.
LEMMA SeqBitAnd == \A a, b : S!BitAnd(a, b) = BitAnd(a, b)
  BY Zenon DEF S!BitAnd, BitAnd, S!Pow2, Pow2

\* Seq's ALU is Isa's.
LEMMA SeqAlu == \A op, a, b : S!ComputeAlu(op, a, b) = ComputeAlu(op, a, b)
  BY SeqWrap, SeqBitAnd, Zenon DEF S!ComputeAlu, ComputeAlu, S!A_ADD, A_ADD, S!A_SUB, A_SUB, S!A_AND, A_AND, S!A_XOR, A_XOR

\* Seq's flags are Isa's.
LEMMA SeqFlags == \A op, a, b, v : S!Flags(op, a, b, v) = Flags(op, a, b, v)
  BY Zenon DEF S!Flags, Flags, S!Positive, Positive, S!Negative, Negative, S!Modulus, Modulus, S!Pow2, Pow2,
     S!A_ADD, A_ADD, S!A_SUB, A_SUB

\* Seq's condition codes are Isa's.
LEMMA SeqCc == \A op, a, b : S!ComputeCc(op, a, b) = ComputeCc(op, a, b)
  BY SeqAlu, SeqFlags, Zenon DEF S!ComputeCc, ComputeCc

\* Seq's conditions are Isa's.
LEMMA SeqCond == \A c, i : S!CondHolds(c, i) = CondHolds(c, i)
  BY DEF S!CondHolds, CondHolds

\* Seq's codes of instructions and registers are Isa's.
LEMMA SeqCodes ==
  /\ S!REG_RSP = REG_RSP /\ S!REG_NONE = REG_NONE /\ S!A_ADD = A_ADD
  /\ S!I_HALT = I_HALT /\ S!I_NOP = I_NOP /\ S!I_RRMOVQ = I_RRMOVQ /\ S!I_IRMOVQ = I_IRMOVQ
  /\ S!I_RMMOVQ = I_RMMOVQ /\ S!I_MRMOVQ = I_MRMOVQ /\ S!I_ALU = I_ALU /\ S!I_JMP = I_JMP
  /\ S!I_CALL = I_CALL /\ S!I_RET = I_RET /\ S!I_PUSHQ = I_PUSHQ /\ S!I_POPQ = I_POPQ
  /\ S!I_IADDQ = I_IADDQ /\ S!I_POP2 = I_POP2 /\ S!I_JM = I_JM
  BY DEF S!REG_RSP, REG_RSP, S!REG_NONE, REG_NONE, S!A_ADD, A_ADD,
     S!I_HALT, I_HALT, S!I_NOP, I_NOP, S!I_RRMOVQ, I_RRMOVQ, S!I_IRMOVQ, I_IRMOVQ, S!I_RMMOVQ, I_RMMOVQ,
     S!I_MRMOVQ, I_MRMOVQ, S!I_ALU, I_ALU, S!I_JMP, I_JMP, S!I_CALL, I_CALL, S!I_RET, I_RET,
     S!I_PUSHQ, I_PUSHQ, S!I_POPQ, I_POPQ, S!I_IADDQ, I_IADDQ, S!I_POP2, I_POP2, S!I_JM, I_JM

\* Seq gives the same instructions a register byte and an immediate.
LEMMA SeqNeeds ==
  /\ \A b : S!Hi4(b) = Hi4(b) /\ S!Lo4(b) = Lo4(b)
  /\ \A i : S!NeedRegids(i) = NeedRegids(i) /\ S!NeedImm(i) = NeedImm(i) /\ S!Length(i) = Length(i)
<1>1. \A b : S!Hi4(b) = Hi4(b) /\ S!Lo4(b) = Lo4(b)
  BY DEF S!Hi4, Hi4, S!Lo4, Lo4
<1>2. \A i : S!NeedRegids(i) = NeedRegids(i) /\ S!NeedImm(i) = NeedImm(i)
  BY SeqCodes DEF S!NeedRegids, NeedRegids, S!NeedImm, NeedImm
<1>3. \A i : S!Length(i) = Length(i)
  BY <1>2 DEF S!Length, Length
<1> QED
  BY <1>1, <1>2, <1>3
--------------------------------------------------------------------------
\* The abstract machine's operators.

\* Arch's powers of two are Isa's.
LEMMA ArchPow == A!Pow2 = Pow2
  BY DEF A!Pow2, Pow2

\* Arch's words and memory are Isa's.
LEMMA ArchWords ==
  /\ \A x : A!Wrap(x) = Wrap(x) /\ A!Negative(x) = Negative(x)
  /\ \A p, n : A!InMem(p, n) = InMem(p, n)
  /\ \A m, p, d : A!GetByte(m, p, d) = GetByte(m, p, d)
  /\ \A m, p, d : A!GetWord(m, p, d) = GetWord(m, p, d)
  /\ \A m, p, v : A!SetWord(m, p, v) = SetWord(m, p, v)
<1>1. A!Modulus = Modulus
  BY ArchPow DEF A!Modulus, Modulus
<1>2. \A x : A!Wrap(x) = Wrap(x) /\ A!Negative(x) = Negative(x)
  BY <1>1 DEF A!Wrap, Wrap, A!Negative, Negative
<1>3. \A p, n : A!InMem(p, n) = InMem(p, n)
  BY <1>2 DEF A!InMem, InMem
<1>4. \A m, p, d : A!GetByte(m, p, d) = GetByte(m, p, d)
  BY <1>3 DEF A!GetByte, GetByte
<1>5. \A m, p, n : A!Bytes(m, p, n) = Bytes(m, p, n)
  BY Zenon DEF A!Bytes, Bytes, A!Pow2, Pow2
<1>6. \A m, p, d : A!GetWord(m, p, d) = GetWord(m, p, d)
  BY <1>3, <1>5 DEF A!GetWord, GetWord
<1>7. \A m, p, v : A!SetWord(m, p, v) = SetWord(m, p, v)
  BY <1>3, ArchPow DEF A!SetWord, SetWord
<1> QED
  BY <1>2, <1>3, <1>4, <1>6, <1>7

\* Arch takes an instruction apart as Isa does.
LEMMA ArchFetched == \A m, p, b : A!Fetched(m, p, b) = Fetched(m, p, b)
  BY SMT DEF A!Fetched, Fetched, A!Length, Length, A!NeedImm, NeedImm, A!NeedRegids, NeedRegids,
     A!GetWord, GetWord, A!Bytes, Bytes, A!GetByte, GetByte, A!InMem, InMem, A!Hi4, Hi4, A!Lo4, Lo4,
     A!Wrap, Wrap, A!Negative, Negative, A!Modulus, Modulus, A!Pow2, Pow2, A!REG_NONE, REG_NONE,
     A!I_RRMOVQ, I_RRMOVQ, A!I_IRMOVQ, I_IRMOVQ, A!I_RMMOVQ, I_RMMOVQ,
     A!I_MRMOVQ, I_MRMOVQ, A!I_ALU, I_ALU, A!I_JMP, I_JMP, A!I_CALL, I_CALL,
     A!I_PUSHQ, I_PUSHQ, A!I_POPQ, I_POPQ, A!I_IADDQ, I_IADDQ, A!I_JM, I_JM

\* Arch finds the same wrong with it.
LEMMA ArchFetchStatus == \A f : A!FetchStatus(f) = FetchStatus(f)
  BY SMT DEF A!FetchStatus, FetchStatus, A!MustBeValid, MustBeValid, A!RegValid, RegValid, A!RegId, RegId,
     A!I_RRMOVQ, I_RRMOVQ, A!I_IRMOVQ, I_IRMOVQ, A!I_RMMOVQ, I_RMMOVQ,
     A!I_MRMOVQ, I_MRMOVQ, A!I_JMP, I_JMP, A!I_CALL, I_CALL,
     A!I_PUSHQ, I_PUSHQ, A!I_POPQ, I_POPQ, A!I_IADDQ, I_IADDQ, A!I_POP2, I_POP2, A!I_JM, I_JM

\* Arch executes it as Isa does.
LEMMA ArchExecute == \A st, f : A!Execute(st, f) = Execute(st, f)
  BY SMTT(30) DEF A!Execute, Execute,
     A!Ok, Ok, A!Stop, Stop, A!Store, Store, A!Load, Load, A!FetchStatus, FetchStatus, A!MustBeValid, MustBeValid,
     A!Fetched, Fetched, A!Length, Length, A!NeedImm, NeedImm, A!NeedRegids, NeedRegids, A!CondHolds, CondHolds,
     A!ComputeCc, ComputeCc, A!Flags, Flags, A!Positive, Positive, A!ComputeAlu, ComputeAlu, A!BitAnd, BitAnd,
     A!A_ADD, A_ADD, A!A_SUB, A_SUB, A!A_AND, A_AND, A!A_XOR, A_XOR, A!SetReg, SetReg, A!GetReg, GetReg, A!RegValid, RegValid,
     A!SetWord, SetWord, A!GetWord, GetWord, A!Bytes, Bytes, A!GetByte, GetByte, A!InMem, InMem,
     A!Hi4, Hi4, A!Lo4, Lo4, A!Wrap, Wrap, A!Negative, Negative, A!Modulus, Modulus, A!Pow2, Pow2,
     A!REG_RSP, REG_RSP, A!REG_NONE, REG_NONE, A!RegId, RegId,
     A!I_HALT, I_HALT, A!I_NOP, I_NOP, A!I_RRMOVQ, I_RRMOVQ, A!I_IRMOVQ, I_IRMOVQ, A!I_RMMOVQ, I_RMMOVQ,
     A!I_MRMOVQ, I_MRMOVQ, A!I_ALU, I_ALU, A!I_JMP, I_JMP, A!I_CALL, I_CALL, A!I_RET, I_RET,
     A!I_PUSHQ, I_PUSHQ, A!I_POPQ, I_POPQ, A!I_IADDQ, I_IADDQ, A!I_POP2, I_POP2, A!I_JM, I_JM

\* The step_state of Arch is that of Isa.
LEMMA ArchStep == \A st : A!StepState(st) = StepState(st)
<1>1. \A st, s : A!Ok(st) = Ok(st) /\ A!Stop(st, s) = Stop(st, s)
  BY DEF A!Ok, Ok, A!Stop, Stop
<1> QED
  BY <1>1, ArchWords, ArchFetched, ArchFetchStatus, ArchExecute, Zenon
     DEF A!StepState, StepState, A!ExecuteFetched, ExecuteFetched, A!ExecuteIf, ExecuteIf
--------------------------------------------------------------------------
\* ssim implements the abstract machine.

\* The register byte of a fetched instruction is in memory when its address is.
LEMMA FetchedOk == \A m, p, b : Fetched(m, p, b).ok1 = (NeedRegids(Hi4(b)) => InMem(Wrap(p + 1), 1))
  BY DEF Fetched

\* What ssim computes of a well-formed instruction is the datapath's.
LEMMA SeqFetches ==
  ASSUME ssimState \in MachineState, InMem(pc, 1), FetchStatus(FetchedAt(ssimState)) = "AOK"
  PROVE  LET f == FetchedAt(ssimState) IN
         /\ S!icode = f.icode /\ S!ifun = f.ifun /\ S!rA = f.rA /\ S!rB = f.rB
         /\ S!valC = f.valC /\ S!valP = f.valP
<1> DEFINE f == FetchedAt(ssimState)
           x == mem[pc]
           i == Hi4(x)
<1>1. ssimState.m = mem /\ ssimState.pc = pc /\ pc \in Word /\ mem \in Memory
  BY DEF ssimState, MachineState
<1>2. f = Fetched(mem, pc, x)
  BY <1>1 DEF FetchedAt, GetByte
<1>3. f.icode = i /\ f.ifun = Lo4(x)
  BY <1>2 DEF Fetched
<1>4. /\ NeedRegids(i) => InMem(Wrap(pc + 1), 1)
      /\ f.rA = IF NeedRegids(i) THEN Hi4(GetByte(mem, Wrap(pc + 1), 0)) ELSE REG_NONE
      /\ f.rB = IF NeedRegids(i) THEN Lo4(GetByte(mem, Wrap(pc + 1), 0)) ELSE REG_NONE
      /\ f.valC = IF NeedImm(i) THEN GetWord(mem, Wrap(pc + Length(i) - WordBytes), 0) ELSE 0
      /\ f.valP = Wrap(pc + Length(i))
  <2>1. f.ok1
    BY DEF FetchStatus
  <2>2. f.ok1 = (NeedRegids(i) => InMem(Wrap(pc + 1), 1))
    BY <1>2, FetchedOk, Zenon DEF i
  <2>3. /\ f.rA = IF NeedRegids(i) THEN Hi4(GetByte(mem, Wrap(pc + 1), 0)) ELSE REG_NONE
        /\ f.rB = IF NeedRegids(i) THEN Lo4(GetByte(mem, Wrap(pc + 1), 0)) ELSE REG_NONE
        /\ f.valC = IF NeedImm(i) THEN GetWord(mem, Wrap(pc + Length(i) - WordBytes), 0) ELSE 0
        /\ f.valP = Wrap(pc + Length(i))
    BY <1>2 DEF Fetched
  <2> HIDE DEF f, i
  <2> QED
    BY <2>1, <2>2, <2>3
<1> HIDE DEF f, i, x
<1>5. S!icode = i /\ S!ifun = Lo4(x)
  BY <1>1, SeqInMem, SeqGetByte, SeqNeeds DEF S!icode, S!ifun, S!imem_error, S!imem, GetByte, i, x
<1>6. S!valP = f.valP
  BY <1>4, <1>5, SeqWrap, SeqNeeds DEF S!valP
<1>7. S!valC = f.valC
  <2>1. pc \in Int /\ Length(i) \in Int /\ WordBytes \in Int
    BY <1>1, LengthRange, WrapOfWord, ModulusPositive
  <2>2. Wrap(f.valP - WordBytes) = Wrap(pc + Length(i) - WordBytes)
    <3> DEFINE y == pc + Length(i)
               z == -WordBytes
    <3>1. y \in Int /\ z \in Int
      BY <2>1
    <3>2. Wrap(y) \in Int
      BY <3>1, WrapIsWord, WrapOfWord
    <3>3. Wrap(y) - WordBytes = Wrap(y) + z /\ pc + Length(i) - WordBytes = y + z
      BY <2>1, <3>2
    <3>4. Wrap(Wrap(y) + z) = Wrap(y + z)
      <4> HIDE DEF y, z
      <4> QED
        BY <3>1, WrapWrap
    <3> QED
      BY <1>4, <3>3, <3>4
  <2>3. S!valC = IF NeedImm(i) THEN GetWord(mem, Wrap(f.valP - WordBytes), 0) ELSE 0
    BY <1>5, <1>6, SeqWrap, SeqNeeds, SeqGetWord DEF S!valC
  <2> QED
    BY <1>4, <2>2, <2>3
<1>8. S!rA = f.rA /\ S!rB = f.rB
  <2>1. S!regids = IF NeedRegids(i) THEN GetByte(mem, Wrap(pc + 1), 0) ELSE 255
    BY <1>4, <1>5, SeqWrap, SeqNeeds, SeqGetByte DEF S!regids, GetByte
  <2>2. Hi4(255) = REG_NONE /\ Lo4(255) = REG_NONE
    BY DEF Hi4, Lo4, REG_NONE
  <2> QED
    BY <1>4, <2>1, <2>2, SeqNeeds DEF S!rA, S!rB
<1> QED
  BY <1>3, <1>5, <1>6, <1>7, <1>8 DEF f

\* The stages of ssim behind fetch compute what the datapath computes.
LEMMA SeqExecutes ==
  ASSUME ssimState \in MachineState, InMem(pc, 1), FetchStatus(FetchedAt(ssimState)) = "AOK",
         NEW f, f = FetchedAt(ssimState), f.icode \in (1 .. 14) \ {13}, 
         NEW a, a = ValA(ssimState, f), NEW b, b = ValB(ssimState, f)
  PROVE  /\ S!dmem_error <=> MemFault(f, a, b)
         /\ S!SeqCycle => ssimState' = Done(ssimState, f, a, b)
<1>1. /\ S!icode = f.icode /\ S!ifun = f.ifun /\ S!rA = f.rA /\ S!rB = f.rB
      /\ S!valC = f.valC /\ S!valP = f.valP
  BY SeqFetches
<1>2. ssimState.r = reg /\ ssimState.m = mem /\ ssimState.pc = pc /\ ssimState.cc = cc
  BY DEF ssimState
<1>3. S!srcA = SrcA(f) /\ S!srcB = SrcB(f)
  BY <1>1, SeqCodes DEF S!srcA, S!srcB, SrcA, SrcB
<1>4. S!valA = a /\ S!valB = b
  BY <1>2, <1>3, SeqRegs DEF S!valA, S!valB, ValA, ValB
<1>5. S!Cnd = CondHolds(cc, f.ifun)
  BY <1>1, SeqCond DEF S!Cnd
<1>6. S!dstE = Moved(f, cc) /\ S!dstM = DstM(f)
  <2>1. S!dstM = DstM(f)
    BY <1>1, SeqCodes DEF S!dstM, DstM
  <2>2. S!dstE = Moved(f, cc)
    BY <1>1, <1>5, SeqCodes
       DEF S!dstE, Moved, DstE, I_RRMOVQ, I_IRMOVQ, I_ALU, I_IADDQ, I_PUSHQ, I_POPQ, I_CALL, I_RET
  <2> QED
    BY <2>1, <2>2
<1>7. S!aluA = OpA(f, a) /\ S!aluB = OpB(f, b) /\ S!alufun = AluFun(f)
  <2>1. \A n : S!Wrap(n) = Wrap(n)
    BY SeqWrap
  <2> QED
    BY <1>1, <1>4, <2>1, SeqCodes DEF S!aluA, S!aluB, S!alufun, OpA, OpB, AluFun
<1>8. S!valE = Result(f, a, b)
  BY <1>7, SeqAlu DEF S!valE, Result
<1>9. S!mem_addr = Address(f, a, b) /\ (S!mem_read <=> Loads(f)) /\ (S!mem_write <=> Stores(f))
  BY <1>1, <1>4, <1>8, SeqCodes DEF S!mem_addr, S!mem_read, S!mem_write, Address, Loads, Stores
<1>10. S!dmem_error <=> MemFault(f, a, b)
  BY <1>9, SeqInMem DEF S!dmem_error, MemFault
<1>11. S!valM = Loaded(ssimState, f, a, b)
  BY <1>2, <1>9, SeqGetWord DEF S!valM, Loaded
<1>12. S!new_pc = NextPc(ssimState, f, a, b)
  BY <1>1, <1>2, <1>5, <1>11, SeqCodes DEF S!new_pc, NextPc
<1>13. Stores(f) => S!mem_data = IF f.icode = I_CALL THEN f.valP ELSE a
  BY <1>1, <1>4, SeqCodes DEF S!mem_data, Stores, I_RMMOVQ, I_PUSHQ, I_CALL
<1>14. S!set_cc <=> SetsCc(f)
  BY <1>1, SeqCodes DEF S!set_cc, SetsCc
<1>15. ASSUME S!SeqCycle PROVE ssimState' = Done(ssimState, f, a, b)
  <2>1. pc' = NextPc(ssimState, f, a, b)
    BY <1>12, <1>15 DEF S!SeqCycle
  <2>2. cc' = IF SetsCc(f) THEN ComputeCc(AluFun(f), OpA(f, a), OpB(f, b)) ELSE cc
    BY <1>7, <1>14, <1>15, SeqCc DEF S!SeqCycle
  <2>3. reg' = SetReg(SetReg(reg, Moved(f, cc), Result(f, a, b)), DstM(f), Loaded(ssimState, f, a, b))
    BY <1>6, <1>8, <1>11, <1>15, SeqRegs DEF S!SeqCycle
  <2>4. mem' = IF Stores(f) THEN SetWord(mem, Address(f, a, b), IF f.icode = I_CALL THEN f.valP ELSE a) ELSE mem
    BY <1>9, <1>13, <1>15, SeqSetWord DEF S!SeqCycle
  <2> QED
    BY <1>2, <2>1, <2>2, <2>3, <2>4 DEF ssimState, Done
<1> QED
  BY <1>10, <1>15

\* One call of sim_step does what step_state does, or stops at the same instruction with the same status.
LEMMA SeqStatus ==
  ASSUME NEW s, ssimState \in MachineState, FitsAt(s, ssimState)
  PROVE  /\ S!Stat # "BUB"
         /\ S!Stat = "AOK" =>
              /\ StepState(ssimState) = Ok(DoneAt(ssimState))
              /\ S!SeqCycle => ssimState' = DoneAt(ssimState)
         /\ S!Stat # "AOK" => /\ StepState(ssimState).e = S!Stat
                              /\ S!Stat = "ADR" \/ StepState(ssimState).s = ssimState
<1> DEFINE st == ssimState
           f == FetchedAt(st)
           a == ValA(st, f)
           b == ValB(st, f)
<1>1. st.m = mem /\ st.pc = pc
  BY DEF ssimState
<1>2. S!imem_error <=> ~InMem(pc, 1)
  BY SeqInMem DEF S!imem_error
<1>3. \A x, y : Stop(x, y).s = x /\ Stop(x, y).e = y
  BY DEF Stop
<1>4. InMem(pc, 1) => S!icode = f.icode
  BY <1>1, <1>2, SeqGetByte, SeqNeeds DEF S!icode, S!imem, FetchedAt, Fetched, GetByte
<1>5. /\ S!instr_valid <=> S!icode \notin {13, 15}
      /\ S!mem_read \/ S!mem_write => S!icode \notin {0, 13, 15}
  BY DEF S!instr_valid, S!I_POP2, S!mem_read, S!mem_write, S!I_MRMOVQ, S!I_POPQ, S!I_RET, S!I_JM,
         S!I_RMMOVQ, S!I_PUSHQ, S!I_CALL
<1>6. S!Stat = IF S!imem_error \/ S!dmem_error THEN "ADR" ELSE IF S!icode \in {13, 15} THEN "INS"
               ELSE IF S!icode = 0 THEN "HLT" ELSE "AOK"
  BY <1>5 DEF S!Stat, S!I_HALT
<1> HIDE DEF f, a, b
<1>7. StatAt(st) = IF ~InMem(pc, 1) THEN "ADR"
                   ELSE IF f.icode \in {13, 15} THEN "INS" ELSE IF f.icode = 0 THEN "HLT" ELSE "AOK"
  BY <1>1 DEF StatAt, I_POP2, I_HALT, f
<1>8. CASE StatAt(st) # "AOK"
  <2>1. S!Stat = StatAt(st)
    BY <1>2, <1>4, <1>5, <1>6, <1>7, <1>8 DEF S!dmem_error
  <2>2. StepState(st) = Stop(st, StatAt(st))
    BY <1>8, StepByStatus
  <2>3. StepState(st).e = S!Stat /\ StepState(st).s = st
    BY <2>1, <2>2, <1>3
  <2>4. S!Stat # "BUB"
    BY <1>6
  <2> QED
    BY <1>8, <2>1, <2>3, <2>4
<1>9. CASE StatAt(st) = "AOK"
  <2>1. /\ InMem(pc, 1) /\ f.icode \in (1 .. 14) \ {13} /\ FetchStatus(f) = "AOK"
        /\ FaultAt(st) => StepState(st).e = "ADR"
        /\ ~FaultAt(st) => StepState(st) = Ok(DoneAt(st))
    BY <1>1, <1>9, StepByStatus DEF f
  <2>2. FaultAt(st) <=> MemFault(f, a, b)
    BY DEF FaultAt, f, a, b
  <2>3. DoneAt(st) = Done(st, f, a, b)
    BY DEF DoneAt, f, a, b
  <2>4. /\ S!dmem_error <=> MemFault(f, a, b)
        /\ S!SeqCycle => ssimState' = Done(st, f, a, b)
    BY <2>1, SeqExecutes DEF f, a, b
  <2>5. S!Stat = IF FaultAt(st) THEN "ADR" ELSE "AOK"
    BY <1>2, <1>4, <1>6, <2>1, <2>2, <2>4
  <2> QED
    BY <2>1, <2>3, <2>4, <2>5
<1> QED
  BY <1>8, <1>9
--------------------------------------------------------------------------
\* What psim fetches.

\* The register r holds the instruction at st as decode needs it.
InDecode(r, st) ==
  /\ r.pc = st.pc
  /\ r.stat = StatAt(st)
  /\ r.stat = "AOK" => LET f == FetchedAt(st) IN
                       /\ r.icode = f.icode /\ r.ifun = f.ifun
                       /\ r.rA = f.rA /\ r.rB = f.rB /\ r.valC = f.valC /\ r.valP = f.valP

\* The register r holds the instruction at st as execute needs it, with the values of its operands in st.
InExecute(r, st) ==
  /\ r.pc = st.pc
  /\ r.stat = StatAt(st)
  /\ r.stat = "AOK" => LET f == FetchedAt(st) IN
                       /\ r.icode = f.icode /\ r.ifun = f.ifun /\ r.valC = f.valC
                       /\ r.dstE = DstE(f) /\ r.dstM = DstM(f)
                       /\ f.icode \in {I_CALL, I_JMP} => r.valA = f.valP
                       /\ SrcA(f) # REG_NONE => r.valA = ValA(st, f)
                       /\ SrcB(f) # REG_NONE => r.valB = ValB(st, f)

\* A word has at least one byte.
LEMMA ModulusBig == Modulus \in Nat /\ Modulus >= 256
<1> DEFINE k == WordBytes - 1
<1>1. k \in Nat /\ k < WordBytes /\ k + 1 = WordBytes
  BY ModulusPositive
<1> HIDE DEF k
<1>2. Pow2[8 * k] \in Nat \ {0} /\ Pow2[8 * (k + 1)] = 256 * Pow2[8 * k]
  BY <1>1, Pow256
<1> QED
  BY <1>1, <1>2, ModulusPositive DEF Modulus

\* An address in memory and the next ones are words.
LEMMA NoWrapAround ==
  ASSUME NEW p \in Word, InMem(p, 1), NEW k \in 0 .. 2
  PROVE  Wrap(p + k) = p + k /\ p + k \in Nat
<1>1. p + k \in Word /\ p + k \in Nat
  BY ModulusBig, ModulusPositive DEF InMem, Word
<1> QED
  BY <1>1, WrapOfWord

\* An instruction is what the bytes it covers say.
LEMMA FetchSame ==
  ASSUME NEW m1 \in Memory, NEW m2 \in Memory, NEW p \in Word, InMem(p, 1),
         \A a \in p .. (p + Length(Hi4(m1[p])) - 1) : m1[a] = m2[a]
  PROVE  m1[p] = m2[p] /\ Fetched(m1, p, m1[p]) = Fetched(m2, p, m2[p])
<1> DEFINE x == m1[p]
           n == Length(Hi4(x))
           at == Wrap(p + n - WordBytes)
<1>1. p \in Nat /\ WordBytes \in Nat \ {0} /\ MemLen \in Nat /\ n \in {1, 2, WordBytes + 1, WordBytes + 2}
  BY LengthRange, ModulusPositive, WrapOfWord DEF Word
<1> HIDE DEF n
<1>2. m1[p] = m2[p]
  BY <1>1 DEF n, x
<1>3. NeedRegids(Hi4(x)) => n >= 2
  BY <1>1 DEF Length, n
<1>4. NeedImm(Hi4(x)) => n - WordBytes \in {1, 2}
  BY <1>1 DEF Length, n
<1>5. NeedRegids(Hi4(x)) => GetByte(m1, Wrap(p + 1), 0) = GetByte(m2, Wrap(p + 1), 0)
  <2> SUFFICES ASSUME NeedRegids(Hi4(x)) PROVE m1[Wrap(p + 1)] = m2[Wrap(p + 1)]
    BY DEF GetByte
  <2>1. Wrap(p + 1) = p + 1
    BY NoWrapAround
  <2>2. p + 1 \in p .. (p + n - 1)
    BY <1>1, <1>3
  <2> QED
    BY <2>1, <2>2 DEF n, x
<1>6. NeedImm(Hi4(x)) => GetWord(m1, at, 0) = GetWord(m2, at, 0)
  <2> SUFFICES ASSUME NeedImm(Hi4(x)) PROVE Bytes(m1, at, WordBytes) = Bytes(m2, at, WordBytes)
    BY DEF GetWord
  <2>1. at = p + (n - WordBytes)
    <3> DEFINE k == n - WordBytes
    <3>1. k \in 0 .. 2 /\ p + n - WordBytes = p + k
      BY <1>1, <1>4
    <3> HIDE DEF k
    <3>2. Wrap(p + k) = p + k
      BY <3>1, NoWrapAround
    <3> QED
      BY <3>1, <3>2 DEF k
  <2> HIDE DEF at
  <2>2. ASSUME NEW i \in 1 .. WordBytes PROVE m1[at + i - 1] = m2[at + i - 1]
    <3>1. at + i - 1 \in p .. (p + n - 1)
      BY <1>1, <1>4, <2>1
    <3> QED
      BY <3>1 DEF n, x
  <2> QED
    BY <1>1, <2>2, SameBytes
<1>7. Fetched(m1, p, x) = Fetched(m2, p, x)
  BY <1>5, <1>6 DEF Fetched, n
<1> QED
  BY <1>2, <1>7

\* What fetch takes up is the instruction at the address of a state, when memory
\* holds the instruction that the state's memory holds.
LEMMA FetchRight ==
  ASSUME mem \in Memory, NEW st \in MachineState, FitsAt("psim", st), f_pc = st.pc,
         InMem(st.pc, 1) => \A a \in Covers(st) : mem[a] = st.m[a]
  PROVE  /\ InDecode(nextD, st)
         /\ f_stat = "AOK" => LET f == FetchedAt(st) IN
              f_predPC = IF f.icode \in {I_JMP, I_CALL} THEN f.valC ELSE f.valP
<1> DEFINE f == FetchedAt(st)
           p == st.pc
           x == mem[p]
           i == Hi4(x)
<1>0. p \in Word /\ st.m \in Memory
  BY DEF MachineState
<1>n. nextD.pc = p /\ nextD.stat = f_stat /\ nextD.icode = f_icode /\ nextD.ifun = f_ifun
      /\ nextD.rA = Hi4(f_regids) /\ nextD.rB = Lo4(f_regids) /\ nextD.valC = f_valC /\ nextD.valP = f_valP
  BY DEF nextD
<1>1. CASE ~InMem(p, 1)
  <2>1. imem_error /\ f_stat = "ADR"
    BY <1>1 DEF imem_error, f_stat, SADR, f_icode, instr_valid, I_NOP, I_HALT, I_POP2, I_JM
  <2>2. StatAt(st) = "ADR"
    BY <1>1 DEF StatAt
  <2> HIDE DEF p
  <2> QED
    BY <1>n, <2>1, <2>2 DEF InDecode, p
<1>2. CASE InMem(p, 1)
  <2>1. /\ f.icode \notin {13, 15} => FetchStatus(f) = "AOK"
        /\ f.icode # 14
        /\ InMem(p + FetchAhead, 1)
    BY <1>2 DEF FitsAt, Fits, I_POP2, I_JM
  <2>2. f = Fetched(mem, p, x) /\ f.icode = i
    <3>0. FetchedAt(st) = Fetched(st.m, p, st.m[p]) /\ FetchedAt(st).icode = Hi4(st.m[p])
      BY <1>2 DEF FetchedAt, GetByte, Fetched
    <3>1. \A a \in p .. (p + Length(Hi4(st.m[p])) - 1) : st.m[a] = mem[a]
      BY <1>2, <3>0 DEF Covers
    <3>2. st.m[p] = mem[p] /\ Fetched(st.m, p, st.m[p]) = Fetched(mem, p, mem[p])
      <4> HIDE DEF p
      <4> QED
        BY <1>0, <1>2, <3>1, FetchSame
    <3> QED
      BY <3>0, <3>2
  <2>3. ~imem_error /\ f_icode = i /\ f_ifun = Lo4(x)
    BY <1>2, <2>1 DEF imem_error, f_icode, f_ifun, imem, GetByte
  <2> HIDE DEF f, i
  <2>4. f_stat = IF f.icode \in {13, 15} THEN "INS" ELSE IF f.icode = 0 THEN "HLT" ELSE "AOK"
    BY <2>1, <2>2, <2>3 DEF f_stat, instr_valid, I_POP2, I_JM, I_HALT
  <2>5. f_stat = StatAt(st)
    BY <1>2, <2>4 DEF StatAt, f, I_POP2, I_HALT
  <2>6. ASSUME f_stat = "AOK"
        PROVE  /\ f_ifun = f.ifun /\ Hi4(f_regids) = f.rA /\ Lo4(f_regids) = f.rB
               /\ f_valC = f.valC /\ f_valP = f.valP
    <3>1. f.ok1
      <4>1. FetchStatus(f) = "AOK"
        BY <2>1, <2>4, <2>6
      <4> QED
        BY <4>1 DEF FetchStatus
    <3>2. f.ok1 = (NeedRegids(i) => InMem(Wrap(p + 1), 1))
      <4> HIDE DEF p, x
      <4>1. Fetched(mem, p, x).ok1 = (NeedRegids(Hi4(x)) => InMem(Wrap(p + 1), 1))
        BY FetchedOk
      <4> QED
        BY <2>2, <4>1, Zenon DEF i
    <3>3. /\ f.rA = IF NeedRegids(i) THEN Hi4(GetByte(mem, Wrap(p + 1), 0)) ELSE REG_NONE
          /\ f.rB = IF NeedRegids(i) THEN Lo4(GetByte(mem, Wrap(p + 1), 0)) ELSE REG_NONE
          /\ f.valC = IF NeedImm(i) THEN GetWord(mem, Wrap(p + Length(i) - WordBytes), 0) ELSE 0
          /\ f.valP = Wrap(p + Length(i))
          /\ f.ifun = Lo4(x)
      BY <2>2 DEF Fetched, i
    <3>4. (need_regids <=> NeedRegids(i)) /\ (need_valC <=> NeedImm(i))
      BY <2>1, <2>2, <2>3 DEF need_regids, need_valC, NeedRegids, NeedImm, I_JM
    <3>5. Hi4(f_regids) = f.rA /\ Lo4(f_regids) = f.rB
      <4>1. f_regids = IF NeedRegids(i) THEN GetByte(mem, Wrap(p + 1), 0) ELSE 255
        BY <3>1, <3>2, <3>4 DEF f_regids, GetByte
      <4>2. Hi4(255) = REG_NONE /\ Lo4(255) = REG_NONE
        BY DEF Hi4, Lo4, REG_NONE
      <4> QED
        BY <3>3, <4>1, <4>2
    <3>6. p \in Int /\ WordBytes \in Int
      BY <1>0, WrapOfWord, ModulusPositive
    <3> DEFINE k == IF NeedRegids(i) THEN 1 ELSE 0
               l == IF NeedImm(i) THEN WordBytes ELSE 0
    <3>7. k \in {0, 1} /\ l \in {0, WordBytes} /\ Length(i) = 1 + k + l
      BY DEF Length
    <3>8. f_valAt = Wrap(p + 1 + k)
      BY <3>4 DEF f_valAt
    <3>9. f_valC = f.valC
      <4>1. NeedImm(i) => p + Length(i) - WordBytes = p + 1 + k
        BY <3>6, <3>7
      <4> HIDE DEF k, l
      <4> QED
        BY <3>3, <3>4, <3>8, <4>1 DEF f_valC
    <3>10. f_valP = Wrap(f_valAt + l)
      BY <3>4 DEF f_valP
    <3> HIDE DEF k, l
    <3>11. f_valP = f.valP
      <4> DEFINE y == p + 1 + k
      <4>1. y \in Int /\ l \in Int /\ y + l = p + Length(i)
        BY <3>6, <3>7
      <4> HIDE DEF y
      <4>2. Wrap(Wrap(y) + l) = Wrap(y + l)
        BY <4>1, WrapWrap
      <4> QED
        BY <3>3, <3>8, <3>10, <4>1, <4>2 DEF y
    <3> QED
      BY <2>3, <3>3, <3>5, <3>9, <3>11
  <2>7. f_stat = "AOK" => f_predPC = IF f.icode \in {I_JMP, I_CALL} THEN f.valC ELSE f.valP
    BY <2>2, <2>3, <2>6 DEF f_predPC
  <2> HIDE DEF p
  <2>8. InDecode(nextD, st)
    BY <1>n, <2>2, <2>3, <2>5, <2>6 DEF InDecode, f, p
  <2> QED
    BY <2>7, <2>8 DEF f
<1> QED
  BY <1>1, <1>2
--------------------------------------------------------------------------
\* What a cycle of psim executes.

\* Fields that name registers do.
DstsOK == {E.dstE, E.dstM, M.dstE, M.dstM, W.dstE, W.dstM, D.rA, D.rB} \subseteq RegField

\* A bubble, or an instruction that is known to be wrong, has no destination.
BubbleWritesNothing == E.stat \in Exceptional \cup {"BUB"} => E.dstE = REG_NONE /\ E.dstM = REG_NONE

\* Behind a ret in write-back the stages are empty.
RetAlone == W.icode = I_RET => M.stat = "BUB" /\ E.stat = "BUB" /\ D.stat = "BUB"

\* The instruction in execute is the next one of the program.
RightE == E.stat # "BUB" => InExecute(E, psimState)

\* A cycle far from the instruction limit, with nothing wrong in memory or write-back.
Cycling(n) ==
  /\ ControlInv /\ Cycle(n) /\ n \in Int /\ n > 2
  /\ W.stat \in {"AOK", "BUB"} /\ m_stat \notin Exceptional /\ ccIn = cc

\* The register file after the instruction in execute.
NextReg == SetReg(SetReg(psimReg, e_dstE, e_valE), E.dstM, m_valM')

\* What a cycle does to the architectural registers and memory while nothing is wrong.
LEMMA CycleArch ==
  ASSUME NEW n, Cycling(n)
  PROVE  /\ memStat = "AOK"
         /\ reg' = afterW /\ mem' = psimMem
         /\ cc' = IF set_cc THEN ComputeCc(alufun, aluA, aluB) ELSE cc
         /\ ccIn' = cc'
         /\ M' = nextM /\ W' = nextW
         /\ psimReg = SetReg(SetReg(afterW, M.dstE, M.valE), M.dstM, m_valM)
         /\ afterW' = psimReg
         /\ memStat' = IF m_stat' \in Exceptional THEN m_stat' ELSE "AOK"
         /\ psimReg' = IF m_stat' \in Exceptional THEN psimReg ELSE NextReg
         /\ psimMem' = IF mem_write' THEN SetWord(psimMem, mem_addr', E.valA) ELSE psimMem
<1> USE DEF Cycling
<1>1. W.stat \notin Exceptional /\ memStat = "AOK"
  BY DEF Exceptional, memStat
<1>2. M' = nextM /\ W' = nextW
  BY <1>1, CycleLatches
<1>3. reg' = afterW
  BY DEF Cycle, UpdateState, afterW
<1>4. mem' = psimMem /\ ccIn' = cc' /\ cc' = IF set_cc THEN ComputeCc(alufun, aluA, aluB) ELSE cc
  <2> DEFINE am == IF W.stat # "BUB" THEN 1 ELSE 0
             ax == am + (IF m_stat # "BUB" THEN 1 ELSE 0)
  <2>1. am < n /\ ax < n
    OBVIOUS
  <2>2. UpdateState(am < n, ax < n)
    BY DEF Cycle
  <2> HIDE DEF am, ax
  <2> QED
    BY <2>1, <2>2 DEF UpdateState, psimMem
<1>5. psimReg = SetReg(SetReg(afterW, M.dstE, M.valE), M.dstM, m_valM)
  BY <1>1 DEF psimReg
<1>6. afterW' = psimReg
  <2>1. W'.dstE = M.dstE /\ W'.valE = M.valE /\ W'.dstM = M.dstM /\ W'.valM = m_valM
    BY <1>2 DEF nextW
  <2> QED
    BY <1>3, <1>5, <2>1 DEF afterW
<1>7. W'.stat = m_stat
  BY <1>2 DEF nextW
<1>8. memStat' = IF m_stat' \in Exceptional THEN m_stat' ELSE "AOK"
  BY <1>7 DEF memStat
<1>9. M'.dstE = e_dstE /\ M'.valE = e_valE /\ M'.dstM = E.dstM /\ M'.valA = E.valA
  BY <1>2 DEF nextM
<1>10. psimReg' = IF m_stat' \in Exceptional THEN psimReg ELSE NextReg
  <2>1. psimReg' = CASE W'.stat \in Exceptional -> reg'
                     [] W'.stat \notin Exceptional /\ m_stat' \in Exceptional -> afterW'
                     [] OTHER -> SetReg(SetReg(afterW', M'.dstE, M'.valE), M'.dstM, m_valM')
    BY DEF psimReg
  <2> QED
    BY <2>1, <1>6, <1>7, <1>9 DEF NextReg
<1>11. psimMem' = IF mem_write' THEN SetWord(psimMem, mem_addr', E.valA) ELSE psimMem
  <2>1. psimMem' = IF mem_write' THEN SetWord(mem', mem_addr', M'.valA) ELSE mem'
    BY DEF psimMem
  <2> QED
    BY <2>1, <1>4, <1>9
<1> QED
  BY <1>1, <1>2, <1>3, <1>4, <1>5, <1>6, <1>8, <1>10, <1>11

\* A bubble in execute changes nothing.
LEMMA BubbleExecutes ==
  ASSUME NEW n, Cycling(n), BubbleWritesNothing, E.stat = "BUB"
  PROVE  /\ memStat' = "AOK" /\ psimReg' = psimReg /\ psimMem' = psimMem /\ cc' = cc
         /\ M'.icode = I_NOP
<1> USE DEF Cycling
<1>1. E.icode = I_NOP /\ E.dstE = REG_NONE /\ E.dstM = REG_NONE
  BY DEF BubbleWritesNothing, ControlInv, StagesOK, StageOK
<1>2. M'.icode = I_NOP /\ M'.stat = "BUB" /\ e_dstE = REG_NONE
  BY <1>1, CycleArch DEF nextM, e_dstE
<1>3. ~mem_read' /\ ~mem_write' /\ ~set_cc
  BY <1>1, <1>2 DEF mem_read, mem_write, set_cc, I_NOP, I_MRMOVQ, I_POPQ, I_RET, I_RMMOVQ, I_PUSHQ, I_CALL, I_ALU, I_IADDQ
<1>4. m_stat' = "BUB"
  BY <1>2, <1>3 DEF m_stat, dmem_error
<1>5. NextReg = psimReg
  BY <1>1, <1>2, NoneReads DEF NextReg
<1> QED
  BY <1>2, <1>3, <1>4, <1>5, CycleArch DEF Exceptional

\* An instruction that is wrong leaves everything as it is.
LEMMA FaultExecutes ==
  ASSUME NEW n, Cycling(n), E.stat \in Exceptional
  PROVE  /\ memStat' = E.stat /\ psimReg' = psimReg /\ psimMem' = psimMem /\ cc' = cc /\ psimPc' = E.pc
<1> USE DEF Cycling
<1>1. E.icode \in Effectless
  BY DEF ControlInv, StagesOK, StageOK
<1>2. M'.icode = E.icode /\ M'.stat = E.stat /\ M'.pc = E.pc /\ W'.stat = m_stat
  BY CycleArch DEF nextM, nextW
<1>3. ~mem_read' /\ ~mem_write' /\ ~set_cc
  BY <1>1, <1>2 DEF mem_read, mem_write, set_cc, I_NOP, I_MRMOVQ, I_POPQ, I_RET, I_RMMOVQ, I_PUSHQ, I_CALL, I_ALU,
     I_IADDQ, Effectless, I_HALT, I_POP2, I_JM
<1>4. m_stat' = E.stat
  BY <1>2, <1>3 DEF m_stat, dmem_error
<1>5. psimPc' = E.pc
  <2>1. W'.stat \notin Exceptional /\ m_stat' \in Exceptional /\ memStat' # "AOK"
    BY <1>2, <1>4, CycleArch DEF Exceptional
  <2> QED
    BY <1>2, <2>1 DEF psimPc
<1> QED
  BY <1>3, <1>4, <1>5, CycleArch

\* An instruction that is fine computes what the datapath computes.
LEMMA FineExecutes ==
  ASSUME NEW n, Cycling(n), psimState \in MachineState, FitsAt("psim", psimState),
         InExecute(E, psimState), E.stat = "AOK"
  PROVE  /\ FaultAt(psimState) =>
              memStat' = "ADR" /\ psimReg' = psimReg /\ psimMem' = psimMem /\ cc' = cc /\ psimPc' = E.pc
         /\ ~FaultAt(psimState) =>
              /\ memStat' = "AOK" /\ psimReg' = DoneAt(psimState).r /\ psimMem' = DoneAt(psimState).m
              /\ cc' = DoneAt(psimState).cc
              /\ m_valM' = LET f == FetchedAt(psimState)
                           IN  Loaded(psimState, f, ValA(psimState, f), ValB(psimState, f))
<1> USE DEF Cycling
<1> DEFINE st == psimState
           f == FetchedAt(st)
           a == ValA(st, f)
           b == ValB(st, f)
<1> USE DEF I_RRMOVQ, I_IRMOVQ, I_RMMOVQ, I_MRMOVQ, I_ALU, I_CALL, I_RET, I_PUSHQ, I_POPQ, I_IADDQ, I_JM
<1>0. st.r = psimReg /\ st.m = psimMem /\ st.pc = psimPc /\ st.cc = cc
  BY DEF psimState
<1>1. /\ InMem(st.pc, 1) /\ f.icode \in (1 .. 14) \ {13}
  BY StepByStatus DEF InExecute
<1>2. f.icode # I_JM /\ REG_NONE \notin Sources(f)
  BY <1>1 DEF FitsAt, Fits
<1>3. /\ E.icode = f.icode /\ E.ifun = f.ifun /\ E.valC = f.valC
      /\ E.dstE = DstE(f) /\ E.dstM = DstM(f)
      /\ f.icode \in {I_CALL, I_JMP} => E.valA = f.valP
      /\ SrcA(f) # REG_NONE => E.valA = a
      /\ SrcB(f) # REG_NONE => E.valB = b
  BY DEF InExecute
<1> HIDE DEF f, a, b
<1>4. f.icode \in {I_RRMOVQ, I_RMMOVQ, I_ALU, I_PUSHQ, I_POPQ, I_RET} => E.valA = a
  BY <1>2, <1>3 DEF SrcA, Sources, REG_RSP, REG_NONE
<1>5. f.icode \in {I_RMMOVQ, I_MRMOVQ, I_ALU, I_CALL, I_PUSHQ, I_RET, I_POPQ, I_IADDQ} => E.valB = b
  BY <1>2, <1>3 DEF SrcB, Sources, REG_RSP, REG_NONE
<1>6. aluA = OpA(f, a) /\ aluB = OpB(f, b) /\ alufun = AluFun(f)
  BY <1>2, <1>3, <1>4, <1>5 DEF aluA, aluB, alufun, OpA, OpB, AluFun
<1>7. e_valE = Result(f, a, b) /\ e_dstE = Moved(f, cc)
  BY <1>3, <1>6 DEF e_valE, Result, e_dstE, Moved, e_Cnd
<1>8. /\ M'.icode = f.icode /\ M'.stat = "AOK" /\ M'.pc = E.pc /\ W'.stat = m_stat
      /\ M'.valE = Result(f, a, b) /\ M'.valA = E.valA
  BY <1>3, <1>7, CycleArch DEF nextM, nextW
<1>9. mem_addr' = Address(f, a, b) /\ (mem_read' <=> Loads(f)) /\ (mem_write' <=> Stores(f))
  BY <1>2, <1>4, <1>8 DEF mem_addr, mem_read, mem_write, Address, Loads, Stores
<1>10. dmem_error' <=> MemFault(f, a, b)
  <2>1. \A p, k : InMem(p, k)' <=> InMem(p, k)
    BY DEF InMem
  <2> QED
    BY <1>9 DEF dmem_error, MemFault
<1>11. m_stat' = IF MemFault(f, a, b) THEN "ADR" ELSE "AOK"
  BY <1>8, <1>10 DEF m_stat, SADR
<1>12. m_valM' = Loaded(st, f, a, b)
  BY <1>0, <1>9, CycleArch DEF m_valM, Loaded
<1>13. Stores(f) => E.valA = IF f.icode = I_CALL THEN f.valP ELSE a
  BY <1>3, <1>4 DEF Stores
<1>14. (FaultAt(st) <=> MemFault(f, a, b)) /\ DoneAt(st) = Done(st, f, a, b)
  BY DEF FaultAt, DoneAt, f, a, b
<1>15. cc' = IF SetsCc(f) THEN ComputeCc(AluFun(f), OpA(f, a), OpB(f, b)) ELSE cc
  <2>1. set_cc <=> SetsCc(f)
    BY <1>3 DEF set_cc, SetsCc, Exceptional
  <2> QED
    BY <2>1, <1>6, CycleArch
<1>16. CASE MemFault(f, a, b)
  <2>1. ~SetsCc(f)
    BY <1>16 DEF MemFault, Loads, Stores, SetsCc
  <2>2. W'.stat \notin Exceptional /\ m_stat' \in Exceptional /\ memStat' = "ADR" /\ psimReg' = psimReg
    BY <1>8, <1>11, <1>16, CycleArch DEF Exceptional
  <2>3. psimPc' = E.pc
    BY <1>8, <2>2 DEF psimPc
  <2>4. psimMem' = psimMem
    <3>1. ~InMem(mem_addr', WordBytes)
      BY <1>9, <1>16 DEF MemFault
    <3>2. psimMem \in Memory
      BY <1>0 DEF MachineState
    <3>3. SetWord(psimMem, mem_addr', E.valA) = psimMem
      BY <3>1, <3>2 DEF SetWord, Memory
    <3> QED
      BY <3>3, CycleArch
  <2> QED
    BY <1>14, <1>15, <1>16, <2>1, <2>2, <2>3, <2>4
<1>17. CASE ~MemFault(f, a, b)
  <2>1. memStat' = "AOK" /\ psimReg' = NextReg
    BY <1>11, <1>17, CycleArch DEF Exceptional
  <2>2. NextReg = Done(st, f, a, b).r
    BY <1>0, <1>3, <1>7, <1>12 DEF NextReg, Done
  <2>3. psimMem' = Done(st, f, a, b).m
    BY <1>0, <1>9, <1>13, CycleArch DEF Done
  <2>4. cc' = Done(st, f, a, b).cc
    BY <1>0, <1>15 DEF Done
  <2> QED
    BY <1>12, <1>14, <1>17, <2>1, <2>2, <2>3, <2>4 DEF f, a, b
<1> QED
  BY <1>16, <1>17
--------------------------------------------------------------------------
\* The state after the instruction in execute is the state after the cycle.

\* Behind a stage's instruction, whose turn is in the state st, is the state after it.
After(r, st) == IF r.stat = "BUB" THEN st ELSE StepState(st).s

\* Fetch has guessed rightly what follows the instruction at st.
Predicted(st) ==
  LET f == FetchedAt(st) IN
  /\ StepState(st).e = "AOK"
  /\ f.icode # I_RET
  /\ f.icode = I_JMP => CondHolds(st.cc, f.ifun)

\* What is behind r's instruction is what follows it in the program.
Goes(r, st) == r.stat # "BUB" => Predicted(st)

\* The state after the instruction in execute.
Behind == After(E, psimState)

\* The instruction in decode follows it,
RightD == Goes(E, psimState) /\ D.stat # "BUB" => InDecode(D, Behind)

\* and what fetch takes up follows that.
RightF == Goes(E, psimState) /\ Goes(D, Behind) /\ M.icode # I_RET => f_pc = After(D, Behind).pc

\* The address of the next instruction in program order.
PcInOrder ==
  IF M.icode = I_RET THEN m_valM
  ELSE IF M.icode = I_JMP /\ ~M.cnd THEN M.valA
  ELSE IF E.stat # "BUB" THEN E.pc ELSE IF D.stat # "BUB" THEN D.pc ELSE f_pc

\* The next instruction in program order, when nothing is wrong.
LEMMA PcNow == memStat = "AOK" => psimPc = PcInOrder
<1> SUFFICES ASSUME memStat = "AOK" PROVE psimPc = PcInOrder
  OBVIOUS
<1>1. W.stat \notin Exceptional /\ m_stat \notin Exceptional
  BY DEF memStat, Exceptional
<1> QED
  BY <1>1 DEF psimPc, PcInOrder, I_RET, I_JMP

\* The same after a cycle.
LEMMA PcThen == memStat' = "AOK" => psimPc' = PcInOrder'
<1> SUFFICES ASSUME memStat' = "AOK" PROVE psimPc' = PcInOrder'
  OBVIOUS
<1>1. W'.stat \notin Exceptional /\ m_stat' \notin Exceptional
  BY DEF memStat, Exceptional
<1> QED
  BY <1>1 DEF psimPc, PcInOrder, I_RET, I_JMP

\* The fetch register.
LEMMA FetchLatch ==
  ASSUME NEW n, Cycle(n)
  PROVE  F' = IF LoadUse \/ Returning THEN F ELSE nextF
  BY DEF Cycle, Latch, pipe_cntl, F_stall, F_bubble

\* The pipe registers after a cycle.
LEMMA StagesThen ==
  ASSUME NEW n, Cycling(n)
  PROVE  /\ F' = IF LoadUse \/ Returning THEN F ELSE nextF
         /\ D' = IF LoadUse THEN D ELSE IF Mispredicted \/ Returning THEN BubbleD ELSE nextD
         /\ E' = IF LoadUse \/ Mispredicted THEN BubbleE ELSE nextE
         /\ M' = nextM /\ W' = nextW
         /\ LoadUse => ~Mispredicted
<1> USE DEF Cycling
<1>1. W.stat \notin Exceptional
  BY DEF Exceptional
<1>2. LoadUse => ~Mispredicted
  BY DEF LoadUse, Mispredicted, I_MRMOVQ, I_POPQ, I_JMP
<1> QED
  BY <1>1, <1>2, CycleLatches, FetchLatch

\* The instruction in execute, if any, is done after the cycle.
LEMMA Completes ==
  ASSUME NEW n, Cycling(n), memStat' = "AOK", psimState \in MachineState, FitsAt("psim", psimState),
         RightE, BubbleWritesNothing
  PROVE  /\ psimReg' = Behind.r /\ psimMem' = Behind.m /\ cc' = Behind.cc
         /\ E.stat = "BUB" => Behind = psimState /\ M'.icode = I_NOP
         /\ E.stat # "BUB" =>
              LET f == FetchedAt(psimState) IN
              /\ E.stat = "AOK" /\ InMem(psimState.pc, 1) /\ StepState(psimState).e = "AOK"
              /\ Behind = DoneAt(psimState) /\ Behind \in MachineState
              /\ E.icode = f.icode /\ f.icode # I_JM /\ M'.icode = f.icode
              /\ (e_Cnd <=> CondHolds(cc, f.ifun)) /\ (M'.cnd <=> e_Cnd)
              /\ f.icode = I_RET => m_valM' = Behind.pc
              /\ f.icode = I_JMP => Behind.pc = IF e_Cnd THEN f.valC ELSE M'.valA
              /\ f.icode = I_CALL => Behind.pc = f.valC
              /\ f.icode \notin {I_RET, I_JMP, I_CALL} => Behind.pc = f.valP
<1> USE DEF Cycling
<1>1. CASE E.stat = "BUB"
  <2>1. Behind = psimState
    BY <1>1 DEF Behind, After
  <2> QED
    BY <1>1, <2>1, BubbleExecutes DEF psimState
<1>2. CASE E.stat # "BUB"
  <2> DEFINE st == psimState
             f == FetchedAt(st)
             a == ValA(st, f)
             b == ValB(st, f)
  <2>1. InExecute(E, st)
    BY <1>2 DEF RightE
  <2>2. E.stat = "AOK"
    <3>1. E.stat \notin Exceptional
      BY FaultExecutes DEF Exceptional
    <3> QED
      BY <1>2, <3>1 DEF ControlInv, StagesOK, StageOK, Status5, Exceptional
  <2>3. ~FaultAt(st)
    BY <2>1, <2>2, FineExecutes
  <2>4. StatAt(st) = "AOK"
    BY <2>1, <2>2 DEF InExecute
  <2>5. StepState(st) = Ok(DoneAt(st)) /\ InMem(st.pc, 1)
    BY <2>3, <2>4, StepByStatus
  <2>6. StepState(st).e = "AOK" /\ StepState(st).s = DoneAt(st)
    BY <2>5 DEF Ok
  <2>7. Behind = DoneAt(st)
    BY <1>2, <2>6 DEF Behind, After
  <2>8. Behind \in MachineState
    BY <2>6, <2>7, StepTyped
  <2>9. f.icode # I_JM
    BY <2>5 DEF FitsAt, Fits
  <2>10. /\ E.icode = f.icode /\ E.ifun = f.ifun
         /\ f.icode \in {I_CALL, I_JMP} => E.valA = f.valP
    BY <2>1, <2>2 DEF InExecute
  <2>11. M'.icode = f.icode /\ M'.cnd = e_Cnd /\ M'.valA = E.valA
    BY <2>10, StagesThen DEF nextM
  <2>12. e_Cnd = CondHolds(cc, f.ifun) /\ st.cc = cc
    BY <2>10 DEF e_Cnd, psimState
  <2>13. m_valM' = Loaded(st, f, a, b)
    BY <2>1, <2>2, <2>3, FineExecutes
  <2>14. DoneAt(st).pc = NextPc(st, f, a, b)
    BY DEF DoneAt, Done
  <2>15. psimReg' = Behind.r /\ psimMem' = Behind.m /\ cc' = Behind.cc
    BY <2>1, <2>2, <2>3, <2>7, FineExecutes
  <2> HIDE DEF f, a, b
  <2>16. /\ f.icode = I_RET => Behind.pc = m_valM'
         /\ f.icode = I_JMP => Behind.pc = IF e_Cnd THEN f.valC ELSE M'.valA
         /\ f.icode = I_CALL => Behind.pc = f.valC
         /\ f.icode \notin {I_RET, I_JMP, I_CALL} => Behind.pc = f.valP
    BY <2>7, <2>9, <2>10, <2>11, <2>12, <2>13, <2>14 DEF NextPc, I_RET, I_JMP, I_CALL, I_JM
  <2> QED
    BY <1>2, <2>2, <2>5, <2>6, <2>7, <2>8, <2>9, <2>10, <2>11, <2>12, <2>15, <2>16 DEF f
<1> QED
  BY <1>1, <1>2

\* What a stage with a bubble or behind a ret holds.
LEMMA EmptyBehind ==
  ASSUME ControlInv
  PROVE  /\ D.stat = "BUB" => D.icode = I_NOP
         /\ E.stat = "BUB" => E.icode = I_NOP
         /\ M.icode = I_RET => D.stat = "BUB" /\ E.stat = "BUB"
         /\ M.icode = I_JMP /\ ~M.cnd => D.stat = "BUB" /\ E.stat = "BUB"
         /\ E.icode = I_RET => D.stat = "BUB"
         /\ D.stat \in Status5 /\ E.stat \in Status5
  BY DEF ControlInv, StagesOK, StageOK, WrongPathCancelled

\* A load/use pair is in two stages.
LEMMA LoadUseTwo ==
  ASSUME LoadUse, DstsOK, ControlInv, RightE, psimState \in MachineState, FitsAt("psim", psimState)
  PROVE  E.stat # "BUB" /\ D.stat # "BUB"
<1>1. E.icode \in {I_MRMOVQ, I_POPQ} /\ E.dstM \in {d_srcA, d_srcB}
  BY DEF LoadUse
<1>2. E.stat # "BUB"
  BY <1>1, EmptyBehind DEF I_NOP, I_MRMOVQ, I_POPQ
<1>3. E.stat = "AOK"
  BY <1>1, <1>2 DEF ControlInv, StagesOK, StageOK, Status5, Exceptional, Effectless, I_NOP, I_MRMOVQ, I_POPQ,
     I_HALT, I_POP2, I_JM
<1>4. E.dstM # REG_NONE
  <2> DEFINE f == FetchedAt(psimState)
  <2>1. E.icode = f.icode /\ E.dstM = DstM(f) /\ StatAt(psimState) = "AOK"
    BY <1>2, <1>3 DEF RightE, InExecute
  <2>2. E.dstM = f.rA
    BY <1>1, <2>1 DEF DstM
  <2>3. FetchStatus(f) = "AOK"
    BY <2>1, StepByStatus
  <2> HIDE DEF f
  <2>4. MustBeValid(f) = {f.rA}
    BY <1>1, <2>1 DEF MustBeValid, I_MRMOVQ, I_POPQ, I_RRMOVQ, I_IRMOVQ, I_IADDQ, I_JM, I_RMMOVQ, I_PUSHQ
  <2>5. RegValid(f.rA)
    BY <2>3, <2>4 DEF FetchStatus
  <2> QED
    BY <2>2, <2>5 DEF RegValid, RegId, REG_NONE
<1>5. D.icode # I_NOP
  BY <1>1, <1>4 DEF d_srcA, d_srcB, I_NOP, I_RRMOVQ, I_RMMOVQ, I_ALU, I_PUSHQ, I_POPQ, I_RET, I_MRMOVQ, I_IADDQ, I_CALL
<1> QED
  BY <1>1, <1>2, <1>5, EmptyBehind

\* The next instruction in line is the one that follows the one that is done.
LEMMA PcFollows ==
  ASSUME NEW n, Cycling(n), memStat' = "AOK", psimState \in MachineState, FitsAt("psim", psimState),
         DstsOK, BubbleWritesNothing, RightE, RightD, RightF
  PROVE  psimPc' = Behind.pc
<1> USE DEF Cycling
<1>0. memStat = "AOK"
  BY CycleArch
<1>1. psimPc = PcInOrder /\ psimPc' = PcInOrder' /\ psimPc = psimState.pc
  BY <1>0, PcNow, PcThen DEF psimState
<1>2. CASE E.stat = "BUB"
  <2>0. Behind.pc = psimPc /\ M'.icode = I_NOP /\ E.icode = I_NOP
    BY <1>1, <1>2, Completes, EmptyBehind
  <2>1. ~LoadUse /\ ~Mispredicted
    BY <2>0 DEF LoadUse, Mispredicted, I_NOP, I_MRMOVQ, I_POPQ, I_JMP
  <2>2. E' = nextE /\ W' = nextW /\ D' = IF Returning THEN BubbleD ELSE nextD
    BY <2>1, StagesThen
  <2>3. PcInOrder' = IF E'.stat # "BUB" THEN E'.pc ELSE IF D'.stat # "BUB" THEN D'.pc ELSE f_pc'
    BY <2>0 DEF PcInOrder, I_NOP, I_RET, I_JMP
  <2>4. CASE M.icode = I_RET
    <3>1. D.stat = "BUB" /\ Returning
      BY <2>4, EmptyBehind DEF Returning
    <3>2. E'.stat = "BUB" /\ D'.stat = "BUB" /\ W'.icode = I_RET /\ W'.valM = m_valM
      BY <2>2, <2>4, <3>1 DEF nextE, BubbleD, nextW
    <3>3. f_pc' = m_valM
      BY <2>0, <3>2 DEF f_pc, I_NOP, I_JMP
    <3>4. PcInOrder = m_valM
      BY <2>4 DEF PcInOrder
    <3> QED
      BY <1>1, <2>0, <2>3, <3>2, <3>3, <3>4
  <2>5. CASE M.icode # I_RET
    <3>1. CASE D.stat # "BUB"
      <4>1. ~(M.icode = I_JMP /\ ~M.cnd)
        BY <3>1, EmptyBehind
      <4>2. PcInOrder = D.pc
        BY <1>2, <2>5, <3>1, <4>1 DEF PcInOrder
      <4>3. E'.stat # "BUB" /\ E'.pc = D.pc
        BY <2>2, <3>1 DEF nextE
      <4> QED
        BY <1>1, <2>0, <2>3, <4>2, <4>3
    <3>2. CASE D.stat = "BUB"
      <4>1. ~Returning
        BY <2>0, <2>5, <3>2, EmptyBehind DEF Returning, I_NOP, I_RET
      <4>2. E'.stat = "BUB" /\ D'.stat # "BUB" /\ D'.pc = f_pc
        BY <2>2, <3>2, <4>1 DEF nextE, nextD, f_stat, SADR
      <4>3. PcInOrder = f_pc
        <5>1. CASE M.icode = I_JMP /\ ~M.cnd
          <6>1. f_pc = M.valA
            <7>1. RightF /\ Goes(E, psimState) /\ Goes(D, Behind) /\ After(D, Behind) = Behind
              BY <1>2, <3>2 DEF Goes, After
            <7> QED
              BY <7>1, <1>1, <2>0, <2>5, <5>1 DEF RightF, PcInOrder
          <6> QED
            BY <2>5, <5>1, <6>1 DEF PcInOrder
        <5>2. CASE ~(M.icode = I_JMP /\ ~M.cnd)
          BY <1>2, <2>5, <3>2, <5>2 DEF PcInOrder
        <5> QED
          BY <5>1, <5>2
      <4> QED
        BY <1>1, <2>0, <2>3, <4>2, <4>3
    <3> QED
      BY <3>1, <3>2
  <2> QED
    BY <2>4, <2>5
<1>3. CASE E.stat # "BUB"
  <2> DEFINE f == FetchedAt(psimState)
  <2>1. /\ StepState(psimState).e = "AOK" /\ E.icode = f.icode /\ M'.icode = f.icode
        /\ (M'.cnd <=> e_Cnd) /\ (e_Cnd <=> CondHolds(cc, f.ifun))
        /\ f.icode = I_RET => m_valM' = Behind.pc
        /\ f.icode = I_JMP => Behind.pc = IF e_Cnd THEN f.valC ELSE M'.valA
    BY <1>3, Completes
  <2> HIDE DEF f
  <2>2. CASE f.icode = I_RET
    BY <1>1, <2>1, <2>2 DEF PcInOrder
  <2>3. CASE f.icode = I_JMP /\ ~e_Cnd
    BY <1>1, <2>1, <2>3 DEF PcInOrder, I_RET, I_JMP
  <2>4. CASE f.icode # I_RET /\ ~(f.icode = I_JMP /\ ~e_Cnd)
    <3>1. Goes(E, psimState)
      <4>1. psimState.cc = cc
        BY DEF psimState
      <4> QED
        BY <2>1, <2>4, <4>1 DEF Goes, Predicted, f
    <3>2. M.icode # I_RET
      BY <1>3, EmptyBehind
    <3>3. ~Mispredicted
      BY <2>1, <2>4 DEF Mispredicted
    <3>4. PcInOrder' = IF E'.stat # "BUB" THEN E'.pc ELSE IF D'.stat # "BUB" THEN D'.pc ELSE f_pc'
      BY <2>1, <2>4 DEF PcInOrder
    <3>5. CASE D.stat # "BUB"
      <4>1. D.pc = Behind.pc
        BY <3>1, <3>5 DEF RightD, InDecode
      <4>2. CASE LoadUse
        BY <1>1, <3>4, <3>5, <4>1, <4>2, StagesThen DEF BubbleE
      <4>3. CASE ~LoadUse
        BY <1>1, <3>3, <3>4, <3>5, <4>1, <4>3, StagesThen DEF nextE
      <4> QED
        BY <4>2, <4>3
    <3>6. CASE D.stat = "BUB"
      <4>1. ~LoadUse
        BY <3>6, LoadUseTwo
      <4>2. ~Returning
        BY <2>1, <2>4, <3>2, <3>6, EmptyBehind DEF Returning, I_NOP, I_RET
      <4>3. E'.stat = "BUB" /\ D'.stat # "BUB" /\ D'.pc = f_pc
        BY <3>3, <3>6, <4>1, <4>2, StagesThen DEF nextE, nextD, f_stat, SADR
      <4>4. f_pc = Behind.pc
        BY <3>1, <3>2, <3>6 DEF RightF, Goes, After
      <4> QED
        BY <1>1, <3>4, <4>3, <4>4
    <3> QED
      BY <3>5, <3>6
  <2> QED
    BY <2>2, <2>3, <2>4
<1> QED
  BY <1>2, <1>3

\* A cycle that goes well completes the instruction in execute.
LEMMA StateFollows ==
  ASSUME NEW n, Cycling(n), memStat' = "AOK", psimState \in MachineState, FitsAt("psim", psimState),
         DstsOK, BubbleWritesNothing, RightE, RightD, RightF
  PROVE  psimState' = Behind
<1>1. psimPc' = Behind.pc
  BY PcFollows
<1>2. psimReg' = Behind.r /\ psimMem' = Behind.m /\ cc' = Behind.cc
  BY Completes
<1>3. Behind \in MachineState
  BY Completes
<1>4. Behind = [pc |-> Behind.pc, r |-> Behind.r, m |-> Behind.m, cc |-> Behind.cc]
  <2> HIDE DEF Behind
  <2> QED
    BY <1>3 DEF MachineState
<1> QED
  BY <1>1, <1>2, <1>4 DEF psimState
--------------------------------------------------------------------------
\* What psim forwards.

\* r is a register file.
IsRegs(r) == r = [id \in RegId |-> r[id]]

\* Reading a register after a write.
LEMMA GetSet ==
  ASSUME NEW r, IsRegs(r), NEW id \in RegField, NEW v, NEW src \in RegId
  PROVE  /\ IsRegs(SetReg(r, id, v))
         /\ GetReg(SetReg(r, id, v), src) = IF id = src THEN v ELSE GetReg(r, src)
  BY DEF IsRegs, SetReg, GetReg, RegField, RegId, REG_NONE

\* The first of five.
LEMMA FirstHit ==
  ASSUME NEW w, DOMAIN w = 1 .. 5, NEW src, NEW k \in 1 .. 5, w[k].dst = src,
         \A j \in 1 .. 5 : j < k => w[j].dst # src
  PROVE  LET hits == {i \in DOMAIN w : w[i].dst = src} IN
         hits # {} /\ (CHOOSE i \in hits : \A j \in hits : i <= j) = k
<1> DEFINE hits == {i \in DOMAIN w : w[i].dst = src}
<1>1. k \in hits /\ \A j \in hits : k <= j
  OBVIOUS
<1>2. \A i \in hits : (\A j \in hits : i <= j) => i = k
  BY <1>1
<1> HIDE DEF hits
<1>3. (CHOOSE i \in hits : \A j \in hits : i <= j) = k
  BY <1>1, <1>2
<1> QED
  BY <1>1, <1>3 DEF hits

\* The five writers one by one.
LEMMA WriterFields ==
  /\ DOMAIN Writers = 1 .. 5
  /\ Writers[1].dst = e_dstE /\ Writers[1].val = e_valE
  /\ Writers[2].dst = M.dstM /\ Writers[2].val = m_valM
  /\ Writers[3].dst = M.dstE /\ Writers[3].val = M.valE
  /\ Writers[4].dst = W.dstM /\ Writers[4].val = W.valM
  /\ Writers[5].dst = W.dstE /\ Writers[5].val = W.valE
  BY DEF Writers

\* Forwarding takes the youngest writer of the register, and the register file when there is none.
LEMMA ForwardIs ==
  ASSUME NEW src
  PROVE  Forward(src) =
           IF e_dstE = src THEN e_valE
           ELSE IF M.dstM = src THEN m_valM
           ELSE IF M.dstE = src THEN M.valE
           ELSE IF W.dstM = src THEN W.valM
           ELSE IF W.dstE = src THEN W.valE
           ELSE GetReg(reg, src)
<1> DEFINE hits == {i \in DOMAIN Writers : Writers[i].dst = src}
           least == CHOOSE i \in hits : \A j \in hits : i <= j
<1>0. Forward(src) = IF hits = {} THEN GetReg(reg, src) ELSE Writers[least].val
  BY DEF Forward
<1>1. ASSUME NEW k \in 1 .. 5, Writers[k].dst = src, \A j \in 1 .. 5 : j < k => Writers[j].dst # src
      PROVE  hits # {} /\ least = k
  BY <1>1, WriterFields, FirstHit
<1>2. (\A i \in 1 .. 5 : Writers[i].dst # src) => hits = {}
  BY WriterFields
<1> HIDE DEF hits, least
<1>3. CASE Writers[1].dst = src
  <2>1. hits # {} /\ least = 1
    BY <1>1, <1>3
  <2> QED
    BY <1>0, <1>3, <2>1, WriterFields
<1>4. CASE Writers[1].dst # src /\ Writers[2].dst = src
  <2>1. hits # {} /\ least = 2
    BY <1>1, <1>4
  <2> QED
    BY <1>0, <1>4, <2>1, WriterFields
<1>5. CASE Writers[1].dst # src /\ Writers[2].dst # src /\ Writers[3].dst = src
  <2>1. hits # {} /\ least = 3
    BY <1>1, <1>5
  <2> QED
    BY <1>0, <1>5, <2>1, WriterFields
<1>6. CASE Writers[1].dst # src /\ Writers[2].dst # src /\ Writers[3].dst # src /\ Writers[4].dst = src
  <2>1. hits # {} /\ least = 4
    BY <1>1, <1>6
  <2> QED
    BY <1>0, <1>6, <2>1, WriterFields
<1>7. CASE /\ Writers[1].dst # src /\ Writers[2].dst # src /\ Writers[3].dst # src
           /\ Writers[4].dst # src /\ Writers[5].dst = src
  <2>1. hits # {} /\ least = 5
    BY <1>1, <1>7
  <2> QED
    BY <1>0, <1>7, <2>1, WriterFields
<1>8. CASE /\ Writers[1].dst # src /\ Writers[2].dst # src /\ Writers[3].dst # src
           /\ Writers[4].dst # src /\ Writers[5].dst # src
  <2>1. hits = {}
    BY <1>2, <1>8
  <2> QED
    BY <1>0, <1>8, <2>1, WriterFields
<1> QED
  BY <1>3, <1>4, <1>5, <1>6, <1>7, <1>8

\* What is forwarded is what the register will hold.
LEMMA ForwardRight ==
  ASSUME NEW n, Cycling(n), DstsOK, IsRegs(reg), NEW src \in RegId, E.dstM # src
  PROVE  /\ IsRegs(psimReg) /\ IsRegs(reg')
         /\ Forward(src) = GetReg(NextReg, src)
<1>1. /\ W.dstE \in RegField /\ W.dstM \in RegField /\ M.dstE \in RegField /\ M.dstM \in RegField
      /\ E.dstM \in RegField /\ e_dstE \in RegField
  BY DEF DstsOK, e_dstE, RegField, REG_NONE
<1> DEFINE r1 == SetReg(reg, W.dstE, W.valE)
           r2 == SetReg(r1, W.dstM, W.valM)
           r3 == SetReg(r2, M.dstE, M.valE)
           r4 == SetReg(r3, M.dstM, m_valM)
           r5 == SetReg(r4, e_dstE, e_valE)
           r6 == SetReg(r5, E.dstM, m_valM')
<1>2. psimReg = r4 /\ NextReg = r6 /\ reg' = r2
  BY CycleArch DEF afterW, NextReg
<1>3. IsRegs(r1) /\ GetReg(r1, src) = IF W.dstE = src THEN W.valE ELSE GetReg(reg, src)
  BY <1>1, GetSet
<1> HIDE DEF r1
<1>4. IsRegs(r2) /\ GetReg(r2, src) = IF W.dstM = src THEN W.valM ELSE GetReg(r1, src)
  BY <1>1, <1>3, GetSet
<1> HIDE DEF r2
<1>5. IsRegs(r3) /\ GetReg(r3, src) = IF M.dstE = src THEN M.valE ELSE GetReg(r2, src)
  BY <1>1, <1>4, GetSet
<1> HIDE DEF r3
<1>6. IsRegs(r4) /\ GetReg(r4, src) = IF M.dstM = src THEN m_valM ELSE GetReg(r3, src)
  BY <1>1, <1>5, GetSet
<1> HIDE DEF r4
<1>7. IsRegs(r5) /\ GetReg(r5, src) = IF e_dstE = src THEN e_valE ELSE GetReg(r4, src)
  BY <1>1, <1>6, GetSet
<1> HIDE DEF r5
<1>8. GetReg(r6, src) = GetReg(r5, src)
  BY <1>1, <1>7, GetSet
<1> QED
  BY <1>2, <1>3, <1>4, <1>5, <1>6, <1>7, <1>8, ForwardIs
--------------------------------------------------------------------------
\* What each pipe register holds is right, and stays so.

\* The program's text in memory is what was loaded.
TextKept(image, text) == \A a \in text : mem[a] = image[a]

\* The words, register fields and bytes that the pipe registers, the register file and memory hold.
PipeTyped ==
  /\ reg \in [RegId -> Word] /\ mem \in Memory
  /\ DstsOK
  /\ {F.pc, D.valC, D.valP, E.valC, E.valA, E.valB, M.valE, M.valA, W.valE, W.valM} \subseteq Word

\* What the pipeline holds is what the program says.
PipeRight(image, states, text) ==
  /\ psimState \in states
  /\ TextKept(image, text)
  /\ PipeTyped /\ BubbleWritesNothing /\ RetAlone
  /\ RightE /\ RightD /\ RightF

\* What is known of each state a program passes through.
LEMMA ContainedState ==
  ASSUME NEW s, NEW image, NEW states, NEW text, Contains(s, image, states, text), NEW st \in states
  PROVE  /\ st \in MachineState /\ FitsAt(s, st)
         /\ InMem(st.pc, 1) => Covers(st) \subseteq text
         /\ s = "psim" => \A a \in text : st.m[a] = image[a]
         /\ StepState(st).e = "AOK" => StepState(st).s \in states
  BY DEF Contains, FitsAt

\* What the stages compute are words.
LEMMA StagesTyped ==
  ASSUME PipeTyped
  PROVE  /\ {m_valM, e_valE, d_valA, d_valB, f_pc, f_predPC, f_valC, f_valP} \subseteq Word
         /\ {e_dstE, d_dstE, d_dstM, Hi4(f_regids), Lo4(f_regids)} \subseteq RegField
<1> USE DEF PipeTyped
<1>0. 0 \in Word /\ 0 \in Int /\ REG_NONE \in RegField /\ REG_RSP \in RegField /\ 255 \in Byte /\ WordBytes \in Nat
  BY ModulusPositive DEF Word, REG_NONE, REG_RSP, RegField, Byte
<1>1. mem_addr \in Word
  BY <1>0 DEF mem_addr
<1>2. m_valM \in Word
  BY <1>0, <1>1, GetWordWord DEF m_valM
<1>3. aluA \in Word /\ aluB \in Word
  <2>1. Wrap(-WordBytes) \in Word /\ Wrap(WordBytes) \in Word
    BY <1>0, WrapIsWord
  <2> QED
    BY <1>0, <2>1 DEF aluA, aluB
<1>4. e_valE \in Word
  BY <1>3, AluWord DEF e_valE
<1>5. e_dstE \in RegField /\ d_dstE \in RegField /\ d_dstM \in RegField
  BY <1>0 DEF e_dstE, d_dstE, d_dstM, DstsOK
<1>6. d_srcA \in RegField /\ d_srcB \in RegField
  BY <1>0 DEF d_srcA, d_srcB, DstsOK
<1>7. \A src \in RegField : Forward(src) \in Word
  BY <1>2, <1>4, ForwardIs, GetRegWord
<1>8. d_valA \in Word /\ d_valB \in Word
  BY <1>6, <1>7 DEF d_valA, d_valB
<1>9. f_pc \in Word
  BY DEF f_pc
<1>10. \A k \in Nat, p \in Word : Wrap(p + k) \in Word
  BY WrapOfWord, WrapIsWord
<1>11. f_valAt \in Word /\ Wrap(f_pc + 1) \in Word
  <2>1. f_valAt = Wrap(f_pc + 1) \/ f_valAt = Wrap(f_pc + 2)
    <3>1. f_pc \in Int
      BY <1>9, WrapOfWord
    <3>2. f_pc + 1 + 0 = f_pc + 1 /\ f_pc + 1 + 1 = f_pc + 2
      BY <3>1
    <3> QED
      BY <3>2 DEF f_valAt
  <2> QED
    BY <1>9, <1>10, <2>1
<1>12. f_valC \in Word
  BY <1>0, <1>11, GetWordWord DEF f_valC
<1>13. f_valP \in Word
  BY <1>0, <1>10, <1>11 DEF f_valP
<1>14. f_regids \in Byte
  BY <1>0, <1>11, GetByteByte DEF f_regids
<1>15. Hi4(f_regids) \in RegField /\ Lo4(f_regids) \in RegField
  BY <1>14, NibblesInRange
<1> QED
  BY <1>2, <1>4, <1>5, <1>8, <1>9, <1>12, <1>13, <1>15 DEF f_predPC

\* A cycle keeps them.
LEMMA PipeTypedKept ==
  ASSUME PipeTyped, NEW n, Cycle(n), W.stat \notin Exceptional
  PROVE  PipeTyped'
<1>0. 0 \in Word /\ REG_NONE \in RegField
  BY ModulusPositive DEF Word, REG_NONE, RegField
<1>1. reg' \in [RegId -> Word]
  <2>1. SetReg(reg, W.dstE, W.valE) \in [RegId -> Word]
    BY SetRegType DEF PipeTyped, DstsOK
  <2>2. SetReg(SetReg(reg, W.dstE, W.valE), W.dstM, W.valM) \in [RegId -> Word]
    <3> DEFINE r == SetReg(reg, W.dstE, W.valE)
    <3> HIDE DEF r
    <3>1. r \in [RegId -> Word] => SetReg(r, W.dstM, W.valM) \in [RegId -> Word]
      BY SetRegType DEF PipeTyped, DstsOK
    <3> QED
      BY <2>1, <3>1 DEF r
  <2> QED
    BY <2>2 DEF Cycle, UpdateState
<1>2. mem' \in Memory
  <2>1. mem_addr \in Word /\ M.valA \in Word /\ mem \in Memory
    BY <1>0 DEF mem_addr, PipeTyped
  <2>2. SetWord(mem, mem_addr, M.valA) \in Memory
    BY <2>1, SetWordMemory
  <2> QED
    BY <2>1, <2>2 DEF Cycle, UpdateState
<1>3. F'.pc \in Word
  BY CycleLatches, StagesTyped DEF nextF, PipeTyped
<1>4. D'.valC \in Word /\ D'.valP \in Word /\ D'.rA \in RegField /\ D'.rB \in RegField
  <2>1. D' \in {D, BubbleD, nextD}
    BY CycleLatches
  <2> QED
    BY <2>1, <1>0, StagesTyped DEF nextD, BubbleD, PipeTyped, DstsOK
<1>5. /\ E'.valC \in Word /\ E'.valA \in Word /\ E'.valB \in Word
      /\ E'.dstE \in RegField /\ E'.dstM \in RegField
  <2>1. E' \in {BubbleE, nextE}
    BY CycleLatches
  <2> QED
    BY <2>1, <1>0, StagesTyped DEF nextE, BubbleE, PipeTyped, DstsOK
<1>6. /\ M'.valE \in Word /\ M'.valA \in Word
      /\ M'.dstE \in RegField /\ M'.dstM \in RegField
  <2>1. M' \in {BubbleM, nextM}
    BY CycleLatches
  <2> QED
    BY <2>1, <1>0, StagesTyped DEF nextM, BubbleM, PipeTyped, DstsOK
<1>7. /\ W'.valE \in Word /\ W'.valM \in Word
      /\ W'.dstE \in RegField /\ W'.dstM \in RegField
  BY CycleLatches, StagesTyped DEF nextW, PipeTyped, DstsOK
<1> QED
  BY <1>1, <1>2, <1>3, <1>4, <1>5, <1>6, <1>7 DEF PipeTyped, DstsOK

\* A cycle keeps bubbles and faulting instructions from writing registers.
LEMMA BubblesKept ==
  ASSUME NEW n, Cycling(n)
  PROVE  BubbleWritesNothing'
<1> USE DEF Cycling
<1>1. D.stat \in Exceptional \cup {"BUB"} => D.icode \in Effectless
  BY DEF ControlInv, StagesOK, StageOK, Effectless, I_NOP
<1>2. D.icode \in Effectless => d_dstE = REG_NONE /\ d_dstM = REG_NONE
  BY DEF d_dstE, d_dstM, Effectless, I_NOP, I_HALT, I_POP2, I_JM, I_RRMOVQ, I_IRMOVQ, I_ALU, I_IADDQ, I_PUSHQ,
         I_POPQ, I_CALL, I_RET, I_MRMOVQ
<1> QED
  BY <1>1, <1>2, StagesThen DEF BubbleWritesNothing, BubbleE, nextE

\* A cycle keeps the stages behind a ret in write-back empty.
LEMMA RetAloneKept ==
  ASSUME NEW n, Cycling(n)
  PROVE  RetAlone'
<1> USE DEF Cycling
<1> SUFFICES ASSUME W'.icode = I_RET PROVE M'.stat = "BUB" /\ E'.stat = "BUB" /\ D'.stat = "BUB"
  BY DEF RetAlone
<1>1. M.icode = I_RET
  BY StagesThen DEF nextW
<1>2. D.stat = "BUB" /\ E.stat = "BUB" /\ E.icode = I_NOP /\ Returning
  BY <1>1, EmptyBehind DEF Returning
<1>3. ~LoadUse /\ ~Mispredicted
  BY <1>2 DEF LoadUse, Mispredicted, I_NOP, I_MRMOVQ, I_POPQ, I_JMP
<1> QED
  BY <1>2, <1>3, StagesThen DEF nextM, nextE, BubbleD

\* The instruction in execute goes on to a successor that is known in decode, unless it
\* is a ret or a jump that was predicted wrongly.
LEMMA ExecuteGoes ==
  ASSUME NEW n, Cycling(n), memStat' = "AOK", psimState \in MachineState, FitsAt("psim", psimState),
         RightE, BubbleWritesNothing, E.icode # I_RET, ~Mispredicted
  PROVE  Goes(E, psimState)
<1> SUFFICES ASSUME E.stat # "BUB" PROVE Predicted(psimState)
  BY DEF Goes
<1> DEFINE f == FetchedAt(psimState)
<1>1. /\ StepState(psimState).e = "AOK" /\ E.icode = f.icode
      /\ (e_Cnd <=> CondHolds(cc, f.ifun))
  BY Completes
<1>2. psimState.cc = cc
  BY DEF psimState
<1> QED
  BY <1>1, <1>2 DEF Predicted, Mispredicted

\* The instruction that enters execute is the next one of the program, with its operands' values after the instruction ahead of it.
LEMMA RightEKept ==
  ASSUME NEW n, Cycling(n), memStat' = "AOK", psimState \in MachineState, FitsAt("psim", psimState),
         FitsAt("psim", Behind), DstsOK, BubbleWritesNothing, RightE, RightD, RightF, IsRegs(reg)
  PROVE  RightE'
<1> USE DEF Cycling
<1> SUFFICES ASSUME E'.stat # "BUB" PROVE InExecute(E', Behind)
  BY StateFollows DEF RightE
<1>1. ~LoadUse /\ ~Mispredicted /\ E' = nextE /\ D.stat # "BUB"
  BY StagesThen DEF BubbleE, nextE
<1>2. E.icode # I_RET
  BY <1>1, EmptyBehind
<1>3. InDecode(D, Behind)
  BY <1>1, <1>2, ExecuteGoes DEF RightD
<1>4. E'.pc = D.pc /\ E'.stat = D.stat /\ E'.icode = D.icode /\ E'.ifun = D.ifun /\ E'.valC = D.valC
      /\ E'.dstE = d_dstE /\ E'.dstM = d_dstM /\ E'.valA = d_valA /\ E'.valB = d_valB
  BY <1>1 DEF nextE
<1>5. Behind \in MachineState
  BY Completes
<1>6. psimReg' = NextReg /\ Behind.r = NextReg
  BY CycleArch, Completes DEF memStat, Exceptional
<1>7. \A src \in RegId : src \in {d_srcA, d_srcB} => E.dstM # src
  <2> SUFFICES ASSUME NEW src \in RegId, src \in {d_srcA, d_srcB}, E.dstM = src PROVE FALSE
    OBVIOUS
  <2>1. src # REG_NONE
    BY DEF RegId, REG_NONE
  <2>2. E.stat = "AOK"
    BY <2>1, EmptyBehind DEF BubbleWritesNothing, Status5, Exceptional
  <2>3. E.dstM = DstM(FetchedAt(psimState)) /\ E.icode = FetchedAt(psimState).icode
    BY <2>2 DEF RightE, InExecute
  <2>4. E.icode \in {I_MRMOVQ, I_POPQ}
    BY <2>1, <2>3 DEF DstM
  <2> QED
    BY <1>1, <2>4 DEF LoadUse
<1>8. \A src \in RegId : src \in {d_srcA, d_srcB} => Forward(src) = GetReg(Behind.r, src)
  BY <1>6, <1>7, ForwardRight
<1> SUFFICES ASSUME D.stat = "AOK" PROVE InExecute(E', Behind)
  BY <1>3, <1>4 DEF InDecode, InExecute
<1> DEFINE f == FetchedAt(Behind)
<1>9. /\ D.icode = f.icode /\ D.ifun = f.ifun /\ D.rA = f.rA /\ D.rB = f.rB /\ D.valC = f.valC /\ D.valP = f.valP
      /\ D.pc = Behind.pc /\ StatAt(Behind) = "AOK"
  BY <1>3 DEF InDecode
<1>10. InMem(Behind.pc, 1)
  BY <1>9 DEF StatAt
<1>11. f.icode # I_JM
  BY <1>10 DEF FitsAt, Fits
<1>12. f.rA \in RegField /\ f.rB \in RegField
  BY <1>5, FetchedAtTyped
<1>13. ValA(Behind, f) = GetReg(Behind.r, SrcA(f)) /\ ValB(Behind, f) = GetReg(Behind.r, SrcB(f))
  BY DEF ValA, ValB
<1> HIDE DEF f
<1>14. d_srcA = SrcA(f) /\ d_srcB = SrcB(f) /\ d_dstE = DstE(f) /\ d_dstM = DstM(f)
  BY <1>9, <1>11 DEF d_srcA, d_srcB, d_dstE, d_dstM, SrcA, SrcB, DstE, DstM
<1>15. /\ SrcA(f) # REG_NONE => SrcA(f) \in RegId
       /\ SrcB(f) # REG_NONE => SrcB(f) \in RegId
  BY <1>12 DEF SrcA, SrcB, REG_NONE, REG_RSP, RegId, RegField
<1>16. f.icode \in {I_CALL, I_JMP} => d_valA = f.valP /\ SrcA(f) = REG_NONE
  BY <1>9 DEF d_valA, SrcA, I_CALL, I_JMP, I_RRMOVQ, I_RMMOVQ, I_ALU, I_PUSHQ, I_POPQ, I_RET
<1>17. SrcA(f) # REG_NONE => d_valA = GetReg(Behind.r, SrcA(f))
  <2> SUFFICES ASSUME SrcA(f) # REG_NONE PROVE d_valA = GetReg(Behind.r, SrcA(f))
    OBVIOUS
  <2>1. D.icode \notin {I_CALL, I_JMP}
    BY <1>9, <1>16
  <2>2. d_valA = Forward(d_srcA)
    BY <2>1 DEF d_valA
  <2> QED
    BY <2>2, <1>8, <1>14, <1>15
<1>18. SrcB(f) # REG_NONE => d_valB = GetReg(Behind.r, SrcB(f))
  BY <1>8, <1>14, <1>15 DEF d_valB
<1>19. /\ E'.icode = f.icode /\ E'.ifun = f.ifun /\ E'.valC = f.valC /\ E'.dstE = DstE(f) /\ E'.dstM = DstM(f)
       /\ f.icode \in {I_CALL, I_JMP} => E'.valA = f.valP
       /\ SrcA(f) # REG_NONE => E'.valA = ValA(Behind, f)
       /\ SrcB(f) # REG_NONE => E'.valB = ValB(Behind, f)
  BY <1>4, <1>9, <1>13, <1>14, <1>16, <1>17, <1>18
<1>20. E'.pc = Behind.pc /\ E'.stat = StatAt(Behind)
  BY <1>4, <1>9
<1> QED
  BY <1>19, <1>20 DEF InExecute, f

\* The fixed part of what the lemmas below assume.
PipeFine(n, image, states, text) ==
  /\ Cycling(n) /\ memStat' = "AOK"
  /\ Contains("psim", image, states, text)
  /\ PipeRight(image, states, text)

\* The program goes from the state before the instruction in execute to the one after it.
LEMMA PipeFineFacts ==
  ASSUME NEW n, NEW image, NEW states, NEW text, PipeFine(n, image, states, text)
  PROVE  /\ psimState \in MachineState /\ FitsAt("psim", psimState)
         /\ Behind \in states /\ psimState' = Behind
<1> USE DEF PipeFine, PipeRight
<1>1. psimState \in MachineState /\ FitsAt("psim", psimState)
      /\ (StepState(psimState).e = "AOK" => StepState(psimState).s \in states)
  BY ContainedState
<1>2. E.stat # "BUB" => StepState(psimState).e = "AOK"
  BY <1>1, Completes
<1>3. Behind \in states
  BY <1>1, <1>2 DEF Behind, After
<1>4. psimState' = Behind
  BY <1>1, StateFollows DEF PipeTyped
<1> QED
  BY <1>1, <1>3, <1>4

\* What fetch takes up behind the instruction in decode.
LEMMA NextFetched ==
  ASSUME NEW n, NEW image, NEW states, NEW text, PipeFine(n, image, states, text),
         Goes(E, psimState), Goes(D, Behind), M.icode # I_RET
  PROVE  LET st == After(D, Behind)
             f == FetchedAt(st) IN
         /\ st \in states /\ st \in MachineState /\ FitsAt("psim", st)
         /\ InDecode(nextD, st)
         /\ f_stat = "AOK" => f_predPC = IF f.icode \in {I_JMP, I_CALL} THEN f.valC ELSE f.valP
<1> DEFINE st == After(D, Behind)
<1> USE DEF PipeFine
<1>1. f_pc = st.pc
  BY DEF PipeRight, RightF
<1>2. Behind \in states
  BY PipeFineFacts
<1>3. D.stat # "BUB" => StepState(Behind).e = "AOK"
  BY DEF Goes, Predicted
<1>4. st \in states
  BY <1>2, <1>3, ContainedState DEF After
<1> HIDE DEF st
<1>5. /\ st \in MachineState /\ FitsAt("psim", st)
      /\ InMem(st.pc, 1) => Covers(st) \subseteq text
      /\ \A a \in text : st.m[a] = image[a]
  BY <1>4, ContainedState
<1>6. InMem(st.pc, 1) => \A a \in Covers(st) : mem[a] = st.m[a]
  BY <1>5 DEF PipeRight, TextKept
<1>7. /\ InDecode(nextD, st)
      /\ f_stat = "AOK" => LET f == FetchedAt(st) IN
              f_predPC = IF f.icode \in {I_JMP, I_CALL} THEN f.valC ELSE f.valP
  BY <1>1, <1>5, <1>6, FetchRight DEF PipeRight, PipeTyped
<1> QED
  BY <1>4, <1>5, <1>7 DEF st

\* A load in execute goes on to the next instruction.
LEMMA LoadUseGoes ==
  ASSUME NEW n, NEW image, NEW states, NEW text, PipeFine(n, image, states, text), LoadUse
  PROVE  /\ Goes(E, psimState) /\ D.stat # "BUB" /\ E.stat # "BUB"
         /\ D' = D /\ E' = BubbleE /\ F' = F
         /\ M.icode # I_RET /\ W.icode # I_RET /\ ~(M.icode = I_JMP /\ ~M.cnd)
<1> USE DEF PipeFine, Cycling
<1>1. D.stat # "BUB" /\ E.stat # "BUB"
  BY LoadUseTwo, PipeFineFacts DEF PipeRight, PipeTyped
<1>2. E.icode # I_RET /\ ~Mispredicted
  BY DEF LoadUse, Mispredicted, I_RET, I_JMP, I_MRMOVQ, I_POPQ
<1>3. Goes(E, psimState)
  BY <1>2, ExecuteGoes, PipeFineFacts DEF PipeRight
<1>4. M.icode # I_RET /\ W.icode # I_RET /\ ~(M.icode = I_JMP /\ ~M.cnd)
  BY <1>1, EmptyBehind DEF PipeRight, RetAlone
<1> QED
  BY <1>1, <1>3, <1>4, StagesThen

\* The instruction that enters decode, if nothing ahead of it was predicted wrongly, is the one that follows the one in execute.
LEMMA RightDKept ==
  ASSUME NEW n, NEW image, NEW states, NEW text, PipeFine(n, image, states, text)
  PROVE  RightD'
<1> USE DEF PipeFine
<1> SUFFICES ASSUME Goes(E, psimState)', D'.stat # "BUB" PROVE InDecode(D', Behind')
  BY DEF RightD
<1>0. psimState' = Behind
  BY PipeFineFacts
<1>1. CASE LoadUse
  <2>1. Goes(E, psimState) /\ D.stat # "BUB" /\ D' = D /\ E' = BubbleE
    BY <1>1, LoadUseGoes
  <2>2. Behind' = Behind
    BY <1>0, <2>1 DEF Behind, After, BubbleE
  <2>3. InDecode(D, Behind)
    BY <2>1 DEF PipeRight, RightD
  <2> QED
    BY <2>1, <2>2, <2>3
<1>2. CASE ~LoadUse
  <2>1. ~Mispredicted /\ ~Returning /\ D' = nextD /\ E' = nextE
    BY <1>2, StagesThen DEF BubbleD
  <2>2. E.icode # I_RET /\ M.icode # I_RET
    BY <2>1 DEF Returning
  <2>3. Goes(E, psimState)
    BY <2>1, <2>2, ExecuteGoes, PipeFineFacts DEF PipeRight
  <2>4. E'.stat = D.stat
    BY <2>1 DEF nextE
  <2>5. Goes(D, Behind)
    <3>1. E'.stat # "BUB" => Predicted(psimState)'
      BY DEF Goes
    <3>2. Predicted(psimState)' => Predicted(Behind)
      BY <1>0 DEF Predicted
    <3> QED
      BY <2>4, <3>1, <3>2 DEF Goes
  <2>6. Behind' = After(D, Behind)
    BY <1>0, <2>4 DEF Behind, After
  <2>7. InDecode(nextD, After(D, Behind))
    BY <2>2, <2>3, <2>5, NextFetched
  <2> QED
    BY <2>1, <2>6, <2>7
<1> QED
  BY <1>1, <1>2

\* The address that fetch takes up next is the one that follows the instruction in decode.
LEMMA RightFKept ==
  ASSUME NEW n, NEW image, NEW states, NEW text, PipeFine(n, image, states, text), RightE'
  PROVE  RightF'
<1> USE DEF PipeFine
<1> SUFFICES ASSUME Goes(E, psimState)', Goes(D, Behind)', M'.icode # I_RET
             PROVE  f_pc' = After(D', Behind').pc
  BY DEF RightF, After
<1>0. psimState' = Behind /\ psimPc' = psimState'.pc /\ psimPc' = PcInOrder'
  BY PipeFineFacts, PcThen DEF psimState
<1>m. M' = nextM /\ W' = nextW
  BY StagesThen
<1>1. CASE E'.stat = "BUB" /\ D'.stat = "BUB"
  <2>1. After(D', Behind') = psimState'
    BY <1>1 DEF After, Behind
  <2>2. PcInOrder' = f_pc'
    <3>1. M'.icode = I_JMP => W'.icode # I_RET
      BY <1>m, EmptyBehind DEF nextM, nextW, Cycling, I_JMP, I_NOP
    <3> QED
      BY <1>1, <3>1 DEF PcInOrder, f_pc
  <2> QED
    BY <1>0, <2>1, <2>2
<1>2. CASE LoadUse
  <2>1. /\ Goes(E, psimState) /\ D.stat # "BUB" /\ D' = D /\ E' = BubbleE /\ F' = F
        /\ M.icode # I_RET /\ W.icode # I_RET /\ ~(M.icode = I_JMP /\ ~M.cnd)
    BY <1>2, LoadUseGoes
  <2>2. Behind' = Behind
    BY <1>0, <2>1 DEF Behind, After, BubbleE
  <2>3. Goes(D, Behind)
    <3>1. Predicted(Behind)' => Predicted(Behind)
      BY <2>2 DEF Predicted
    <3> QED
      BY <2>1, <3>1 DEF Goes
  <2>4. f_pc = F.pc
    BY <2>1 DEF f_pc
  <2>5. M'.icode # I_JMP /\ W'.icode # I_RET
    BY <1>2, <2>1, <1>m DEF nextM, nextW, LoadUse, I_MRMOVQ, I_POPQ, I_JMP
  <2>6. f_pc' = F'.pc
    BY <2>5 DEF f_pc
  <2>7. f_pc = After(D, Behind).pc
    BY <2>1, <2>3 DEF PipeRight, RightF
  <2> QED
    BY <2>1, <2>2, <2>4, <2>6, <2>7
<1>3. CASE ~LoadUse /\ Mispredicted
  <2>1. E'.stat = "BUB" /\ D'.stat = "BUB"
    BY <1>3, StagesThen DEF BubbleE, BubbleD
  <2> QED
    BY <1>1, <2>1
<1>4. CASE ~LoadUse /\ ~Mispredicted /\ Returning
  <2>1. D'.stat = "BUB" /\ E' = nextE
    BY <1>4, StagesThen DEF BubbleD
  <2>2. CASE E'.stat # "BUB"
    <3>1. D.stat # "BUB" /\ E'.icode = D.icode
      BY <2>1, <2>2 DEF nextE
    <3>2. E.icode # I_RET /\ M.icode # I_RET
      BY <3>1, EmptyBehind DEF Cycling
    <3>3. E'.icode = I_RET
      BY <1>4, <3>1, <3>2 DEF Returning
    <3>4. Predicted(psimState)'
      BY <2>2 DEF Goes
    <3>5. Predicted(Behind)
      BY <1>0, <3>4 DEF Predicted
    <3>6. StatAt(Behind) = "AOK"
      <4>1. Behind \in MachineState /\ FitsAt("psim", Behind)
        BY PipeFineFacts, ContainedState
      <4> QED
        BY <3>5, <4>1, StepTyped DEF Predicted
    <3>7. InExecute(E', psimState')
      BY <2>2 DEF RightE
    <3>8. E'.icode = FetchedAt(Behind).icode
      BY <1>0, <3>6, <3>7 DEF InExecute
    <3> QED
      BY <3>3, <3>5, <3>8 DEF Predicted
  <2> QED
    BY <1>1, <2>1, <2>2
<1>5. CASE ~LoadUse /\ ~Mispredicted /\ ~Returning
  <2> DEFINE st == After(D, Behind)
             f == FetchedAt(st)
  <2>1. D' = nextD /\ E' = nextE /\ F' = nextF
    BY <1>5, StagesThen
  <2>2. E.icode # I_RET /\ M.icode # I_RET
    BY <1>5 DEF Returning
  <2>3. Goes(E, psimState)
    BY <1>5, <2>2, ExecuteGoes, PipeFineFacts DEF PipeRight
  <2>4. E'.stat = D.stat
    BY <2>1 DEF nextE
  <2>5. Goes(D, Behind)
    <3>1. E'.stat # "BUB" => Predicted(psimState)'
      BY DEF Goes
    <3>2. Predicted(psimState)' => Predicted(Behind)
      BY <1>0 DEF Predicted
    <3> QED
      BY <2>4, <3>1, <3>2 DEF Goes
  <2>6. Behind' = st
    BY <1>0, <2>4 DEF Behind, After
  <2>7. /\ st \in MachineState /\ FitsAt("psim", st)
        /\ InDecode(nextD, st)
        /\ f_stat = "AOK" => f_predPC = IF f.icode \in {I_JMP, I_CALL} THEN f.valC ELSE f.valP
    BY <2>2, <2>3, <2>5, NextFetched
  <2> HIDE DEF st
  <2>8. D'.stat # "BUB"
    BY <2>1 DEF nextD, f_stat, SADR
  <2>9. Predicted(st)
    <3>1. Predicted(Behind)'
      BY <2>8 DEF Goes
    <3> QED
      BY <2>6, <3>1 DEF Predicted
  <2>10. StepState(st).e = "AOK" /\ f.icode # I_RET /\ (f.icode = I_JMP => CondHolds(st.cc, f.ifun))
    BY <2>9 DEF Predicted
  <2>11. StatAt(st) = "AOK" /\ StepState(st).s = DoneAt(st)
    BY <2>7, <2>10, StepTyped
  <2>12. f_stat = "AOK"
    BY <2>7, <2>11 DEF InDecode, nextD
  <2>13. f.icode # I_JM
    <3>1. InMem(st.pc, 1)
      BY <2>11 DEF StatAt
    <3> QED
      BY <2>7, <3>1 DEF FitsAt, Fits
  <2>14. f_pc' = f_predPC
    <3>1. ~(M'.icode = I_JMP /\ ~M'.cnd) /\ W'.icode # I_RET
      BY <1>5, <2>2, <1>m DEF nextM, nextW, Mispredicted
    <3>2. f_pc' = F'.pc
      BY <3>1 DEF f_pc
    <3> QED
      BY <2>1, <3>2 DEF nextF
  <2>15. DoneAt(st).pc = NextPc(st, f, ValA(st, f), ValB(st, f))
    BY DEF DoneAt, Done
  <2> HIDE DEF f
  <2>16. NextPc(st, f, ValA(st, f), ValB(st, f)) = IF f.icode \in {I_JMP, I_CALL} THEN f.valC ELSE f.valP
    BY <2>10, <2>13 DEF NextPc, I_JMP, I_CALL, I_RET, I_JM
  <2>17. After(D', Behind') = DoneAt(st)
    BY <2>6, <2>8, <2>11 DEF After
  <2> QED
    BY <2>7, <2>12, <2>14, <2>15, <2>16, <2>17 DEF f
<1> QED
  BY <1>2, <1>3, <1>4, <1>5

\* A cycle that goes well keeps all of it, and completes the instruction in execute.
LEMMA PipeRightKept ==
  ASSUME NEW n, NEW image, NEW states, NEW text, PipeFine(n, image, states, text)
  PROVE  PipeRight(image, states, text)'
<1> USE DEF PipeFine
<1>1. psimState' \in states
  BY PipeFineFacts
<1>2. TextKept(image, text)'
  <2>1. mem' = psimMem /\ psimMem = psimState.m
    BY CycleArch DEF psimState
  <2>2. psimState \in states
    BY DEF PipeRight
  <2>3. \A a \in text : psimState.m[a] = image[a]
    BY <2>2, ContainedState
  <2> QED
    BY <2>1, <2>3 DEF TextKept
<1>3. PipeTyped' /\ BubbleWritesNothing' /\ RetAlone'
  <2>1. W.stat \notin Exceptional
    BY DEF Cycling, Exceptional
  <2> QED
    BY <2>1, PipeTypedKept, BubblesKept, RetAloneKept DEF PipeRight, Cycling
<1>4. RightE'
  <2>1. FitsAt("psim", Behind) /\ IsRegs(reg)
    BY PipeFineFacts, ContainedState DEF PipeRight, PipeTyped, IsRegs
  <2> QED
    BY <2>1, PipeFineFacts, RightEKept DEF PipeRight, PipeTyped
<1> QED
  BY <1>1, <1>2, <1>3, <1>4, RightDKept, RightFKept DEF PipeRight
--------------------------------------------------------------------------
\* The runs of both simulators.

\* The invariant of a run: the machine is in a state of the program.
RunRight(image, states, text) ==
  /\ Contains(sim, image, states, text)
  /\ sim = "psim" /\ phase = "run" /\ memStat = "AOK" => PipeRight(image, states, text)
  /\ sim # "psim" /\ phase = "run" => ssimState \in states /\ run_status = "AOK"

\* The abstract machine's state.
ArchState == IF sim = "psim" THEN psimState ELSE ssimState

\* The step of the abstract machine.
LEMMA ArchSteps ==
  ASSUME archStat = "AOK",
         \/ archStat' = StepState(ArchState).e /\ ArchState' = StepState(ArchState).s
         \/ StepState(ArchState).e = "ADR" /\ archStat' = "ADR" /\ ArchState' = ArchState
  PROVE  A!Next
<1>1. A!StepState(ArchState) = StepState(ArchState)
  BY ArchStep
<1>2. A!Stop(ArchState, "ADR").s = ArchState /\ A!Stop(ArchState, "ADR").e = "ADR"
  BY DEF A!Stop
<1>3. CASE archStat' = StepState(ArchState).e /\ ArchState' = StepState(ArchState).s
  <2>1. A!Instruction(A!StepState(ArchState))
    BY <1>1, <1>3 DEF A!Instruction, ArchState
  <2> QED
    BY <2>1 DEF A!Next, ArchState
<1>4. CASE StepState(ArchState).e = "ADR" /\ archStat' = "ADR" /\ ArchState' = ArchState
  <2>1. A!Instruction(A!Stop(ArchState, "ADR"))
    BY <1>2, <1>4 DEF A!Instruction, ArchState
  <2>2. A!StepState(ArchState).e = "ADR"
    BY <1>1, <1>4
  <2> QED
    BY <2>1, <2>2 DEF A!Next, ArchState
<1> QED
  BY <1>3, <1>4

\* The cycle behind a fault in memory.
LEMMA FaultStutters ==
  ASSUME NEW n, ControlInv, Cycle(n), n \in Int, n > 2, W.stat \notin Exceptional, m_stat \in Exceptional, ccIn = cc
  PROVE  memStat' = memStat /\ memStat \in Exceptional /\ psimState' = psimState
<1>1. W'.stat = m_stat /\ W' = nextW /\ M' = BubbleM /\ memStat = m_stat
  BY CycleLatches DEF nextW, memStat
<1>2. memStat' = m_stat
  BY <1>1 DEF memStat
<1>3. reg' = afterW
  BY DEF Cycle, UpdateState, afterW
<1>4. psimReg' = psimReg
  BY <1>1, <1>3 DEF psimReg
<1>5. psimPc' = psimPc
  BY <1>1 DEF psimPc, nextW, Exceptional, memStat
<1>6. cc' = cc
  BY DEF Cycle, UpdateState, set_cc
<1>7. psimMem = mem
  <2>1. CASE ~mem_write
    BY <2>1 DEF psimMem
  <2>2. CASE mem_write
    <3>1. M.icode \notin Effectless
      BY <2>2 DEF mem_write, Effectless, I_RMMOVQ, I_PUSHQ, I_CALL, I_HALT, I_NOP, I_POP2, I_JM
    <3>2. ~InMem(mem_addr, WordBytes)
      BY <3>1 DEF m_stat, dmem_error, ControlInv, StagesOK, StageOK
    <3>3. SetWord(mem, mem_addr, M.valA) = [a \in DOMAIN mem |-> mem[a]]
      BY <3>2 DEF SetWord
    <3> QED
      BY <2>2, <3>3 DEF psimMem, ControlInv, MemIsFunction
  <2> QED
    BY <2>1, <2>2
<1>8. psimMem' = mem'
  <2>1. ~mem_write'
    BY <1>1 DEF mem_write, BubbleM, I_NOP, I_RMMOVQ, I_PUSHQ, I_CALL
  <2> QED
    BY <2>1 DEF psimMem
<1>9. mem' = mem
  BY <1>7 DEF Cycle, UpdateState, psimMem
<1> QED
  BY <1>1, <1>2, <1>4, <1>5, <1>6, <1>7, <1>8, <1>9 DEF psimState

\* What a cycle does to the architectural state, by what is in execute.
LEMMA CycleImplements ==
  ASSUME NEW n, NEW image, NEW states, NEW text, Cycling(n),
         Contains("psim", image, states, text), PipeRight(image, states, text)
  PROVE  /\ memStat = "AOK"
         /\ E.stat = "BUB" => memStat' = "AOK" /\ psimState' = psimState
         /\ E.stat # "BUB" =>
              /\ memStat' = StepState(psimState).e
              /\ \/ psimState' = StepState(psimState).s
                 \/ memStat' = "ADR" /\ psimState' = psimState
         /\ memStat' = "AOK" => PipeRight(image, states, text)'
<1> USE DEF Cycling, PipeRight
<1>0. memStat = "AOK"
  BY CycleArch
<1>1. memStat' = "AOK" => PipeRight(image, states, text)'
  BY PipeRightKept DEF PipeFine
<1>2. psimState \in MachineState /\ FitsAt("psim", psimState)
  BY ContainedState
<1>3. CASE memStat' = "AOK"
  <2>1. psimState' = Behind
    BY <1>3, PipeFineFacts DEF PipeFine
  <2>2. CASE E.stat = "BUB"
    BY <1>0, <1>1, <1>3, <2>1, <2>2 DEF Behind, After
  <2>3. CASE E.stat # "BUB"
    <3>1. StepState(psimState).e = "AOK"
      BY <1>2, <1>3, <2>3, Completes
    <3>2. Behind = StepState(psimState).s
      BY <2>3 DEF Behind, After
    <3> QED
      BY <1>0, <1>1, <1>3, <2>1, <2>3, <3>1, <3>2
  <2> QED
    BY <2>2, <2>3
<1>4. CASE memStat' # "AOK"
  <2>1. E.stat # "BUB"
    BY <1>4, BubbleExecutes
  <2>2. InExecute(E, psimState)
    BY <2>1 DEF RightE
  <2>3. E.pc = psimPc /\ E.stat = StatAt(psimState)
    BY <2>2 DEF InExecute, psimState
  <2>4. CASE E.stat \in Exceptional
    <3>1. memStat' = E.stat /\ psimState' = psimState
      BY <2>3, <2>4, FaultExecutes DEF psimState
    <3>2. StepState(psimState) = Stop(psimState, E.stat)
      BY <1>2, <2>3, <2>4, StepByStatus DEF Exceptional
    <3>3. StepState(psimState).e = E.stat /\ StepState(psimState).s = psimState
      BY <3>2 DEF Stop
    <3> QED
      BY <1>0, <1>1, <2>1, <3>1, <3>3
  <2>5. CASE E.stat = "AOK"
    <3>1. FaultAt(psimState)
      BY <1>2, <1>4, <2>2, <2>5, FineExecutes
    <3>2. memStat' = "ADR" /\ psimState' = psimState
      BY <1>2, <2>2, <2>3, <2>5, <3>1, FineExecutes DEF psimState
    <3>3. StepState(psimState).e = "ADR"
      BY <1>2, <2>3, <2>5, <3>1, StepByStatus
    <3> QED
      BY <1>0, <1>1, <2>1, <3>2, <3>3
  <2> QED
    BY <2>1, <2>4, <2>5 DEF ControlInv, StagesOK, StageOK, Status5, Exceptional
<1> QED
  BY <1>0, <1>1, <1>3, <1>4

\* At first.
LEMMA InitialState ==
  ASSUME Init
  PROVE  /\ psimState = InitState(mem) /\ ssimState = InitState(mem)
         /\ memStat = "AOK" /\ run_status = "AOK" /\ f_pc = 0
<1> USE DEF Init, PipeInit
<1>2. /\ M.icode = I_NOP /\ M.stat = "BUB" /\ M.dstE = REG_NONE /\ M.dstM = REG_NONE
      /\ W.icode = I_NOP /\ W.stat = "BUB" /\ W.dstE = REG_NONE /\ W.dstM = REG_NONE
      /\ E.stat = "BUB" /\ D.stat = "BUB"
  BY DEF BubbleM, BubbleW, BubbleE, BubbleD
<1>3. ~mem_read /\ ~mem_write
  BY <1>2 DEF mem_read, mem_write, I_NOP, I_MRMOVQ, I_POPQ, I_RET, I_RMMOVQ, I_PUSHQ, I_CALL
<1>4. m_stat = "BUB" /\ memStat = "AOK"
  BY <1>2, <1>3 DEF m_stat, dmem_error, memStat, Exceptional
<1>5. psimReg = reg /\ psimMem = mem
  <2>1. afterW = reg
    BY <1>2, NoneReads DEF afterW
  <2>2. psimMem = mem
    BY <1>3 DEF psimMem
  <2>3. W.stat \notin Exceptional /\ m_stat \notin Exceptional
    BY <1>2, <1>4 DEF Exceptional
  <2>4. psimReg = SetReg(SetReg(afterW, M.dstE, M.valE), M.dstM, m_valM)
    BY <2>3 DEF psimReg
  <2> QED
    BY <1>2, <2>1, <2>2, <2>4, NoneReads
<1>6. f_pc = 0
  BY <1>2 DEF f_pc, BubbleF, I_NOP, I_JMP, I_RET
<1>7. psimPc = 0
  BY <1>2, <1>4, <1>6, PcNow DEF PcInOrder, I_NOP, I_JMP, I_RET
<1> QED
  BY <1>4, <1>5, <1>6, <1>7 DEF psimState, ssimState, InitState

\* At first the invariant of the run holds.
LEMMA RunRightInit ==
  ASSUME ProgramsFit, Init
  PROVE  \E states, text : RunRight(mem, states, text)
<1> USE DEF Init, PipeInit
<1>1. PICK states, text : Contains(sim, mem, states, text)
  BY DEF ProgramsFit
<1>2. E.stat = "BUB" /\ D.stat = "BUB" /\ W.icode = I_NOP /\ E.dstE = REG_NONE /\ E.dstM = REG_NONE
  BY DEF BubbleW, BubbleE, BubbleD
<1>3. psimState = InitState(mem) /\ ssimState = InitState(mem) /\ f_pc = 0
  BY InitialState
<1>4. PipeTyped
  <2>1. 0 \in Word /\ REG_NONE \in RegField
    BY ModulusPositive DEF Word, REG_NONE, RegField
  <2>2. mem \in Memory
    BY ImagesAssumption DEF Memory
  <2> QED
    BY <2>1, <2>2 DEF PipeTyped, DstsOK, BubbleF, BubbleD, BubbleE, BubbleM, BubbleW
<1>5. BubbleWritesNothing /\ RetAlone
  BY <1>2 DEF BubbleWritesNothing, RetAlone, I_NOP, I_RET
<1>6. Behind = psimState /\ After(D, Behind) = psimState
  BY <1>2 DEF Behind, After
<1>7. RightE /\ RightD /\ RightF
  BY <1>2, <1>3, <1>6 DEF RightE, RightD, RightF, InitState
<1>8. psimState \in states /\ ssimState \in states
  BY <1>1, <1>3 DEF Contains
<1>9. RunRight(mem, states, text)
  BY <1>1, <1>4, <1>5, <1>7, <1>8 DEF RunRight, PipeRight, TextKept
<1> QED
  BY <1>9

\* The ends of a run and the check leave the two machines where they are.
LEMMA OtherSteps ==
  ASSUME UNCHANGED pipeVars, UNCHANGED <<pc, sim>>
  PROVE  memStat' = memStat /\ psimState' = psimState /\ ssimState' = ssimState
<1>1. UNCHANGED <<reg, mem, cc, ccIn, F, D, E, M, W, pc, sim>>
  BY DEF pipeVars
<1> HIDE DEF pipeVars
<1>2. m_stat' = m_stat /\ m_valM' = m_valM
  BY <1>1 DEF m_stat, m_valM, dmem_error, mem_read, mem_write, mem_addr, InMem, GetWord, Negative
<1> QED
  BY <1>1, <1>2 DEF memStat, psimState, ssimState, psimReg, psimMem, psimPc, afterW, mem_write, mem_addr, f_pc

\* The abstract machine stays as it is, or takes a step.
ArchStutters == archStat' = archStat /\ ArchState' = ArchState

ArchMoves ==
  /\ archStat = "AOK"
  /\ \/ archStat' = StepState(ArchState).e /\ ArchState' = StepState(ArchState).s
     \/ StepState(ArchState).e = "ADR" /\ archStat' = "ADR" /\ ArchState' = ArchState

\* A cycle of psim is a step of the abstract machine or none.
LEMMA PsimImplements ==
  ASSUME NEW image, NEW states, NEW text, ControlInv, BelowLimit, RunRight(image, states, text), RunPsim
  PROVE  RunRight(image, states, text)' /\ (ArchStutters \/ ArchMoves)
<1> DEFINE n == InstrLimit - icount'
<1>1. /\ sim = "psim" /\ phase = "run" /\ sim' = sim /\ phase' = phase
      /\ W.stat \in {"AOK", "BUB"} /\ icount' = icount + 1 /\ Cycle(n)
  BY RunPsimGoesOn
<1>2. n \in Int /\ n > 2 /\ InstrLimit - icount > 3 /\ InstrLimit - icount \in Int
  BY <1>1, LimitAssumption DEF BelowLimit, ControlInv
<1>3. ccIn = cc
  BY <1>1, <1>2 DEF ControlInv, CcInKept
<1>4. archStat = memStat /\ archStat' = memStat' /\ ArchState = psimState /\ ArchState' = psimState'
  BY <1>1 DEF archStat, ArchState
<1> HIDE DEF n
<1>5. CASE m_stat \in Exceptional
  <2>1. memStat' = memStat /\ memStat \in Exceptional /\ psimState' = psimState
    BY <1>1, <1>2, <1>3, <1>5, FaultStutters DEF Exceptional
  <2>2. memStat' # "AOK"
    BY <2>1 DEF Exceptional
  <2> QED
    BY <1>1, <1>4, <2>1, <2>2 DEF RunRight, ArchStutters
<1>6. CASE m_stat \notin Exceptional
  <2>1. Cycling(n)
    BY <1>1, <1>2, <1>3, <1>6 DEF Cycling
  <2>2. memStat = "AOK"
    BY <2>1, CycleArch
  <2>3. Contains("psim", image, states, text) /\ PipeRight(image, states, text)
    BY <1>1, <2>2 DEF RunRight
  <2>4. /\ \/ memStat' = memStat /\ psimState' = psimState
           \/ memStat' = StepState(psimState).e /\ psimState' = StepState(psimState).s
           \/ StepState(psimState).e = "ADR" /\ memStat' = "ADR" /\ psimState' = psimState
        /\ memStat' = "AOK" => PipeRight(image, states, text)'
    BY <2>1, <2>3, CycleImplements
  <2>5. RunRight(image, states, text)'
    BY <1>1, <2>3, <2>4 DEF RunRight
  <2> QED
    BY <1>4, <2>2, <2>4, <2>5 DEF ArchStutters, ArchMoves
<1> QED
  BY <1>5, <1>6

\* A call of sim_step is a step of the abstract machine.
LEMMA SsimImplements ==
  ASSUME NEW image, NEW states, NEW text, RunRight(image, states, text), RunSsim
  PROVE  RunRight(image, states, text)' /\ ArchMoves
<1>1. sim = "ssim" /\ phase = "run" /\ sim' = sim /\ phase' = phase /\ S!SeqCycle
      /\ run_status' = S!Stat /\ S!Stat \in {"AOK", "BUB"}
  BY DEF RunSsim, Run, Return, GoesOn, Status
<1>2. Contains(sim, image, states, text) /\ ssimState \in states /\ run_status = "AOK"
  BY <1>1 DEF RunRight
<1>3. ssimState \in MachineState /\ FitsAt(sim, ssimState)
      /\ (StepState(ssimState).e = "AOK" => StepState(ssimState).s \in states)
  BY <1>2, ContainedState
<1>4. S!Stat = "AOK" /\ StepState(ssimState) = Ok(DoneAt(ssimState)) /\ ssimState' = DoneAt(ssimState)
  BY <1>1, <1>3, SeqStatus
<1>5. StepState(ssimState).e = "AOK" /\ StepState(ssimState).s = DoneAt(ssimState)
  BY <1>4 DEF Ok
<1>6. ssimState' \in states /\ run_status' = "AOK"
  BY <1>1, <1>3, <1>4, <1>5
<1>7. RunRight(image, states, text)'
  BY <1>1, <1>2, <1>6 DEF RunRight
<1>8. archStat = "AOK" /\ archStat' = "AOK" /\ ArchState = ssimState /\ ArchState' = ssimState'
  BY <1>1, <1>2, <1>6 DEF archStat, ArchState
<1> QED
  BY <1>4, <1>5, <1>7, <1>8 DEF ArchMoves

\* The end of a run is, for ssim, the step that stops, and for psim none.
LEMMA EndImplements ==
  ASSUME NEW image, NEW states, NEW text, RunRight(image, states, text), EndRun
  PROVE  RunRight(image, states, text)' /\ (ArchStutters \/ ArchMoves)
<1>1. UNCHANGED pipeVars /\ pc' = pc /\ sim' = sim /\ phase = "run" /\ phase' = "check" /\ run_status' = Status
  BY DEF EndRun, Return
<1>2. memStat' = memStat /\ psimState' = psimState /\ ssimState' = ssimState
  BY <1>1, OtherSteps
<1>3. RunRight(image, states, text)'
  BY <1>1 DEF RunRight
<1>4. ArchState' = ArchState
  BY <1>1, <1>2 DEF ArchState
<1>5. CASE sim = "psim"
  BY <1>1, <1>2, <1>3, <1>4, <1>5 DEF ArchStutters, archStat
<1>6. CASE sim # "psim"
  <2>1. Contains(sim, image, states, text) /\ ssimState \in states /\ run_status = "AOK"
    BY <1>1, <1>6 DEF RunRight
  <2>2. ssimState \in MachineState /\ FitsAt(sim, ssimState)
    BY <2>1, ContainedState
  <2>3. ArchState = ssimState /\ archStat = "AOK" /\ archStat' = S!Stat
    BY <1>1, <1>6, <2>1 DEF ArchState, archStat, Status
  <2>4. CASE S!Stat = "AOK"
    BY <1>3, <1>4, <2>3, <2>4 DEF ArchStutters
  <2>5. CASE S!Stat # "AOK"
    <3>1. StepState(ssimState).e = S!Stat /\ (S!Stat = "ADR" \/ StepState(ssimState).s = ssimState)
      BY <2>2, <2>5, SeqStatus
    <3> QED
      BY <1>3, <1>4, <2>3, <3>1 DEF ArchMoves
  <2> QED
    BY <2>4, <2>5
<1> QED
  BY <1>5, <1>6

\* Every step of the program is a step of the abstract machine or none, and keeps the invariant of the run.
LEMMA NextImplements ==
  ASSUME NEW image, NEW states, NEW text, ControlInv, BelowLimit, RunRight(image, states, text), [Next]_vars
  PROVE  RunRight(image, states, text)' /\ (ArchStutters \/ ArchMoves)
<1>1. CASE CheckStep \/ Compare \/ UNCHANGED vars
  <2>1. UNCHANGED pipeVars /\ UNCHANGED <<pc, sim>> /\ run_status' = run_status
        /\ (phase' = "run" => phase = "run")
    BY <1>1 DEF CheckStep, Compare, vars, simVars
  <2>2. memStat' = memStat /\ psimState' = psimState /\ ssimState' = ssimState
    BY <2>1, OtherSteps
  <2>3. ArchStutters
    BY <2>1, <2>2 DEF ArchStutters, ArchState, archStat
  <2>4. CASE UNCHANGED vars
    <3>1. PipeRight(image, states, text)' <=> PipeRight(image, states, text)
      <4>1. UNCHANGED <<reg, mem, cc, ccIn, F, D, E, M, W>>
        BY <2>1 DEF pipeVars
      <4> QED
        BY <4>1, <2>2 DEF PipeRight, PipeTyped, DstsOK, TextKept, BubbleWritesNothing, RetAlone, RightE, RightD, RightF,
           Behind, After, Goes, Predicted, f_pc, InDecode, InExecute
    <3> QED
      BY <2>1, <2>2, <2>3, <3>1 DEF RunRight
  <2>5. CASE CheckStep \/ Compare
    <3>1. phase' # "run"
      BY <2>5 DEF CheckStep, Compare
    <3> QED
      BY <2>1, <2>3, <3>1 DEF RunRight
  <2> QED
    BY <1>1, <2>4, <2>5
<1> QED
  BY <1>1, PsimImplements, SsimImplements, EndImplements DEF Next

\* psim and ssim take the steps of step_state, one instruction after the other in
\* program order, and stop where it stops, whatever psim forwards, stalls, predicts and
\* cancels on the way: for every word size, memory size, set of programs that fit, and
\* every run that stays three cycles away from the instruction limit (the last cycles
\* before the limit suspend the memory update).
THEOREM SimulatorsImplementArch ==
  ASSUME ProgramsFit
  PROVE  PropSpec /\ []BelowLimit => ImplementsArch
<1> DEFINE Inv == \E image, states, text : RunRight(image, states, text)
<1>1. Init => Inv
  BY RunRightInit
<1>2. Inv /\ ControlInv /\ BelowLimit /\ [Next]_vars => Inv' /\ [A!Next]_A!vars
  <2> SUFFICES ASSUME Inv, ControlInv, BelowLimit, [Next]_vars PROVE Inv' /\ [A!Next]_A!vars
    OBVIOUS
  <2>1. PICK image, states, text : RunRight(image, states, text)
    OBVIOUS
  <2>2. RunRight(image, states, text)' /\ (ArchStutters \/ ArchMoves)
    BY <2>1, NextImplements
  <2>3. ArchStutters => UNCHANGED A!vars
    BY DEF ArchStutters, A!vars, ArchState
  <2>4. ArchMoves => A!Next
    BY ArchSteps DEF ArchMoves
  <2> QED
    BY <2>2, <2>3, <2>4
<1>3. Init => A!Init
  <2> SUFFICES ASSUME Init PROVE A!Init
    OBVIOUS
  <2>1. psimState = InitState(mem) /\ ssimState = InitState(mem) /\ memStat = "AOK" /\ run_status = "AOK"
    BY InitialState
  <2>2. A!InitState(mem) = InitState(mem)
    BY DEF A!InitState, InitState, A!RegId, RegId, A!DefaultCc, DefaultCc
  <2>3. mem \in [0 .. (MemLen - 1) -> A!Byte]
    BY ImagesAssumption DEF Init, A!Byte, Byte
  <2>4. ArchState = InitState(mem) /\ archStat = "AOK"
    BY <2>1 DEF ArchState, archStat
  <2>5. InitState(mem).m = mem
    BY DEF InitState
  <2> QED
    BY <2>2, <2>3, <2>4, <2>5 DEF A!Init, ArchState
<1> HIDE DEF Inv
<1> QED
  BY <1>1, <1>2, <1>3, PropImpliesSpec, ControlInvariant, PTL DEF Spec, ImplementsArch, A!Spec
--------------------------------------------------------------------------
\* The check of a run, and the counters.

\* The instruction that the check accounts for in the state st, and what it remembers of it.
InstrAt(st) == Fetched(st.m, st.pc, GetByte(st.m, st.pc, I_NOP * 16))

Remembered(st) ==
  [icode |-> InstrAt(st).icode, rA |-> InstrAt(st).rA, taken |-> CondHolds(st.cc, InstrAt(st).ifun)]

\* The states t[0] .. t[n] of a program and the waits in front of its first instructions.
LastAt(t, k) == IF k = 0 THEN Nothing ELSE Remembered(t[k-1])

Walked(image, states, t, c, n) ==
  /\ n \in Nat
  /\ t[0] = InitState(image) /\ \A i \in 0 .. n : t[i] \in states
  /\ \A i \in 0 .. (n-1) : StepState(t[i]).e = "AOK" /\ StepState(t[i]).s = t[i+1]
  /\ c[0] = 0 /\ \A i \in 0 .. n : c[i+1] = c[i] + Waits(LastAt(t, i), InstrAt(t[i]))
  /\ \A i \in 0 .. (n+1) : c[i] \in Nat

\* The simulator has done n instructions, and has stopped at the next one or not.
Stands(t, n) ==
  IF archStat = "AOK" THEN ArchState = t[n]
  ELSE /\ StepState(t[n]).e = archStat
       /\ ArchState = StepState(t[n]).s \/ (archStat = "ADR" /\ ArchState = t[n])

\* Account is kept of a number of cycles.
LEMMA WaitsNat == \A p, f : Waits(p, f) \in 0 .. 3
  BY DEF Waits

\* A step of the program makes the walk longer.
LEMMA WalkOn ==
  ASSUME NEW s, NEW image, NEW states, NEW text, NEW t, NEW c, NEW n,
         Contains(s, image, states, text), Walked(image, states, t, c, n), StepState(t[n]).e = "AOK"
  PROVE  \E t2, c2 : /\ Walked(image, states, t2, c2, n+1)
                     /\ t2[n] = t[n] /\ t2[n+1] = StepState(t[n]).s
                     /\ t2[0] = t[0]
                     /\ c2[n+1] = c[n+1]
                     /\ c2[n+2] = c[n+1] + Waits(Remembered(t[n]), InstrAt(StepState(t[n]).s))
<1> DEFINE next == StepState(t[n]).s
           wait == Waits(Remembered(t[n]), InstrAt(next))
           t2 == [i \in 0 .. (n+1) |-> IF i = n+1 THEN next ELSE t[i]]
           c2 == [i \in 0 .. (n+2) |-> IF i = n+2 THEN c[n+1] + wait ELSE c[i]]
<1>1. /\ n \in Nat
      /\ t[0] = InitState(image) /\ \A i \in 0 .. n : t[i] \in states
      /\ \A i \in 0 .. (n-1) : StepState(t[i]).e = "AOK" /\ StepState(t[i]).s = t[i+1]
      /\ c[0] = 0 /\ \A i \in 0 .. n : c[i+1] = c[i] + Waits(LastAt(t, i), InstrAt(t[i]))
      /\ \A i \in 0 .. (n+1) : c[i] \in Nat
  BY DEF Walked
<1>2. next \in states
  BY <1>1 DEF Contains
<1>3. wait \in Nat
  BY WaitsNat
<1> HIDE DEF next, wait
<1>4. /\ \A i \in 0 .. n : t2[i] = t[i]
      /\ t2[n+1] = next
      /\ \A i \in 0 .. (n+1) : c2[i] = c[i]
      /\ c2[n+2] = c[n+1] + wait
  BY <1>1
<1> HIDE DEF t2, c2
<1>5. \A i \in 0 .. (n+1) : LastAt(t2, i) = LastAt(t, i)
  BY <1>1, <1>4 DEF LastAt
<1>6. LastAt(t2, n+1) = Remembered(t[n])
  BY <1>1, <1>4, <1>5 DEF LastAt
<1>7. \A i \in 0 .. (n+1) : t2[i] \in states
  BY <1>1, <1>2, <1>4
<1>8. ASSUME NEW i \in 0 .. n PROVE StepState(t2[i]).e = "AOK" /\ StepState(t2[i]).s = t2[i+1]
  <2>1. CASE i = n
    BY <1>1, <1>4, <2>1 DEF next
  <2>2. CASE i # n
    <3>1. i \in 0 .. (n-1) /\ i + 1 \in 0 .. n
      BY <1>1, <2>2
    <3> QED
      BY <1>1, <1>4, <3>1
  <2> QED
    BY <2>1, <2>2
<1>9. ASSUME NEW i \in 0 .. (n+1) PROVE c2[i+1] = c2[i] + Waits(LastAt(t2, i), InstrAt(t2[i]))
  <2>1. CASE i = n+1
    <3>1. i + 1 = n + 2 /\ c2[i] = c[n+1] /\ t2[i] = next
      BY <1>1, <1>4, <2>1
    <3> QED
      BY <1>4, <1>6, <2>1, <3>1 DEF wait
  <2>2. CASE i # n+1
    <3>1. i \in 0 .. n /\ i + 1 \in 0 .. (n+1)
      BY <1>1, <2>2
    <3> QED
      BY <1>1, <1>4, <1>5, <3>1
  <2> QED
    BY <2>1, <2>2
<1>10. \A i \in 0 .. (n+2) : c2[i] \in Nat
  BY <1>1, <1>3, <1>4
<1>11. (n+1)-1 = n /\ (n+1)+1 = n+2 /\ n+1 \in Nat
  BY <1>1
<1>12. Walked(image, states, t2, c2, n+1)
  <2>1. t2[0] = InitState(image) /\ c2[0] = 0
    BY <1>1, <1>4
  <2> QED
    BY <1>7, <1>8, <1>9, <1>10, <1>11, <2>1 DEF Walked
<1>13. t2[n] = t[n] /\ t2[0] = t[0] /\ c2[n+1] = c[n+1]
  BY <1>1, <1>4
<1> QED
  BY <1>4, <1>12, <1>13 DEF next, wait

\* What step_state has changed when it finds a bad address.
LEMMA StackFault ==
  ASSUME NEW s, NEW st \in MachineState, FitsAt(s, st), StepState(st).e = "ADR"
  PROVE  \/ StepState(st).s = st
         \/ /\ InstrAt(st).icode \in {I_CALL, I_PUSHQ, I_POPQ}
            /\ StepState(st).s.m = st.m /\ StepState(st).s.cc = st.cc
            /\ \A id \in RegId \ {REG_RSP} : StepState(st).s.r[id] = st.r[id]
<1> DEFINE f == FetchedAt(st)
           sp == GetReg(st.r, REG_RSP)
           Moved2(v) == [st EXCEPT !.r = SetReg(@, REG_RSP, v)]
<1>1. CASE StatAt(st) # "AOK"
  BY <1>1, StepByStatus DEF Stop
<1>2. CASE StatAt(st) = "AOK"
  <2>1. InMem(st.pc, 1) /\ FetchStatus(f) = "AOK" /\ f.icode \in (1 .. 14) \ {13}
    BY <1>2, StepByStatus
  <2>2. StepState(st) = Execute(st, f)
    BY <2>1 DEF StepState, ExecuteFetched, ExecuteIf, FetchedAt
  <2>3. InstrAt(st) = f
    BY <2>1 DEF InstrAt, FetchedAt, GetByte
  <2> HIDE DEF f
  <2>4. \A x, y : Ok(x).e = "AOK" /\ Stop(x, y).s = x
    BY DEF Ok, Stop
  <2>5. ASSUME NEW x, NEW a, NEW v, NEW q, Store(x, a, v, q).e = "ADR" PROVE Store(x, a, v, q).s = x
    BY <2>4, <2>5 DEF Store
  <2>6. ASSUME NEW x, NEW a, NEW i, NEW q, Load(x, a, i, q).e = "ADR" PROVE Load(x, a, i, q).s = x
    BY <2>4, <2>6 DEF Load
  <2>7. \/ Execute(st, f).s = st
        \/ f.icode \in {I_CALL, I_PUSHQ, I_POPQ} /\ \E v : Execute(st, f).s = Moved2(v)
    <3> USE <2>2 DEF Execute, I_HALT, I_NOP, I_RRMOVQ, I_IRMOVQ, I_RMMOVQ, I_MRMOVQ, I_ALU, I_JMP, I_CALL, I_RET,
        I_PUSHQ, I_POPQ, I_IADDQ, I_JM
    <3>1. CASE f.icode \in {1, 2, 3, 6, 7, 12}
      <4>1. CASE f.icode = 1
        BY <2>4, <4>1
      <4>2. CASE f.icode = 2
        BY <2>4, <4>2
      <4>3. CASE f.icode = 3
        BY <2>4, <4>3
      <4>4. CASE f.icode = 6
        BY <2>4, <4>4
      <4>5. CASE f.icode = 7
        BY <2>4, <4>5
      <4>6. CASE f.icode = 12
        BY <2>4, <4>6
      <4> QED
        BY <3>1, <4>1, <4>2, <4>3, <4>4, <4>5, <4>6
    <3>2. CASE f.icode = 4
      BY <2>5, <3>2
    <3>3. CASE f.icode = 5
      BY <2>6, <3>3
    <3>4. CASE f.icode = 8
      BY <2>5, <3>4
    <3>5. CASE f.icode = 9
      BY <2>4, <3>5
    <3>6. CASE f.icode = 10
      BY <2>5, <3>6
    <3>7. CASE f.icode = 11
      BY <2>6, <3>7
    <3>8. CASE f.icode = 14
      BY <2>4, <3>8
    <3>9. f.icode \in {1, 2, 3, 6, 7, 12} \cup {4, 5, 8, 9, 10, 11, 14}
      BY <2>1
    <3> HIDE DEF Execute, Moved2, sp
    <3> QED
      BY <3>1, <3>2, <3>3, <3>4, <3>5, <3>6, <3>7, <3>8, <3>9
  <2>8. ASSUME NEW v PROVE /\ Moved2(v).m = st.m /\ Moved2(v).cc = st.cc
                           /\ \A id \in RegId \ {REG_RSP} : Moved2(v).r[id] = st.r[id]
    <3>1. Moved2(v).m = st.m /\ Moved2(v).cc = st.cc /\ Moved2(v).r = SetReg(st.r, REG_RSP, v)
      BY DEF MachineState
    <3>2. \A id \in RegId \ {REG_RSP} : SetReg(st.r, REG_RSP, v)[id] = st.r[id]
      BY DEF SetReg, MachineState
    <3> QED
      BY <3>1, <3>2
  <2> HIDE DEF Moved2, sp
  <2>9. CASE Execute(st, f).s = st
    BY <2>2, <2>9
  <2>10. CASE f.icode \in {I_CALL, I_PUSHQ, I_POPQ} /\ \E v : Execute(st, f).s = Moved2(v)
    <3>1. PICK v : Execute(st, f).s = Moved2(v)
      BY <2>10
    <3> QED
      BY <2>2, <2>3, <2>8, <2>10, <3>1
  <2> QED
    BY <2>7, <2>9, <2>10
<1> QED
  BY <1>1, <1>2

\* The cycles until the next instruction enters the memory stage, less one.
Bubbles ==
  IF E.stat # "BUB" THEN 0 ELSE IF D.stat # "BUB" THEN 1 ELSE IF M.icode = I_RET THEN 3 ELSE 2

\* Only a ret leaves a hole behind itself while it is in execute.
FullBehind == E.stat # "BUB" /\ E.icode # I_RET => D.stat # "BUB"

\* An instruction inside memory is the one the check accounts for.
LEMMA InstrIs == \A st : InMem(st.pc, 1) => InstrAt(st) = FetchedAt(st)
  BY DEF InstrAt, FetchedAt, GetByte

\* An instruction that fetch finds wrong waits for no register.
LEMMA WrongWaitsNot ==
  ASSUME NEW st \in MachineState, StatAt(st) # "AOK"
  PROVE  Sources(InstrAt(st)) = {}
<1>1. CASE ~InMem(st.pc, 1)
  <2>1. Hi4(I_NOP * 16) = 1
    BY DEF Hi4, I_NOP
  <2>2. InstrAt(st).icode = 1
    BY <1>1, <2>1 DEF InstrAt, GetByte, Fetched
  <2> QED
    BY <2>2 DEF Sources, I_RRMOVQ, I_RMMOVQ, I_ALU, I_MRMOVQ, I_IADDQ, I_PUSHQ, I_POPQ, I_CALL, I_RET
<1>2. CASE InMem(st.pc, 1)
  <2>1. InstrAt(st).icode \in {I_POP2, 15, I_HALT}
    BY <1>2, InstrIs DEF StatAt
  <2> QED
    BY <2>1 DEF Sources, I_RRMOVQ, I_RMMOVQ, I_ALU, I_MRMOVQ, I_IADDQ, I_PUSHQ, I_POPQ, I_CALL, I_RET, I_POP2, I_HALT
<1> QED
  BY <1>1, <1>2

\* The registers that decode reads are the sources of its instruction.
LEMMA DecodeSources ==
  ASSUME NEW st \in MachineState, InDecode(D, st), ControlInv, D.stat # "BUB", NEW id, id # REG_NONE
  PROVE  id \in {d_srcA, d_srcB} <=> id \in Sources(InstrAt(st))
<1>1. CASE D.stat = "AOK"
  <2> DEFINE g == FetchedAt(st)
  <2>1. D.icode = g.icode /\ D.rA = g.rA /\ D.rB = g.rB /\ InMem(st.pc, 1)
    BY <1>1 DEF InDecode, StatAt
  <2>2. InstrAt(st) = g
    BY <2>1, InstrIs
  <2>3. g.icode \in RegField
    BY FetchedAtTyped
  <2> HIDE DEF g
  <2>4. id \in {d_srcA, d_srcB} <=> id \in Sources(g)
    BY <2>1, <2>3 DEF d_srcA, d_srcB, Sources, RegField, I_RRMOVQ, I_RMMOVQ, I_ALU, I_MRMOVQ, I_IADDQ, I_PUSHQ, I_POPQ,
       I_CALL, I_RET
  <2> QED
    BY <2>2, <2>4
<1>2. CASE D.stat # "AOK"
  <2>1. Sources(InstrAt(st)) = {}
    BY <1>2, WrongWaitsNot DEF InDecode
  <2>2. D.icode \in Effectless
    BY <1>2 DEF ControlInv, StagesOK, StageOK, Status5, Exceptional
  <2>3. d_srcA = REG_NONE /\ d_srcB = REG_NONE
    BY <2>2 DEF Effectless, d_srcA, d_srcB, I_RRMOVQ, I_RMMOVQ, I_ALU, I_MRMOVQ, I_IADDQ, I_PUSHQ, I_POPQ, I_CALL, I_RET,
       I_HALT, I_NOP, I_POP2, I_JM
  <2> QED
    BY <2>1, <2>3
<1> QED
  BY <1>1, <1>2

\* Fetch never brings a bubble.
LEMMA FetchBrings == f_stat \in {"ADR", "INS", "HLT", "AOK"} /\ nextD.stat # "BUB"
<1>1. f_stat \in {"ADR", "INS", "HLT", "AOK"}
  BY DEF f_stat, SADR
<1> QED
  BY <1>1 DEF nextD

\* While execute is empty, the next instruction comes one stage nearer.
LEMMA BubblesGo ==
  ASSUME NEW n, Cycling(n), E.stat = "BUB"
  PROVE  /\ Bubbles' + 1 = Bubbles /\ Bubbles' \in Nat
         /\ M'.stat = "BUB" /\ M'.icode = I_NOP
         /\ E'.stat # "BUB" /\ E'.icode # I_RET => D'.stat # "BUB"
<1> USE DEF Cycling
<1>1. E.icode = I_NOP /\ (D.stat = "BUB" => D.icode = I_NOP)
  BY EmptyBehind
<1>2. ~LoadUse /\ ~Mispredicted
  BY <1>1 DEF LoadUse, Mispredicted, I_NOP, I_MRMOVQ, I_POPQ, I_JMP
<1>3. /\ D' = IF Returning THEN BubbleD ELSE nextD
      /\ E' = nextE /\ M' = nextM
  BY <1>2, StagesThen
<1>4. E'.stat = D.stat /\ E'.icode = D.icode /\ M'.stat = "BUB" /\ M'.icode = I_NOP /\ BubbleD.stat = "BUB"
  BY <1>1, <1>3 DEF nextE, nextM, BubbleD
<1>5. Returning <=> D.icode = I_RET \/ M.icode = I_RET
  BY <1>1 DEF Returning, I_NOP, I_RET
<1>6. M.icode = I_RET => D.stat = "BUB"
  BY EmptyBehind
<1>7. I_NOP # I_RET
  BY DEF I_NOP, I_RET
<1>8. D.stat # "BUB" /\ D.icode # I_RET => D'.stat # "BUB"
  BY <1>3, <1>5, <1>6, FetchBrings
<1>9. D.stat = "BUB" => (D'.stat = "BUB" <=> M.icode = I_RET)
  BY <1>1, <1>3, <1>4, <1>5, <1>7, FetchBrings
<1>10. Bubbles' + 1 = Bubbles /\ Bubbles' \in Nat
  BY <1>4, <1>7, <1>9 DEF Bubbles
<1> QED
  BY <1>4, <1>8, <1>10

\* Behind an instruction that enters the memory stage are the bubbles of the textbook's account.
LEMMA BubblesCome ==
  ASSUME NEW n, NEW image, NEW states, NEW text, PipeFine(n, image, states, text), E.stat # "BUB", FullBehind
  PROVE  /\ Bubbles = 0
         /\ Bubbles' = Waits(Remembered(psimState), InstrAt(Behind))
         /\ M'.stat = "AOK" /\ M'.icode # I_POP2
         /\ FullBehind'
<1> USE DEF PipeFine, Cycling, PipeRight
<1> DEFINE f == FetchedAt(psimState)
           p == Remembered(psimState)
           g == InstrAt(Behind)
<1>1. /\ psimState \in MachineState /\ FitsAt("psim", psimState) /\ Behind \in MachineState
  BY PipeFineFacts, Completes, ContainedState
<1>2. /\ E.stat = "AOK" /\ E.icode = f.icode /\ InMem(psimState.pc, 1) /\ (e_Cnd <=> CondHolds(cc, f.ifun))
      /\ StatAt(psimState) = "AOK" /\ StepState(psimState).e = "AOK"
  BY <1>1, Completes, StepByStatus, StepTyped DEF PipeTyped
<1>3. f.icode \in (1 .. 14) \ {13} /\ FetchStatus(f) = "AOK"
  BY <1>1, <1>2, StepByStatus
<1>4. p.icode = f.icode /\ p.rA = f.rA /\ p.taken = CondHolds(cc, f.ifun)
  BY <1>2, InstrIs DEF Remembered, psimState
<1>5. Bubbles = 0
  BY DEF Bubbles
<1>6. M'.stat = "AOK" /\ M'.icode = E.icode /\ M'.icode # I_POP2
  BY <1>2, <1>3, StagesThen DEF nextM, I_POP2
<1>7. BubbleD.stat = "BUB" /\ BubbleE.stat = "BUB"
  BY DEF BubbleD, BubbleE
<1>8. /\ D' = IF LoadUse THEN D ELSE IF Mispredicted \/ Returning THEN BubbleD ELSE nextD
      /\ E' = IF LoadUse \/ Mispredicted THEN BubbleE ELSE nextE
      /\ nextE.stat = D.stat /\ nextE.icode = D.icode
  BY StagesThen DEF nextE
<1>9. LoadUse => E.icode \in {I_MRMOVQ, I_POPQ} /\ D.stat # "BUB"
  BY <1>1, LoadUseTwo DEF LoadUse, PipeTyped
<1>10. Mispredicted <=> E.icode = I_JMP /\ ~p.taken
  BY <1>2, <1>4 DEF Mispredicted
<1>11. E.icode \in {I_MRMOVQ, I_POPQ} => (LoadUse <=> p.rA \in Sources(g))
  <2> SUFFICES ASSUME E.icode \in {I_MRMOVQ, I_POPQ} PROVE LoadUse <=> p.rA \in Sources(g)
    OBVIOUS
  <2>1. E.dstM = f.rA
    BY <1>2 DEF RightE, InExecute, DstM
  <2>2. f.rA # REG_NONE
    <3>1. f.rA \in MustBeValid(f)
      BY <1>2 DEF MustBeValid, I_MRMOVQ, I_POPQ, I_RRMOVQ, I_IRMOVQ, I_IADDQ, I_JM, I_RMMOVQ, I_PUSHQ
    <3>2. ~(\E id \in MustBeValid(f) : ~RegValid(id))
      BY <1>3 DEF FetchStatus
    <3>3. RegValid(f.rA)
      BY <3>1, <3>2
    <3> QED
      BY <3>3 DEF RegValid, RegId, REG_NONE
  <2>3. D.stat # "BUB"
    BY DEF FullBehind, I_RET, I_MRMOVQ, I_POPQ
  <2>4. E.icode # I_RET /\ ~Mispredicted
    BY DEF Mispredicted, I_RET, I_MRMOVQ, I_POPQ, I_JMP
  <2>5. InDecode(D, Behind)
    BY <1>1, <2>3, <2>4, ExecuteGoes DEF RightD
  <2>6. f.rA \in {d_srcA, d_srcB} <=> f.rA \in Sources(g)
    BY <1>1, <2>2, <2>3, <2>5, DecodeSources
  <2> QED
    BY <1>4, <2>1, <2>6 DEF LoadUse
<1> HIDE DEF f, p, g
<1>12. E.icode = I_RET => D.stat = "BUB"
  BY EmptyBehind
<1>13. E.icode = I_RET => Returning
  BY DEF Returning
<1>14. Bubbles' = Waits(p, g)
  <2>1. CASE E.icode = I_RET
    <3>1. ~LoadUse /\ ~Mispredicted /\ Waits(p, g) = 3
      BY <1>2, <1>4, <1>9, <1>10, <2>1 DEF Waits, I_RET, I_JMP, I_MRMOVQ, I_POPQ
    <3>2. D'.stat = "BUB" /\ E'.stat = "BUB" /\ M'.icode = I_RET
      BY <1>6, <1>7, <1>8, <1>12, <1>13, <2>1, <3>1
    <3> QED
      BY <3>1, <3>2 DEF Bubbles
  <2>2. CASE Mispredicted
    <3>1. ~LoadUse /\ E.icode = I_JMP /\ Waits(p, g) = 2
      BY <1>2, <1>4, <1>9, <1>10, <2>2 DEF Waits, I_RET, I_JMP, I_MRMOVQ, I_POPQ
    <3>2. D'.stat = "BUB" /\ E'.stat = "BUB" /\ M'.icode # I_RET
      BY <1>6, <1>7, <1>8, <2>2, <3>1 DEF I_JMP, I_RET
    <3> QED
      BY <3>1, <3>2 DEF Bubbles
  <2>3. CASE LoadUse
    <3>1. Waits(p, g) = 1
      BY <1>2, <1>4, <1>9, <1>11, <2>3 DEF Waits, I_RET, I_JMP, I_MRMOVQ, I_POPQ
    <3>2. D'.stat # "BUB" /\ E'.stat = "BUB"
      BY <1>7, <1>8, <1>9, <2>3
    <3> QED
      BY <3>1, <3>2 DEF Bubbles
  <2>4. CASE E.icode # I_RET /\ ~Mispredicted /\ ~LoadUse
    <3>1. Waits(p, g) = 0
      BY <1>2, <1>4, <1>10, <1>11, <2>4 DEF Waits, I_RET, I_JMP, I_MRMOVQ, I_POPQ
    <3>2. E'.stat # "BUB"
      BY <1>8, <2>4 DEF FullBehind
    <3> QED
      BY <3>1, <3>2 DEF Bubbles
  <2> QED
    BY <2>1, <2>2, <2>3, <2>4
<1>15. FullBehind'
  <2> SUFFICES ASSUME E'.stat # "BUB", E'.icode # I_RET PROVE D'.stat # "BUB"
    BY DEF FullBehind
  <2>1. ~LoadUse /\ ~Mispredicted /\ D.stat # "BUB" /\ D.icode # I_RET
    BY <1>7, <1>8
  <2>2. E.icode # I_RET /\ M.icode # I_RET
    BY <1>12, <2>1, EmptyBehind
  <2> QED
    BY <1>8, <2>1, <2>2, FetchBrings DEF Returning
<1> QED
  BY <1>5, <1>6, <1>14, <1>15 DEF p, g

\* The counters stand for the instructions done and the waits in front of the next one.
Counted(t, c, n) ==
  /\ cycles \in Nat
  /\ memStat = "AOK" =>
       /\ instructions = IF M.stat = "BUB" THEN n ELSE n - 1
       /\ M.icode # I_POP2 /\ FullBehind
       /\ n = 0 => M.stat = "BUB" /\ cycles = 0
       /\ n > 0 => cycles + 1 + Bubbles = n + c[n+1]
  /\ memStat # "AOK" /\ W.stat \notin Exceptional =>
       instructions = n /\ cycles = n + c[n+1]
  /\ W.stat \in Exceptional /\ W.icode # I_POP2 =>
       instructions = n + 1 /\ cycles = n + 1 + c[n+1]

\* A cycle counts what enters write-back.
LEMMA CycleCounts ==
  ASSUME NEW k, Cycle(k)
  PROVE  /\ instructions' = instructions + (IF W'.stat # "BUB" /\ W'.icode # I_POP2 THEN 1 ELSE 0)
         /\ cycles' = cycles + (IF instructions' > 0 THEN 1 ELSE 0)
  BY DEF Cycle

\* While nothing is wrong, all instructions but the one in memory have been counted.
LEMMA CountsAll ==
  ASSUME NEW k, NEW t, NEW c, NEW n \in Nat, Cycling(k), Counted(t, c, n)
  PROVE  /\ instructions' = n /\ cycles \in Nat
         /\ cycles' = IF n > 0 THEN cycles + 1 ELSE cycles
<1> USE DEF Cycling
<1>1. memStat = "AOK" /\ W' = nextW
  BY CycleArch
<1>2. m_stat = M.stat
  BY DEF m_stat, SADR, Exceptional
<1>3. W'.stat = M.stat /\ W'.icode = M.icode
  BY <1>1, <1>2 DEF nextW
<1>4. instructions' = n
  BY <1>1, <1>3, CycleCounts DEF Counted
<1> QED
  BY <1>4, CycleCounts DEF Counted

\* A bubble enters the memory stage.
LEMMA CountedBubble ==
  ASSUME NEW k, NEW t, NEW c, NEW n \in Nat, Cycling(k), Counted(t, c, n), c[n+1] \in Nat,
         E.stat = "BUB", memStat' = "AOK"
  PROVE  Counted(t, c, n)'
<1> USE DEF Cycling
<1>1. memStat = "AOK" /\ W'.stat = m_stat
  BY CycleArch DEF nextW
<1>2. instructions' = n /\ cycles \in Nat /\ cycles' = IF n > 0 THEN cycles + 1 ELSE cycles
  BY CountsAll
<1>3. /\ Bubbles' + 1 = Bubbles /\ Bubbles' \in Nat /\ M'.stat = "BUB" /\ M'.icode = I_NOP /\ FullBehind'
  BY BubblesGo DEF FullBehind
<1>4. n > 0 => cycles' + 1 + Bubbles' = n + c[n+1]
  BY <1>1, <1>2, <1>3 DEF Counted
<1>5. n = 0 => cycles' = 0
  BY <1>1, <1>2 DEF Counted
<1>6. W'.stat \notin Exceptional
  BY <1>1
<1> QED
  BY <1>2, <1>3, <1>4, <1>5, <1>6 DEF Counted, I_NOP, I_POP2

\* The waits in front of the first instruction are none.
LEMMA NoFirstWait ==
  ASSUME NEW image, NEW states, NEW t, NEW c, Walked(image, states, t, c, 0) PROVE c[1] = 0
<1>1. c[0+1] = c[0] + Waits(LastAt(t, 0), InstrAt(t[0])) /\ c[0] = 0
  BY DEF Walked
<1>2. Waits(Nothing, InstrAt(t[0])) = 0
  BY DEF Waits, Nothing, I_NOP, I_RET, I_JMP, I_MRMOVQ, I_POPQ
<1> QED
  BY <1>1, <1>2 DEF LastAt

\* An instruction enters the memory stage and goes well.
LEMMA CountedDone ==
  ASSUME NEW k, NEW image, NEW states, NEW text, NEW t, NEW c, NEW n \in Nat, NEW t2, NEW c2,
         PipeFine(k, image, states, text), Counted(t, c, n), Walked(image, states, t, c, n),
         E.stat # "BUB", psimState = t[n], c2[n+1] = c[n+1],
         c2[n+2] = c[n+1] + Waits(Remembered(t[n]), InstrAt(StepState(t[n]).s))
  PROVE  Counted(t2, c2, n+1)'
<1> USE DEF PipeFine, Cycling
<1>1. memStat = "AOK" /\ W'.stat = m_stat
  BY CycleArch DEF nextW
<1>2. instructions' = n /\ cycles \in Nat /\ cycles' = IF n > 0 THEN cycles + 1 ELSE cycles
  BY CountsAll
<1>3. /\ Bubbles = 0 /\ Bubbles' = Waits(Remembered(psimState), InstrAt(Behind))
      /\ M'.stat = "AOK" /\ M'.icode # I_POP2 /\ FullBehind'
  BY <1>1, BubblesCome DEF Counted
<1>4. Behind = StepState(t[n]).s
  BY DEF Behind, After
<1>5. c2[n+2] = c[n+1] + Bubbles' /\ c[n+1] \in Nat /\ Bubbles' \in Nat
  BY <1>3, <1>4, WaitsNat DEF Walked
<1>6. n > 0 => cycles + 1 = n + c[n+1]
  BY <1>1, <1>2, <1>3, <1>5 DEF Counted
<1>7. n = 0 => cycles = 0 /\ c[n+1] = 0
  BY <1>1, NoFirstWait DEF Counted
<1> HIDE DEF PipeFine, Cycling
<1>8. cycles' + 1 + Bubbles' = (n + 1) + c2[(n+1)+1]
  <2>1. (n+1)+1 = n+2
    OBVIOUS
  <2>2. CASE n = 0
    BY <1>2, <1>5, <1>7, <2>1, <2>2
  <2>3. CASE n > 0
    BY <1>2, <1>5, <1>6, <2>1, <2>3
  <2> QED
    BY <2>2, <2>3
<1>9. W'.stat \notin Exceptional /\ memStat' = "AOK"
  BY <1>1 DEF PipeFine, Cycling
<1>10. (n+1) - 1 = n /\ n+1 > 0 /\ n+1 # 0 /\ cycles' \in Nat /\ M'.stat # "BUB"
  BY <1>2, <1>3
<1> QED
  BY <1>2, <1>3, <1>8, <1>9, <1>10 DEF Counted

\* An instruction enters the memory stage and is wrong.
LEMMA CountedFault ==
  ASSUME NEW k, NEW image, NEW states, NEW t, NEW c, NEW n \in Nat,
         Cycling(k), Counted(t, c, n), Walked(image, states, t, c, n), E.stat # "BUB", memStat' # "AOK"
  PROVE  Counted(t, c, n)'
<1>1. memStat = "AOK" /\ W'.stat = m_stat /\ M'.icode = E.icode
  BY CycleArch DEF nextW, nextM
<1>2. instructions' = n /\ cycles \in Nat /\ cycles' = IF n > 0 THEN cycles + 1 ELSE cycles
  BY CountsAll
<1>3. Bubbles = 0 /\ c[n+1] \in Nat
  BY DEF Bubbles, Walked
<1>4. n > 0 => cycles + 1 = n + c[n+1]
  BY <1>1, <1>2, <1>3 DEF Counted
<1>5. n = 0 => cycles = 0 /\ c[n+1] = 0
  BY <1>1, NoFirstWait DEF Counted
<1>6. cycles' = n + c[n+1] /\ cycles' \in Nat
  BY <1>2, <1>3, <1>4, <1>5
<1>7. W'.stat \notin Exceptional
  BY <1>1 DEF Cycling
<1> QED
  BY <1>1, <1>2, <1>6, <1>7 DEF Counted

\* The wrong instruction enters write-back.
LEMMA CountedEnd ==
  ASSUME NEW k, NEW t, NEW c, NEW n \in Nat, Cycle(k), W.stat \notin Exceptional, m_stat \in Exceptional,
         Counted(t, c, n), c[n+1] \in Nat
  PROVE  Counted(t, c, n)'
<1>1. W'.stat = m_stat /\ W'.icode = M.icode
  BY CycleLatches DEF nextW
<1>2. memStat # "AOK"
  BY DEF memStat, Exceptional
<1>3. instructions = n /\ cycles = n + c[n+1] /\ cycles \in Nat
  BY <1>2 DEF Counted
<1>4. W'.stat # "BUB" /\ W'.stat \in Exceptional /\ memStat' # "AOK"
  BY <1>1 DEF memStat, Exceptional
<1>5. W'.icode # I_POP2 => instructions' = n + 1 /\ cycles' = n + 1 + c[n+1]
  BY <1>1, <1>3, <1>4, CycleCounts
<1>6. cycles' \in Nat
  BY <1>3, CycleCounts
<1> QED
  BY <1>4, <1>5, <1>6 DEF Counted

\* The check has not begun.
AtStart(t) == isa = t[0] /\ e = "AOK" /\ step = 0 /\ lost = 0 /\ last = Nothing

\* The check of a run that has ended with a halt or a fault goes through the same states.
Judged(t, c, n) ==
  /\ archStat = run_status
  /\ sim = "psim" => W.stat \in Exceptional
  /\ ArchState.r = reg /\ ArchState.m = mem /\ ArchState.cc = cc
  /\ step \in 0 .. (n+1) /\ last = LastAt(t, step) /\ lost = c[step]
  /\ step <= n => e = "AOK" /\ isa = t[step]
  /\ step = n + 1 => e = StepState(t[n]).e /\ isa = StepState(t[n]).s

\* The run and its check, told by the states t[0] .. t[n] of the program.
RunTold(image, states, text, t, c, n) ==
  /\ RunRight(image, states, text)
  /\ Walked(image, states, t, c, n)
  /\ n < InstrLimit /\ (phase = "run" => n <= icount /\ icount < InstrLimit)
  /\ phase \in {"run", "check", "done"}
  /\ Stands(t, n)
  /\ sim = "psim" => Counted(t, c, n) /\ (W.stat \in Exceptional => ~mem_write)
  /\ phase = "run" => AtStart(t)
  /\ phase = "check" /\ run_status \in Exceptional => Judged(t, c, n)
  /\ phase = "done" => MatchUnlessStackFault /\ CountersExplained

\* What the pipe registers say does not change when they do not.
LEMMA SameCounts ==
  ASSUME UNCHANGED pipeVars, UNCHANGED <<pc, sim>>, NEW t, NEW c, NEW n
  PROVE  /\ Counted(t, c, n)' <=> Counted(t, c, n)
         /\ W'.stat = W.stat /\ mem_write' = mem_write
<1>1. UNCHANGED <<reg, mem, cc, F, D, E, M, W, instructions, cycles>> /\ memStat' = memStat
  BY OtherSteps DEF pipeVars
<1>2. mem_write' = mem_write /\ Bubbles' = Bubbles /\ FullBehind' = FullBehind
  BY <1>1 DEF mem_write, Bubbles, FullBehind
<1> QED
  BY <1>1, <1>2 DEF Counted

\* At first no instruction is done.
LEMMA ToldInit ==
  ASSUME ProgramsFit, PropInit
  PROVE  \E image, states, text, t, c, n : RunTold(image, states, text, t, c, n)
<1>1. Init /\ lost = 0 /\ last = Nothing
  BY DEF PropInit
<1>2. PICK states, text : RunRight(mem, states, text)
  BY <1>1, RunRightInit
<1> DEFINE wait == Waits(Nothing, InstrAt(InitState(mem)))
           t == [i \in 0 .. 0 |-> InitState(mem)]
           c == [i \in 0 .. 1 |-> IF i = 0 THEN 0 ELSE wait]
<1>3. /\ psimState = InitState(mem) /\ ssimState = InitState(mem) /\ memStat = "AOK" /\ run_status = "AOK"
  BY <1>1, InitialState
<1>4. InitState(mem) \in states
  BY <1>2 DEF RunRight, Contains
<1>5. wait \in Nat
  BY WaitsNat
<1> HIDE DEF wait
<1>6. t[0] = InitState(mem) /\ c[0] = 0 /\ c[1] = wait
  OBVIOUS
<1> HIDE DEF t, c
<1>7. Walked(mem, states, t, c, 0)
  <2>1. LastAt(t, 0) = Nothing
    BY DEF LastAt
  <2>2. \A i \in 0 .. 0 : i = 0
    OBVIOUS
  <2>3. \A i \in 0 .. 0 : t[i] \in states /\ c[i+1] = c[i] + Waits(LastAt(t, i), InstrAt(t[i]))
    BY <1>4, <1>5, <1>6, <2>1, <2>2 DEF wait
  <2>4. \A i \in 0 .. (0+1) : c[i] \in Nat
    BY <1>5, <1>6
  <2>5. \A i \in 0 .. (0-1) : FALSE
    OBVIOUS
  <2> QED
    BY <1>6, <2>3, <2>4, <2>5 DEF Walked
<1>8. /\ M.stat = "BUB" /\ M.icode = I_NOP /\ W.stat = "BUB" /\ E.stat = "BUB" /\ cycles = 0 /\ instructions = 0
      /\ phase = "run" /\ icount = 0 /\ InstrLimit > 0 /\ AtStart(t)
  <2>1. /\ BubbleM.stat = "BUB" /\ BubbleM.icode = I_NOP /\ BubbleW.stat = "BUB" /\ BubbleE.stat = "BUB"
    BY DEF BubbleM, BubbleW, BubbleE
  <2> QED
    BY <1>1, <1>6, <2>1, LimitAssumption DEF Init, PipeInit, AtStart
<1>9. Stands(t, 0)
  BY <1>3, <1>6 DEF Stands, archStat, ArchState
<1>10. Counted(t, c, 0)
  BY <1>3, <1>8 DEF Counted, FullBehind, I_NOP, I_POP2, Exceptional
<1>11. RunTold(mem, states, text, t, c, 0)
  BY <1>2, <1>7, <1>8, <1>9, <1>10 DEF RunTold, Exceptional
<1> QED
  BY <1>11

\* A cycle of psim goes on with the tale.
LEMMA PsimTold ==
  ASSUME NEW image, NEW states, NEW text, NEW t, NEW c, NEW n, ControlInv, BelowLimit,
         RunTold(image, states, text, t, c, n), RunPsim, UNCHANGED <<lost, last>>
  PROVE  \E t2, c2, n2 : RunTold(image, states, text, t2, c2, n2)'
<1> DEFINE k == InstrLimit - icount'
<1>1. /\ sim = "psim" /\ phase = "run" /\ sim' = sim /\ phase' = phase
      /\ W.stat \in {"AOK", "BUB"} /\ icount' = icount + 1 /\ icount' < InstrLimit /\ Cycle(k)
      /\ icount \in Nat /\ InstrLimit \in Nat
  BY RunPsimGoesOn, LimitAssumption DEF ControlInv
<1>2. k \in Int /\ k > 2 /\ InstrLimit - icount > 3 /\ InstrLimit - icount \in Int
  BY <1>1 DEF BelowLimit
<1>3. ccIn = cc
  BY <1>1, <1>2 DEF ControlInv, CcInKept
<1>4. archStat = memStat /\ archStat' = memStat' /\ ArchState = psimState /\ ArchState' = psimState'
  BY <1>1 DEF archStat, ArchState
<1>5. UNCHANGED <<isa, e, step, lost, last>>
  BY DEF RunPsim, Run
<1>6. RunRight(image, states, text)'
  BY PsimImplements DEF RunTold
<1>7. AtStart(t) /\ Walked(image, states, t, c, n) /\ Counted(t, c, n) /\ Stands(t, n)
      /\ n \in Nat /\ n <= icount /\ c[n+1] \in Nat /\ c[n] \in Nat
  BY <1>1 DEF RunTold, Walked
<1> HIDE DEF k
<1>8. ASSUME NEW t2, NEW c2, NEW n2 \in {n, n+1}, Walked(image, states, t2, c2, n2), t2[0] = t[0],
             Stands(t2, n2)', Counted(t2, c2, n2)', W'.stat \in Exceptional => ~mem_write'
      PROVE  RunTold(image, states, text, t2, c2, n2)'
  <2>1. AtStart(t2)'
    BY <1>5, <1>7, <1>8 DEF AtStart
  <2>2. n2 < InstrLimit /\ n2 <= icount' /\ icount' < InstrLimit
    BY <1>1, <1>7, <1>8
  <2>3. Walked(image, states, t2, c2, n2)'
    BY <1>8 DEF Walked
  <2> QED
    BY <1>1, <1>6, <1>8, <2>1, <2>2, <2>3 DEF RunTold
<1>9. CASE m_stat \in Exceptional
  <2>1. memStat' = memStat /\ memStat \in Exceptional /\ psimState' = psimState
    BY <1>1, <1>2, <1>3, <1>9, FaultStutters DEF Exceptional
  <2>2. Stands(t, n)'
    BY <1>4, <1>7, <2>1 DEF Stands
  <2>3. Counted(t, c, n)'
    BY <1>1, <1>7, <1>9, CountedEnd DEF Exceptional
  <2>4. M' = BubbleM
    BY <1>1, <1>9, CycleLatches DEF Exceptional
  <2>5. ~mem_write'
    BY <2>4 DEF mem_write, BubbleM, I_NOP, I_RMMOVQ, I_PUSHQ, I_CALL
  <2> QED
    BY <1>7, <1>8, <2>2, <2>3, <2>5
<1>10. CASE m_stat \notin Exceptional
  <2>1. Cycling(k)
    BY <1>1, <1>2, <1>3, <1>10 DEF Cycling
  <2>2. memStat = "AOK" /\ W'.stat \notin Exceptional
    BY <1>10, <2>1, CycleArch DEF nextW
  <2>3. Contains("psim", image, states, text) /\ PipeRight(image, states, text)
    BY <1>1, <2>2 DEF RunTold, RunRight
  <2>4. psimState = t[n]
    BY <1>4, <1>7, <2>2 DEF Stands
  <2>5. CASE E.stat = "BUB"
    <3>1. memStat' = "AOK" /\ psimState' = psimState
      BY <2>1, <2>3, <2>5, CycleImplements
    <3>2. Stands(t, n)'
      BY <1>4, <2>4, <3>1 DEF Stands
    <3>3. Counted(t, c, n)'
      BY <1>7, <2>1, <2>5, <3>1, CountedBubble
    <3> QED
      BY <1>7, <1>8, <2>2, <3>2, <3>3
  <2>6. CASE E.stat # "BUB" /\ memStat' = "AOK"
    <3>1. StepState(t[n]).e = "AOK" /\ psimState' = StepState(t[n]).s
      BY <2>1, <2>3, <2>4, <2>6, CycleImplements
    <3>2. PICK t2, c2 : /\ Walked(image, states, t2, c2, n+1)
                        /\ t2[n+1] = StepState(t[n]).s
                        /\ t2[0] = t[0]
                        /\ c2[n+1] = c[n+1]
                        /\ c2[n+2] = c[n+1] + Waits(Remembered(t[n]), InstrAt(StepState(t[n]).s))
      BY <1>7, <2>3, <3>1, WalkOn
    <3>3. Stands(t2, n+1)'
      BY <1>4, <2>6, <3>1, <3>2 DEF Stands
    <3>4. PipeFine(k, image, states, text)
      BY <2>1, <2>3, <2>6 DEF PipeFine
    <3>5. Counted(t2, c2, n+1)'
      BY <1>7, <2>4, <2>6, <3>2, <3>4, CountedDone
    <3>6. n+1 \in {n, n+1}
      OBVIOUS
    <3> QED
      BY <1>8, <2>2, <3>2, <3>3, <3>5, <3>6
  <2>7. CASE E.stat # "BUB" /\ memStat' # "AOK"
    <3>1. /\ memStat' = StepState(t[n]).e
          /\ psimState' = StepState(t[n]).s \/ (memStat' = "ADR" /\ psimState' = t[n])
      BY <2>1, <2>3, <2>4, <2>7, CycleImplements
    <3>2. Stands(t, n)'
      BY <1>4, <2>7, <3>1 DEF Stands
    <3>3. Counted(t, c, n)'
      BY <1>7, <2>1, <2>7, CountedFault
    <3> QED
      BY <1>7, <1>8, <2>2, <3>2, <3>3
  <2> QED
    BY <2>5, <2>6, <2>7
<1> QED
  BY <1>9, <1>10

\* So does a call of sim_step.
LEMMA SsimTold ==
  ASSUME NEW image, NEW states, NEW text, NEW t, NEW c, NEW n, ControlInv,
         RunTold(image, states, text, t, c, n), RunSsim, UNCHANGED <<lost, last>>
  PROVE  \E t2, c2, n2 : RunTold(image, states, text, t2, c2, n2)'
<1>1. /\ sim = "ssim" /\ phase = "run" /\ sim' = sim /\ phase' = phase
      /\ icount' < InstrLimit /\ icount \in Nat /\ icount' = icount + 1 /\ InstrLimit \in Nat
      /\ UNCHANGED <<isa, e, step, lost, last>>
  <2>1. sim = "ssim" /\ phase = "run" /\ Status = S!Stat /\ S!Stat \in {"AOK", "BUB"}
    BY DEF RunSsim, Run, Return, GoesOn, Status
  <2>2. S!Stat # "BUB"
    <3>1. S!Stat \in {"ADR", "INS", "HLT", "AOK"}
      BY DEF S!Stat
    <3> QED
      BY <3>1
  <2> QED
    BY <2>1, <2>2, LimitAssumption DEF RunSsim, Run, Return, ControlInv
<1>2. RunRight(image, states, text)' /\ ArchMoves
  BY SsimImplements DEF RunTold
<1>3. run_status' = "AOK" /\ archStat' = "AOK"
  BY <1>1, <1>2 DEF RunRight, archStat
<1>4. archStat = "AOK" /\ StepState(ArchState).e = "AOK" /\ ArchState' = StepState(ArchState).s
  BY <1>2, <1>3 DEF ArchMoves
<1>5. /\ AtStart(t) /\ Walked(image, states, t, c, n) /\ n \in Nat /\ n <= icount /\ ArchState = t[n]
      /\ Contains(sim, image, states, text)
  BY <1>1, <1>4 DEF RunTold, Walked, Stands, RunRight
<1>6. PICK t2, c2 : Walked(image, states, t2, c2, n+1) /\ t2[n+1] = StepState(t[n]).s /\ t2[0] = t[0]
  BY <1>4, <1>5, WalkOn
<1>7. Stands(t2, n+1)'
  BY <1>3, <1>4, <1>5, <1>6 DEF Stands
<1>8. AtStart(t2)'
  BY <1>1, <1>5, <1>6 DEF AtStart
<1>9. Walked(image, states, t2, c2, n+1)'
  BY <1>6 DEF Walked
<1>10. n+1 < InstrLimit /\ n+1 <= icount'
  BY <1>1, <1>5
<1>11. RunTold(image, states, text, t2, c2, n+1)'
  BY <1>1, <1>2, <1>7, <1>8, <1>9, <1>10 DEF RunTold
<1> QED
  BY <1>11

\* A run that ends with a halt or a fault has come to the instruction that does it.
LEMMA EndTold ==
  ASSUME NEW image, NEW states, NEW text, NEW t, NEW c, NEW n, ControlInv,
         RunTold(image, states, text, t, c, n), EndRun, UNCHANGED <<lost, last>>
  PROVE  RunTold(image, states, text, t, c, n)'
<1>1. /\ UNCHANGED pipeVars /\ pc' = pc /\ sim' = sim /\ phase = "run" /\ phase' = "check"
      /\ run_status' = Status /\ UNCHANGED <<isa, e, step, lost, last>>
      /\ UNCHANGED <<reg, mem, cc, W>>
  BY DEF EndRun, Return, pipeVars
<1>2. /\ memStat' = memStat /\ psimState' = psimState /\ ssimState' = ssimState /\ ArchState' = ArchState
      /\ Counted(t, c, n)' <=> Counted(t, c, n)
      /\ mem_write' = mem_write
  BY <1>1, OtherSteps, SameCounts DEF ArchState
<1>3. RunRight(image, states, text)'
  BY EndImplements DEF RunTold
<1>4. /\ AtStart(t) /\ Walked(image, states, t, c, n) /\ Stands(t, n) /\ n \in Nat /\ c[0] = 0
      /\ n < InstrLimit
  BY <1>1 DEF RunTold, Walked
<1>5. Walked(image, states, t, c, n)'
  BY <1>4 DEF Walked
<1>6. ASSUME run_status' \in Exceptional, archStat' = run_status', sim = "psim" => W.stat \in Exceptional,
             ArchState.r = reg, ArchState.m = mem, ArchState.cc = cc
      PROVE  Judged(t, c, n)'
  <2>1. step' = 0 /\ last' = LastAt(t, 0) /\ lost' = c[0] /\ e' = "AOK" /\ isa' = t[0] /\ 0 \in 0 .. (n+1) /\ 0 # n+1
    BY <1>1, <1>4 DEF AtStart, LastAt
  <2> QED
    BY <1>1, <1>2, <1>6, <2>1 DEF Judged
<1>7. CASE sim = "psim"
  <2>1. archStat = memStat /\ archStat' = memStat
    BY <1>1, <1>2, <1>7 DEF archStat
  <2>2. Stands(t, n)'
    BY <1>2, <1>4, <2>1 DEF Stands
  <2>3. run_status' \in Exceptional => Judged(t, c, n)'
    <3> SUFFICES ASSUME run_status' \in Exceptional PROVE Judged(t, c, n)'
      OBVIOUS
    <3>1. W.stat = run_status' /\ W.stat \in Exceptional
      BY <1>1, <1>7 DEF Status, Stat, Exceptional
    <3>2. memStat = W.stat /\ ~mem_write
      BY <1>7, <3>1 DEF memStat, RunTold
    <3>3. psimReg = reg /\ psimMem = mem
      BY <3>1, <3>2 DEF psimReg, psimMem
    <3> QED
      BY <1>6, <1>7, <2>1, <3>1, <3>2, <3>3 DEF ArchState, psimState
  <2> QED
    BY <1>1, <1>2, <1>3, <1>4, <1>5, <2>2, <2>3 DEF RunTold
<1>8. CASE sim # "psim"
  <2>1. ArchState = ssimState /\ archStat' = S!Stat
    BY <1>1, <1>8 DEF ArchState, archStat, Status
  <2>2. Contains(sim, image, states, text) /\ ssimState \in states /\ run_status = "AOK" /\ archStat = "AOK"
    BY <1>1, <1>8 DEF RunTold, RunRight, archStat
  <2>3. ssimState \in MachineState /\ FitsAt(sim, ssimState) /\ ssimState = t[n]
    BY <1>4, <2>1, <2>2, ContainedState DEF Stands
  <2>4. Stands(t, n)'
    <3>1. CASE S!Stat = "AOK"
      BY <1>2, <2>1, <2>3, <3>1 DEF Stands
    <3>2. CASE S!Stat # "AOK"
      <4>1. StepState(t[n]).e = S!Stat /\ (S!Stat = "ADR" \/ StepState(t[n]).s = t[n])
        BY <2>3, <3>2, SeqStatus
      <4> QED
        BY <1>2, <2>1, <2>3, <3>2, <4>1 DEF Stands
    <3> QED
      BY <3>1, <3>2
  <2>5. run_status' \in Exceptional => Judged(t, c, n)'
    <3>1. archStat' = run_status'
      BY <1>1, <1>8 DEF archStat
    <3>2. ArchState.r = reg /\ ArchState.m = mem /\ ArchState.cc = cc
      BY <2>1 DEF ssimState
    <3> QED
      BY <1>6, <1>8, <3>1, <3>2
  <2> QED
    BY <1>1, <1>2, <1>3, <1>4, <1>5, <1>8, <2>4, <2>5 DEF RunTold
<1> QED
  BY <1>7, <1>8

\* The check and the comparison leave the simulator alone.
LEMMA CheckLeaves ==
  ASSUME NEW image, NEW states, NEW text, NEW t, NEW c, NEW n,
         RunTold(image, states, text, t, c, n), UNCHANGED pipeVars, UNCHANGED <<pc, sim, run_status>>,
         phase # "run", phase' \in {"check", "done"}
  PROVE  /\ archStat' = archStat /\ ArchState' = ArchState /\ UNCHANGED <<reg, mem, cc, W>>
         /\ run_status \in Exceptional => UNCHANGED <<archStat, ArchState>>
         /\ instructions' = instructions /\ cycles' = cycles
         /\ /\ RunRight(image, states, text)'
            /\ Walked(image, states, t, c, n)'
            /\ n < InstrLimit /\ (phase' = "run" => n <= icount' /\ icount' < InstrLimit)
            /\ Stands(t, n)'
            /\ sim' = "psim" => Counted(t, c, n)' /\ (W'.stat \in Exceptional => ~mem_write')
            /\ phase' = "run" => AtStart(t)'
<1>1. /\ memStat' = memStat /\ psimState' = psimState /\ ssimState' = ssimState
      /\ Counted(t, c, n)' <=> Counted(t, c, n)
      /\ mem_write' = mem_write /\ UNCHANGED <<reg, mem, cc, W, instructions, cycles>>
  BY OtherSteps, SameCounts DEF pipeVars
<1>2. archStat' = archStat /\ ArchState' = ArchState
  BY <1>1 DEF archStat, ArchState
<1>3. RunRight(image, states, text)'
  BY DEF RunTold, RunRight
<1>4. Walked(image, states, t, c, n)'
  BY DEF RunTold, Walked
<1>5. Stands(t, n)'
  BY <1>2 DEF RunTold, Stands
<1> QED
  BY <1>1, <1>2, <1>3, <1>4, <1>5 DEF RunTold

\* A step of the check goes to the next state.
LEMMA CheckTold ==
  ASSUME NEW image, NEW states, NEW text, NEW t, NEW c, NEW n,
         RunTold(image, states, text, t, c, n), CheckStep, Account(InstrAt(isa))
  PROVE  RunTold(image, states, text, t, c, n)'
<1>1. /\ UNCHANGED pipeVars /\ UNCHANGED <<pc, sim, run_status>> /\ phase = "check" /\ phase' = "check"
      /\ e = "AOK" /\ isa' = StepState(isa).s /\ e' = StepState(isa).e /\ step' = step + 1
  BY DEF CheckStep, CheckStepWith, CheckGoesOn
<1>2. run_status \in Exceptional => Judged(t, c, n)'
  <2> SUFFICES ASSUME run_status \in Exceptional PROVE Judged(t, c, n)'
    OBVIOUS
  <2>1. Judged(t, c, n) /\ Walked(image, states, t, c, n) /\ Stands(t, n) /\ n \in Nat
    BY <1>1 DEF RunTold, Walked
  <2>2. step \in 0 .. (n+1) /\ step # n + 1
    <3>1. step = n + 1 => e = archStat /\ archStat \in Exceptional
      BY <2>1 DEF Judged, Stands, Exceptional
    <3> QED
      BY <1>1, <2>1, <3>1 DEF Judged, Exceptional
  <2>3. step \in 0 .. n /\ isa = t[step] /\ last = LastAt(t, step) /\ lost = c[step]
    BY <2>1, <2>2 DEF Judged
  <2>4. step + 1 \in 0 .. (n+1) /\ step + 1 # 0 /\ (step + 1) - 1 = step
    BY <2>1, <2>3
  <2>5. last' = LastAt(t, step + 1)
    BY <2>3, <2>4 DEF Account, Remembered, LastAt
  <2>6. lost' = c[step + 1]
    BY <2>1, <2>3 DEF Account, Walked
  <2>7. step + 1 <= n => e' = "AOK" /\ isa' = t[step + 1]
    <3>1. step + 1 <= n => step \in 0 .. (n-1)
      BY <2>1, <2>3
    <3> QED
      BY <1>1, <2>1, <2>3, <3>1 DEF Walked
  <2>8. step + 1 = n + 1 => e' = StepState(t[n]).e /\ isa' = StepState(t[n]).s
    <3>1. step + 1 = n + 1 => step = n
      BY <2>1, <2>3
    <3> QED
      BY <1>1, <2>3, <3>1
  <2>9. archStat' = archStat /\ ArchState' = ArchState /\ UNCHANGED <<reg, mem, cc, W>>
    BY <1>1, CheckLeaves
  <2> QED
    BY <1>1, <2>1, <2>4, <2>5, <2>6, <2>7, <2>8, <2>9 DEF Judged
<1> QED
  BY <1>1, <1>2, CheckLeaves DEF RunTold

\* The comparison says what it should.
LEMMA CompareTold ==
  ASSUME NEW image, NEW states, NEW text, NEW t, NEW c, NEW n,
         RunTold(image, states, text, t, c, n), Compare, UNCHANGED <<lost, last>>
  PROVE  RunTold(image, states, text, t, c, n)'
<1>1. /\ UNCHANGED pipeVars /\ UNCHANGED <<pc, sim, run_status>> /\ phase = "check" /\ phase' = "done"
      /\ ~(step < InstrLimit /\ e = "AOK")
      /\ match' = (isa.r = reg /\ isa.m = mem /\ isa.cc = cc)
      /\ UNCHANGED <<isa, e, step, lost, last>>
  BY DEF Compare, CheckGoesOn
<1>2. archStat' = archStat /\ ArchState' = ArchState /\ UNCHANGED <<reg, mem, cc, W, instructions, cycles>>
  BY <1>1, CheckLeaves
<1>3. ASSUME run_status \in Exceptional PROVE MatchUnlessStackFault' /\ CountersExplained'
  <2>1. Judged(t, c, n) /\ Walked(image, states, t, c, n) /\ Stands(t, n) /\ n \in Nat /\ n < InstrLimit
    BY <1>1, <1>3 DEF RunTold, Walked
  <2>2. step = n + 1 /\ e = StepState(t[n]).e /\ isa = StepState(t[n]).s /\ lost = c[n+1] /\ last = LastAt(t, n+1)
    <3>1. step \in 0 .. (n+1) /\ (step <= n => e = "AOK")
      BY <2>1 DEF Judged
    <3>2. ~(step <= n)
      BY <1>1, <2>1, <3>1, LimitAssumption
    <3>3. step = n + 1
      BY <2>1, <3>1, <3>2
    <3> QED
      BY <2>1, <3>3 DEF Judged
  <2>3. e = run_status /\ archStat = run_status /\ archStat # "AOK"
    BY <1>3, <2>1, <2>2 DEF Judged, Stands, Exceptional
  <2>4. last.icode = InstrAt(t[n]).icode
    BY <2>1, <2>2 DEF LastAt, Remembered
  <2>5. \/ isa.r = reg /\ isa.m = mem /\ isa.cc = cc
        \/ /\ e = "ADR" /\ last.icode \in {I_CALL, I_PUSHQ, I_POPQ}
           /\ isa.m = mem /\ isa.cc = cc
           /\ \A id \in RegId \ {REG_RSP} : isa.r[id] = reg[id]
    <3>1. CASE ArchState = StepState(t[n]).s
      BY <2>1, <2>2, <3>1 DEF Judged
    <3>2. CASE archStat = "ADR" /\ ArchState = t[n]
      <4>1. t[n].r = reg /\ t[n].m = mem /\ t[n].cc = cc
        BY <2>1, <3>2 DEF Judged
      <4>2. t[n] \in states /\ Contains(sim, image, states, text)
        BY <2>1 DEF Walked, RunTold, RunRight
      <4>3. t[n] \in MachineState /\ FitsAt(sim, t[n])
        BY <4>2, ContainedState
      <4>4. StepState(t[n]).e = "ADR"
        BY <2>2, <2>3, <3>2
      <4>5. \/ isa = t[n]
            \/ /\ last.icode \in {I_CALL, I_PUSHQ, I_POPQ}
               /\ isa.m = t[n].m /\ isa.cc = t[n].cc
               /\ \A id \in RegId \ {REG_RSP} : isa.r[id] = t[n].r[id]
        BY <2>2, <2>4, <4>3, <4>4, StackFault
      <4> QED
        BY <2>2, <4>1, <4>4, <4>5
    <3> QED
      BY <2>1, <2>3, <3>1, <3>2 DEF Stands
  <2>6. MatchUnlessStackFault'
    BY <1>1, <1>2, <2>3, <2>5 DEF MatchUnlessStackFault
  <2>7. CountersExplained'
    <3> SUFFICES ASSUME sim = "psim", W.icode # I_POP2 PROVE instructions = step /\ cycles = step + lost
      BY <1>1, <1>2 DEF CountersExplained
    <3>1. W.stat \in Exceptional /\ Counted(t, c, n)
      BY <2>1 DEF Judged, RunTold
    <3> QED
      BY <2>2, <3>1 DEF Counted
  <2> QED
    BY <2>6, <2>7
<1>4. CASE run_status \in Exceptional
  BY <1>1, <1>3, <1>4, CheckLeaves DEF RunTold
<1>5. CASE run_status \notin Exceptional
  <2>1. MatchUnlessStackFault' /\ CountersExplained'
    BY <1>1, <1>5 DEF MatchUnlessStackFault, CountersExplained, Finished
  <2> QED
    BY <1>1, <2>1, CheckLeaves DEF RunTold
<1> QED
  BY <1>4, <1>5

\* Every step goes on with the tale.
LEMMA NextTold ==
  ASSUME NEW image, NEW states, NEW text, NEW t, NEW c, NEW n, ControlInv, BelowLimit,
         RunTold(image, states, text, t, c, n), [PropNext]_propVars
  PROVE  \E t2, c2, n2 : RunTold(image, states, text, t2, c2, n2)'
<1>1. CASE CheckStep /\ Account(Fetched(isa.m, isa.pc, GetByte(isa.m, isa.pc, I_NOP * 16)))
  <2>1. Account(InstrAt(isa))
    BY <1>1 DEF InstrAt
  <2> QED
    BY <1>1, <2>1, CheckTold
<1>2. CASE (RunPsim \/ RunSsim \/ EndRun \/ Compare) /\ UNCHANGED <<lost, last>>
  BY <1>2, PsimTold, SsimTold, EndTold, CompareTold
<1>3. CASE UNCHANGED propVars
  <2>1. UNCHANGED vars /\ UNCHANGED <<lost, last>> /\ UNCHANGED pipeVars /\ UNCHANGED simVars
    BY <1>3 DEF propVars, vars
  <2>2. /\ UNCHANGED <<reg, mem, cc, W, instructions, cycles>>
        /\ UNCHANGED <<pc, sim, phase, icount, run_status, isa, e, step, match>>
    BY <2>1 DEF pipeVars, simVars
  <2>3. /\ memStat' = memStat /\ psimState' = psimState /\ ssimState' = ssimState
        /\ Counted(t, c, n)' <=> Counted(t, c, n)
        /\ mem_write' = mem_write
    BY <2>1, <2>2, OtherSteps, SameCounts
  <2>4. RunRight(image, states, text)'
    BY <2>1, NextImplements DEF RunTold
  <2>5. archStat' = archStat /\ ArchState' = ArchState
    BY <2>2, <2>3 DEF archStat, ArchState
  <2>6. /\ Walked(image, states, t, c, n)' /\ Stands(t, n)'
    BY <2>5 DEF RunTold, Walked, Stands
  <2>7. /\ AtStart(t)' <=> AtStart(t)
        /\ Judged(t, c, n)' <=> Judged(t, c, n)
        /\ MatchUnlessStackFault' <=> MatchUnlessStackFault
        /\ CountersExplained' <=> CountersExplained
    BY <2>1, <2>2, <2>5 DEF AtStart, Judged, MatchUnlessStackFault, CountersExplained, Finished
  <2>8. RunTold(image, states, text, t, c, n)'
    BY <2>2, <2>3, <2>4, <2>6, <2>7 DEF RunTold
  <2> QED
    BY <2>8
<1> QED
  BY <1>1, <1>2, <1>3 DEF PropNext

\* A run tells nothing wrong at its end.
LEMMA ToldEnds ==
  ASSUME NEW image, NEW states, NEW text, NEW t, NEW c, NEW n, RunTold(image, states, text, t, c, n)
  PROVE  MatchUnlessStackFault /\ CountersExplained
<1>1. CASE phase = "done"
  BY <1>1 DEF RunTold
<1>2. CASE phase # "done"
  BY <1>2 DEF MatchUnlessStackFault, CountersExplained, Finished
<1> QED
  BY <1>1, <1>2

\* The tale of a run.
RunTellable == \E image, states, text, t, c, n : RunTold(image, states, text, t, c, n)

\* Every state of a run far from the limit has one.
LEMMA RunsTellable ==
  ASSUME ProgramsFit
  PROVE  PropSpec /\ []BelowLimit => []RunTellable
<1>1. PropInit => RunTellable
  BY ToldInit DEF RunTellable
<1>2. RunTellable /\ ControlInv /\ BelowLimit /\ [PropNext]_propVars => RunTellable'
  <2> SUFFICES ASSUME RunTellable, ControlInv, BelowLimit, [PropNext]_propVars PROVE RunTellable'
    OBVIOUS
  <2>1. PICK image, states, text, t, c, n : RunTold(image, states, text, t, c, n)
    BY DEF RunTellable
  <2>2. \E t2, c2, n2 : RunTold(image, states, text, t2, c2, n2)'
    BY <2>1, NextTold
  <2> QED
    BY <2>2 DEF RunTellable
<1> QED
  BY <1>1, <1>2, PropImpliesSpec, ControlInvariant, PTL DEF PropSpec

\* The comparison of psim -t and ssim -t succeeds, but for the stack pointer that
\* step_state moves before it finds the address of a push, a pop or a call bad: for
\* every word size, memory size, set of programs that fit, and every run of psim that
\* stays three cycles away from the instruction limit.
THEOREM ComparisonSucceeds ==
  ASSUME ProgramsFit
  PROVE  PropSpec /\ []BelowLimit => []MatchUnlessStackFault
<1>1. RunTellable => MatchUnlessStackFault
  BY ToldEnds DEF RunTellable
<1> QED
  BY <1>1, RunsTellable, PTL

\* The counters that psim prints the CPI from are the program's instructions, and
\* beyond one cycle for each what the textbook's account gives to its rets, its wrongly
\* predicted jumps and its load/use pairs, under the same conditions.
THEOREM CountersAreRight ==
  ASSUME ProgramsFit
  PROVE  PropSpec /\ []BelowLimit => []CountersExplained
<1>1. RunTellable => CountersExplained
  BY ToldEnds DEF RunTellable
<1> QED
  BY <1>1, RunsTellable, PTL
=============================================================================
