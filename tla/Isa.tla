------------------------------- MODULE Isa -------------------------------
(***************************************************************************)
(* The Y86-64 instruction set as src/Archlab/sim/misc/isa.c executes it:    *)
(* memory and register access, the ALU, the condition codes, and           *)
(* step_state, which executes one instruction.                             *)
(*                                                                         *)
(* A word has WordBytes bytes (8 in the code) and is a residue modulo      *)
(* Modulus; Negative(w) is the test "w < 0" on the signed word_t.          *)
(* Everything else is as in the code: bytes are encoded instructions, an   *)
(* address is a byte address, and all the memory that no instruction       *)
(* covers is zero, which is the encoding of halt.                          *)
(***************************************************************************)
EXTENDS Integers

CONSTANTS WordBytes,   \* bytes of a word
          MemLen       \* bytes of memory (MEM_SIZE)

\* 2 to the n, for the positions of a word's bits.
Pow2[n \in 0 .. (8 * WordBytes)] == IF n = 0 THEN 1 ELSE 2 * Pow2[n-1]
Modulus == Pow2[8 * WordBytes]

\* Every address of the memory is a nonnegative word.
ASSUME SizesAssumption ==
  /\ WordBytes \in Nat \ {0}
  /\ MemLen \in Nat
  /\ 2 * MemLen <= Modulus

Word == 0 .. (Modulus - 1)
Byte == 0 .. 255
Wrap(n) == n % Modulus
Negative(w) == 2 * w >= Modulus

I_HALT == 0
I_NOP == 1
I_RRMOVQ == 2
I_IRMOVQ == 3
I_RMMOVQ == 4
I_MRMOVQ == 5
I_ALU == 6
I_JMP == 7
I_CALL == 8
I_RET == 9
I_PUSHQ == 10
I_POPQ == 11
I_IADDQ == 12
I_POP2 == 13
I_JM == 14

REG_RSP == 4
REG_NONE == 15
RegId == 0 .. 14

A_ADD == 0
A_SUB == 1
A_AND == 2
A_XOR == 3

Hi4(byte) == (byte \div 16) % 16
Lo4(byte) == byte % 16
--------------------------------------------------------------------------
\* Memory.  A read that fails leaves the caller's variable as it was, hence
\* the default value.

InMem(pos, len) == ~Negative(pos) /\ pos + len <= MemLen

GetByte(m, pos, default) == IF InMem(pos, 1) THEN m[pos] ELSE default

\* The little-endian number in the first n bytes from pos on.
Bytes(m, pos, n) ==
  LET number[i \in 0..n] ==
        IF i = 0 THEN 0 ELSE number[i-1] + m[pos + i - 1] * Pow2[8 * (i-1)]
  IN  number[n]

GetWord(m, pos, default) ==
  IF InMem(pos, WordBytes) THEN Bytes(m, pos, WordBytes) ELSE default

SetWord(m, pos, val) ==
  [a \in DOMAIN m |-> IF InMem(pos, WordBytes) /\ a \in pos .. (pos + WordBytes - 1)
                      THEN (val \div Pow2[8 * (a - pos)]) % 256
                      ELSE m[a]]

\* Registers.  REG_NONE reads as 0 and swallows what is written to it.
RegValid(id) == id \in RegId
GetReg(r, id) == IF id >= REG_NONE THEN 0 ELSE r[id]
SetReg(r, id, val) == IF id < REG_NONE THEN [r EXCEPT ![id] = val] ELSE r
--------------------------------------------------------------------------
\* The ALU.  The code's val < 0, argA > 0 and argB < 0 are tests of signed
\* words; A_SUB computes argB - argA.

BitAnd(a, b) ==
  LET low[i \in 0..(8 * WordBytes)] ==
        IF i = 0 THEN 0
        ELSE low[i-1] + Pow2[i-1] * ((a \div Pow2[i-1]) % 2) * ((b \div Pow2[i-1]) % 2)
  IN  low[8 * WordBytes]

ComputeAlu(op, argA, argB) ==
  CASE op = A_ADD -> Wrap(argA + argB)
    [] op = A_SUB -> Wrap(argB - argA)
    [] op = A_AND -> BitAnd(argA, argB)
    [] op = A_XOR -> argA + argB - 2 * BitAnd(argA, argB)
    [] OTHER      -> 0

Positive(w) == w # 0 /\ ~Negative(w)

\* The condition codes the operation op sets when its result is val.
Flags(op, argA, argB, val) ==
  [z |-> val = 0,
   s |-> Negative(val),
   o |-> CASE op = A_ADD -> /\ Negative(argA) = Negative(argB)
                            /\ Negative(val) # Negative(argA)
           [] op = A_SUB -> /\ Positive(argA) = Negative(argB)
                            /\ Negative(val) # Negative(argB)
           [] OTHER      -> FALSE]

ComputeCc(op, argA, argB) == Flags(op, argA, argB, ComputeAlu(op, argA, argB))

DefaultCc == [z |-> TRUE, s |-> FALSE, o |-> FALSE]
CondCode == [z : BOOLEAN, s : BOOLEAN, o : BOOLEAN]

CondHolds(cc, cond) ==
  CASE cond = 0 -> TRUE                              \* C_YES
    [] cond = 1 -> cc.s # cc.o \/ cc.z               \* C_LE
    [] cond = 2 -> cc.s # cc.o                       \* C_L
    [] cond = 3 -> cc.z                              \* C_E
    [] cond = 4 -> ~cc.z                             \* C_NE
    [] cond = 5 -> cc.s = cc.o                       \* C_GE
    [] cond = 6 -> cc.s = cc.o /\ ~cc.z              \* C_G
    [] OTHER    -> FALSE
--------------------------------------------------------------------------
\* step_state.  A machine state is [pc, r, m, cc]; the result of a step is the
\* new state s and the status e.

InitState(image) == [pc |-> 0, r |-> [id \in RegId |-> 0], m |-> image, cc |-> DefaultCc]

NeedRegids(icode) ==
  icode \in {I_RRMOVQ, I_ALU, I_PUSHQ, I_POPQ, I_IRMOVQ, I_RMMOVQ, I_MRMOVQ, I_IADDQ, I_JM}
NeedImm(icode) ==
  icode \in {I_IRMOVQ, I_RMMOVQ, I_MRMOVQ, I_JMP, I_CALL, I_IADDQ, I_JM}
Length(icode) ==
  1 + (IF NeedRegids(icode) THEN 1 ELSE 0) + (IF NeedImm(icode) THEN WordBytes ELSE 0)

\* The instruction at pc, whose first byte is b0; ok1 and okc say that its
\* register byte and its immediate are in memory.
Fetched(m, pc, b0) ==
  LET icode == Hi4(b0)
      valAt == Wrap(pc + Length(icode) - WordBytes)
      regids == GetByte(m, Wrap(pc + 1), 0)
  IN  [icode |-> icode,
       ifun |-> Lo4(b0),
       ok1  |-> NeedRegids(icode) => InMem(Wrap(pc + 1), 1),
       rA   |-> IF NeedRegids(icode) THEN Hi4(regids) ELSE REG_NONE,
       rB   |-> IF NeedRegids(icode) THEN Lo4(regids) ELSE REG_NONE,
       okc  |-> NeedImm(icode) => InMem(valAt, WordBytes),
       valC |-> IF NeedImm(icode) THEN GetWord(m, valAt, 0) ELSE 0,
       valP |-> Wrap(pc + Length(icode))]

\* The registers whose absence makes an instruction invalid.
MustBeValid(f) ==
  CASE f.icode = I_RRMOVQ                                -> {f.rA, f.rB}
    [] f.icode \in {I_IRMOVQ, I_IADDQ, I_JM}             -> {f.rB}
    [] f.icode \in {I_RMMOVQ, I_MRMOVQ, I_PUSHQ, I_POPQ} -> {f.rA}
    [] OTHER                                             -> {}

\* What is wrong with the fetched instruction, in the order of the tests.
FetchStatus(f) ==
  IF f.icode \in {I_POP2, 15} THEN "INS"
  ELSE IF ~f.ok1 THEN "ADR"
  ELSE IF ~f.okc THEN (IF f.icode \in {I_JMP, I_CALL} THEN "ADR" ELSE "INS")
  ELSE IF \E id \in MustBeValid(f) : ~RegValid(id) THEN "INS"
  ELSE "AOK"

Ok(state) == [s |-> state, e |-> "AOK"]
Stop(state, status) == [s |-> state, e |-> status]

\* Store val at addr in the state st, and go on at pc.
Store(st, addr, val, pc) ==
  IF InMem(addr, WordBytes) THEN Ok([st EXCEPT !.m = SetWord(@, addr, val), !.pc = pc])
  ELSE Stop(st, "ADR")

\* Load the word at addr into the register id of st, and go on at pc.
Load(st, addr, id, pc) ==
  IF InMem(addr, WordBytes)
  THEN Ok([st EXCEPT !.r = SetReg(@, id, GetWord(st.m, addr, 0)), !.pc = pc])
  ELSE Stop(st, "ADR")

Execute(st, f) ==
  LET a == GetReg(st.r, f.rA)
      b == GetReg(st.r, f.rB)
      sp == GetReg(st.r, REG_RSP)
      Push == [st EXCEPT !.r = SetReg(@, REG_RSP, Wrap(sp - WordBytes))]
      Pop == [st EXCEPT !.r = SetReg(@, REG_RSP, Wrap(sp + WordBytes))]
      Jump(pc) == Ok([st EXCEPT !.pc = pc])
      Put(val) == [st EXCEPT !.r = SetReg(@, f.rB, val), !.pc = f.valP]
  IN CASE f.icode = I_HALT   -> Stop(st, "HLT")
       [] f.icode = I_NOP    -> Jump(f.valP)
       [] f.icode = I_RRMOVQ -> IF CondHolds(st.cc, f.ifun) THEN Ok(Put(a)) ELSE Jump(f.valP)
       [] f.icode = I_IRMOVQ -> Ok(Put(f.valC))
       [] f.icode = I_RMMOVQ -> Store(st, Wrap(f.valC + b), a, f.valP)
       [] f.icode = I_MRMOVQ -> Load(st, Wrap(f.valC + b), f.rA, f.valP)
       [] f.icode = I_ALU    -> Ok([Put(ComputeAlu(f.ifun, a, b))
                                    EXCEPT !.cc = ComputeCc(f.ifun, a, b)])
       [] f.icode = I_JMP    -> Jump(IF CondHolds(st.cc, f.ifun) THEN f.valC ELSE f.valP)
       [] f.icode = I_CALL   -> Store(Push, Wrap(sp - WordBytes), f.valP, f.valC)
       [] f.icode = I_RET    -> IF InMem(sp, WordBytes)
                                THEN Ok([Pop EXCEPT !.pc = GetWord(st.m, sp, 0)])
                                ELSE Stop(st, "ADR")
       [] f.icode = I_PUSHQ  -> Store(Push, Wrap(sp - WordBytes), a, f.valP)
       [] f.icode = I_POPQ   -> Load(Pop, sp, f.rA, f.valP)
       [] f.icode = I_IADDQ  -> Ok([Put(Wrap(b + f.valC))
                                    EXCEPT !.cc = ComputeCc(A_ADD, f.valC, b)])
       [] f.icode = I_JM     -> IF InMem(Wrap(b + f.valC), WordBytes)
                                THEN Jump(GetWord(st.m, Wrap(b + f.valC), 0))
                                ELSE Stop(st, "ADR")

\* Execute f, unless something is wrong with it.
ExecuteIf(st, f, status) == IF status = "AOK" THEN Execute(st, f) ELSE Stop(st, status)
ExecuteFetched(st, f) == ExecuteIf(st, f, FetchStatus(f))

StepState(st) ==
  IF InMem(st.pc, 1) THEN ExecuteFetched(st, Fetched(st.m, st.pc, GetByte(st.m, st.pc, 0)))
  ELSE Stop(st, "ADR")
==========================================================================
