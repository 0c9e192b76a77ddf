------------------------------- MODULE MCY86 -------------------------------
(***************************************************************************)
(* Programs for TLC: a prologue that sets %rsp, up to a few instructions of  *)
(* named kinds, and zeros (halt).  A jump or a call goes to the address      *)
(* after the instruction that follows it, so that either arm is short and    *)
(* calls nest; the stack begins with words that return to the halt.         *)
(***************************************************************************)
EXTENDS SimProps, Sequences

CONSTANTS Bodies,    \* for each simulator, sequences of instruction names
          IsaLimit   \* steps after which a program counts as endless

RAX == 0
RBX == 3
StackAt == MemLen - 6

One(icode, ifun) == <<16 * icode + ifun>>
Regs(icode, ifun, ra, rb) == <<16 * icode + ifun, 16 * ra + rb>>
RegsImm(icode, ra, rb, imm) == <<16 * icode, 16 * ra + rb, imm>>
Imm(icode, ifun, imm) == <<16 * icode + ifun, imm>>

\* The names, and how an instruction is encoded whose jump would go to target.
Names == {"halt", "nop", "bad", "mov", "cmovne", "imov", "store", "storebad", "load", "loadsp", "add",
          "sub", "and", "xor", "jne", "je", "call", "ret", "push", "pushsp", "pop", "popsp", "iadd",
          "storeabs", "jm"}
Encoding(name, target) ==
  CASE name = "halt"     -> One(I_HALT, 0)
    [] name = "nop"      -> One(I_NOP, 0)
    [] name = "bad"      -> One(15, 0)
    [] name = "mov"      -> Regs(I_RRMOVQ, 0, RAX, RBX)
    [] name = "cmovne"   -> Regs(I_RRMOVQ, 4, REG_RSP, RAX)
    [] name = "imov"     -> RegsImm(I_IRMOVQ, REG_NONE, RBX, StackAt + 2)
    [] name = "store"    -> RegsImm(I_RMMOVQ, RBX, REG_RSP, 1)
    [] name = "storebad" -> RegsImm(I_RMMOVQ, RAX, RAX, 100)
    [] name = "load"     -> RegsImm(I_MRMOVQ, RBX, REG_RSP, 255)
    [] name = "loadsp"   -> RegsImm(I_MRMOVQ, REG_RSP, REG_RSP, 1)
    [] name = "add"      -> Regs(I_ALU, A_ADD, RBX, RAX)
    [] name = "sub"      -> Regs(I_ALU, A_SUB, RAX, RBX)
    [] name = "and"      -> Regs(I_ALU, A_AND, RAX, RBX)
    [] name = "xor"      -> Regs(I_ALU, A_XOR, RBX, RBX)
    [] name = "jne"      -> Imm(I_JMP, 4, target)
    [] name = "je"       -> Imm(I_JMP, 3, target)
    [] name = "call"     -> Imm(I_CALL, 0, target)
    [] name = "ret"      -> One(I_RET, 0)
    [] name = "push"     -> Regs(I_PUSHQ, 0, RBX, REG_NONE)
    [] name = "pushsp"   -> Regs(I_PUSHQ, 0, REG_RSP, REG_NONE)
    [] name = "pop"      -> Regs(I_POPQ, 0, RBX, REG_NONE)
    [] name = "popsp"    -> Regs(I_POPQ, 0, REG_RSP, REG_NONE)
    [] name = "iadd"     -> RegsImm(I_IADDQ, REG_NONE, RBX, 255)
    [] name = "storeabs" -> RegsImm(I_RMMOVQ, RAX, REG_NONE, StackAt)
    [] name = "jm"       -> RegsImm(I_JM, REG_NONE, REG_RSP, 0)

Size(name) == Len(Encoding(name, 0))
Prologue == RegsImm(I_IRMOVQ, REG_NONE, REG_RSP, StackAt)

Code(body) ==
  LET start[i \in 1 .. (Len(body) + 2)] ==
        IF i = 1 THEN Len(Prologue)
        ELSE start[i-1] + (IF i - 1 <= Len(body) THEN Size(body[i-1]) ELSE 1)
      code[i \in 0 .. Len(body)] ==
        IF i = 0 THEN Prologue
        ELSE code[i-1] \o Encoding(body[i], start[IF i < Len(body) THEN i + 2 ELSE i + 1])
  IN  code[Len(body)]

\* The program's bytes, halts, and the address of the first halt on the stack.
ImageOf(code) ==
  [a \in 0 .. (MemLen - 1) |->
     IF a < Len(code) THEN code[a + 1] ELSE IF a >= StackAt THEN Len(code) ELSE 0]
--------------------------------------------------------------------------
\* How step_state runs an image: whether it ends within IsaLimit steps; whether
\* it executes what it has written, which the pipeline does not support; and
\* whether each instruction is outside the memory or inside it with the byte at
\* FetchAhead, which the pipeline wants to read.

Covered(at, length) == at .. (at + length - 1)
Writes(st, f) ==
  CASE f.icode = I_RMMOVQ -> Wrap(f.valC + GetReg(st.r, f.rB))
    [] f.icode \in {I_PUSHQ, I_CALL} -> Wrap(GetReg(st.r, REG_RSP) - WordBytes)
    [] OTHER -> Modulus

Advance(run, f, result) ==
  [s |-> result.s,
   e |-> result.e,
   code |-> run.code \cup Covered(run.s.pc, Length(f.icode)),
   written |-> run.written \cup {Writes(run.s, f)},
   inside |-> /\ run.inside
              /\ InMem(run.s.pc, 1) => /\ InMem(run.s.pc, Length(f.icode))
                                       /\ InMem(run.s.pc, 1 + FetchAhead)]

AdvanceIf(run) ==
  IF run.e # "AOK" THEN run
  ELSE Advance(run, Fetched(run.s.m, run.s.pc, GetByte(run.s.m, run.s.pc, 0)), StepState(run.s))

Execution(image) ==
  LET run[n \in 0 .. IsaLimit] ==
        IF n = 0 THEN [s |-> InitState(image), e |-> "AOK", code |-> {}, written |-> {}, inside |-> TRUE]
        ELSE AdvanceIf(run[n - 1])
  IN  run[IsaLimit]

Behaves(run) == run.e # "AOK" /\ run.code \cap run.written = {} /\ run.inside

Comparable(bodies) == {image \in {ImageOf(Code(body)) : body \in bodies} : Behaves(Execution(image))}
Programs == [s \in Sims |-> Comparable(Bodies[s])]
--------------------------------------------------------------------------
\* The bodies of the runs: three instructions of any kinds and four of the kinds
\* that hazards are made of.  Only ssim knows jm, and only ssim agrees with
\* step_state about a store without a base register.
Lists(names, n) == UNION {[1..k -> names] : k \in 0..n}
HazardNames == {"storebad", "load", "loadsp", "add", "jne", "je", "call", "ret", "popsp", "push",
                "iadd"}
SmallBodies ==
  [s \in Sims |-> IF s = "psim"
                  THEN Lists(Names \ {"storeabs", "jm"}, 3) \cup Lists(HazardNames, 4)
                  ELSE Lists(Names, 3)]
NoBaseBodies == [s \in Sims |-> Lists({"storeabs", "store", "jne"}, 2)]
--------------------------------------------------------------------------
\* The hypothesis of SimulatorsImplementArch on programs of up to two instructions:
\* the states that step_state passes through and the bytes of their instructions
\* contain the program.
StepIf(result) == IF result.e = "AOK" THEN StepState(result.s) ELSE result
Visited(image) ==
  LET run[n \in 0 .. IsaLimit] == IF n = 0 THEN Ok(InitState(image)) ELSE StepIf(run[n - 1])
  IN  {run[n].s : n \in 0 .. IsaLimit}
TextOf(image) == UNION {Covers(st) : st \in {v \in Visited(image) : InMem(v.pc, 1)}}
FittingBodies ==
  [s \in {"psim", "ssim"} |-> Lists(IF s = "psim" THEN Names \ {"storeabs", "jm"} ELSE Names, 2)]

ASSUME TinyProgramsFit ==
  \A s \in {"psim", "ssim"} : \A image \in Comparable(FittingBodies[s]) :
    Contains(s, image, Visited(image), TextOf(image))
=============================================================================
