------------------------------ MODULE YasProps ------------------------------
(***************************************************************************)
(* What yas promises, against the language itself: the encodings of the     *)
(* instruction set, the shapes of statements, and where lines are.          *)
(***************************************************************************)
EXTENDS Yas, FiniteSetsExt, SequencesExt

Opcode == [halt |-> 0, nop |-> 16, rrmovq |-> 32, cmovle |-> 33, cmovl |-> 34, cmove |-> 35, cmovne |-> 36,
           cmovge |-> 37, cmovg |-> 38, irmovq |-> 48, rmmovq |-> 64, mrmovq |-> 80, addq |-> 96,
           subq |-> 97, andq |-> 98, xorq |-> 99, jmp |-> 112, jle |-> 113, jl |-> 114, je |-> 115,
           jne |-> 116, jge |-> 117, jg |-> 118, call |-> 128, ret |-> 144, pushq |-> 160, popq |-> 176,
           iaddq |-> 192, jm |-> 224]
Width(name) ==
  CASE name = ".byte" -> 1 [] name = ".word" -> 2 [] name = ".long" -> 4 [] name = ".quad" -> WordBytes

Statement(ts) == SubSeq(ts, Start(ts), Len(ts))
IsCode(ts) == HasName(ts) /\ NameOf(ts) \in DOMAIN Opcode
IsData(ts) == HasName(ts) /\ NameOf(ts) \in {".byte", ".word", ".long", ".quad"}
Size(ts) ==
  CASE IsCode(ts) -> Length(Hi4(Opcode[NameOf(ts)]))
    [] IsData(ts) -> Width(NameOf(ts))
    [] OTHER      -> 0

\* The shape of a statement's operands: r for a register, v for a value.
Letter(t) == CASE t.type = "REG" -> "r" [] t.type \in {"NUM", "IDENT"} -> "v" [] t.type = "INSTR" -> "i"
               [] t.type = "PUNCT" -> t.val
Shape(st) == [i \in 1 .. (Len(st) - 1) |-> Letter(st[i + 1])]
Shapes(name) ==
  CASE name \in {"halt", "nop", "ret"} -> {<<>>}
    [] name \in {"pushq", "popq"}      -> {<<"r">>}
    [] name = "rmmovq" -> {<<"r", ",">>, <<"r", ",", "v">>, <<"r", ",", "(", "r", ")">>, <<"r", ",", "v", "(", "r", ")">>}
    [] name = "mrmovq" -> {<<",", "r">>, <<"v", ",", "r">>, <<"(", "r", ")", ",", "r">>, <<"v", "(", "r", ")", ",", "r">>}
    [] name \in {"irmovq", "iaddq", "jm"} -> {<<"v", ",", "r">>}
    [] name \in {"jmp", "jle", "jl", "je", "jne", "jge", "jg", "call", ".byte", ".word", ".long", ".quad"} -> {<<"v">>}
    [] OTHER                           -> {<<"r", ",", "r">>}

\* What follows the operands is ignored, unless a memory reference goes on in it.
GoesOn(st, shape) ==
  /\ st[1].val = "rmmovq"
  /\ \/ Len(shape) = 2 /\ IsValue(st, 4)
     \/ Len(shape) \in {2, 3} /\ Is(st, Len(shape) + 2, "(")
Operands(st) ==
  {shape \in Shapes(st[1].val) : IsPrefix(shape, Shape(st)) /\ ~GoesOn(st, shape)}

\* A statement without what follows its operands.
Trimmed(st) == SubSeq(st, 1, 1 + Len(CHOOSE shape \in Operands(st) : TRUE))

Labels(s) == {s.lines[k].tokens[1].val : k \in {j \in DOMAIN s.lines : Labelled(s.lines[j].tokens)}}

WellFormedStatement(s, st) ==
  /\ Type(st, 1) = "INSTR"
  /\ CASE st[1].val = ".pos"   -> Type(st, 2) = "NUM"
       [] st[1].val = ".align" -> Type(st, 2) = "NUM" /\ IntOf(st[2].val) > 0
       [] OTHER -> \E shape \in Operands(st) :
                     \A i \in 2 .. (Len(shape) + 1) : st[i].type = "IDENT" => st[i].val \in Labels(s)
WellFormedLine(s, line) ==
  /\ ~line.invalid
  /\ ~NoColon(line.tokens)
  /\ Statement(line.tokens) = <<>> \/ WellFormedStatement(s, Statement(line.tokens))

\* The multiple of n that .align leads to.  The one after a place far enough below
\* 0 is passed over, because C's division goes towards 0 (yas.c:372); so is one that
\* is no int.
NextMultiple(pos, n) ==
  LET last  == IntOf(pos + n - 1)
      least == IF last < 0 THEN last ELSE pos
  IN  CHOOSE a \in least .. (least + n - 1) : a % n = 0

\* Where the lines are: line k is at Place(s)[k].  A place is an int, and so is the
\* number of a directive.
After(ts, pos) ==
  CASE IsPos(ts)   -> NumOf(ts)
    [] IsAlign(ts) -> NextMultiple(pos, NumOf(ts))
    [] OTHER       -> IntOf(pos + Size(ts))
Place(s) ==
  LET place[k \in 1 .. (Len(s.lines) + 1)] ==
        IF k = 1 THEN 0 ELSE LET before == place[k - 1] IN After(s.lines[k - 1].tokens, before)
  IN  place
Shown(s, place, k) ==
  IF IsPos(s.lines[k].tokens) \/ IsAlign(s.lines[k].tokens) THEN place[k + 1] ELSE place[k]

\* The last line needs its newline: tokens without one are an error, and a
\* comment without one is, unless there is no other line that it could swallow.
NewlineOk(s) ==
  s.lines # <<>> /\ ~s.newline => Last(s.lines).tokens = <<>> /\ (LeavesErr(s) => Len(s.lines) = 1)

WellFormed(s) ==
  /\ NewlineOk(s)
  /\ \A k \in DOMAIN s.lines :
       k < Len(s.lines) \/ s.newline => WellFormedLine(s, s.lines[k])
  /\ \A k \in DOMAIN s.lines :
       s.lines[k].tokens # <<>> => Shown(s, Place(s), k) <= LastAddress
--------------------------------------------------------------------------
\* What a line says, as the simulators fetch it.
Position(s, place, name) ==
  place[Min({k \in DOMAIN s.lines : Labelled(s.lines[k].tokens) /\ s.lines[k].tokens[1].val = name})]
Meant(s, place, t) == IF t.type = "NUM" THEN t.val ELSE Position(s, place, t.val)

Values(st) == {i \in 2 .. Len(st) : IsValue(st, i)}
Base(st) == {i \in 2 .. Len(st) : Type(st, i) = "REG" /\ Is(st, i - 1, "(")}
Plain(st) == {i \in 2 .. Len(st) : Type(st, i) = "REG"} \ Base(st)
FirstReg(st) == st[Min(Plain(st))].val
SecondReg(st) == st[Min(Plain(st) \ {Min(Plain(st))})].val
BaseReg(st) == IF Base(st) = {} THEN REG_NONE ELSE st[Min(Base(st))].val

RegisterA(icode, st) ==
  IF icode \in {I_RRMOVQ, I_ALU, I_RMMOVQ, I_MRMOVQ, I_PUSHQ, I_POPQ} THEN FirstReg(st) ELSE REG_NONE
RegisterB(icode, st) ==
  CASE icode \in {I_RRMOVQ, I_ALU}         -> SecondReg(st)
    [] icode \in {I_IRMOVQ, I_IADDQ, I_JM} -> FirstReg(st)
    [] icode \in {I_RMMOVQ, I_MRMOVQ}      -> BaseReg(st)
    [] OTHER                               -> REG_NONE

SaysCode(s, place, st, f) ==
  /\ <<f.icode, f.ifun>> = <<Hi4(Opcode[st[1].val]), Lo4(Opcode[st[1].val])>>
  /\ f.rA = RegisterA(f.icode, st) /\ f.rB = RegisterB(f.icode, st)
  /\ NeedImm(f.icode) =>
       f.valC = IF Values(st) = {} THEN 0 ELSE Wrap(Meant(s, place, st[Min(Values(st))]))
  /\ FetchStatus(f) = "AOK"

SaysData(s, place, st, image, pos) ==
  \A i \in 0 .. (Width(st[1].val) - 1) : image[pos + i] = ByteAt(Meant(s, place, st[2]), i)

Says(s, place, k, image) ==
  LET ts == s.lines[k].tokens
      pos == Printed(place[k])
  IN  /\ IsCode(ts) => SaysCode(s, place, Trimmed(Statement(ts)), Fetched(image, pos, image[pos]))
      /\ IsData(ts) => SaysData(s, place, Statement(ts), image, pos)

Span(s, place, k) == Printed(place[k]) .. (Printed(place[k]) + Size(s.lines[k].tokens) - 1)
Overwritten(s, place, k) ==
  \E j \in (k + 1) .. Len(s.lines) : Span(s, place, j) \cap Span(s, place, k) # {}
--------------------------------------------------------------------------
\* yas exits with 0 for the sources that are well formed, and for no others
\* (yas.c:607, 623).
ExitStatusRight == status # "running" => (status = "success" <=> WellFormed(source))

\* After a successful run the simulators load the file, if it stays within
\* their memory, and fetch from it what the lines say (yas.c:133, isa.c:195).
ImageRight ==
  status = "success" =>
    LET place == Place(source)
        coded == {k \in DOMAIN source.lines : Size(source.lines[k].tokens) > 0}
        image == load_mem(outfile)
    IN  /\ Loads(outfile) <=> coded # {} /\ \A k \in coded : Span(source, place, k) \subseteq 0 .. (MemLen - 1)
        /\ Loads(outfile) => \A k \in coded : Overwritten(source, place, k) \/ Says(source, place, k, image)
=============================================================================
