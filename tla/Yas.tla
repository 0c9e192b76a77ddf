-------------------------------- MODULE Yas --------------------------------
(***************************************************************************)
(* yas, the Y86-64 assembler (yas.c), its table of instructions and the     *)
(* loader of the simulators (isa.c).  yas reads its source twice: pass 1    *)
(* finds where the labels are, pass 2 emits code.                           *)
(*                                                                         *)
(* A line is the sequence of its tokens; it is invalid when a character      *)
(* that begins no token comes after them.  A comment without its newline is  *)
(* one.  A token's number is a word, an address is an int of the compiler;   *)
(* both are integers here.  Code is bytes of Isa's words.                    *)
(***************************************************************************)
EXTENDS Isa, Sequences

CONSTANTS Sources,      \* what may be in the .ys file
          IntModulus    \* how many values an int has

Ident(name) == [type |-> "IDENT", val |-> name]
Num(n) == [type |-> "NUM", val |-> n]
Reg(id) == [type |-> "REG", val |-> id]
Instr(name) == [type |-> "INSTR", val |-> name]
Punct(c) == [type |-> "PUNCT", val |-> c]

\* The names that the scanner takes for instructions; those of one kind are in
\* the order of their function codes.
Moves == <<"cmovle", "cmovl", "cmove", "cmovne", "cmovge", "cmovg">>
Jumps == <<"jle", "jl", "je", "jne", "jge", "jg">>
Alus == <<"addq", "subq", "andq", "xorq">>
Instrs ==
  {"halt", "nop", "ret", "rrmovq", "irmovq", "rmmovq", "mrmovq", "jmp", "call", "pushq", "popq", "iaddq", "jm"}
  \cup {Moves[i] : i \in 1 .. 6} \cup {Jumps[i] : i \in 1 .. 6} \cup {Alus[i] : i \in 1 .. 4}
  \cup {".byte", ".word", ".long", ".quad", ".pos", ".align"}

Token ==
  [type : {"NUM"}, val : (-(Modulus \div 2)) .. (Modulus \div 2 - 1)] \cup [type : {"REG"}, val : RegId] \cup [type : {"INSTR"}, val : Instrs]
  \cup [type : {"IDENT"}, val : STRING] \cup [type : {"PUNCT"}, val : {"(", ")", ":", ","}]
SourceLine == [tokens : Seq(Token), invalid : BOOLEAN]
Source == [lines : Seq(SourceLine), newline : BOOLEAN]

\* The longest operand is a word after two bytes; .long has four bytes.
ASSUME SourcesAssumption ==
  WordBytes >= 3 /\ IntModulus \in Nat \ {0} /\ Sources \subseteq Source

VARIABLES source,        \* [lines, newline]: newline says that the last line has one
          pass, at,      \* at is the line that comes next
          bytepos,
          scanner,       \* flex's start condition
          leftover,      \* tokens of an invalid line are still in tokens[]
          code,
          symbol_table,
          hit_error,
          outfile,       \* addresses with the code printed after them
          status,        \* running, or how the program has ended
          places         \* history: bytepos at every line of pass 1

vars == <<source, pass, at, bytepos, scanner, leftover, code, symbol_table, hit_error, outfile,
          status, places>>
--------------------------------------------------------------------------
\* instruction_set: the first byte, the length, and the arguments.  A register
\* goes to the high or low half of a byte; a number to n bytes.
R_ARG(pos, hi) == [kind |-> "R", pos |-> pos, hi |-> hi]
M_ARG(pos) == [kind |-> "M", pos |-> pos]
I_ARG(pos, n) == [kind |-> "I", pos |-> pos, n |-> n]

Hpack(icode, ifun) == 16 * icode + ifun
Entry(byte, bytes, args) == [code |-> byte, bytes |-> bytes, args |-> args]

Number(names, name) == CHOOSE i \in DOMAIN names : names[i] = name
In(names, name) == \E i \in DOMAIN names : names[i] = name

BothRegs == <<R_ARG(1, TRUE), R_ARG(1, FALSE)>>
Target == <<I_ARG(1, WordBytes)>>
Immediate == <<I_ARG(2, WordBytes), R_ARG(1, FALSE)>>

find_instr(name) ==
  CASE name = "nop"    -> Entry(Hpack(I_NOP, 0), 1, <<>>)
    [] name = "halt"   -> Entry(Hpack(I_HALT, 0), 1, <<>>)
    [] name = "ret"    -> Entry(Hpack(I_RET, 0), 1, <<>>)
    [] name = "rrmovq" -> Entry(Hpack(I_RRMOVQ, 0), 2, BothRegs)
    [] In(Moves, name) -> Entry(Hpack(I_RRMOVQ, Number(Moves, name)), 2, BothRegs)
    [] In(Alus, name)  -> Entry(Hpack(I_ALU, Number(Alus, name) - 1), 2, BothRegs)
    [] name = "irmovq" -> Entry(Hpack(I_IRMOVQ, 0), 2 + WordBytes, Immediate)
    [] name = "iaddq"  -> Entry(Hpack(I_IADDQ, 0), 2 + WordBytes, Immediate)
    [] name = "jm"     -> Entry(Hpack(I_JM, 0), 2 + WordBytes, Immediate)
    [] name = "rmmovq" -> Entry(Hpack(I_RMMOVQ, 0), 2 + WordBytes, <<R_ARG(1, TRUE), M_ARG(1)>>)
    [] name = "mrmovq" -> Entry(Hpack(I_MRMOVQ, 0), 2 + WordBytes, <<M_ARG(1), R_ARG(1, TRUE)>>)
    [] name = "jmp"    -> Entry(Hpack(I_JMP, 0), 1 + WordBytes, Target)
    [] In(Jumps, name) -> Entry(Hpack(I_JMP, Number(Jumps, name)), 1 + WordBytes, Target)
    [] name = "call"   -> Entry(Hpack(I_CALL, 0), 1 + WordBytes, Target)
    [] name = "pushq"  -> Entry(Hpack(I_PUSHQ, 0), 2, <<R_ARG(1, TRUE)>>)
    [] name = "popq"   -> Entry(Hpack(I_POPQ, 0), 2, <<R_ARG(1, TRUE)>>)
    [] name = ".byte"  -> Entry(0, 1, <<I_ARG(0, 1)>>)
    [] name = ".word"  -> Entry(0, 2, <<I_ARG(0, 2)>>)
    [] name = ".long"  -> Entry(0, 4, <<I_ARG(0, 4)>>)
    [] name = ".quad"  -> Entry(0, WordBytes, <<I_ARG(0, WordBytes)>>)
--------------------------------------------------------------------------
\* The tokens of a line.  tokens[] behind the last one has type TOK_ERR.
Type(ts, i) == IF i \in DOMAIN ts THEN ts[i].type ELSE "ERR"
Is(ts, i, c) == Type(ts, i) = "PUNCT" /\ ts[i].val = c

\* The first entry of the table with a name.
Named(table, name, i) ==
  /\ i \in DOMAIN table /\ table[i].name = name
  /\ \A j \in 1 .. (i - 1) : table[j].name # name
Defined(table, name) == \E i \in DOMAIN table : table[i].name = name
\* Variant: the last definition of a label counts.
find_symbolLast(table, name) ==
  IF Defined(table, name)
  THEN table[CHOOSE i \in DOMAIN table : table[i].name = name /\ \A j \in (i + 1) .. Len(table) : table[j].name # name].pos
  ELSE -1
find_symbol(table, name) ==
  IF Defined(table, name) THEN table[CHOOSE i \in DOMAIN table : Named(table, name, i)].pos ELSE -1

ByteAt(val, i) == (val \div Pow2[8 * i]) % 256
WithNumber(bytes, pos, n, val) ==
  [i \in DOMAIN bytes |-> IF i \in pos .. (pos + n - 1) THEN ByteAt(val, i - pos) ELSE bytes[i]]

\* A parser has the code so far, the token it is at, and whether all was well.
Failed(p) == [p EXCEPT !.ok = FALSE]

\* Variant: the halves of the register byte are swapped.
get_regSwapped(p, ts, arg) ==
  IF Type(ts, p.tpos) # "REG" THEN Failed(p)
  ELSE [p EXCEPT !.code[arg.pos] = IF arg.hi THEN Hpack(Hi4(@), ts[p.tpos].val) ELSE Hpack(ts[p.tpos].val, Lo4(@)),
                 !.tpos = @ + 1]
get_reg(p, ts, arg) ==
  IF Type(ts, p.tpos) # "REG" THEN Failed(p)
  ELSE [p EXCEPT !.code[arg.pos] = IF arg.hi THEN Hpack(ts[p.tpos].val, Lo4(@)) ELSE Hpack(Hi4(@), ts[p.tpos].val),
                 !.tpos = @ + 1]

\* A number, or the position of a label; a label that is missing counts as -1.
IsValue(ts, i) == Type(ts, i) \in {"NUM", "IDENT"}
Value(table, t) == IF t.type = "NUM" THEN t.val ELSE find_symbol(table, t.val)
\* Variant: a label that is missing is no error.
MissingIgnored(table, t) == FALSE
Missing(table, t) == t.type = "IDENT" /\ ~Defined(table, t.val)

get_num(p, ts, table, arg) ==
  IF ~IsValue(ts, p.tpos) THEN Failed(p)
  ELSE [p EXCEPT !.code = WithNumber(@, arg.pos, arg.n, Value(table, ts[p.tpos])),
                 !.ok = @ /\ ~Missing(table, ts[p.tpos]),
                 !.tpos = @ + 1]

WithLow(bytes, pos, id) == [bytes EXCEPT ![pos] = Hpack(Hi4(@), id)]

\* A displacement, a register in parentheses, both or none.
get_mem(p, ts, table, arg) ==
  LET disp == IsValue(ts, p.tpos)
      r    == IF disp THEN p.tpos + 1 ELSE p.tpos
      base == Is(ts, r, "(")
      q    == [p EXCEPT !.ok = @ /\ ~(disp /\ Missing(table, ts[p.tpos]))]
      val  == IF disp THEN Value(table, ts[p.tpos]) ELSE 0
      Found(id, tpos) ==
        [q EXCEPT !.code = WithNumber(WithLow(@, arg.pos, id), arg.pos + 1, WordBytes, val),
                  !.tpos = tpos]
  IN  CASE ~base -> Found(REG_NONE, r)
        [] base /\ Type(ts, r + 1) # "REG" -> [Failed(q) EXCEPT !.tpos = r + 1]
        [] base /\ Type(ts, r + 1) = "REG" /\ Is(ts, r + 2, ")") -> Found(ts[r + 1].val, r + 3)
        [] base /\ Type(ts, r + 1) = "REG" /\ ~Is(ts, r + 2, ")") ->
             [Failed(q) EXCEPT !.tpos = IF Type(ts, r + 2) = "PUNCT" THEN r + 3 ELSE r + 2]

Argument(p, ts, table, arg) ==
  CASE arg.kind = "R" -> get_reg(p, ts, arg)
    [] arg.kind = "M" -> get_mem(p, ts, table, arg)
    [] arg.kind = "I" -> get_num(p, ts, table, arg)

\* The code of an instruction whose name is at tpos.  Without a comma between
\* two arguments nothing is printed.
Begun(instr, tpos, old) ==
  [code |-> [old EXCEPT ![0] = instr.code, ![1] = Hpack(REG_NONE, REG_NONE)],
   tpos |-> tpos + 1, ok |-> TRUE, printed |-> TRUE]
PastComma(p) == [p EXCEPT !.tpos = @ + 1]
NoComma(p) == [p EXCEPT !.ok = FALSE, !.printed = FALSE]
FirstArgument(p, ts, table, args) == IF args = <<>> THEN p ELSE Argument(p, ts, table, args[1])
Assembled(ts, tpos, table, old) ==
  LET instr == find_instr(ts[tpos].val)
      p1 == FirstArgument(Begun(instr, tpos, old), ts, table, instr.args)
  IN  CASE Len(instr.args) < 2 -> p1
        [] Len(instr.args) = 2 /\ Is(ts, p1.tpos, ",") -> Argument(PastComma(p1), ts, table, instr.args[2])
        [] Len(instr.args) = 2 /\ ~Is(ts, p1.tpos, ",") -> NoComma(p1)
--------------------------------------------------------------------------
\* Parts of a line: its label, the token after it, a directive's number.
Labelled(ts) == Type(ts, 1) = "IDENT" /\ Is(ts, 2, ":")
NoColon(ts) == Type(ts, 1) = "IDENT" /\ ~Is(ts, 2, ":")
Start(ts) == IF Labelled(ts) THEN 3 ELSE 1
HasName(ts) == Type(ts, Start(ts)) = "INSTR"
NameOf(ts) == ts[Start(ts)].val
IsPos(ts) == HasName(ts) /\ NameOf(ts) = ".pos"
IsAlign(ts) == HasName(ts) /\ NameOf(ts) = ".align"
IsInstr(ts) == HasName(ts) /\ NameOf(ts) \notin {".pos", ".align"}
HasNum(ts) == Type(ts, Start(ts) + 1) = "NUM"

\* The int that a number becomes: it keeps the number's low bits.
Low(n) == n % IntModulus
IntOf(n) == IF 2 * Low(n) < IntModulus THEN Low(n) ELSE Low(n) - IntModulus
NumOf(ts) == IntOf(ts[Start(ts) + 1].val)
GoodAlign(ts) == HasNum(ts) /\ NumOf(ts) > 0
GoodDirective(ts) == (IsPos(ts) /\ HasNum(ts)) \/ (IsAlign(ts) /\ GoodAlign(ts))

\* bytepos and a are ints, whose sums wrap, and C's division truncates.
Quotient(a, b) == IF a >= 0 THEN a \div b ELSE -((-a) \div b)
Aligned(pos, a) == Quotient(IntOf(pos + a - 1), a) * a

\* Where the next line is, after a line at pos.
Advance(ts, pos) ==
  CASE IsPos(ts) /\ HasNum(ts)      -> NumOf(ts)
    [] IsAlign(ts) /\ GoodAlign(ts) -> Aligned(pos, NumOf(ts))
    [] IsInstr(ts)                  -> IntOf(pos + find_instr(NameOf(ts)).bytes)
    [] OTHER                        -> pos
--------------------------------------------------------------------------
Init ==
  /\ source \in Sources
  /\ pass = 1 /\ at = 1 /\ bytepos = 0
  /\ scanner = "INITIAL" /\ leftover = FALSE
  /\ code = [i \in 0 .. (WordBytes + 1) |-> 0]
  /\ symbol_table = <<>>
  /\ hit_error = FALSE
  /\ outfile = <<>>
  /\ status = "running"
  /\ places = <<0>>

AtEof == at > Len(source.lines)
Line == source.lines[at]
EndsInNewline == at < Len(source.lines) \/ source.newline

\* print_code: three digits of the address, or four.
LastAddress == 65535
Printed(pos) == IF pos > 4095 THEN pos ELSE pos % 4096
TooFar(pos) == pass = 2 /\ pos > LastAddress
PrintCode(pos, bytes) ==
  IF TooFar(pos) THEN status' = "failure" /\ UNCHANGED outfile
  ELSE /\ outfile' = IF pass = 2 THEN Append(outfile, [pos |-> Printed(pos), bytes |-> bytes]) ELSE outfile
       /\ UNCHANGED status
PrintNothing == UNCHANGED <<outfile, status>>

\* The line is behind us; the next one is at pos.
NextLine(pos) ==
  /\ at' = at + 1
  /\ bytepos' = pos
  /\ places' = IF pass = 1 THEN Append(places, pos) ELSE places
  /\ UNCHANGED <<source, pass>>

fail == hit_error' = TRUE

\* finish_line is called on a line with tokens ts.
Read(ts) ==
  /\ status = "running" /\ ~AtEof
  /\ scanner = "INITIAL" /\ ~Line.invalid /\ EndsInNewline
  /\ ts = Line.tokens

\* Defines the label of the line, if it has one.
Define(ts) ==
  symbol_table' = IF pass = 1 /\ Labelled(ts) THEN Append(symbol_table, [name |-> ts[1].val, pos |-> bytepos])
                  ELSE symbol_table

\* A line without tokens is copied, without an address.
Blank ==
  /\ Read(<<>>) /\ ~leftover
  /\ NextLine(bytepos)
  /\ PrintNothing
  /\ UNCHANGED <<scanner, leftover, code, symbol_table, hit_error>>

\* The tokens of an invalid line take this one with them.
Dropped ==
  /\ Read(Line.tokens) /\ leftover
  /\ leftover' = FALSE
  /\ NextLine(bytepos)
  /\ PrintNothing
  /\ UNCHANGED <<scanner, code, symbol_table, hit_error>>

\* A label only.
LabelLine ==
  /\ Read(Line.tokens) /\ ~leftover
  /\ Labelled(Line.tokens) /\ Len(Line.tokens) = 2
  /\ Define(Line.tokens)
  /\ PrintCode(bytepos, <<>>)
  /\ hit_error' = (hit_error \/ TooFar(bytepos))
  /\ NextLine(bytepos)
  /\ UNCHANGED <<scanner, leftover, code>>

\* A label without colon, something that is no instruction, a bad directive.
Refused(ts) ==
  \/ NoColon(ts)
  \/ /\ ~NoColon(ts) /\ ~HasName(ts)
     /\ Start(ts) <= Len(ts)
  \/ IsPos(ts) /\ ~HasNum(ts)
  \/ IsAlign(ts) /\ ~GoodAlign(ts)
BadLine ==
  /\ Read(Line.tokens) /\ ~leftover
  /\ Refused(Line.tokens)
  /\ Define(Line.tokens)
  /\ fail
  /\ NextLine(bytepos)
  /\ PrintNothing
  /\ UNCHANGED <<scanner, leftover, code>>

\* .pos and .align are printed with the address they lead to.
Directive ==
  /\ Read(Line.tokens) /\ ~leftover
  /\ GoodDirective(Line.tokens)
  /\ Define(Line.tokens)
  /\ LET pos == Advance(Line.tokens, bytepos)
     IN  PrintCode(pos, <<>>) /\ hit_error' = (hit_error \/ TooFar(pos)) /\ NextLine(pos)
  /\ UNCHANGED <<scanner, leftover, code>>

\* Pass 1 takes the size of an instruction only.
Measure ==
  /\ Read(Line.tokens) /\ ~leftover
  /\ IsInstr(Line.tokens) /\ pass = 1
  /\ Define(Line.tokens)
  /\ NextLine(Advance(Line.tokens, bytepos))
  /\ PrintNothing
  /\ UNCHANGED <<scanner, leftover, code, hit_error>>

Emit ==
  /\ Read(Line.tokens) /\ ~leftover
  /\ IsInstr(Line.tokens) /\ pass = 2
  /\ LET p == Assembled(Line.tokens, Start(Line.tokens), symbol_table, code)
         bytes == [i \in 1 .. find_instr(NameOf(Line.tokens)).bytes |-> p.code[i - 1]]
     IN  /\ code' = p.code
         /\ IF p.printed THEN PrintCode(bytepos, bytes) ELSE PrintNothing
         /\ hit_error' = (hit_error \/ ~p.ok \/ (p.printed /\ TooFar(bytepos)))
  /\ NextLine(Advance(Line.tokens, bytepos))
  /\ UNCHANGED <<scanner, leftover, symbol_table>>

\* An invalid line is reported at its end, and finish_line is not called.
Invalid ==
  /\ status = "running" /\ ~AtEof
  /\ scanner = "INITIAL" /\ Line.invalid /\ EndsInNewline
  /\ leftover' = (leftover \/ Line.tokens # <<>>)
  /\ fail
  /\ NextLine(bytepos)
  /\ PrintNothing
  /\ UNCHANGED <<scanner, code, symbol_table>>

\* In state ERR the scanner swallows a line.
Swallow ==
  /\ status = "running" /\ ~AtEof
  /\ scanner = "ERR" /\ EndsInNewline
  /\ scanner' = "INITIAL"
  /\ fail
  /\ NextLine(bytepos)
  /\ PrintNothing
  /\ UNCHANGED <<leftover, code, symbol_table>>

\* The last line has no newline: its tokens wait for one, and a character that
\* begins no token leaves the scanner in state ERR.
Unfinished ==
  /\ status = "running" /\ ~AtEof
  /\ ~EndsInNewline
  /\ scanner' = IF Line.invalid THEN "ERR" ELSE scanner
  /\ leftover' = (leftover \/ (scanner = "INITIAL" /\ Line.tokens # <<>>))
  /\ NextLine(bytepos)
  /\ PrintNothing
  /\ UNCHANGED <<code, symbol_table, hit_error>>

\* Variant: pass 2 goes on where pass 1 has ended.
EndOfPassKeepsBytepos ==
  /\ status = "running" /\ AtEof
  /\ hit_error' = (hit_error \/ leftover)
  /\ IF pass = 1 /\ ~hit_error' THEN pass' = 2 /\ at' = 1 /\ UNCHANGED status
     ELSE status' = (IF hit_error' THEN "failure" ELSE "success") /\ UNCHANGED <<pass, at>>
  /\ UNCHANGED <<source, bytepos, scanner, leftover, code, symbol_table, outfile, places>>

\* yywrap, and main after a pass.
EndOfPass ==
  /\ status = "running" /\ AtEof
  /\ hit_error' = (hit_error \/ leftover)
  /\ IF pass = 1 /\ ~hit_error'
     THEN /\ pass' = 2 /\ at' = 1 /\ bytepos' = 0
          /\ UNCHANGED status
     ELSE /\ status' = IF hit_error' THEN "failure" ELSE "success"
          /\ UNCHANGED <<pass, at, bytepos>>
  /\ UNCHANGED <<source, scanner, leftover, code, symbol_table, outfile, places>>

Next ==
  \/ Blank \/ Dropped \/ LabelLine \/ BadLine \/ Directive \/ Measure \/ Emit
  \/ Invalid \/ Swallow \/ Unfinished \/ EndOfPass

Spec == Init /\ [][Next]_vars
--------------------------------------------------------------------------
\* load_mem, on the file yas has written.  Later code overwrites earlier code.
Covers(line, a) == a \in line.pos .. (line.pos + Len(line.bytes) - 1)
Fits(file) == \A k \in DOMAIN file : \A i \in DOMAIN file[k].bytes : file[k].pos + i - 1 < MemLen
Writers(file, a) == {k \in DOMAIN file : Covers(file[k], a)}
LastWriter(file, a) == CHOOSE k \in Writers(file, a) : \A j \in Writers(file, a) : j <= k
load_mem(file) ==
  [a \in 0 .. (MemLen - 1) |->
     IF Writers(file, a) = {} THEN 0
     ELSE file[LastWriter(file, a)].bytes[a - file[LastWriter(file, a)].pos + 1]]
Loads(file) == Fits(file) /\ \E k \in DOMAIN file : file[k].bytes # <<>>
--------------------------------------------------------------------------
\* A comment at the end that has lost its newline leaves the scanner in state
\* ERR, and pass 2 takes its first line for an invalid one.
LeavesErr(s) == Len(s.lines) > 0 /\ ~s.newline /\ s.lines[Len(s.lines)].invalid

\* Pass 2 finds every line where pass 1 has found it (yas.c:387), unless the
\* scanner comes out of pass 1 in another state than it went in.
PassesAgree == pass = 2 /\ ~LeavesErr(source) => bytepos = places[at]

\* At the first definition of a label, the table has this place for it
\* (yas.c:333), although it was filled in another pass.
FirstDefinition(k) ==
  /\ Labelled(source.lines[k].tokens)
  /\ \A j \in 1 .. (k - 1) : Labelled(source.lines[j].tokens) =>
       source.lines[j].tokens[1].val # source.lines[k].tokens[1].val
LabelsAgree ==
  pass = 2 /\ ~LeavesErr(source) /\ ~AtEof /\ FirstDefinition(at)
    => find_symbol(symbol_table, Line.tokens[1].val) = bytepos
============================================================================
