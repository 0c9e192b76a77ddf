------------------------------- MODULE MCYas -------------------------------
(***************************************************************************)
(* Sources for TLC: every pair of lines, every three lines of those that     *)
(* move or name places, with and without the last newline.                   *)
(***************************************************************************)
EXTENDS YasProps

L(tokens) == [tokens |-> tokens, invalid |-> FALSE]
Bad(tokens) == [tokens |-> tokens, invalid |-> TRUE]
x == Ident("x")
y == Ident("y")
Colon == Punct(":")
Comma == Punct(",")
Mem(tokens) == <<Punct("(")>> \o tokens \o <<Punct(")")>>
RRegs(name, a, b) == L(<<Instr(name), Reg(a), Comma, Reg(b)>>)

Placed == {
  L(<<>>), L(<<x, Colon>>), L(<<y, Colon>>), L(<<x, Colon, Instr("halt")>>),
  L(<<y, Colon, Instr("jmp"), x>>), L(<<Instr("call"), y>>),
  L(<<Instr("irmovq"), x, Comma, Reg(3)>>), L(<<Instr(".quad"), y>>),
  L(<<Instr("rmmovq"), Reg(0), Comma, x>> \o Mem(<<Reg(6)>>)),
  L(<<Instr(".pos"), Num(4094)>>), L(<<Instr(".pos"), Num(2)>>), L(<<Instr(".pos"), Num(-6)>>),
  L(<<Instr(".align"), Num(4)>>),
  L(<<Instr(".long"), Num(-2)>>), Bad(<<>>), Bad(<<x, Colon>>)}

Coded ==
  {RRegs(name, 1, 14) : name \in {"rrmovq", "cmovle", "cmovl", "cmove", "cmovne", "cmovge", "cmovg",
                                  "addq", "subq", "andq", "xorq"}}
  \cup {L(<<Instr(name), Num(-3), Comma, Reg(2)>>) : name \in {"irmovq", "iaddq", "jm"}}
  \cup {L(<<Instr("rmmovq"), Reg(7), Comma>> \o m) :
          m \in {<<Num(300)>>, Mem(<<Reg(5)>>), <<Num(5)>> \o Mem(<<Reg(5)>>), <<>>, <<Reg(5)>>,
                 Mem(<<Num(5)>>), <<Num(5), Punct("("), Reg(5)>>, <<Num(5), Punct("(")>>}}
  \cup {L(<<Instr("mrmovq")>> \o m \o <<Comma, Reg(8)>>) :
          m \in {<<Num(70000)>>, Mem(<<Reg(4)>>), <<y>> \o Mem(<<Reg(4)>>), <<>>, <<Punct("(")>>,
                 <<Num(1), Punct("("), Reg(4)>>}}
  \cup {L(<<Instr(name), x>>) : name \in {"jmp", "jle", "jl", "je", "jne", "jge", "jg", "call"}}
  \cup {L(<<Instr(name)>>) : name \in {"halt", "nop", "ret", "pushq", "jmp"}}
  \cup {L(<<Instr(name), Reg(9)>>) : name \in {"pushq", "popq", "jmp"}}
  \cup {L(<<Instr(".byte"), Num(-1)>>), L(<<Instr(".word"), Num(258)>>), L(<<Instr(".word"), x>>)}
  \cup {L(<<Instr(".pos"), Num(n)>>) : n \in {65535, 8190, -2, 131071, 262144 + 12}} \cup {L(<<Instr(".pos"), x>>)}
  \cup {L(<<Instr(".align"), Num(n)>>) : n \in {0, 3, 262144, 131071}}
  \cup {L(<<x, Instr("nop")>>), L(<<Num(5)>>), L(<<Instr("addq"), Reg(1), Reg(2)>>),
        L(<<Instr("nop"), Instr("halt")>>), L(<<Instr("rmmovq"), Reg(7), Comma>> \o Mem(<<Reg(5)>>) \o <<Num(5)>>),
        L(<<Instr("mrmovq"), Comma, Reg(8)>> \o Mem(<<Reg(4)>>)), L(<<Instr("pushq"), Reg(9), Num(5)>>),
        L(<<Instr(".quad"), Num(0), Ident("x10")>>),
        L(<<Instr("nop"), Colon>>), Bad(<<Instr("halt")>>)}

Lines == Placed \cup Coded
Texts == {<<>>} \cup {<<a>> : a \in Lines} \cup {<<a, b>> : a \in Lines, b \in Lines}
           \cup {<<a, b, c>> : a \in Placed, b \in Placed, c \in Placed}
           \cup {<<a, b, c, d>> : a \in {L(<<Instr("jmp"), x>>)}, b \in Placed, c \in Placed,
                                  d \in {L(<<x, Colon, Instr("halt")>>), L(<<y, Colon>>)}}
AllSources == {[lines |-> text, newline |-> newline] : text \in Texts, newline \in BOOLEAN}
============================================================================
