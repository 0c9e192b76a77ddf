----------------------------- MODULE YasProofs -----------------------------
(***************************************************************************)
(* The passes of yas agree, and its exit status is right, for every set of  *)
(* sources (Yas, YasProps).                                                 *)
(*                                                                         *)
(* Pass 2 cannot know that a line advances as it did in pass 1, unless the  *)
(* line is read the same way.  So the invariant says what a pass 1 without   *)
(* errors has seen: every line it has passed is in order (InOrder), and the  *)
(* next one is where Advance puts it.                                       *)
(*                                                                         *)
(* For the exit status the parser's verdict on a line is brought to the      *)
(* shapes of the language (AcceptsIs), the places of pass 1 to those the     *)
(* lines are meant to have (PlacesAre), and the invariant Told says for      *)
(* which lines an error has been reported.                                   *)
(***************************************************************************)
EXTENDS YasProps, WellFoundedInduction, TLAPS

\* Line k is read by finish_line, or has nothing to read.
Finished(k) == k < Len(source.lines) \/ source.newline
TokensAt(k) == source.lines[k].tokens
InOrder(k) ==
  IF Finished(k) THEN ~source.lines[k].invalid /\ ~Refused(TokensAt(k)) ELSE TokensAt(k) = <<>>
Moved(k) == IF Finished(k) THEN Advance(TokensAt(k), places[k]) ELSE places[k]

\* Labels in the table come from lines up to n, and the first definition of
\* each is found.
FoundAt(k) == \E i \in DOMAIN symbol_table :
  Named(symbol_table, TokensAt(k)[1].val, i) /\ symbol_table[i].pos = places[k]
Seen(n) ==
  /\ \A k \in 1 .. n : InOrder(k) /\ places[k + 1] = Moved(k)
  /\ \A i \in DOMAIN symbol_table : \E k \in 1 .. n :
       Labelled(TokensAt(k)) /\ TokensAt(k)[1].val = symbol_table[i].name
  /\ \A k \in 1 .. n : FirstDefinition(k) => FoundAt(k)

Types ==
  /\ source \in Sources
  /\ pass \in {1, 2}
  /\ at \in 1 .. (Len(source.lines) + 1)
  /\ bytepos \in Int
  /\ leftover \in BOOLEAN /\ hit_error \in BOOLEAN
  /\ symbol_table \in Seq([name : STRING, pos : Int])
  /\ places \in Seq(Int)

\* Tokens are left over by a line in error, or by the last line.
LeftoverExplained == leftover => hit_error \/ AtEof
ScannerExplained == ~LeavesErr(source) => scanner = "INITIAL"
FirstPass ==
  pass = 1 =>
    /\ Len(places) = at /\ places[at] = bytepos /\ places[1] = 0
    /\ ~LeavesErr(source) /\ ~hit_error /\ ~leftover => Seen(at - 1)
SecondPass ==
  pass = 2 /\ ~LeavesErr(source) =>
    /\ ~leftover
    /\ Len(places) = Len(source.lines) + 1
    /\ places[at] = bytepos
    /\ Seen(Len(source.lines))
IInv == Types /\ LeftoverExplained /\ ScannerExplained /\ FirstPass /\ SecondPass
--------------------------------------------------------------------------
\* Lines and tokens of a source.
LEMMA SourceParts ==
  ASSUME Types
  PROVE  /\ Len(source.lines) \in Nat /\ DOMAIN source.lines = 1 .. Len(source.lines)
         /\ source.newline \in BOOLEAN
         /\ \A k \in 1 .. Len(source.lines) : source.lines[k] \in SourceLine
  BY SourcesAssumption DEF Types, Source

\* The tokens of a line.
LEMMA LineParts ==
  ASSUME NEW line \in SourceLine
  PROVE  /\ line.tokens \in Seq(Token) /\ line.invalid \in BOOLEAN
         /\ Len(line.tokens) \in Nat /\ DOMAIN line.tokens = 1 .. Len(line.tokens)
         /\ \A i \in DOMAIN line.tokens : line.tokens[i] \in Token
  BY DEF SourceLine

\* A line's tokens have what their type says.
LEMMA TokenParts ==
  ASSUME NEW line \in SourceLine, NEW i \in Int
  PROVE  /\ Type(line.tokens, i) = "NUM" => line.tokens[i].val \in Int
         /\ Type(line.tokens, i) = "INSTR" => line.tokens[i].val \in Instrs
         /\ Type(line.tokens, i) = "IDENT" => line.tokens[i].val \in STRING
<1>1. \A n : \A a, b : n \in a .. b => n \in Int
  OBVIOUS
<1>2. [type : {"NUM"}, val : (-(Modulus \div 2)) .. (Modulus \div 2 - 1)] \subseteq [type : {"NUM"}, val : Int]
  BY <1>1
<1>3. Token \subseteq [type : {"NUM"}, val : Int] \cup [type : {"REG"}, val : RegId] \cup [type : {"INSTR"}, val : Instrs]
                     \cup [type : {"IDENT"}, val : STRING] \cup [type : {"PUNCT"}, val : {"(", ")", ":", ","}]
  BY <1>2 DEF Token
<1> QED
  BY <1>3, LineParts DEF Type

\* Every instruction has a length.
LEMMA InstrLength ==
  ASSUME NEW name \in Instrs, name \notin {".pos", ".align"}
  PROVE  find_instr(name).bytes \in Nat
<1>1. WordBytes \in Nat
  BY SizesAssumption
<1> QED
  BY <1>1 DEF Instrs, find_instr, Entry, Moves, Jumps, Alus, In

\* Two multiples of n that are less than n apart are equal.
LEMMA SameMultiple ==
  ASSUME NEW n \in Nat \ {0}, NEW a \in Int, NEW b \in Int, a % n = 0, b % n = 0, a - b < n, b - a < n
  PROVE  a = b
<1> DEFINE i == a \div n
           j == b \div n
<1>1. i \in Int /\ j \in Int /\ a = n * i /\ b = n * j
  OBVIOUS
<1>2. a - b = n * (i - j)
  BY <1>1
<1> HIDE DEF i, j
<1>3. CASE i - j >= 1
  <2>1. n * (i - j) >= n
    BY <1>1, <1>3
  <2> QED
    BY <1>2, <2>1
<1>4. CASE i - j <= -1
  <2>1. n * (i - j) <= -n
    BY <1>1, <1>4
  <2> QED
    BY <1>2, <2>1
<1> QED
  BY <1>1, <1>3, <1>4

\* What an int can hold.
IsInt(n) == n \in Int /\ -IntModulus <= 2 * n /\ 2 * n < IntModulus

\* An int is left as it is; a sum that is too large for one by less than the number
\* of ints becomes negative.
LEMMA IntOfIs ==
  ASSUME NEW n \in Int
  PROVE  /\ IsInt(IntOf(n))
         /\ IsInt(n) => IntOf(n) = n
         /\ 0 <= n /\ n < IntModulus /\ ~IsInt(n) => IntOf(n) < 0
<1> DEFINE m == IntModulus
           r == n % m
           q == n \div m
<1>1. m \in Nat \ {0}
  BY SourcesAssumption
<1> HIDE DEF m
<1>2. r \in 0 .. (m - 1) /\ q \in Int /\ n = m * q + r
  BY <1>1
<1>3. IntOf(n) = IF 2 * r < m THEN r ELSE r - m
  BY DEF IntOf, Low, m
<1>4. 0 <= n /\ n < m => r = n
  BY <1>1
<1> HIDE DEF r, q
<1>5. ASSUME n < 0, -m <= n PROVE r = n + m
  <2>1. n + m - r = m * (q + 1)
    BY <1>1, <1>2
  <2>2. q + 1 \in Int
    BY <1>2
  <2>3. \A k \in Int : (m * k) % m = 0
    BY <1>1
  <2>4. (n + m - r) % m = 0 /\ 0 % m = 0
    BY <1>1, <2>1, <2>2, <2>3
  <2>5. n + m - r \in Int /\ (n + m - r) - 0 < m /\ 0 - (n + m - r) < m
    BY <1>1, <1>2, <1>5
  <2>6. n + m - r = 0
    BY <1>1, <2>4, <2>5, SameMultiple
  <2> QED
    BY <1>1, <1>2, <2>6
<1> QED
  BY <1>1, <1>2, <1>3, <1>4, <1>5 DEF IsInt, m

\* The number of a directive is an int.
LEMMA NumIsInt == \A ts : ts[Start(ts) + 1].val \in Int => IsInt(NumOf(ts)) /\ NumOf(ts) \in Int
  BY IntOfIs DEF NumOf, IsInt

\* C's division yields a number.
LEMMA QuotientInt == \A a \in Int : \A b \in Nat \ {0} : Quotient(a, b) \in Int
  BY DEF Quotient

\* Rounding towards 0 leaves an int.
LEMMA RoundedIsInt ==
  ASSUME NEW x, IsInt(x), NEW n \in Nat \ {0}
  PROVE  IsInt(Quotient(x, n) * n)
<1>1. ASSUME NEW y \in Nat PROVE (y \div n) \in Int /\ (y \div n) * n \in 0 .. y
  <2> DEFINE q == y \div n
  <2>1. q \in Int /\ y % n \in 0 .. (n - 1) /\ y = n * q + (y % n) /\ q >= 0
    OBVIOUS
  <2> HIDE DEF q
  <2>2. n * q >= 0 /\ n * q = q * n
    BY <2>1
  <2> QED
    BY <2>1, <2>2 DEF q
<1>2. CASE x >= 0
  <2>1. x \in Nat /\ Quotient(x, n) = x \div n
    BY <1>2 DEF Quotient, IsInt
  <2>2. Quotient(x, n) * n \in 0 .. x
    BY <1>1, <2>1
  <2> QED
    BY <2>1, <2>2, SourcesAssumption DEF IsInt
<1>3. CASE x < 0
  <2>1. -x \in Nat /\ Quotient(x, n) = -((-x) \div n)
    BY <1>3 DEF Quotient, IsInt
  <2>2. PICK q \in Int : q = (-x) \div n /\ q * n \in 0 .. (-x)
    BY <1>1, <2>1
  <2>3. Quotient(x, n) * n = -(q * n)
    BY <2>1, <2>2
  <2> QED
    BY <1>3, <2>2, <2>3, SourcesAssumption DEF IsInt
<1> QED
  BY <1>2, <1>3 DEF IsInt

\* A statement begins with the first token, or behind a label.
LEMMA StartInt == \A ts : Start(ts) \in {1, 3}
  BY DEF Start

\* A line is one thing only.
LEMMA Kinds ==
  ASSUME NEW ts
  PROVE  /\ IsPos(ts) => ~IsAlign(ts) /\ ~IsInstr(ts)
         /\ IsAlign(ts) => ~IsInstr(ts)
  BY DEF IsPos, IsAlign, IsInstr

\* Advance leads from an address to an address, and from an int to an int.
LEMMA AdvanceInt ==
  ASSUME NEW line \in SourceLine, NEW ts, ts = line.tokens, NEW pos \in Int
  PROVE  Advance(ts, pos) \in Int /\ (IsInt(pos) => IsInt(Advance(ts, pos)))
<1>1. Start(ts) \in Int /\ Start(ts) + 1 \in Int
  BY StartInt
<1>2. HasNum(ts) => NumOf(ts) \in Int /\ IsInt(NumOf(ts))
  BY <1>1, TokenParts, NumIsInt DEF HasNum
<1>3. HasName(ts) => NameOf(ts) \in Instrs
  BY <1>1, TokenParts DEF HasName, NameOf
<1>4. CASE IsPos(ts) /\ HasNum(ts)
  <2>1. Advance(ts, pos) = NumOf(ts)
    BY <1>4, Kinds DEF Advance
  <2> QED
    BY <1>2, <1>4, <2>1
<1>5. CASE IsAlign(ts) /\ GoodAlign(ts)
  <2>1. Advance(ts, pos) = Aligned(pos, NumOf(ts))
    BY <1>5, Kinds DEF Advance
  <2>2. NumOf(ts) \in Nat \ {0}
    BY <1>2, <1>5 DEF GoodAlign
  <2>3. IsInt(IntOf(pos + NumOf(ts) - 1))
    BY <2>2, IntOfIs
  <2> QED
    BY <2>1, <2>2, <2>3, RoundedIsInt DEF Aligned, IsInt
<1>6. CASE IsInstr(ts)
  <2>1. Advance(ts, pos) = IntOf(pos + find_instr(NameOf(ts)).bytes)
    BY <1>6, Kinds DEF Advance
  <2>2. NameOf(ts) \in Instrs /\ NameOf(ts) \notin {".pos", ".align"}
    BY <1>3, <1>6 DEF IsInstr
  <2>3. find_instr(NameOf(ts)).bytes \in Nat
    BY <2>2, InstrLength
  <2> QED
    BY <2>1, <2>3, IntOfIs DEF IsInt
<1>7. CASE ~(IsPos(ts) /\ HasNum(ts)) /\ ~(IsAlign(ts) /\ GoodAlign(ts)) /\ ~IsInstr(ts)
  BY <1>7 DEF Advance
<1> QED
  BY <1>4, <1>5, <1>6, <1>7

\* Lines without an instruction or a directive stay where they are.
LEMMA StaysPut ==
  ASSUME NEW ts, ~HasName(ts) \/ Refused(ts), NEW pos
  PROVE  Advance(ts, pos) = pos
  BY DEF Advance, Refused, IsPos, IsAlign, IsInstr, HasName, NoColon, Start, Labelled, GoodAlign

\* No two entries are the first of a name.
LEMMA FoundIs ==
  ASSUME NEW table, DOMAIN table \subseteq Nat \ {0}, NEW name, NEW i, Named(table, name, i)
  PROVE  find_symbol(table, name) = table[i].pos
<1>1. \A j : Named(table, name, j) => j = i
  BY DEF Named
<1>2. (CHOOSE j \in DOMAIN table : Named(table, name, j)) = i
  BY <1>1 DEF Named
<1> QED
  BY <1>2 DEF find_symbol, Defined, Named
--------------------------------------------------------------------------
\* What a step on a line does, seen from the invariant: it reads a line in
\* order, it reports an error, or it waits for the newline of the last line.
Recorded ==
  symbol_table' = IF pass = 1 /\ Labelled(TokensAt(at))
                  THEN Append(symbol_table, [name |-> TokensAt(at)[1].val, pos |-> bytepos])
                  ELSE symbol_table
Goal == IF Finished(at) THEN Advance(TokensAt(at), bytepos) ELSE bytepos

Regular ==
  /\ InOrder(at) /\ NextLine(Goal) /\ Recorded
  /\ hit_error => hit_error'
  /\ hit_error' \in BOOLEAN
  /\ UNCHANGED <<scanner, leftover>>
Faulty ==
  /\ InOrder(at) => leftover \/ scanner # "INITIAL"
  /\ hit_error'
  /\ hit_error' \in BOOLEAN /\ leftover' \in BOOLEAN
  /\ scanner' \in {scanner, "INITIAL"}
  /\ NextLine(bytepos)
  /\ Recorded \/ UNCHANGED symbol_table
Waiting ==
  /\ ~Finished(at)
  /\ LeavesErr(source) \/ (leftover' /\ (InOrder(at) => leftover) /\ UNCHANGED scanner)
  /\ leftover' \in BOOLEAN
  /\ NextLine(bytepos)
  /\ UNCHANGED <<symbol_table, hit_error>>

LineNext ==
  Blank \/ Dropped \/ LabelLine \/ BadLine \/ Directive \/ Measure \/ Emit \/ Invalid \/ Swallow \/ Unfinished

\* A line that finish_line reads to its end is in order.
LEMMA Readable ==
  ASSUME NEW line \in SourceLine, NEW ts, ts = line.tokens,
         \/ ts = <<>>
         \/ Labelled(ts) /\ Len(ts) = 2
         \/ GoodDirective(ts)
         \/ IsInstr(ts)
  PROVE  ~Refused(ts)
<1>1. CASE ts = <<>>
  BY <1>1 DEF Refused, NoColon, HasName, IsPos, IsAlign, Type, Start, Labelled
<1>2. CASE Labelled(ts) /\ Len(ts) = 2
  <2>1. DOMAIN ts = 1 .. 2
    BY <1>2, LineParts
  <2> QED
    BY <1>2, <2>1 DEF Refused, NoColon, HasName, IsPos, IsAlign, Type, Start, Labelled
<1>3. CASE GoodDirective(ts)
  BY <1>3, Kinds DEF GoodDirective, Refused, NoColon, HasName, IsPos, IsAlign, Start, Labelled, GoodAlign
<1>4. CASE IsInstr(ts)
  BY <1>4, Kinds DEF IsInstr, Refused, NoColon, HasName, Start, Labelled, IsPos, IsAlign
<1> QED
  BY <1>1, <1>2, <1>3, <1>4

\* A line without tokens and a label alone have no instruction.
LEMMA NoName ==
  ASSUME NEW line \in SourceLine, NEW ts, ts = line.tokens,
         ts = <<>> \/ (Labelled(ts) /\ Len(ts) = 2)
  PROVE  ~HasName(ts)
<1>1. CASE ts = <<>>
  BY <1>1 DEF HasName, Type
<1>2. CASE Labelled(ts) /\ Len(ts) = 2
  <2>1. DOMAIN ts = 1 .. 2
    BY <1>2, LineParts
  <2> QED
    BY <1>2, <2>1 DEF HasName, Type, Start
<1> QED
  BY <1>1, <1>2

\* An empty line has no label.
LEMMA NothingLabelled == \A ts : ts = <<>> => ~Labelled(ts)
  BY DEF Labelled, Type

\* Every step on a line is one of the three.
LEMMA LineEffect ==
  ASSUME Types, LeftoverExplained, ScannerExplained, LineNext
  PROVE  ~AtEof /\ (Regular \/ Faulty \/ Waiting)
<1> DEFINE ts == TokensAt(at)
<1>0. ~AtEof
  BY DEF LineNext, Blank, Dropped, LabelLine, BadLine, Directive, Measure, Emit, Invalid, Swallow, Unfinished, Read
<1>a. at \in 1 .. Len(source.lines)
  <2>1. Len(source.lines) \in Nat
    BY SourceParts DEF Types
  <2>. QED BY <1>0, <2>1 DEF Types, AtEof
<1>1. at \in 1 .. Len(source.lines) /\ Line \in SourceLine /\ ts = Line.tokens
  BY <1>a, SourceParts DEF Types, Line, TokensAt
<1>2. Finished(at) <=> EndsInNewline
  BY DEF Finished, EndsInNewline
<1>3. hit_error \in BOOLEAN /\ leftover \in BOOLEAN
  BY DEF Types
<1>4. CASE Blank
  <2>1. ts = <<>> /\ Finished(at) /\ ~source.lines[at].invalid
    BY <1>1, <1>2, <1>4 DEF Blank, Read, Line
  <2>2. ~Refused(ts) /\ ~HasName(ts)
    BY <1>1, <2>1, Readable, NoName
  <2>3. Goal = bytepos
    BY <2>1, <2>2, StaysPut DEF Goal
  <2> QED
    <3>1. ~Labelled(ts)
      BY <2>1, NothingLabelled
    <3> QED
      BY <1>0, <1>3, <1>4, <2>1, <2>2, <2>3, <3>1 DEF Blank, Regular, InOrder, Recorded
<1>5. CASE Dropped
  <2>1. hit_error
    BY <1>0, <1>5 DEF Dropped, LeftoverExplained
  <2> QED
    BY <1>0, <1>3, <1>5, <2>1 DEF Dropped, Faulty
<1>6. CASE LabelLine
  <2>1. Finished(at) /\ ~source.lines[at].invalid /\ Labelled(ts) /\ Len(ts) = 2
    BY <1>1, <1>2, <1>6 DEF LabelLine, Read, Line
  <2>2. ~Refused(ts) /\ ~HasName(ts)
    BY <1>1, <2>1, Readable, NoName
  <2>3. Goal = bytepos
    BY <2>1, <2>2, StaysPut DEF Goal
  <2> QED
    BY <1>0, <1>1, <1>3, <1>6, <2>1, <2>2, <2>3 DEF LabelLine, Regular, InOrder, Recorded, Define
<1>7. CASE BadLine
  <2>1. Finished(at) /\ Refused(ts)
    BY <1>1, <1>2, <1>7 DEF BadLine, Read
  <2>2. ~InOrder(at)
    BY <2>1 DEF InOrder
  <2> QED
    BY <1>0, <1>1, <1>3, <1>7, <2>2 DEF BadLine, Faulty, fail, Define, Recorded
<1>8. CASE Directive
  <2>1. Finished(at) /\ ~source.lines[at].invalid /\ GoodDirective(ts)
    BY <1>1, <1>2, <1>8 DEF Directive, Read, Line
  <2>2. ~Refused(ts)
    BY <1>1, <2>1, Readable
  <2>3. Goal = Advance(ts, bytepos)
    BY <2>1 DEF Goal
  <2> QED
    BY <1>0, <1>1, <1>3, <1>8, <2>1, <2>2, <2>3 DEF Directive, Regular, InOrder, Recorded, Define
<1>9. CASE Measure \/ Emit
  <2>1. Finished(at) /\ ~source.lines[at].invalid /\ IsInstr(ts)
    BY <1>1, <1>2, <1>9 DEF Measure, Emit, Read, Line
  <2>2. ~Refused(ts)
    BY <1>1, <2>1, Readable
  <2>3. Goal = Advance(ts, bytepos)
    BY <2>1 DEF Goal
  <2>4. Recorded
    BY <1>1, <1>9 DEF Measure, Emit, Define, Recorded
  <2>5. (hit_error => hit_error') /\ hit_error' \in BOOLEAN
    BY <1>3, <1>9 DEF Measure, Emit
  <2> QED
    BY <1>0, <1>1, <1>9, <2>1, <2>2, <2>3, <2>4, <2>5 DEF Measure, Emit, Regular, InOrder
<1>10. CASE Invalid
  <2>1. ~InOrder(at)
    BY <1>2, <1>10 DEF Invalid, InOrder, Line
  <2> QED
    BY <1>0, <1>3, <1>10, <2>1 DEF Invalid, Faulty, fail
<1>11. CASE Swallow
  BY <1>0, <1>3, <1>11 DEF Swallow, Faulty, fail
<1>12. CASE Unfinished
  <2>1. ~Finished(at) /\ at = Len(source.lines) /\ ~source.newline
    BY <1>1, <1>2, <1>12, SourceParts DEF Unfinished, Finished
  <2>2. leftover' \in BOOLEAN /\ NextLine(bytepos) /\ UNCHANGED <<symbol_table, hit_error>>
    BY <1>3, <1>12 DEF Unfinished
  <2>3. CASE LeavesErr(source)
    BY <1>0, <2>1, <2>2, <2>3 DEF Waiting
  <2>4. CASE ~LeavesErr(source)
    <3>1. scanner = "INITIAL" /\ ~Line.invalid
      BY <1>1, <2>1, <2>4, SourceParts DEF LeavesErr, Line, ScannerExplained
    <3>2. UNCHANGED scanner /\ (leftover' <=> leftover \/ ts # <<>>)
      BY <1>1, <1>3, <1>12, <3>1 DEF Unfinished
    <3>3. InOrder(at) <=> ts = <<>>
      BY <2>1 DEF InOrder
    <3>4. CASE leftover'
      BY <1>0, <2>1, <2>2, <3>2, <3>3, <3>4 DEF Waiting
    <3>5. CASE ~leftover'
      <4>1. ts = <<>> /\ ~leftover
        BY <3>2, <3>5
      <4>2. ~Labelled(ts)
        BY <4>1, NothingLabelled
      <4> QED
        BY <1>0, <1>3, <2>1, <2>2, <3>2, <3>3, <3>5, <4>1, <4>2 DEF Regular, Goal, Recorded
    <3> QED
      BY <3>4, <3>5
  <2> QED
    BY <2>3, <2>4
<1> QED
  BY <1>4, <1>5, <1>6, <1>7, <1>8, <1>9, <1>10, <1>11, <1>12 DEF LineNext
\* A step on a line keeps the types.
LEMMA TypesStep ==
  ASSUME Types, ~AtEof, Regular \/ Faulty \/ Waiting
  PROVE  Types'
<1>1. at \in 1 .. Len(source.lines) /\ Len(source.lines) \in Nat /\ source.lines[at] \in SourceLine
  BY SourceParts DEF Types, AtEof
<1>2. Goal \in Int
  BY <1>1, AdvanceInt DEF Goal, TokensAt, Types
<1>3. PICK pos \in Int : NextLine(pos)
  BY <1>2 DEF Types, Regular, Faulty, Waiting
<1>4. source' \in Sources /\ pass' \in {1, 2} /\ at' \in 1 .. (Len(source'.lines) + 1) /\ bytepos' \in Int
  BY <1>1, <1>3 DEF NextLine, Types
<1>5. leftover' \in BOOLEAN /\ hit_error' \in BOOLEAN
  BY DEF Types, Regular, Faulty, Waiting
<1>6. symbol_table' \in Seq([name : STRING, pos : Int])
  <2>1. CASE Recorded /\ pass = 1 /\ Labelled(TokensAt(at))
    <3>1. TokensAt(at)[1].val \in STRING
      BY <1>1, <2>1, TokenParts DEF TokensAt, Labelled
    <3>2. [name |-> TokensAt(at)[1].val, pos |-> bytepos] \in [name : STRING, pos : Int]
      BY <3>1 DEF Types
    <3> QED
      BY <2>1, <3>2 DEF Recorded, Types
  <2>2. CASE UNCHANGED symbol_table
    BY <2>2 DEF Types
  <2> QED
    BY <2>1, <2>2 DEF Recorded, Regular, Faulty, Waiting
<1>7. places' \in Seq(Int)
  BY <1>3 DEF NextLine, Types
<1> QED
  BY <1>4, <1>5, <1>6, <1>7 DEF Types

\* In pass 1 the place of the next line is put behind the others.
LEMMA NextPlaces ==
  ASSUME Types, pass = 1, Len(places) = at, places[1] = 0, NEW pos \in Int, NextLine(pos)
  PROVE  /\ pass' = 1 /\ at' = at + 1 /\ bytepos' = pos
         /\ Len(places') = at' /\ places'[at'] = pos /\ places'[1] = 0
         /\ \A k \in 1 .. at : places'[k] = places[k]
<1>1. at \in Nat \ {0}
  BY SourceParts DEF Types
<1>2. places' = Append(places, pos) /\ places \in Seq(Int) /\ Len(places) = at
  BY DEF NextLine, Types
<1> QED
  BY <1>1, <1>2 DEF NextLine

\* A line that is read in order is one more that pass 1 has seen.
LEMMA SeenGrows ==
  ASSUME Types, ~AtEof, pass = 1, Len(places) = at, places[1] = 0, places[at] = bytepos,
         Seen(at - 1), Regular
  PROVE  Seen(at - 1)'
<1>1. at \in 1 .. Len(source.lines) /\ Len(source.lines) \in Nat /\ source.lines[at] \in SourceLine
  BY SourceParts DEF Types, AtEof
<1>2. Goal \in Int
  BY <1>1, AdvanceInt DEF Goal, TokensAt, Types
<1>3. /\ at' = at + 1 /\ at' - 1 = at /\ source' = source
      /\ places'[at + 1] = Goal /\ \A k \in 1 .. at : places'[k] = places[k]
  BY <1>1, <1>2, NextPlaces DEF Regular, NextLine
<1>4. \A k \in 1 .. at : InOrder(k) /\ places'[k + 1] = Moved(k)'
  <2> SUFFICES ASSUME NEW k \in 1 .. at
               PROVE  InOrder(k) /\ places'[k + 1] = Moved(k)'
    OBVIOUS
  <2>1. Moved(k)' = Moved(k)
    BY <1>3 DEF Moved, Finished, TokensAt
  <2>2. CASE k = at
    BY <1>3, <2>1, <2>2 DEF Moved, Goal, Regular
  <2>3. CASE k # at
    <3>1. k \in 1 .. (at - 1) /\ k + 1 \in 1 .. at
      BY <1>1, <2>3
    <3> QED
      BY <1>3, <2>1, <3>1 DEF Seen
  <2> QED
    BY <2>2, <2>3
<1>5. symbol_table \in Seq([name : STRING, pos : Int])
  BY DEF Types
<1>6. CASE Labelled(TokensAt(at))
  <2> DEFINE new == [name |-> TokensAt(at)[1].val, pos |-> bytepos]
  <2>1. symbol_table' = Append(symbol_table, new)
    BY <1>6 DEF Regular, Recorded
  <2>2. /\ Len(symbol_table) \in Nat /\ DOMAIN symbol_table = 1 .. Len(symbol_table)
        /\ DOMAIN symbol_table' = 1 .. (Len(symbol_table) + 1)
        /\ \A i \in DOMAIN symbol_table : symbol_table'[i] = symbol_table[i]
        /\ symbol_table'[Len(symbol_table) + 1] = new
    <3>1. new \in [name : STRING, pos : Int]
      BY <1>1, <1>6, TokenParts DEF TokensAt, Labelled, Types
    <3> QED
      BY <1>5, <2>1, <3>1
  <2>3. \A i \in DOMAIN symbol_table' : \E k \in 1 .. at :
          Labelled(TokensAt(k)) /\ TokensAt(k)[1].val = symbol_table'[i].name
    <3> SUFFICES ASSUME NEW i \in DOMAIN symbol_table'
                 PROVE  \E k \in 1 .. at : Labelled(TokensAt(k)) /\ TokensAt(k)[1].val = symbol_table'[i].name
      OBVIOUS
    <3>1. CASE i = Len(symbol_table) + 1
      BY <1>1, <1>6, <2>2, <3>1
    <3>2. CASE i # Len(symbol_table) + 1
      <4>1. i \in DOMAIN symbol_table /\ symbol_table'[i] = symbol_table[i]
        BY <2>2, <3>2
      <4>2. PICK k \in 1 .. (at - 1) : Labelled(TokensAt(k)) /\ TokensAt(k)[1].val = symbol_table[i].name
        BY <4>1 DEF Seen
      <4> QED
        BY <1>1, <4>1, <4>2
    <3> QED
      BY <3>1, <3>2
  <2>4. \A k \in 1 .. at : FirstDefinition(k) => FoundAt(k)'
    <3> SUFFICES ASSUME NEW k \in 1 .. at, FirstDefinition(k)
                 PROVE  FoundAt(k)'
      OBVIOUS
    <3>1. CASE k = at
      <4>1. \A i \in DOMAIN symbol_table : symbol_table[i].name # TokensAt(at)[1].val
        <5> SUFFICES ASSUME NEW i \in DOMAIN symbol_table, symbol_table[i].name = TokensAt(at)[1].val
                     PROVE  FALSE
          OBVIOUS
        <5>1. PICK j \in 1 .. (at - 1) : Labelled(TokensAt(j)) /\ TokensAt(j)[1].val = symbol_table[i].name
          BY DEF Seen
        <5> QED
          BY <3>1, <5>1 DEF FirstDefinition, TokensAt
      <4>2. Named(symbol_table', TokensAt(at)[1].val, Len(symbol_table) + 1)
        BY <2>2, <4>1 DEF Named
      <4>3. TokensAt(at)' = source.lines[at'].tokens /\ TokensAt(k)' = TokensAt(at)
        BY <1>3, <3>1 DEF TokensAt
      <4> QED
        BY <1>1, <1>3, <2>2, <3>1, <4>2, <4>3 DEF FoundAt
    <3>2. CASE k # at
      <4>1. k \in 1 .. (at - 1)
        BY <1>1, <3>2
      <4>2. PICK i \in DOMAIN symbol_table :
              Named(symbol_table, TokensAt(k)[1].val, i) /\ symbol_table[i].pos = places[k]
        BY <4>1 DEF Seen, FoundAt
      <4>3. Named(symbol_table', TokensAt(k)[1].val, i)
        BY <2>2, <4>2 DEF Named
      <4>4. TokensAt(k)' = TokensAt(k)
        BY <1>3 DEF TokensAt
      <4> QED
        BY <1>3, <2>2, <4>2, <4>3, <4>4 DEF FoundAt
    <3> QED
      BY <3>1, <3>2
  <2> QED
    BY <1>3, <1>4, <2>3, <2>4 DEF Seen, InOrder, Finished, TokensAt, FirstDefinition
<1>7. CASE ~Labelled(TokensAt(at))
  <2>1. symbol_table' = symbol_table
    BY <1>7 DEF Regular, Recorded
  <2>2. \A i \in DOMAIN symbol_table : \E k \in 1 .. at :
          Labelled(TokensAt(k)) /\ TokensAt(k)[1].val = symbol_table[i].name
    BY <1>1 DEF Seen
  <2>3. \A k \in 1 .. at : FirstDefinition(k) => FoundAt(k)'
    <3> SUFFICES ASSUME NEW k \in 1 .. at, FirstDefinition(k)
                 PROVE  FoundAt(k)'
      OBVIOUS
    <3>1. k \in 1 .. (at - 1)
      BY <1>1, <1>7 DEF FirstDefinition, TokensAt
    <3>2. FoundAt(k)
      BY <3>1 DEF Seen
    <3> QED
      BY <1>3, <2>1, <3>2 DEF FoundAt, TokensAt
  <2> QED
    BY <1>3, <1>4, <2>1, <2>2, <2>3 DEF Seen, InOrder, Finished, TokensAt, FirstDefinition
<1> QED
  BY <1>6, <1>7
\* What has been seen stays seen.
LEMMA SeenStays ==
  ASSUME UNCHANGED <<source, places, symbol_table>>
  PROVE  /\ Seen(Len(source.lines)) => Seen(Len(source.lines))'
         /\ Seen(at - 1) /\ at' = at => Seen(at - 1)'
BY DEF Seen, InOrder, Moved, Finished, TokensAt, FirstDefinition, FoundAt

\* A line is passed.
LEMMA LineStep ==
  ASSUME IInv, LineNext
  PROVE  IInv'
<1>1. ~AtEof /\ (Regular \/ Faulty \/ Waiting)
  BY LineEffect DEF IInv
<1>2. at \in 1 .. Len(source.lines) /\ Len(source.lines) \in Nat /\ source.lines[at] \in SourceLine
  BY <1>1, SourceParts DEF IInv, Types, AtEof
<1>3. Goal \in Int /\ bytepos \in Int
  BY <1>2, AdvanceInt DEF Goal, TokensAt, IInv, Types
<1>4. source' = source /\ pass' = pass /\ at' = at + 1
  BY <1>1 DEF Regular, Faulty, Waiting, NextLine
<1>5. Types'
  BY <1>1, TypesStep DEF IInv
<1>6. LeftoverExplained'
  <2>1. CASE Waiting
    BY <1>2, <1>4, <2>1, SourceParts DEF Waiting, Finished, LeftoverExplained, AtEof, IInv
  <2> QED
    BY <1>1, <2>1 DEF Regular, Faulty, LeftoverExplained, IInv
<1>7. ScannerExplained'
  BY <1>1, <1>4 DEF ScannerExplained, Regular, Faulty, Waiting, IInv
<1>8. FirstPass'
  <2> SUFFICES ASSUME pass' = 1
               PROVE  /\ Len(places') = at' /\ places'[at'] = bytepos' /\ places'[1] = 0
                      /\ ~LeavesErr(source') /\ ~hit_error' /\ ~leftover' => Seen(at - 1)'
    BY DEF FirstPass
  <2>1. pass = 1 /\ Types /\ Len(places) = at /\ places[at] = bytepos /\ places[1] = 0
    BY <1>4 DEF FirstPass, IInv
  <2>2. PICK pos \in Int : NextLine(pos)
    BY <1>1, <1>3 DEF Regular, Faulty, Waiting
  <2>3. Len(places') = at' /\ places'[at'] = bytepos' /\ places'[1] = 0
    BY <2>1, <2>2, NextPlaces
  <2>4. ASSUME ~LeavesErr(source'), ~hit_error', ~leftover'
        PROVE  Seen(at - 1)'
    <3>1. Regular
      BY <1>1, <1>4, <2>4 DEF Faulty, Waiting
    <3>2. ~hit_error /\ ~leftover
      BY <2>4, <3>1 DEF Regular
    <3>3. Seen(at - 1)
      BY <1>4, <2>1, <2>4, <3>2 DEF FirstPass, IInv
    <3> QED
      BY <1>1, <2>1, <3>1, <3>3, SeenGrows
  <2> QED
    BY <2>3, <2>4
<1>9. SecondPass'
  <2> SUFFICES ASSUME pass' = 2, ~LeavesErr(source')
               PROVE  /\ ~leftover'
                      /\ Len(places') = Len(source'.lines) + 1
                      /\ places'[at'] = bytepos'
                      /\ Seen(Len(source.lines))'
    BY DEF SecondPass
  <2>1. /\ pass = 2 /\ ~LeavesErr(source) /\ ~leftover /\ scanner = "INITIAL"
        /\ Len(places) = Len(source.lines) + 1 /\ places[at] = bytepos
        /\ Seen(Len(source.lines))
    BY <1>4 DEF SecondPass, ScannerExplained, IInv
  <2>2. InOrder(at) /\ places[at + 1] = Moved(at)
    BY <1>2, <2>1 DEF Seen
  <2>3. Regular
    BY <1>1, <2>1, <2>2 DEF Faulty, Waiting
  <2>4. Goal = Moved(at)
    BY <2>1 DEF Goal, Moved
  <2>5. UNCHANGED <<source, places, symbol_table>>
    BY <2>1, <2>3 DEF Regular, NextLine, Recorded
  <2>6. Seen(Len(source.lines))'
    BY <2>1, <2>5, SeenStays
  <2> QED
    BY <1>4, <2>1, <2>2, <2>3, <2>4, <2>5, <2>6 DEF Regular, NextLine
<1> QED
  BY <1>5, <1>6, <1>7, <1>8, <1>9 DEF IInv

\* A pass ends.  Pass 2 begins only if pass 1 has seen all lines in order.
LEMMA EndStep ==
  ASSUME IInv, EndOfPass
  PROVE  IInv'
<1>1. /\ UNCHANGED <<source, scanner, leftover, symbol_table, places>>
      /\ hit_error' = (hit_error \/ leftover)
      /\ AtEof
  BY DEF EndOfPass
<1>2. Len(source.lines) \in Nat /\ at = Len(source.lines) + 1 /\ Types
  BY <1>1, SourceParts DEF IInv, Types, AtEof
<1>3. LeftoverExplained' /\ ScannerExplained'
  BY <1>1 DEF LeftoverExplained, ScannerExplained, IInv
<1>4. CASE pass = 1 /\ ~hit_error'
  <2>1. pass' = 2 /\ at' = 1 /\ bytepos' = 0
    BY <1>4 DEF EndOfPass
  <2>2. ~hit_error /\ ~leftover
    BY <1>1, <1>4
  <2>3. Types'
    BY <1>1, <1>2, <2>1 DEF Types
  <2>4. /\ Len(places) = Len(source.lines) + 1 /\ places[1] = 0
        /\ ~LeavesErr(source) => Seen(Len(source.lines))
    BY <1>2, <1>4, <2>2 DEF FirstPass, IInv
  <2>5. ~LeavesErr(source) => Seen(Len(source.lines))'
    BY <1>1, <2>4, SeenStays
  <2>6. FirstPass' /\ SecondPass'
    BY <1>1, <2>1, <2>2, <2>4, <2>5 DEF FirstPass, SecondPass
  <2> QED
    BY <1>3, <2>3, <2>6 DEF IInv
<1>5. CASE ~(pass = 1 /\ ~hit_error')
  <2>1. UNCHANGED <<pass, at, bytepos>>
    BY <1>5 DEF EndOfPass
  <2>2. Types'
    BY <1>1, <1>2, <2>1 DEF Types
  <2>3. FirstPass'
    BY <1>1, <1>5, <2>1 DEF FirstPass, IInv
  <2>4. SecondPass'
    BY <1>1, <2>1, SeenStays DEF SecondPass, IInv
  <2> QED
    BY <1>3, <2>2, <2>3, <2>4 DEF IInv
<1> QED
  BY <1>4, <1>5

\* A step that changes nothing keeps the invariant.
LEMMA StutterStep ==
  ASSUME IInv, UNCHANGED vars
  PROVE  IInv'
<1>1. FirstPass' /\ SecondPass'
  BY SeenStays DEF FirstPass, SecondPass, IInv, vars
<1> QED
  BY <1>1 DEF IInv, Types, LeftoverExplained, ScannerExplained, AtEof, vars

\* The invariant holds before the first line.
LEMMA InitStep ==
  ASSUME Init
  PROVE  IInv
<1>1. source \in Sources /\ source \in Source
  BY SourcesAssumption DEF Init
<1>2. Types
  <2>1. at \in 1 .. (Len(source.lines) + 1)
    BY <1>1 DEF Init, Source
  <2>2. symbol_table \in Seq([name : STRING, pos : Int]) /\ places \in Seq(Int)
    BY DEF Init
  <2>3. pass \in {1, 2} /\ bytepos \in Int
    BY DEF Init
  <2>4. leftover \in BOOLEAN
    BY Zenon DEF Init
  <2>5. hit_error \in BOOLEAN
    BY Zenon DEF Init
  <2> QED
    BY <1>1, <2>1, <2>2, <2>3, <2>4, <2>5 DEF Types
<1>3. Seen(at - 1)
  BY DEF Init, Seen
<1> QED
  BY <1>2, <1>3 DEF Init, IInv, LeftoverExplained, ScannerExplained, FirstPass, SecondPass
--------------------------------------------------------------------------
\* The invariant that the two theorems rest on: in pass 1 without errors every
\* line so far was in order and has moved the place of the next one by Advance,
\* and pass 2 walks along the same places.
THEOREM Invariance == Spec => []IInv
<1>1. Init => IInv
  BY InitStep
<1>2. IInv /\ [Next]_vars => IInv'
  BY LineStep, EndStep, StutterStep DEF Next, LineNext
<1> QED
  BY <1>1, <1>2, PTL DEF Spec

\* Pass 2 finds every line where pass 1 has found it, whatever the source, if
\* it does not end in a comment without newline (yas.c, main and finish_line).
THEOREM PassesAlwaysAgree == Spec => []PassesAgree
<1>1. IInv => PassesAgree
  BY DEF IInv, SecondPass, PassesAgree
<1> QED
  BY <1>1, Invariance, PTL

\* When pass 2 comes to the first definition of a label, the table gives the
\* place where the line is now (yas.c, add_symbol and find_symbol).
THEOREM LabelsAlwaysAgree == Spec => []LabelsAgree
<1>1. IInv => LabelsAgree
  <2> SUFFICES ASSUME IInv, pass = 2, ~LeavesErr(source), ~AtEof, FirstDefinition(at)
               PROVE  find_symbol(symbol_table, Line.tokens[1].val) = bytepos
    BY DEF LabelsAgree
  <2>1. at \in 1 .. Len(source.lines)
    BY SourceParts DEF IInv, Types, AtEof
  <2>2. Seen(Len(source.lines)) /\ places[at] = bytepos
    BY DEF IInv, SecondPass
  <2>3. PICK i \in DOMAIN symbol_table :
          Named(symbol_table, TokensAt(at)[1].val, i) /\ symbol_table[i].pos = places[at]
    BY <2>1, <2>2 DEF Seen, FoundAt
  <2>4. DOMAIN symbol_table \subseteq Nat \ {0}
    BY DEF IInv, Types
  <2>5. find_symbol(symbol_table, TokensAt(at)[1].val) = symbol_table[i].pos
    BY <2>3, <2>4, FoundIs
  <2> QED
    BY <2>2, <2>3, <2>5 DEF Line, TokensAt
<1> QED
  BY <1>1, Invariance, PTL
--------------------------------------------------------------------------
\* .align: the rounding in C is to the next multiple.

\* The rounding of .align is the first multiple after the place, as it is meant.
LEMMA AlignedIsNext ==
  ASSUME NEW pos, IsInt(pos), NEW n, IsInt(n), n > 0
  PROVE  NextMultiple(pos, n) = Aligned(pos, n)
<1> DEFINE up == IntOf(pos + n - 1)
           least == IF up < 0 THEN up ELSE pos
           a == Aligned(pos, n)
<1>0. /\ pos \in Int /\ n \in Nat \ {0} /\ up \in Int
      /\ up >= 0 => up = pos + n - 1
  <2>1. pos \in Int /\ n \in Nat \ {0} /\ pos + n - 1 \in Int
    BY DEF IsInt
  <2>2. pos + n - 1 < IntModulus
    BY <2>1, SourcesAssumption DEF IsInt
  <2>3. CASE pos + n - 1 >= 0
    BY <2>1, <2>2, <2>3, IntOfIs DEF IsInt
  <2>4. CASE pos + n - 1 < 0
    <3>1. IsInt(pos + n - 1)
      BY <2>1, <2>4, SourcesAssumption DEF IsInt
    <3> QED
      BY <2>1, <3>1, IntOfIs
  <2> QED
    BY <2>1, <2>3, <2>4
<1>a. a = Quotient(up, n) * n /\ NextMultiple(pos, n) = CHOOSE b \in least .. (least + n - 1) : b % n = 0
  BY DEF Aligned, NextMultiple
<1> HIDE DEF up
<1>1. a \in Int /\ a % n = 0 /\ least <= a /\ a <= least + n - 1
  <2>1. CASE up >= 0
    <3> DEFINE q == up \div n
    <3>1. q \in Int /\ up % n \in 0 .. (n - 1) /\ up = n * q + (up % n)
      BY <1>0, <2>1
    <3>2. a = q * n
      BY <1>a, <2>1 DEF Quotient
    <3> HIDE DEF q
    <3>3. (q * n) % n = 0
      <4>1. \A m \in Int : (m * n) % n = 0
        BY <1>0
      <4> QED
        BY <3>1, <4>1
    <3> QED
      BY <1>0, <2>1, <3>1, <3>2, <3>3
  <2>2. CASE up < 0
    <3> DEFINE q == (-up) \div n
    <3>1. q \in Int /\ (-up) % n \in 0 .. (n - 1) /\ -up = n * q + ((-up) % n)
      BY <1>0, <2>2
    <3>2. a = (-q) * n
      <4>1. ~(up >= 0)
        BY <1>0, <2>2
      <4>2. Quotient(up, n) = -q
        BY <4>1 DEF Quotient
      <4> HIDE DEF q, a
      <4> QED
        BY <1>a, <4>2
    <3> HIDE DEF q
    <3>3. -q \in Int /\ (-q) * n = -(n * q)
      BY <1>0, <3>1
    <3>4. \A m \in Int : (m * n) % n = 0
      BY <1>0
    <3>5. ((-q) * n) % n = 0
      BY <3>3, <3>4
    <3> QED
      BY <1>0, <2>2, <3>1, <3>2, <3>3, <3>5
  <2> QED
    BY <1>0, <2>1, <2>2
<1>2. least \in Int /\ a \in least .. (least + n - 1)
  BY <1>0, <1>1
<1> HIDE DEF a
<1>3. \A b \in least .. (least + n - 1) : b % n = 0 => b = a
  <2> SUFFICES ASSUME NEW b \in least .. (least + n - 1), b % n = 0 PROVE b = a
    OBVIOUS
  <2>1. b \in Int /\ a - b < n /\ b - a < n
    BY <1>0, <1>2
  <2> QED
    BY <1>0, <1>1, <2>1, SameMultiple
<1>4. (CHOOSE b \in least .. (least + n - 1) : b % n = 0) = a
  BY <1>1, <1>2, <1>3
<1> QED
  BY <1>4, <1>a DEF a
--------------------------------------------------------------------------
\* Statements and the tokens they are made of.

\* The statement of a line is what comes behind its label.
LEMMA StatementParts ==
  ASSUME NEW line \in SourceLine, NEW ts, ts = line.tokens, NEW st, st = Statement(ts), Start(ts) <= Len(ts)
  PROVE  /\ Len(st) = Len(ts) - Start(ts) + 1 /\ Len(st) \in Nat /\ DOMAIN st = 1 .. Len(st)
         /\ \A i \in 1 .. Len(st) : st[i] \in Token /\ st[i] = ts[Start(ts) + i - 1]
<1>1. Start(ts) \in {1, 3}
  BY StartInt
<1>2. ts \in Seq(Token) /\ Len(ts) \in Nat
  BY LineParts
<1>3. st \in Seq(Token)
  BY <1>1, <1>2 DEF Statement
<1>4. Len(st) = Len(ts) - Start(ts) + 1
  BY <1>1, <1>2 DEF Statement
<1>5. \A i \in 1 .. Len(st) : st[i] = ts[Start(ts) + i - 1]
  BY <1>1, <1>2, <1>4 DEF Statement
<1> QED
  BY <1>3, <1>4, <1>5

\* Tokens of the statement are those of the line.
LEMMA StatementTokens ==
  ASSUME NEW line \in SourceLine, NEW ts, ts = line.tokens, NEW st, st = Statement(ts), Start(ts) <= Len(ts),
         NEW i \in Nat \ {0}
  PROVE  /\ Type(st, i) = Type(ts, Start(ts) + i - 1)
         /\ i \in DOMAIN st <=> Start(ts) + i - 1 \in DOMAIN ts
         /\ i \in DOMAIN st => st[i] = ts[Start(ts) + i - 1]
<1>1. Start(ts) \in {1, 3} /\ Len(ts) \in Nat /\ DOMAIN ts = 1 .. Len(ts)
  BY StartInt, LineParts
<1>2. /\ DOMAIN st = 1 .. (Len(ts) - Start(ts) + 1)
      /\ \A j \in DOMAIN st : st[j] = ts[Start(ts) + j - 1]
  BY StatementParts
<1>3. i \in DOMAIN st <=> Start(ts) + i - 1 \in DOMAIN ts
  BY <1>1, <1>2
<1> QED
  BY <1>2, <1>3 DEF Type

\* Of a line without a statement nothing is left.
LEMMA NoStatement ==
  ASSUME NEW line \in SourceLine, NEW ts, ts = line.tokens
  PROVE  Statement(ts) = <<>> <=> Start(ts) > Len(ts)
<1>1. Start(ts) \in {1, 3} /\ Len(ts) \in Nat /\ DOMAIN ts = 1 .. Len(ts) /\ ts \in Seq(Token)
  BY StartInt, LineParts
<1>2. CASE Start(ts) <= Len(ts)
  BY <1>1, <1>2, StatementParts
<1>3. CASE Start(ts) > Len(ts)
  BY <1>1, <1>3 DEF Statement
<1> QED
  BY <1>1, <1>2, <1>3
--------------------------------------------------------------------------
\* The parser's record, and what the three kinds of arguments do to it.
Parsing(p) == DOMAIN p = {"code", "tpos", "ok", "printed"} /\ p.tpos \in Nat \ {0} /\ p.ok \in BOOLEAN

\* A register is read from a token, a REG.
LEMMA RegRead ==
  ASSUME NEW p, Parsing(p), NEW ts, NEW arg, NEW q, q = get_reg(p, ts, arg)
  PROVE  /\ Parsing(q) /\ q.printed = p.printed
         /\ q.ok <=> p.ok /\ Type(ts, p.tpos) = "REG"
         /\ Type(ts, p.tpos) = "REG" => q.tpos = p.tpos + 1
<1>1. CASE Type(ts, p.tpos) # "REG"
  BY <1>1 DEF get_reg, Failed, Parsing
<1>2. CASE Type(ts, p.tpos) = "REG"
  <2> DEFINE bytes == [p.code EXCEPT ![arg.pos] = IF arg.hi THEN Hpack(ts[p.tpos].val, Lo4(@)) ELSE Hpack(Hi4(@), ts[p.tpos].val)]
  <2>1. q = [p EXCEPT !.code = bytes, !.tpos = @ + 1]
    BY <1>2 DEF get_reg, Parsing
  <2> HIDE DEF bytes
  <2> QED
    BY <1>2, <2>1 DEF Parsing
<1> QED
  BY <1>1, <1>2

\* A number is read from a number or a label; the label has to be known.
LEMMA NumRead ==
  ASSUME NEW p, Parsing(p), NEW ts, NEW table, NEW arg, NEW q, q = get_num(p, ts, table, arg)
  PROVE  /\ Parsing(q) /\ q.printed = p.printed
         /\ q.ok <=> p.ok /\ IsValue(ts, p.tpos) /\ ~Missing(table, ts[p.tpos])
         /\ IsValue(ts, p.tpos) => q.tpos = p.tpos + 1
<1>1. CASE ~IsValue(ts, p.tpos)
  BY <1>1 DEF get_num, Failed, Parsing
<1>2. CASE IsValue(ts, p.tpos)
  <2> DEFINE bytes == WithNumber(p.code, arg.pos, arg.n, Value(table, ts[p.tpos]))
             lost == Missing(table, ts[p.tpos])
  <2>1. q = [p EXCEPT !.code = bytes, !.ok = @ /\ ~lost, !.tpos = @ + 1]
    BY <1>2 DEF get_num, Parsing
  <2> HIDE DEF bytes, lost
  <2>2. q.printed = p.printed /\ q.tpos = p.tpos + 1 /\ DOMAIN q = DOMAIN p /\ q.ok = (p.ok /\ ~lost)
    BY <2>1 DEF Parsing
  <2>3. q.ok \in BOOLEAN
    BY <2>2
  <2>4. q.ok <=> p.ok /\ ~lost
    BY <2>2, Zenon
  <2>5. Parsing(q)
    BY <2>2, <2>3 DEF Parsing
  <2> QED
    BY <1>2, <2>2, <2>4, <2>5 DEF lost
<1> QED
  BY <1>1, <1>2

\* A memory reference at i: where its base is, whether all is well, where it ends.
BaseAt(ts, i) == IF IsValue(ts, i) THEN i + 1 ELSE i
MemoryOk(ts, table, i) ==
  /\ IsValue(ts, i) => ~Missing(table, ts[i])
  /\ Is(ts, BaseAt(ts, i), "(") => Type(ts, BaseAt(ts, i) + 1) = "REG" /\ Is(ts, BaseAt(ts, i) + 2, ")")
MemoryEnd(ts, i) == IF Is(ts, BaseAt(ts, i), "(") THEN BaseAt(ts, i) + 3 ELSE BaseAt(ts, i)

\* A memory reference ends behind its base register, or behind its displacement.
LEMMA MemRead ==
  ASSUME NEW p, Parsing(p), NEW ts, NEW table, NEW arg, NEW q, q = get_mem(p, ts, table, arg)
  PROVE  /\ Parsing(q) /\ q.printed = p.printed
         /\ q.ok <=> p.ok /\ MemoryOk(ts, table, p.tpos)
         /\ q.ok => q.tpos = MemoryEnd(ts, p.tpos)
<1> DEFINE disp == IsValue(ts, p.tpos)
           r    == IF disp THEN p.tpos + 1 ELSE p.tpos
           base == Is(ts, r, "(")
           p1   == [p EXCEPT !.ok = @ /\ ~(disp /\ Missing(table, ts[p.tpos]))]
           val  == IF disp THEN Value(table, ts[p.tpos]) ELSE 0
           Coded(id) == WithNumber(WithLow(p1.code, arg.pos, id), arg.pos + 1, WordBytes, val)
           known == ~(disp /\ Missing(table, ts[p.tpos]))
           reg == Type(ts, r + 1) = "REG"
           closed == Is(ts, r + 2, ")")
<1>0. r = BaseAt(ts, p.tpos) /\ r \in Nat \ {0} /\ r + 1 \in Nat \ {0} /\ r + 2 \in Nat \ {0} /\ r + 3 \in Nat \ {0}
  BY DEF BaseAt, Parsing
<1>1. /\ DOMAIN p1 = DOMAIN p /\ p1.printed = p.printed /\ p1.tpos = p.tpos /\ p1.code = p.code
      /\ p1.ok = (p.ok /\ known)
  BY DEF Parsing
<1>2. Parsing(p1) /\ (p1.ok <=> p.ok /\ known)
  <2>1. p1.ok \in BOOLEAN
    BY <1>1
  <2> HIDE DEF p1, known
  <2> QED
    BY <1>1, <2>1 DEF Parsing
<1>3. /\ ~base => q = [p1 EXCEPT !.code = Coded(REG_NONE), !.tpos = r]
      /\ base /\ ~reg => q = [Failed(p1) EXCEPT !.tpos = r + 1]
      /\ base /\ reg /\ closed => q = [p1 EXCEPT !.code = Coded(ts[r + 1].val), !.tpos = r + 3]
      /\ base /\ reg /\ ~closed => q = [Failed(p1) EXCEPT !.tpos = IF Type(ts, r + 2) = "PUNCT" THEN r + 3 ELSE r + 2]
  <2>1. CASE ~base
    BY <2>1 DEF get_mem
  <2>2. CASE base /\ ~reg
    BY <2>2 DEF get_mem
  <2>3. CASE base /\ reg /\ closed
    BY <2>3 DEF get_mem
  <2>4. CASE base /\ reg /\ ~closed
    BY <2>4 DEF get_mem
  <2> QED
    BY <2>1, <2>2, <2>3, <2>4
<1>4. MemoryOk(ts, table, p.tpos) <=> known /\ (base => reg /\ closed)
  BY <1>0 DEF MemoryOk
<1>5. MemoryEnd(ts, p.tpos) = IF base THEN r + 3 ELSE r
  BY <1>0 DEF MemoryEnd
<1> HIDE DEF r, base, p1, Bytes, known, reg, closed
<1>6. CASE ~base
  <2>1. q = [p1 EXCEPT !.code = Coded(REG_NONE), !.tpos = r]
    BY <1>3, <1>6
  <2> QED
    BY <1>0, <1>1, <1>2, <1>4, <1>5, <1>6, <2>1 DEF Parsing
<1>7. CASE base /\ ~reg
  <2>1. q = [Failed(p1) EXCEPT !.tpos = r + 1]
    BY <1>3, <1>7
  <2> QED
    BY <1>0, <1>1, <1>2, <1>4, <1>5, <1>7, <2>1 DEF Parsing, Failed
<1>8. CASE base /\ reg /\ closed
  <2>1. q = [p1 EXCEPT !.code = Coded(ts[r + 1].val), !.tpos = r + 3]
    BY <1>3, <1>8
  <2> QED
    BY <1>0, <1>1, <1>2, <1>4, <1>5, <1>8, <2>1 DEF Parsing
<1>9. CASE base /\ reg /\ ~closed
  <2>1. q = [Failed(p1) EXCEPT !.tpos = IF Type(ts, r + 2) = "PUNCT" THEN r + 3 ELSE r + 2]
    BY <1>3, <1>9
  <2> QED
    BY <1>0, <1>1, <1>2, <1>4, <1>5, <1>9, <2>1 DEF Parsing, Failed
<1> QED
  BY <1>6, <1>7, <1>8, <1>9
--------------------------------------------------------------------------
\* What the parser takes, for each kind of instruction.

\* The instructions by their operands.
Nullary == {"halt", "nop", "ret"}
OneReg == {"pushq", "popq"}
TwoRegs == {"rrmovq", "cmovle", "cmovl", "cmove", "cmovne", "cmovge", "cmovg", "addq", "subq", "andq", "xorq"}
OneValue == {"jmp", "jle", "jl", "je", "jne", "jge", "jg", "call", ".byte", ".word", ".long", ".quad"}
ValueReg == {"irmovq", "iaddq", "jm"}

\* Every instruction is of one of these kinds.
LEMMA Operations ==
  /\ Instrs \ {".pos", ".align"} = Nullary \cup OneReg \cup TwoRegs \cup OneValue \cup ValueReg \cup {"rmmovq", "mrmovq"}
  /\ \A name : In(Moves, name) <=> name \in {"cmovle", "cmovl", "cmove", "cmovne", "cmovge", "cmovg"}
  /\ \A name : In(Jumps, name) <=> name \in {"jle", "jl", "je", "jne", "jge", "jg"}
  /\ \A name : In(Alus, name) <=> name \in {"addq", "subq", "andq", "xorq"}
<1>1. {Moves[i] : i \in 1 .. 6} = {"cmovle", "cmovl", "cmove", "cmovne", "cmovge", "cmovg"}
  BY DEF Moves
<1>2. {Jumps[i] : i \in 1 .. 6} = {"jle", "jl", "je", "jne", "jge", "jg"}
  BY DEF Jumps
<1>3. {Alus[i] : i \in 1 .. 4} = {"addq", "subq", "andq", "xorq"}
  BY DEF Alus
<1>4. DOMAIN Moves = 1 .. 6 /\ DOMAIN Jumps = 1 .. 6 /\ DOMAIN Alus = 1 .. 4
  BY DEF Moves, Jumps, Alus
<1>5. \A name : In(Moves, name) <=> name \in {Moves[i] : i \in 1 .. 6}
  BY <1>4 DEF In
<1>6. \A name : In(Jumps, name) <=> name \in {Jumps[i] : i \in 1 .. 6}
  BY <1>4 DEF In
<1>7. \A name : In(Alus, name) <=> name \in {Alus[i] : i \in 1 .. 4}
  BY <1>4 DEF In
<1>8. Instrs \ {".pos", ".align"} = Nullary \cup OneReg \cup TwoRegs \cup OneValue \cup ValueReg \cup {"rmmovq", "mrmovq"}
  BY <1>1, <1>2, <1>3 DEF Instrs, Nullary, OneReg, TwoRegs, OneValue, ValueReg
<1> QED
  BY <1>1, <1>2, <1>3, <1>5, <1>6, <1>7, <1>8

\* What the table says of the operands of each.
LEMMA TableSays ==
  ASSUME NEW name
  PROVE  /\ name \in Nullary => find_instr(name).args = <<>>
         /\ name \in OneReg => \E a : find_instr(name).args = <<a>> /\ a.kind = "R"
         /\ name \in TwoRegs => find_instr(name).args = BothRegs
         /\ name \in OneValue => \E a : find_instr(name).args = <<a>> /\ a.kind = "I"
         /\ name \in ValueReg => find_instr(name).args = Immediate
         /\ name = "rmmovq" => find_instr(name).args = <<R_ARG(1, TRUE), M_ARG(1)>>
         /\ name = "mrmovq" => find_instr(name).args = <<M_ARG(1), R_ARG(1, TRUE)>>
<1>1. CASE name \in Nullary
  BY <1>1, Operations DEF find_instr, Entry, Nullary, OneReg, TwoRegs, OneValue, ValueReg
<1>2. CASE name \in OneReg
  <2>1. find_instr(name).args = <<R_ARG(1, TRUE)>>
    BY <1>2, Operations DEF find_instr, Entry, OneReg
  <2> QED
    BY <1>2, <2>1 DEF R_ARG, Nullary, OneReg, TwoRegs, OneValue, ValueReg
<1>3. CASE name \in TwoRegs
  BY <1>3, Operations DEF find_instr, Entry, Nullary, OneReg, TwoRegs, OneValue, ValueReg
<1>4. CASE name \in OneValue
  <2>1. \E pos, n : find_instr(name).args = <<I_ARG(pos, n)>>
    <3>1. CASE name = ".byte"
      BY <3>1, Operations DEF find_instr, Entry
    <3>2. CASE name = ".word"
      BY <3>2, Operations DEF find_instr, Entry
    <3>3. CASE name = ".long"
      BY <3>3, Operations DEF find_instr, Entry
    <3>4. CASE name = ".quad"
      BY <3>4, Operations DEF find_instr, Entry
    <3>5. CASE name = "jmp" \/ name = "call" \/ In(Jumps, name)
      BY <3>5, Operations DEF find_instr, Entry, Target
    <3> QED
      BY <1>4, <3>1, <3>2, <3>3, <3>4, <3>5, Operations DEF OneValue
  <2> QED
    BY <1>4, <2>1 DEF I_ARG, Nullary, OneReg, TwoRegs, OneValue, ValueReg
<1>5. CASE name \in ValueReg
  BY <1>5, Operations DEF find_instr, Entry, Nullary, OneReg, TwoRegs, OneValue, ValueReg
<1>6. CASE name = "rmmovq"
  BY <1>6, Operations DEF find_instr, Entry, Nullary, OneReg, TwoRegs, OneValue, ValueReg
<1>7. CASE name = "mrmovq"
  BY <1>7, Operations DEF find_instr, Entry, Nullary, OneReg, TwoRegs, OneValue, ValueReg
<1> QED
  BY <1>1, <1>2, <1>3, <1>4, <1>5, <1>6, <1>7

\* What the parser accepts behind the name at i.
CommaAt(ts, i) == Is(ts, i, ",")
IsReg(ts, i) == Type(ts, i) = "REG"
IsKnown(ts, table, i) == IsValue(ts, i) /\ ~Missing(table, ts[i])
Accepts(ts, i, table) ==
  LET name == ts[i].val
  IN  /\ name \in OneReg \cup TwoRegs \cup {"rmmovq"} => IsReg(ts, i + 1)
      /\ name \in TwoRegs \cup ValueReg \cup {"rmmovq"} => CommaAt(ts, i + 2)
      /\ name \in TwoRegs \cup ValueReg => IsReg(ts, i + 3)
      /\ name \in OneValue \cup ValueReg => IsKnown(ts, table, i + 1)
      /\ name = "rmmovq" => MemoryOk(ts, table, i + 3)
      /\ name = "mrmovq" => /\ MemoryOk(ts, table, i + 1)
                            /\ CommaAt(ts, MemoryEnd(ts, i + 1))
                            /\ IsReg(ts, MemoryEnd(ts, i + 1) + 1)

\* Operands of the three kinds, and what the parser does between them.
LEMMA RegArgument ==
  ASSUME NEW p, Parsing(p), NEW ts, NEW table, NEW arg, arg.kind = "R", NEW q, q = Argument(p, ts, table, arg)
  PROVE  /\ Parsing(q) /\ q.printed = p.printed
         /\ q.ok <=> p.ok /\ IsReg(ts, p.tpos)
         /\ q.ok => q.tpos = p.tpos + 1
<1>1. q = get_reg(p, ts, arg)
  BY DEF Argument
<1> QED
  BY <1>1, RegRead DEF IsReg

\* The same for an argument that is a number.
LEMMA NumArgument ==
  ASSUME NEW p, Parsing(p), NEW ts, NEW table, NEW arg, arg.kind = "I", NEW q, q = Argument(p, ts, table, arg)
  PROVE  /\ Parsing(q) /\ q.printed = p.printed
         /\ q.ok <=> p.ok /\ IsKnown(ts, table, p.tpos)
         /\ q.ok => q.tpos = p.tpos + 1
<1>1. q = get_num(p, ts, table, arg)
  BY DEF Argument
<1> QED
  BY <1>1, NumRead DEF IsKnown

\* The same for a memory reference.
LEMMA MemArgument ==
  ASSUME NEW p, Parsing(p), NEW ts, NEW table, NEW arg, arg.kind = "M", NEW q, q = Argument(p, ts, table, arg)
  PROVE  /\ Parsing(q) /\ q.printed = p.printed
         /\ q.ok <=> p.ok /\ MemoryOk(ts, table, p.tpos)
         /\ q.ok => q.tpos = MemoryEnd(ts, p.tpos)
<1>1. q = get_mem(p, ts, table, arg)
  BY DEF Argument
<1> QED
  BY <1>1, MemRead

\* The parser begins without an error, and a comma is one token.
LEMMA Commas ==
  /\ \A instr, old : \A i \in Nat \ {0} :
       LET p == Begun(instr, i, old) IN Parsing(p) /\ p.ok = TRUE /\ p.printed = TRUE /\ p.tpos = i + 1
  /\ \A p : Parsing(p) => Parsing(PastComma(p)) /\ PastComma(p).ok = p.ok /\ PastComma(p).printed = p.printed
                          /\ PastComma(p).tpos = p.tpos + 1
  /\ \A p : Parsing(p) => NoComma(p).ok = FALSE
BY DEF Parsing, Begun, PastComma, NoComma

\* The parser is through with an instruction.
LEMMA AssembledParts ==
  ASSUME NEW ts, NEW i, NEW table, NEW old, NEW args, args = find_instr(ts[i].val).args,
         NEW p1, p1 = FirstArgument(Begun(find_instr(ts[i].val), i, old), ts, table, args)
  PROVE  /\ Len(args) = 0 \/ Len(args) = 1 => Assembled(ts, i, table, old) = p1
         /\ Len(args) = 2 /\ CommaAt(ts, p1.tpos) => Assembled(ts, i, table, old) = Argument(PastComma(p1), ts, table, args[2])
         /\ Len(args) = 2 /\ ~CommaAt(ts, p1.tpos) => Assembled(ts, i, table, old) = NoComma(p1)
<1>1. CASE Len(args) = 0 \/ Len(args) = 1
  <2>1. Len(args) # 2 /\ Len(args) < 2
    BY <1>1
  <2> QED
    BY <2>1 DEF Assembled
<1>2. CASE Len(args) = 2
  <2>1. ~(Len(args) < 2) /\ Len(args) # 0 /\ Len(args) # 1
    BY <1>2
  <2>2. CASE CommaAt(ts, p1.tpos)
    BY <1>2, <2>1, <2>2 DEF Assembled, CommaAt
  <2>3. CASE ~CommaAt(ts, p1.tpos)
    BY <1>2, <2>1, <2>3 DEF Assembled, CommaAt
  <2> QED
    BY <2>1, <2>2, <2>3
<1> QED
  BY <1>1, <1>2

\* An instruction without arguments is as it begins.
LEMMA NoArgument ==
  ASSUME NEW ts, NEW i, NEW table, NEW old, find_instr(ts[i].val).args = <<>>
  PROVE  Assembled(ts, i, table, old) = Begun(find_instr(ts[i].val), i, old)
<1>1. Len(find_instr(ts[i].val).args) = 0
  OBVIOUS
<1> QED
  BY <1>1, AssembledParts DEF FirstArgument

\* One argument comes behind the name.
LEMMA OneArgument ==
  ASSUME NEW ts, NEW i, NEW table, NEW old, NEW a, find_instr(ts[i].val).args = <<a>>
  PROVE  Assembled(ts, i, table, old) = Argument(Begun(find_instr(ts[i].val), i, old), ts, table, a)
<1> DEFINE args == find_instr(ts[i].val).args
<1>1. Len(args) = 1 /\ args # <<>> /\ args[1] = a
  OBVIOUS
<1>2. FirstArgument(Begun(find_instr(ts[i].val), i, old), ts, table, args)
        = Argument(Begun(find_instr(ts[i].val), i, old), ts, table, a)
  BY <1>1 DEF FirstArgument
<1> QED
  BY <1>1, <1>2, AssembledParts

\* Two arguments have a comma between them.
LEMMA TwoArguments ==
  ASSUME NEW ts, NEW i, NEW table, NEW old, NEW a, NEW b, find_instr(ts[i].val).args = <<a, b>>,
         NEW p1, p1 = Argument(Begun(find_instr(ts[i].val), i, old), ts, table, a)
  PROVE  /\ CommaAt(ts, p1.tpos) => Assembled(ts, i, table, old) = Argument(PastComma(p1), ts, table, b)
         /\ ~CommaAt(ts, p1.tpos) => Assembled(ts, i, table, old) = NoComma(p1)
<1> DEFINE args == find_instr(ts[i].val).args
<1>1. Len(args) = 2 /\ args # <<>> /\ args[1] = a /\ args[2] = b
  OBVIOUS
<1>2. p1 = FirstArgument(Begun(find_instr(ts[i].val), i, old), ts, table, args)
  BY <1>1 DEF FirstArgument
<1> QED
  BY <1>1, <1>2, AssembledParts

\* The error flag does not depend on the bytes, and what is not printed is in error.
LEMMA AssembledOk ==
  ASSUME NEW ts, NEW i \in Nat \ {0}, NEW name, name = ts[i].val, name \in Instrs \ {".pos", ".align"},
         NEW table, NEW old, NEW p, p = Assembled(ts, i, table, old)
  PROVE  /\ p.ok \in BOOLEAN
         /\ p.ok <=> Accepts(ts, i, table)
         /\ p.ok => p.printed = TRUE
<1> DEFINE instr == find_instr(name)
           p0 == Begun(instr, i, old)
<1>1. Parsing(p0) /\ p0.ok = TRUE /\ p0.printed = TRUE /\ p0.tpos = i + 1
  BY Commas
<1>5. CASE name \in Nullary
  <2>1. instr.args = <<>>
    BY <1>5, TableSays
  <2>2. p = p0
    BY <2>1, NoArgument
  <2> QED
    BY <1>1, <1>5, <2>2 DEF Accepts, Nullary, OneReg, TwoRegs, OneValue, ValueReg
<1>6. CASE name \in OneReg
  <2>1. PICK a : instr.args = <<a>> /\ a.kind = "R"
    BY <1>6, TableSays
  <2>2. p = Argument(p0, ts, table, a)
    BY <2>1, OneArgument
  <2>3. p.printed = TRUE /\ Parsing(p) /\ (p.ok <=> IsReg(ts, i + 1))
    BY <1>1, <2>1, <2>2, RegArgument
  <2> QED
    BY <1>6, <2>3 DEF Accepts, Nullary, OneReg, TwoRegs, OneValue, ValueReg, Parsing
<1>7. CASE name \in OneValue
  <2>1. PICK a : instr.args = <<a>> /\ a.kind = "I"
    BY <1>7, TableSays
  <2>2. p = Argument(p0, ts, table, a)
    BY <2>1, OneArgument
  <2>3. p.printed = TRUE /\ Parsing(p) /\ (p.ok <=> IsKnown(ts, table, i + 1))
    BY <1>1, <2>1, <2>2, NumArgument
  <2> QED
    BY <1>7, <2>3 DEF Accepts, Nullary, OneReg, TwoRegs, OneValue, ValueReg, Parsing
<1>8. CASE name \in TwoRegs \cup ValueReg \cup {"rmmovq", "mrmovq"}
  <2>1. PICK a, b : /\ instr.args = <<a, b>>
                    /\ name \in TwoRegs => a.kind = "R" /\ b.kind = "R"
                    /\ name \in ValueReg => a.kind = "I" /\ b.kind = "R"
                    /\ name = "rmmovq" => a.kind = "R" /\ b.kind = "M"
                    /\ name = "mrmovq" => a.kind = "M" /\ b.kind = "R"
    <3>1. CASE name \in TwoRegs
      <4>1. instr.args = <<R_ARG(1, TRUE), R_ARG(1, FALSE)>>
        BY <3>1, TableSays DEF BothRegs
      <4> QED
        BY <3>1, <4>1 DEF R_ARG, TwoRegs, ValueReg
    <3>2. CASE name \in ValueReg
      <4>1. instr.args = <<I_ARG(2, WordBytes), R_ARG(1, FALSE)>>
        BY <3>2, TableSays DEF Immediate
      <4> QED
        BY <3>2, <4>1 DEF R_ARG, I_ARG, TwoRegs, ValueReg
    <3>3. CASE name = "rmmovq"
      <4>1. instr.args = <<R_ARG(1, TRUE), M_ARG(1)>>
        BY <3>3, TableSays
      <4> QED
        BY <3>3, <4>1 DEF R_ARG, M_ARG, TwoRegs, ValueReg
    <3>4. CASE name = "mrmovq"
      <4>1. instr.args = <<M_ARG(1), R_ARG(1, TRUE)>>
        BY <3>4, TableSays
      <4> QED
        BY <3>4, <4>1 DEF R_ARG, M_ARG, TwoRegs, ValueReg
    <3> QED
      BY <1>8, <3>1, <3>2, <3>3, <3>4
  <2> DEFINE p1 == Argument(p0, ts, table, a)
             r  == PastComma(p1)
  <2>3. p1 = Argument(p0, ts, table, a) /\ r = PastComma(p1)
    OBVIOUS
  <2>2. /\ CommaAt(ts, p1.tpos) => p = Argument(r, ts, table, b)
        /\ ~CommaAt(ts, p1.tpos) => p = NoComma(p1)
    BY <2>1, <2>3, TwoArguments
  <2> HIDE DEF p1, r
  <2>4. /\ Parsing(p1) /\ p1.printed = TRUE
        /\ name \in TwoRegs \cup {"rmmovq"} =>
             (p1.ok <=> IsReg(ts, i + 1)) /\ (p1.ok => p1.tpos = i + 2)
        /\ name \in ValueReg => (p1.ok <=> IsKnown(ts, table, i + 1)) /\ (p1.ok => p1.tpos = i + 2)
        /\ name = "mrmovq" => (p1.ok <=> MemoryOk(ts, table, i + 1)) /\ (p1.ok => p1.tpos = MemoryEnd(ts, i + 1))
    <3>1. i + 1 + 1 = i + 2
      OBVIOUS
    <3>2. CASE name \in TwoRegs \cup {"rmmovq"}
      <4>1. a.kind = "R"
        BY <2>1, <3>2
      <4> QED
        BY <1>1, <2>3, <3>1, <3>2, <4>1, RegArgument DEF TwoRegs, ValueReg
    <3>3. CASE name \in ValueReg
      <4>1. a.kind = "I"
        BY <2>1, <3>3
      <4> QED
        BY <1>1, <2>3, <3>1, <3>3, <4>1, NumArgument DEF TwoRegs, ValueReg
    <3>4. CASE name = "mrmovq"
      <4>1. a.kind = "M"
        BY <2>1, <3>4
      <4> QED
        BY <1>1, <2>3, <3>4, <4>1, MemArgument DEF TwoRegs, ValueReg
    <3> QED
      BY <1>8, <3>2, <3>3, <3>4
  <2>5. CASE ~CommaAt(ts, p1.tpos)
    <3>1. p.ok = FALSE
      BY <2>2, <2>4, <2>5, Commas
    <3>2. ~Accepts(ts, i, table)
      BY <1>8, <2>4, <2>5 DEF Accepts, Nullary, OneReg, TwoRegs, OneValue, ValueReg
    <3> QED
      BY <3>1, <3>2
  <2>6. CASE CommaAt(ts, p1.tpos)
    <3>1. Parsing(r) /\ r.ok = p1.ok /\ r.tpos = p1.tpos + 1 /\ r.printed = p1.printed
      BY <2>3, <2>4, Commas
    <3>2. p = Argument(r, ts, table, b)
      BY <2>2, <2>6
    <3>3. CASE name # "rmmovq"
      <4>1. b.kind = "R"
        BY <1>8, <2>1, <3>3
      <4>2. Parsing(p) /\ p.printed = TRUE /\ (p.ok <=> p1.ok /\ IsReg(ts, p1.tpos + 1))
        BY <2>4, <3>1, <3>2, <4>1, RegArgument
      <4>3. i + 2 + 1 = i + 3
        OBVIOUS
      <4>4. p.ok <=> Accepts(ts, i, table)
        BY <1>8, <2>4, <2>6, <3>3, <4>2, <4>3 DEF Accepts, Nullary, OneReg, TwoRegs, OneValue, ValueReg
      <4> QED
        BY <4>2, <4>4 DEF Parsing
    <3>4. CASE name = "rmmovq"
      <4>1. b.kind = "M"
        BY <2>1, <3>4
      <4>2. Parsing(p) /\ p.printed = TRUE /\ (p.ok <=> p1.ok /\ MemoryOk(ts, table, p1.tpos + 1))
        BY <2>4, <3>1, <3>2, <4>1, MemArgument
      <4>3. i + 2 + 1 = i + 3
        OBVIOUS
      <4>4. p.ok <=> Accepts(ts, i, table)
        BY <2>4, <2>6, <3>4, <4>2, <4>3 DEF Accepts, Nullary, OneReg, TwoRegs, OneValue, ValueReg
      <4> QED
        BY <4>2, <4>4 DEF Parsing
    <3> QED
      BY <3>3, <3>4
  <2> QED
    BY <2>5, <2>6
<1> QED
  BY <1>5, <1>6, <1>7, <1>8, Operations
--------------------------------------------------------------------------
\* Shapes, letter by letter.

\* The letter at position i of a statement's operands, and that its label is known.
Has(st, i, letter) == i + 1 \in DOMAIN st /\ Letter(st[i + 1]) = letter
Known(st, i, names) == st[i + 1].type = "IDENT" => st[i + 1].val \in names

Alphabet == {"r", "v", "i", "(", ")", ":", ","}

\* The letter of a token is its type, or the sign itself.
LEMMA Letters ==
  ASSUME NEW t \in Token
  PROVE  /\ Letter(t) \in Alphabet
         /\ Letter(t) = "r" <=> t.type = "REG"
         /\ Letter(t) = "v" <=> t.type \in {"NUM", "IDENT"}
         /\ \A c \in {"(", ")", ":", ","} : Letter(t) = c <=> t.type = "PUNCT" /\ t.val = c
<1>1. CASE t.type = "REG"
  <2>1. Letter(t) = "r"
    BY <1>1 DEF Letter
  <2> QED
    BY <1>1, <2>1 DEF Alphabet
<1>2. CASE t.type \in {"NUM", "IDENT"}
  <2>1. Letter(t) = "v"
    BY <1>2 DEF Letter
  <2> QED
    BY <1>2, <2>1 DEF Alphabet
<1>3. CASE t.type = "INSTR"
  <2>1. Letter(t) = "i"
    BY <1>3 DEF Letter
  <2> QED
    BY <1>3, <2>1 DEF Alphabet
<1>4. CASE t.type = "PUNCT"
  <2>1. t.val \in {"(", ")", ":", ","}
    BY <1>4 DEF Token
  <2>2. Letter(t) = t.val
    BY <1>4 DEF Letter
  <2> QED
    BY <1>4, <2>1, <2>2 DEF Alphabet
<1> QED
  BY <1>1, <1>2, <1>3, <1>4 DEF Token

\* Letters are what the parser sees.
LEMMA HasIs ==
  ASSUME NEW line \in SourceLine, NEW ts, ts = line.tokens, NEW st, st = Statement(ts), Start(ts) <= Len(ts),
         NEW i \in Nat \ {0}, NEW c, c = Start(ts)
  PROVE  /\ Has(st, i, "r") <=> IsReg(ts, c + i)
         /\ Has(st, i, "v") <=> IsValue(ts, c + i)
         /\ Has(st, i, ",") <=> CommaAt(ts, c + i)
         /\ Has(st, i, "(") <=> Is(ts, c + i, "(")
         /\ Has(st, i, ")") <=> Is(ts, c + i, ")")
         /\ IsValue(st, i + 1) <=> IsValue(ts, c + i)
         /\ Is(st, i + 1, "(") <=> Is(ts, c + i, "(")
<1>1. c \in {1, 3} /\ i + 1 \in Nat \ {0} /\ Start(ts) + (i + 1) - 1 = c + i
  BY StartInt
<1>2. /\ Type(st, i + 1) = Type(ts, c + i)
      /\ i + 1 \in DOMAIN st <=> c + i \in DOMAIN ts
      /\ i + 1 \in DOMAIN st => st[i + 1] = ts[c + i]
  <2>1. Type(st, i + 1) = Type(ts, c + i)
    BY <1>1, StatementTokens
  <2>2. i + 1 \in DOMAIN st <=> c + i \in DOMAIN ts
    BY <1>1, StatementTokens
  <2>3. i + 1 \in DOMAIN st => st[i + 1] = ts[c + i]
    BY <1>1, StatementTokens
  <2> QED
    BY <2>1, <2>2, <2>3
<1>3. i + 1 \in DOMAIN st => st[i + 1] \in Token
  BY StatementParts
<1>4. CASE i + 1 \in DOMAIN st
  <2> DEFINE t == st[i + 1]
  <2>1. t = ts[c + i] /\ t \in Token /\ Type(st, i + 1) = t.type /\ Type(ts, c + i) = t.type
    BY <1>2, <1>3, <1>4 DEF Type
  <2>2. /\ Letter(t) = "r" <=> t.type = "REG"
        /\ Letter(t) = "v" <=> t.type \in {"NUM", "IDENT"}
        /\ Letter(t) = "," <=> t.type = "PUNCT" /\ t.val = ","
        /\ Letter(t) = "(" <=> t.type = "PUNCT" /\ t.val = "("
        /\ Letter(t) = ")" <=> t.type = "PUNCT" /\ t.val = ")"
    BY <2>1, Letters
  <2> HIDE DEF t
  <2> QED
    BY <1>4, <2>1, <2>2 DEF Has, IsReg, IsValue, CommaAt, Is, t
<1>5. CASE i + 1 \notin DOMAIN st
  <2>1. Type(st, i + 1) = "ERR" /\ Type(ts, c + i) = "ERR"
    BY <1>2, <1>5 DEF Type
  <2> QED
    BY <1>5, <2>1 DEF Has, IsReg, IsValue, CommaAt, Is
<1> QED
  BY <1>4, <1>5

\* A shape fits if it has the letters.
LEMMA ShapeFits ==
  ASSUME NEW line \in SourceLine, NEW ts, ts = line.tokens, NEW st, st = Statement(ts), Start(ts) <= Len(ts),
         NEW shape \in Seq(Alphabet)
  PROVE  IsPrefix(shape, Shape(st)) <=> \A i \in 1 .. Len(shape) : Has(st, i, shape[i])
<1> DEFINE all == Shape(st)
<1>1. Len(st) \in Nat \ {0} /\ DOMAIN st = 1 .. Len(st) /\ \A i \in 1 .. Len(st) : st[i] \in Token
  <2>1. Len(ts) - Start(ts) + 1 > 0
    BY StartInt, LineParts
  <2> QED
    BY <2>1, StatementParts
<1>2. all \in Seq(Alphabet) /\ Len(all) = Len(st) - 1 /\ \A i \in 1 .. (Len(st) - 1) : all[i] = Letter(st[i + 1])
  <2>1. all \in [1 .. (Len(st) - 1) -> Alphabet]
    <3>1. \A i \in 1 .. (Len(st) - 1) : Letter(st[i + 1]) \in Alphabet
      <4> TAKE i \in 1 .. (Len(st) - 1)
      <4>1. st[i + 1] \in Token
        BY <1>1
      <4> QED
        BY <4>1, Letters
    <3> QED
      BY <3>1 DEF Shape
  <2>2. Len(st) - 1 \in Nat
    BY <1>1
  <2>3. all \in Seq(Alphabet) /\ Len(all) = Len(st) - 1
    BY <2>1, <2>2
  <2> QED
    BY <2>3 DEF Shape
<1> HIDE DEF all
<1>3. Len(shape) \in Nat /\ SubSeq(shape, 1, Len(shape)) = shape
  OBVIOUS
<1>4. CASE Len(shape) > Len(all)
  <2>1. Len(all) + 1 \in 1 .. Len(shape) /\ Len(all) + 1 + 1 \notin DOMAIN st
    BY <1>1, <1>2, <1>3, <1>4
  <2>2. ~Has(st, Len(all) + 1, shape[Len(all) + 1])
    BY <2>1 DEF Has
  <2>3. ~IsPrefix(shape, all)
    BY <1>2, <1>3, <1>4 DEF IsPrefix
  <2> QED
    BY <2>1, <2>2, <2>3 DEF all
<1>5. CASE Len(shape) <= Len(all)
  <2> DEFINE front == SubSeq(all, 1, Len(shape))
  <2>1. front \in Seq(Alphabet) /\ Len(front) = Len(shape) /\ \A i \in 1 .. Len(shape) : front[i] = all[i]
    BY <1>2, <1>3, <1>5
  <2>2. IsPrefix(shape, all) <=> shape = front
    BY <1>3, <1>5 DEF IsPrefix
  <2> HIDE DEF front
  <2>3. shape = front <=> \A i \in 1 .. Len(shape) : shape[i] = front[i]
    BY <1>3, <2>1
  <2>4. \A i \in 1 .. Len(shape) : Has(st, i, shape[i]) <=> shape[i] = front[i]
    BY <1>1, <1>2, <1>3, <1>5, <2>1 DEF Has
  <2> QED
    BY <2>2, <2>3, <2>4 DEF all
<1> QED
  BY <1>2, <1>3, <1>4, <1>5

\* The shapes, written out.
LEMMA ShapesAre ==
  ASSUME NEW name
  PROVE  /\ name \in Nullary => Shapes(name) = {<<>>}
         /\ name \in OneReg => Shapes(name) = {<<"r">>}
         /\ name \in OneValue => Shapes(name) = {<<"v">>}
         /\ name \in TwoRegs => Shapes(name) = {<<"r", ",", "r">>}
         /\ name \in ValueReg => Shapes(name) = {<<"v", ",", "r">>}
         /\ name = "rmmovq" => Shapes(name) = {<<"r", ",">>, <<"r", ",", "v">>, <<"r", ",", "(", "r", ")">>,
                                               <<"r", ",", "v", "(", "r", ")">>}
         /\ name = "mrmovq" => Shapes(name) = {<<",", "r">>, <<"v", ",", "r">>, <<"(", "r", ")", ",", "r">>,
                                               <<"v", "(", "r", ")", ",", "r">>}
<1>1. CASE name \in Nullary
  BY <1>1 DEF Shapes, Nullary, OneReg, OneValue, TwoRegs, ValueReg
<1>2. CASE name \in OneReg
  BY <1>2 DEF Shapes, Nullary, OneReg, OneValue, TwoRegs, ValueReg
<1>3. CASE name \in OneValue
  BY <1>3 DEF Shapes, Nullary, OneReg, OneValue, TwoRegs, ValueReg
<1>4. CASE name \in TwoRegs
  BY <1>4 DEF Shapes, Nullary, OneReg, OneValue, TwoRegs, ValueReg
<1>5. CASE name \in ValueReg
  BY <1>5 DEF Shapes, Nullary, OneReg, OneValue, TwoRegs, ValueReg
<1>6. CASE name = "rmmovq"
  BY <1>6 DEF Shapes, Nullary, OneReg, OneValue, TwoRegs, ValueReg
<1>7. CASE name = "mrmovq"
  BY <1>7 DEF Shapes, Nullary, OneReg, OneValue, TwoRegs, ValueReg
<1> QED
  BY <1>1, <1>2, <1>3, <1>4, <1>5, <1>6, <1>7
--------------------------------------------------------------------------
\* A shape that the statement has, with labels that are known.
Good(st, shape, names) ==
  /\ \A i \in 1 .. Len(shape) : Has(st, i, shape[i]) /\ Known(st, i, names)
  /\ ~GoesOn(st, shape)

\* The operands have a shape of the statement if they are good for one.
LEMMA GoodShapes ==
  ASSUME NEW line \in SourceLine, NEW ts, ts = line.tokens, NEW st, st = Statement(ts), Start(ts) <= Len(ts),
         NEW names, Shapes(st[1].val) \subseteq Seq(Alphabet)
  PROVE  (\E shape \in Operands(st) : \A i \in 2 .. (Len(shape) + 1) : st[i].type = "IDENT" => st[i].val \in names)
           <=> \E shape \in Shapes(st[1].val) : Good(st, shape, names)
<1>1. \A shape \in Shapes(st[1].val) : shape \in Operands(st) <=>
        (\A i \in 1 .. Len(shape) : Has(st, i, shape[i])) /\ ~GoesOn(st, shape)
  BY ShapeFits DEF Operands
<1>2. \A shape \in Shapes(st[1].val) :
        (\A i \in 2 .. (Len(shape) + 1) : st[i].type = "IDENT" => st[i].val \in names)
          <=> \A i \in 1 .. Len(shape) : Known(st, i, names)
  <2> SUFFICES ASSUME NEW shape \in Shapes(st[1].val)
               PROVE  (\A i \in 2 .. (Len(shape) + 1) : st[i].type = "IDENT" => st[i].val \in names)
                        <=> \A i \in 1 .. Len(shape) : Known(st, i, names)
    OBVIOUS
  <2>1. Len(shape) \in Nat
    OBVIOUS
  <2>2. ASSUME \A i \in 2 .. (Len(shape) + 1) : st[i].type = "IDENT" => st[i].val \in names
        PROVE  \A i \in 1 .. Len(shape) : Known(st, i, names)
    BY <2>1, <2>2 DEF Known
  <2>3. ASSUME \A i \in 1 .. Len(shape) : Known(st, i, names)
        PROVE  \A i \in 2 .. (Len(shape) + 1) : st[i].type = "IDENT" => st[i].val \in names
    <3> TAKE i \in 2 .. (Len(shape) + 1)
    <3>1. i - 1 \in 1 .. Len(shape) /\ (i - 1) + 1 = i
      BY <2>1
    <3>2. Known(st, i - 1, names)
      BY <2>3, <3>1
    <3> QED
      BY <3>1, <3>2 DEF Known
  <2> QED
    BY <2>2, <2>3
<1>3. Operands(st) \subseteq Shapes(st[1].val)
  BY DEF Operands
<1> QED
  BY <1>1, <1>2, <1>3, Zenon DEF Good

\* The same, position by position.
Bound(st, i, letter, names) == Has(st, i, letter) /\ Known(st, i, names)

\* What is good for a shape, written out for the lengths that shapes have.
LEMMA GoodOf ==
  ASSUME NEW st, NEW names, NEW a, NEW b, NEW c, NEW d, NEW e, NEW f
  PROVE  /\ Good(st, <<>>, names) <=> ~GoesOn(st, <<>>)
         /\ Good(st, <<a>>, names) <=> Bound(st, 1, a, names) /\ ~GoesOn(st, <<a>>)
         /\ Good(st, <<a, b>>, names) <=> Bound(st, 1, a, names) /\ Bound(st, 2, b, names) /\ ~GoesOn(st, <<a, b>>)
         /\ Good(st, <<a, b, c>>, names) <=>
              /\ Bound(st, 1, a, names) /\ Bound(st, 2, b, names) /\ Bound(st, 3, c, names)
              /\ ~GoesOn(st, <<a, b, c>>)
         /\ Good(st, <<a, b, c, d, e>>, names) <=>
              /\ Bound(st, 1, a, names) /\ Bound(st, 2, b, names) /\ Bound(st, 3, c, names) /\ Bound(st, 4, d, names)
              /\ Bound(st, 5, e, names) /\ ~GoesOn(st, <<a, b, c, d, e>>)
         /\ Good(st, <<a, b, c, d, e, f>>, names) <=>
              /\ Bound(st, 1, a, names) /\ Bound(st, 2, b, names) /\ Bound(st, 3, c, names) /\ Bound(st, 4, d, names)
              /\ Bound(st, 5, e, names) /\ Bound(st, 6, f, names) /\ ~GoesOn(st, <<a, b, c, d, e, f>>)
<1>1. 1 .. 0 = {} /\ 1 .. 1 = {1} /\ 1 .. 2 = {1, 2} /\ 1 .. 3 = {1, 2, 3} /\ 1 .. 5 = {1, 2, 3, 4, 5}
      /\ 1 .. 6 = {1, 2, 3, 4, 5, 6}
  OBVIOUS
<1>2. Len(<<>>) = 0 /\ Len(<<a>>) = 1 /\ Len(<<a, b>>) = 2 /\ Len(<<a, b, c>>) = 3
      /\ Len(<<a, b, c, d, e>>) = 5 /\ Len(<<a, b, c, d, e, f>>) = 6
  OBVIOUS
<1>3. Good(st, <<>>, names) <=> ~GoesOn(st, <<>>)
  BY <1>1, <1>2 DEF Good, Bound
<1>4. Good(st, <<a>>, names) <=> Bound(st, 1, a, names) /\ ~GoesOn(st, <<a>>)
  BY <1>1, <1>2 DEF Good, Bound
<1>5. Good(st, <<a, b>>, names) <=> Bound(st, 1, a, names) /\ Bound(st, 2, b, names) /\ ~GoesOn(st, <<a, b>>)
  BY <1>1, <1>2 DEF Good, Bound
<1>6. Good(st, <<a, b, c>>, names) <=>
        /\ Bound(st, 1, a, names) /\ Bound(st, 2, b, names) /\ Bound(st, 3, c, names)
        /\ ~GoesOn(st, <<a, b, c>>)
  BY <1>1, <1>2 DEF Good, Bound
<1>7. Good(st, <<a, b, c, d, e>>, names) <=>
        /\ Bound(st, 1, a, names) /\ Bound(st, 2, b, names) /\ Bound(st, 3, c, names) /\ Bound(st, 4, d, names)
        /\ Bound(st, 5, e, names) /\ ~GoesOn(st, <<a, b, c, d, e>>)
  BY <1>1, <1>2 DEF Good, Bound
<1>8. Good(st, <<a, b, c, d, e, f>>, names) <=>
        /\ Bound(st, 1, a, names) /\ Bound(st, 2, b, names) /\ Bound(st, 3, c, names) /\ Bound(st, 4, d, names)
        /\ Bound(st, 5, e, names) /\ Bound(st, 6, f, names) /\ ~GoesOn(st, <<a, b, c, d, e, f>>)
  BY <1>1, <1>2 DEF Good, Bound
<1> QED
  BY <1>3, <1>4, <1>5, <1>6, <1>7, <1>8

\* The parser accepts what has one of the shapes.
LEMMA AcceptsIs ==
  ASSUME NEW line \in SourceLine, NEW ts, ts = line.tokens, NEW st, st = Statement(ts), Start(ts) <= Len(ts),
         IsInstr(ts), NEW table, NEW names, \A n : Defined(table, n) <=> n \in names
  PROVE  Accepts(ts, Start(ts), table) <=>
           \E shape \in Operands(st) : \A i \in 2 .. (Len(shape) + 1) : st[i].type = "IDENT" => st[i].val \in names
<1> DEFINE c == Start(ts)
           name == st[1].val
           R(i) == Has(st, i, "r")
           V(i) == Has(st, i, "v")
           C(i) == Has(st, i, ",")
           O(i) == Has(st, i, "(")
           P(i) == Has(st, i, ")")
           K(i) == Known(st, i, names)
           M(i) == /\ V(i) => K(i)
                   /\ V(i) /\ O(i + 1) => R(i + 2) /\ P(i + 3)
                   /\ ~V(i) /\ O(i) => R(i + 1) /\ P(i + 2)
           E(i) == IF V(i) THEN IF O(i + 1) THEN i + 4 ELSE i + 1
                   ELSE IF O(i) THEN i + 3 ELSE i
<1>1. c \in {1, 3} /\ 1 \in DOMAIN st /\ st[1] = ts[c] /\ name = NameOf(ts) /\ name \in Instrs \ {".pos", ".align"}
  <2>1. c \in {1, 3} /\ HasName(ts)
    BY StartInt DEF IsInstr
  <2>2. c \in DOMAIN ts /\ c + 1 - 1 = c
    BY <2>1, StartInt DEF HasName, Type
  <2>3. 1 \in DOMAIN st /\ st[1] = ts[c]
    BY <2>2, StatementTokens
  <2> QED
    BY <2>1, <2>3, TokenParts DEF HasName, NameOf, IsInstr
<1>2. \A i \in Nat \ {0} : /\ R(i) <=> IsReg(ts, c + i)
                           /\ V(i) <=> IsValue(ts, c + i)
                           /\ C(i) <=> CommaAt(ts, c + i)
                           /\ O(i) <=> Is(ts, c + i, "(")
                           /\ P(i) <=> Is(ts, c + i, ")")
                           /\ V(i) => (K(i) <=> ~Missing(table, ts[c + i]))
                           /\ V(i) <=> IsValue(st, i + 1)
                           /\ O(i) <=> Is(st, i + 1, "(")
                           /\ ~V(i) /\ i + 1 \in DOMAIN st => K(i)
  <2> SUFFICES ASSUME NEW i \in Nat \ {0}
               PROVE  /\ R(i) <=> IsReg(ts, c + i)
                      /\ V(i) <=> IsValue(ts, c + i)
                      /\ C(i) <=> CommaAt(ts, c + i)
                      /\ O(i) <=> Is(ts, c + i, "(")
                      /\ P(i) <=> Is(ts, c + i, ")")
                      /\ V(i) => (K(i) <=> ~Missing(table, ts[c + i]))
                      /\ V(i) <=> IsValue(st, i + 1)
                      /\ O(i) <=> Is(st, i + 1, "(")
                      /\ ~V(i) /\ i + 1 \in DOMAIN st => K(i)
    OBVIOUS
  <2>1. /\ R(i) <=> IsReg(ts, c + i)
        /\ V(i) <=> IsValue(ts, c + i)
        /\ C(i) <=> CommaAt(ts, c + i)
        /\ O(i) <=> Is(ts, c + i, "(")
        /\ P(i) <=> Is(ts, c + i, ")")
        /\ V(i) <=> IsValue(st, i + 1)
        /\ O(i) <=> Is(st, i + 1, "(")
    BY HasIs
  <2>5. /\ IsValue(ts, c + i) => st[i + 1] = ts[c + i] /\ st[i + 1].type \in {"NUM", "IDENT"}
        /\ ~IsValue(ts, c + i) /\ i + 1 \in DOMAIN st => st[i + 1].type # "IDENT"
    <3>1. c \in {1, 3} /\ i + 1 \in Nat \ {0} /\ Start(ts) + (i + 1) - 1 = c + i
      BY StartInt
    <3>2. /\ i + 1 \in DOMAIN st <=> c + i \in DOMAIN ts
          /\ i + 1 \in DOMAIN st => st[i + 1] = ts[c + i]
      BY <3>1, StatementTokens
    <3> QED
      BY <3>2 DEF IsValue, Type
  <2>6. V(i) <=> IsValue(ts, c + i)
    BY <2>1
  <2> HIDE DEF V
  <2>2. /\ V(i) => st[i + 1] = ts[c + i]
        /\ ~V(i) /\ i + 1 \in DOMAIN st => st[i + 1].type # "IDENT"
    BY <2>5, <2>6, Zenon
  <2> USE DEF V
  <2>3. V(i) => (K(i) <=> ~Missing(table, ts[c + i]))
    BY <2>2 DEF Known, Missing
  <2>4. ~V(i) /\ i + 1 \in DOMAIN st => K(i)
    BY <2>2 DEF Known
  <2> QED
    BY <2>1, <2>3, <2>4
<1>3. \A i \in Nat \ {0} : /\ R(i) => ~V(i) /\ ~C(i) /\ ~O(i) /\ ~P(i) /\ K(i)
                           /\ V(i) => ~C(i) /\ ~O(i) /\ ~P(i)
                           /\ C(i) => ~O(i) /\ ~P(i) /\ K(i)
                           /\ O(i) => ~P(i) /\ K(i)
                           /\ P(i) => K(i)
  BY <1>2 DEF Has
<1>4. /\ MemoryOk(ts, table, c + 1) <=> M(1)
      /\ MemoryOk(ts, table, c + 3) <=> M(3)
      /\ MemoryEnd(ts, c + 1) = c + E(1)
      /\ E(1) \in Nat \ {0}
  <2>1. ASSUME NEW i \in {1, 3}
        PROVE  /\ MemoryOk(ts, table, c + i) <=> M(i)
               /\ MemoryEnd(ts, c + i) = c + E(i)
    <3>1. /\ i \in Nat \ {0} /\ i + 1 \in Nat \ {0} /\ i + 2 \in Nat \ {0} /\ i + 3 \in Nat \ {0}
          /\ c + i + 1 = c + (i + 1) /\ c + i + 1 + 1 = c + (i + 2) /\ c + i + 1 + 2 = c + (i + 3)
          /\ c + i + 2 = c + (i + 2) /\ c + i + 1 + 3 = c + (i + 4) /\ c + i + 3 = c + (i + 3)
      BY <1>1
    <3>2. CASE V(i)
      <4>1. BaseAt(ts, c + i) = c + (i + 1)
        BY <1>2, <3>1, <3>2 DEF BaseAt
      <4> QED
        BY <1>2, <3>1, <3>2, <4>1 DEF MemoryOk, MemoryEnd, IsReg
    <3>3. CASE ~V(i)
      <4>1. BaseAt(ts, c + i) = c + i
        BY <1>2, <3>1, <3>3 DEF BaseAt
      <4> QED
        BY <1>2, <3>1, <3>3, <4>1 DEF MemoryOk, MemoryEnd, IsReg
    <3> QED
      BY <3>2, <3>3
  <2> QED
    BY <2>1
<1>a. (V(3) <=> IsValue(st, 4)) /\ (O(3) <=> Is(st, 4, "(")) /\ (O(4) <=> Is(st, 5, "("))
  <2>1. 3 + 1 = 4 /\ 4 + 1 = 5 /\ 3 \in Nat \ {0} /\ 4 \in Nat \ {0}
    OBVIOUS
  <2> HIDE DEF V, O
  <2> QED
    BY <1>2, <2>1
<1>5. /\ GoesOn(st, <<"r", ",">>) <=> name = "rmmovq" /\ (V(3) \/ O(3))
      /\ GoesOn(st, <<"r", ",", "v">>) <=> name = "rmmovq" /\ O(4)
      /\ ~GoesOn(st, <<"r", ",", "(", "r", ")">>)
      /\ ~GoesOn(st, <<"r", ",", "v", "(", "r", ")">>)
      /\ name # "rmmovq" => \A shape : ~GoesOn(st, shape)
  <2>1. Len(<<"r", ",">>) = 2 /\ Len(<<"r", ",", "v">>) = 3 /\ Len(<<"r", ",", "(", "r", ")">>) = 5
        /\ Len(<<"r", ",", "v", "(", "r", ")">>) = 6
    OBVIOUS
  <2> HIDE DEF V, O
  <2>2. GoesOn(st, <<"r", ",">>) <=> name = "rmmovq" /\ (V(3) \/ O(3))
    BY <1>a, <2>1 DEF GoesOn
  <2>3. GoesOn(st, <<"r", ",", "v">>) <=> name = "rmmovq" /\ O(4)
    BY <1>a, <2>1 DEF GoesOn
  <2>4. ~GoesOn(st, <<"r", ",", "(", "r", ")">>)
    BY <2>1 DEF GoesOn
  <2>5. ~GoesOn(st, <<"r", ",", "v", "(", "r", ")">>)
    BY <2>1 DEF GoesOn
  <2>6. name # "rmmovq" => \A shape : ~GoesOn(st, shape)
    BY DEF GoesOn
  <2> QED
    BY <2>2, <2>3, <2>4, <2>5, <2>6
<1>8. /\ IsReg(ts, c + 1) <=> R(1)
      /\ CommaAt(ts, c + 2) <=> C(2)
      /\ IsReg(ts, c + 3) <=> R(3)
      /\ IsKnown(ts, table, c + 1) <=> V(1) /\ K(1)
      /\ CommaAt(ts, MemoryEnd(ts, c + 1)) <=> C(E(1))
      /\ IsReg(ts, MemoryEnd(ts, c + 1) + 1) <=> R(E(1) + 1)
  <2>1. E(1) \in Nat \ {0} /\ E(1) + 1 \in Nat \ {0} /\ c + E(1) + 1 = c + (E(1) + 1)
    BY <1>1, <1>4
  <2> HIDE DEF R, V, C, O, P, K, E, c
  <2>2. (IsReg(ts, c + 1) <=> R(1)) /\ (CommaAt(ts, c + 2) <=> C(2)) /\ (IsReg(ts, c + 3) <=> R(3))
    BY <1>2
  <2>3. IsKnown(ts, table, c + 1) <=> V(1) /\ K(1)
    BY <1>2 DEF IsKnown
  <2>4. CommaAt(ts, c + E(1)) <=> C(E(1))
    BY <1>2, <2>1
  <2>5. IsReg(ts, c + (E(1) + 1)) <=> R(E(1) + 1)
    BY <1>2, <2>1
  <2> QED
    BY <1>4, <2>1, <2>2, <2>3, <2>4, <2>5
<1>9. Accepts(ts, c, table) <=>
        /\ name \in OneReg \cup TwoRegs \cup {"rmmovq"} => R(1)
        /\ name \in TwoRegs \cup ValueReg \cup {"rmmovq"} => C(2)
        /\ name \in TwoRegs \cup ValueReg => R(3)
        /\ name \in OneValue \cup ValueReg => V(1) /\ K(1)
        /\ name = "rmmovq" => M(3)
        /\ name = "mrmovq" => M(1) /\ C(E(1)) /\ R(E(1) + 1)
  BY <1>1, <1>4, <1>8 DEF Accepts
<1> DEFINE G(shape) == Good(st, shape, names)
           B(i, l) == Bound(st, i, l, names)
<1>10. \A i \in 1 .. 6 : /\ B(i, "r") <=> R(i)
                         /\ B(i, "v") <=> V(i) /\ K(i)
                         /\ B(i, ",") <=> C(i)
                         /\ B(i, "(") <=> O(i)
                         /\ B(i, ")") <=> P(i)
  <2> SUFFICES ASSUME NEW i \in 1 .. 6
               PROVE  /\ B(i, "r") <=> R(i)
                      /\ B(i, "v") <=> V(i) /\ K(i)
                      /\ B(i, ",") <=> C(i)
                      /\ B(i, "(") <=> O(i)
                      /\ B(i, ")") <=> P(i)
    OBVIOUS
  <2>1. i \in Nat \ {0}
    OBVIOUS
  <2> QED
    BY <1>3, <2>1 DEF Bound
<1>11. /\ name # "rmmovq" => /\ G(<<>>)
                             /\ G(<<"r">>) <=> R(1)
                             /\ G(<<"v">>) <=> V(1) /\ K(1)
                             /\ G(<<"r", ",", "r">>) <=> R(1) /\ C(2) /\ R(3)
                             /\ G(<<"v", ",", "r">>) <=> V(1) /\ K(1) /\ C(2) /\ R(3)
                             /\ G(<<",", "r">>) <=> C(1) /\ R(2)
                             /\ G(<<"(", "r", ")", ",", "r">>) <=> O(1) /\ R(2) /\ P(3) /\ C(4) /\ R(5)
                             /\ G(<<"v", "(", "r", ")", ",", "r">>)
                                  <=> V(1) /\ K(1) /\ O(2) /\ R(3) /\ P(4) /\ C(5) /\ R(6)
       /\ name = "rmmovq" => /\ G(<<"r", ",">>) <=> R(1) /\ C(2) /\ ~V(3) /\ ~O(3)
                             /\ G(<<"r", ",", "v">>) <=> R(1) /\ C(2) /\ V(3) /\ K(3) /\ ~O(4)
                             /\ G(<<"r", ",", "(", "r", ")">>) <=> R(1) /\ C(2) /\ O(3) /\ R(4) /\ P(5)
                             /\ G(<<"r", ",", "v", "(", "r", ")">>)
                                  <=> R(1) /\ C(2) /\ V(3) /\ K(3) /\ O(4) /\ R(5) /\ P(6)
  <2>0. 1 \in 1 .. 6 /\ 2 \in 1 .. 6 /\ 3 \in 1 .. 6 /\ 4 \in 1 .. 6 /\ 5 \in 1 .. 6 /\ 6 \in 1 .. 6
    OBVIOUS
  <2> HIDE DEF R, V, C, O, P, K, B, name
  <2>1. G(<<>>) <=> ~GoesOn(st, <<>>)
    BY GoodOf
  <2>2. G(<<"r">>) <=> R(1) /\ ~GoesOn(st, <<"r">>)
    BY <1>10, <2>0, GoodOf DEF B
  <2>3. G(<<"v">>) <=> V(1) /\ K(1) /\ ~GoesOn(st, <<"v">>)
    BY <1>10, <2>0, GoodOf DEF B
  <2>4. G(<<"r", ",", "r">>) <=> R(1) /\ C(2) /\ R(3) /\ ~GoesOn(st, <<"r", ",", "r">>)
    BY <1>10, <2>0, GoodOf DEF B
  <2>5. G(<<"v", ",", "r">>) <=> V(1) /\ K(1) /\ C(2) /\ R(3) /\ ~GoesOn(st, <<"v", ",", "r">>)
    BY <1>10, <2>0, GoodOf DEF B
  <2>6. G(<<",", "r">>) <=> C(1) /\ R(2) /\ ~GoesOn(st, <<",", "r">>)
    BY <1>10, <2>0, GoodOf DEF B
  <2>7. G(<<"(", "r", ")", ",", "r">>) <=>
          O(1) /\ R(2) /\ P(3) /\ C(4) /\ R(5) /\ ~GoesOn(st, <<"(", "r", ")", ",", "r">>)
    BY <1>10, <2>0, GoodOf DEF B
  <2>8. G(<<"v", "(", "r", ")", ",", "r">>) <=>
          V(1) /\ K(1) /\ O(2) /\ R(3) /\ P(4) /\ C(5) /\ R(6) /\ ~GoesOn(st, <<"v", "(", "r", ")", ",", "r">>)
    BY <1>10, <2>0, GoodOf DEF B
  <2>9. G(<<"r", ",">>) <=> R(1) /\ C(2) /\ ~GoesOn(st, <<"r", ",">>)
    BY <1>10, <2>0, GoodOf DEF B
  <2>10. G(<<"r", ",", "v">>) <=> R(1) /\ C(2) /\ V(3) /\ K(3) /\ ~GoesOn(st, <<"r", ",", "v">>)
    BY <1>10, <2>0, GoodOf DEF B
  <2>11. G(<<"r", ",", "(", "r", ")">>) <=>
           R(1) /\ C(2) /\ O(3) /\ R(4) /\ P(5) /\ ~GoesOn(st, <<"r", ",", "(", "r", ")">>)
    BY <1>10, <2>0, GoodOf DEF B
  <2>12. G(<<"r", ",", "v", "(", "r", ")">>) <=>
           R(1) /\ C(2) /\ V(3) /\ K(3) /\ O(4) /\ R(5) /\ P(6) /\ ~GoesOn(st, <<"r", ",", "v", "(", "r", ")">>)
    BY <1>10, <2>0, GoodOf DEF B
  <2> HIDE DEF G
  <2>13. CASE name # "rmmovq"
    BY <1>5, <2>1, <2>2, <2>3, <2>4, <2>5, <2>6, <2>7, <2>8, <2>13
  <2>14. CASE name = "rmmovq"
    BY <1>5, <2>9, <2>10, <2>11, <2>12, <2>14
  <2> QED
    BY <2>13, <2>14
<1>14. Shapes(name) \subseteq Seq(Alphabet)
  <2> HIDE DEF name
  <2>1. /\ <<>> \in Seq(Alphabet) /\ <<"r">> \in Seq(Alphabet) /\ <<"v">> \in Seq(Alphabet)
        /\ <<"r", ",", "r">> \in Seq(Alphabet) /\ <<"v", ",", "r">> \in Seq(Alphabet)
        /\ <<"r", ",">> \in Seq(Alphabet) /\ <<"r", ",", "v">> \in Seq(Alphabet)
        /\ <<"r", ",", "(", "r", ")">> \in Seq(Alphabet) /\ <<"r", ",", "v", "(", "r", ")">> \in Seq(Alphabet)
        /\ <<",", "r">> \in Seq(Alphabet) /\ <<"(", "r", ")", ",", "r">> \in Seq(Alphabet)
        /\ <<"v", "(", "r", ")", ",", "r">> \in Seq(Alphabet)
    BY DEF Alphabet
  <2>2. CASE name \in Nullary \cup OneReg \cup OneValue
    BY <2>1, <2>2, ShapesAre
  <2>3. CASE name \in TwoRegs \cup ValueReg
    BY <2>1, <2>3, ShapesAre
  <2>4. CASE name = "rmmovq"
    <3>1. Shapes(name) = {<<"r", ",">>, <<"r", ",", "v">>, <<"r", ",", "(", "r", ")">>, <<"r", ",", "v", "(", "r", ")">>}
      BY <2>4, ShapesAre
    <3> QED
      BY <2>1, <3>1
  <2>5. CASE name = "mrmovq"
    <3>1. Shapes(name) = {<<",", "r">>, <<"v", ",", "r">>, <<"(", "r", ")", ",", "r">>, <<"v", "(", "r", ")", ",", "r">>}
      BY <2>5, ShapesAre
    <3> QED
      BY <2>1, <3>1
  <2> QED
    BY <1>1, <2>2, <2>3, <2>4, <2>5, Operations
<1>15. (\E shape \in Operands(st) : \A i \in 2 .. (Len(shape) + 1) : st[i].type = "IDENT" => st[i].val \in names)
         <=> \E shape \in Shapes(name) : G(shape)
  BY <1>14, GoodShapes
<1>16. M(1) <=> (V(1) => K(1)) /\ (V(1) /\ O(2) => R(3) /\ P(4)) /\ (~V(1) /\ O(1) => R(2) /\ P(3))
  OBVIOUS
<1>17. M(3) <=> (V(3) => K(3)) /\ (V(3) /\ O(4) => R(5) /\ P(6)) /\ (~V(3) /\ O(3) => R(4) /\ P(5))
  OBVIOUS
<1>18. E(1) = IF V(1) THEN IF O(2) THEN 5 ELSE 2 ELSE IF O(1) THEN 4 ELSE 1
  OBVIOUS
<1> HIDE DEF R, V, C, O, P, K, M, E, G, B, name, c
<1>19. Accepts(ts, c, table) <=> \E shape \in Shapes(name) : G(shape)
  <2>0. name # "rmmovq" => name \notin {"rmmovq"}
    OBVIOUS
  <2>1. CASE name \in Nullary
    <3>1. Accepts(ts, c, table) <=> TRUE
      BY <1>9, <2>1 DEF Nullary, OneReg, OneValue, TwoRegs, ValueReg
    <3>2. Shapes(name) = {<<>>} /\ name # "rmmovq"
      BY <2>1, ShapesAre DEF Nullary, OneReg, OneValue, TwoRegs, ValueReg
    <3> QED
      BY <1>11, <3>1, <3>2
  <2>2. CASE name \in OneReg
    <3>1. Accepts(ts, c, table) <=> R(1)
      BY <1>9, <2>2 DEF Nullary, OneReg, OneValue, TwoRegs, ValueReg
    <3>2. Shapes(name) = {<<"r">>} /\ name # "rmmovq"
      BY <2>2, ShapesAre DEF Nullary, OneReg, OneValue, TwoRegs, ValueReg
    <3> QED
      BY <1>11, <3>1, <3>2
  <2>3. CASE name \in OneValue
    <3>1. Accepts(ts, c, table) <=> V(1) /\ K(1)
      BY <1>9, <2>3 DEF Nullary, OneReg, OneValue, TwoRegs, ValueReg
    <3>2. Shapes(name) = {<<"v">>} /\ name # "rmmovq"
      BY <2>3, ShapesAre DEF Nullary, OneReg, OneValue, TwoRegs, ValueReg
    <3> QED
      BY <1>11, <3>1, <3>2
  <2>4. CASE name \in TwoRegs
    <3>1. Accepts(ts, c, table) <=> R(1) /\ C(2) /\ R(3)
      BY <1>9, <2>4 DEF Nullary, OneReg, OneValue, TwoRegs, ValueReg
    <3>2. Shapes(name) = {<<"r", ",", "r">>} /\ name # "rmmovq"
      BY <2>4, ShapesAre DEF Nullary, OneReg, OneValue, TwoRegs, ValueReg
    <3> QED
      BY <1>11, <3>1, <3>2
  <2>5. CASE name \in ValueReg
    <3>1. Accepts(ts, c, table) <=> V(1) /\ K(1) /\ C(2) /\ R(3)
      BY <1>9, <2>5 DEF Nullary, OneReg, OneValue, TwoRegs, ValueReg
    <3>2. Shapes(name) = {<<"v", ",", "r">>} /\ name # "rmmovq"
      BY <2>5, ShapesAre DEF Nullary, OneReg, OneValue, TwoRegs, ValueReg
    <3> QED
      BY <1>11, <3>1, <3>2
  <2>6. CASE name = "rmmovq"
    <3>1. Accepts(ts, c, table) <=> R(1) /\ C(2) /\ M(3)
      BY <1>9, <2>6 DEF Nullary, OneReg, OneValue, TwoRegs, ValueReg
    <3>2. Shapes(name) = {<<"r", ",">>, <<"r", ",", "v">>, <<"r", ",", "(", "r", ")">>, <<"r", ",", "v", "(", "r", ")">>}
      BY <2>6, ShapesAre
    <3>3. (\E shape \in Shapes(name) : G(shape)) <=>
            \/ G(<<"r", ",">>) \/ G(<<"r", ",", "v">>) \/ G(<<"r", ",", "(", "r", ")">>)
            \/ G(<<"r", ",", "v", "(", "r", ")">>)
      BY <3>2
    <3>4. V(3) => ~O(3)
      BY <1>3
    <3> QED
      BY <1>11, <1>17, <2>6, <3>1, <3>3, <3>4
  <2>7. CASE name = "mrmovq"
    <3>1. Accepts(ts, c, table) <=> M(1) /\ C(E(1)) /\ R(E(1) + 1)
      BY <1>9, <2>7 DEF Nullary, OneReg, OneValue, TwoRegs, ValueReg
    <3>2. Shapes(name) = {<<",", "r">>, <<"v", ",", "r">>, <<"(", "r", ")", ",", "r">>, <<"v", "(", "r", ")", ",", "r">>}
      BY <2>7, ShapesAre
    <3>3. (\E shape \in Shapes(name) : G(shape)) <=>
            \/ G(<<",", "r">>) \/ G(<<"v", ",", "r">>) \/ G(<<"(", "r", ")", ",", "r">>)
            \/ G(<<"v", "(", "r", ")", ",", "r">>)
      BY <3>2
    <3>4. (V(1) => ~O(1) /\ ~C(1)) /\ (C(1) => ~O(1)) /\ (C(2) => ~O(2))
      BY <1>3
    <3>5. CASE V(1) /\ O(2)
      <4>1. E(1) = 5 /\ E(1) + 1 = 6
        BY <1>18, <3>5
      <4> QED
        BY <1>11, <1>16, <2>7, <3>1, <3>3, <3>4, <3>5, <4>1
    <3>6. CASE V(1) /\ ~O(2)
      <4>1. E(1) = 2 /\ E(1) + 1 = 3
        BY <1>18, <3>6
      <4> QED
        BY <1>11, <1>16, <2>7, <3>1, <3>3, <3>4, <3>6, <4>1
    <3>7. CASE ~V(1) /\ O(1)
      <4>1. E(1) = 4 /\ E(1) + 1 = 5
        BY <1>18, <3>7
      <4> QED
        BY <1>11, <1>16, <2>7, <3>1, <3>3, <3>4, <3>7, <4>1
    <3>8. CASE ~V(1) /\ ~O(1)
      <4>1. E(1) = 1 /\ E(1) + 1 = 2
        BY <1>18, <3>8
      <4> QED
        BY <1>11, <1>16, <2>7, <3>1, <3>3, <3>4, <3>8, <4>1
    <3> QED
      BY <3>5, <3>6, <3>7, <3>8
  <2> QED
    BY <1>1, <2>1, <2>2, <2>3, <2>4, <2>5, <2>6, <2>7, Operations
<1> QED
  BY <1>15, <1>19 DEF c, name
--------------------------------------------------------------------------
\* Places: the lengths of the table are those of the encodings.

\* The table has the lengths that the encodings have.
LEMMA SizeIs ==
  ASSUME NEW line \in SourceLine, NEW ts, ts = line.tokens
  PROVE  /\ IsInstr(ts) => Size(ts) = find_instr(NameOf(ts)).bytes
         /\ ~HasName(ts) => Size(ts) = 0
<1>1. ASSUME IsInstr(ts)
      PROVE  Size(ts) = find_instr(NameOf(ts)).bytes
  <2> DEFINE name == NameOf(ts)
  <2>1. HasName(ts) /\ name \in Instrs \ {".pos", ".align"}
    BY <1>1, StartInt, TokenParts DEF IsInstr, HasName, NameOf
  <2>2. WordBytes \in Nat
    BY SizesAssumption
  <2> HIDE DEF name
  <2>3. CASE name \in {".byte", ".word", ".long", ".quad"}
    <3>1. find_instr(name).bytes = Width(name)
      BY <2>3, Operations DEF find_instr, Entry, Width
    <3>2. ~IsCode(ts) /\ IsData(ts)
      BY <2>1, <2>3 DEF IsCode, IsData, Opcode, name
    <3> QED
      BY <3>1, <3>2 DEF Size, name
  <2>4. CASE name \notin {".byte", ".word", ".long", ".quad"}
    <3>1. name \in DOMAIN Opcode
      BY <2>1, <2>4, Operations DEF Opcode, Nullary, OneReg, TwoRegs, OneValue, ValueReg
    <3>2. find_instr(name).bytes = Length(Hi4(Opcode[name]))
      <4>1. name \in Nullary \cup OneReg \cup TwoRegs \cup (OneValue \ {".byte", ".word", ".long", ".quad"})
                     \cup ValueReg \cup {"rmmovq", "mrmovq"}
        BY <2>1, <2>4, Operations
      <4> DEFINE icode == Hi4(Opcode[name])
      <4>2. CASE name \in Nullary
        <5>1. icode \in {0, 1, 9}
          BY <4>2 DEF Nullary, Opcode, Hi4
        <5>2. find_instr(name).bytes = 1
          BY <4>2, Operations DEF Nullary, find_instr, Entry
        <5> HIDE DEF icode
        <5>3. Length(icode) = 1
          BY <5>1 DEF Length, NeedRegids, NeedImm, I_RRMOVQ, I_ALU, I_PUSHQ, I_POPQ, I_IRMOVQ, I_RMMOVQ, I_MRMOVQ, I_IADDQ, I_JM, I_JMP, I_CALL
        <5> QED
          BY <5>2, <5>3 DEF icode
      <4>3. CASE name \in OneReg
        <5>1. icode \in {10, 11}
          BY <4>3 DEF OneReg, Opcode, Hi4
        <5>2. find_instr(name).bytes = 2
          BY <4>3, Operations DEF OneReg, find_instr, Entry
        <5> HIDE DEF icode
        <5>3. Length(icode) = 2
          BY <5>1 DEF Length, NeedRegids, NeedImm, I_RRMOVQ, I_ALU, I_PUSHQ, I_POPQ, I_IRMOVQ, I_RMMOVQ, I_MRMOVQ, I_IADDQ, I_JM, I_JMP, I_CALL
        <5> QED
          BY <5>2, <5>3 DEF icode
      <4>4. CASE name \in TwoRegs
        <5>1. icode \in {2, 6}
          BY <4>4 DEF TwoRegs, Opcode, Hi4
        <5>2. find_instr(name).bytes = 2
          BY <4>4, Operations DEF TwoRegs, find_instr, Entry
        <5> HIDE DEF icode
        <5>3. Length(icode) = 2
          BY <5>1 DEF Length, NeedRegids, NeedImm, I_RRMOVQ, I_ALU, I_PUSHQ, I_POPQ, I_IRMOVQ, I_RMMOVQ, I_MRMOVQ, I_IADDQ, I_JM, I_JMP, I_CALL
        <5> QED
          BY <5>2, <5>3 DEF icode
      <4>5. CASE name \in OneValue \ {".byte", ".word", ".long", ".quad"}
        <5>1. icode \in {7, 8}
          BY <4>5 DEF OneValue, Opcode, Hi4
        <5>2. find_instr(name).bytes = 1 + WordBytes
          BY <4>5, Operations DEF OneValue, find_instr, Entry
        <5> HIDE DEF icode
        <5>3. Length(icode) = 1 + WordBytes
          BY <2>2, <5>1 DEF Length, NeedRegids, NeedImm, I_RRMOVQ, I_ALU, I_PUSHQ, I_POPQ, I_IRMOVQ, I_RMMOVQ, I_MRMOVQ, I_IADDQ, I_JM, I_JMP, I_CALL
        <5> QED
          BY <5>2, <5>3 DEF icode
      <4>6. CASE name \in ValueReg \cup {"rmmovq", "mrmovq"}
        <5>1. icode \in {3, 4, 5, 12, 14}
          BY <4>6 DEF ValueReg, Opcode, Hi4
        <5>2. find_instr(name).bytes = 2 + WordBytes
          BY <4>6, Operations DEF ValueReg, find_instr, Entry
        <5> HIDE DEF icode
        <5>3. Length(icode) = 2 + WordBytes
          BY <2>2, <5>1 DEF Length, NeedRegids, NeedImm, I_RRMOVQ, I_ALU, I_PUSHQ, I_POPQ, I_IRMOVQ, I_RMMOVQ, I_MRMOVQ, I_IADDQ, I_JM, I_JMP, I_CALL
        <5> QED
          BY <5>2, <5>3 DEF icode
      <4> QED
        BY <4>1, <4>2, <4>3, <4>4, <4>5, <4>6
    <3>3. IsCode(ts) /\ ~IsData(ts)
      BY <2>1, <2>4, <3>1 DEF IsCode, IsData, name
    <3>4. Size(ts) = Length(Hi4(Opcode[name]))
      BY <3>3 DEF Size, name
    <3> QED
      BY <3>2, <3>4 DEF name
  <2> QED
    BY <2>3, <2>4
<1>2. ~HasName(ts) => Size(ts) = 0
  BY DEF Size, IsCode, IsData
<1> QED
  BY <1>1, <1>2

\* A line that is not refused advances as it is meant to.
LEMMA AdvanceIsAfter ==
  ASSUME NEW line \in SourceLine, NEW ts, ts = line.tokens, ~Refused(ts), NEW pos \in Int, IsInt(pos)
  PROVE  After(ts, pos) = Advance(ts, pos)
<1>1. CASE IsPos(ts)
  BY <1>1, Kinds DEF Refused, After, Advance
<1>2. CASE IsAlign(ts)
  <2>1. GoodAlign(ts) /\ IsInt(NumOf(ts)) /\ NumOf(ts) > 0
    BY <1>2, StartInt, TokenParts, NumIsInt DEF Refused, GoodAlign, HasNum
  <2>2. NextMultiple(pos, NumOf(ts)) = Aligned(pos, NumOf(ts))
    BY <2>1, AlignedIsNext
  <2> QED
    BY <1>2, <2>1, <2>2, Kinds DEF After, Advance
<1>3. CASE IsInstr(ts)
  BY <1>3, SizeIs, Kinds DEF After, Advance
<1>4. CASE ~IsPos(ts) /\ ~IsAlign(ts) /\ ~IsInstr(ts)
  <2>1. ~HasName(ts)
    BY <1>4 DEF IsPos, IsAlign, IsInstr
  <2>2. After(ts, pos) = IntOf(pos + 0) /\ Advance(ts, pos) = pos
    BY <1>4, <2>1, SizeIs DEF After, Advance
  <2> QED
    BY <2>2, IntOfIs
<1> QED
  BY <1>1, <1>2, <1>3, <1>4
--------------------------------------------------------------------------
\* What holds of 1 and of each next number holds up to n.
LEMMA UpTo ==
  ASSUME NEW n \in Nat \ {0}, NEW G, 1 \in G, \A i \in 1 .. (n - 1) : i \in G => i + 1 \in G
  PROVE  1 .. n \subseteq G
<1> DEFINE T == {i \in Nat : i \in 1 .. n /\ i \notin G}
<1> SUFFICES ASSUME T # {} PROVE FALSE
  OBVIOUS
<1>1. PICK i \in T : \A j \in T : ~ (<<j, i>> \in OpToRel(<, Nat))
  BY NatLessThanWellFounded, WFMin
<1>2. i \in 1 .. n /\ i \notin G /\ i # 1
  OBVIOUS
<1>3. i - 1 \in 1 .. (n - 1) /\ i - 1 < i /\ (i - 1) + 1 = i
  BY <1>2
<1>4. <<i - 1, i>> \in OpToRel(<, Nat)
  BY <1>2, <1>3 DEF OpToRel
<1>5. i - 1 \notin T
  BY <1>1, <1>4
<1>6. i - 1 \in G
  BY <1>2, <1>3, <1>5
<1> QED
  BY <1>2, <1>3, <1>6

\* What pass 1 has seen are the places that the lines are meant to have.
LEMMA PlacesAre ==
  ASSUME Types, places[1] = 0, Len(places) = Len(source.lines) + 1, Seen(Len(source.lines))
  PROVE  Place(source) = places
<1> DEFINE n == Len(source.lines)
           Next1(f, k) == After(source.lines[k].tokens, f[k])
           Solves(f) == f = [k \in 1 .. (n + 1) |-> IF k = 1 THEN 0 ELSE After(source.lines[k - 1].tokens, f[k - 1])]
<1>1. n \in Nat /\ DOMAIN places = 1 .. (n + 1) /\ places = [k \in 1 .. (n + 1) |-> places[k]]
      /\ \A k \in 1 .. (n + 1) : places[k] \in Int
  BY SourceParts DEF Types
<1>0. \A k \in 1 .. (n + 1) : IsInt(places[k])
  <2> DEFINE G == {k \in 1 .. (n + 1) : IsInt(places[k])}
  <2>1. 1 \in G
    BY <1>1, SourcesAssumption DEF IsInt
  <2>2. ASSUME NEW k \in 1 .. n, k \in G PROVE k + 1 \in G
    <3>0. places[k + 1] = Moved(k)
      BY DEF Seen
    <3>1. k \in 1 .. (n + 1) /\ k + 1 \in 1 .. (n + 1) /\ source.lines[k] \in SourceLine
      BY <1>1, SourceParts
    <3>2. places[k] \in Int /\ IsInt(places[k])
      BY <1>1, <2>2, <3>1
    <3>3. IsInt(Moved(k))
      BY <3>1, <3>2, AdvanceInt DEF Moved, TokensAt
    <3> QED
      BY <3>0, <3>1, <3>3
  <2> HIDE DEF G
  <2>3. 1 .. (n + 1) \subseteq G
    <3>1. n + 1 \in Nat \ {0} /\ (n + 1) - 1 = n
      BY <1>1
    <3> HIDE DEF n
    <3> QED
      BY <2>1, <2>2, <3>1, UpTo
  <2> QED
    BY <2>3 DEF G
<1>2. \A k \in 1 .. n : places[k + 1] = Next1(places, k)
  <2> SUFFICES ASSUME NEW k \in 1 .. n PROVE places[k + 1] = Next1(places, k)
    OBVIOUS
  <2>0. InOrder(k) /\ places[k + 1] = Moved(k)
    BY DEF Seen
  <2>1. /\ source.lines[k] \in SourceLine /\ places[k] \in Int /\ IsInt(places[k])
        /\ InOrder(k) /\ places[k + 1] = Moved(k)
    <3>1. k \in 1 .. (n + 1) /\ source.lines[k] \in SourceLine
      BY <1>1, SourceParts
    <3> QED
      BY <1>0, <1>1, <2>0, <3>1
  <2>2. CASE Finished(k)
    <3>1. ~Refused(TokensAt(k)) /\ Moved(k) = Advance(TokensAt(k), places[k])
      BY <2>1, <2>2 DEF InOrder, Moved
    <3> QED
      BY <2>1, <3>1, AdvanceIsAfter DEF TokensAt
  <2>3. CASE ~Finished(k)
    <3>1. TokensAt(k) = <<>> /\ Moved(k) = places[k]
      BY <2>1, <2>3 DEF InOrder, Moved
    <3>2. ~Refused(TokensAt(k)) /\ ~HasName(TokensAt(k))
      BY <2>1, <3>1, Readable, NoName DEF TokensAt
    <3>3. Advance(TokensAt(k), places[k]) = places[k]
      BY <3>2, StaysPut
    <3> QED
      BY <2>1, <3>1, <3>2, <3>3, AdvanceIsAfter DEF TokensAt
  <2> QED
    BY <2>2, <2>3
<1>3. Solves(places)
  <2>1. ASSUME NEW k \in 1 .. (n + 1), k # 1
        PROVE  places[k] = After(source.lines[k - 1].tokens, places[k - 1])
    <3>1. k - 1 \in 1 .. n /\ (k - 1) + 1 = k
      BY <1>1, <2>1
    <3>2. places[(k - 1) + 1] = Next1(places, k - 1)
      BY <1>2, <3>1
    <3> QED
      BY <3>1, <3>2
  <2>2. \A k \in 1 .. (n + 1) : places[k] = IF k = 1 THEN 0 ELSE After(source.lines[k - 1].tokens, places[k - 1])
    BY <2>1
  <2> QED
    BY <1>1, <2>2
<1> DEFINE f == Place(source)
<1>4. Solves(f)
  <2>1. f = CHOOSE g : Solves(g)
    BY DEF Place
  <2> HIDE DEF Solves, f
  <2> QED
    BY <1>3, <2>1
<1> HIDE DEF f
<1>5. DOMAIN f = 1 .. (n + 1) /\ f[1] = 0 /\ \A k \in 1 .. n : f[k + 1] = Next1(f, k)
  <2>1. DOMAIN f = 1 .. (n + 1)
    BY <1>4
  <2>2. \A k \in 1 .. (n + 1) : f[k] = IF k = 1 THEN 0 ELSE After(source.lines[k - 1].tokens, f[k - 1])
    BY <1>4
  <2>3. f[1] = 0
    BY <1>1, <2>2
  <2>4. ASSUME NEW k \in 1 .. n PROVE f[k + 1] = Next1(f, k)
    <3>1. k + 1 \in 1 .. (n + 1) /\ k + 1 # 1 /\ (k + 1) - 1 = k
      BY <1>1
    <3> QED
      BY <2>2, <3>1
  <2> QED
    BY <2>1, <2>3, <2>4
<1> DEFINE G == {k \in 1 .. (n + 1) : f[k] = places[k]}
<1>6. 1 .. (n + 1) \subseteq G
  <2>1. 1 \in G
    BY <1>1, <1>5
  <2>2. ASSUME NEW k \in 1 .. (n + 1 - 1), k \in G PROVE k + 1 \in G
    <3>1. k \in 1 .. n /\ k + 1 \in 1 .. (n + 1) /\ f[k] = places[k]
      BY <1>1, <2>2
    <3> QED
      BY <1>2, <1>5, <3>1
  <2>3. n + 1 \in Nat \ {0}
    BY <1>1
  <2> DEFINE m == n + 1
  <2>4. m \in Nat \ {0} /\ \A k \in 1 .. (m - 1) : k \in G => k + 1 \in G
    BY <2>2, <2>3
  <2> HIDE DEF G, m
  <2>5. 1 .. m \subseteq G
    BY <2>1, <2>4, UpTo
  <2> QED
    BY <2>5 DEF m
<1>7. f = [k \in 1 .. (n + 1) |-> f[k]]
  BY <1>4
<1>8. \A k \in 1 .. (n + 1) : f[k] = places[k]
  BY <1>6
<1>9. f = places
  BY <1>1, <1>7, <1>8
<1> QED
  BY <1>9 DEF f

\* The first line with a label defines it.
LEMMA FirstExists ==
  ASSUME Types, NEW k \in 1 .. Len(source.lines), Labelled(TokensAt(k))
  PROVE  \E j \in 1 .. Len(source.lines) : FirstDefinition(j) /\ TokensAt(j)[1].val = TokensAt(k)[1].val
<1> DEFINE T == {j \in Nat : j \in 1 .. Len(source.lines) /\ Labelled(TokensAt(j)) /\ TokensAt(j)[1].val = TokensAt(k)[1].val}
<1>0. Len(source.lines) \in Nat
  BY SourceParts
<1>1. k \in T
  BY <1>0
<1>2. PICK j \in T : \A i \in T : ~ (<<i, j>> \in OpToRel(<, Nat))
  BY <1>1, NatLessThanWellFounded, WFMin
<1>3. \A i \in 1 .. (j - 1) : i \notin T
  <2> TAKE i \in 1 .. (j - 1)
  <2>1. i \in Nat /\ j \in Nat /\ i < j
    BY <1>0
  <2> QED
    BY <1>2, <2>1 DEF OpToRel
<1>4. \A i \in 1 .. (j - 1) : i \in Nat /\ i \in 1 .. Len(source.lines)
  BY <1>0
<1>5. FirstDefinition(j)
  BY <1>2, <1>3, <1>4 DEF FirstDefinition, TokensAt
<1> QED
  BY <1>5

\* After pass 1 the table has the labels of the source.
LEMMA LabelsAre ==
  ASSUME Types, Seen(Len(source.lines))
  PROVE  \A n : Defined(symbol_table, n) <=> n \in Labels(source)
<1>0. Len(source.lines) \in Nat /\ DOMAIN source.lines = 1 .. Len(source.lines)
  BY SourceParts
<1> TAKE n
<1>1. ASSUME Defined(symbol_table, n)
      PROVE  n \in Labels(source)
  <2>1. PICK i \in DOMAIN symbol_table : symbol_table[i].name = n
    BY <1>1 DEF Defined
  <2>2. PICK k \in 1 .. Len(source.lines) : Labelled(TokensAt(k)) /\ TokensAt(k)[1].val = symbol_table[i].name
    BY DEF Seen
  <2> QED
    BY <1>0, <2>1, <2>2 DEF Labels, TokensAt
<1>2. ASSUME n \in Labels(source)
      PROVE  Defined(symbol_table, n)
  <2>1. PICK k \in 1 .. Len(source.lines) : Labelled(TokensAt(k)) /\ TokensAt(k)[1].val = n
    BY <1>0, <1>2 DEF Labels, TokensAt
  <2>2. PICK j \in 1 .. Len(source.lines) : FirstDefinition(j) /\ TokensAt(j)[1].val = n
    BY <2>1, FirstExists
  <2>3. FoundAt(j)
    BY <2>2 DEF Seen
  <2> QED
    BY <2>2, <2>3 DEF FoundAt, Named, Defined
<1> QED
  BY <1>1, <1>2
--------------------------------------------------------------------------
\* The lines of pass 2 against what is well formed.

\* The operands have a shape, with labels of the source.
Operable(s, st) ==
  \E shape \in Operands(st) : \A i \in 2 .. (Len(shape) + 1) : st[i].type = "IDENT" => st[i].val \in Labels(s)

\* What is well formed is not refused, and an instruction has its operands.
LEMMA LineIs ==
  ASSUME NEW line \in SourceLine, NEW ts, ts = line.tokens, NEW s
  PROVE  WellFormedLine(s, line) <=>
           /\ ~line.invalid /\ ~Refused(ts)
           /\ IsInstr(ts) => Operable(s, Statement(ts))
<1> DEFINE st == Statement(ts)
<1>1. Start(ts) \in {1, 3} /\ Len(ts) \in Nat /\ DOMAIN ts = 1 .. Len(ts)
  BY StartInt, LineParts
<1>2. CASE Start(ts) > Len(ts)
  <2>1. st = <<>>
    BY <1>2, NoStatement
  <2>2. ~HasName(ts)
    BY <1>1, <1>2 DEF HasName, Type
  <2>3. Refused(ts) <=> NoColon(ts)
    BY <1>1, <1>2, <2>2 DEF Refused, IsPos, IsAlign
  <2> QED
    BY <2>1, <2>2, <2>3 DEF WellFormedLine, IsInstr
<1>3. CASE Start(ts) <= Len(ts)
  <2>1. st # <<>>
    BY <1>1, <1>3, NoStatement
  <2>2. /\ Type(st, 1) = Type(ts, Start(ts)) /\ st[1] = ts[Start(ts)]
        /\ Type(st, 2) = Type(ts, Start(ts) + 1)
        /\ Type(st, 2) = "NUM" => st[2] = ts[Start(ts) + 1]
    <3>1. /\ Start(ts) + 1 - 1 = Start(ts) /\ Start(ts) + 2 - 1 = Start(ts) + 1
          /\ 1 \in Nat \ {0} /\ 2 \in Nat \ {0} /\ Start(ts) \in DOMAIN ts
      BY <1>1, <1>3
    <3>2. Type(st, 1) = Type(ts, Start(ts)) /\ st[1] = ts[Start(ts)]
      BY <1>3, <3>1, StatementTokens
    <3>3. Type(st, 2) = Type(ts, Start(ts) + 1) /\ (2 \in DOMAIN st => st[2] = ts[Start(ts) + 1])
      BY <1>3, <3>1, StatementTokens
    <3> QED
      BY <3>2, <3>3 DEF Type
  <2> HIDE DEF st
  <2>3. WellFormedLine(s, line) <=> ~line.invalid /\ ~NoColon(ts) /\ WellFormedStatement(s, st)
    BY <2>1 DEF WellFormedLine, st
  <2>4. NoColon(ts) => ~HasName(ts)
    BY DEF NoColon, HasName, Start, Labelled
  <2>5. CASE ~HasName(ts)
    <3>1. ~WellFormedStatement(s, st)
      BY <2>2, <2>5 DEF WellFormedStatement, HasName
    <3>2. Refused(ts)
      BY <1>3, <2>5 DEF Refused
    <3> QED
      BY <2>3, <3>1, <3>2
  <2>6. CASE IsPos(ts)
    <3>1. HasName(ts) /\ st[1].val = ".pos" /\ Type(st, 1) = "INSTR"
      BY <2>2, <2>6 DEF IsPos, HasName, NameOf
    <3>2. WellFormedStatement(s, st) <=> HasNum(ts)
      BY <2>2, <3>1 DEF WellFormedStatement, HasNum
    <3>3. Refused(ts) <=> ~HasNum(ts)
      BY <2>4, <2>6, <3>1, Kinds DEF Refused
    <3> QED
      BY <2>3, <2>4, <2>6, <3>1, <3>2, <3>3, Kinds
  <2>7. CASE IsAlign(ts)
    <3>1. HasName(ts) /\ st[1].val = ".align" /\ Type(st, 1) = "INSTR"
      BY <2>2, <2>7 DEF IsAlign, HasName, NameOf
    <3>2. WellFormedStatement(s, st) <=> GoodAlign(ts)
      BY <2>2, <3>1 DEF WellFormedStatement, GoodAlign, HasNum, NumOf
    <3>3. Refused(ts) <=> ~GoodAlign(ts)
      BY <2>4, <2>7, <3>1, Kinds DEF Refused
    <3> QED
      BY <2>3, <2>4, <2>7, <3>1, <3>2, <3>3, Kinds
  <2>8. CASE IsInstr(ts)
    <3>1. HasName(ts) /\ st[1].val \notin {".pos", ".align"} /\ Type(st, 1) = "INSTR"
      BY <2>2, <2>8 DEF IsInstr, HasName, NameOf
    <3>2. WellFormedStatement(s, st) <=> Operable(s, st)
      BY <3>1 DEF WellFormedStatement, Operable
    <3>3. ~Refused(ts)
      BY <2>4, <2>8, <3>1, Kinds DEF Refused
    <3> QED
      BY <2>3, <2>4, <2>8, <3>1, <3>2, <3>3 DEF st
  <2> QED
    BY <2>5, <2>6, <2>7, <2>8 DEF IsPos, IsAlign, IsInstr
<1> QED
  BY <1>1, <1>2, <1>3

\* A line out of order makes the source ill-formed.
LEMMA OutOfOrder ==
  ASSUME Types, NEW k \in 1 .. Len(source.lines), ~InOrder(k)
  PROVE  ~WellFormed(source)
<1>1. Len(source.lines) \in Nat /\ DOMAIN source.lines = 1 .. Len(source.lines) /\ source.lines[k] \in SourceLine
  BY SourceParts
<1>2. CASE Finished(k)
  <2>1. source.lines[k].invalid \/ Refused(TokensAt(k))
    BY <1>2 DEF InOrder
  <2>2. ~WellFormedLine(source, source.lines[k])
    BY <1>1, <2>1, LineIs DEF TokensAt
  <2> QED
    BY <1>1, <1>2, <2>2 DEF WellFormed, Finished
<1>3. CASE ~Finished(k)
  <2>1. k = Len(source.lines) /\ ~source.newline /\ TokensAt(k) # <<>> /\ source.lines # <<>>
    BY <1>1, <1>3 DEF Finished, InOrder
  <2>2. ~NewlineOk(source)
    BY <2>1 DEF NewlineOk, Last, TokensAt
  <2> QED
    BY <2>2 DEF WellFormed
<1> QED
  BY <1>2, <1>3

\* Pass 2 has no error to report on a line in order.
Accepted(k) ==
  /\ TokensAt(k) # <<>> => Shown(source, places, k) <= LastAddress
  /\ IsInstr(TokensAt(k)) => Accepts(TokensAt(k), Start(TokensAt(k)), symbol_table)

\* A source is well formed if pass 2 accepts all its lines.
LEMMA SourceIs ==
  ASSUME Types, places[1] = 0, Len(places) = Len(source.lines) + 1, Seen(Len(source.lines)), ~LeavesErr(source)
  PROVE  WellFormed(source) <=> \A k \in 1 .. Len(source.lines) : Accepted(k)
<1>1. /\ Len(source.lines) \in Nat /\ DOMAIN source.lines = 1 .. Len(source.lines)
      /\ \A k \in 1 .. Len(source.lines) : source.lines[k] \in SourceLine
  BY SourceParts
<1>2. Place(source) = places
  BY PlacesAre
<1>3. \A k \in 1 .. Len(source.lines) : InOrder(k)
  BY DEF Seen
<1>4. NewlineOk(source)
  <2> SUFFICES ASSUME source.lines # <<>>, ~source.newline
               PROVE  Last(source.lines).tokens = <<>>
    BY DEF NewlineOk
  <2>1. Len(source.lines) \in 1 .. Len(source.lines)
    <3>1. source.lines \in Seq(SourceLine)
      BY SourcesAssumption DEF Types, Source
    <3> QED
      BY <3>1
  <2>2. InOrder(Len(source.lines)) /\ ~Finished(Len(source.lines))
    BY <1>1, <1>3, <2>1 DEF Finished
  <2> QED
    BY <2>2 DEF InOrder, TokensAt, Last
<1>5. ASSUME NEW k \in 1 .. Len(source.lines)
      PROVE  /\ IsInstr(TokensAt(k)) => (Accepts(TokensAt(k), Start(TokensAt(k)), symbol_table) <=> Operable(source, Statement(TokensAt(k))))
             /\ Finished(k) => (WellFormedLine(source, source.lines[k]) <=>
                                  (IsInstr(TokensAt(k)) => Accepts(TokensAt(k), Start(TokensAt(k)), symbol_table)))
             /\ ~Finished(k) => ~IsInstr(TokensAt(k))
  <2> DEFINE ts == TokensAt(k)
  <2>1. source.lines[k] \in SourceLine /\ ts = source.lines[k].tokens
    BY <1>1 DEF TokensAt
  <2>2. InOrder(k)
    BY <1>3
  <2>3. \A n : Defined(symbol_table, n) <=> n \in Labels(source)
    BY LabelsAre
  <2>4. ASSUME IsInstr(ts)
        PROVE  Accepts(ts, Start(ts), symbol_table) <=> Operable(source, Statement(ts))
    <3>1. Start(ts) <= Len(ts)
      BY <2>1, <2>4, LineParts DEF IsInstr, HasName, Type
    <3> HIDE DEF ts
    <3> QED
      BY <2>1, <2>3, <2>4, <3>1, AcceptsIs DEF Operable
  <2>5. ASSUME Finished(k)
        PROVE  WellFormedLine(source, source.lines[k]) <=> (IsInstr(ts) => Accepts(ts, Start(ts), symbol_table))
    <3>1. ~source.lines[k].invalid /\ ~Refused(ts)
      BY <2>2, <2>5 DEF InOrder
    <3> HIDE DEF ts
    <3> QED
      BY <2>1, <2>4, <3>1, LineIs
  <2>6. ASSUME ~Finished(k)
        PROVE  ~IsInstr(ts)
    <3>1. ts = <<>>
      BY <2>2, <2>6 DEF InOrder
    <3> QED
      BY <3>1 DEF IsInstr, HasName, Type
  <2> QED
    BY <2>4, <2>5, <2>6
<1>6. WellFormed(source) <=>
        /\ \A k \in 1 .. Len(source.lines) : Finished(k) => WellFormedLine(source, source.lines[k])
        /\ \A k \in 1 .. Len(source.lines) : TokensAt(k) # <<>> => Shown(source, places, k) <= LastAddress
  BY <1>1, <1>2, <1>4 DEF WellFormed, Finished, TokensAt
<1> QED
  BY <1>5, <1>6 DEF Accepted

\* A source that leaves the scanner in state ERR has to be one line without tokens.
LEMMA ErrIs ==
  ASSUME Types, LeavesErr(source)
  PROVE  WellFormed(source) <=> Len(source.lines) = 1 /\ TokensAt(1) = <<>>
<1>1. /\ Len(source.lines) \in Nat \ {0} /\ DOMAIN source.lines = 1 .. Len(source.lines)
      /\ ~source.newline /\ source.lines # <<>>
  BY SourceParts DEF LeavesErr
<1>2. NewlineOk(source) <=> Len(source.lines) = 1 /\ TokensAt(1) = <<>>
  BY <1>1 DEF NewlineOk, Last, TokensAt
<1>3. ASSUME Len(source.lines) = 1, TokensAt(1) = <<>>
      PROVE  WellFormed(source)
  <2>1. \A k \in DOMAIN source.lines : k = 1
    BY <1>1, <1>3
  <2> QED
    BY <1>1, <1>2, <1>3, <2>1 DEF WellFormed, TokensAt
<1> QED
  BY <1>2, <1>3 DEF WellFormed
--------------------------------------------------------------------------
\* The invariant of the reports.

\* What is told: an error is reported for a line that deserves it, and the program
\* ends with what it has reported.
Ended ==
  /\ status \in {"running", "success", "failure"}
  /\ status = "success" => pass = 2 /\ AtEof /\ ~hit_error
  /\ status = "failure" => hit_error
Reported ==
  /\ pass = 1 /\ (hit_error \/ leftover) => \E k \in 1 .. (at - 1) : ~InOrder(k)
  /\ pass = 2 => places[1] = 0 /\ Len(places) = Len(source.lines) + 1
  /\ pass = 2 /\ ~LeavesErr(source) => (hit_error <=> \E k \in 1 .. (at - 1) : ~Accepted(k))
InErr ==
  LeavesErr(source) =>
    /\ pass = 1 /\ ~AtEof => scanner = "INITIAL"
    /\ pass = 1 /\ AtEof => /\ scanner = "ERR"
                            /\ TokensAt(Len(source.lines)) # <<>> => hit_error \/ leftover
    /\ pass = 2 /\ Len(source.lines) = 1 => TokensAt(1) = <<>> /\ ~hit_error /\ ~leftover
    /\ pass = 2 /\ Len(source.lines) # 1 => (at = 1 /\ scanner = "ERR") \/ hit_error
Told == Ended /\ Reported /\ InErr

\* On a line in order pass 1 reports nothing.
LEMMA Quiet ==
  ASSUME Types, pass = 1, InOrder(at), scanner = "INITIAL", ~hit_error, ~leftover, LineNext
  PROVE  ~hit_error' /\ ~leftover'
<1>1. Finished(at) <=> EndsInNewline
  BY DEF Finished, EndsInNewline
<1>2. ~BadLine /\ ~Invalid /\ ~Swallow /\ ~Dropped
  BY <1>1 DEF BadLine, Invalid, Swallow, Dropped, InOrder, Read, Line, TokensAt
<1>3. CASE Blank \/ LabelLine \/ Directive \/ Measure \/ Emit
  <2>1. \A pos : ~TooFar(pos)
    BY DEF TooFar
  <2>2. ~Emit
    BY DEF Emit
  <2>3. leftover' = leftover
    BY <1>3, <2>2 DEF Blank, LabelLine, Directive, Measure
  <2>4. CASE Blank \/ Measure
    BY <2>3, <2>4 DEF Blank, Measure
  <2>5. CASE LabelLine
    <3>1. hit_error' = (hit_error \/ TooFar(bytepos))
      BY <2>5 DEF LabelLine
    <3> QED
      BY <2>1, <2>3, <3>1, Zenon
  <2>6. CASE Directive
    <3>1. hit_error' = (hit_error \/ TooFar(Advance(Line.tokens, bytepos)))
      BY <2>6 DEF Directive
    <3> QED
      BY <2>1, <2>3, <3>1, Zenon
  <2> QED
    BY <1>3, <2>2, <2>4, <2>5, <2>6
<1>4. CASE Unfinished
  <2>1. Line.tokens = <<>>
    BY <1>1, <1>4 DEF Unfinished, InOrder, Line, TokensAt
  <2> QED
    BY <1>4, <2>1 DEF Unfinished
<1> QED
  BY <1>2, <1>3, <1>4 DEF LineNext

\* Pass 2 reports an error on a line that it does not accept, and on no other.
LEMMA Judged ==
  ASSUME Types, ~AtEof, pass = 2, Len(places) = Len(source.lines) + 1, Seen(Len(source.lines)),
         scanner = "INITIAL", ~leftover, places[at] = bytepos, LineNext
  PROVE  hit_error' <=> hit_error \/ ~Accepted(at)
<1> DEFINE ts == TokensAt(at)
<1>1. /\ at \in 1 .. Len(source.lines) /\ Len(source.lines) \in Nat /\ source.lines[at] \in SourceLine
      /\ ts = Line.tokens /\ Line \in SourceLine
  BY SourceParts DEF Types, AtEof, Line, TokensAt
<1>2. InOrder(at) /\ places[at + 1] = Moved(at)
  BY <1>1 DEF Seen
<1>3. Finished(at) <=> EndsInNewline
  BY DEF Finished, EndsInNewline
<1>4. ~BadLine /\ ~Invalid /\ ~Swallow /\ ~Dropped /\ ~Measure
  BY <1>2, <1>3 DEF BadLine, Invalid, Swallow, Dropped, Measure, InOrder, Read, Line, TokensAt
<1>5. \A pos : TooFar(pos) <=> pos > LastAddress
  BY DEF TooFar
<1>6. bytepos \in Int /\ hit_error \in BOOLEAN
  BY DEF Types
<1>7. CASE ts = <<>> /\ (Blank \/ Unfinished)
  <2>1. Accepted(at)
    BY <1>7 DEF Accepted, IsInstr, HasName, Type
  <2> QED
    BY <1>7, <2>1 DEF Blank, Unfinished
<1>8. CASE LabelLine
  <2>1. ts # <<>> /\ ~HasName(ts)
    <3>1. Labelled(ts) /\ Len(ts) = 2
      BY <1>1, <1>8 DEF LabelLine
    <3> HIDE DEF ts
    <3> QED
      BY <1>1, <3>1, NoName, NothingLabelled
  <2>2. Shown(source, places, at) = bytepos
    BY <2>1 DEF Shown, IsPos, IsAlign, TokensAt
  <2>3. Accepted(at) <=> bytepos <= LastAddress
    BY <2>1, <2>2 DEF Accepted, IsInstr
  <2>4. hit_error' <=> hit_error \/ bytepos > LastAddress
    BY <1>5, <1>8 DEF LabelLine
  <2> QED
    BY <1>6, <2>3, <2>4 DEF LastAddress
<1>9. CASE Directive
  <2> DEFINE pos == Advance(ts, bytepos)
  <2>1. GoodDirective(ts) /\ Finished(at)
    BY <1>1, <1>3, <1>9 DEF Directive, Read
  <2>2. IsPos(ts) \/ IsAlign(ts)
    BY <2>1 DEF GoodDirective
  <2>3. ts # <<>> /\ ~IsInstr(ts)
    BY <2>2, Kinds DEF IsPos, IsAlign, HasName, Type
  <2>4. pos \in Int /\ places[at + 1] = pos
    <3>1. Moved(at) = pos
      BY <2>1 DEF Moved
    <3> HIDE DEF ts
    <3> QED
      BY <1>1, <1>2, <1>6, <3>1, AdvanceInt
  <2>5. Shown(source, places, at) = pos
    BY <2>2, <2>4 DEF Shown, TokensAt
  <2>6. Accepted(at) <=> pos <= LastAddress
    BY <2>3, <2>5 DEF Accepted
  <2>7. hit_error' <=> hit_error \/ pos > LastAddress
    BY <1>1, <1>5, <1>9 DEF Directive
  <2> HIDE DEF pos
  <2> QED
    BY <2>4, <2>6, <2>7 DEF LastAddress
<1>10. CASE Emit
  <2> DEFINE p == Assembled(ts, Start(ts), symbol_table, code)
  <2>1. IsInstr(ts)
    BY <1>1, <1>10 DEF Emit
  <2>2. ts # <<>> /\ ~IsPos(ts) /\ ~IsAlign(ts)
    BY <2>1, Kinds DEF IsInstr, HasName, Type
  <2>3. Shown(source, places, at) = bytepos
    BY <2>2 DEF Shown, TokensAt
  <2>4. Accepted(at) <=> bytepos <= LastAddress /\ Accepts(ts, Start(ts), symbol_table)
    BY <2>1, <2>2, <2>3 DEF Accepted
  <2>5. Start(ts) \in Nat \ {0} /\ NameOf(ts) \in Instrs \ {".pos", ".align"} /\ NameOf(ts) = ts[Start(ts)].val
    <3> HIDE DEF ts
    <3>1. Start(ts) \in Nat \ {0} /\ HasName(ts) /\ NameOf(ts) \notin {".pos", ".align"}
      BY <2>1, StartInt DEF IsInstr
    <3>2. ts[Start(ts)].val \in Instrs
      BY <1>1, <3>1, TokenParts DEF HasName
    <3> QED
      BY <3>1, <3>2 DEF NameOf
  <2>6. p.ok \in BOOLEAN /\ (p.ok <=> Accepts(ts, Start(ts), symbol_table)) /\ (p.ok => p.printed = TRUE)
    BY <2>5, AssembledOk
  <2>7. hit_error' <=> hit_error \/ ~p.ok \/ (p.printed /\ bytepos > LastAddress)
    BY <1>1, <1>5, <1>10 DEF Emit
  <2> HIDE DEF p
  <2>8. bytepos > LastAddress <=> ~(bytepos <= LastAddress)
    BY <1>6 DEF LastAddress
  <2> QED
    BY <2>4, <2>6, <2>7, <2>8, Zenon
<1>11. Blank \/ Unfinished => ts = <<>>
  BY <1>1, <1>2, <1>3 DEF Blank, Unfinished, Read, InOrder
<1> QED
  BY <1>4, <1>7, <1>8, <1>9, <1>10, <1>11 DEF LineNext

\* The status follows the errors.
LEMMA EndedStep ==
  ASSUME Types, Ended, LineNext
  PROVE  Ended' /\ (hit_error => hit_error')
<1>1. status = "running"
  BY DEF LineNext, Blank, Dropped, LabelLine, BadLine, Directive, Measure, Emit, Invalid, Swallow, Unfinished, Read
<1>2. hit_error \in BOOLEAN
  BY DEF Types
<1>3. CASE Blank \/ Dropped \/ BadLine \/ Measure \/ Invalid \/ Swallow \/ Unfinished
  <2>1. status' = status /\ (hit_error => hit_error')
    BY <1>3 DEF Blank, Dropped, BadLine, Measure, Invalid, Swallow, Unfinished, PrintNothing, fail
  <2> QED
    BY <1>1, <2>1 DEF Ended
<1>4. ASSUME NEW pos, NEW bytes, PrintCode(pos, bytes), TooFar(pos) => hit_error'
      PROVE  Ended'
  BY <1>1, <1>4 DEF PrintCode, Ended
<1>5. CASE LabelLine
  BY <1>2, <1>4, <1>5 DEF LabelLine
<1>6. CASE Directive
  BY <1>2, <1>4, <1>6 DEF Directive
<1>7. CASE Emit
  <2> DEFINE p == Assembled(Line.tokens, Start(Line.tokens), symbol_table, code)
             bytes == [i \in 1 .. find_instr(NameOf(Line.tokens)).bytes |-> p.code[i - 1]]
  <2>1. /\ IF p.printed THEN PrintCode(bytepos, bytes) ELSE PrintNothing
        /\ hit_error' = (hit_error \/ ~p.ok \/ (p.printed /\ TooFar(bytepos)))
    BY <1>7 DEF Emit
  <2> HIDE DEF p, bytes
  <2>2. hit_error => hit_error'
    BY <2>1
  <2>3. CASE p.printed
    <3>1. TooFar(bytepos) => hit_error'
      BY <2>1, <2>3
    <3> QED
      BY <1>4, <2>1, <2>2, <2>3, <3>1
  <2>4. CASE ~p.printed
    BY <1>1, <2>1, <2>2, <2>4 DEF PrintNothing, Ended
  <2> QED
    BY <2>3, <2>4
<1> QED
  BY <1>3, <1>5, <1>6, <1>7 DEF LineNext
--------------------------------------------------------------------------
\* A step on a line, in the sources that leave the scanner in its first state.
LEMMA ReportedStep ==
  ASSUME IInv, Told, LineNext
  PROVE  Reported'
<1>1. ~AtEof /\ (Regular \/ Faulty \/ Waiting)
  BY LineEffect DEF IInv
<1>2. at \in 1 .. Len(source.lines) /\ Len(source.lines) \in Nat /\ Types
  BY <1>1, SourceParts DEF IInv, Types, AtEof
<1>3. source' = source /\ pass' = pass /\ at' = at + 1 /\ at' - 1 = at
  BY <1>1, <1>2 DEF Regular, Faulty, Waiting, NextLine
<1>4. ASSUME pass = 1, hit_error' \/ leftover'
      PROVE  \E k \in 1 .. at : ~InOrder(k)
  <2>1. CASE hit_error \/ leftover
    <3>1. PICK k \in 1 .. (at - 1) : ~InOrder(k)
      BY <1>4, <2>1 DEF Told, Reported
    <3> QED
      BY <1>2, <3>1
  <2>2. CASE ~hit_error /\ ~leftover
    <3>1. scanner = "INITIAL"
      BY <1>1, <1>4 DEF Told, InErr, IInv, ScannerExplained
    <3>2. ~InOrder(at)
      BY <1>2, <1>4, <2>2, <3>1, Quiet
    <3> QED
      BY <1>2, <3>2
  <2> QED
    BY <2>1, <2>2
<1>5. \A k : InOrder(k)' <=> InOrder(k)
  BY <1>3 DEF InOrder, Finished, TokensAt
<1>6. pass = 2 => UNCHANGED <<places, symbol_table>>
  BY <1>1 DEF Regular, Faulty, Waiting, NextLine, Recorded
<1>7. ASSUME pass = 2, ~LeavesErr(source)
      PROVE  hit_error' <=> \E k \in 1 .. at : ~Accepted(k)
  <2>1. /\ ~leftover /\ scanner = "INITIAL" /\ places[at] = bytepos
        /\ Len(places) = Len(source.lines) + 1 /\ Seen(Len(source.lines))
    BY <1>7 DEF IInv, SecondPass, ScannerExplained
  <2>2. hit_error' <=> hit_error \/ ~Accepted(at)
    BY <1>1, <1>2, <1>7, <2>1, Judged
  <2>3. hit_error <=> \E k \in 1 .. (at - 1) : ~Accepted(k)
    BY <1>7 DEF Told, Reported
  <2>4. \A k : k \in 1 .. at <=> k \in 1 .. (at - 1) \/ k = at
    BY <1>2
  <2> QED
    BY <2>2, <2>3, <2>4, Zenon
<1>8. ASSUME pass = 2
      PROVE  \A k : Accepted(k)' <=> Accepted(k)
  BY <1>3, <1>6, <1>8 DEF Accepted, TokensAt, Shown
<1>9. (pass = 1 /\ (hit_error \/ leftover))' => (\E k \in 1 .. (at - 1) : ~InOrder(k))'
  <2>1. (\E k \in 1 .. (at - 1) : ~InOrder(k))' <=> \E k \in 1 .. at : ~InOrder(k)
    BY <1>3, <1>5
  <2> QED
    BY <1>3, <1>4, <2>1
<1>10. (pass = 2 /\ ~LeavesErr(source))' => (hit_error <=> \E k \in 1 .. (at - 1) : ~Accepted(k))'
  <2> SUFFICES ASSUME pass = 2, ~LeavesErr(source)
               PROVE  hit_error' <=> (\E k \in 1 .. (at - 1) : ~Accepted(k))'
    BY <1>3
  <2>1. (\E k \in 1 .. (at - 1) : ~Accepted(k))' <=> \E k \in 1 .. at : ~Accepted(k)
    BY <1>3, <1>8
  <2> QED
    BY <1>7, <2>1
<1>11. pass' = 2 => (places[1] = 0 /\ Len(places) = Len(source.lines) + 1)'
  BY <1>3, <1>6 DEF Told, Reported
<1> QED
  BY <1>9, <1>10, <1>11 DEF Reported

\* A step on a line, in a source that ends in a comment without newline.
LEMMA InErrStep ==
  ASSUME IInv, Told, LineNext
  PROVE  InErr'
<1>1. ~AtEof /\ (Regular \/ Faulty \/ Waiting)
  BY LineEffect DEF IInv
<1>2. /\ at \in 1 .. Len(source.lines) /\ Len(source.lines) \in Nat /\ Types
      /\ hit_error \in BOOLEAN /\ leftover \in BOOLEAN
  BY <1>1, SourceParts DEF IInv, Types, AtEof
<1>3. source' = source /\ pass' = pass /\ at' = at + 1
  BY <1>1 DEF Regular, Faulty, Waiting, NextLine
<1> SUFFICES ASSUME LeavesErr(source)
             PROVE  /\ pass = 1 /\ ~AtEof' => scanner' = "INITIAL"
                    /\ pass = 1 /\ AtEof' => /\ scanner' = "ERR"
                                             /\ TokensAt(Len(source.lines)) # <<>> => hit_error' \/ leftover'
                    /\ pass = 2 /\ Len(source.lines) = 1 => TokensAt(1) = <<>> /\ ~hit_error' /\ ~leftover'
                    /\ pass = 2 /\ Len(source.lines) # 1 => (at' = 1 /\ scanner' = "ERR") \/ hit_error'
  BY <1>3 DEF InErr, TokensAt
<1>4. ~source.newline /\ source.lines[Len(source.lines)].invalid
  BY DEF LeavesErr
<1>5. EndsInNewline <=> at < Len(source.lines)
  BY <1>4 DEF EndsInNewline
<1>6. hit_error => hit_error'
  BY <1>2, EndedStep DEF Told
<1>7. CASE at < Len(source.lines)
  <2>1. ~AtEof'
    BY <1>2, <1>3, <1>7 DEF AtEof
  <2>2. pass = 1 => scanner = "INITIAL"
    BY <1>1 DEF Told, InErr
  <2>3. ~Unfinished
    BY <1>5, <1>7 DEF Unfinished
  <2>4. scanner = "INITIAL" => scanner' = "INITIAL"
    BY <2>3 DEF LineNext, Blank, Dropped, LabelLine, BadLine, Directive, Measure, Emit, Invalid, Swallow
  <2>5. scanner = "ERR" => hit_error'
    BY <2>3 DEF LineNext, Blank, Dropped, LabelLine, BadLine, Directive, Measure, Emit, Invalid, Swallow, Read, fail
  <2>6. Len(source.lines) # 1
    <3>1. at >= 1 /\ at \in Nat /\ Len(source.lines) \in Nat
      BY <1>2
    <3> DEFINE n == Len(source.lines)
    <3>2. n \in Nat /\ at < n
      BY <1>7, <3>1
    <3> HIDE DEF n
    <3>3. n # 1
      BY <3>1, <3>2
    <3> QED
      BY <3>3 DEF n
  <2>7. pass = 2 => hit_error \/ scanner = "ERR"
    BY <2>6 DEF Told, InErr
  <2> QED
    BY <1>6, <2>1, <2>2, <2>4, <2>5, <2>6, <2>7
<1>8. CASE ~(at < Len(source.lines))
  <2>1. at = Len(source.lines) /\ AtEof' /\ Line = source.lines[at]
    BY <1>2, <1>3, <1>8 DEF AtEof, Line
  <2>2. Unfinished
    BY <1>5, <1>8 DEF LineNext, Blank, Dropped, LabelLine, BadLine, Directive, Measure, Emit, Invalid, Swallow, Unfinished, Read
  <2>3. /\ scanner' = "ERR" /\ hit_error' = hit_error
        /\ leftover' <=> leftover \/ (scanner = "INITIAL" /\ TokensAt(at) # <<>>)
    BY <1>4, <2>1, <2>2 DEF Unfinished, TokensAt
  <2>4. pass = 1 => scanner = "INITIAL"
    BY <1>1 DEF Told, InErr
  <2>5. /\ pass = 2 /\ Len(source.lines) = 1 => TokensAt(1) = <<>> /\ ~hit_error /\ ~leftover
        /\ pass = 2 /\ Len(source.lines) # 1 => at = 1 \/ hit_error
    BY DEF Told, InErr
  <2>6. Len(source.lines) # 1 => at # 1
    BY <2>1
  <2> QED
    BY <2>1, <2>3, <2>4, <2>5, <2>6
<1> QED
  BY <1>7, <1>8

\* A pass ends.
LEMMA ToldEnd ==
  ASSUME IInv, Told, EndOfPass
  PROVE  Told'
<1>1. /\ UNCHANGED <<source, scanner, leftover, symbol_table, places>>
      /\ hit_error' = (hit_error \/ leftover)
      /\ AtEof /\ status = "running"
  BY DEF EndOfPass
<1>2. Len(source.lines) \in Nat /\ at = Len(source.lines) + 1 /\ Types /\ hit_error \in BOOLEAN /\ leftover \in BOOLEAN
  BY <1>1, SourceParts DEF IInv, Types, AtEof
<1>3. hit_error' <=> hit_error \/ leftover
  BY <1>1, <1>2
<1>4. CASE pass = 1 /\ ~hit_error'
  <2>1. pass' = 2 /\ at' = 1 /\ status' = "running" /\ ~hit_error /\ ~leftover
    BY <1>1, <1>3, <1>4 DEF EndOfPass
  <2>2. Ended'
    BY <2>1 DEF Ended
  <2>3. (places[1] = 0 /\ Len(places) = Len(source.lines) + 1)'
    BY <1>1, <1>2, <1>4 DEF IInv, FirstPass
  <2>4. Reported'
    <3>1. at' - 1 = 0 /\ ~hit_error'
      BY <1>4, <2>1
    <3>2. ~ (\E k \in 1 .. (at - 1) : ~Accepted(k))'
      BY <3>1
    <3> QED
      BY <2>1, <2>3, <3>1, <3>2 DEF Reported
  <2>5. LeavesErr(source) => scanner = "ERR" /\ TokensAt(Len(source.lines)) = <<>>
    BY <1>1, <1>4, <2>1 DEF Told, InErr
  <2>6. InErr'
    BY <1>1, <1>4, <2>1, <2>5 DEF InErr, TokensAt
  <2> QED
    BY <2>2, <2>4, <2>6 DEF Told
<1>5. CASE ~(pass = 1 /\ ~hit_error')
  <2>1. UNCHANGED <<pass, at>> /\ status' = IF hit_error' THEN "failure" ELSE "success"
    BY <1>5 DEF EndOfPass
  <2>2. Ended'
    <3>1. ~hit_error' => pass = 2
      BY <1>2, <1>5 DEF Types
    <3> QED
      BY <1>1, <2>1, <3>1 DEF Ended, AtEof
  <2>3. Reported'
    <3>1. \A k : InOrder(k)' <=> InOrder(k)
      BY <1>1 DEF InOrder, Finished, TokensAt
    <3>2. \A k : Accepted(k)' <=> Accepted(k)
      BY <1>1 DEF Accepted, Shown, TokensAt
    <3>3. pass = 2 /\ ~LeavesErr(source) => ~leftover
      BY DEF IInv, SecondPass
    <3>4. (\E k \in 1 .. (at - 1) : ~InOrder(k))' <=> \E k \in 1 .. (at - 1) : ~InOrder(k)
      BY <2>1, <3>1
    <3>5. (\E k \in 1 .. (at - 1) : ~Accepted(k))' <=> \E k \in 1 .. (at - 1) : ~Accepted(k)
      BY <2>1, <3>2
    <3>6. (pass = 1 /\ (hit_error \/ leftover))' => (\E k \in 1 .. (at - 1) : ~InOrder(k))'
      BY <1>1, <1>3, <2>1, <3>4 DEF Told, Reported
    <3>7. (pass = 2 => places[1] = 0 /\ Len(places) = Len(source.lines) + 1)'
      BY <1>1, <2>1 DEF Told, Reported
    <3>8. (pass = 2 /\ ~LeavesErr(source))' => (hit_error <=> \E k \in 1 .. (at - 1) : ~Accepted(k))'
      BY <1>1, <1>3, <2>1, <3>3, <3>5 DEF Told, Reported
    <3> QED
      BY <3>6, <3>7, <3>8 DEF Reported
  <2>4. InErr'
    <3>1. AtEof' <=> AtEof
      BY <1>1, <2>1 DEF AtEof
    <3> QED
      BY <1>1, <1>3, <2>1, <3>1 DEF Told, InErr, TokensAt
  <2> QED
    BY <2>2, <2>3, <2>4 DEF Told
<1> QED
  BY <1>4, <1>5

\* A step that changes nothing.
LEMMA ToldStutter ==
  ASSUME Told, UNCHANGED vars
  PROVE  Told'
<1>1. UNCHANGED <<source, pass, at, scanner, leftover, symbol_table, hit_error, status, places>>
  BY DEF vars
<1>2. Ended' /\ InErr'
  BY <1>1 DEF Told, Ended, InErr, AtEof, TokensAt
<1>3. Reported'
  <2>1. \A k : InOrder(k)' <=> InOrder(k)
    BY <1>1 DEF InOrder, Finished, TokensAt
  <2>2. \A k : Accepted(k)' <=> Accepted(k)
    BY <1>1 DEF Accepted, Shown, TokensAt
  <2>3. (\E k \in 1 .. (at - 1) : ~InOrder(k))' <=> \E k \in 1 .. (at - 1) : ~InOrder(k)
    BY <1>1, <2>1
  <2>4. (\E k \in 1 .. (at - 1) : ~Accepted(k))' <=> \E k \in 1 .. (at - 1) : ~Accepted(k)
    BY <1>1, <2>2
  <2> QED
    BY <1>1, <2>3, <2>4 DEF Told, Reported
<1> QED
  BY <1>2, <1>3 DEF Told

\* Before the first line nothing is told.
LEMMA ToldInit ==
  ASSUME Init
  PROVE  Told
<1>1. Types
  BY InitStep DEF IInv
<1>2. Ended /\ Reported
  BY DEF Init, Ended, Reported
<1>3. InErr
  BY DEF Init, InErr, LeavesErr, AtEof
<1> QED
  BY <1>2, <1>3 DEF Told

\* Errors are reported for the lines that deserve it, in both passes.
THEOREM ReportsAreRight == Spec => [](IInv /\ Told)
<1>1. Init => IInv /\ Told
  BY InitStep, ToldInit
<1>2. IInv /\ Told /\ [Next]_vars => IInv' /\ Told'
  <2> SUFFICES ASSUME IInv, Told, [Next]_vars PROVE IInv' /\ Told'
    OBVIOUS
  <2>1. CASE LineNext
    <3>1. Ended'
      BY <2>1, EndedStep DEF IInv, Told
    <3> QED
      BY <2>1, <3>1, LineStep, ReportedStep, InErrStep DEF Told
  <2>2. CASE EndOfPass
    BY <2>2, EndStep, ToldEnd
  <2>3. CASE UNCHANGED vars
    BY <2>3, StutterStep, ToldStutter
  <2> QED
    BY <2>1, <2>2, <2>3 DEF Next, LineNext
<1> QED
  BY <1>1, <1>2, PTL DEF Spec

\* yas succeeds on the sources that are well formed, and on no others (yas.c, main).
THEOREM ExitStatusIsRight == Spec => []ExitStatusRight
<1>1. IInv /\ Told => ExitStatusRight
  <2> SUFFICES ASSUME IInv, Told, status # "running"
               PROVE  status = "success" <=> WellFormed(source)
    BY DEF ExitStatusRight
  <2>0. Types /\ Len(source.lines) \in Nat
    BY SourceParts DEF IInv
  <2>1. CASE status = "success"
    <3>1. pass = 2 /\ at = Len(source.lines) + 1 /\ ~hit_error
      BY <2>0, <2>1 DEF Told, Ended, Types, AtEof
    <3>2. CASE LeavesErr(source)
      <4>1. Len(source.lines) = 1 /\ TokensAt(1) = <<>>
        <5>1. Len(source.lines) # 0
          BY <3>2 DEF LeavesErr
        <5>2. at # 1
          BY <2>0, <3>1, <5>1
        <5> QED
          BY <3>1, <3>2, <5>2 DEF Told, InErr
      <4> QED
        BY <2>0, <2>1, <3>2, <4>1, ErrIs
    <3>3. CASE ~LeavesErr(source)
      <4>1. /\ places[1] = 0 /\ Len(places) = Len(source.lines) + 1 /\ Seen(Len(source.lines))
        BY <3>1, <3>3 DEF Told, Reported, IInv, SecondPass
      <4>2. \A k \in 1 .. (at - 1) : Accepted(k)
        BY <3>1, <3>3 DEF Told, Reported
      <4>3. at - 1 = Len(source.lines)
        BY <2>0, <3>1
      <4> QED
        BY <2>0, <2>1, <3>3, <4>1, <4>2, <4>3, SourceIs
    <3> QED
      BY <3>2, <3>3
  <2>2. CASE status = "failure"
    <3>1. hit_error
      BY <2>2 DEF Told, Ended
    <3>2. at - 1 \in Int /\ 1 .. (at - 1) \subseteq 1 .. Len(source.lines)
      BY <2>0 DEF Types
    <3>3. CASE pass = 1
      <4>1. PICK k \in 1 .. (at - 1) : ~InOrder(k)
        BY <3>1, <3>3 DEF Told, Reported
      <4> QED
        BY <2>0, <2>2, <3>2, <4>1, OutOfOrder
    <3>4. CASE pass = 2 /\ LeavesErr(source)
      <4>1. Len(source.lines) # 1
        BY <3>1, <3>4 DEF Told, InErr
      <4> QED
        BY <2>0, <2>2, <3>4, <4>1, ErrIs
    <3>5. CASE pass = 2 /\ ~LeavesErr(source)
      <4>1. /\ places[1] = 0 /\ Len(places) = Len(source.lines) + 1 /\ Seen(Len(source.lines))
        BY <3>5 DEF Told, Reported, IInv, SecondPass
      <4>2. PICK k \in 1 .. (at - 1) : ~Accepted(k)
        BY <3>1, <3>5 DEF Told, Reported
      <4> QED
        BY <2>0, <2>2, <3>2, <3>5, <4>1, <4>2, SourceIs
    <3> QED
      BY <2>0, <3>3, <3>4, <3>5 DEF Types
  <2> QED
    BY <2>1, <2>2 DEF Told, Ended
<1> QED
  BY <1>1, ReportsAreRight, PTL
--------------------------------------------------------------------------
\* Bytes of numbers.

\* Doublings from 1 on.
Doubles(n) == \E g \in [0 .. n -> Nat \ {0}] : g[0] = 1 /\ \A i \in 1 .. n : g[i] = 2 * g[i - 1]

\* There are as many as one likes.
LEMMA DoublesExist == \A n \in Nat \ {0} : Doubles(n)
<1> DEFINE G == {n \in Nat \ {0} : Doubles(n)}
<1>1. 1 \in G
  <2> DEFINE g == [i \in 0 .. 1 |-> IF i = 0 THEN 1 ELSE 2]
  <2>1. g \in [0 .. 1 -> Nat \ {0}] /\ g[0] = 1 /\ \A i \in 1 .. 1 : g[i] = 2 * g[i - 1]
    OBVIOUS
  <2> HIDE DEF g
  <2> QED
    BY <2>1 DEF Doubles
<1>2. ASSUME NEW n \in G PROVE n + 1 \in G
  <2>1. n \in Nat \ {0} /\ Doubles(n)
    OBVIOUS
  <2>2. PICK g \in [0 .. n -> Nat \ {0}] : g[0] = 1 /\ \A i \in 1 .. n : g[i] = 2 * g[i - 1]
    BY <2>1 DEF Doubles
  <2> HIDE DEF G
  <2> DEFINE h == [i \in 0 .. (n + 1) |-> IF i = n + 1 THEN 2 * g[n] ELSE g[i]]
  <2>3. h \in [0 .. (n + 1) -> Nat \ {0}] /\ h[0] = 1
    <3>1. \A i \in 0 .. (n + 1) : i = n + 1 \/ i \in 0 .. n
      BY <2>1
    <3>2. 2 * g[n] \in Nat \ {0} /\ n + 1 # 0 /\ 0 \in 0 .. (n + 1)
      BY <2>1, <2>2
    <3> QED
      BY <2>2, <3>1, <3>2
  <2>4. ASSUME NEW i \in 1 .. (n + 1) PROVE h[i] = 2 * h[i - 1]
    <3>1. CASE i = n + 1
      BY <2>1, <3>1
    <3>2. CASE i # n + 1
      BY <2>1, <2>2, <3>2
    <3> QED
      BY <3>1, <3>2
  <2> HIDE DEF h
  <2>5. Doubles(n + 1)
    BY <2>3, <2>4 DEF Doubles
  <2> QED
    BY <2>1, <2>5 DEF G
<1>3. \A n \in Nat \ {0} : 1 .. n \subseteq G
  <2> TAKE n \in Nat \ {0}
  <2>1. \A i \in 1 .. (n - 1) : i \in G => i + 1 \in G
    BY <1>2
  <2> HIDE DEF G
  <2> QED
    BY <1>1, <2>1, UpTo
<1> QED
  <2> TAKE n \in Nat \ {0}
  <2>1. n \in 1 .. n
    OBVIOUS
  <2> QED
    BY <1>3, <2>1

\* The powers of two.
LEMMA Powers ==
  /\ Pow2 \in [0 .. (8 * WordBytes) -> Nat \ {0}]
  /\ Pow2[0] = 1
  /\ \A i \in 1 .. (8 * WordBytes) : Pow2[i] = 2 * Pow2[i - 1]
<1> DEFINE n == 8 * WordBytes
           Body(f) == [i \in 0 .. n |-> IF i = 0 THEN 1 ELSE 2 * f[i - 1]]
<1>1. n \in Nat \ {0}
  BY SizesAssumption
<1>2. PICK g \in [0 .. n -> Nat \ {0}] : g[0] = 1 /\ \A i \in 1 .. n : g[i] = 2 * g[i - 1]
  <2> HIDE DEF n
  <2> QED
    BY <1>1, DoublesExist DEF Doubles
<1>3. g = Body(g)
  <2> HIDE DEF n
  <2> QED
    BY <1>1, <1>2
<1>4. Pow2 = Body(Pow2)
  BY <1>3 DEF Pow2
<1> HIDE DEF n
<1>5. Pow2[0] = 1 /\ \A i \in 1 .. n : Pow2[i] = 2 * Pow2[i - 1]
  BY <1>1, <1>4
<1> DEFINE G == {i \in 1 .. n : Pow2[i] = g[i]}
<1>6. 1 .. n \subseteq G
  <2>1. 1 \in G
    <3>1. 1 \in 1 .. n /\ 1 - 1 = 0
      BY <1>1
    <3>2. Pow2[1] = 2 * Pow2[0] /\ g[1] = 2 * g[0]
      BY <1>2, <1>5, <3>1
    <3> QED
      BY <1>2, <1>5, <3>1, <3>2
  <2>2. ASSUME NEW i \in 1 .. (n - 1), i \in G PROVE i + 1 \in G
    <3>1. i + 1 \in 1 .. n /\ (i + 1) - 1 = i
      BY <1>1
    <3>2. Pow2[i + 1] = 2 * Pow2[i] /\ g[i + 1] = 2 * g[i]
      BY <1>2, <1>5, <3>1
    <3> QED
      BY <2>2, <3>1, <3>2
  <2> HIDE DEF G
  <2> QED
    BY <1>1, <2>1, <2>2, UpTo
<1>7. \A i \in 0 .. n : Pow2[i] \in Nat \ {0}
  <2> TAKE i \in 0 .. n
  <2>1. CASE i = 0
    BY <1>5, <2>1
  <2>2. CASE i \in 1 .. n
    BY <1>2, <1>6, <2>2
  <2> QED
    BY <1>1, <2>1, <2>2
<1>8. Pow2 \in [0 .. n -> Nat \ {0}]
  BY <1>4, <1>7
<1> QED
  BY <1>5, <1>8 DEF n

\* Eight doublings.
LEMMA Pow256 ==
  ASSUME NEW k \in Nat, k < WordBytes
  PROVE  /\ Pow2[8 * k] \in Nat \ {0}
         /\ Pow2[8 * (k + 1)] = 256 * Pow2[8 * k]
<1> DEFINE n == 8 * WordBytes
           j == 8 * k
<1>1. n \in Nat /\ j \in Nat /\ j + 8 <= n
  BY SizesAssumption
<1>2. 8 * (k + 1) = j + 8
  OBVIOUS
<1>3. Pow2 \in [0 .. n -> Nat \ {0}] /\ \A i \in 1 .. n : Pow2[i] = 2 * Pow2[i - 1]
  BY Powers
<1> HIDE DEF n, j
<1>4. ASSUME NEW d \in 1 .. 8 PROVE Pow2[j + d] = 2 * Pow2[j + d - 1]
  BY <1>1, <1>3
<1>5. /\ Pow2[j + 1] = 2 * Pow2[j + 1 - 1] /\ Pow2[j + 2] = 2 * Pow2[j + 2 - 1]
      /\ Pow2[j + 3] = 2 * Pow2[j + 3 - 1] /\ Pow2[j + 4] = 2 * Pow2[j + 4 - 1]
      /\ Pow2[j + 5] = 2 * Pow2[j + 5 - 1] /\ Pow2[j + 6] = 2 * Pow2[j + 6 - 1]
      /\ Pow2[j + 7] = 2 * Pow2[j + 7 - 1] /\ Pow2[j + 8] = 2 * Pow2[j + 8 - 1]
  BY <1>4
<1>6. /\ j + 1 - 1 = j /\ j + 2 - 1 = j + 1 /\ j + 3 - 1 = j + 2 /\ j + 4 - 1 = j + 3 /\ j + 5 - 1 = j + 4
      /\ j + 6 - 1 = j + 5 /\ j + 7 - 1 = j + 6 /\ j + 8 - 1 = j + 7
  BY <1>1
<1>7. Pow2[j] \in Nat \ {0}
  BY <1>1, <1>3
<1>8. Pow2[j + 8] = 256 * Pow2[j]
  BY <1>5, <1>6, <1>7
<1> QED
  BY <1>2, <1>7, <1>8 DEF j

\* One more byte of a number.
LEMMA OneMoreByte ==
  ASSUME NEW v \in Int, NEW q \in Nat \ {0}
  PROVE  v % (256 * q) = (v % q) + ((v \div q) % 256) * q
<1> DEFINE a == v \div q
           r == v % q
           b == a \div 256
           s == a % 256
<1>1. v = q * a + r /\ r \in 0 .. (q - 1) /\ a \in Int
  OBVIOUS
<1>2. a = 256 * b + s /\ s \in 0 .. 255 /\ b \in Int
  BY <1>1
<1> HIDE DEF a, r, b, s
<1>3. v = (256 * q) * b + (s * q + r)
  <2>1. q * a = q * (256 * b) + q * s
    BY <1>1, <1>2
  <2>2. q * (256 * b) = (256 * q) * b /\ q * s = s * q
    BY <1>2
  <2>3. q * (256 * b) \in Int /\ q * s \in Int
    BY <1>2
  <2> QED
    BY <1>1, <1>2, <2>1, <2>2, <2>3
<1>4. s * q + r \in 0 .. (256 * q - 1)
  <2>1. s * q <= 255 * q /\ s * q >= 0 /\ s * q \in Int
    BY <1>2
  <2> QED
    BY <1>1, <2>1
<1>5. 256 * q \in Nat \ {0}
  OBVIOUS
<1> DEFINE m == 256 * q
           k == s * q + r
<1>6. v = m * b + k /\ m \in Nat \ {0} /\ k \in 0 .. (m - 1)
  BY <1>3, <1>4, <1>5
<1> HIDE DEF m, k
<1>7. v % m = k
  BY <1>2, <1>6
<1>8. s * q + r = r + s * q
  BY <1>1, <1>2
<1> QED
  BY <1>7, <1>8 DEF m, k, r, s, a

\* The word in memory, of which the bytes are those of a number.
LEMMA WordRead ==
  ASSUME NEW m, NEW pos, NEW v \in Int,
         \A i \in 0 .. (WordBytes - 1) : m[pos + (i + 1) - 1] = ByteAt(v, i)
  PROVE  Bytes(m, pos, WordBytes) = Wrap(v)
<1> DEFINE n == WordBytes
           Solves(f) == f = [i \in 0 .. n |-> IF i = 0 THEN 0 ELSE f[i - 1] + m[pos + i - 1] * Pow2[8 * (i - 1)]]
           h == [i \in 0 .. n |-> v % Pow2[8 * i]]
<1>1. n \in Nat \ {0}
  BY SizesAssumption
<1>2. ASSUME NEW i \in 1 .. n
      PROVE  h[i] = h[i - 1] + m[pos + i - 1] * Pow2[8 * (i - 1)]
  <2>1. i - 1 \in Nat /\ i - 1 < WordBytes /\ (i - 1) + 1 = i /\ i - 1 \in 0 .. (WordBytes - 1)
    BY <1>1
  <2>2. Pow2[8 * (i - 1)] \in Nat \ {0} /\ Pow2[8 * i] = 256 * Pow2[8 * (i - 1)]
    BY <2>1, Pow256
  <2>3. m[pos + i - 1] = (v \div Pow2[8 * (i - 1)]) % 256
    BY <2>1 DEF ByteAt
  <2>4. h[i] = v % Pow2[8 * i] /\ h[i - 1] = v % Pow2[8 * (i - 1)]
    BY <1>1
  <2> DEFINE q == Pow2[8 * (i - 1)]
  <2>5. q \in Nat \ {0}
    BY <2>2
  <2> HIDE DEF q
  <2>6. v % (256 * q) = (v % q) + ((v \div q) % 256) * q
    BY <2>5, OneMoreByte
  <2> HIDE DEF h, n
  <2>7. m[pos + i - 1] = (v \div q) % 256 /\ h[i] = v % (256 * q) /\ h[i - 1] = v % q
    BY <2>2, <2>3, <2>4 DEF q
  <2> QED
    BY <2>6, <2>7 DEF q
<1>3. h[0] = 0
  <2>1. Pow2[8 * 0] = 1
    BY Powers
  <2> QED
    BY <1>1, <2>1
<1>4. Solves(h)
  <2>1. h = [i \in 0 .. n |-> h[i]]
    OBVIOUS
  <2>2. \A i \in 0 .. n : i = 0 \/ i \in 1 .. n
    BY <1>1
  <2> HIDE DEF h, n
  <2>3. \A i \in 0 .. n : h[i] = IF i = 0 THEN 0 ELSE h[i - 1] + m[pos + i - 1] * Pow2[8 * (i - 1)]
    BY <1>2, <1>3, <2>2
  <2> QED
    BY <2>1, <2>3
<1> DEFINE f == CHOOSE g : Solves(g)
<1>5. Solves(f)
  <2> HIDE DEF Solves, h
  <2> QED
    BY <1>4
<1> HIDE DEF h, f, n
<1>6. f[0] = 0 /\ \A i \in 1 .. n : f[i] = f[i - 1] + m[pos + i - 1] * Pow2[8 * (i - 1)]
  BY <1>1, <1>5
<1> DEFINE G == {i \in 1 .. n : f[i] = h[i]}
<1>7. 1 .. n \subseteq G
  <2>1. 1 \in G
    <3>1. 1 \in 1 .. n /\ 1 - 1 = 0
      BY <1>1
    <3> DEFINE i == 1
    <3>2. i \in 1 .. n /\ i - 1 = 0
      BY <3>1
    <3> HIDE DEF i
    <3>3. f[i] = h[i]
      BY <1>2, <1>3, <1>6, <3>2
    <3> QED
      BY <3>1, <3>3 DEF i
  <2>2. ASSUME NEW i \in 1 .. (n - 1), i \in G PROVE i + 1 \in G
    <3>1. i + 1 \in 1 .. n /\ (i + 1) - 1 = i /\ f[i] = h[i]
      BY <1>1, <2>2
    <3> DEFINE j == i + 1
    <3>2. j \in 1 .. n /\ j - 1 = i
      BY <3>1
    <3> HIDE DEF j
    <3>3. f[j] = h[j]
      BY <1>2, <1>6, <3>1, <3>2
    <3> QED
      BY <3>2, <3>3 DEF j
  <2> HIDE DEF G
  <2> QED
    BY <1>1, <2>1, <2>2, UpTo
<1>8. f[n] = h[n]
  BY <1>1, <1>7
<1>9. h[n] = Wrap(v)
  BY <1>1 DEF h, n, Wrap, Modulus
<1> QED
  BY <1>8, <1>9 DEF Bytes, f, n

--------------------------------------------------------------------------
\* The code of an instruction.

\* A place of the code that gets a new byte.
Put(bytes, pos, byte) == [bytes EXCEPT ![pos] = byte]
HighPut(bytes, pos, id) == Put(bytes, pos, Hpack(id, Lo4(bytes[pos])))
LowPut(bytes, pos, id) == Put(bytes, pos, Hpack(Hi4(bytes[pos]), id))

\* What get_reg does to the code.
LEMMA RegCode ==
  ASSUME NEW p, Parsing(p), NEW ts, NEW arg, NEW q, q = get_reg(p, ts, arg)
  PROVE  /\ Type(ts, p.tpos) # "REG" => q.code = p.code
         /\ Type(ts, p.tpos) = "REG" /\ arg.hi => q.code = HighPut(p.code, arg.pos, ts[p.tpos].val)
         /\ Type(ts, p.tpos) = "REG" /\ ~arg.hi => q.code = LowPut(p.code, arg.pos, ts[p.tpos].val)
<1>1. CASE Type(ts, p.tpos) # "REG"
  BY <1>1 DEF get_reg, Failed, Parsing
<1>2. CASE Type(ts, p.tpos) = "REG"
  <2> DEFINE bytes == [p.code EXCEPT ![arg.pos] = IF arg.hi THEN Hpack(ts[p.tpos].val, Lo4(@)) ELSE Hpack(Hi4(@), ts[p.tpos].val)]
  <2>1. q = [p EXCEPT !.code = bytes, !.tpos = @ + 1]
    BY <1>2 DEF get_reg, Parsing
  <2>2. /\ arg.hi => bytes = HighPut(p.code, arg.pos, ts[p.tpos].val)
        /\ ~arg.hi => bytes = LowPut(p.code, arg.pos, ts[p.tpos].val)
    BY DEF HighPut, LowPut, Put
  <2> HIDE DEF bytes
  <2>3. q.code = bytes
    BY <2>1 DEF Parsing
  <2> QED
    BY <1>2, <2>2, <2>3
<1> QED
  BY <1>1, <1>2

\* What get_num does to the code.
LEMMA NumCode ==
  ASSUME NEW p, Parsing(p), NEW ts, NEW table, NEW arg, NEW q, q = get_num(p, ts, table, arg)
  PROVE  /\ ~IsValue(ts, p.tpos) => q.code = p.code
         /\ IsValue(ts, p.tpos) => q.code = WithNumber(p.code, arg.pos, arg.n, Value(table, ts[p.tpos]))
<1>1. CASE ~IsValue(ts, p.tpos)
  BY <1>1 DEF get_num, Failed, Parsing
<1>2. CASE IsValue(ts, p.tpos)
  <2> DEFINE bytes == WithNumber(p.code, arg.pos, arg.n, Value(table, ts[p.tpos]))
             lost == Missing(table, ts[p.tpos])
  <2>1. q = [p EXCEPT !.code = bytes, !.ok = @ /\ ~lost, !.tpos = @ + 1]
    BY <1>2 DEF get_num, Parsing
  <2> HIDE DEF bytes, lost
  <2>2. q.code = bytes
    BY <2>1 DEF Parsing
  <2> QED
    BY <1>2, <2>2 DEF bytes
<1> QED
  BY <1>1, <1>2

\* The base and the displacement of a memory reference at i.
MemBase(ts, i) == IF Is(ts, BaseAt(ts, i), "(") THEN ts[BaseAt(ts, i) + 1].val ELSE REG_NONE
MemDisp(ts, table, i) == IF IsValue(ts, i) THEN Value(table, ts[i]) ELSE 0

\* What get_mem does to the code.
LEMMA MemCode ==
  ASSUME NEW p, Parsing(p), NEW ts, NEW table, NEW arg, NEW q, q = get_mem(p, ts, table, arg)
  PROVE  /\ q.code = p.code \/ \E id : q.code = WithNumber(LowPut(p.code, arg.pos, id), arg.pos + 1, WordBytes, MemDisp(ts, table, p.tpos))
         /\ MemoryOk(ts, table, p.tpos) =>
              q.code = WithNumber(LowPut(p.code, arg.pos, MemBase(ts, p.tpos)), arg.pos + 1, WordBytes, MemDisp(ts, table, p.tpos))
<1> DEFINE disp == IsValue(ts, p.tpos)
           r    == IF disp THEN p.tpos + 1 ELSE p.tpos
           base == Is(ts, r, "(")
           p1   == [p EXCEPT !.ok = @ /\ ~(disp /\ Missing(table, ts[p.tpos]))]
           val  == IF disp THEN Value(table, ts[p.tpos]) ELSE 0
           Coded(id) == WithNumber(WithLow(p1.code, arg.pos, id), arg.pos + 1, WordBytes, val)
           reg == Type(ts, r + 1) = "REG"
           closed == Is(ts, r + 2, ")")
<1>0. r = BaseAt(ts, p.tpos)
  BY DEF BaseAt, Parsing
<1>1. DOMAIN p1 = DOMAIN p /\ p1.code = p.code
  BY DEF Parsing
<1>2. \A id : Coded(id) = WithNumber(LowPut(p.code, arg.pos, id), arg.pos + 1, WordBytes, MemDisp(ts, table, p.tpos))
  BY <1>1 DEF WithLow, LowPut, Put, MemDisp
<1>3. /\ ~base => q = [p1 EXCEPT !.code = Coded(REG_NONE), !.tpos = r]
      /\ base /\ ~reg => q = [Failed(p1) EXCEPT !.tpos = r + 1]
      /\ base /\ reg /\ closed => q = [p1 EXCEPT !.code = Coded(ts[r + 1].val), !.tpos = r + 3]
      /\ base /\ reg /\ ~closed => q = [Failed(p1) EXCEPT !.tpos = IF Type(ts, r + 2) = "PUNCT" THEN r + 3 ELSE r + 2]
  <2>1. CASE ~base
    BY <2>1 DEF get_mem
  <2>2. CASE base /\ ~reg
    BY <2>2 DEF get_mem
  <2>3. CASE base /\ reg /\ closed
    BY <2>3 DEF get_mem
  <2>4. CASE base /\ reg /\ ~closed
    BY <2>4 DEF get_mem
  <2> QED
    BY <2>1, <2>2, <2>3, <2>4
<1>4. MemoryOk(ts, table, p.tpos) => (base => reg /\ closed)
  BY <1>0 DEF MemoryOk
<1>5. MemBase(ts, p.tpos) = IF base THEN ts[r + 1].val ELSE REG_NONE
  BY <1>0 DEF MemBase
<1> HIDE DEF r, base, p1, reg, closed, Coded
<1>6. CASE ~base
  <2>1. q = [p1 EXCEPT !.code = Coded(REG_NONE), !.tpos = r]
    BY <1>3, <1>6
  <2>2. q.code = Coded(REG_NONE)
    BY <1>1, <2>1 DEF Parsing
  <2> QED
    BY <1>2, <1>5, <1>6, <2>2
<1>7. CASE base /\ ~reg
  <2>1. q = [Failed(p1) EXCEPT !.tpos = r + 1]
    BY <1>3, <1>7
  <2> QED
    BY <1>1, <1>4, <1>7, <2>1 DEF Parsing, Failed
<1>8. CASE base /\ reg /\ closed
  <2>1. q = [p1 EXCEPT !.code = Coded(ts[r + 1].val), !.tpos = r + 3]
    BY <1>3, <1>8
  <2>2. q.code = Coded(ts[r + 1].val)
    BY <1>1, <2>1 DEF Parsing
  <2> QED
    BY <1>2, <1>5, <1>8, <2>2
<1>9. CASE base /\ reg /\ ~closed
  <2>1. q = [Failed(p1) EXCEPT !.tpos = IF Type(ts, r + 2) = "PUNCT" THEN r + 3 ELSE r + 2]
    BY <1>3, <1>9
  <2> QED
    BY <1>1, <1>4, <1>9, <2>1 DEF Parsing, Failed
<1> QED
  BY <1>6, <1>7, <1>8, <1>9

\* The code keeps its length.
LEMMA ArgumentSpan ==
  ASSUME NEW p, Parsing(p), NEW ts, NEW table, NEW arg, arg.kind \in {"R", "M", "I"}, NEW q, q = Argument(p, ts, table, arg)
  PROVE  DOMAIN q.code = DOMAIN p.code
<1>1. CASE arg.kind = "R"
  <2>1. q = get_reg(p, ts, arg)
    BY <1>1 DEF Argument
  <2>2. q.code = p.code \/ q.code = HighPut(p.code, arg.pos, ts[p.tpos].val) \/ q.code = LowPut(p.code, arg.pos, ts[p.tpos].val)
    BY <2>1, RegCode
  <2> QED
    BY <2>2 DEF HighPut, LowPut, Put
<1>2. CASE arg.kind = "I"
  <2>1. q = get_num(p, ts, table, arg)
    BY <1>2 DEF Argument
  <2>2. q.code = p.code \/ q.code = WithNumber(p.code, arg.pos, arg.n, Value(table, ts[p.tpos]))
    BY <2>1, NumCode
  <2> QED
    BY <2>2 DEF WithNumber
<1>3. CASE arg.kind = "M"
  <2>1. q = get_mem(p, ts, table, arg)
    BY <1>3 DEF Argument
  <2>2. q.code = p.code \/ \E id : q.code = WithNumber(LowPut(p.code, arg.pos, id), arg.pos + 1, WordBytes, MemDisp(ts, table, p.tpos))
    BY <2>1, MemCode
  <2> QED
    BY <2>2 DEF WithNumber, LowPut, Put
<1> QED
  BY <1>1, <1>2, <1>3
--------------------------------------------------------------------------
\* The table of instructions, entry by entry.

\* The data directives.
Data == {".byte", ".word", ".long", ".quad"}

\* The number of a name that is in a list once.
LEMMA NumberIs ==
  ASSUME NEW names, NEW i \in DOMAIN names, \A j \in DOMAIN names : names[j] = names[i] => j = i
  PROVE  Number(names, names[i]) = i
BY DEF Number

\* The table has the first bytes of the instruction set.
LEMMA TableCode ==
  ASSUME NEW name \in DOMAIN Opcode
  PROVE  find_instr(name).code = Opcode[name]
<1>1. DOMAIN Moves = 1 .. 6 /\ DOMAIN Jumps = 1 .. 6 /\ DOMAIN Alus = 1 .. 4
  BY DEF Moves, Jumps, Alus
<1>2. CASE In(Moves, name)
  <2>1. PICK i \in DOMAIN Moves : Moves[i] = name
    BY <1>2 DEF In
  <2>2. \A j \in DOMAIN Moves : Moves[j] = Moves[i] => j = i
    BY <1>1, <2>1 DEF Moves
  <2>3. Number(Moves, name) = i
    BY <2>1, <2>2, NumberIs
  <2>4. find_instr(name).code = 32 + i
    BY <1>2, <2>3, Operations DEF find_instr, Entry, Hpack, I_RRMOVQ
  <2>5. Opcode[name] = 32 + i
    BY <1>1, <2>1 DEF Moves, Opcode
  <2> QED
    BY <2>4, <2>5
<1>3. CASE In(Jumps, name)
  <2>1. PICK i \in DOMAIN Jumps : Jumps[i] = name
    BY <1>3 DEF In
  <2>2. \A j \in DOMAIN Jumps : Jumps[j] = Jumps[i] => j = i
    BY <1>1, <2>1 DEF Jumps
  <2>3. Number(Jumps, name) = i
    BY <2>1, <2>2, NumberIs
  <2>4. find_instr(name).code = 112 + i
    BY <1>3, <2>3, Operations DEF find_instr, Entry, Hpack, I_JMP
  <2>5. Opcode[name] = 112 + i
    BY <1>1, <2>1 DEF Jumps, Opcode
  <2> QED
    BY <2>4, <2>5
<1>4. CASE In(Alus, name)
  <2>1. PICK i \in DOMAIN Alus : Alus[i] = name
    BY <1>4 DEF In
  <2>2. \A j \in DOMAIN Alus : Alus[j] = Alus[i] => j = i
    BY <1>1, <2>1 DEF Alus
  <2>3. Number(Alus, name) = i
    BY <2>1, <2>2, NumberIs
  <2>4. find_instr(name).code = 96 + i - 1
    BY <1>4, <2>3, Operations DEF find_instr, Entry, Hpack, I_ALU
  <2>5. Opcode[name] = 96 + i - 1
    BY <1>1, <2>1 DEF Alus, Opcode
  <2> QED
    BY <2>4, <2>5
<1>5. CASE name \in {"halt", "nop", "ret", "rrmovq", "irmovq", "iaddq", "jm", "rmmovq", "mrmovq", "jmp", "call", "pushq", "popq"}
  BY <1>5, Operations DEF find_instr, Entry, Hpack, Opcode, I_HALT, I_NOP, I_RET, I_RRMOVQ, I_IRMOVQ, I_IADDQ, I_JM, I_RMMOVQ,
                          I_MRMOVQ, I_JMP, I_CALL, I_PUSHQ, I_POPQ
<1>6. name \in {"halt", "nop", "ret", "rrmovq", "irmovq", "iaddq", "jm", "rmmovq", "mrmovq", "jmp", "call", "pushq", "popq"}
      \/ In(Moves, name) \/ In(Jumps, name) \/ In(Alus, name)
  BY Operations DEF Opcode
<1> QED
  BY <1>2, <1>3, <1>4, <1>5, <1>6

\* Arguments: a register goes to the high or the low half of the second byte, a
\* number to the bytes behind.
LEMMA TableArguments ==
  ASSUME NEW name
  PROVE  /\ name \in OneReg => \E a : /\ find_instr(name).args = <<a>>
                                      /\ a.kind = "R" /\ a.pos = 1 /\ a.hi
         /\ name \in TwoRegs => \E a, b : /\ find_instr(name).args = <<a, b>>
                                          /\ a.kind = "R" /\ a.pos = 1 /\ a.hi
                                          /\ b.kind = "R" /\ b.pos = 1 /\ ~b.hi
         /\ name \in OneValue \ Data => \E a : /\ find_instr(name).args = <<a>>
                                               /\ a.kind = "I" /\ a.pos = 1 /\ a.n = WordBytes
         /\ name \in Data => \E a : /\ find_instr(name).args = <<a>>
                                    /\ a.kind = "I" /\ a.pos = 0 /\ a.n = Width(name)
         /\ name \in ValueReg => \E a, b : /\ find_instr(name).args = <<a, b>>
                                           /\ a.kind = "I" /\ a.pos = 2 /\ a.n = WordBytes
                                           /\ b.kind = "R" /\ b.pos = 1 /\ ~b.hi
         /\ name = "rmmovq" => \E a, b : /\ find_instr(name).args = <<a, b>>
                                         /\ a.kind = "R" /\ a.pos = 1 /\ a.hi
                                         /\ b.kind = "M" /\ b.pos = 1
         /\ name = "mrmovq" => \E a, b : /\ find_instr(name).args = <<a, b>>
                                         /\ a.kind = "M" /\ a.pos = 1
                                         /\ b.kind = "R" /\ b.pos = 1 /\ b.hi
<1>1. /\ R_ARG(1, TRUE).kind = "R" /\ R_ARG(1, TRUE).pos = 1 /\ R_ARG(1, TRUE).hi
      /\ R_ARG(1, FALSE).kind = "R" /\ R_ARG(1, FALSE).pos = 1 /\ ~R_ARG(1, FALSE).hi
      /\ M_ARG(1).kind = "M" /\ M_ARG(1).pos = 1
      /\ I_ARG(1, WordBytes).kind = "I" /\ I_ARG(1, WordBytes).pos = 1 /\ I_ARG(1, WordBytes).n = WordBytes
      /\ I_ARG(2, WordBytes).kind = "I" /\ I_ARG(2, WordBytes).pos = 2 /\ I_ARG(2, WordBytes).n = WordBytes
      /\ I_ARG(0, Width(name)).kind = "I" /\ I_ARG(0, Width(name)).pos = 0 /\ I_ARG(0, Width(name)).n = Width(name)
  BY DEF R_ARG, M_ARG, I_ARG
<1>2. ASSUME name \in OneReg
      PROVE  find_instr(name).args = <<R_ARG(1, TRUE)>>
  BY <1>2, Operations DEF find_instr, Entry, OneReg
<1>3. ASSUME name \in OneValue \ Data
      PROVE  find_instr(name).args = <<I_ARG(1, WordBytes)>>
  <2>1. name = "jmp" \/ name = "call" \/ In(Jumps, name)
    BY <1>3, Operations DEF OneValue, Data
  <2> QED
    BY <2>1, Operations DEF find_instr, Entry, Target
<1>4. ASSUME name \in Data
      PROVE  find_instr(name).args = <<I_ARG(0, Width(name))>>
  <2>1. CASE name = ".byte"
    BY <2>1, Operations DEF find_instr, Entry, Width
  <2>2. CASE name = ".word"
    BY <2>2, Operations DEF find_instr, Entry, Width
  <2>3. CASE name = ".long"
    BY <2>3, Operations DEF find_instr, Entry, Width
  <2>4. CASE name = ".quad"
    BY <2>4, Operations DEF find_instr, Entry, Width
  <2> QED
    BY <1>4, <2>1, <2>2, <2>3, <2>4 DEF Data
<1>5. name \in OneReg => \E a : find_instr(name).args = <<a>> /\ a.kind = "R" /\ a.pos = 1 /\ a.hi
  BY <1>1, <1>2, Zenon
<1>6. name \in TwoRegs => \E a, b : /\ find_instr(name).args = <<a, b>>
                                    /\ a.kind = "R" /\ a.pos = 1 /\ a.hi
                                    /\ b.kind = "R" /\ b.pos = 1 /\ ~b.hi
  BY <1>1, TableSays, Zenon DEF BothRegs
<1>7. name \in OneValue \ Data => \E a : find_instr(name).args = <<a>> /\ a.kind = "I" /\ a.pos = 1 /\ a.n = WordBytes
  BY <1>1, <1>3, Zenon
<1>8. name \in Data => \E a : find_instr(name).args = <<a>> /\ a.kind = "I" /\ a.pos = 0 /\ a.n = Width(name)
  BY <1>1, <1>4, Zenon
<1>9. name \in ValueReg => \E a, b : /\ find_instr(name).args = <<a, b>>
                                     /\ a.kind = "I" /\ a.pos = 2 /\ a.n = WordBytes
                                     /\ b.kind = "R" /\ b.pos = 1 /\ ~b.hi
  BY <1>1, TableSays, Zenon DEF Immediate
<1>10. name = "rmmovq" => \E a, b : /\ find_instr(name).args = <<a, b>>
                                    /\ a.kind = "R" /\ a.pos = 1 /\ a.hi
                                    /\ b.kind = "M" /\ b.pos = 1
  BY <1>1, TableSays, Zenon
<1>11. name = "mrmovq" => \E a, b : /\ find_instr(name).args = <<a, b>>
                                    /\ a.kind = "M" /\ a.pos = 1
                                    /\ b.kind = "R" /\ b.pos = 1 /\ b.hi
  BY <1>1, TableSays, Zenon
<1> QED
  BY <1>5, <1>6, <1>7, <1>8, <1>9, <1>10, <1>11

--------------------------------------------------------------------------
\* The first byte and the registers, and a number behind them.
Leads(c, first, a, b) == DOMAIN c = 0 .. (WordBytes + 1) /\ c[0] = first /\ c[1] = Hpack(a, b)
Carries(c, pos, n, v) == \A j \in 0 .. (n - 1) : c[pos + j] = ByteAt(v, j)

\* The halves of a byte.
LEMMA Halves ==
  ASSUME NEW a \in 0 .. 15, NEW b \in 0 .. 15
  PROVE  Hi4(Hpack(a, b)) = a /\ Lo4(Hpack(a, b)) = b
BY DEF Hi4, Lo4, Hpack

\* A register goes to the high half and leaves the number alone.
LEMMA HighSets ==
  ASSUME NEW c, NEW first, NEW a \in 0 .. 15, NEW b \in 0 .. 15, Leads(c, first, a, b), NEW x
  PROVE  /\ Leads(HighPut(c, 1, x), first, x, b)
         /\ \A v : Carries(c, 2, WordBytes, v) => Carries(HighPut(c, 1, x), 2, WordBytes, v)
<1>1. WordBytes \in Nat
  BY SizesAssumption
<1>2. Lo4(c[1]) = b
  BY Halves DEF Leads
<1> QED
  BY <1>1, <1>2 DEF Leads, HighPut, Put, Carries

\* The same for the low half.
LEMMA LowSets ==
  ASSUME NEW c, NEW first, NEW a \in 0 .. 15, NEW b \in 0 .. 15, Leads(c, first, a, b), NEW x
  PROVE  /\ Leads(LowPut(c, 1, x), first, a, x)
         /\ \A v : Carries(c, 2, WordBytes, v) => Carries(LowPut(c, 1, x), 2, WordBytes, v)
<1>1. WordBytes \in Nat
  BY SizesAssumption
<1>2. Hi4(c[1]) = a
  BY Halves DEF Leads
<1> QED
  BY <1>1, <1>2 DEF Leads, LowPut, Put, Carries

\* A number goes to its bytes and leaves what is before them.
LEMMA NumberSets ==
  ASSUME NEW c, DOMAIN c = 0 .. (WordBytes + 1), NEW pos \in Nat, NEW n \in Nat, pos + n <= WordBytes + 2, NEW v
  PROVE  /\ Carries(WithNumber(c, pos, n, v), pos, n, v)
         /\ DOMAIN WithNumber(c, pos, n, v) = 0 .. (WordBytes + 1)
         /\ \A i \in 0 .. (pos - 1) : WithNumber(c, pos, n, v)[i] = c[i]
<1>1. WordBytes \in Nat
  BY SizesAssumption
<1>2. ASSUME NEW j \in 0 .. (n - 1)
      PROVE  WithNumber(c, pos, n, v)[pos + j] = ByteAt(v, j)
  <2>1. pos + j \in DOMAIN c /\ pos + j \in pos .. (pos + n - 1) /\ (pos + j) - pos = j
    BY <1>1
  <2> QED
    BY <2>1 DEF WithNumber
<1>3. \A i \in 0 .. (pos - 1) : WithNumber(c, pos, n, v)[i] = c[i]
  <2> TAKE i \in 0 .. (pos - 1)
  <2>1. i \in DOMAIN c /\ i \notin pos .. (pos + n - 1)
    BY <1>1
  <2> QED
    BY <2>1 DEF WithNumber
<1> QED
  BY <1>2, <1>3 DEF Carries, WithNumber

\* A register has its number.
LEMMA RegToken ==
  ASSUME NEW line \in SourceLine, NEW ts, ts = line.tokens, NEW i, IsReg(ts, i)
  PROVE  ts[i].val \in 0 .. 14
<1>1. i \in DOMAIN ts /\ ts[i].type = "REG"
  BY DEF IsReg, Type
<1>2. ts[i] \in Token
  BY <1>1, LineParts
<1> QED
  BY <1>1, <1>2 DEF Token, RegId

\* The base register, or none.
LEMMA BaseToken ==
  ASSUME NEW line \in SourceLine, NEW ts, ts = line.tokens, NEW i, NEW table, MemoryOk(ts, table, i)
  PROVE  MemBase(ts, i) \in 0 .. 15
<1>1. CASE Is(ts, BaseAt(ts, i), "(")
  <2>1. IsReg(ts, BaseAt(ts, i) + 1)
    BY <1>1 DEF MemoryOk, IsReg
  <2>2. ts[BaseAt(ts, i) + 1].val \in 0 .. 14
    BY <2>1, RegToken
  <2> QED
    BY <1>1, <2>2 DEF MemBase
<1>2. CASE ~Is(ts, BaseAt(ts, i), "(")
  BY <1>2 DEF MemBase, REG_NONE
<1> QED
  BY <1>1, <1>2
--------------------------------------------------------------------------
\* The registers and the value of the instruction at i.
RegA(ts, i) ==
  CASE ts[i].val \in OneReg \cup TwoRegs \cup {"rmmovq"} -> ts[i + 1].val
    [] ts[i].val = "mrmovq" -> ts[MemoryEnd(ts, i + 1) + 1].val
    [] OTHER -> REG_NONE
RegB(ts, i) ==
  CASE ts[i].val \in TwoRegs \cup ValueReg -> ts[i + 3].val
    [] ts[i].val = "rmmovq" -> MemBase(ts, i + 3)
    [] ts[i].val = "mrmovq" -> MemBase(ts, i + 1)
    [] OTHER -> REG_NONE
Val(ts, i, table) ==
  CASE ts[i].val = "rmmovq" -> MemDisp(ts, table, i + 3)
    [] ts[i].val = "mrmovq" -> MemDisp(ts, table, i + 1)
    [] OTHER -> Value(table, ts[i + 1])

\* What the code of an instruction is.
CodeOf(ts, i, table, c) ==
  /\ c[0] = Opcode[ts[i].val]
  /\ ts[i].val \notin Nullary \cup OneValue => c[1] = Hpack(RegA(ts, i), RegB(ts, i))
  /\ ts[i].val \in OneValue => Carries(c, 1, WordBytes, Val(ts, i, table))
  /\ ts[i].val \in ValueReg \cup {"rmmovq", "mrmovq"} => Carries(c, 2, WordBytes, Val(ts, i, table))

\* The kinds of instructions exclude each other.
LEMMA KindsApart ==
  ASSUME NEW name
  PROVE  /\ name \in Nullary => name \notin OneReg \cup TwoRegs \cup OneValue \cup ValueReg \cup {"rmmovq", "mrmovq"}
         /\ name \in OneReg => name \notin Nullary \cup TwoRegs \cup OneValue \cup ValueReg \cup {"rmmovq", "mrmovq"}
         /\ name \in TwoRegs => name \notin Nullary \cup OneReg \cup OneValue \cup ValueReg \cup {"rmmovq", "mrmovq"}
         /\ name \in OneValue => name \notin Nullary \cup OneReg \cup TwoRegs \cup ValueReg \cup {"rmmovq", "mrmovq"}
         /\ name \in ValueReg => name \notin Nullary \cup OneReg \cup TwoRegs \cup OneValue \cup {"rmmovq", "mrmovq"}
         /\ name \in {"rmmovq", "mrmovq"} => name \notin Nullary \cup OneReg \cup TwoRegs \cup OneValue \cup ValueReg
         /\ name \in DOMAIN Opcode <=>
              name \in Nullary \cup OneReg \cup TwoRegs \cup (OneValue \ Data) \cup ValueReg \cup {"rmmovq", "mrmovq"}
         /\ Data \subseteq OneValue
         /\ DOMAIN Opcode \subseteq Instrs \ {".pos", ".align"} /\ Data \subseteq Instrs \ {".pos", ".align"}
BY Operations DEF Nullary, OneReg, TwoRegs, OneValue, ValueReg, Data, Opcode

\* The code begins with the entry of the table.
LEMMA BegunCode ==
  ASSUME NEW instr, NEW i \in Nat \ {0}, NEW old, DOMAIN old = 0 .. (WordBytes + 1), NEW p, p = Begun(instr, i, old)
  PROVE  Leads(p.code, instr.code, 15, 15)
<1>1. 0 \in DOMAIN old /\ 1 \in DOMAIN old
  BY SizesAssumption
<1> QED
  BY <1>1 DEF Begun, Leads, REG_NONE

\* An instruction that is accepted has its code.
LEMMA CodeIs ==
  ASSUME NEW line \in SourceLine, NEW ts, ts = line.tokens, NEW i \in Nat \ {0}, NEW name, name = ts[i].val,
         name \in DOMAIN Opcode, NEW table, NEW old, DOMAIN old = 0 .. (WordBytes + 1),
         NEW p, p = Assembled(ts, i, table, old), Accepts(ts, i, table)
  PROVE  CodeOf(ts, i, table, p.code)
<1> DEFINE instr == find_instr(name)
           p0 == Begun(instr, i, old)
           first == Opcode[name]
<1>0. WordBytes \in Nat
  BY SizesAssumption
<1>1. Parsing(p0) /\ p0.ok = TRUE /\ p0.tpos = i + 1
  BY Commas
<1>2. Leads(p0.code, first, 15, 15)
  <2>1. instr.code = first
    BY TableCode
  <2> HIDE DEF instr, first
  <2> QED
    BY <2>1, BegunCode
<1>3. 15 \in 0 .. 15
  OBVIOUS
<1> HIDE DEF first
<1>4. ASSUME NEW c, NEW a, NEW b, Leads(c, first, a, b)
      PROVE  c[0] = first /\ c[1] = Hpack(a, b)
  BY <1>4 DEF Leads
<1>5. CASE name \in Nullary
  <2>1. instr.args = <<>>
    BY <1>5, TableSays
  <2>2. p = p0
    BY <2>1, NoArgument
  <2> HIDE DEF p0
  <2> QED
    BY <1>2, <1>4, <1>5, <2>2, KindsApart DEF CodeOf, first
<1>6. CASE name \in OneReg
  <2>1. PICK a : instr.args = <<a>> /\ a.kind = "R" /\ a.pos = 1 /\ a.hi
    BY <1>6, TableArguments
  <2>2. p = Argument(p0, ts, table, a)
    BY <2>1, OneArgument
  <2>3. p = get_reg(p0, ts, a)
    BY <2>1, <2>2 DEF Argument
  <2>4. IsReg(ts, i + 1)
    BY <1>6 DEF Accepts
  <2> HIDE DEF p0, instr
  <2>5. p.code = HighPut(p0.code, 1, ts[i + 1].val)
    BY <1>1, <2>1, <2>3, <2>4, RegCode DEF IsReg
  <2>6. Leads(p.code, first, ts[i + 1].val, 15)
    BY <1>2, <1>3, <2>5, HighSets
  <2>7. RegA(ts, i) = ts[i + 1].val /\ RegB(ts, i) = 15
    BY <1>6, KindsApart DEF RegA, RegB, REG_NONE
  <2> QED
    BY <1>4, <1>6, <2>6, <2>7, KindsApart DEF CodeOf, first
<1>7. CASE name \in OneValue
  <2>0. name \in OneValue \ Data
    BY <1>7, KindsApart
  <2>1. PICK a : instr.args = <<a>> /\ a.kind = "I" /\ a.pos = 1 /\ a.n = WordBytes
    BY <2>0, TableArguments
  <2>2. p = Argument(p0, ts, table, a)
    BY <2>1, OneArgument
  <2>3. p = get_num(p0, ts, table, a)
    BY <2>1, <2>2 DEF Argument
  <2>4. IsValue(ts, i + 1)
    BY <1>7 DEF Accepts, IsKnown
  <2> HIDE DEF p0, instr
  <2> DEFINE v == Value(table, ts[i + 1])
  <2>5. p.code = WithNumber(p0.code, 1, WordBytes, v)
    BY <1>1, <2>1, <2>3, <2>4, NumCode
  <2>6. Val(ts, i, table) = v
    BY <1>7, KindsApart DEF Val
  <2> HIDE DEF v
  <2>7. DOMAIN p0.code = 0 .. (WordBytes + 1) /\ 1 + WordBytes <= WordBytes + 2
    BY <1>0, <1>2 DEF Leads
  <2>8. Carries(p.code, 1, WordBytes, v) /\ p.code[0] = p0.code[0]
    BY <1>0, <2>5, <2>7, NumberSets
  <2>9. p.code[0] = first
    BY <1>2, <1>4, <2>8
  <2> QED
    BY <1>7, <2>6, <2>8, <2>9, KindsApart DEF CodeOf, first
<1>8. CASE name \in TwoRegs \cup ValueReg \cup {"rmmovq", "mrmovq"}
  <2> USE KindsApart
  <2>1. PICK a, b : /\ instr.args = <<a, b>>
                    /\ name \in TwoRegs => a.kind = "R" /\ a.pos = 1 /\ a.hi /\ b.kind = "R" /\ b.pos = 1 /\ ~b.hi
                    /\ name \in ValueReg => a.kind = "I" /\ a.pos = 2 /\ a.n = WordBytes /\ b.kind = "R" /\ b.pos = 1 /\ ~b.hi
                    /\ name = "rmmovq" => a.kind = "R" /\ a.pos = 1 /\ a.hi /\ b.kind = "M" /\ b.pos = 1
                    /\ name = "mrmovq" => a.kind = "M" /\ a.pos = 1 /\ b.kind = "R" /\ b.pos = 1 /\ b.hi
    BY <1>8, TableArguments
  <2> DEFINE p1 == Argument(p0, ts, table, a)
             r  == PastComma(p1)
  <2>2. p1 = Argument(p0, ts, table, a) /\ r = PastComma(p1)
    OBVIOUS
  <2>3. /\ CommaAt(ts, p1.tpos) => p = Argument(r, ts, table, b)
        /\ ~CommaAt(ts, p1.tpos) => p = NoComma(p1)
    BY <2>1, <2>2, TwoArguments
  <2> HIDE DEF p1, r, p0, instr
  <2>4. ASSUME CommaAt(ts, p1.tpos), Parsing(p1)
        PROVE  Parsing(r) /\ r.code = p1.code /\ r.tpos = p1.tpos + 1 /\ p = Argument(r, ts, table, b)
    <3>1. r.code = p1.code
      BY <2>2, <2>4 DEF PastComma, Parsing
    <3> QED
      BY <2>2, <2>3, <2>4, <3>1, Commas
  <2>5. i + 1 + 1 = i + 2 /\ i + 2 + 1 = i + 3
    OBVIOUS
  <2>6. CASE name \in TwoRegs
    <3>1. IsReg(ts, i + 1) /\ CommaAt(ts, i + 2) /\ IsReg(ts, i + 3)
      BY <2>6 DEF Accepts
    <3>2. p1 = get_reg(p0, ts, a)
      BY <2>1, <2>2, <2>6 DEF Argument
    <3>3. Parsing(p1) /\ p1.tpos = i + 2
      BY <1>1, <2>5, <3>1, <3>2, RegRead DEF IsReg
    <3>4. p1.code = HighPut(p0.code, 1, ts[i + 1].val)
      BY <1>1, <2>1, <2>6, <3>1, <3>2, RegCode DEF IsReg
    <3>5. ts[i + 1].val \in 0 .. 15
      <4>1. ts[i + 1].val \in 0 .. 14
        BY <3>1, RegToken
      <4> QED
        BY <4>1
    <3>6. Leads(p1.code, first, ts[i + 1].val, 15)
      BY <1>2, <1>3, <3>4, HighSets
    <3>7. Parsing(r) /\ r.code = p1.code /\ r.tpos = i + 3 /\ p = get_reg(r, ts, b)
      BY <2>1, <2>4, <2>5, <2>6, <3>1, <3>3 DEF Argument
    <3>8. p.code = LowPut(p1.code, 1, ts[i + 3].val)
      BY <2>1, <2>6, <3>1, <3>7, RegCode DEF IsReg
    <3>9. Leads(p.code, first, ts[i + 1].val, ts[i + 3].val)
      BY <1>3, <3>5, <3>6, <3>8, LowSets
    <3>10. RegA(ts, i) = ts[i + 1].val /\ RegB(ts, i) = ts[i + 3].val
      BY <2>6 DEF RegA, RegB
    <3> QED
      BY <1>4, <2>6, <3>9, <3>10 DEF CodeOf, first
  <2>7. CASE name \in ValueReg
    <3>1. IsValue(ts, i + 1) /\ CommaAt(ts, i + 2) /\ IsReg(ts, i + 3)
      BY <2>7 DEF Accepts, IsKnown
    <3>2. p1 = get_num(p0, ts, table, a)
      BY <2>1, <2>2, <2>7 DEF Argument
    <3>3. Parsing(p1) /\ p1.tpos = i + 2
      BY <1>1, <2>5, <3>1, <3>2, NumRead
    <3> DEFINE v == Value(table, ts[i + 1])
    <3>4. p1.code = WithNumber(p0.code, 2, WordBytes, v)
      BY <1>1, <2>1, <2>7, <3>1, <3>2, NumCode
    <3>5. Val(ts, i, table) = v
      BY <2>7 DEF Val
    <3> HIDE DEF v
    <3>6. Carries(p1.code, 2, WordBytes, v) /\ Leads(p1.code, first, 15, 15)
      <4>1. DOMAIN p0.code = 0 .. (WordBytes + 1) /\ 2 + WordBytes <= WordBytes + 2 /\ 0 \in 0 .. (2 - 1) /\ 1 \in 0 .. (2 - 1)
        BY <1>0, <1>2 DEF Leads
      <4>2. /\ Carries(p1.code, 2, WordBytes, v) /\ DOMAIN p1.code = 0 .. (WordBytes + 1)
            /\ p1.code[0] = p0.code[0] /\ p1.code[1] = p0.code[1]
        BY <1>0, <3>4, <4>1, NumberSets
      <4> QED
        BY <1>2, <4>2 DEF Leads
    <3>7. Parsing(r) /\ r.code = p1.code /\ r.tpos = i + 3 /\ p = get_reg(r, ts, b)
      BY <2>1, <2>4, <2>5, <2>7, <3>1, <3>3 DEF Argument
    <3>8. p.code = LowPut(p1.code, 1, ts[i + 3].val)
      BY <2>1, <2>7, <3>1, <3>7, RegCode DEF IsReg
    <3>9. Leads(p.code, first, 15, ts[i + 3].val) /\ Carries(p.code, 2, WordBytes, v)
      BY <1>3, <3>6, <3>8, LowSets
    <3>10. RegA(ts, i) = 15 /\ RegB(ts, i) = ts[i + 3].val
      BY <2>7 DEF RegA, RegB, REG_NONE
    <3> QED
      BY <1>4, <2>7, <3>5, <3>9, <3>10 DEF CodeOf, first
  <2>8. CASE name = "rmmovq"
    <3>1. IsReg(ts, i + 1) /\ CommaAt(ts, i + 2) /\ MemoryOk(ts, table, i + 3)
      BY <2>8 DEF Accepts
    <3>2. p1 = get_reg(p0, ts, a)
      BY <2>1, <2>2, <2>8 DEF Argument
    <3>3. Parsing(p1) /\ p1.tpos = i + 2
      BY <1>1, <2>5, <3>1, <3>2, RegRead DEF IsReg
    <3>4. p1.code = HighPut(p0.code, 1, ts[i + 1].val)
      BY <1>1, <2>1, <2>8, <3>1, <3>2, RegCode DEF IsReg
    <3>5. ts[i + 1].val \in 0 .. 15
      <4>1. ts[i + 1].val \in 0 .. 14
        BY <3>1, RegToken
      <4> QED
        BY <4>1
    <3>6. Leads(p1.code, first, ts[i + 1].val, 15)
      BY <1>2, <1>3, <3>4, HighSets
    <3>7. Parsing(r) /\ r.code = p1.code /\ r.tpos = i + 3 /\ p = get_mem(r, ts, table, b)
      BY <2>1, <2>4, <2>5, <2>8, <3>1, <3>3 DEF Argument
    <3> DEFINE v == MemDisp(ts, table, i + 3)
               c == LowPut(p1.code, 1, MemBase(ts, i + 3))
    <3>8. p.code = WithNumber(c, 1 + 1, WordBytes, v)
      BY <2>1, <2>8, <3>1, <3>7, MemCode
    <3>9. Val(ts, i, table) = v
      BY <2>8 DEF Val
    <3>10. Leads(c, first, ts[i + 1].val, MemBase(ts, i + 3))
      BY <1>3, <3>5, <3>6, LowSets
    <3> HIDE DEF v, c
    <3>11. Carries(p.code, 2, WordBytes, v) /\ Leads(p.code, first, ts[i + 1].val, MemBase(ts, i + 3))
      <4>1. /\ DOMAIN c = 0 .. (WordBytes + 1) /\ 2 + WordBytes <= WordBytes + 2 /\ 0 \in 0 .. (2 - 1) /\ 1 \in 0 .. (2 - 1)
            /\ 1 + 1 = 2
        BY <1>0, <3>10 DEF Leads
      <4>2. /\ Carries(p.code, 2, WordBytes, v) /\ DOMAIN p.code = 0 .. (WordBytes + 1)
            /\ p.code[0] = c[0] /\ p.code[1] = c[1]
        BY <1>0, <3>8, <4>1, NumberSets
      <4> QED
        BY <3>10, <4>2 DEF Leads
    <3>12. RegA(ts, i) = ts[i + 1].val /\ RegB(ts, i) = MemBase(ts, i + 3)
      BY <2>8 DEF RegA, RegB
    <3> QED
      BY <1>4, <2>8, <3>9, <3>11, <3>12 DEF CodeOf, first
  <2>9. CASE name = "mrmovq"
    <3> DEFINE e == MemoryEnd(ts, i + 1)
    <3>1. MemoryOk(ts, table, i + 1) /\ CommaAt(ts, e) /\ IsReg(ts, e + 1)
      BY <2>9 DEF Accepts
    <3>2. p1 = get_mem(p0, ts, table, a)
      BY <2>1, <2>2, <2>9 DEF Argument
    <3>3. Parsing(p1) /\ p1.tpos = e
      BY <1>1, <3>1, <3>2, MemRead
    <3> DEFINE v == MemDisp(ts, table, i + 1)
               c == LowPut(p0.code, 1, MemBase(ts, i + 1))
    <3>4. p1.code = WithNumber(c, 1 + 1, WordBytes, v)
      BY <1>1, <2>1, <2>9, <3>1, <3>2, MemCode
    <3>5. MemBase(ts, i + 1) \in 0 .. 15
      BY <3>1, BaseToken
    <3>6. Leads(c, first, 15, MemBase(ts, i + 1))
      BY <1>2, <1>3, LowSets
    <3>7. Val(ts, i, table) = v
      BY <2>9 DEF Val
    <3>8. RegA(ts, i) = ts[e + 1].val /\ RegB(ts, i) = MemBase(ts, i + 1)
      BY <2>9 DEF RegA, RegB
    <3> HIDE DEF v, c, e
    <3>9. Carries(p1.code, 2, WordBytes, v) /\ Leads(p1.code, first, 15, MemBase(ts, i + 1))
      <4>1. /\ DOMAIN c = 0 .. (WordBytes + 1) /\ 2 + WordBytes <= WordBytes + 2 /\ 0 \in 0 .. (2 - 1) /\ 1 \in 0 .. (2 - 1)
            /\ 1 + 1 = 2
        BY <1>0, <3>6 DEF Leads
      <4>2. /\ Carries(p1.code, 2, WordBytes, v) /\ DOMAIN p1.code = 0 .. (WordBytes + 1)
            /\ p1.code[0] = c[0] /\ p1.code[1] = c[1]
        BY <1>0, <3>4, <4>1, NumberSets
      <4> QED
        BY <3>6, <4>2 DEF Leads
    <3>10. Parsing(r) /\ r.code = p1.code /\ r.tpos = e + 1 /\ p = get_reg(r, ts, b)
      BY <2>1, <2>4, <2>9, <3>1, <3>3 DEF Argument
    <3>11. p.code = HighPut(p1.code, 1, ts[e + 1].val)
      BY <2>1, <2>9, <3>1, <3>10, RegCode DEF IsReg
    <3>12. Leads(p.code, first, ts[e + 1].val, MemBase(ts, i + 1)) /\ Carries(p.code, 2, WordBytes, v)
      BY <1>3, <3>5, <3>9, <3>11, HighSets
    <3> QED
      BY <1>4, <2>9, <3>7, <3>8, <3>12 DEF CodeOf, first
  <2> QED
    BY <1>8, <2>6, <2>7, <2>8, <2>9
<1> QED
  BY <1>5, <1>6, <1>7, <1>8, KindsApart

\* A datum that is accepted has its bytes.
LEMMA DataIs ==
  ASSUME NEW line \in SourceLine, NEW ts, ts = line.tokens, NEW i \in Nat \ {0}, NEW name, name = ts[i].val,
         name \in Data, NEW table, NEW old, DOMAIN old = 0 .. (WordBytes + 1),
         NEW p, p = Assembled(ts, i, table, old), Accepts(ts, i, table)
  PROVE  Carries(p.code, 0, Width(name), Value(table, ts[i + 1]))
<1> DEFINE instr == find_instr(name)
           p0 == Begun(instr, i, old)
<1>0. WordBytes \in Nat /\ WordBytes >= 3
  BY SizesAssumption, SourcesAssumption
<1>1. Parsing(p0) /\ p0.tpos = i + 1
  BY Commas
<1>2. DOMAIN p0.code = 0 .. (WordBytes + 1)
  BY BegunCode DEF Leads
<1>3. PICK a : instr.args = <<a>> /\ a.kind = "I" /\ a.pos = 0 /\ a.n = Width(name)
  BY TableArguments
<1>4. p = Argument(p0, ts, table, a)
  BY <1>3, OneArgument
<1>5. p = get_num(p0, ts, table, a)
  BY <1>3, <1>4 DEF Argument
<1>6. IsValue(ts, i + 1)
  BY KindsApart DEF Accepts, IsKnown
<1> HIDE DEF p0, instr
<1>7. p.code = WithNumber(p0.code, 0, Width(name), Value(table, ts[i + 1]))
  BY <1>1, <1>3, <1>5, <1>6, NumCode
<1>8. Width(name) \in Nat /\ 0 + Width(name) <= WordBytes + 2
  BY <1>0 DEF Width, Data
<1> QED
  BY <1>0, <1>2, <1>7, <1>8, NumberSets

--------------------------------------------------------------------------
\* Where a shape has values, base registers and other registers in its statement.
ValuesIn(shape) == {i \in 2 .. (Len(shape) + 1) : shape[i - 1] = "v"}
BaseIn(shape) == {i \in 3 .. (Len(shape) + 1) : shape[i - 1] = "r" /\ shape[i - 2] = "("}
PlainIn(shape) == {i \in 2 .. (Len(shape) + 1) : shape[i - 1] = "r"} \ BaseIn(shape)

\* A statement that is nothing but its operands.
Pure(st, shape) ==
  /\ Len(st) = Len(shape) + 1 /\ DOMAIN st = 1 .. Len(st)
  /\ st[1].type = "INSTR"
  /\ \A i \in 2 .. Len(st) : st[i] \in Token /\ Letter(st[i]) = shape[i - 1]

\* Its values and registers are where its shape has them.
LEMMA PureParts ==
  ASSUME NEW st, NEW shape, Len(shape) \in Nat, Pure(st, shape)
  PROVE  Values(st) = ValuesIn(shape) /\ Base(st) = BaseIn(shape) /\ Plain(st) = PlainIn(shape)
<1> DEFINE n == Len(shape)
<1>1. Len(st) = n + 1 /\ n \in Nat /\ DOMAIN st = 1 .. (n + 1)
  BY DEF Pure
<1>2. ASSUME NEW i \in 2 .. (n + 1)
      PROVE  /\ IsValue(st, i) <=> shape[i - 1] = "v"
             /\ Type(st, i) = "REG" <=> shape[i - 1] = "r"
             /\ Is(st, i, "(") <=> shape[i - 1] = "("
  <2>1. st[i] \in Token /\ Letter(st[i]) = shape[i - 1] /\ i \in DOMAIN st
    BY <1>1 DEF Pure
  <2>2. Type(st, i) = st[i].type
    BY <2>1 DEF Type
  <2>3. /\ Letter(st[i]) = "r" <=> st[i].type = "REG"
        /\ Letter(st[i]) = "v" <=> st[i].type \in {"NUM", "IDENT"}
        /\ Letter(st[i]) = "(" <=> st[i].type = "PUNCT" /\ st[i].val = "("
    BY <2>1, Letters
  <2> QED
    BY <2>1, <2>2, <2>3 DEF IsValue, Is
<1>3. ~Is(st, 1, "(")
  BY DEF Is, Type, Pure
<1> HIDE DEF n
<1>4. Values(st) = ValuesIn(shape)
  BY <1>1, <1>2 DEF Values, ValuesIn, n
<1>5. Base(st) = BaseIn(shape)
  <2>1. ASSUME NEW i \in 2 .. (n + 1)
        PROVE  Type(st, i) = "REG" /\ Is(st, i - 1, "(") <=> i \in 3 .. (n + 1) /\ shape[i - 1] = "r" /\ shape[i - 2] = "("
    <3>1. CASE i = 2
      <4>1. i - 1 = 1 /\ i \notin 3 .. (n + 1)
        BY <3>1
      <4> QED
        BY <1>3, <4>1
    <3>2. CASE i # 2
      <4> DEFINE j == i - 1
      <4>1. i \in 3 .. (n + 1) /\ j \in 2 .. (n + 1) /\ j - 1 = i - 2
        BY <1>1, <3>2
      <4> HIDE DEF j
      <4>2. Is(st, j, "(") <=> shape[j - 1] = "("
        BY <1>2, <4>1
      <4> QED
        BY <1>2, <4>1, <4>2 DEF j
    <3> QED
      BY <3>1, <3>2
  <2>2. 3 .. (n + 1) \subseteq 2 .. (n + 1)
    BY <1>1
  <2> QED
    BY <1>1, <2>1, <2>2 DEF Base, BaseIn, n
<1>6. Plain(st) = PlainIn(shape)
  BY <1>1, <1>2, <1>5 DEF Plain, PlainIn, n
<1> QED
  BY <1>4, <1>5, <1>6

\* The short shapes.
LEMMA ShortShapes ==
  /\ ValuesIn(<<>>) = {} /\ BaseIn(<<>>) = {} /\ PlainIn(<<>>) = {}
  /\ ValuesIn(<<"r">>) = {} /\ BaseIn(<<"r">>) = {} /\ PlainIn(<<"r">>) = {2}
  /\ ValuesIn(<<"v">>) = {2} /\ BaseIn(<<"v">>) = {} /\ PlainIn(<<"v">>) = {}
  /\ ValuesIn(<<"r", ",">>) = {} /\ BaseIn(<<"r", ",">>) = {} /\ PlainIn(<<"r", ",">>) = {2}
  /\ ValuesIn(<<",", "r">>) = {} /\ BaseIn(<<",", "r">>) = {} /\ PlainIn(<<",", "r">>) = {3}
<1>1. /\ 2 .. 1 = {} /\ 2 .. 2 = {2} /\ 2 .. 3 = {2, 3} /\ 3 .. 1 = {} /\ 3 .. 2 = {} /\ 3 .. 3 = {3}
      /\ 0 + 1 = 1 /\ 1 + 1 = 2 /\ 2 + 1 = 3 /\ 2 - 1 = 1 /\ 3 - 1 = 2 /\ 3 - 2 = 1
  OBVIOUS
<1>2. ValuesIn(<<>>) = {} /\ BaseIn(<<>>) = {} /\ PlainIn(<<>>) = {}
  <2>1. Len(<<>>) = 0
    OBVIOUS
  <2> QED
    BY <1>1, <2>1 DEF ValuesIn, BaseIn, PlainIn
<1>3. ValuesIn(<<"r">>) = {} /\ BaseIn(<<"r">>) = {} /\ PlainIn(<<"r">>) = {2}
  <2> DEFINE shape == <<"r">>
  <2>1. Len(shape) = 1 /\ shape[1] = "r"
    OBVIOUS
  <2> HIDE DEF shape
  <2>2. BaseIn(shape) = {} /\ ValuesIn(shape) = {}
    BY <1>1, <2>1 DEF ValuesIn, BaseIn
  <2>3. PlainIn(shape) = {2}
    BY <1>1, <2>1, <2>2 DEF PlainIn
  <2> QED
    BY <2>2, <2>3 DEF shape
<1>4. ValuesIn(<<"v">>) = {2} /\ BaseIn(<<"v">>) = {} /\ PlainIn(<<"v">>) = {}
  <2> DEFINE shape == <<"v">>
  <2>1. Len(shape) = 1 /\ shape[1] = "v"
    OBVIOUS
  <2> HIDE DEF shape
  <2>2. BaseIn(shape) = {} /\ ValuesIn(shape) = {2}
    BY <1>1, <2>1 DEF ValuesIn, BaseIn
  <2>3. PlainIn(shape) = {}
    BY <1>1, <2>1, <2>2 DEF PlainIn
  <2> QED
    BY <2>2, <2>3 DEF shape
<1>5. ValuesIn(<<"r", ",">>) = {} /\ BaseIn(<<"r", ",">>) = {} /\ PlainIn(<<"r", ",">>) = {2}
  <2> DEFINE shape == <<"r", ",">>
  <2>1. Len(shape) = 2 /\ shape[1] = "r" /\ shape[2] = ","
    OBVIOUS
  <2> HIDE DEF shape
  <2>2. BaseIn(shape) = {} /\ ValuesIn(shape) = {}
    BY <1>1, <2>1 DEF ValuesIn, BaseIn
  <2>3. PlainIn(shape) = {2}
    BY <1>1, <2>1, <2>2 DEF PlainIn
  <2> QED
    BY <2>2, <2>3 DEF shape
<1>6. ValuesIn(<<",", "r">>) = {} /\ BaseIn(<<",", "r">>) = {} /\ PlainIn(<<",", "r">>) = {3}
  <2> DEFINE shape == <<",", "r">>
  <2>1. Len(shape) = 2 /\ shape[1] = "," /\ shape[2] = "r"
    OBVIOUS
  <2> HIDE DEF shape
  <2>2. BaseIn(shape) = {} /\ ValuesIn(shape) = {}
    BY <1>1, <2>1 DEF ValuesIn, BaseIn
  <2>3. PlainIn(shape) = {3}
    BY <1>1, <2>1, <2>2 DEF PlainIn
  <2> QED
    BY <2>2, <2>3 DEF shape
<1> QED
  BY <1>2, <1>3, <1>4, <1>5, <1>6

\* The shapes of three operands.
LEMMA MiddleShapes ==
  /\ ValuesIn(<<"r", ",", "r">>) = {} /\ BaseIn(<<"r", ",", "r">>) = {} /\ PlainIn(<<"r", ",", "r">>) = {2, 4}
  /\ ValuesIn(<<"v", ",", "r">>) = {2} /\ BaseIn(<<"v", ",", "r">>) = {} /\ PlainIn(<<"v", ",", "r">>) = {4}
  /\ ValuesIn(<<"r", ",", "v">>) = {4} /\ BaseIn(<<"r", ",", "v">>) = {} /\ PlainIn(<<"r", ",", "v">>) = {2}
<1>1. /\ 2 .. 4 = {2, 3, 4} /\ 3 .. 4 = {3, 4}
      /\ 3 + 1 = 4 /\ 2 - 1 = 1 /\ 3 - 1 = 2 /\ 4 - 1 = 3 /\ 3 - 2 = 1 /\ 4 - 2 = 2
  OBVIOUS
<1>2. ValuesIn(<<"r", ",", "r">>) = {} /\ BaseIn(<<"r", ",", "r">>) = {} /\ PlainIn(<<"r", ",", "r">>) = {2, 4}
  <2> DEFINE shape == <<"r", ",", "r">>
  <2>1. Len(shape) = 3 /\ shape[1] = "r" /\ shape[2] = "," /\ shape[3] = "r"
    OBVIOUS
  <2> HIDE DEF shape
  <2>2. BaseIn(shape) = {} /\ ValuesIn(shape) = {}
    BY <1>1, <2>1 DEF ValuesIn, BaseIn
  <2>3. PlainIn(shape) = {2, 4}
    BY <1>1, <2>1, <2>2 DEF PlainIn
  <2> QED
    BY <2>2, <2>3 DEF shape
<1>3. ValuesIn(<<"v", ",", "r">>) = {2} /\ BaseIn(<<"v", ",", "r">>) = {} /\ PlainIn(<<"v", ",", "r">>) = {4}
  <2> DEFINE shape == <<"v", ",", "r">>
  <2>1. Len(shape) = 3 /\ shape[1] = "v" /\ shape[2] = "," /\ shape[3] = "r"
    OBVIOUS
  <2> HIDE DEF shape
  <2>2. BaseIn(shape) = {} /\ ValuesIn(shape) = {2}
    BY <1>1, <2>1 DEF ValuesIn, BaseIn
  <2>3. PlainIn(shape) = {4}
    BY <1>1, <2>1, <2>2 DEF PlainIn
  <2> QED
    BY <2>2, <2>3 DEF shape
<1>4. ValuesIn(<<"r", ",", "v">>) = {4} /\ BaseIn(<<"r", ",", "v">>) = {} /\ PlainIn(<<"r", ",", "v">>) = {2}
  <2> DEFINE shape == <<"r", ",", "v">>
  <2>1. Len(shape) = 3 /\ shape[1] = "r" /\ shape[2] = "," /\ shape[3] = "v"
    OBVIOUS
  <2> HIDE DEF shape
  <2>2. BaseIn(shape) = {} /\ ValuesIn(shape) = {4}
    BY <1>1, <2>1 DEF ValuesIn, BaseIn
  <2>3. PlainIn(shape) = {2}
    BY <1>1, <2>1, <2>2 DEF PlainIn
  <2> QED
    BY <2>2, <2>3 DEF shape
<1> QED
  BY <1>2, <1>3, <1>4

\* The shapes with a base register.
LEMMA LongShapes ==
  /\ LET s == <<"r", ",", "(", "r", ")">>
     IN  ValuesIn(s) = {} /\ BaseIn(s) = {5} /\ PlainIn(s) = {2}
  /\ LET s == <<"r", ",", "v", "(", "r", ")">>
     IN  ValuesIn(s) = {4} /\ BaseIn(s) = {6} /\ PlainIn(s) = {2}
  /\ LET s == <<"(", "r", ")", ",", "r">>
     IN  ValuesIn(s) = {} /\ BaseIn(s) = {3} /\ PlainIn(s) = {6}
  /\ LET s == <<"v", "(", "r", ")", ",", "r">>
     IN  ValuesIn(s) = {2} /\ BaseIn(s) = {4} /\ PlainIn(s) = {7}
<1>1. /\ 2 .. 6 = {2, 3, 4, 5, 6} /\ 3 .. 6 = {3, 4, 5, 6} /\ 2 .. 7 = {2, 3, 4, 5, 6, 7} /\ 3 .. 7 = {3, 4, 5, 6, 7}
      /\ 5 + 1 = 6 /\ 6 + 1 = 7 /\ 2 - 1 = 1 /\ 3 - 1 = 2 /\ 4 - 1 = 3 /\ 5 - 1 = 4 /\ 6 - 1 = 5 /\ 7 - 1 = 6
      /\ 3 - 2 = 1 /\ 4 - 2 = 2 /\ 5 - 2 = 3 /\ 6 - 2 = 4 /\ 7 - 2 = 5
  OBVIOUS
<1>2. ASSUME NEW s, s = <<"r", ",", "(", "r", ")">>
      PROVE  ValuesIn(s) = {} /\ BaseIn(s) = {5} /\ PlainIn(s) = {2}
  <2>1. Len(s) = 5 /\ s[1] = "r" /\ s[2] = "," /\ s[3] = "(" /\ s[4] = "r" /\ s[5] = ")"
    BY <1>2
  <2>2. BaseIn(s) = {5}
    BY <1>1, <2>1 DEF BaseIn
  <2>3. ValuesIn(s) = {}
    BY <1>1, <2>1 DEF ValuesIn
  <2>4. PlainIn(s) = {2}
    BY <1>1, <2>1, <2>2 DEF PlainIn
  <2> QED
    BY <2>2, <2>3, <2>4
<1>3. ASSUME NEW s, s = <<"r", ",", "v", "(", "r", ")">>
      PROVE  ValuesIn(s) = {4} /\ BaseIn(s) = {6} /\ PlainIn(s) = {2}
  <2>1. Len(s) = 6 /\ s[1] = "r" /\ s[2] = "," /\ s[3] = "v" /\ s[4] = "(" /\ s[5] = "r" /\ s[6] = ")"
    BY <1>3
  <2>2. BaseIn(s) = {6}
    BY <1>1, <2>1 DEF BaseIn
  <2>3. ValuesIn(s) = {4}
    BY <1>1, <2>1 DEF ValuesIn
  <2>4. PlainIn(s) = {2}
    <3>1. {i \in 2 .. (Len(s) + 1) : s[i - 1] = "r"} = {2, 6}
      BY <1>1, <2>1
    <3> QED
      BY <2>2, <3>1 DEF PlainIn
  <2> QED
    BY <2>2, <2>3, <2>4
<1>4. ASSUME NEW s, s = <<"(", "r", ")", ",", "r">>
      PROVE  ValuesIn(s) = {} /\ BaseIn(s) = {3} /\ PlainIn(s) = {6}
  <2>1. Len(s) = 5 /\ s[1] = "(" /\ s[2] = "r" /\ s[3] = ")" /\ s[4] = "," /\ s[5] = "r"
    BY <1>4
  <2>2. BaseIn(s) = {3}
    BY <1>1, <2>1 DEF BaseIn
  <2>3. ValuesIn(s) = {}
    BY <1>1, <2>1 DEF ValuesIn
  <2>4. PlainIn(s) = {6}
    BY <1>1, <2>1, <2>2 DEF PlainIn
  <2> QED
    BY <2>2, <2>3, <2>4
<1>5. ASSUME NEW s, s = <<"v", "(", "r", ")", ",", "r">>
      PROVE  ValuesIn(s) = {2} /\ BaseIn(s) = {4} /\ PlainIn(s) = {7}
  <2>1. Len(s) = 6 /\ s[1] = "v" /\ s[2] = "(" /\ s[3] = "r" /\ s[4] = ")" /\ s[5] = "," /\ s[6] = "r"
    BY <1>5
  <2>2. BaseIn(s) = {4}
    BY <1>1, <2>1 DEF BaseIn
  <2>3. ValuesIn(s) = {2}
    BY <1>1, <2>1 DEF ValuesIn
  <2>4. PlainIn(s) = {7}
    <3>1. {i \in 2 .. (Len(s) + 1) : s[i - 1] = "r"} = {4, 7}
      BY <1>1, <2>1
    <3> QED
      BY <2>2, <3>1 DEF PlainIn
  <2> QED
    BY <2>2, <2>3, <2>4
<1> QED
  BY <1>2, <1>3, <1>4, <1>5

\* The least of one or two numbers.
LEMMA LeastOf ==
  ASSUME NEW a \in Int, NEW b \in Int, a < b
  PROVE  Min({a}) = a /\ Min({a, b}) = a /\ Min({a, b} \ {a}) = b
<1>1. \A c \in Int : Min({c}) = c
  BY DEF Min
<1>2. Min({a, b}) = a
  BY DEF Min
<1>3. {a, b} \ {a} = {b}
  OBVIOUS
<1> QED
  BY <1>1, <1>2, <1>3

--------------------------------------------------------------------------
\* The letters of a statement that has a shape, and what must not follow.
Shaped(st, shape) == /\ Len(shape) \in Nat
                     /\ \A i \in 1 .. Len(shape) : Has(st, i, shape[i])
                     /\ ~GoesOn(st, shape)

\* The shapes are sequences of letters.
LEMMA ShapesSeq ==
  ASSUME NEW name \in Instrs \ {".pos", ".align"}
  PROVE  Shapes(name) \subseteq Seq(Alphabet)
<1>1. "r" \in Alphabet /\ "v" \in Alphabet /\ "," \in Alphabet /\ "(" \in Alphabet /\ ")" \in Alphabet
  BY DEF Alphabet
<1>2. \A a, b, c, d, e, f \in Alphabet : <<a>> \in Seq(Alphabet) /\ <<a, b>> \in Seq(Alphabet) /\ <<a, b, c>> \in Seq(Alphabet)
        /\ <<a, b, c, d, e>> \in Seq(Alphabet) /\ <<a, b, c, d, e, f>> \in Seq(Alphabet) /\ <<>> \in Seq(Alphabet)
  OBVIOUS
<1> HIDE DEF Alphabet
<1>3. CASE name \in Nullary \cup OneReg \cup OneValue \cup TwoRegs \cup ValueReg
  <2>0. <<>> \in Seq(Alphabet)
    OBVIOUS
  <2>1. /\ <<>> \in Seq(Alphabet) /\ <<"r">> \in Seq(Alphabet) /\ <<"v">> \in Seq(Alphabet)
        /\ <<"r", ",", "r">> \in Seq(Alphabet) /\ <<"v", ",", "r">> \in Seq(Alphabet)
    <3>1. <<"r", ",", "r">> \in Seq(Alphabet) /\ <<"v", ",", "r">> \in Seq(Alphabet)
      BY <1>1, <1>2
    <3>0. \A a \in Alphabet : <<a>> \in Seq(Alphabet)
      OBVIOUS
    <3>2. <<"r">> \in Seq(Alphabet) /\ <<"v">> \in Seq(Alphabet)
      BY <1>1, <3>0
    <3> QED
      BY <2>0, <3>1, <3>2
  <2>2. Shapes(name) \subseteq {<<>>, <<"r">>, <<"v">>, <<"r", ",", "r">>, <<"v", ",", "r">>}
    BY <1>3, ShapesAre
  <2> QED
    BY <2>1, <2>2
<1>4. CASE name = "rmmovq"
  <2>1. /\ <<"r", ",">> \in Seq(Alphabet) /\ <<"r", ",", "v">> \in Seq(Alphabet)
        /\ <<"r", ",", "(", "r", ")">> \in Seq(Alphabet) /\ <<"r", ",", "v", "(", "r", ")">> \in Seq(Alphabet)
    BY <1>1, <1>2
  <2> QED
    BY <1>4, <2>1, ShapesAre
<1>5. CASE name = "mrmovq"
  <2>1. /\ <<",", "r">> \in Seq(Alphabet) /\ <<"v", ",", "r">> \in Seq(Alphabet)
        /\ <<"(", "r", ")", ",", "r">> \in Seq(Alphabet) /\ <<"v", "(", "r", ")", ",", "r">> \in Seq(Alphabet)
    BY <1>1, <1>2
  <2> QED
    BY <1>5, <2>1, ShapesAre
<1> QED
  BY <1>3, <1>4, <1>5, Operations

\* The name of an instruction stands first in its statement.
LEMMA FirstToken ==
  ASSUME NEW line \in SourceLine, NEW ts, ts = line.tokens, IsInstr(ts), NEW st, st = Statement(ts), NEW c, c = Start(ts)
  PROVE  /\ c \in {1, 3} /\ c <= Len(ts) /\ 1 \in DOMAIN st /\ st[1] = ts[c] /\ st[1].type = "INSTR"
         /\ st[1].val = NameOf(ts) /\ NameOf(ts) \in Instrs \ {".pos", ".align"} /\ ts[c].val = NameOf(ts)
<1>1. c \in {1, 3} /\ HasName(ts) /\ Len(ts) \in Nat /\ DOMAIN ts = 1 .. Len(ts)
  BY StartInt, LineParts DEF IsInstr
<1>2. c \in DOMAIN ts /\ c + 1 - 1 = c /\ 1 \in Nat \ {0}
  BY <1>1 DEF HasName, Type
<1>3. c <= Len(ts)
  BY <1>1, <1>2
<1>4. 1 \in DOMAIN st /\ st[1] = ts[c]
  BY <1>2, <1>3, StatementTokens
<1>5. ts[c].type = "INSTR" /\ ts[c].val = NameOf(ts)
  BY <1>1, <1>2 DEF HasName, Type, NameOf
<1>6. NameOf(ts) \in Instrs \ {".pos", ".align"}
  BY <1>1, TokenParts DEF HasName, NameOf, IsInstr
<1> QED
  BY <1>1, <1>3, <1>4, <1>5, <1>6

\* The operands have a shape if the statement has its letters.
LEMMA OperandsAre ==
  ASSUME NEW line \in SourceLine, NEW ts, ts = line.tokens, IsInstr(ts), NEW st, st = Statement(ts), NEW shape
  PROVE  shape \in Operands(st) <=> shape \in Shapes(NameOf(ts)) /\ Shaped(st, shape)
<1>1. Start(ts) <= Len(ts) /\ st[1].val = NameOf(ts) /\ NameOf(ts) \in Instrs \ {".pos", ".align"}
  BY FirstToken
<1>2. Shapes(NameOf(ts)) \subseteq Seq(Alphabet)
  BY <1>1, ShapesSeq
<1>3. ASSUME shape \in Shapes(NameOf(ts))
      PROVE  IsPrefix(shape, Shape(st)) <=> \A i \in 1 .. Len(shape) : Has(st, i, shape[i])
  <2>1. shape \in Seq(Alphabet)
    BY <1>2, <1>3
  <2> QED
    BY <1>1, <2>1, ShapeFits
<1>4. shape \in Shapes(NameOf(ts)) => Len(shape) \in Nat
  BY <1>2
<1> QED
  BY <1>1, <1>3, <1>4 DEF Operands, Shaped

\* What the letters are, for the lengths that shapes have.
LEMMA ShapedOf ==
  ASSUME NEW st, NEW a, NEW b, NEW c, NEW d, NEW e, NEW f
  PROVE  /\ Shaped(st, <<a>>) => Has(st, 1, a)
         /\ Shaped(st, <<a, b>>) => Has(st, 1, a) /\ Has(st, 2, b)
         /\ Shaped(st, <<a, b, c>>) => Has(st, 1, a) /\ Has(st, 2, b) /\ Has(st, 3, c)
         /\ Shaped(st, <<a, b, c, d, e>>) =>
              Has(st, 1, a) /\ Has(st, 2, b) /\ Has(st, 3, c) /\ Has(st, 4, d) /\ Has(st, 5, e)
         /\ Shaped(st, <<a, b, c, d, e, f>>) =>
              Has(st, 1, a) /\ Has(st, 2, b) /\ Has(st, 3, c) /\ Has(st, 4, d) /\ Has(st, 5, e) /\ Has(st, 6, f)
<1>1. Len(<<a>>) = 1 /\ Len(<<a, b>>) = 2 /\ Len(<<a, b, c>>) = 3
      /\ Len(<<a, b, c, d, e>>) = 5 /\ Len(<<a, b, c, d, e, f>>) = 6
  OBVIOUS
<1>2. Shaped(st, <<a>>) => Has(st, 1, a)
  BY <1>1 DEF Shaped
<1>3. Shaped(st, <<a, b>>) => Has(st, 1, a) /\ Has(st, 2, b)
  BY <1>1 DEF Shaped
<1>4. Shaped(st, <<a, b, c>>) => Has(st, 1, a) /\ Has(st, 2, b) /\ Has(st, 3, c)
  BY <1>1 DEF Shaped
<1>5. Shaped(st, <<a, b, c, d, e>>) =>
        Has(st, 1, a) /\ Has(st, 2, b) /\ Has(st, 3, c) /\ Has(st, 4, d) /\ Has(st, 5, e)
  BY <1>1 DEF Shaped
<1>6. Shaped(st, <<a, b, c, d, e, f>>) =>
        Has(st, 1, a) /\ Has(st, 2, b) /\ Has(st, 3, c) /\ Has(st, 4, d) /\ Has(st, 5, e) /\ Has(st, 6, f)
  BY <1>1 DEF Shaped
<1> QED
  BY <1>2, <1>3, <1>4, <1>5, <1>6

\* The four shapes of rmmovq and those of mrmovq, told apart.
Store1 == <<"r", ",">>
Store2 == <<"r", ",", "v">>
Store3 == <<"r", ",", "(", "r", ")">>
Store4 == <<"r", ",", "v", "(", "r", ")">>
Load1 == <<",", "r">>
Load2 == <<"v", ",", "r">>
Load3 == <<"(", "r", ")", ",", "r">>
Load4 == <<"v", "(", "r", ")", ",", "r">>

\* Letters that follow from the shape of rmmovq.
LEMMA StoreShapes ==
  ASSUME NEW line \in SourceLine, NEW ts, ts = line.tokens, IsInstr(ts), NEW st, st = Statement(ts), NEW c, c = Start(ts),
         NameOf(ts) = "rmmovq"
  PROVE  /\ Shaped(st, Store1) => ~IsValue(ts, c + 3) /\ ~Is(ts, c + 3, "(")
         /\ Shaped(st, Store2) => IsValue(ts, c + 3) /\ ~Is(ts, c + 4, "(")
         /\ Shaped(st, Store3) => ~IsValue(ts, c + 3) /\ Is(ts, c + 3, "(")
         /\ Shaped(st, Store4) => IsValue(ts, c + 3) /\ Is(ts, c + 4, "(")
<1>1. Start(ts) <= Len(ts) /\ st[1].val = "rmmovq"
  BY FirstToken
<1>n. 1 \in Nat \ {0} /\ 2 \in Nat \ {0} /\ 3 \in Nat \ {0} /\ 4 \in Nat \ {0}
  OBVIOUS
<1>0. ASSUME NEW i \in Nat \ {0}
      PROVE  /\ Has(st, i, "v") <=> IsValue(ts, c + i)
             /\ Has(st, i, "(") <=> Is(ts, c + i, "(")
             /\ Has(st, i, ",") <=> CommaAt(ts, c + i)
             /\ IsValue(st, i + 1) <=> IsValue(ts, c + i)
             /\ Is(st, i + 1, "(") <=> Is(ts, c + i, "(")
  BY <1>1, HasIs
<1>2. /\ Has(st, 3, "v") <=> IsValue(ts, c + 3)
      /\ Has(st, 3, "(") <=> Is(ts, c + 3, "(")
      /\ IsValue(st, 3 + 1) <=> IsValue(ts, c + 3)
      /\ Is(st, 3 + 1, "(") <=> Is(ts, c + 3, "(")
  BY <1>0, <1>n
<1>3. /\ Has(st, 4, "(") <=> Is(ts, c + 4, "(")
      /\ Is(st, 4 + 1, "(") <=> Is(ts, c + 4, "(")
  BY <1>0, <1>n
<1>4. 3 + 1 = 4 /\ 4 + 1 = 5 /\ 2 + 2 = 4 /\ 3 + 2 = 5
  OBVIOUS
<1>5. Is(ts, c + 3, "(") => ~IsValue(ts, c + 3)
  BY DEF Is, IsValue
<1>6. ASSUME Shaped(st, Store1)
      PROVE  ~IsValue(ts, c + 3) /\ ~Is(ts, c + 3, "(")
  <2>1. Len(Store1) = 2 /\ ~GoesOn(st, Store1)
    BY <1>6 DEF Shaped, Store1
  <2> QED
    BY <1>1, <1>2, <1>4, <2>1 DEF GoesOn
<1>7. ASSUME Shaped(st, Store2)
      PROVE  IsValue(ts, c + 3) /\ ~Is(ts, c + 4, "(")
  <2>1. Len(Store2) = 3 /\ ~GoesOn(st, Store2)
    BY <1>7 DEF Shaped, Store2
  <2>2. Has(st, 3, "v")
    BY <1>7, ShapedOf DEF Store2
  <2> QED
    BY <1>1, <1>2, <1>3, <1>4, <2>1, <2>2 DEF GoesOn
<1>8. Shaped(st, Store3) => Has(st, 3, "(")
  BY ShapedOf DEF Store3
<1>9. Shaped(st, Store4) => Has(st, 3, "v") /\ Has(st, 4, "(")
  BY ShapedOf DEF Store4
<1> QED
  BY <1>2, <1>3, <1>5, <1>6, <1>7, <1>8, <1>9

\* Letters that follow from the shape of mrmovq.
LEMMA LoadShapes ==
  ASSUME NEW line \in SourceLine, NEW ts, ts = line.tokens, IsInstr(ts), NEW st, st = Statement(ts), NEW c, c = Start(ts)
  PROVE  /\ Shaped(st, Load1) => ~IsValue(ts, c + 1) /\ ~Is(ts, c + 1, "(")
         /\ Shaped(st, Load2) => IsValue(ts, c + 1) /\ ~Is(ts, c + 2, "(")
         /\ Shaped(st, Load3) => ~IsValue(ts, c + 1) /\ Is(ts, c + 1, "(")
         /\ Shaped(st, Load4) => IsValue(ts, c + 1) /\ Is(ts, c + 2, "(")
<1>1. Start(ts) <= Len(ts)
  BY FirstToken
<1>n. 1 \in Nat \ {0} /\ 2 \in Nat \ {0} /\ 3 \in Nat \ {0} /\ 4 \in Nat \ {0}
  OBVIOUS
<1>0. ASSUME NEW i \in Nat \ {0}
      PROVE  /\ Has(st, i, "v") <=> IsValue(ts, c + i)
             /\ Has(st, i, "(") <=> Is(ts, c + i, "(")
             /\ Has(st, i, ",") <=> CommaAt(ts, c + i)
             /\ IsValue(st, i + 1) <=> IsValue(ts, c + i)
             /\ Is(st, i + 1, "(") <=> Is(ts, c + i, "(")
  BY <1>1, HasIs
<1>2. /\ Has(st, 1, "v") <=> IsValue(ts, c + 1)
      /\ Has(st, 1, "(") <=> Is(ts, c + 1, "(")
      /\ Has(st, 1, ",") <=> CommaAt(ts, c + 1)
  BY <1>0, <1>n
<1>3. /\ Has(st, 2, "(") <=> Is(ts, c + 2, "(")
      /\ Has(st, 2, ",") <=> CommaAt(ts, c + 2)
  BY <1>0, <1>n
<1>4. \A i : (Is(ts, i, "(") => ~IsValue(ts, i)) /\ (CommaAt(ts, i) => ~IsValue(ts, i) /\ ~Is(ts, i, "("))
  BY DEF Is, IsValue, CommaAt
<1>5. Shaped(st, Load1) => Has(st, 1, ",")
  BY ShapedOf DEF Load1
<1>6. Shaped(st, Load2) => Has(st, 1, "v") /\ Has(st, 2, ",")
  BY ShapedOf DEF Load2
<1>7. Shaped(st, Load3) => Has(st, 1, "(")
  BY ShapedOf DEF Load3
<1>8. Shaped(st, Load4) => Has(st, 1, "v") /\ Has(st, 2, "(")
  BY ShapedOf DEF Load4
<1> QED
  BY <1>2, <1>3, <1>4, <1>5, <1>6, <1>7, <1>8

\* A statement has one shape at most.
LEMMA OneShape ==
  ASSUME NEW line \in SourceLine, NEW ts, ts = line.tokens, IsInstr(ts), NEW st, st = Statement(ts),
         NEW a \in Operands(st), NEW b \in Operands(st)
  PROVE  a = b
<1> DEFINE name == NameOf(ts)
<1>1. name \in Instrs \ {".pos", ".align"}
  BY FirstToken
<1>2. a \in Shapes(name) /\ Shaped(st, a) /\ b \in Shapes(name) /\ Shaped(st, b)
  BY OperandsAre
<1> HIDE DEF name
<1>3. CASE name \notin {"rmmovq", "mrmovq"}
  <2>1. \E s : Shapes(name) = {s}
    BY <1>1, <1>3, Operations, ShapesAre
  <2> QED
    BY <1>2, <2>1
<1>4. CASE name = "rmmovq"
  <2>1. Shapes(name) = {Store1, Store2, Store3, Store4}
    BY <1>4, ShapesAre DEF Store1, Store2, Store3, Store4
  <2> DEFINE c == Start(ts)
             V == IsValue(ts, c + 3)
             O == Is(ts, c + 3, "(")
             Q == Is(ts, c + 4, "(")
  <2>2. /\ Shaped(st, Store1) => ~V /\ ~O
        /\ Shaped(st, Store2) => V /\ ~Q
        /\ Shaped(st, Store3) => ~V /\ O
        /\ Shaped(st, Store4) => V /\ Q
    BY <1>4, StoreShapes DEF name
  <2> HIDE DEF V, O, Q, c
  <2> QED
    BY <1>2, <2>1, <2>2
<1>5. CASE name = "mrmovq"
  <2>1. Shapes(name) = {Load1, Load2, Load3, Load4}
    BY <1>5, ShapesAre DEF Load1, Load2, Load3, Load4
  <2> DEFINE c == Start(ts)
             V == IsValue(ts, c + 1)
             O == Is(ts, c + 1, "(")
             Q == Is(ts, c + 2, "(")
  <2>2. /\ Shaped(st, Load1) => ~V /\ ~O
        /\ Shaped(st, Load2) => V /\ ~Q
        /\ Shaped(st, Load3) => ~V /\ O
        /\ Shaped(st, Load4) => V /\ Q
    BY LoadShapes
  <2> HIDE DEF V, O, Q, c
  <2> QED
    BY <1>2, <2>1, <2>2
<1> QED
  BY <1>3, <1>4, <1>5

\* A statement that has a shape is trimmed to it.
LEMMA TrimmedIs ==
  ASSUME NEW line \in SourceLine, NEW ts, ts = line.tokens, IsInstr(ts), NEW st, st = Statement(ts),
         NEW shape \in Operands(st), NEW c, c = Start(ts)
  PROVE  /\ Pure(Trimmed(st), shape)
         /\ \A i \in 1 .. (Len(shape) + 1) : Trimmed(st)[i] = ts[c + i - 1]
<1>1. (CHOOSE s \in Operands(st) : TRUE) = shape
  <2>1. \A s \in Operands(st) : s = shape
    BY OneShape
  <2>2. (CHOOSE s \in Operands(st) : TRUE) \in Operands(st)
    OBVIOUS
  <2> QED
    BY <2>1, <2>2
<1> DEFINE n == Len(shape)
           T == Trimmed(st)
<1>2. Shaped(st, shape) /\ n \in Nat
  BY OperandsAre DEF Shaped
<1>3. T = SubSeq(st, 1, 1 + n)
  BY <1>1 DEF Trimmed
<1>4. c \in {1, 3} /\ Start(ts) <= Len(ts) /\ 1 \in DOMAIN st /\ st[1].type = "INSTR"
  BY FirstToken
<1>5. Len(st) \in Nat /\ DOMAIN st = 1 .. Len(st) /\ \A i \in 1 .. Len(st) : st[i] \in Token /\ st[i] = ts[c + i - 1]
  <2>0. Start(ts) <= Len(ts)
    BY <1>4
  <2>1. Len(st) \in Nat /\ DOMAIN st = 1 .. Len(st)
    BY <2>0, StatementParts
  <2>2. \A i \in 1 .. Len(st) : st[i] \in Token /\ st[i] = ts[Start(ts) + i - 1]
    BY <2>0, StatementParts
  <2> QED
    BY <2>1, <2>2
<1>6. st \in Seq(Token)
  <2>1. ts \in Seq(Token) /\ Len(ts) \in Nat /\ Start(ts) \in {1, 3}
    BY LineParts, StartInt
  <2>2. SubSeq(ts, Start(ts), Len(ts)) \in Seq(Token)
    BY <2>1
  <2> QED
    BY <2>2 DEF Statement
<1> HIDE DEF n, T
<1>7. n + 1 <= Len(st)
  <2>1. CASE n = 0
    BY <1>4, <1>5, <2>1
  <2>2. CASE n # 0
    <3>1. n \in 1 .. n
      BY <1>2, <2>2
    <3>2. Has(st, n, shape[n])
      BY <1>2, <3>1 DEF Shaped, n
    <3> QED
      BY <1>2, <1>5, <3>2 DEF Has
  <2> QED
    BY <2>1, <2>2
<1>8. Len(T) = n + 1 /\ DOMAIN T = 1 .. (n + 1) /\ \A i \in 1 .. (n + 1) : T[i] = st[i]
  BY <1>2, <1>3, <1>6, <1>7
<1>9. ASSUME NEW i \in 2 .. (n + 1)
      PROVE  T[i] \in Token /\ Letter(T[i]) = shape[i - 1]
  <2> DEFINE j == i - 1
  <2>1. j \in 1 .. n /\ i = j + 1 /\ i \in 1 .. Len(st) /\ i \in 1 .. (n + 1)
    BY <1>2, <1>5, <1>7
  <2> HIDE DEF j
  <2>2. Has(st, j, shape[j])
    BY <1>2, <2>1 DEF Shaped, n
  <2> QED
    BY <1>5, <1>8, <2>1, <2>2 DEF Has, j
<1>10. Pure(T, shape)
  <2>1. 1 \in 1 .. (n + 1)
    BY <1>2
  <2> QED
    BY <1>4, <1>8, <1>9, <2>1 DEF Pure, n
<1>11. \A i \in 1 .. (n + 1) : T[i] = ts[c + i - 1]
  BY <1>2, <1>5, <1>7, <1>8
<1> QED
  BY <1>10, <1>11 DEF T, n

--------------------------------------------------------------------------
\* What the code of an instruction is to the simulators.

\* The instruction codes of the kinds.
LEMMA Icodes ==
  ASSUME NEW name \in DOMAIN Opcode, NEW icode, icode = Hi4(Opcode[name])
  PROVE  /\ name \in Nullary => icode \in {I_HALT, I_NOP, I_RET}
         /\ name \in OneReg => icode \in {I_PUSHQ, I_POPQ}
         /\ name \in TwoRegs => icode \in {I_RRMOVQ, I_ALU}
         /\ name \in OneValue => icode \in {I_JMP, I_CALL}
         /\ name \in ValueReg => icode \in {I_IRMOVQ, I_IADDQ, I_JM}
         /\ name = "rmmovq" => icode = I_RMMOVQ
         /\ name = "mrmovq" => icode = I_MRMOVQ
         /\ Opcode[name] = Hpack(icode, Lo4(Opcode[name]))
<1> USE DEF I_HALT, I_NOP, I_RET, I_PUSHQ, I_POPQ, I_RRMOVQ, I_ALU, I_JMP, I_CALL, I_IRMOVQ, I_IADDQ, I_JM, I_RMMOVQ, I_MRMOVQ
<1>1. name \in Nullary => icode \in {I_HALT, I_NOP, I_RET}
  BY DEF Nullary, Opcode, Hi4
<1>2. name \in OneReg => icode \in {I_PUSHQ, I_POPQ}
  BY DEF OneReg, Opcode, Hi4
<1>3. name \in TwoRegs => icode \in {I_RRMOVQ, I_ALU}
  BY DEF TwoRegs, Opcode, Hi4
<1>4. name \in OneValue => icode \in {I_JMP, I_CALL}
  BY DEF OneValue, Opcode, Hi4
<1>5. name \in ValueReg => icode \in {I_IRMOVQ, I_IADDQ, I_JM}
  BY DEF ValueReg, Opcode, Hi4
<1>6. (name = "rmmovq" => icode = I_RMMOVQ) /\ (name = "mrmovq" => icode = I_MRMOVQ)
  BY DEF Opcode, Hi4
<1>7. Opcode[name] \in 0 .. 255
  BY DEF Opcode
<1>8. Opcode[name] = Hpack(icode, Lo4(Opcode[name]))
  BY <1>7 DEF Hpack, Hi4, Lo4
<1> QED
  BY <1>1, <1>2, <1>3, <1>4, <1>5, <1>6, <1>8

\* Registers and values of an icode.
LEMMA IcodeOperands ==
  ASSUME NEW st, NEW icode
  PROVE  /\ icode \in {I_HALT, I_NOP, I_RET, I_JMP, I_CALL} => RegisterA(icode, st) = REG_NONE /\ RegisterB(icode, st) = REG_NONE
         /\ icode \in {I_PUSHQ, I_POPQ} => RegisterA(icode, st) = FirstReg(st) /\ RegisterB(icode, st) = REG_NONE
         /\ icode \in {I_RRMOVQ, I_ALU} => RegisterA(icode, st) = FirstReg(st) /\ RegisterB(icode, st) = SecondReg(st)
         /\ icode \in {I_IRMOVQ, I_IADDQ, I_JM} => RegisterA(icode, st) = REG_NONE /\ RegisterB(icode, st) = FirstReg(st)
         /\ icode \in {I_RMMOVQ, I_MRMOVQ} => RegisterA(icode, st) = FirstReg(st) /\ RegisterB(icode, st) = BaseReg(st)
         /\ icode \in {I_HALT, I_NOP, I_RET, I_PUSHQ, I_POPQ, I_RRMOVQ, I_ALU} => ~NeedImm(icode)
         /\ icode \in {I_JMP, I_CALL, I_IRMOVQ, I_IADDQ, I_JM, I_RMMOVQ, I_MRMOVQ} => NeedImm(icode)
         /\ icode \in {I_HALT, I_NOP, I_RET, I_JMP, I_CALL} => ~NeedRegids(icode)
         /\ icode \in {I_PUSHQ, I_POPQ, I_RRMOVQ, I_ALU, I_IRMOVQ, I_IADDQ, I_JM, I_RMMOVQ, I_MRMOVQ} => NeedRegids(icode)
<1> USE DEF I_HALT, I_NOP, I_RET, I_PUSHQ, I_POPQ, I_RRMOVQ, I_ALU, I_JMP, I_CALL, I_IRMOVQ, I_IADDQ, I_JM, I_RMMOVQ, I_MRMOVQ
<1>1. /\ icode \in {I_HALT, I_NOP, I_RET, I_JMP, I_CALL} => RegisterA(icode, st) = REG_NONE
      /\ icode \in {I_IRMOVQ, I_IADDQ, I_JM} => RegisterA(icode, st) = REG_NONE
      /\ icode \in {I_PUSHQ, I_POPQ, I_RRMOVQ, I_ALU, I_RMMOVQ, I_MRMOVQ} => RegisterA(icode, st) = FirstReg(st)
  BY DEF RegisterA
<1>2. icode \in {I_HALT, I_NOP, I_RET, I_JMP, I_CALL, I_PUSHQ, I_POPQ} => RegisterB(icode, st) = REG_NONE
  BY DEF RegisterB
<1>3. icode \in {I_RRMOVQ, I_ALU} => RegisterB(icode, st) = SecondReg(st)
  BY DEF RegisterB
<1>4. icode \in {I_IRMOVQ, I_IADDQ, I_JM} => RegisterB(icode, st) = FirstReg(st)
  BY DEF RegisterB
<1>5. icode \in {I_RMMOVQ, I_MRMOVQ} => RegisterB(icode, st) = BaseReg(st)
  BY DEF RegisterB
<1>6. /\ icode \in {I_HALT, I_NOP, I_RET, I_PUSHQ, I_POPQ, I_RRMOVQ, I_ALU} => ~NeedImm(icode)
      /\ icode \in {I_JMP, I_CALL, I_IRMOVQ, I_IADDQ, I_JM, I_RMMOVQ, I_MRMOVQ} => NeedImm(icode)
  BY DEF NeedImm
<1>7. /\ icode \in {I_HALT, I_NOP, I_RET, I_JMP, I_CALL} => ~NeedRegids(icode)
      /\ icode \in {I_PUSHQ, I_POPQ, I_RRMOVQ, I_ALU, I_IRMOVQ, I_IADDQ, I_JM, I_RMMOVQ, I_MRMOVQ} => NeedRegids(icode)
  BY DEF NeedRegids
<1> QED
  BY <1>1, <1>2, <1>3, <1>4, <1>5, <1>6, <1>7

\* What the statement st says is the code of the instruction at c of ts.
Agree(st, icode, ts, c, table) ==
  /\ RegisterA(icode, st) = RegA(ts, c) /\ RegisterB(icode, st) = RegB(ts, c)
  /\ NeedImm(icode) =>
       \/ Values(st) = {} /\ Val(ts, c, table) = 0
       \/ Values(st) # {} /\ \E j : /\ st[Min(Values(st))] = ts[j] /\ IsKnown(ts, table, j)
                                    /\ Val(ts, c, table) = Value(table, ts[j])

\* The sets of a shape, and so of a statement.
Sets(st, shape, values, base, plain) ==
  Pure(st, shape) /\ Len(shape) \in Nat /\ ValuesIn(shape) = values /\ BaseIn(shape) = base /\ PlainIn(shape) = plain

\* What a statement has is found in these sets.
LEMMA FromSets ==
  ASSUME NEW st, NEW shape, NEW values, NEW base, NEW plain, Sets(st, shape, values, base, plain)
  PROVE  /\ Values(st) = values
         /\ \A a \in Int : plain = {a} => FirstReg(st) = st[a].val
         /\ \A a, b \in Int : a < b /\ plain = {a, b} => FirstReg(st) = st[a].val /\ SecondReg(st) = st[b].val
         /\ base = {} => BaseReg(st) = REG_NONE
         /\ \A a \in Int : base = {a} => BaseReg(st) = st[a].val
         /\ \A a \in Int : values = {a} => Min(Values(st)) = a
<1>1. Values(st) = values /\ Base(st) = base /\ Plain(st) = plain
  BY PureParts DEF Sets
<1>2. \A a \in Int : Min({a}) = a
  <2> TAKE a \in Int
  <2>1. a < a + 1 /\ a + 1 \in Int
    OBVIOUS
  <2> QED
    BY <2>1, LeastOf
<1>3. \A a, b \in Int : a < b => Min({a, b}) = a /\ Min({a, b} \ {a}) = b
  BY LeastOf
<1>4. \A a \in Int : plain = {a} => FirstReg(st) = st[a].val
  BY <1>1, <1>2 DEF FirstReg
<1>5. \A a, b \in Int : a < b /\ plain = {a, b} => FirstReg(st) = st[a].val /\ SecondReg(st) = st[b].val
  <2> SUFFICES ASSUME NEW a \in Int, NEW b \in Int, a < b, plain = {a, b}
               PROVE  FirstReg(st) = st[a].val /\ SecondReg(st) = st[b].val
    OBVIOUS
  <2>1. Plain(st) = {a, b} /\ Min({a, b}) = a /\ Min({a, b} \ {a}) = b
    BY <1>1, <1>3
  <2>2. FirstReg(st) = st[a].val
    BY <2>1 DEF FirstReg
  <2>3. Min(Plain(st)) = a /\ Min(Plain(st) \ {a}) = b
    BY <2>1
  <2>4. SecondReg(st) = st[b].val
    BY <2>3 DEF SecondReg
  <2> QED
    BY <2>2, <2>4
<1>6. (base = {} => BaseReg(st) = REG_NONE) /\ (\A a \in Int : base = {a} => BaseReg(st) = st[a].val)
  BY <1>1, <1>2 DEF BaseReg
<1>7. \A a \in Int : values = {a} => Min(Values(st)) = a
  BY <1>1, <1>2
<1> QED
  BY <1>1, <1>4, <1>5, <1>6, <1>7

\* Instructions without a memory reference.
LEMMA SimpleAgree ==
  ASSUME NEW line \in SourceLine, NEW ts, ts = line.tokens, IsInstr(ts), NEW st, st = Statement(ts), NEW c, c = Start(ts),
         NEW name, name = NameOf(ts), name \in DOMAIN Opcode, NEW icode, icode = Hi4(Opcode[name]),
         NEW table, Accepts(ts, c, table), NEW shape \in Operands(st), name \notin {"rmmovq", "mrmovq"}
  PROVE  Agree(Trimmed(st), icode, ts, c, table)
<1> DEFINE T == Trimmed(st)
<1>1. c \in {1, 3} /\ ts[c].val = name
  BY FirstToken
<1>2. shape \in Shapes(name) /\ Shaped(st, shape)
  BY OperandsAre
<1>3. Pure(T, shape) /\ \A i \in 1 .. (Len(shape) + 1) : T[i] = ts[c + i - 1]
  <2>1. Pure(Trimmed(st), shape)
    BY TrimmedIs
  <2>2. \A i \in 1 .. (Len(shape) + 1) : Trimmed(st)[i] = ts[c + i - 1]
    BY TrimmedIs
  <2> QED
    BY <2>1, <2>2
<1> HIDE DEF T
<1>4. name \in Nullary \cup OneReg \cup TwoRegs \cup OneValue \cup ValueReg
  BY KindsApart
<1>5. CASE name \in Nullary
  <2>1. icode \in {I_HALT, I_NOP, I_RET}
    BY <1>5, Icodes
  <2>2. RegA(ts, c) = REG_NONE /\ RegB(ts, c) = REG_NONE
    BY <1>1, <1>5, KindsApart DEF RegA, RegB
  <2>3. RegisterA(icode, T) = REG_NONE /\ RegisterB(icode, T) = REG_NONE /\ ~NeedImm(icode)
    BY <2>1, IcodeOperands
  <2> QED
    BY <2>2, <2>3 DEF Agree, T
<1>6. CASE name \in OneReg
  <2>1. icode \in {I_PUSHQ, I_POPQ}
    BY <1>6, Icodes
  <2>2. RegA(ts, c) = ts[c + 1].val /\ RegB(ts, c) = REG_NONE
    BY <1>1, <1>6, KindsApart DEF RegA, RegB
  <2>3. RegisterA(icode, T) = FirstReg(T) /\ RegisterB(icode, T) = REG_NONE /\ ~NeedImm(icode)
    BY <2>1, IcodeOperands
  <2>4. shape = <<"r">> /\ Len(<<"r">>) = 1
    BY <1>2, <1>6, ShapesAre
  <2>5. Sets(T, shape, {}, {}, {2}) /\ T[2] = ts[c + 1]
    <3>1. Len(shape) = 1
      BY <2>4
    <3>2. Sets(T, shape, {}, {}, {2})
      BY <1>3, <2>4, <3>1, ShortShapes DEF Sets
    <3>3. T[2] = ts[c + 1]
      BY <1>1, <1>3, <3>1
    <3> QED
      BY <3>2, <3>3
  <2>6. FirstReg(T) = T[2].val
    BY <2>5, FromSets
  <2> QED
    BY <2>2, <2>3, <2>5, <2>6 DEF Agree, T
<1>7. CASE name \in TwoRegs
  <2>1. icode \in {I_RRMOVQ, I_ALU}
    BY <1>7, Icodes
  <2>2. RegA(ts, c) = ts[c + 1].val /\ RegB(ts, c) = ts[c + 3].val
    BY <1>1, <1>7, KindsApart DEF RegA, RegB
  <2>3. RegisterA(icode, T) = FirstReg(T) /\ RegisterB(icode, T) = SecondReg(T) /\ ~NeedImm(icode)
    BY <2>1, IcodeOperands
  <2>4. shape = <<"r", ",", "r">> /\ Len(<<"r", ",", "r">>) = 3
    BY <1>2, <1>7, ShapesAre
  <2>5. Sets(T, shape, {}, {}, {2, 4}) /\ T[2] = ts[c + 1] /\ T[4] = ts[c + 3]
    <3>1. Len(shape) = 3
      BY <2>4
    <3>2. Sets(T, shape, {}, {}, {2, 4})
      BY <1>3, <2>4, <3>1, MiddleShapes DEF Sets
    <3>3. T[2] = ts[c + 1] /\ T[4] = ts[c + 3]
      BY <1>1, <1>3, <3>1
    <3> QED
      BY <3>2, <3>3
  <2>6. FirstReg(T) = T[2].val /\ SecondReg(T) = T[4].val
    BY <2>5, FromSets
  <2> QED
    BY <2>2, <2>3, <2>5, <2>6 DEF Agree, T
<1>8. CASE name \in OneValue
  <2>1. icode \in {I_JMP, I_CALL}
    BY <1>8, Icodes
  <2>2. RegA(ts, c) = REG_NONE /\ RegB(ts, c) = REG_NONE /\ Val(ts, c, table) = Value(table, ts[c + 1])
    BY <1>1, <1>8, KindsApart DEF RegA, RegB, Val
  <2>3. RegisterA(icode, T) = REG_NONE /\ RegisterB(icode, T) = REG_NONE
    BY <2>1, IcodeOperands
  <2>4. shape = <<"v">> /\ Len(<<"v">>) = 1
    BY <1>2, <1>8, ShapesAre
  <2>5. Sets(T, shape, {2}, {}, {}) /\ T[2] = ts[c + 1]
    <3>1. Len(shape) = 1
      BY <2>4
    <3>2. Sets(T, shape, {2}, {}, {})
      BY <1>3, <2>4, <3>1, ShortShapes DEF Sets
    <3>3. T[2] = ts[c + 1]
      BY <1>1, <1>3, <3>1
    <3> QED
      BY <3>2, <3>3
  <2>6. Values(T) = {2} /\ Min(Values(T)) = 2
    BY <2>5, FromSets
  <2>7. IsKnown(ts, table, c + 1)
    BY <1>1, <1>8 DEF Accepts
  <2> QED
    BY <2>2, <2>3, <2>5, <2>6, <2>7 DEF Agree, T
<1>9. CASE name \in ValueReg
  <2>1. icode \in {I_IRMOVQ, I_IADDQ, I_JM}
    BY <1>9, Icodes
  <2>2. RegA(ts, c) = REG_NONE /\ RegB(ts, c) = ts[c + 3].val /\ Val(ts, c, table) = Value(table, ts[c + 1])
    BY <1>1, <1>9, KindsApart DEF RegA, RegB, Val
  <2>3. RegisterA(icode, T) = REG_NONE /\ RegisterB(icode, T) = FirstReg(T)
    BY <2>1, IcodeOperands
  <2>4. shape = <<"v", ",", "r">> /\ Len(<<"v", ",", "r">>) = 3
    BY <1>2, <1>9, ShapesAre
  <2>5. Sets(T, shape, {2}, {}, {4}) /\ T[2] = ts[c + 1] /\ T[4] = ts[c + 3]
    <3>1. Len(shape) = 3
      BY <2>4
    <3>2. Sets(T, shape, {2}, {}, {4})
      BY <1>3, <2>4, <3>1, MiddleShapes DEF Sets
    <3>3. T[2] = ts[c + 1] /\ T[4] = ts[c + 3]
      BY <1>1, <1>3, <3>1
    <3> QED
      BY <3>2, <3>3
  <2>6. Values(T) = {2} /\ Min(Values(T)) = 2 /\ FirstReg(T) = T[4].val
    BY <2>5, FromSets
  <2>7. IsKnown(ts, table, c + 1)
    BY <1>1, <1>9 DEF Accepts
  <2> QED
    BY <2>2, <2>3, <2>5, <2>6, <2>7 DEF Agree, T
<1> QED
  BY <1>4, <1>5, <1>6, <1>7, <1>8, <1>9

\* rmmovq, with its memory reference.
LEMMA StoreAgree ==
  ASSUME NEW line \in SourceLine, NEW ts, ts = line.tokens, IsInstr(ts), NEW st, st = Statement(ts), NEW c, c = Start(ts),
         NEW name, name = NameOf(ts), name \in DOMAIN Opcode, NEW icode, icode = Hi4(Opcode[name]),
         NEW table, Accepts(ts, c, table), NEW shape \in Operands(st), name = "rmmovq"
  PROVE  Agree(Trimmed(st), icode, ts, c, table)
<1> DEFINE T == Trimmed(st)
<1>1. c \in {1, 3} /\ ts[c].val = name
  BY FirstToken
<1>2. shape \in Shapes(name) /\ Shaped(st, shape)
  BY OperandsAre
<1>3. Pure(T, shape) /\ \A i \in 1 .. (Len(shape) + 1) : T[i] = ts[c + i - 1]
  BY TrimmedIs
<1> HIDE DEF T
<1>4. icode = I_RMMOVQ
  BY Icodes
<1>5. RegisterA(icode, T) = FirstReg(T) /\ RegisterB(icode, T) = BaseReg(T)
  BY <1>4, IcodeOperands
<1>6. RegB(ts, c) = MemBase(ts, c + 3) /\ Val(ts, c, table) = MemDisp(ts, table, c + 3)
  BY <1>1, KindsApart DEF RegB, Val
<1>7. RegA(ts, c) = ts[c + 1].val
  BY <1>1 DEF RegA
<1>8. IsValue(ts, c + 3) => IsKnown(ts, table, c + 3)
  BY <1>1 DEF Accepts, MemoryOk, IsKnown
<1>9. CASE shape = Store1
  <2>1. ~IsValue(ts, c + 3) /\ ~Is(ts, c + 3, "(")
    BY <1>2, <1>9, StoreShapes
  <2>2. BaseAt(ts, c + 3) = c + 3
    BY <1>1, <2>1 DEF BaseAt
  <2>3. MemBase(ts, c + 3) = REG_NONE /\ MemDisp(ts, table, c + 3) = 0
    BY <1>1, <2>1, <2>2 DEF MemBase, MemDisp
  <2>5. Len(shape) = 2
    BY <1>9 DEF Store1
  <2>6. Sets(T, shape, {}, {}, {2})
    BY <1>3, <1>9, <2>5, ShortShapes DEF Sets, Store1
  <2>7. T[2] = ts[c + 1]
    BY <1>1, <1>3, <2>5
  <2>8. FirstReg(T) = T[2].val /\ BaseReg(T) = REG_NONE /\ Values(T) = {}
    BY <2>6, FromSets
  <2>9. Values(T) = {}
    BY <2>8
  <2>10. RegA(ts, c) = ts[c + 1].val
    BY <1>7
  <2> QED
    BY <1>5, <1>6, <2>3, <2>7, <2>8, <2>9, <2>10 DEF Agree, T
<1>10. CASE shape = Store2
  <2>1. IsValue(ts, c + 3) /\ ~Is(ts, c + 4, "(")
    BY <1>2, <1>10, StoreShapes
  <2>2. BaseAt(ts, c + 3) = c + 4
    BY <1>1, <2>1 DEF BaseAt
  <2>3. MemBase(ts, c + 3) = REG_NONE /\ MemDisp(ts, table, c + 3) = Value(table, ts[c + 3])
    BY <1>1, <2>1, <2>2 DEF MemBase, MemDisp
  <2>5. Len(shape) = 3
    BY <1>10 DEF Store2
  <2>6. Sets(T, shape, {4}, {}, {2})
    BY <1>3, <1>10, <2>5, MiddleShapes DEF Sets, Store2
  <2>7. T[2] = ts[c + 1] /\ T[4] = ts[c + 3]
    BY <1>1, <1>3, <2>5
  <2>8. FirstReg(T) = T[2].val /\ BaseReg(T) = REG_NONE /\ Values(T) = {4} /\ Min(Values(T)) = 4
    BY <2>6, FromSets
  <2>9. IsKnown(ts, table, c + 3)
    BY <1>8, <2>1
  <2>10. RegA(ts, c) = ts[c + 1].val
    BY <1>7
  <2> QED
    BY <1>5, <1>6, <2>3, <2>7, <2>8, <2>9, <2>10 DEF Agree, T
<1>11. CASE shape = Store3
  <2>1. ~IsValue(ts, c + 3) /\ Is(ts, c + 3, "(")
    BY <1>2, <1>11, StoreShapes
  <2>2. BaseAt(ts, c + 3) = c + 3
    BY <1>1, <2>1 DEF BaseAt
  <2>3. MemBase(ts, c + 3) = ts[c + 4].val /\ MemDisp(ts, table, c + 3) = 0
    BY <1>1, <2>1, <2>2 DEF MemBase, MemDisp
  <2>5. Len(shape) = 5
    BY <1>11 DEF Store3
  <2>6. Sets(T, shape, {}, {5}, {2})
    BY <1>3, <1>11, <2>5, LongShapes DEF Sets, Store3
  <2>7. T[2] = ts[c + 1] /\ T[5] = ts[c + 4]
    BY <1>1, <1>3, <2>5
  <2>8. FirstReg(T) = T[2].val /\ BaseReg(T) = T[5].val /\ Values(T) = {}
    BY <2>6, FromSets
  <2>9. Values(T) = {}
    BY <2>8
  <2>10. RegA(ts, c) = ts[c + 1].val
    BY <1>7
  <2> QED
    BY <1>5, <1>6, <2>3, <2>7, <2>8, <2>9, <2>10 DEF Agree, T
<1>12. CASE shape = Store4
  <2>1. IsValue(ts, c + 3) /\ Is(ts, c + 4, "(")
    BY <1>2, <1>12, StoreShapes
  <2>2. BaseAt(ts, c + 3) = c + 4
    BY <1>1, <2>1 DEF BaseAt
  <2>3. MemBase(ts, c + 3) = ts[c + 5].val /\ MemDisp(ts, table, c + 3) = Value(table, ts[c + 3])
    BY <1>1, <2>1, <2>2 DEF MemBase, MemDisp
  <2>5. Len(shape) = 6
    BY <1>12 DEF Store4
  <2>6. Sets(T, shape, {4}, {6}, {2})
    BY <1>3, <1>12, <2>5, LongShapes DEF Sets, Store4
  <2>7. T[2] = ts[c + 1] /\ T[4] = ts[c + 3] /\ T[6] = ts[c + 5]
    BY <1>1, <1>3, <2>5
  <2>8. FirstReg(T) = T[2].val /\ BaseReg(T) = T[6].val /\ Values(T) = {4} /\ Min(Values(T)) = 4
    BY <2>6, FromSets
  <2>9. IsKnown(ts, table, c + 3)
    BY <1>8, <2>1
  <2>10. RegA(ts, c) = ts[c + 1].val
    BY <1>7
  <2> QED
    BY <1>5, <1>6, <2>3, <2>7, <2>8, <2>9, <2>10 DEF Agree, T
<1> QED
  BY <1>2, <1>9, <1>10, <1>11, <1>12, ShapesAre DEF Store1, Store2, Store3, Store4

\* mrmovq, with its memory reference.
LEMMA LoadAgree ==
  ASSUME NEW line \in SourceLine, NEW ts, ts = line.tokens, IsInstr(ts), NEW st, st = Statement(ts), NEW c, c = Start(ts),
         NEW name, name = NameOf(ts), name \in DOMAIN Opcode, NEW icode, icode = Hi4(Opcode[name]),
         NEW table, Accepts(ts, c, table), NEW shape \in Operands(st), name = "mrmovq"
  PROVE  Agree(Trimmed(st), icode, ts, c, table)
<1> DEFINE T == Trimmed(st)
<1>1. c \in {1, 3} /\ ts[c].val = name
  BY FirstToken
<1>2. shape \in Shapes(name) /\ Shaped(st, shape)
  BY OperandsAre
<1>3. Pure(T, shape) /\ \A i \in 1 .. (Len(shape) + 1) : T[i] = ts[c + i - 1]
  BY TrimmedIs
<1> HIDE DEF T
<1>4. icode = I_MRMOVQ
  BY Icodes
<1>5. RegisterA(icode, T) = FirstReg(T) /\ RegisterB(icode, T) = BaseReg(T)
  BY <1>4, IcodeOperands
<1>6. RegB(ts, c) = MemBase(ts, c + 1) /\ Val(ts, c, table) = MemDisp(ts, table, c + 1)
  BY <1>1, KindsApart DEF RegB, Val
<1>7. RegA(ts, c) = ts[MemoryEnd(ts, c + 1) + 1].val
  BY <1>1, KindsApart DEF RegA
<1>8. IsValue(ts, c + 1) => IsKnown(ts, table, c + 1)
  BY <1>1 DEF Accepts, MemoryOk, IsKnown
<1>9. CASE shape = Load1
  <2>1. ~IsValue(ts, c + 1) /\ ~Is(ts, c + 1, "(")
    BY <1>2, <1>9, LoadShapes
  <2>2. BaseAt(ts, c + 1) = c + 1
    BY <1>1, <2>1 DEF BaseAt
  <2>3. MemBase(ts, c + 1) = REG_NONE /\ MemDisp(ts, table, c + 1) = 0
    BY <1>1, <2>1, <2>2 DEF MemBase, MemDisp
  <2>4. MemoryEnd(ts, c + 1) = c + 1
    BY <1>1, <2>1, <2>2 DEF MemoryEnd
  <2>5. Len(shape) = 2
    BY <1>9 DEF Load1
  <2>6. Sets(T, shape, {}, {}, {3})
    BY <1>3, <1>9, <2>5, ShortShapes DEF Sets, Load1
  <2>7. T[3] = ts[c + 2]
    BY <1>1, <1>3, <2>5
  <2>8. FirstReg(T) = T[3].val /\ BaseReg(T) = REG_NONE /\ Values(T) = {}
    BY <2>6, FromSets
  <2>9. Values(T) = {}
    BY <2>8
  <2>10. RegA(ts, c) = ts[c + 2].val
    BY <1>1, <1>7, <2>4
  <2> QED
    BY <1>5, <1>6, <2>3, <2>7, <2>8, <2>9, <2>10 DEF Agree, T
<1>10. CASE shape = Load2
  <2>1. IsValue(ts, c + 1) /\ ~Is(ts, c + 2, "(")
    BY <1>2, <1>10, LoadShapes
  <2>2. BaseAt(ts, c + 1) = c + 2
    BY <1>1, <2>1 DEF BaseAt
  <2>3. MemBase(ts, c + 1) = REG_NONE /\ MemDisp(ts, table, c + 1) = Value(table, ts[c + 1])
    BY <1>1, <2>1, <2>2 DEF MemBase, MemDisp
  <2>4. MemoryEnd(ts, c + 1) = c + 2
    BY <1>1, <2>1, <2>2 DEF MemoryEnd
  <2>5. Len(shape) = 3
    BY <1>10 DEF Load2
  <2>6. Sets(T, shape, {2}, {}, {4})
    BY <1>3, <1>10, <2>5, MiddleShapes DEF Sets, Load2
  <2>7. T[4] = ts[c + 3] /\ T[2] = ts[c + 1]
    BY <1>1, <1>3, <2>5
  <2>8. FirstReg(T) = T[4].val /\ BaseReg(T) = REG_NONE /\ Values(T) = {2} /\ Min(Values(T)) = 2
    BY <2>6, FromSets
  <2>9. IsKnown(ts, table, c + 1)
    BY <1>8, <2>1
  <2>10. RegA(ts, c) = ts[c + 3].val
    BY <1>1, <1>7, <2>4
  <2> QED
    BY <1>5, <1>6, <2>3, <2>7, <2>8, <2>9, <2>10 DEF Agree, T
<1>11. CASE shape = Load3
  <2>1. ~IsValue(ts, c + 1) /\ Is(ts, c + 1, "(")
    BY <1>2, <1>11, LoadShapes
  <2>2. BaseAt(ts, c + 1) = c + 1
    BY <1>1, <2>1 DEF BaseAt
  <2>3. MemBase(ts, c + 1) = ts[c + 2].val /\ MemDisp(ts, table, c + 1) = 0
    BY <1>1, <2>1, <2>2 DEF MemBase, MemDisp
  <2>4. MemoryEnd(ts, c + 1) = c + 4
    BY <1>1, <2>1, <2>2 DEF MemoryEnd
  <2>5. Len(shape) = 5
    BY <1>11 DEF Load3
  <2>6. Sets(T, shape, {}, {3}, {6})
    BY <1>3, <1>11, <2>5, LongShapes DEF Sets, Load3
  <2>7. T[6] = ts[c + 5] /\ T[3] = ts[c + 2]
    BY <1>1, <1>3, <2>5
  <2>8. FirstReg(T) = T[6].val /\ BaseReg(T) = T[3].val /\ Values(T) = {}
    BY <2>6, FromSets
  <2>9. Values(T) = {}
    BY <2>8
  <2>10. RegA(ts, c) = ts[c + 5].val
    BY <1>1, <1>7, <2>4
  <2> QED
    BY <1>5, <1>6, <2>3, <2>7, <2>8, <2>9, <2>10 DEF Agree, T
<1>12. CASE shape = Load4
  <2>1. IsValue(ts, c + 1) /\ Is(ts, c + 2, "(")
    BY <1>2, <1>12, LoadShapes
  <2>2. BaseAt(ts, c + 1) = c + 2
    BY <1>1, <2>1 DEF BaseAt
  <2>3. MemBase(ts, c + 1) = ts[c + 3].val /\ MemDisp(ts, table, c + 1) = Value(table, ts[c + 1])
    BY <1>1, <2>1, <2>2 DEF MemBase, MemDisp
  <2>4. MemoryEnd(ts, c + 1) = c + 5
    BY <1>1, <2>1, <2>2 DEF MemoryEnd
  <2>5. Len(shape) = 6
    BY <1>12 DEF Load4
  <2>6. Sets(T, shape, {2}, {4}, {7})
    BY <1>3, <1>12, <2>5, LongShapes DEF Sets, Load4
  <2>7. T[7] = ts[c + 6] /\ T[2] = ts[c + 1] /\ T[4] = ts[c + 3]
    BY <1>1, <1>3, <2>5
  <2>8. FirstReg(T) = T[7].val /\ BaseReg(T) = T[4].val /\ Values(T) = {2} /\ Min(Values(T)) = 2
    BY <2>6, FromSets
  <2>9. IsKnown(ts, table, c + 1)
    BY <1>8, <2>1
  <2>10. RegA(ts, c) = ts[c + 6].val
    BY <1>1, <1>7, <2>4
  <2> QED
    BY <1>5, <1>6, <2>3, <2>7, <2>8, <2>9, <2>10 DEF Agree, T
<1> QED
  BY <1>2, <1>9, <1>10, <1>11, <1>12, ShapesAre DEF Load1, Load2, Load3, Load4

--------------------------------------------------------------------------
\* What the simulators fetch where the code of an instruction is.

\* The array of the code keeps its length.
LEMMA AssembledSpan ==
  ASSUME NEW ts, NEW i \in Nat \ {0}, NEW name, name = ts[i].val, name \in Instrs \ {".pos", ".align"},
         NEW table, NEW old, NEW p, p = Assembled(ts, i, table, old)
  PROVE  DOMAIN p.code = DOMAIN old
<1> DEFINE begun == Begun(find_instr(name), i, old)
<1>1. Parsing(begun) /\ DOMAIN begun.code = DOMAIN old
  <2>1. Parsing(begun)
    BY Commas
  <2>2. DOMAIN begun.code = DOMAIN old
    BY DEF Begun
  <2> QED
    BY <2>1, <2>2
<1> HIDE DEF begun
<1>2. ASSUME NEW q, Parsing(q)
      PROVE  Parsing(PastComma(q)) /\ PastComma(q).code = q.code /\ NoComma(q).code = q.code
  <2>1. Parsing(PastComma(q))
    BY <1>2, Commas
  <2>2. PastComma(q).code = q.code /\ NoComma(q).code = q.code
    BY <1>2 DEF PastComma, NoComma, Parsing
  <2> QED
    BY <2>1, <2>2
<1>3. CASE find_instr(name).args = <<>>
  BY <1>1, <1>3, NoArgument DEF begun
<1>4. ASSUME NEW a, find_instr(name).args = <<a>>, a.kind \in {"R", "M", "I"}
      PROVE  DOMAIN p.code = DOMAIN old
  <2>1. p = Argument(begun, ts, table, a)
    BY <1>4, OneArgument DEF begun
  <2> QED
    BY <1>1, <1>4, <2>1, ArgumentSpan
<1>5. ASSUME NEW a, NEW b, find_instr(name).args = <<a, b>>, a.kind \in {"R", "M", "I"}, b.kind \in {"R", "M", "I"}
      PROVE  DOMAIN p.code = DOMAIN old
  <2> DEFINE p1 == Argument(begun, ts, table, a)
  <2>1. (p = Argument(PastComma(p1), ts, table, b)) \/ p = NoComma(p1)
    BY <1>5, TwoArguments DEF begun
  <2>2. DOMAIN p1.code = DOMAIN old
    BY <1>1, <1>5, ArgumentSpan
  <2>3. Parsing(p1)
    BY <1>1, <1>5, RegArgument, NumArgument, MemArgument
  <2> HIDE DEF p1
  <2>4. CASE p = NoComma(p1)
    BY <1>2, <2>2, <2>3, <2>4
  <2>5. CASE p = Argument(PastComma(p1), ts, table, b)
    <3>1. Parsing(PastComma(p1)) /\ DOMAIN PastComma(p1).code = DOMAIN old
      BY <1>2, <2>2, <2>3
    <3> QED
      BY <1>5, <2>5, <3>1, ArgumentSpan
  <2> QED
    BY <2>1, <2>4, <2>5
<1>6. name \in Nullary \cup OneReg \cup TwoRegs \cup OneValue \cup ValueReg \cup {"rmmovq", "mrmovq"}
  BY Operations
<1>7. CASE name \in Nullary
  BY <1>3, <1>7, TableSays
<1>8. CASE name \in OneReg
  <2>1. PICK a : find_instr(name).args = <<a>> /\ a.kind = "R"
    BY <1>8, TableSays
  <2> QED
    BY <1>4, <2>1
<1>9. CASE name \in TwoRegs
  <2>1. PICK a, b : find_instr(name).args = <<a, b>> /\ a.kind = "R" /\ b.kind = "R"
    BY <1>9, TableArguments
  <2> QED
    BY <1>5, <2>1
<1>10. CASE name \in OneValue
  <2>1. PICK a : find_instr(name).args = <<a>> /\ a.kind = "I"
    BY <1>10, TableSays
  <2> QED
    BY <1>4, <2>1
<1>11. CASE name \in ValueReg
  <2>1. PICK a, b : find_instr(name).args = <<a, b>> /\ a.kind = "I" /\ b.kind = "R"
    BY <1>11, TableArguments
  <2> QED
    BY <1>5, <2>1
<1>12. CASE name = "rmmovq"
  <2>1. PICK a, b : find_instr(name).args = <<a, b>> /\ a.kind = "R" /\ b.kind = "M"
    BY <1>12, TableArguments
  <2> QED
    BY <1>5, <2>1
<1>13. CASE name = "mrmovq"
  <2>1. PICK a, b : find_instr(name).args = <<a, b>> /\ a.kind = "M" /\ b.kind = "R"
    BY <1>13, TableArguments
  <2> QED
    BY <1>5, <2>1
<1> QED
  BY <1>6, <1>7, <1>8, <1>9, <1>10, <1>11, <1>12, <1>13

\* A label is at the place of its first definition, and this is its value.
LEMMA MeantIs ==
  ASSUME Types, Seen(Len(source.lines)), NEW t, t.type = "NUM" => t.val \in Int, t.type \in {"NUM", "IDENT"},
         ~Missing(symbol_table, t)
  PROVE  /\ Meant(source, places, t) = Value(symbol_table, t)
         /\ Value(symbol_table, t) \in Int
<1>1. CASE t.type = "NUM"
  BY <1>1 DEF Meant, Value
<1>2. CASE t.type = "IDENT"
  <2> DEFINE name == t.val
             S == {k \in DOMAIN source.lines : Labelled(source.lines[k].tokens) /\ source.lines[k].tokens[1].val = name}
  <2>1. name \in Labels(source)
    BY <1>2, LabelsAre DEF Missing
  <2>2. PICK k \in 1 .. Len(source.lines) : Labelled(TokensAt(k)) /\ TokensAt(k)[1].val = name
    BY <2>1, SourceParts DEF Labels, TokensAt
  <2>3. PICK j \in 1 .. Len(source.lines) : FirstDefinition(j) /\ TokensAt(j)[1].val = name
    BY <2>2, FirstExists
  <2>4. j \in S
    BY <2>3, SourceParts DEF FirstDefinition, TokensAt
  <2>5. \A i \in S : j <= i
    BY <2>3, SourceParts DEF FirstDefinition, TokensAt
  <2>6. S \subseteq Int
    BY SourceParts
  <2> HIDE DEF S
  <2>7. \A i \in S : (\A l \in S : i <= l) => i = j
    BY <2>4, <2>5, <2>6
  <2>8. Min(S) = j
    BY <2>4, <2>5, <2>7 DEF Min
  <2>9. Meant(source, places, t) = places[j]
    BY <1>2, <2>8 DEF Meant, Position, S
  <2>10. FoundAt(j)
    BY <2>3 DEF Seen
  <2>11. PICK i \in DOMAIN symbol_table : Named(symbol_table, name, i) /\ symbol_table[i].pos = places[j]
    BY <2>3, <2>10 DEF FoundAt
  <2>12. DOMAIN symbol_table \subseteq Nat \ {0} /\ symbol_table[i] \in [name : STRING, pos : Int]
    <3> DEFINE E == [name : STRING, pos : Int]
    <3>1. symbol_table \in Seq(E)
      BY DEF Types
    <3> HIDE DEF E
    <3>2. DOMAIN symbol_table = 1 .. Len(symbol_table) /\ Len(symbol_table) \in Nat
      BY <3>1
    <3>3. symbol_table[i] \in E
      BY <3>1, <2>11, <3>2
    <3> QED
      BY <3>2, <3>3 DEF E
  <2>13. find_symbol(symbol_table, name) = places[j] /\ places[j] \in Int
    BY <2>11, <2>12, FoundIs
  <2> QED
    BY <1>2, <2>9, <2>13 DEF Value
<1> QED
  BY <1>1, <1>2

\* The registers of an accepted instruction.
LEMMA RegistersAre ==
  ASSUME NEW line \in SourceLine, NEW ts, ts = line.tokens, NEW i \in Nat \ {0}, NEW name, name = ts[i].val,
         name \in DOMAIN Opcode, NEW table, Accepts(ts, i, table)
  PROVE  /\ RegA(ts, i) \in 0 .. 15 /\ RegB(ts, i) \in 0 .. 15
         /\ name \in OneReg \cup TwoRegs \cup {"rmmovq", "mrmovq"} => RegA(ts, i) \in 0 .. 14
         /\ name \in TwoRegs \cup ValueReg => RegB(ts, i) \in 0 .. 14
         /\ name \in Nullary \cup OneValue => RegA(ts, i) = REG_NONE /\ RegB(ts, i) = REG_NONE
<1>0. REG_NONE = 15
  BY DEF REG_NONE
<1>1. CASE name \in Nullary \cup OneValue
  <2>1. RegA(ts, i) = REG_NONE /\ RegB(ts, i) = REG_NONE
    BY <1>1, KindsApart DEF RegA, RegB
  <2> QED
    BY <1>0, <1>1, <2>1, KindsApart
<1>2. CASE name \in OneReg
  <2>1. RegA(ts, i) = ts[i + 1].val /\ RegB(ts, i) = REG_NONE
    BY <1>2, KindsApart DEF RegA, RegB
  <2>2. IsReg(ts, i + 1)
    BY <1>2 DEF Accepts
  <2>3. ts[i + 1].val \in 0 .. 14
    BY <2>2, RegToken
  <2> QED
    BY <1>0, <1>2, <2>1, <2>3, KindsApart
<1>3. CASE name \in TwoRegs
  <2>1. RegA(ts, i) = ts[i + 1].val /\ RegB(ts, i) = ts[i + 3].val
    BY <1>3, KindsApart DEF RegA, RegB
  <2>2. IsReg(ts, i + 1) /\ IsReg(ts, i + 3)
    BY <1>3 DEF Accepts
  <2>3. ts[i + 1].val \in 0 .. 14 /\ ts[i + 3].val \in 0 .. 14
    BY <2>2, RegToken
  <2> QED
    BY <1>0, <1>3, <2>1, <2>3, KindsApart
<1>4. CASE name \in ValueReg
  <2>1. RegA(ts, i) = REG_NONE /\ RegB(ts, i) = ts[i + 3].val
    BY <1>4, KindsApart DEF RegA, RegB
  <2>2. IsReg(ts, i + 3)
    BY <1>4 DEF Accepts
  <2>3. ts[i + 3].val \in 0 .. 14
    BY <2>2, RegToken
  <2> QED
    BY <1>0, <1>4, <2>1, <2>3, KindsApart
<1>5. CASE name = "rmmovq"
  <2>1. RegA(ts, i) = ts[i + 1].val /\ RegB(ts, i) = MemBase(ts, i + 3)
    BY <1>5, KindsApart DEF RegA, RegB
  <2>2. IsReg(ts, i + 1) /\ MemoryOk(ts, table, i + 3)
    BY <1>5 DEF Accepts
  <2>3. ts[i + 1].val \in 0 .. 14
    BY <2>2, RegToken
  <2>4. MemBase(ts, i + 3) \in 0 .. 15
    BY <2>2, BaseToken
  <2> QED
    BY <1>0, <1>5, <2>1, <2>3, <2>4, KindsApart
<1>6. CASE name = "mrmovq"
  <2>1. RegA(ts, i) = ts[MemoryEnd(ts, i + 1) + 1].val /\ RegB(ts, i) = MemBase(ts, i + 1)
    BY <1>6, KindsApart DEF RegA, RegB
  <2>2. IsReg(ts, MemoryEnd(ts, i + 1) + 1) /\ MemoryOk(ts, table, i + 1)
    BY <1>6 DEF Accepts
  <2>3. ts[MemoryEnd(ts, i + 1) + 1].val \in 0 .. 14
    BY <2>2, RegToken
  <2>4. MemBase(ts, i + 1) \in 0 .. 15
    BY <2>2, BaseToken
  <2> QED
    BY <1>0, <1>6, <2>1, <2>3, <2>4, KindsApart
<1> QED
  BY <1>1, <1>2, <1>3, <1>4, <1>5, <1>6, KindsApart

--------------------------------------------------------------------------
\* An instruction within memory is fetched without an address error.
LEMMA FetchParts ==
  ASSUME NEW m, NEW pos \in Nat, NEW icode \in Nat, pos + Length(icode) <= MemLen,
         NEW b0, Hi4(b0) = icode, NEW f, f = Fetched(m, pos, b0)
  PROVE  /\ f.icode = icode /\ f.ifun = Lo4(b0)
         /\ NeedRegids(icode) => f.ok1 /\ f.rA = Hi4(m[pos + 1]) /\ f.rB = Lo4(m[pos + 1])
         /\ ~NeedRegids(icode) => f.ok1 /\ f.rA = REG_NONE /\ f.rB = REG_NONE
         /\ NeedImm(icode) => /\ f.okc
                              /\ f.valC = Bytes(m, pos + (IF NeedRegids(icode) THEN 2 ELSE 1), WordBytes)
         /\ ~NeedImm(icode) => f.okc
<1> DEFINE off == IF NeedRegids(icode) THEN 2 ELSE 1
           valAt == Wrap(pos + Length(icode) - WordBytes)
<1>1. WordBytes \in Nat \ {0} /\ MemLen \in Nat /\ Modulus \in Nat \ {0} /\ 2 * MemLen <= Modulus
  <2>1. Modulus \in Nat \ {0}
    BY Powers, SizesAssumption DEF Modulus
  <2> QED
    BY <2>1, SizesAssumption
<1>2. ASSUME NEW a \in Nat, NEW n \in Nat \ {0}, a + n <= MemLen
      PROVE  Wrap(a) = a /\ InMem(a, n)
  <2>1. Wrap(a) = a
    BY <1>1, <1>2 DEF Wrap
  <2>2. ~Negative(a)
    BY <1>1, <1>2 DEF Negative
  <2> QED
    BY <2>1, <2>2, <1>2 DEF InMem
<1>3. NeedRegids(icode) => Wrap(pos + 1) = pos + 1 /\ InMem(pos + 1, 1)
  <2>1. NeedRegids(icode) => pos + 2 <= MemLen
    BY <1>1 DEF Length
  <2> QED
    BY <2>1, <1>2
<1>4. NeedImm(icode) => valAt = pos + off /\ InMem(pos + off, WordBytes)
  <2>1. NeedImm(icode) => pos + Length(icode) - WordBytes = pos + off /\ pos + off + WordBytes <= MemLen
    BY <1>1 DEF Length
  <2>2. pos + off \in Nat
    OBVIOUS
  <2>3. NeedImm(icode) => Wrap(pos + off) = pos + off /\ InMem(pos + off, WordBytes)
    BY <1>1, <1>2, <2>1, <2>2
  <2> QED
    BY <2>1, <2>3
<1> HIDE DEF off
<1>5. f.icode = icode /\ f.ifun = Lo4(b0)
  BY DEF Fetched
<1>6. NeedRegids(icode) => f.ok1 /\ f.rA = Hi4(m[pos + 1]) /\ f.rB = Lo4(m[pos + 1])
  BY <1>3 DEF Fetched, GetByte
<1>7. ~NeedRegids(icode) => f.ok1 /\ f.rA = REG_NONE /\ f.rB = REG_NONE
  BY DEF Fetched
<1>8. NeedImm(icode) => f.okc /\ f.valC = Bytes(m, pos + off, WordBytes)
  BY <1>4 DEF Fetched, GetWord
<1>9. ~NeedImm(icode) => f.okc
  BY DEF Fetched
<1> QED
  BY <1>5, <1>6, <1>7, <1>8, <1>9 DEF off

\* A first byte is a byte.
LEMMA OpcodeByte ==
  ASSUME NEW name \in DOMAIN Opcode
  PROVE  Opcode[name] \in 0 .. 255
BY DEF Opcode

\* Every operation has a code that the simulators execute.
LEMMA Executable ==
  ASSUME NEW name \in DOMAIN Opcode
  PROVE  Hi4(Opcode[name]) \notin {I_POP2, 15}
BY DEF Opcode, Hi4, I_POP2

\* The first n bytes of c are in memory at pos.
Lies(m, pos, c, n) == \A j \in 0 .. (n - 1) : m[pos + j] = c[j]

\* f is the instruction at i of a line.
Decoded(f, ts, i, table) ==
  /\ f.icode = Hi4(Opcode[ts[i].val]) /\ f.ifun = Lo4(Opcode[ts[i].val])
  /\ f.rA = RegA(ts, i) /\ f.rB = RegB(ts, i)
  /\ NeedImm(f.icode) => f.valC = Wrap(Val(ts, i, table))
  /\ FetchStatus(f) = "AOK"

\* The code of an accepted instruction, where it is fetched, is this instruction.
LEMMA FetchIs ==
  ASSUME NEW line \in SourceLine, NEW ts, ts = line.tokens, NEW i \in Nat \ {0}, NEW name, name = ts[i].val,
         name \in DOMAIN Opcode, NEW table, Accepts(ts, i, table), NEW icode, icode = Hi4(Opcode[name]),
         NeedImm(icode) => Val(ts, i, table) \in Int,
         NEW c, CodeOf(ts, i, table, c),
         NEW m, NEW pos \in Nat, pos + Length(icode) <= MemLen,
         Lies(m, pos, c, Length(icode))
  PROVE  Decoded(Fetched(m, pos, m[pos]), ts, i, table)
<1> SUFFICES ASSUME NEW f, f = Fetched(m, pos, m[pos])
             PROVE  /\ f.icode = icode /\ f.ifun = Lo4(Opcode[name])
                    /\ f.rA = RegA(ts, i) /\ f.rB = RegB(ts, i)
                    /\ NeedImm(icode) => f.valC = Wrap(Val(ts, i, table))
                    /\ FetchStatus(f) = "AOK"
  BY DEF Decoded
<1>a. \A j \in 0 .. (Length(icode) - 1) : m[pos + j] = c[j]
  BY DEF Lies
<1>0. WordBytes \in Nat \ {0} /\ Length(icode) \in Nat \ {0}
  BY SizesAssumption DEF Length
<1>1. Opcode[name] \in 0 .. 255 /\ icode \in 0 .. 15
  <2>1. Opcode[name] \in 0 .. 255
    BY OpcodeByte
  <2> QED
    BY <2>1 DEF Hi4
<1>2. m[pos] = Opcode[name]
  <2>1. 0 \in 0 .. (Length(icode) - 1) /\ pos + 0 = pos
    BY <1>0
  <2>2. m[pos + 0] = c[0]
    BY <1>a, <2>1
  <2> QED
    BY <2>1, <2>2 DEF CodeOf
<1>3. Hi4(m[pos]) = icode /\ icode \in Nat
  BY <1>1, <1>2
<1>4. f.icode = icode /\ f.ifun = Lo4(Opcode[name])
  BY <1>2, <1>3, FetchParts
<1>5. NeedRegids(icode) <=> name \notin Nullary \cup OneValue
  <2>1. name \in Nullary \cup OneReg \cup TwoRegs \cup OneValue \cup ValueReg \cup {"rmmovq", "mrmovq"}
    BY KindsApart
  <2>2. name \in Nullary \cup OneValue => ~NeedRegids(icode)
    BY Icodes, IcodeOperands
  <2>3. name \in OneReg \cup TwoRegs \cup ValueReg \cup {"rmmovq", "mrmovq"} => NeedRegids(icode)
    BY Icodes, IcodeOperands
  <2> QED
    BY <2>1, <2>2, <2>3
<1>6. NeedImm(icode) <=> name \in OneValue \cup ValueReg \cup {"rmmovq", "mrmovq"}
  <2>1. name \in Nullary \cup OneReg \cup TwoRegs \cup OneValue \cup ValueReg \cup {"rmmovq", "mrmovq"}
    BY KindsApart
  <2>2. name \in Nullary \cup OneReg \cup TwoRegs => ~NeedImm(icode)
    BY Icodes, IcodeOperands
  <2>3. name \in OneValue \cup ValueReg \cup {"rmmovq", "mrmovq"} => NeedImm(icode)
    BY Icodes, IcodeOperands
  <2> QED
    BY <2>1, <2>2, <2>3
<1>7. RegA(ts, i) \in 0 .. 15 /\ RegB(ts, i) \in 0 .. 15
  BY RegistersAre
<1>8. f.ok1 /\ f.rA = RegA(ts, i) /\ f.rB = RegB(ts, i)
  <2>1. CASE NeedRegids(icode)
    <3>1. 1 \in 0 .. (Length(icode) - 1)
      BY <1>0, <2>1 DEF Length
    <3>2. m[pos + 1] = Hpack(RegA(ts, i), RegB(ts, i))
      BY <1>a, <1>5, <2>1, <3>1 DEF CodeOf
    <3>3. f.ok1 /\ f.rA = Hi4(m[pos + 1]) /\ f.rB = Lo4(m[pos + 1])
      BY <1>3, <2>1, FetchParts
    <3> QED
      BY <1>7, <3>2, <3>3, Halves
  <2>2. CASE ~NeedRegids(icode)
    <3>1. f.ok1 /\ f.rA = REG_NONE /\ f.rB = REG_NONE
      BY <1>3, <2>2, FetchParts
    <3>2. RegA(ts, i) = REG_NONE /\ RegB(ts, i) = REG_NONE
      BY <1>5, <2>2, RegistersAre
    <3> QED
      BY <3>1, <3>2
  <2> QED
    BY <2>1, <2>2
<1>9. f.okc /\ (NeedImm(icode) => f.valC = Wrap(Val(ts, i, table)))
  <2>1. CASE ~NeedImm(icode)
    BY <1>3, <2>1, FetchParts
  <2>2. CASE NeedImm(icode)
    <3> DEFINE off == IF NeedRegids(icode) THEN 2 ELSE 1
               v == Val(ts, i, table)
    <3>1. Carries(c, off, WordBytes, v)
      <4>1. CASE NeedRegids(icode)
        <5>1. name \in ValueReg \cup {"rmmovq", "mrmovq"}
          BY <1>5, <1>6, <2>2, <4>1
        <5> QED
          BY <4>1, <5>1 DEF CodeOf
      <4>2. CASE ~NeedRegids(icode)
        <5>1. name \in OneValue
          BY <1>5, <1>6, <2>2, <4>2, KindsApart
        <5> QED
          BY <4>2, <5>1 DEF CodeOf
      <4> QED
        BY <4>1, <4>2
    <3>2. Length(icode) = off + WordBytes /\ off \in {1, 2}
      BY <1>0, <2>2 DEF Length
    <3>3. f.okc /\ f.valC = Bytes(m, pos + off, WordBytes)
      BY <1>3, <2>2, FetchParts
    <3> HIDE DEF off
    <3>4. ASSUME NEW k \in 0 .. (WordBytes - 1)
          PROVE  m[(pos + off) + (k + 1) - 1] = ByteAt(v, k)
      <4>1. off + k \in 0 .. (Length(icode) - 1) /\ (pos + off) + (k + 1) - 1 = pos + (off + k)
        BY <1>0, <3>2
      <4>2. m[pos + (off + k)] = c[off + k]
        BY <1>a, <4>1
      <4>3. c[off + k] = ByteAt(v, k)
        BY <3>1 DEF Carries
      <4> QED
        BY <4>1, <4>2, <4>3
    <3>5. v \in Int
      BY <2>2
    <3> HIDE DEF v
    <3>6. Bytes(m, pos + off, WordBytes) = Wrap(v)
      BY <3>4, <3>5, WordRead
    <3> QED
      BY <3>3, <3>6 DEF v
  <2> QED
    BY <2>1, <2>2
<1>10. FetchStatus(f) = "AOK"
  <2>1. icode \notin {I_POP2, 15}
    BY Executable
  <2>2. \A id \in MustBeValid(f) : RegValid(id)
    <3> USE DEF I_HALT, I_NOP, I_RET, I_PUSHQ, I_POPQ, I_RRMOVQ, I_ALU, I_JMP, I_CALL, I_IRMOVQ, I_IADDQ, I_JM, I_RMMOVQ, I_MRMOVQ
    <3>1. name \in Nullary \cup OneReg \cup TwoRegs \cup OneValue \cup ValueReg \cup {"rmmovq", "mrmovq"}
      BY KindsApart
    <3>2. CASE name \in Nullary \cup OneValue
      <4>1. icode \in {I_HALT, I_NOP, I_RET, I_JMP, I_CALL}
        BY <3>2, Icodes
      <4> QED
        BY <1>4, <4>1 DEF MustBeValid
    <3>3. CASE name \in OneReg \cup {"rmmovq", "mrmovq"}
      <4>1. icode \in {I_RMMOVQ, I_MRMOVQ, I_PUSHQ, I_POPQ}
        BY <3>3, Icodes
      <4>2. MustBeValid(f) = {f.rA}
        BY <1>4, <4>1 DEF MustBeValid
      <4>3. RegA(ts, i) \in 0 .. 14
        BY <3>3, RegistersAre
      <4> QED
        BY <1>8, <4>2, <4>3 DEF RegValid, RegId
    <3>4. CASE name \in TwoRegs
      <4>1. icode \in {I_RRMOVQ, I_ALU}
        BY <3>4, Icodes
      <4>2. MustBeValid(f) \subseteq {f.rA, f.rB}
        BY <1>4, <4>1 DEF MustBeValid
      <4>3. RegA(ts, i) \in 0 .. 14 /\ RegB(ts, i) \in 0 .. 14
        BY <3>4, RegistersAre
      <4> QED
        BY <1>8, <4>2, <4>3 DEF RegValid, RegId
    <3>5. CASE name \in ValueReg
      <4>1. icode \in {I_IRMOVQ, I_IADDQ, I_JM}
        BY <3>5, Icodes
      <4>2. MustBeValid(f) = {f.rB}
        BY <1>4, <4>1 DEF MustBeValid
      <4>3. RegB(ts, i) \in 0 .. 14
        BY <3>5, RegistersAre
      <4> QED
        BY <1>8, <4>2, <4>3 DEF RegValid, RegId
    <3> QED
      BY <3>1, <3>2, <3>3, <3>4, <3>5
  <2> QED
    BY <1>4, <1>8, <1>9, <2>1, <2>2 DEF FetchStatus
<1> QED
  BY <1>4, <1>8, <1>9, <1>10

--------------------------------------------------------------------------
\* The file and its image.

\* Some number of a set is the greatest.
LEMMA GreatestExists ==
  ASSUME NEW n \in Nat, NEW S, S \subseteq 1 .. n, S # {}
  PROVE  \E k \in S : \A j \in S : j <= k
<1> SUFFICES ASSUME \A k \in S : \E j \in S : ~(j <= k) PROVE FALSE
  OBVIOUS
<1>0. PICK l \in S : l \in 1 .. n
  OBVIOUS
<1>1. n \in Nat \ {0} /\ 1 \in 1 .. n /\ 1 <= l
  BY <1>0
<1> DEFINE G == {i \in 1 .. n : \E k \in S : i <= k}
<1>2. 1 \in G
  BY <1>0, <1>1
<1>3. \A i \in 1 .. (n - 1) : i \in G => i + 1 \in G
  <2> TAKE i \in 1 .. (n - 1)
  <2> HAVE i \in G
  <2>1. PICK k \in S : i <= k
    OBVIOUS
  <2>2. PICK j \in S : ~(j <= k)
    OBVIOUS
  <2> QED
    BY <2>1, <2>2
<1> HIDE DEF G
<1>4. n \in G
  <2>1. 1 .. n \subseteq G
    BY <1>1, <1>2, <1>3, UpTo
  <2> QED
    BY <1>1, <2>1
<1>5. PICK k \in S : n <= k
  BY <1>4 DEF G
<1> QED
  BY <1>5

\* What a file has: addresses, and bytes after them.
Records(file) ==
  /\ \E S : file \in Seq(S)
  /\ \A e \in DOMAIN file : /\ file[e].pos \in Nat /\ Len(file[e].bytes) \in Nat
                            /\ DOMAIN file[e].bytes = 1 .. Len(file[e].bytes)

\* One entry more.
LEMMA OneMore ==
  ASSUME NEW file, Records(file), NEW e, NEW more, more = Append(file, e)
  PROVE  /\ Len(file) \in Nat /\ DOMAIN file = 1 .. Len(file) /\ DOMAIN more = 1 .. (Len(file) + 1)
         /\ \A k \in 1 .. Len(file) : more[k] = file[k]
         /\ more[Len(file) + 1] = e
<1>1. PICK S : file \in Seq(S)
  BY DEF Records
<1>2. file \in Seq(S \cup {e}) /\ e \in S \cup {e}
  BY <1>1
<1> QED
  BY <1>2

\* A file stays one when an entry is appended.
LEMMA RecordsGrow ==
  ASSUME NEW file, Records(file), NEW e, e.pos \in Nat, Len(e.bytes) \in Nat, DOMAIN e.bytes = 1 .. Len(e.bytes),
         NEW more, more = Append(file, e)
  PROVE  Records(more)
<1>1. PICK S : file \in Seq(S)
  BY DEF Records
<1>2. more \in Seq(S \cup {e})
  <2>1. file \in Seq(S \cup {e}) /\ e \in S \cup {e}
    BY <1>1
  <2> QED
    BY <2>1
<1>3. ASSUME NEW k \in DOMAIN more
      PROVE  more[k].pos \in Nat /\ Len(more[k].bytes) \in Nat /\ DOMAIN more[k].bytes = 1 .. Len(more[k].bytes)
  <2>1. k \in 1 .. Len(file) \/ k = Len(file) + 1
    BY OneMore
  <2>2. CASE k \in 1 .. Len(file)
    BY <2>2, OneMore DEF Records
  <2>3. CASE k = Len(file) + 1
    BY <2>3, OneMore
  <2> QED
    BY <2>1, <2>2, <2>3
<1> QED
  BY <1>2, <1>3 DEF Records

\* The last entry is what the loader leaves in memory, and the rest is as before.
LEMMA LoadMore ==
  ASSUME NEW file, Records(file), NEW e, NEW more, more = Append(file, e)
  PROVE  \A a \in 0 .. (MemLen - 1) :
           load_mem(more)[a] = IF Covers(e, a) THEN e.bytes[a - e.pos + 1] ELSE load_mem(file)[a]
<1> TAKE a \in 0 .. (MemLen - 1)
<1> DEFINE n == Len(file)
<1>1. /\ n \in Nat /\ DOMAIN file = 1 .. n /\ DOMAIN more = 1 .. (n + 1)
      /\ \A k \in 1 .. n : more[k] = file[k]
      /\ more[n + 1] = e
  BY OneMore
<1> HIDE DEF n
<1>a. ASSUME NEW x
      PROVE  load_mem(x)[a] = IF Writers(x, a) = {} THEN 0
                              ELSE x[LastWriter(x, a)].bytes[a - x[LastWriter(x, a)].pos + 1]
  BY DEF load_mem
<1>2. CASE Covers(e, a)
  <2>1. n + 1 \in Writers(more, a)
    BY <1>1, <1>2 DEF Writers
  <2>2. \A j \in Writers(more, a) : j <= n + 1 /\ j \in Nat
    BY <1>1 DEF Writers
  <2> DEFINE W == Writers(more, a)
             w == CHOOSE k \in W : \A j \in W : j <= k
  <2> HIDE DEF W
  <2>3. w \in W /\ \A j \in W : j <= w
    BY <2>1, <2>2 DEF W
  <2>4. w = n + 1
    BY <1>1, <2>1, <2>2, <2>3 DEF W
  <2>5. LastWriter(more, a) = n + 1
    BY <2>4 DEF LastWriter, W
  <2> QED
    BY <1>1, <1>2, <2>1, <2>5 DEF load_mem
<1>3. CASE ~Covers(e, a)
  <2>1. Writers(more, a) = Writers(file, a)
    BY <1>1, <1>3 DEF Writers
  <2>2. LastWriter(more, a) = LastWriter(file, a)
    BY <2>1 DEF LastWriter
  <2>3. CASE Writers(file, a) = {}
    <3>1. load_mem(file)[a] = 0
      BY <1>a, <2>3
    <3>2. load_mem(more)[a] = 0
      BY <1>a, <2>1, <2>3
    <3> QED
      BY <1>3, <3>1, <3>2
  <2>4. CASE Writers(file, a) # {}
    <3>1. Writers(file, a) \subseteq 1 .. n
      BY <1>1 DEF Writers
    <3>2. \E k \in Writers(file, a) : \A j \in Writers(file, a) : j <= k
      BY <1>1, <2>4, <3>1, GreatestExists
    <3>3. LastWriter(file, a) \in 1 .. n
      BY <3>1, <3>2 DEF LastWriter
    <3>4. more[LastWriter(file, a)] = file[LastWriter(file, a)]
      BY <1>1, <3>3
    <3> DEFINE w == LastWriter(file, a)
    <3>5. load_mem(file)[a] = file[w].bytes[a - file[w].pos + 1]
      BY <1>a, <2>4
    <3>6. load_mem(more)[a] = more[w].bytes[a - more[w].pos + 1]
      BY <1>a, <2>1, <2>2, <2>4
    <3> QED
      BY <1>3, <3>4, <3>5, <3>6
  <2> QED
    BY <2>3, <2>4
<1> QED
  BY <1>2, <1>3

\* Whether a file with one entry more fits into memory, and whether it has code.
LEMMA FitsMore ==
  ASSUME NEW file, Records(file), NEW e, e.pos \in Nat, Len(e.bytes) \in Nat, DOMAIN e.bytes = 1 .. Len(e.bytes),
         NEW more, more = Append(file, e)
  PROVE  /\ Fits(more) <=> Fits(file) /\ (Len(e.bytes) > 0 => e.pos + Len(e.bytes) <= MemLen)
         /\ (\E k \in DOMAIN more : more[k].bytes # <<>>) <=> (\E k \in DOMAIN file : file[k].bytes # <<>>) \/ e.bytes # <<>>
<1> DEFINE n == Len(file)
           Within(x) == \A i \in DOMAIN x.bytes : x.pos + i - 1 < MemLen
<1>1. /\ n \in Nat /\ DOMAIN file = 1 .. n /\ DOMAIN more = 1 .. (n + 1)
      /\ \A k \in 1 .. n : more[k] = file[k]
      /\ more[n + 1] = e
  BY OneMore
<1> HIDE DEF n
<1>2. 1 .. (n + 1) = (1 .. n) \cup {n + 1}
  BY <1>1
<1>3. Within(e) <=> (Len(e.bytes) > 0 => e.pos + Len(e.bytes) <= MemLen)
  <2>1. MemLen \in Nat
    BY SizesAssumption
  <2> DEFINE len == Len(e.bytes)
             pos == e.pos
  <2>2. len \in Nat /\ pos \in Nat /\ DOMAIN e.bytes = 1 .. len
    OBVIOUS
  <2> HIDE DEF len, pos
  <2>3. (\A i \in 1 .. len : pos + i - 1 < MemLen) <=> (len > 0 => pos + len <= MemLen)
    <3>1. ASSUME \A i \in 1 .. len : pos + i - 1 < MemLen, len > 0
          PROVE  pos + len <= MemLen
      <4>1. len \in 1 .. len
        BY <2>2, <3>1
      <4>2. pos + len - 1 < MemLen
        BY <3>1, <4>1
      <4> QED
        BY <2>1, <2>2, <4>2
    <3>2. ASSUME len > 0 => pos + len <= MemLen, NEW i \in 1 .. len
          PROVE  pos + i - 1 < MemLen
      BY <2>1, <2>2, <3>2
    <3> QED
      BY <3>1, <3>2
  <2> QED
    BY <2>2, <2>3 DEF len, pos
<1>4. Fits(file) <=> \A k \in 1 .. n : Within(file[k])
  BY <1>1 DEF Fits
<1>5. Fits(more) <=> \A k \in 1 .. (n + 1) : Within(more[k])
  BY <1>1 DEF Fits
<1>6. Fits(more) <=> Fits(file) /\ Within(e)
  <2> HIDE DEF Within
  <2> QED
    BY <1>1, <1>2, <1>4, <1>5
<1>7. (\E k \in DOMAIN more : more[k].bytes # <<>>) <=> (\E k \in DOMAIN file : file[k].bytes # <<>>) \/ e.bytes # <<>>
  BY <1>1, <1>2
<1> QED
  <2> HIDE DEF Within
  <2> QED
    BY <1>3, <1>6, <1>7

--------------------------------------------------------------------------
\* What pass 2 has written of the lines up to n.
AtOf(k) == Printed(places[k])
SizeAt(k) == Size(TokensAt(k))

\* c is the code of line k.
GoodCode(k, c) ==
  /\ IsCode(TokensAt(k)) => CodeOf(TokensAt(k), Start(TokensAt(k)), symbol_table, c)
  /\ IsData(TokensAt(k)) => Carries(c, 0, Width(NameOf(TokensAt(k))), Value(symbol_table, TokensAt(k)[Start(TokensAt(k)) + 1]))

\* A line after k and up to n writes to a.
Covered(k, a, n) == \E l \in (k + 1) .. n : a \in AtOf(l) .. (AtOf(l) + SizeAt(l) - 1)
Stored(file, k, n) ==
  \E c : /\ GoodCode(k, c)
         /\ \A j \in 0 .. (SizeAt(k) - 1) :
              AtOf(k) + j < MemLen => Covered(k, AtOf(k) + j, n) \/ load_mem(file)[AtOf(k) + j] = c[j]
Filled(file, n) ==
  /\ \A k \in 1 .. n : SizeAt(k) > 0 => Stored(file, k, n)
  /\ Fits(file) <=> \A k \in 1 .. n : SizeAt(k) > 0 => AtOf(k) + SizeAt(k) <= MemLen
  /\ (\E e \in DOMAIN file : file[e].bytes # <<>>) <=> \E k \in 1 .. n : SizeAt(k) > 0

\* An address as yas prints it.
LEMMA PrintedNat == \A pos \in Int : Printed(pos) \in Nat
BY DEF Printed

\* A line without code leaves what is written.
LEMMA FilledSkips ==
  ASSUME NEW file, NEW n \in Nat, Filled(file, n), SizeAt(n + 1) = 0
  PROVE  Filled(file, n + 1)
<1>1. 1 .. (n + 1) = (1 .. n) \cup {n + 1} /\ ~(SizeAt(n + 1) > 0)
  OBVIOUS
<1>2. ASSUME NEW k \in 1 .. n, NEW a, Covered(k, a, n)
      PROVE  Covered(k, a, n + 1)
  BY <1>2 DEF Covered
<1>3. ASSUME NEW k \in 1 .. n, SizeAt(k) > 0
      PROVE  Stored(file, k, n + 1)
  BY <1>2, <1>3 DEF Stored, Filled
<1> QED
  BY <1>1, <1>3 DEF Filled

\* A line appends its code, or no code.
LEMMA FilledGrows ==
  ASSUME NEW file, NEW n \in Nat, Records(file), Filled(file, n), NEW e, e.pos \in Nat,
         DOMAIN e.bytes = 1 .. SizeAt(n + 1), Len(e.bytes) = SizeAt(n + 1), SizeAt(n + 1) \in Nat,
         e.bytes # <<>> <=> SizeAt(n + 1) > 0,
         SizeAt(n + 1) > 0 => e.pos = AtOf(n + 1),
         SizeAt(n + 1) > 0 => \E c : GoodCode(n + 1, c) /\ \A j \in 0 .. (SizeAt(n + 1) - 1) : e.bytes[j + 1] = c[j],
         \A k \in 1 .. n : AtOf(k) \in Nat,
         NEW more, more = Append(file, e)
  PROVE  Filled(more, n + 1)
<1>1. 1 .. (n + 1) = (1 .. n) \cup {n + 1}
  OBVIOUS
<1>0. \A a \in 0 .. (MemLen - 1) :
        load_mem(more)[a] = IF Covers(e, a) THEN e.bytes[a - e.pos + 1] ELSE load_mem(file)[a]
  BY LoadMore
<1>2. ASSUME NEW k \in 1 .. n, SizeAt(k) > 0
      PROVE  Stored(more, k, n + 1)
  <2>1. PICK c : /\ GoodCode(k, c)
                 /\ \A j \in 0 .. (SizeAt(k) - 1) :
                      AtOf(k) + j < MemLen => Covered(k, AtOf(k) + j, n) \/ load_mem(file)[AtOf(k) + j] = c[j]
    BY <1>2 DEF Filled, Stored
  <2>2. ASSUME NEW j \in 0 .. (SizeAt(k) - 1), AtOf(k) + j < MemLen
        PROVE  Covered(k, AtOf(k) + j, n + 1) \/ load_mem(more)[AtOf(k) + j] = c[j]
    <3> DEFINE a == AtOf(k) + j
    <3>1. a \in 0 .. (MemLen - 1)
      BY <2>2, SizesAssumption
    <3>2. Covered(k, a, n) \/ load_mem(file)[a] = c[j]
      BY <2>1, <2>2
    <3> HIDE DEF a
    <3>3. Covered(k, a, n) => Covered(k, a, n + 1)
      BY DEF Covered
    <3>4. CASE Covers(e, a)
      <4>1. a \in e.pos .. (e.pos + SizeAt(n + 1) - 1)
        BY <3>4 DEF Covers
      <4>2. SizeAt(n + 1) > 0
        BY <3>1, <4>1
      <4>3. a \in AtOf(n + 1) .. (AtOf(n + 1) + SizeAt(n + 1) - 1)
        BY <4>1, <4>2
      <4>4. n + 1 \in (k + 1) .. (n + 1)
        OBVIOUS
      <4>5. Covered(k, a, n + 1)
        BY <4>3, <4>4 DEF Covered
      <4> QED
        BY <4>5 DEF a
    <3>5. CASE ~Covers(e, a)
      <4>1. load_mem(more)[a] = load_mem(file)[a]
        BY <1>0, <3>1, <3>5
      <4> QED
        BY <3>2, <3>3, <4>1 DEF a
    <3> QED
      BY <3>4, <3>5
  <2> QED
    BY <2>1, <2>2 DEF Stored
<1>3. ASSUME SizeAt(n + 1) > 0
      PROVE  Stored(more, n + 1, n + 1)
  <2>1. PICK c : GoodCode(n + 1, c) /\ \A j \in 0 .. (SizeAt(n + 1) - 1) : e.bytes[j + 1] = c[j]
    BY <1>3
  <2>2. ASSUME NEW j \in 0 .. (SizeAt(n + 1) - 1), AtOf(n + 1) + j < MemLen
        PROVE  load_mem(more)[AtOf(n + 1) + j] = c[j]
    <3> DEFINE a == e.pos + j
    <3>1. a \in 0 .. (MemLen - 1) /\ a - e.pos + 1 = j + 1
      BY <1>3, <2>2, SizesAssumption
    <3>2. Covers(e, a)
      BY <1>3 DEF Covers
    <3> HIDE DEF a
    <3>3. load_mem(more)[a] = e.bytes[a - e.pos + 1]
      BY <1>0, <3>1, <3>2
    <3>4. a = AtOf(n + 1) + j
      BY <1>3 DEF a
    <3> QED
      BY <2>1, <3>1, <3>3, <3>4
  <2> QED
    BY <2>1, <2>2 DEF Stored
<1>4. Fits(more) <=> Fits(file) /\ (SizeAt(n + 1) > 0 => AtOf(n + 1) + SizeAt(n + 1) <= MemLen)
  <2>1. Fits(more) <=> Fits(file) /\ (Len(e.bytes) > 0 => e.pos + Len(e.bytes) <= MemLen)
    BY FitsMore
  <2> QED
    BY <2>1
<1>5. (\E k \in DOMAIN more : more[k].bytes # <<>>) <=> (\E k \in DOMAIN file : file[k].bytes # <<>>) \/ SizeAt(n + 1) > 0
  <2>1. (\E k \in DOMAIN more : more[k].bytes # <<>>) <=> (\E k \in DOMAIN file : file[k].bytes # <<>>) \/ e.bytes # <<>>
    BY FitsMore
  <2> QED
    BY <2>1
<1>6. \A k \in 1 .. (n + 1) : SizeAt(k) > 0 => Stored(more, k, n + 1)
  BY <1>1, <1>2, <1>3
<1>7. Fits(more) <=> \A k \in 1 .. (n + 1) : SizeAt(k) > 0 => AtOf(k) + SizeAt(k) <= MemLen
  BY <1>1, <1>4 DEF Filled
<1>8. (\E k \in DOMAIN more : more[k].bytes # <<>>) <=> \E k \in 1 .. (n + 1) : SizeAt(k) > 0
  BY <1>1, <1>5 DEF Filled
<1> QED
  BY <1>6, <1>7, <1>8 DEF Filled

--------------------------------------------------------------------------
\* The steps write the file.

\* The code that Emit prints at its line, with the array it is taken from.
Coding == Assembled(TokensAt(at), Start(TokensAt(at)), symbol_table, code)
Taken == [i \in 1 .. find_instr(NameOf(TokensAt(at))).bytes |-> Coding.code[i - 1]]

\* The line that comes next.
LEMMA NextLineParts ==
  ASSUME Types, ~AtEof
  PROVE  /\ at \in 1 .. Len(source.lines) /\ Len(source.lines) \in Nat
         /\ Line \in SourceLine /\ TokensAt(at) = Line.tokens
         /\ bytepos \in Int
BY SourceParts DEF Types, AtEof, Line, TokensAt

\* The instruction of a line.
LEMMA InstrParts ==
  ASSUME NEW line \in SourceLine, NEW ts, ts = line.tokens, IsInstr(ts)
  PROVE  /\ Start(ts) \in Nat \ {0} /\ NameOf(ts) = ts[Start(ts)].val
         /\ NameOf(ts) \in Instrs \ {".pos", ".align"}
         /\ find_instr(NameOf(ts)).bytes \in Nat \ {0}
         /\ Size(ts) = find_instr(NameOf(ts)).bytes
<1>1. Start(ts) \in Nat \ {0} /\ NameOf(ts) = ts[Start(ts)].val
  BY StartInt DEF NameOf
<1>2. NameOf(ts) \in Instrs \ {".pos", ".align"}
  BY FirstToken
<1>3. Size(ts) = find_instr(NameOf(ts)).bytes
  BY SizeIs
<1>4. Size(ts) \in Nat \ {0}
  <2>1. HasName(ts)
    BY DEF IsInstr
  <2>2. WordBytes \in Nat /\ WordBytes >= 3
    BY SizesAssumption, SourcesAssumption
  <2>3. CASE IsCode(ts)
    <3>1. Size(ts) = Length(Hi4(Opcode[NameOf(ts)]))
      <4>1. NameOf(ts) \in DOMAIN Opcode
        BY <2>3 DEF IsCode
      <4>2. NameOf(ts) \notin Data
        BY <4>1, KindsApart
      <4>3. ~IsData(ts)
        BY <4>2 DEF IsData, Data
      <4> QED
        BY <2>3, <4>3 DEF Size
    <3> QED
      BY <2>2, <3>1 DEF Length
  <2>4. CASE ~IsCode(ts) /\ IsData(ts)
    <3>1. Size(ts) = Width(NameOf(ts)) /\ NameOf(ts) \in {".byte", ".word", ".long", ".quad"}
      BY <2>4 DEF Size, IsData
    <3>2. Width(NameOf(ts)) \in {1, 2, 4, WordBytes}
      BY <3>1 DEF Width
    <3> QED
      BY <2>2, <3>1, <3>2
  <2>5. IsCode(ts) \/ IsData(ts)
    <3>1. NameOf(ts) \in DOMAIN Opcode \cup Data
      BY <1>2, KindsApart, Operations
    <3> QED
      BY <2>1, <3>1 DEF IsCode, IsData, Data
  <2> QED
    BY <2>3, <2>4, <2>5
<1> QED
  BY <1>1, <1>2, <1>3, <1>4

\* An entry of the file.
Entered(e) == e.pos \in Nat /\ Len(e.bytes) \in Nat /\ DOMAIN e.bytes = 1 .. Len(e.bytes)

\* What Emit prints.
LEMMA TakenIs ==
  ASSUME Types, ~AtEof, IsInstr(TokensAt(at)), DOMAIN code = 0 .. (WordBytes + 1)
  PROVE  /\ DOMAIN Coding.code = 0 .. (WordBytes + 1)
         /\ Len(Taken) = SizeAt(at) /\ DOMAIN Taken = 1 .. SizeAt(at) /\ SizeAt(at) \in Nat \ {0} /\ Taken # <<>>
         /\ \A j \in 0 .. (SizeAt(at) - 1) : Taken[j + 1] = Coding.code[j]
<1> DEFINE ts == TokensAt(at)
           n == find_instr(NameOf(ts)).bytes
<1>1. Line \in SourceLine /\ ts = Line.tokens /\ IsInstr(ts)
  BY NextLineParts
<1> HIDE DEF ts
<1>2. /\ Start(ts) \in Nat \ {0} /\ NameOf(ts) = ts[Start(ts)].val
      /\ NameOf(ts) \in Instrs \ {".pos", ".align"}
      /\ n \in Nat \ {0} /\ Size(ts) = n
  BY <1>1, InstrParts
<1> HIDE DEF n
<1>3. DOMAIN Coding.code = 0 .. (WordBytes + 1)
  <2>1. DOMAIN Assembled(ts, Start(ts), symbol_table, code).code = DOMAIN code
    BY <1>2, AssembledSpan
  <2> QED
    BY <2>1 DEF Coding, ts
<1>4. Taken = [i \in 1 .. n |-> Coding.code[i - 1]]
  BY DEF Taken, n, ts
<1>5. DOMAIN Taken = 1 .. n
  BY <1>4
<1>6. Len(Taken) = n
  BY <1>2, <1>4
<1>7. Taken # <<>>
  <2>1. DOMAIN <<>> = {} /\ 1 \in 1 .. n
    BY <1>2
  <2> QED
    BY <1>5, <2>1
<1>8. ASSUME NEW j \in 0 .. (n - 1)
      PROVE  Taken[j + 1] = Coding.code[j]
  <2>1. j + 1 \in 1 .. n /\ (j + 1) - 1 = j
    BY <1>2
  <2> HIDE DEF Coding
  <2> QED
    BY <1>4, <2>1
<1>9. SizeAt(at) = n
  BY <1>2 DEF SizeAt, ts
<1> QED
  BY <1>2, <1>3, <1>5, <1>6, <1>7, <1>8, <1>9

\* A step on a line leaves the file or appends an entry.
LEMMA Writes ==
  ASSUME Types, LineNext, DOMAIN code = 0 .. (WordBytes + 1)
  PROVE  /\ DOMAIN code' = 0 .. (WordBytes + 1)
         /\ \/ outfile' = outfile
            \/ \E e : pass = 2 /\ outfile' = Append(outfile, e) /\ Entered(e)
<1>0. ~AtEof
  BY DEF LineNext, Blank, Dropped, LabelLine, BadLine, Directive, Measure, Emit, Invalid, Swallow, Unfinished, Read
<1>1. Line \in SourceLine /\ TokensAt(at) = Line.tokens /\ bytepos \in Int
  BY <1>0, NextLineParts
<1>2. ASSUME NEW pos \in Int, NEW bytes, Len(bytes) \in Nat, DOMAIN bytes = 1 .. Len(bytes), PrintCode(pos, bytes)
      PROVE  outfile' = outfile \/ \E e : pass = 2 /\ outfile' = Append(outfile, e) /\ Entered(e)
  <2> DEFINE e == [pos |-> Printed(pos), bytes |-> bytes]
  <2>1. outfile' = outfile \/ (pass = 2 /\ outfile' = Append(outfile, e))
    BY <1>2 DEF PrintCode
  <2>2. Entered(e)
    BY <1>2, PrintedNat DEF Entered
  <2> HIDE DEF e
  <2> QED
    BY <2>1, <2>2
<1>3. Len(<<>>) \in Nat /\ DOMAIN <<>> = 1 .. Len(<<>>)
  OBVIOUS
<1>4. CASE Blank \/ Dropped \/ BadLine \/ Measure \/ Invalid \/ Swallow \/ Unfinished
  BY <1>4 DEF Blank, Dropped, BadLine, Measure, Invalid, Swallow, Unfinished, PrintNothing
<1>5. CASE LabelLine
  <2>1. PrintCode(bytepos, <<>>) /\ code' = code
    BY <1>5 DEF LabelLine
  <2> QED
    BY <1>1, <1>2, <1>3, <2>1
<1>6. CASE Directive
  <2>1. PrintCode(Advance(Line.tokens, bytepos), <<>>) /\ code' = code
    BY <1>6 DEF Directive
  <2>2. Advance(Line.tokens, bytepos) \in Int
    BY <1>1, AdvanceInt
  <2> QED
    BY <1>2, <1>3, <2>1, <2>2
<1>7. CASE Emit
  <2>1. /\ IsInstr(TokensAt(at)) /\ code' = Coding.code
        /\ PrintCode(bytepos, Taken) \/ PrintNothing
    BY <1>1, <1>7 DEF Emit, Coding, Taken
  <2>2. DOMAIN Coding.code = 0 .. (WordBytes + 1) /\ Len(Taken) \in Nat /\ DOMAIN Taken = 1 .. Len(Taken)
    BY <1>0, <2>1, TakenIs
  <2> HIDE DEF Coding, Taken
  <2> QED
    BY <1>1, <1>2, <2>1, <2>2 DEF PrintNothing
<1> QED
  BY <1>4, <1>5, <1>6, <1>7 DEF LineNext

\* The code of an accepted line is the code of its instruction.
LEMMA CodingIs ==
  ASSUME Types, ~AtEof, IsInstr(TokensAt(at)), DOMAIN code = 0 .. (WordBytes + 1),
         Accepts(TokensAt(at), Start(TokensAt(at)), symbol_table)
  PROVE  GoodCode(at, Coding.code)
<1> DEFINE ts == TokensAt(at)
           i == Start(ts)
           p == Assembled(ts, i, symbol_table, code)
<1>1. Line \in SourceLine /\ ts = Line.tokens /\ IsInstr(ts) /\ Accepts(ts, i, symbol_table)
  BY NextLineParts
<1>2. p = Coding
  BY DEF Coding
<1> HIDE DEF ts
<1>3. i \in Nat \ {0} /\ NameOf(ts) = ts[i].val
  BY <1>1, InstrParts
<1>4. IsCode(ts) => CodeOf(ts, i, symbol_table, p.code)
  <2>1. IsCode(ts) => ts[i].val \in DOMAIN Opcode
    BY <1>3 DEF IsCode
  <2> QED
    BY <1>1, <1>3, <2>1, CodeIs
<1>5. IsData(ts) => Carries(p.code, 0, Width(NameOf(ts)), Value(symbol_table, ts[i + 1]))
  <2>1. IsData(ts) => ts[i].val \in Data
    BY <1>3 DEF IsData, Data
  <2> HIDE DEF p
  <2>2. ASSUME IsData(ts)
        PROVE  Carries(p.code, 0, Width(ts[i].val), Value(symbol_table, ts[i + 1]))
    BY <1>1, <1>3, <2>1, <2>2, DataIs DEF p
  <2> QED
    BY <1>3, <2>2
<1> QED
  BY <1>2, <1>4, <1>5 DEF GoodCode, ts

--------------------------------------------------------------------------
\* A line that is no instruction has no code.
LEMMA NoSize ==
  ASSUME NEW ts, ~IsInstr(ts)
  PROVE  Size(ts) = 0 /\ ~IsCode(ts) /\ ~IsData(ts)
<1>1. ~IsCode(ts)
  BY KindsApart DEF IsCode, IsInstr
<1>2. ~IsData(ts)
  BY DEF IsData, IsInstr
<1> QED
  BY <1>1, <1>2 DEF Size

\* Where a line prints.
LEMMA AtNat ==
  ASSUME Types, Len(places) = Len(source.lines) + 1, NEW k \in 1 .. Len(source.lines)
  PROVE  AtOf(k) \in Nat
<1>1. places \in Seq(Int) /\ Len(source.lines) \in Nat
  BY SourceParts DEF Types
<1>2. places[k] \in Int
  BY <1>1
<1> QED
  BY <1>2, PrintedNat DEF AtOf

\* In pass 2 a step without an error writes the code of its line.
LEMMA Fills ==
  ASSUME Types, ~AtEof, pass = 2, Len(places) = Len(source.lines) + 1, Seen(Len(source.lines)),
         scanner = "INITIAL", ~leftover, places[at] = bytepos, LineNext,
         DOMAIN code = 0 .. (WordBytes + 1), Records(outfile), Filled(outfile, at - 1), ~hit_error'
  PROVE  Filled(outfile', at)
<1> DEFINE ts == TokensAt(at)
           n == at - 1
<1>1. /\ at \in 1 .. Len(source.lines) /\ Len(source.lines) \in Nat
      /\ Line \in SourceLine /\ ts = Line.tokens /\ bytepos \in Int
  BY NextLineParts
<1>2. n \in Nat /\ n + 1 = at /\ 1 .. n \subseteq 1 .. Len(source.lines)
  BY <1>1
<1>3. ~hit_error /\ Accepted(at)
  <2>1. hit_error' <=> hit_error \/ ~Accepted(at)
    BY Judged
  <2> QED
    BY <2>1
<1>4. InOrder(at)
  BY <1>1 DEF Seen
<1>5. Finished(at) <=> EndsInNewline
  BY DEF Finished, EndsInNewline
<1>6. ~BadLine /\ ~Invalid /\ ~Swallow /\ ~Dropped /\ ~Measure
  BY <1>1, <1>4, <1>5 DEF BadLine, Invalid, Swallow, Dropped, Measure, InOrder, Read, Line, TokensAt
<1>7. Filled(outfile, n) /\ \A k \in 1 .. n : AtOf(k) \in Nat
  BY <1>1, <1>2, AtNat
<1>8. AtOf(at) = Printed(bytepos) /\ Printed(bytepos) \in Nat
  BY <1>1, PrintedNat DEF AtOf
<1>9. ASSUME SizeAt(at) = 0, outfile' = outfile
      PROVE  Filled(outfile', at)
  <2> HIDE DEF n
  <2>1. SizeAt(n + 1) = 0
    BY <1>2, <1>9
  <2>2. Filled(outfile, n + 1)
    BY <1>2, <1>7, <2>1, FilledSkips
  <2> QED
    BY <1>2, <1>9, <2>2
<1>10. ASSUME NEW pos \in Int, PrintCode(pos, <<>>), ~TooFar(pos), SizeAt(at) = 0
       PROVE  Filled(outfile', at)
  <2> DEFINE e == [pos |-> Printed(pos), bytes |-> <<>>]
  <2>1. outfile' = Append(outfile, e)
    BY <1>10 DEF PrintCode
  <2>2. e.pos \in Nat /\ DOMAIN e.bytes = 1 .. 0 /\ Len(e.bytes) = 0 /\ e.bytes = <<>>
    <3>1. e.pos \in Nat /\ e.bytes = <<>>
      BY PrintedNat
    <3>2. DOMAIN <<>> = 1 .. 0 /\ Len(<<>>) = 0
      OBVIOUS
    <3> HIDE DEF e
    <3> QED
      BY <3>1, <3>2
  <2> HIDE DEF e, n
  <2>3. /\ DOMAIN e.bytes = 1 .. SizeAt(n + 1) /\ Len(e.bytes) = SizeAt(n + 1) /\ SizeAt(n + 1) \in Nat
        /\ e.bytes # <<>> <=> SizeAt(n + 1) > 0
        /\ ~(SizeAt(n + 1) > 0)
    BY <1>2, <1>10, <2>2
  <2>4. Filled(Append(outfile, e), n + 1)
    BY <1>2, <1>7, <2>2, <2>3, FilledGrows
  <2> QED
    BY <1>2, <2>1, <2>4
<1>11. \A pos : hit_error' = (hit_error \/ TooFar(pos)) => ~TooFar(pos)
  BY <1>3
<1>12. CASE Blank \/ Unfinished
  <2>1. ts = <<>>
    BY <1>1, <1>4, <1>5, <1>12 DEF Blank, Unfinished, Read, InOrder
  <2>2. ~IsInstr(ts)
    BY <2>1 DEF IsInstr, HasName, Type
  <2>3. SizeAt(at) = 0
    BY <2>2, NoSize DEF SizeAt
  <2>4. outfile' = outfile
    BY <1>12 DEF Blank, Unfinished, PrintNothing
  <2> QED
    BY <1>9, <2>3, <2>4
<1>13. CASE LabelLine
  <2>1. Labelled(ts) /\ Len(ts) = 2 /\ PrintCode(bytepos, <<>>) /\ hit_error' = (hit_error \/ TooFar(bytepos))
    BY <1>1, <1>13 DEF LabelLine
  <2>2. ~HasName(ts)
    <3> HIDE DEF ts
    <3> QED
      BY <1>1, <2>1, NoName
  <2>3. SizeAt(at) = 0
    BY <2>2, NoSize DEF SizeAt, IsInstr
  <2> QED
    BY <1>1, <1>10, <1>11, <2>1, <2>3
<1>14. CASE Directive
  <2> DEFINE pos == Advance(ts, bytepos)
  <2>1. GoodDirective(ts) /\ PrintCode(pos, <<>>) /\ hit_error' = (hit_error \/ TooFar(pos))
    BY <1>1, <1>14 DEF Directive
  <2>2. ~IsInstr(ts)
    BY <2>1, Kinds DEF GoodDirective
  <2>3. SizeAt(at) = 0
    BY <2>2, NoSize DEF SizeAt
  <2>4. pos \in Int
    <3> HIDE DEF ts
    <3> QED
      BY <1>1, AdvanceInt
  <2> HIDE DEF pos
  <2> QED
    BY <1>10, <1>11, <2>1, <2>3, <2>4
<1>15. CASE Emit
  <2>1. /\ IsInstr(ts)
        /\ IF Coding.printed THEN PrintCode(bytepos, Taken) ELSE PrintNothing
        /\ hit_error' = (hit_error \/ ~Coding.ok \/ (Coding.printed /\ TooFar(bytepos)))
    BY <1>1, <1>15 DEF Emit, Coding, Taken
  <2>2. Accepts(ts, Start(ts), symbol_table)
    BY <1>3, <2>1 DEF Accepted
  <2>3. Coding.printed = TRUE
    <3>1. Start(ts) \in Nat \ {0} /\ NameOf(ts) = ts[Start(ts)].val /\ NameOf(ts) \in Instrs \ {".pos", ".align"}
      <4> HIDE DEF ts
      <4> QED
        BY <1>1, <2>1, InstrParts
    <3>2. Coding.ok \in BOOLEAN /\ (Coding.ok => Coding.printed = TRUE) /\ (Coding.ok <=> Accepts(ts, Start(ts), symbol_table))
      BY <3>1, AssembledOk DEF Coding
    <3> QED
      BY <2>2, <3>2
  <2>4. ~TooFar(bytepos) /\ PrintCode(bytepos, Taken)
    BY <2>1, <2>3
  <2> DEFINE e == [pos |-> Printed(bytepos), bytes |-> Taken]
  <2>5. outfile' = Append(outfile, e)
    BY <2>4 DEF PrintCode
  <2>6. e.pos = Printed(bytepos) /\ e.bytes = Taken
    OBVIOUS
  <2>7. /\ Len(Taken) = SizeAt(at) /\ DOMAIN Taken = 1 .. SizeAt(at) /\ SizeAt(at) \in Nat \ {0} /\ Taken # <<>>
        /\ \A j \in 0 .. (SizeAt(at) - 1) : Taken[j + 1] = Coding.code[j]
    BY <2>1, TakenIs
  <2>8. GoodCode(at, Coding.code)
    BY <2>1, <2>2, CodingIs
  <2> HIDE DEF e, n
  <2>9. \E c : GoodCode(at, c) /\ \A j \in 0 .. (SizeAt(at) - 1) : e.bytes[j + 1] = c[j]
    BY <2>6, <2>7, <2>8
  <2>10. /\ e.pos \in Nat /\ DOMAIN e.bytes = 1 .. SizeAt(n + 1) /\ Len(e.bytes) = SizeAt(n + 1) /\ SizeAt(n + 1) \in Nat
         /\ e.bytes # <<>> <=> SizeAt(n + 1) > 0
         /\ SizeAt(n + 1) > 0 => e.pos = AtOf(n + 1)
    BY <1>2, <1>8, <2>6, <2>7
  <2>11. \E c : GoodCode(n + 1, c) /\ \A j \in 0 .. (SizeAt(n + 1) - 1) : e.bytes[j + 1] = c[j]
    BY <1>2, <2>9
  <2>12. Filled(Append(outfile, e), n + 1)
    BY <1>2, <1>7, <2>10, <2>11, FilledGrows
  <2> QED
    BY <1>2, <2>5, <2>12
<1> QED
  BY <1>6, <1>12, <1>13, <1>14, <1>15 DEF LineNext

--------------------------------------------------------------------------
\* The invariant of the file: in pass 2 it has the code of the lines that are
\* behind, as long as there is no error.
FileIs ==
  /\ DOMAIN code = 0 .. (WordBytes + 1)
  /\ Records(outfile)
  /\ pass = 1 => outfile = <<>>
  /\ LeavesErr(source) /\ Len(source.lines) = 1 => outfile = <<>>
  /\ pass = 2 /\ ~LeavesErr(source) /\ ~hit_error => Filled(outfile, at - 1)

\* An empty file has the code of no line.
LEMMA NothingFilled == Records(<<>>) /\ Filled(<<>>, 0)
<1>1. DOMAIN <<>> = {} /\ 1 .. 0 = {} /\ <<>> \in Seq({})
  OBVIOUS
<1>2. Records(<<>>)
  BY <1>1 DEF Records
<1>3. Fits(<<>>)
  BY <1>1 DEF Fits
<1>4. Filled(<<>>, 0)
  BY <1>1, <1>3 DEF Filled
<1> QED
  BY <1>2, <1>4

\* What is written does not depend on the rest of the state.
LEMMA FilledStays ==
  ASSUME UNCHANGED <<source, places, symbol_table>>
  PROVE  Filled(outfile, at - 1)' <=> Filled(outfile', at' - 1)
<1>1. \A k : TokensAt(k)' = TokensAt(k)
  BY DEF TokensAt
<1>2. \A k : SizeAt(k)' = SizeAt(k)
  BY <1>1 DEF SizeAt
<1>3. \A k : AtOf(k)' = AtOf(k)
  BY DEF AtOf
<1>4. \A k, c : GoodCode(k, c)' <=> GoodCode(k, c)
  BY <1>1 DEF GoodCode
<1>5. \A k, a, n : Covered(k, a, n)' <=> Covered(k, a, n)
  BY <1>2, <1>3 DEF Covered
<1>6. \A file, k, n : Stored(file, k, n)' <=> Stored(file, k, n)
  BY <1>2, <1>3, <1>4, <1>5 DEF Stored
<1>7. \A file, n : Filled(file, n)' <=> Filled(file, n)
  BY <1>2, <1>3, <1>6 DEF Filled
<1> QED
  BY <1>7

\* At the start the file is empty.
LEMMA FileInit ==
  ASSUME Init
  PROVE  FileIs
<1>1. /\ DOMAIN code = 0 .. (WordBytes + 1) /\ outfile = <<>> /\ pass = 1
  BY DEF Init
<1> QED
  BY <1>1, NothingFilled DEF FileIs

\* A step on a line keeps the invariant of the file.
LEMMA FileLine ==
  ASSUME IInv, Told, FileIs, LineNext
  PROVE  FileIs'
<1>0. Types /\ DOMAIN code = 0 .. (WordBytes + 1) /\ Records(outfile)
  BY DEF IInv, FileIs
<1>1. ~AtEof /\ (Regular \/ Faulty \/ Waiting)
  BY LineEffect DEF IInv
<1>2. source' = source /\ pass' = pass /\ at' = at + 1 /\ pass \in {1, 2} /\ (pass = 2 => places' = places)
  BY <1>0, <1>1 DEF Regular, Faulty, Waiting, NextLine, Types
<1>3. pass = 2 => symbol_table' = symbol_table
  BY <1>1 DEF Regular, Faulty, Waiting, Recorded
<1>4. /\ DOMAIN code' = 0 .. (WordBytes + 1)
      /\ \/ outfile' = outfile
         \/ \E e : pass = 2 /\ outfile' = Append(outfile, e) /\ Entered(e)
  BY <1>0, Writes
<1>5. Records(outfile')
  <2>1. CASE outfile' = outfile
    BY <1>0, <2>1
  <2>2. ASSUME NEW e, outfile' = Append(outfile, e), Entered(e)
        PROVE  Records(outfile')
    <3>1. e.pos \in Nat /\ Len(e.bytes) \in Nat /\ DOMAIN e.bytes = 1 .. Len(e.bytes)
      BY <2>2 DEF Entered
    <3>2. Records(Append(outfile, e))
      BY <1>0, <3>1, RecordsGrow
    <3> QED
      BY <2>2, <3>2
  <2> QED
    BY <1>4, <2>1, <2>2
<1>6. pass = 1 => outfile' = <<>>
  BY <1>4 DEF FileIs
<1>7. LeavesErr(source) /\ Len(source.lines) = 1 => outfile' = <<>>
  <2> SUFFICES ASSUME LeavesErr(source), Len(source.lines) = 1 PROVE outfile' = <<>>
    OBVIOUS
  <2>1. at = 1 /\ ~EndsInNewline
    BY <1>0, <1>1, NextLineParts DEF LeavesErr, EndsInNewline
  <2>2. Unfinished
    BY <2>1 DEF LineNext, Blank, Dropped, LabelLine, BadLine, Directive, Measure, Emit, Invalid, Swallow, Unfinished, Read
  <2>3. outfile' = outfile
    BY <2>2 DEF Unfinished, PrintNothing
  <2> QED
    BY <2>3 DEF FileIs
<1>8. ASSUME pass = 2, ~LeavesErr(source), ~hit_error'
      PROVE  Filled(outfile, at - 1)'
  <2>1. /\ Len(places) = Len(source.lines) + 1 /\ Seen(Len(source.lines)) /\ scanner = "INITIAL" /\ ~leftover
        /\ places[at] = bytepos
    BY <1>8 DEF IInv, SecondPass, ScannerExplained
  <2>2. ~hit_error
    BY <1>0, <1>8, EndedStep DEF Told
  <2>3. Filled(outfile, at - 1)
    BY <1>8, <2>2 DEF FileIs
  <2>4. Filled(outfile', at)
    BY <1>0, <1>1, <1>8, <2>1, <2>3, Fills
  <2>5. at' - 1 = at
    BY <1>0, <1>1, <1>2, NextLineParts
  <2> QED
    BY <1>2, <1>3, <1>8, <2>4, <2>5, FilledStays
<1> QED
  <2>1. LeavesErr(source)' <=> LeavesErr(source)
    BY <1>2 DEF LeavesErr
  <2>2. Records(outfile)' <=> Records(outfile')
    BY DEF Records
  <2> QED
    BY <1>2, <1>4, <1>5, <1>6, <1>7, <1>8, <2>1, <2>2 DEF FileIs

\* The end of a pass keeps it.
LEMMA FileEnd ==
  ASSUME IInv, Told, FileIs, EndOfPass
  PROVE  FileIs'
<1>1. UNCHANGED <<source, places, symbol_table, code, outfile>>
  BY DEF EndOfPass
<1>2. pass \in {1, 2} /\ hit_error \in BOOLEAN /\ leftover \in BOOLEAN
  BY DEF IInv, Types
<1>3. (pass = 1 /\ ~hit_error' /\ pass' = 2 /\ at' = 1) \/ (pass' = pass /\ at' = at /\ (pass = 1 => pass' = 1))
  BY <1>2 DEF EndOfPass
<1>4. hit_error => hit_error'
  BY <1>2 DEF EndOfPass
<1>5. Records(outfile)' <=> Records(outfile)
  BY <1>1 DEF Records
<1>6. LeavesErr(source)' <=> LeavesErr(source)
  BY <1>1 DEF LeavesErr
<1>7. ASSUME pass' = 2, ~LeavesErr(source), ~hit_error'
      PROVE  Filled(outfile, at - 1)'
  <2>1. CASE pass = 1
    <3>1. outfile' = <<>> /\ at' - 1 = 0
      BY <1>1, <1>3, <1>7, <2>1 DEF FileIs
    <3>2. Filled(outfile', at' - 1)
      BY <3>1, NothingFilled
    <3> QED
      BY <1>1, <3>2, FilledStays
  <2>2. CASE pass = 2
    <3>1. Filled(outfile, at - 1)
      BY <1>4, <1>7, <2>2 DEF FileIs
    <3>2. outfile' = outfile /\ at' = at
      BY <1>1, <1>3, <2>2
    <3> QED
      BY <1>1, <3>1, <3>2, FilledStays
  <2> QED
    BY <1>2, <2>1, <2>2
<1> QED
  BY <1>1, <1>2, <1>3, <1>5, <1>6, <1>7 DEF FileIs

\* So does a stuttering step.
LEMMA FileStutter ==
  ASSUME FileIs, UNCHANGED vars
  PROVE  FileIs'
<1>1. UNCHANGED <<source, pass, at, code, symbol_table, hit_error, outfile, places>>
  BY DEF vars
<1>2. Filled(outfile, at - 1)' <=> Filled(outfile, at - 1)
  BY <1>1, FilledStays
<1>3. Records(outfile)' <=> Records(outfile)
  BY <1>1 DEF Records
<1>4. LeavesErr(source)' <=> LeavesErr(source)
  BY <1>1 DEF LeavesErr
<1> QED
  BY <1>1, <1>2, <1>3, <1>4 DEF FileIs

--------------------------------------------------------------------------
\* The value of a token of a line is what the token means.
LEMMA TokenMeans ==
  ASSUME Types, Seen(Len(source.lines)), NEW line \in SourceLine, NEW ts, ts = line.tokens, NEW j, IsKnown(ts, symbol_table, j)
  PROVE  /\ Meant(source, places, ts[j]) = Value(symbol_table, ts[j])
         /\ Value(symbol_table, ts[j]) \in Int
<1>1. j \in DOMAIN ts /\ ts[j].type \in {"NUM", "IDENT"} /\ ~Missing(symbol_table, ts[j])
  BY DEF IsKnown, IsValue, Type
<1>2. j \in Int
  BY <1>1, LineParts
<1>3. ts[j].type = "NUM" => ts[j].val \in Int
  <2>1. ts[j].type = "NUM" => Type(line.tokens, j) = "NUM"
    BY <1>1 DEF Type
  <2> QED
    BY <1>2, <2>1, TokenParts
<1>4. Meant(source, places, ts[j]) = Value(symbol_table, ts[j])
  BY <1>1, <1>3, MeantIs
<1>5. Value(symbol_table, ts[j]) \in Int
  BY <1>1, <1>3, MeantIs
<1> QED
  BY <1>4, <1>5

\* The simulators fetch what a line of code says.
LEMMA CodeSays ==
  ASSUME Types, Seen(Len(source.lines)), NEW line \in SourceLine, NEW ts, ts = line.tokens, IsCode(ts), IsInstr(ts),
         Accepts(ts, Start(ts), symbol_table), NEW c, CodeOf(ts, Start(ts), symbol_table, c),
         NEW m, NEW pos \in Nat, pos + Size(ts) <= MemLen, Lies(m, pos, c, Size(ts)),
         NEW f, f = Fetched(m, pos, m[pos])
  PROVE  SaysCode(source, places, Trimmed(Statement(ts)), f)
<1> DEFINE st == Statement(ts)
           i == Start(ts)
           name == NameOf(ts)
           icode == Hi4(Opcode[name])
           T == Trimmed(st)
<1>1. i \in Nat \ {0} /\ name = ts[i].val /\ i <= Len(ts) /\ name \in Instrs \ {".pos", ".align"}
  BY InstrParts, FirstToken
<1>2. name \in DOMAIN Opcode
  BY DEF IsCode
<1>3. PICK shape : shape \in Operands(st)
  <2>1. \A n : Defined(symbol_table, n) <=> n \in Labels(source)
    BY LabelsAre
  <2>2. \E shape \in Operands(st) : \A l \in 2 .. (Len(shape) + 1) : st[l].type = "IDENT" => st[l].val \in Labels(source)
    BY <1>1, <2>1, AcceptsIs
  <2> QED
    BY <2>2
<1>4. T[1].val = name
  <2>1. \A l \in 1 .. (Len(shape) + 1) : T[l] = ts[i + l - 1]
    BY <1>3, TrimmedIs
  <2>2. Len(shape) \in Nat
    <3>1. Shaped(st, shape)
      BY <1>3, OperandsAre
    <3> QED
      BY <3>1 DEF Shaped
  <2> HIDE DEF T
  <2>3. T[1] = ts[i + 1 - 1]
    BY <2>1, <2>2
  <2>4. i + 1 - 1 = i
    BY <1>1
  <2> QED
    BY <1>1, <2>3, <2>4
<1>5. Agree(T, icode, ts, i, symbol_table)
  <2>1. CASE name = "rmmovq"
    BY <1>2, <1>3, <2>1, StoreAgree
  <2>2. CASE name = "mrmovq"
    BY <1>2, <1>3, <2>2, LoadAgree
  <2>3. CASE name \notin {"rmmovq", "mrmovq"}
    BY <1>2, <1>3, <2>3, SimpleAgree
  <2> QED
    BY <2>1, <2>2, <2>3
<1>6. Length(icode) = Size(ts)
  <2>1. name \notin Data
    BY <1>2, KindsApart
  <2>2. ~IsData(ts)
    BY <2>1 DEF IsData, Data
  <2> QED
    BY <2>2 DEF Size
<1> HIDE DEF st, i, name, icode, T
<1>7. NeedImm(icode) =>
        /\ Val(ts, i, symbol_table) \in Int
        /\ \/ Values(T) = {} /\ Val(ts, i, symbol_table) = 0
           \/ Values(T) # {} /\ Val(ts, i, symbol_table) = Meant(source, places, T[Min(Values(T))])
  <2> SUFFICES ASSUME NeedImm(icode)
               PROVE  /\ Val(ts, i, symbol_table) \in Int
                      /\ \/ Values(T) = {} /\ Val(ts, i, symbol_table) = 0
                         \/ Values(T) # {} /\ Val(ts, i, symbol_table) = Meant(source, places, T[Min(Values(T))])
    OBVIOUS
  <2>1. CASE Values(T) = {} /\ Val(ts, i, symbol_table) = 0
    BY <2>1
  <2>2. ASSUME Values(T) # {}, NEW j, T[Min(Values(T))] = ts[j], IsKnown(ts, symbol_table, j),
               Val(ts, i, symbol_table) = Value(symbol_table, ts[j])
        PROVE  /\ Val(ts, i, symbol_table) \in Int
               /\ Values(T) # {} /\ Val(ts, i, symbol_table) = Meant(source, places, T[Min(Values(T))])
    <3>1. Meant(source, places, ts[j]) = Value(symbol_table, ts[j])
      BY <2>2, TokenMeans
    <3>2. Value(symbol_table, ts[j]) \in Int
      BY <2>2, TokenMeans
    <3> QED
      BY <2>2, <3>1, <3>2
  <2> QED
    BY <1>5, <2>1, <2>2 DEF Agree
<1>8. /\ f.icode = icode /\ f.ifun = Lo4(Opcode[name])
      /\ f.rA = RegA(ts, i) /\ f.rB = RegB(ts, i)
      /\ NeedImm(icode) => f.valC = Wrap(Val(ts, i, symbol_table))
      /\ FetchStatus(f) = "AOK"
  <2>1. CodeOf(ts, i, symbol_table, c) /\ Accepts(ts, i, symbol_table)
    BY DEF i
  <2>2. pos + Length(icode) <= MemLen /\ Lies(m, pos, c, Length(icode))
    BY <1>6
  <2>3. icode = Hi4(Opcode[name])
    BY DEF icode
  <2>4. NeedImm(icode) => Val(ts, i, symbol_table) \in Int
    BY <1>7
  <2>5. /\ i \in Nat \ {0} /\ name = ts[i].val /\ name \in DOMAIN Opcode
        /\ line \in SourceLine /\ ts = line.tokens /\ pos \in Nat /\ f = Fetched(m, pos, m[pos])
    BY <1>1, <1>2
  <2>6. Decoded(Fetched(m, pos, m[pos]), ts, i, symbol_table)
    BY <2>1, <2>2, <2>3, <2>4, <2>5, FetchIs
  <2>7. Decoded(f, ts, i, symbol_table)
    BY <2>6
  <2> QED
    BY <2>3, <2>5, <2>7 DEF Decoded
<1>9. RegisterA(icode, T) = RegA(ts, i) /\ RegisterB(icode, T) = RegB(ts, i)
  BY <1>5 DEF Agree
<1>10. NeedImm(f.icode) => f.valC = IF Values(T) = {} THEN 0 ELSE Wrap(Meant(source, places, T[Min(Values(T))]))
  <2>1. Wrap(0) = 0
    <3>1. Modulus \in Nat \ {0}
      BY Powers, SizesAssumption DEF Modulus
    <3> QED
      BY <3>1 DEF Wrap
  <2> QED
    BY <1>7, <1>8, <2>1
<1>11. <<f.icode, f.ifun>> = <<Hi4(Opcode[T[1].val]), Lo4(Opcode[T[1].val])>>
  BY <1>4, <1>8 DEF icode
<1> QED
  <2>1. f.rA = RegisterA(f.icode, T) /\ f.rB = RegisterB(f.icode, T)
    BY <1>8, <1>9
  <2>2. SaysCode(source, places, T, f)
    BY <1>8, <1>10, <1>11, <2>1 DEF SaysCode
  <2> QED
    BY <2>2 DEF T, st

\* The memory has what a line of data says.
LEMMA DataSays ==
  ASSUME Types, Seen(Len(source.lines)), NEW line \in SourceLine, NEW ts, ts = line.tokens, IsData(ts), IsInstr(ts),
         Accepts(ts, Start(ts), symbol_table),
         NEW c, Carries(c, 0, Width(NameOf(ts)), Value(symbol_table, ts[Start(ts) + 1])),
         NEW m, NEW pos, Lies(m, pos, c, Size(ts))
  PROVE  SaysData(source, places, Statement(ts), m, pos)
<1> DEFINE st == Statement(ts)
           i == Start(ts)
           name == NameOf(ts)
<1>1. i \in Nat \ {0} /\ name = ts[i].val /\ i <= Len(ts) /\ st[1].val = name
  BY InstrParts, FirstToken
<1>2. name \in Data
  BY DEF IsData, Data
<1>3. Size(ts) = Width(name)
  <2>1. name \notin DOMAIN Opcode
    BY <1>2, KindsApart
  <2>2. ~IsCode(ts)
    BY <2>1 DEF IsCode
  <2> QED
    BY <2>2 DEF Size
<1>4. IsKnown(ts, symbol_table, i + 1)
  <2>1. name \in OneValue
    BY <1>2, KindsApart
  <2> QED
    BY <1>1, <2>1 DEF Accepts
<1>5. Meant(source, places, ts[i + 1]) = Value(symbol_table, ts[i + 1])
  BY <1>4, TokenMeans
<1>6. st[2] = ts[i + 1]
  <2>1. i + 2 - 1 = i + 1 /\ i + 1 \in DOMAIN ts
    BY <1>1, <1>4 DEF IsKnown, IsValue, Type
  <2>2. 2 \in Nat \ {0}
    OBVIOUS
  <2>3. 2 \in DOMAIN st <=> i + 2 - 1 \in DOMAIN ts
    BY <1>1, <2>2, StatementTokens
  <2>4. 2 \in DOMAIN st => st[2] = ts[i + 2 - 1]
    BY <1>1, <2>2, StatementTokens
  <2> QED
    BY <2>1, <2>3, <2>4
<1> HIDE DEF st, i, name
<1>7. ASSUME NEW j \in 0 .. (Width(name) - 1)
      PROVE  m[pos + j] = ByteAt(Value(symbol_table, ts[i + 1]), j)
  <2>1. m[pos + j] = c[j]
    BY <1>3 DEF Lies
  <2>2. c[0 + j] = ByteAt(Value(symbol_table, ts[i + 1]), j)
    BY DEF Carries, name, i
  <2>3. 0 + j = j
    <3>1. Width(name) \in Int
      BY <1>2, SizesAssumption DEF Width, Data
    <3> QED
      BY <3>1
  <2> QED
    BY <2>1, <2>2, <2>3
<1>8. SaysData(source, places, st, m, pos)
  BY <1>1, <1>5, <1>6, <1>7 DEF SaysData
<1> QED
  BY <1>8 DEF st

--------------------------------------------------------------------------
\* The image has what a line says, unless a later line has overwritten it.
LEMMA LineSays ==
  ASSUME Types, Len(places) = Len(source.lines) + 1, Seen(Len(source.lines)),
         NEW k \in 1 .. Len(source.lines), Accepted(k), SizeAt(k) > 0, Stored(outfile, k, Len(source.lines)),
         AtOf(k) + SizeAt(k) <= MemLen, ~Overwritten(source, places, k)
  PROVE  Says(source, places, k, load_mem(outfile))
<1> DEFINE ts == TokensAt(k)
           m == load_mem(outfile)
           pos == AtOf(k)
           n == Len(source.lines)
<1>1. n \in Nat /\ pos \in Nat /\ source.lines[k] \in SourceLine /\ ts = source.lines[k].tokens
  BY SourceParts, AtNat DEF TokensAt
<1>2. IsInstr(ts)
  BY NoSize DEF SizeAt
<1>3. PICK c : /\ GoodCode(k, c)
               /\ \A j \in 0 .. (SizeAt(k) - 1) :
                    AtOf(k) + j < MemLen => Covered(k, AtOf(k) + j, n) \/ load_mem(outfile)[AtOf(k) + j] = c[j]
  BY DEF Stored
<1>4. Size(ts) = SizeAt(k) /\ SizeAt(k) \in Nat
  <2>1. Size(ts) = SizeAt(k)
    BY DEF SizeAt
  <2> HIDE DEF ts
  <2>2. Size(ts) \in Nat
    BY <1>1, <1>2, InstrParts
  <2> QED
    BY <2>1, <2>2
<1>5. ASSUME NEW j \in 0 .. (SizeAt(k) - 1)
      PROVE  m[pos + j] = c[j]
  <2>1. AtOf(k) + j < MemLen
    BY <1>1, <1>4, SizesAssumption
  <2>2. ~Covered(k, AtOf(k) + j, n)
    <3> SUFFICES ASSUME Covered(k, AtOf(k) + j, n) PROVE FALSE
      OBVIOUS
    <3>1. PICK l \in (k + 1) .. n : AtOf(k) + j \in AtOf(l) .. (AtOf(l) + SizeAt(l) - 1)
      BY DEF Covered
    <3>2. AtOf(k) + j \in AtOf(k) .. (AtOf(k) + SizeAt(k) - 1)
      BY <1>1, <1>4
    <3>3. Span(source, places, l) = AtOf(l) .. (AtOf(l) + SizeAt(l) - 1) /\ Span(source, places, k) = AtOf(k) .. (AtOf(k) + SizeAt(k) - 1)
      BY DEF Span, AtOf, SizeAt, TokensAt
    <3>4. Span(source, places, l) \cap Span(source, places, k) # {}
      BY <3>1, <3>2, <3>3
    <3> QED
      BY <3>4 DEF Overwritten
  <2> QED
    BY <1>3, <2>1, <2>2
<1>6. Lies(m, pos, c, Size(ts))
  BY <1>4, <1>5 DEF Lies
<1>7. Accepts(ts, Start(ts), symbol_table)
  BY <1>2 DEF Accepted
<1>8. IsCode(ts) => CodeOf(ts, Start(ts), symbol_table, c)
  BY <1>3 DEF GoodCode
<1>9. IsData(ts) => Carries(c, 0, Width(NameOf(ts)), Value(symbol_table, ts[Start(ts) + 1]))
  BY <1>3 DEF GoodCode
<1>10. pos + Size(ts) <= MemLen /\ pos = Printed(places[k])
  BY <1>4 DEF AtOf
<1> HIDE DEF ts, m, pos
<1>11. IsCode(ts) => SaysCode(source, places, Trimmed(Statement(ts)), Fetched(m, pos, m[pos]))
  BY <1>1, <1>2, <1>6, <1>7, <1>8, <1>10, CodeSays
<1>12. IsData(ts) => SaysData(source, places, Statement(ts), m, pos)
  BY <1>1, <1>2, <1>6, <1>7, <1>9, DataSays
<1> QED
  BY <1>10, <1>11, <1>12 DEF Says, ts, m, TokensAt

\* A line fits into memory.
LEMMA SpanFits ==
  ASSUME Types, Len(places) = Len(source.lines) + 1, NEW k \in 1 .. Len(source.lines), SizeAt(k) > 0
  PROVE  Span(source, places, k) \subseteq 0 .. (MemLen - 1) <=> AtOf(k) + SizeAt(k) <= MemLen
<1>1. source.lines[k] \in SourceLine /\ TokensAt(k) = source.lines[k].tokens /\ AtOf(k) \in Nat /\ MemLen \in Nat
  BY SourceParts, AtNat, SizesAssumption DEF TokensAt
<1>2. IsInstr(TokensAt(k))
  BY NoSize DEF SizeAt
<1>3. SizeAt(k) \in Nat \ {0}
  BY <1>1, <1>2, InstrParts DEF SizeAt
<1>4. Span(source, places, k) = AtOf(k) .. (AtOf(k) + SizeAt(k) - 1)
  BY DEF Span, AtOf, SizeAt, TokensAt
<1>5. AtOf(k) + SizeAt(k) - 1 \in Span(source, places, k)
  BY <1>1, <1>3, <1>4
<1> QED
  BY <1>1, <1>3, <1>4, <1>5

\* The file of a successful run is right.
LEMMA ImageIs ==
  ASSUME IInv, Told, FileIs
  PROVE  ImageRight
<1> SUFFICES ASSUME status = "success" PROVE ImageRight
  BY DEF ImageRight
<1> DEFINE n == Len(source.lines)
           coded == {k \in DOMAIN source.lines : Size(source.lines[k].tokens) > 0}
           image == load_mem(outfile)
<1>1. Types /\ n \in Nat /\ DOMAIN source.lines = 1 .. n
  BY SourceParts DEF IInv
<1>2. pass = 2 /\ at = n + 1 /\ ~hit_error
  <2>1. pass = 2 /\ at > n /\ ~hit_error
    BY DEF Told, Ended, AtEof
  <2>2. at \in 1 .. (n + 1)
    BY <1>1 DEF Types
  <2> HIDE DEF n
  <2> QED
    BY <1>1, <2>1, <2>2
<1>3. coded = {k \in 1 .. n : SizeAt(k) > 0}
  BY <1>1 DEF SizeAt, TokensAt
<1> SUFFICES /\ Loads(outfile) <=> coded # {} /\ \A k \in coded : Span(source, Place(source), k) \subseteq 0 .. (MemLen - 1)
             /\ Loads(outfile) => \A k \in coded : Overwritten(source, Place(source), k) \/ Says(source, Place(source), k, image)
  BY DEF ImageRight
<1> HIDE DEF coded, image
<1>4. CASE LeavesErr(source)
  <2>1. n = 1 /\ TokensAt(1) = <<>>
    <3>1. n # 0
      BY <1>4 DEF LeavesErr
    <3>2. at # 1
      BY <1>1, <1>2, <3>1
    <3> QED
      BY <1>2, <1>4, <3>2 DEF Told, InErr
  <2>2. outfile = <<>>
    BY <1>4, <2>1 DEF FileIs
  <2>3. ~Loads(outfile)
    <3>1. DOMAIN <<>> = {}
      OBVIOUS
    <3> QED
      BY <2>2, <3>1 DEF Loads
  <2>4. SizeAt(1) = 0
    <3>1. ~IsInstr(TokensAt(1))
      BY <2>1 DEF IsInstr, HasName, Type
    <3> QED
      BY <3>1, NoSize DEF SizeAt
  <2>5. coded = {}
    BY <1>3, <2>1, <2>4
  <2> QED
    BY <2>3, <2>5
<1>5. CASE ~LeavesErr(source)
  <2>1. places[1] = 0 /\ Len(places) = n + 1 /\ Seen(n)
    BY <1>2, <1>5 DEF Told, Reported, IInv, SecondPass
  <2>2. \A k \in 1 .. n : Accepted(k)
    <3>1. \A k \in 1 .. (at - 1) : Accepted(k)
      BY <1>2, <1>5 DEF Told, Reported
    <3>2. at - 1 = n
      BY <1>1, <1>2
    <3> QED
      BY <3>1, <3>2
  <2>3. Place(source) = places
    BY <1>1, <2>1, PlacesAre
  <2>4. Filled(outfile, n)
    <3>1. Filled(outfile, at - 1)
      BY <1>2, <1>5 DEF FileIs
    <3>2. at - 1 = n
      BY <1>1, <1>2
    <3> QED
      BY <3>1, <3>2
  <2>5. (\E e \in DOMAIN outfile : outfile[e].bytes # <<>>) <=> coded # {}
    BY <1>3, <2>4 DEF Filled
  <2>6. \A k \in coded : Span(source, places, k) \subseteq 0 .. (MemLen - 1) <=> AtOf(k) + SizeAt(k) <= MemLen
    BY <1>1, <1>3, <2>1, SpanFits
  <2>7. Fits(outfile) <=> \A k \in coded : Span(source, places, k) \subseteq 0 .. (MemLen - 1)
    <3>1. Fits(outfile) <=> \A k \in 1 .. n : SizeAt(k) > 0 => AtOf(k) + SizeAt(k) <= MemLen
      BY <2>4 DEF Filled
    <3> QED
      BY <1>3, <2>6, <3>1
  <2>8. Loads(outfile) <=> coded # {} /\ \A k \in coded : Span(source, places, k) \subseteq 0 .. (MemLen - 1)
    BY <2>5, <2>7 DEF Loads
  <2>9. ASSUME Loads(outfile), NEW k \in coded, ~Overwritten(source, places, k)
        PROVE  Says(source, places, k, image)
    <3>1. k \in 1 .. n /\ SizeAt(k) > 0
      BY <1>3
    <3>2. AtOf(k) + SizeAt(k) <= MemLen
      BY <2>6, <2>8, <2>9
    <3>3. Stored(outfile, k, n)
      BY <2>4, <3>1 DEF Filled
    <3> QED
      BY <1>1, <2>1, <2>2, <2>9, <3>1, <3>2, <3>3, LineSays DEF image
  <2> QED
    BY <2>3, <2>8, <2>9
<1> QED
  BY <1>4, <1>5

\* After a successful run the simulators load the file, unless it has no code or
\* leaves their memory, and fetch from it what the lines say (yas.c, isa.c:195).
THEOREM ImagesAreRight == Spec => []ImageRight
<1>1. Init => FileIs
  BY FileInit
<1>2. IInv /\ IInv' /\ Told /\ FileIs /\ [Next]_vars => FileIs'
  <2> SUFFICES ASSUME IInv, Told, FileIs, [Next]_vars PROVE FileIs'
    OBVIOUS
  <2>1. CASE LineNext
    BY <2>1, FileLine
  <2>2. CASE EndOfPass
    BY <2>2, FileEnd
  <2>3. CASE UNCHANGED vars
    BY <2>3, FileStutter
  <2> QED
    BY <2>1, <2>2, <2>3 DEF Next, LineNext
<1>3. IInv /\ Told /\ FileIs => ImageRight
  BY ImageIs
<1> QED
  BY <1>1, <1>2, <1>3, ReportsAreRight, PTL DEF Spec
============================================================================
