----------------------------- MODULE CsimProofs -----------------------------
(***************************************************************************)
(* Proofs about the cache simulator, for every geometry and every trace.   *)
(*                                                                         *)
(* KeepsMostRecent is about blocks and says nothing of lines, so it is not *)
(* inductive.  IInv relates the two: a valid line holds one block of the   *)
(* trace and its LRUTag is the time that block was used last; no block is  *)
(* in two lines; no two uses have the same time.                           *)
(***************************************************************************)
EXTENDS Csim, FiniteSetTheorems, WellFoundedInduction, TLAPS

\* The block line i of set k has the tag of.
BlockOf(k, i) == Cache_Mem[k][i].Tag * S + k

\* A valid line holds a block of the trace and is stamped with its last use.
LinesStamped ==
  \A k \in Sets, i \in Lines : Cache_Mem[k][i].Valid =>
    /\ BlockOf(k, i) \in Blocks
    /\ Cache_Mem[k][i].LRUTag = last[BlockOf(k, i)]
    /\ Cache_Mem[k][i].LRUTag > 0

OneLinePerBlock ==
  \A k \in Sets : \A i, j \in Lines :
    /\ Cache_Mem[k][i].Valid /\ Cache_Mem[k][j].Valid
    /\ Cache_Mem[k][i].Tag = Cache_Mem[k][j].Tag
    => i = j

UseTimes ==
  /\ \A x \in Blocks : last[x] =< Cache_clock
  /\ \A x, y \in Blocks : last[x] = last[y] /\ last[x] > 0 => x = y

InLine(y) == \E i \in Lines : Holds(y % S, i, y)

\* KeepsMostRecent, line by line.
MostRecentByLine ==
  \A y \in Blocks :
    \/ InLine(y)
    \/ /\ \A i \in Lines : Cache_Mem[y % S][i].Valid =>
                             last[y] < Cache_Mem[y % S][i].LRUTag
       /\ last[y] > 0 => \A i \in Lines : Cache_Mem[y % S][i].Valid

IInv == TypeOK /\ LinesStamped /\ OneLinePerBlock /\ UseTimes
          /\ MostRecentByLine /\ CountsAgree

-----------------------------------------------------------------------------
(***************************************************************************)
(* How an address is taken apart.                                          *)
(***************************************************************************)

\* An integer determines its quotient and remainder.
LEMMA QuotientUnique ==
  ASSUME NEW m \in Nat \ {0}, NEW t \in Int, NEW k \in 0 .. m - 1
  PROVE  (t * m + k) % m = k /\ (t * m + k) \div m = t
OBVIOUS

\* A number is made of its quotient and its remainder.
LEMMA DivMod ==
  ASSUME NEW m \in Nat \ {0}, NEW x \in Nat
  PROVE  /\ x % m \in 0 .. m - 1
         /\ x \div m \in Nat
         /\ x = (x \div m) * m + (x % m)
OBVIOUS

\* Shifting twice is shifting by the sum.
LEMMA DivDiv ==
  ASSUME NEW m \in Nat \ {0}, NEW n \in Nat \ {0}, NEW x \in Nat
  PROVE  x \div (m * n) = (x \div m) \div n
OBVIOUS

\* Set index and tag of an address make up the block it is in, and nothing
\* else does.
LEMMA AddressParts ==
  ASSUME NEW l \in Locations
  PROVE  /\ Block(l) \in Blocks /\ Block(l) \in Nat
         /\ Set_id(l) \in Sets /\ Set_id(l) = Block(l) % S
         /\ Tag(l) \in Nat
         /\ Tag(l) * S + Set_id(l) = Block(l)
<1>1. l \in Nat /\ S \in Nat \ {0} /\ B \in Nat \ {0}
  BY GeometryAssumption, LocationsAssumption
<1>2. l \div B \in Nat
  BY <1>1, DivMod
<1>3. Tag(l) = (l \div B) \div S
  BY <1>1, DivDiv DEF Tag
<1>. QED BY <1>1, <1>2, <1>3, DivMod DEF Block, Blocks, Set_id, Sets

\* The blocks of the trace are numbers, and each has a set.
LEMMA BlocksAreNumbers ==
  ASSUME NEW x \in Blocks
  PROVE  x \in Nat /\ x % S \in Sets
BY AddressParts DEF Blocks

\* Tags of one set are equal when the blocks are; the block gives the set.
LEMMA TagsOfSet ==
  ASSUME NEW k \in Sets, NEW t \in Int, NEW u \in Int
  PROVE  (t * S + k = u * S + k => t = u) /\ (t * S + k) % S = k
<1>1. S \in Nat \ {0}
  BY GeometryAssumption
<1>2. (t * S + k) \div S = t /\ (u * S + k) \div S = u /\ (t * S + k) % S = k
  BY <1>1, QuotientUnique DEF Sets
<1>. QED BY <1>2

-----------------------------------------------------------------------------
(***************************************************************************)
(* Choosing a line.                                                        *)
(***************************************************************************)

\* Every nonempty set of natural numbers has a least element.
LEMMA NatHasLeast ==
  ASSUME NEW T, T \subseteq Nat, T # {}
  PROVE  \E x \in T : \A y \in T : x =< y
<1>1. PICK x \in T : \A y \in T : ~ (<<y, x>> \in OpToRel(<, Nat))
  BY NatLessThanWellFounded, WFMin
<1>2. ASSUME NEW y \in T PROVE x =< y
  <2>1. x \in Nat /\ y \in Nat
    OBVIOUS
  <2>2. y < x => <<y, x>> \in OpToRel(<, Nat)
    BY <2>1 DEF OpToRel
  <2>3. ~(y < x)
    BY <1>1, <2>2, Zenon
  <2>. QED BY <2>1, <2>3
<1>. QED BY <1>2

\* The first of a nonempty set of lines is one of them.
LEMMA MinOfLines ==
  ASSUME NEW T, T \subseteq Lines, T # {}
  PROVE  Min(T) \in T
<1>1. T \subseteq Nat
  BY GeometryAssumption DEF Lines
<1>2. \E x \in T : \A y \in T : x =< y
  BY <1>1, NatHasLeast
<1>. QED BY <1>2 DEF Min

\* In a set whose lines are all valid there is an oldest one.
LEMMA OldestExists ==
  ASSUME TypeOK, LinesStamped, NEW k \in Sets, Invalid(k) = {}
  PROVE  /\ Oldest(k) \in Lines
         /\ \A j \in Lines :
              Cache_Mem[k][Oldest(k)].LRUTag =< Cache_Mem[k][j].LRUTag
<1>. DEFINE Stamps == {Cache_Mem[k][i].LRUTag : i \in Lines}
            Olds == {i \in Lines : \A j \in Lines :
                       Cache_Mem[k][i].LRUTag <= Cache_Mem[k][j].LRUTag}
<1>1. \A i \in Lines : Cache_Mem[k][i].LRUTag \in Nat
  BY DEF TypeOK, Line, LinesStamped, Invalid
<1>2. 0 \in Lines
  BY GeometryAssumption DEF Lines
<1>3. Stamps \subseteq Nat /\ Stamps # {}
  BY <1>1, <1>2
<1>4. PICK m \in Stamps : \A n \in Stamps : m =< n
  BY <1>3, NatHasLeast
<1>5. Olds # {} /\ Olds \subseteq Lines
  BY <1>4
<1>6. Oldest(k) \in Olds
  <2>. HIDE DEF Olds
  <2>1. Min(Olds) \in Olds
    BY <1>5, MinOfLines
  <2>. QED BY <2>1 DEF Oldest, Olds
<1>. QED BY <1>6

-----------------------------------------------------------------------------
(***************************************************************************)
(* One use of memory.                                                      *)
(***************************************************************************)

\* What a hit, a fill and an eviction have in common: line j of set k is
\* stamped for block x, whose tag is t.
Stamped(k, j, t, x) ==
  /\ x = t * S + k /\ x % S = k
  /\ Cache_clock' = Cache_clock + 1
  /\ last' = [last EXCEPT ![x] = Cache_clock + 1]
  /\ Cache_Mem' = [Cache_Mem EXCEPT ![k][j] =
       [Valid |-> TRUE, LRUTag |-> Cache_clock + 1, Tag |-> t]]

\* Line j has the tag already; or it is invalid; or all lines are valid and it
\* is the oldest.
LineHit(k, j, t) == Cache_Mem[k][j].Valid /\ Cache_Mem[k][j].Tag = t

LineMiss(k, t) ==
  \A i \in Lines : Cache_Mem[k][i].Valid => Cache_Mem[k][i].Tag # t

LineFilled(k, j, t) == LineMiss(k, t) /\ ~Cache_Mem[k][j].Valid

LineEvicted(k, j, t) ==
  /\ LineMiss(k, t)
  /\ \A i \in Lines : /\ Cache_Mem[k][i].Valid
                      /\ Cache_Mem[k][j].LRUTag =< Cache_Mem[k][i].LRUTag

\* Every use stamps one line, chosen in one of the three ways.
LEMMA UsageStamps ==
  ASSUME TypeOK, LinesStamped, Cache_Usage
  PROVE  \E k \in Sets, j \in Lines, t \in Nat, x \in Blocks :
           /\ Stamped(k, j, t, x)
           /\ \/ /\ LineHit(k, j, t)
                 /\ hit_count' = hit_count + 1
                 /\ UNCHANGED <<miss_count, evict_count>>
              \/ /\ LineFilled(k, j, t)
                 /\ miss_count' = miss_count + 1
                 /\ UNCHANGED <<hit_count, evict_count>>
              \/ /\ LineEvicted(k, j, t)
                 /\ miss_count' = miss_count + 1
                 /\ evict_count' = evict_count + 1
                 /\ UNCHANGED hit_count
<1>. DEFINE l == Head(todo)
<1>1. l \in Locations
  BY DEF TypeOK, Cache_Usage
<1>2. PICK k \in Sets, t \in Nat, x \in Blocks :
        /\ k = Set_id(l) /\ t = Tag(l) /\ x = Block(l)
        /\ x = t * S + k /\ x % S = k
  BY <1>1, AddressParts
<1>3. /\ Cache_clock' = Cache_clock + 1
      /\ last' = [last EXCEPT ![x] = Cache_clock + 1]
      /\ Hit(k, t) \/ Fill(k, t) \/ Evict(k, t)
  BY <1>2 DEF Cache_Usage
<1>4. ASSUME NEW j, Stamp(k, j, t) PROVE Stamped(k, j, t, x)
  BY <1>2, <1>3, <1>4 DEF Stamp, Stamped
<1>5. Matching(k, t) \subseteq Lines /\ Invalid(k) \subseteq Lines
  BY DEF Matching, Invalid
<1>6. CASE Hit(k, t)
  <2>1. Min(Matching(k, t)) \in Matching(k, t)
    BY <1>5, <1>6, MinOfLines DEF Hit
  <2>2. PICK j \in Lines : j = Min(Matching(k, t)) /\ LineHit(k, j, t)
    BY <2>1 DEF Matching, LineHit
  <2>3. Stamped(k, j, t, x)
    BY <1>4, <1>6, <2>2 DEF Hit
  <2>. QED BY <1>6, <2>2, <2>3 DEF Hit
<1>7. Matching(k, t) = {} => LineMiss(k, t)
  BY DEF Matching, LineMiss
<1>8. CASE Fill(k, t)
  <2>1. Min(Invalid(k)) \in Invalid(k)
    BY <1>5, <1>8, MinOfLines DEF Fill
  <2>2. PICK j \in Lines : j = Min(Invalid(k)) /\ LineFilled(k, j, t)
    BY <1>7, <1>8, <2>1 DEF Invalid, LineFilled, Fill
  <2>3. Stamped(k, j, t, x)
    BY <1>4, <1>8, <2>2 DEF Fill
  <2>. QED BY <1>8, <2>2, <2>3 DEF Fill
<1>9. CASE Evict(k, t)
  <2>1. /\ Oldest(k) \in Lines
        /\ \A i \in Lines :
             Cache_Mem[k][Oldest(k)].LRUTag =< Cache_Mem[k][i].LRUTag
    BY <1>9, OldestExists DEF Evict
  <2>2. PICK j \in Lines : j = Oldest(k) /\ LineEvicted(k, j, t)
    BY <1>7, <1>9, <2>1 DEF Invalid, LineEvicted, Evict
  <2>3. Stamped(k, j, t, x)
    BY <1>4, <1>9, <2>2 DEF Evict
  <2>. QED BY <1>9, <2>2, <2>3 DEF Evict
<1>. QED BY <1>3, <1>6, <1>8, <1>9

\* The invariant about lines after line j of set k was stamped.
LEMMA StampedInv ==
  ASSUME IInv, NEW k \in Sets, NEW j \in Lines, NEW t \in Nat, NEW x \in Blocks,
         Stamped(k, j, t, x),
         LineHit(k, j, t) \/ LineFilled(k, j, t) \/ LineEvicted(k, j, t)
  PROVE  /\ Cache_Mem' \in [Sets -> [Lines -> Line]]
         /\ Cache_clock' \in Nat /\ last' \in [Blocks -> Nat]
         /\ LinesStamped' /\ OneLinePerBlock' /\ UseTimes' /\ MostRecentByLine'
<1>. USE DEF IInv
<1>. DEFINE now == Cache_clock + 1
<1>1. /\ Cache_clock \in Nat /\ last \in [Blocks -> Nat]
      /\ Cache_Mem \in [Sets -> [Lines -> Line]]
      /\ x = t * S + k /\ x % S = k
  BY DEF TypeOK, Stamped
<1>2. /\ Cache_Mem' \in [Sets -> [Lines -> Line]]
      /\ Cache_Mem'[k][j] = [Valid |-> TRUE, LRUTag |-> now, Tag |-> t]
      /\ \A m \in Sets, i \in Lines :
           m # k \/ i # j => Cache_Mem'[m][i] = Cache_Mem[m][i]
  BY <1>1 DEF Stamped, Line
<1>3. /\ last' \in [Blocks -> Nat] /\ Cache_clock' = now /\ now \in Nat
      /\ last'[x] = now
      /\ \A y \in Blocks : y # x => last'[y] = last[y]
      /\ \A y \in Blocks : last[y] < now
  BY <1>1 DEF Stamped, UseTimes
\* Only line j of set k can have held x, and only if it was a hit.
<1>4. \A i \in Lines : Cache_Mem[k][i].Valid /\ Cache_Mem[k][i].Tag = t => i = j
  BY DEF LineHit, LineFilled, LineEvicted, LineMiss, OneLinePerBlock
<1>5. ASSUME NEW m \in Sets, NEW i \in Lines, m # k \/ i # j, Cache_Mem[m][i].Valid
      PROVE  /\ BlockOf(m, i)' = BlockOf(m, i) /\ BlockOf(m, i) # x
             /\ BlockOf(m, i) \in Blocks /\ BlockOf(m, i) % S = m
  <2>1. Cache_Mem[m][i].Tag \in Int
    BY <1>1 DEF Line
  <2>2. BlockOf(m, i) % S = m
    BY <2>1, TagsOfSet DEF BlockOf
  <2>3. CASE m = k
    <3>1. Cache_Mem[m][i].Tag # t
      BY <1>4, <1>5, <2>3
    <3>. QED BY <1>1, <1>2, <1>5, <2>1, <2>2, <2>3, <3>1, TagsOfSet
             DEF BlockOf, LinesStamped
  <2>. QED BY <1>1, <1>2, <1>5, <2>2, <2>3 DEF BlockOf, LinesStamped
<1>6. LinesStamped'
  <2>. SUFFICES ASSUME NEW m \in Sets, NEW i \in Lines, Cache_Mem'[m][i].Valid
                PROVE  /\ BlockOf(m, i)' \in Blocks
                       /\ Cache_Mem'[m][i].LRUTag = last'[BlockOf(m, i)']
                       /\ Cache_Mem'[m][i].LRUTag > 0
    BY DEF LinesStamped
  <2>1. CASE m = k /\ i = j
    BY <1>1, <1>2, <1>3, <2>1 DEF BlockOf
  <2>2. CASE m # k \/ i # j
    BY <1>2, <1>3, <1>5, <2>2 DEF LinesStamped
  <2>. QED BY <2>1, <2>2
<1>7. OneLinePerBlock'
  <2>. SUFFICES ASSUME NEW m \in Sets, NEW h \in Lines, NEW i \in Lines,
                       Cache_Mem'[m][h].Valid, Cache_Mem'[m][i].Valid,
                       Cache_Mem'[m][h].Tag = Cache_Mem'[m][i].Tag
                PROVE  h = i
    BY DEF OneLinePerBlock
  <2>. QED BY <1>2, <1>4 DEF OneLinePerBlock
<1>8. UseTimes'
  BY <1>3 DEF UseTimes
<1>9. MostRecentByLine'
  <2>. SUFFICES ASSUME NEW y \in Blocks, ~InLine(y)'
                PROVE  /\ \A i \in Lines : Cache_Mem'[y % S][i].Valid =>
                                   last'[y] < Cache_Mem'[y % S][i].LRUTag
                       /\ last'[y] > 0 => \A i \in Lines : Cache_Mem'[y % S][i].Valid
    BY DEF MostRecentByLine
  <2>1. y % S \in Sets
    BY BlocksAreNumbers
  <2>2. Holds(k, j, x)'
    BY <1>1, <1>2 DEF Holds
  <2>3. y # x
    BY <1>1, <2>2 DEF InLine
  <2>4. last'[y] = last[y] /\ last[y] \in Nat
    BY <1>1, <1>3, <2>3
  \* The only block that is not held any more is the one evicted from line j.
  <2>5. ASSUME NEW i \in Lines, Holds(y % S, i, y)
        PROVE  y % S = k /\ i = j
    <3>1. ~Holds(y % S, i, y)'
      BY DEF InLine
    <3>. QED BY <1>2, <2>1, <2>5, <3>1 DEF Holds
  <2>6. CASE y % S # k
    BY <1>2, <2>1, <2>4, <2>5, <2>6 DEF MostRecentByLine, InLine
  <2>7. CASE y % S = k /\ ~InLine(y)
    <3>1. /\ \A i \in Lines : Cache_Mem[k][i].Valid => last[y] < Cache_Mem[k][i].LRUTag
          /\ last[y] > 0 => \A i \in Lines : Cache_Mem[k][i].Valid
      BY <2>7 DEF MostRecentByLine
    <3>2. ASSUME NEW i \in Lines
          PROVE  /\ Cache_Mem'[k][i].Valid => last[y] < Cache_Mem'[k][i].LRUTag
                 /\ last[y] > 0 => Cache_Mem'[k][i].Valid
      <4>1. CASE i = j
        BY <1>2, <1>3, <4>1
      <4>2. CASE i # j
        BY <1>2, <3>1, <4>2
      <4>. QED BY <4>1, <4>2
    <3>. QED BY <2>4, <2>7, <3>2
  <2>8. CASE y % S = k /\ InLine(y)
    <3>1. Holds(k, j, y)
      BY <2>5, <2>8 DEF InLine
    <3>2. last[y] = Cache_Mem[k][j].LRUTag /\ Cache_Mem[k][j].Valid
      BY <3>1 DEF Holds, LinesStamped, BlockOf
    <3>3. LineEvicted(k, j, t)
      BY <1>1, <2>3, <3>1, <3>2 DEF LineHit, LineFilled, Holds
    <3>4. ASSUME NEW i \in Lines, i # j PROVE last[y] < Cache_Mem[k][i].LRUTag
      <4>1. /\ last[y] =< Cache_Mem[k][i].LRUTag /\ Cache_Mem[k][i].Valid
            /\ Cache_Mem[k][i].LRUTag = last[BlockOf(k, i)]
            /\ BlockOf(k, i) \in Blocks
        BY <3>2, <3>3 DEF LineEvicted, LinesStamped
      <4>2. Cache_Mem[k][i].Tag # Cache_Mem[k][j].Tag
        BY <3>2, <3>4, <4>1 DEF OneLinePerBlock
      <4>3. BlockOf(k, i) # y
        BY <1>1, <3>1, <4>2, TagsOfSet DEF BlockOf, Holds, Line
      <4>4. last[y] > 0
        BY <3>2 DEF LinesStamped
      <4>5. last[BlockOf(k, i)] \in Nat /\ last[BlockOf(k, i)] # last[y]
        BY <1>1, <4>1, <4>3, <4>4 DEF UseTimes
      <4>. QED BY <2>4, <4>1, <4>5
    <3>. QED BY <1>2, <1>3, <2>1, <2>4, <2>8, <3>3, <3>4 DEF LineEvicted
  <2>. QED BY <2>6, <2>7, <2>8
<1>. QED BY <1>2, <1>3, <1>6, <1>7, <1>8, <1>9

\* There are finitely many lines.
LEMMA FinitelyManyLines == IsFiniteSet(ValidLines)
<1>1. IsFiniteSet(Sets) /\ IsFiniteSet(Lines)
  <2>1. S - 1 \in Int /\ E - 1 \in Int /\ 0 \in Int
    BY GeometryAssumption
  <2>2. IsFiniteSet(0 .. S - 1) /\ IsFiniteSet(0 .. E - 1)
    BY <2>1, FS_Interval
  <2>. QED BY <2>2 DEF Sets, Lines
<1>2. IsFiniteSet(Sets \X Lines)
  BY <1>1, FS_Product
<1>3. ValidLines \subseteq Sets \X Lines
  BY DEF ValidLines
<1>. QED BY <1>2, <1>3, FS_Subset

\* Only a fill makes another line valid.
LEMMA StampedValidLines ==
  ASSUME TypeOK, NEW k \in Sets, NEW j \in Lines, NEW t \in Nat, NEW x,
         Stamped(k, j, t, x)
  PROVE  ValidLines' = ValidLines \union {<<k, j>>}
<1>1. \A m \in Sets, i \in Lines :
        Cache_Mem'[m][i].Valid <=> Cache_Mem[m][i].Valid \/ (m = k /\ i = j)
  BY DEF TypeOK, Stamped, Line
<1>. QED BY <1>1 DEF ValidLines

\* The summary still adds up after a use.
LEMMA UsageCounts ==
  ASSUME IInv, NEW k \in Sets, NEW j \in Lines, NEW t \in Nat, NEW x,
         Stamped(k, j, t, x),
         \/ /\ LineHit(k, j, t)
            /\ hit_count' = hit_count + 1
            /\ UNCHANGED <<miss_count, evict_count>>
         \/ /\ LineFilled(k, j, t)
            /\ miss_count' = miss_count + 1
            /\ UNCHANGED <<hit_count, evict_count>>
         \/ /\ LineEvicted(k, j, t)
            /\ miss_count' = miss_count + 1
            /\ evict_count' = evict_count + 1
            /\ UNCHANGED hit_count
  PROVE  /\ hit_count' \in Nat /\ miss_count' \in Nat /\ evict_count' \in Nat
         /\ CountsAgree'
<1>1. /\ hit_count \in Nat /\ miss_count \in Nat /\ evict_count \in Nat
      /\ Cache_clock \in Nat /\ Cache_clock' = Cache_clock + 1
      /\ hit_count + miss_count = Cache_clock
      /\ miss_count - evict_count = Cardinality(ValidLines)
  BY DEF IInv, TypeOK, CountsAgree, Stamped
<1>2. ValidLines' = ValidLines \union {<<k, j>>}
  BY StampedValidLines DEF IInv
<1>3. IsFiniteSet(ValidLines) /\ Cardinality(ValidLines) \in Nat
  BY FinitelyManyLines, FS_CardinalityType
<1>4. <<k, j>> \in ValidLines <=> Cache_Mem[k][j].Valid
  BY DEF ValidLines
<1>5. CASE Cache_Mem[k][j].Valid
  <2>1. ValidLines' = ValidLines
    BY <1>2, <1>4, <1>5
  <2>2. hit_count' + miss_count' = Cache_clock'
        /\ miss_count' - evict_count' = Cardinality(ValidLines)
    BY <1>1, <1>5 DEF LineFilled
  <2>. QED BY <1>1, <2>1, <2>2 DEF CountsAgree
<1>6. CASE ~Cache_Mem[k][j].Valid
  <2>1. Cardinality(ValidLines') = Cardinality(ValidLines) + 1
    BY <1>2, <1>3, <1>4, <1>6, FS_AddElement
  <2>2. LineFilled(k, j, t)
    BY <1>6 DEF LineHit, LineEvicted
  <2>3. /\ miss_count' = miss_count + 1 /\ hit_count' = hit_count
        /\ evict_count' = evict_count
    BY <1>6 DEF LineHit, LineEvicted
  <2>4. hit_count' + miss_count' = Cache_clock'
        /\ miss_count' - evict_count' = Cardinality(ValidLines')
    BY <1>1, <1>3, <2>1, <2>3
  <2>. QED BY <1>1, <2>3, <2>4 DEF CountsAgree
<1>. QED BY <1>5, <1>6

-----------------------------------------------------------------------------
(***************************************************************************)
(* The theorems.                                                           *)
(***************************************************************************)

\* The invariant holds of the empty cache, whatever is in its lines.
LEMMA InitInv == Init => IInv
<1>. SUFFICES ASSUME Init PROVE IInv
  OBVIOUS
<1>1. TypeOK
  <2>1. Cache_Mem \in [Sets -> [Lines -> Line]]
    <3>. DEFINE Cleared == [Valid : {FALSE}, LRUTag : Garbage, Tag : Garbage]
    <3>1. Cleared \subseteq Line
      BY GarbageAssumption DEF Line
    <3>2. Cache_Mem \in [Sets -> [Lines -> Cleared]]
      BY DEF Init
    <3>. HIDE DEF Cleared
    <3>. QED BY <3>1, <3>2
  <2>. QED BY <2>1 DEF Init, TypeOK
<1>2. \A k \in Sets, i \in Lines : ~Cache_Mem[k][i].Valid
  BY DEF Init
<1>3. \A x \in Blocks : last[x] = 0
  BY DEF Init
<1>4. ValidLines = {}
  BY <1>2 DEF ValidLines
<1>5. Cardinality(ValidLines) = 0
  BY <1>4, FS_EmptySet
<1>6. CountsAgree
  BY <1>5 DEF Init, CountsAgree
<1>7. LinesStamped /\ OneLinePerBlock
  BY <1>2 DEF LinesStamped, OneLinePerBlock
<1>8. UseTimes /\ MostRecentByLine
  BY <1>2, <1>3, BlocksAreNumbers DEF UseTimes, MostRecentByLine, Init
<1>. QED BY <1>1, <1>6, <1>7, <1>8 DEF IInv

\* Reading a trace line leaves the cache alone.
LEMMA ReadLineInv ==
  ASSUME IInv, NEW type \in DOMAIN Times, NEW l \in Locations, ReadLine(type, l)
  PROVE  IInv'
<1>1. Uses(type, l) \in Seq(Locations)
  BY DEF Uses, Times
<1>2. TypeOK'
  BY <1>1 DEF IInv, TypeOK, ReadLine, counts
<1>. QED BY <1>2 DEF IInv, ReadLine, counts, LinesStamped, OneLinePerBlock,
         UseTimes, MostRecentByLine, CountsAgree, ValidLines, InLine, Holds, BlockOf

\* Cache_Usage preserves the invariant.
LEMMA UsageInv ==
  ASSUME IInv, Cache_Usage
  PROVE  IInv'
<1>1. PICK k \in Sets, j \in Lines, t \in Nat, x \in Blocks :
        /\ Stamped(k, j, t, x)
        /\ \/ /\ LineHit(k, j, t)
              /\ hit_count' = hit_count + 1
              /\ UNCHANGED <<miss_count, evict_count>>
           \/ /\ LineFilled(k, j, t)
              /\ miss_count' = miss_count + 1
              /\ UNCHANGED <<hit_count, evict_count>>
           \/ /\ LineEvicted(k, j, t)
              /\ miss_count' = miss_count + 1
              /\ evict_count' = evict_count + 1
              /\ UNCHANGED hit_count
  BY UsageStamps DEF IInv
<1>2. /\ Cache_Mem' \in [Sets -> [Lines -> Line]]
      /\ Cache_clock' \in Nat /\ last' \in [Blocks -> Nat]
      /\ LinesStamped' /\ OneLinePerBlock' /\ UseTimes' /\ MostRecentByLine'
  BY <1>1, StampedInv
<1>3. /\ hit_count' \in Nat /\ miss_count' \in Nat /\ evict_count' \in Nat
      /\ CountsAgree'
  BY <1>1, UsageCounts
<1>4. todo' \in Seq(Locations)
  BY DEF Cache_Usage, IInv, TypeOK
<1>. QED BY <1>2, <1>3, <1>4 DEF IInv, TypeOK

\* IInv is an invariant of the simulator.
THEOREM Invariance == Spec => []IInv
<1>1. IInv /\ [Next]_vars => IInv'
  <2>. SUFFICES ASSUME IInv, [Next]_vars PROVE IInv'
    OBVIOUS
  <2>1. ASSUME NEW type \in DOMAIN Times, NEW l \in Locations,
               ReadLine(type, l)
        PROVE  IInv'
    BY <2>1, ReadLineInv
  <2>2. CASE Cache_Usage
    BY <2>2, UsageInv
  <2>3. CASE UNCHANGED vars
    BY <2>3 DEF vars, counts, IInv, TypeOK, LinesStamped, OneLinePerBlock,
       UseTimes, MostRecentByLine, CountsAgree, ValidLines, InLine, Holds, BlockOf
  <2>. QED BY <2>1, <2>2, <2>3 DEF Next
<1>. QED BY InitInv, <1>1, PTL DEF Spec

\* Every variable keeps its type; the counters in particular never go below
\* zero.
THEOREM TypeCorrect == Spec => []TypeOK
<1>1. IInv => TypeOK
  BY DEF IInv
<1>. QED BY Invariance, <1>1, PTL

\* What the simulator reports adds up, for any geometry and any trace.
THEOREM CountsRight == Spec => []CountsAgree
<1>1. IInv => CountsAgree
  BY DEF IInv
<1>. QED BY Invariance, <1>1, PTL

\* The simulated cache holds the most recently used blocks, for any geometry
\* and any trace: this is what makes it a least recently used cache.
THEOREM MostRecentKept == Spec => []KeepsMostRecent
<1>1. IInv => KeepsMostRecent
  <2>. SUFFICES ASSUME IInv, NEW y \in Blocks \ Held
                PROVE  /\ \A x \in Held : x % S = y % S => last[y] < last[x]
                       /\ last[y] # 0 => Invalid(y % S) = {}
    BY DEF KeepsMostRecent
  <2>1. y % S \in Sets /\ last[y] \in Nat
    BY BlocksAreNumbers DEF IInv, TypeOK
  <2>2. ~InLine(y)
    BY <2>1 DEF InLine, Held
  <2>3. /\ \A i \in Lines : Cache_Mem[y % S][i].Valid =>
                              last[y] < Cache_Mem[y % S][i].LRUTag
        /\ last[y] > 0 => \A i \in Lines : Cache_Mem[y % S][i].Valid
    BY <2>2 DEF IInv, MostRecentByLine
  <2>4. ASSUME NEW x \in Held, x % S = y % S PROVE last[y] < last[x]
    <3>1. PICK k \in Sets, i \in Lines : Holds(k, i, x)
      BY DEF Held
    <3>2. Cache_Mem[k][i].Tag \in Int
      BY DEF IInv, TypeOK, Line
    <3>3. k = y % S
      BY <2>4, <3>1, <3>2, TagsOfSet DEF Holds
    <3>4. Cache_Mem[k][i].Valid /\ Cache_Mem[k][i].LRUTag = last[x]
      BY <3>1 DEF IInv, LinesStamped, BlockOf, Holds
    <3>. QED BY <2>3, <3>3, <3>4
  <2>5. ASSUME last[y] # 0 PROVE Invalid(y % S) = {}
    BY <2>1, <2>3, <2>5 DEF Invalid
  <2>. QED BY <2>4, <2>5
<1>. QED BY Invariance, <1>1, PTL

-----------------------------------------------------------------------------
(***************************************************************************)
(* The simulator implements the least recently used cache.                 *)
(***************************************************************************)

ValidIn(k) == {i \in Lines : Cache_Mem[k][i].Valid}

HeldIn(k) == {y \in Held : y % S = k}

\* The blocks that are held are those of the valid lines of their sets ...
LEMMA HeldByLine ==
  ASSUME IInv, NEW k \in Sets
  PROVE  /\ \A i \in ValidIn(k) : BlockOf(k, i) \in HeldIn(k)
         /\ \A y \in HeldIn(k) : \E i \in ValidIn(k) : BlockOf(k, i) = y
         /\ \A i, j \in ValidIn(k) : BlockOf(k, i) = BlockOf(k, j) => i = j
<1>1. \A m \in Sets, i \in Lines : Cache_Mem[m][i].Tag \in Int /\ BlockOf(m, i) % S = m
  <2> TAKE m \in Sets, i \in Lines
  <2>1. Cache_Mem[m][i].Tag \in Int
    BY DEF IInv, TypeOK, Line
  <2>. QED BY <2>1, TagsOfSet DEF BlockOf
<1>2. ASSUME NEW i \in ValidIn(k) PROVE BlockOf(k, i) \in HeldIn(k)
  <2>1. i \in Lines /\ Holds(k, i, BlockOf(k, i)) /\ BlockOf(k, i) \in Blocks
    BY <1>2 DEF ValidIn, Holds, BlockOf, IInv, LinesStamped
  <2>. QED BY <1>1, <2>1 DEF Held, HeldIn
<1>3. ASSUME NEW y \in HeldIn(k) PROVE \E i \in ValidIn(k) : BlockOf(k, i) = y
  <2>1. PICK m \in Sets, i \in Lines : Holds(m, i, y)
    BY <1>3 DEF HeldIn, Held
  <2>2. m = k
    BY <1>1, <1>3, <2>1 DEF Holds, BlockOf, HeldIn
  <2>. QED BY <2>1, <2>2 DEF Holds, ValidIn, BlockOf
<1>4. ASSUME NEW i \in ValidIn(k), NEW j \in ValidIn(k), BlockOf(k, i) = BlockOf(k, j)
      PROVE  i = j
  <2>1. Cache_Mem[k][i].Tag = Cache_Mem[k][j].Tag
    BY <1>1, <1>4, TagsOfSet DEF BlockOf, ValidIn
  <2>. QED BY <2>1 DEF ValidIn, IInv, OneLinePerBlock
<1>. QED BY <1>2, <1>3, <1>4

\* ... and as many.
LEMMA HeldCardinality ==
  ASSUME IInv, NEW k \in Sets
  PROVE  /\ Cardinality(HeldIn(k)) = Cardinality(ValidIn(k))
         /\ ValidIn(k) = Lines => Cardinality(ValidIn(k)) = E
         /\ ValidIn(k) # Lines => Cardinality(ValidIn(k)) < E
<1>1. IsFiniteSet(Lines) /\ Cardinality(Lines) = E
  <2>1. E \in Nat /\ E > 0 /\ 0 \in Int /\ E - 1 \in Int
    BY GeometryAssumption
  <2>2. IsFiniteSet(0 .. E - 1) /\ Cardinality(0 .. E - 1) = E
    BY <2>1, FS_Interval
  <2>. QED BY <2>2 DEF Lines
<1>2. ValidIn(k) \in SUBSET Lines
  BY DEF ValidIn
<1>3. /\ IsFiniteSet(ValidIn(k)) /\ Cardinality(ValidIn(k)) <= E
      /\ E = Cardinality(ValidIn(k)) => Lines = ValidIn(k)
  BY <1>1, <1>2, FS_Subset
<1>4. Cardinality(ValidIn(k)) \in Nat /\ E \in Nat
  BY <1>3, FS_CardinalityType, GeometryAssumption
<1>5. Cardinality(HeldIn(k)) = Cardinality(ValidIn(k))
  <2>. DEFINE f == [i \in ValidIn(k) |-> BlockOf(k, i)]
  <2>1. f \in Bijection(ValidIn(k), HeldIn(k))
    BY HeldByLine DEF Bijection, Injection, Surjection, IsInjective
  <2>2. ExistsBijection(ValidIn(k), HeldIn(k))
    BY <2>1, Zenon DEF ExistsBijection
  <2>. QED BY <1>3, <2>2, FS_Bijection
<1>. QED BY <1>1, <1>3, <1>4, <1>5

\* What a use does to the blocks that are held: the block of the line that was
\* stamped goes, if there was one, and the block that was used is there.
LEMMA HeldAfter ==
  ASSUME IInv, NEW k \in Sets, NEW j \in Lines, NEW t \in Nat, NEW x \in Blocks,
         Stamped(k, j, t, x)
  PROVE  Held' = (IF Cache_Mem[k][j].Valid THEN Held \ {BlockOf(k, j)} ELSE Held) \cup {x}
<1>1. /\ Cache_Mem \in [Sets -> [Lines -> Line]] /\ x = t * S + k /\ x % S = k
      /\ \A m \in Sets, i \in Lines : Cache_Mem[m][i].Tag \in Int
  BY DEF IInv, TypeOK, Line, Stamped
<1>2. /\ Cache_Mem'[k][j] = [Valid |-> TRUE, LRUTag |-> Cache_clock + 1, Tag |-> t]
      /\ \A m \in Sets, i \in Lines :
           m # k \/ i # j => Cache_Mem'[m][i] = Cache_Mem[m][i]
  BY <1>1 DEF Stamped
<1>3. Holds(k, j, x)' /\ (\A y : Holds(k, j, y)' => y = x)
  BY <1>1, <1>2 DEF Holds
<1>4. ASSUME NEW m \in Sets, NEW i \in Lines, NEW y, m # k \/ i # j
      PROVE  Holds(m, i, y)' <=> Holds(m, i, y)
  BY <1>2, <1>4 DEF Holds
<1>5. Holds(k, j, BlockOf(k, j)) <=> Cache_Mem[k][j].Valid
  BY DEF Holds, BlockOf
<1>6. \A y : Holds(k, j, y) => y = BlockOf(k, j)
  BY DEF Holds, BlockOf
<1>7. ASSUME NEW m \in Sets, NEW i \in Lines, m # k \/ i # j, Cache_Mem[k][j].Valid
      PROVE  ~Holds(m, i, BlockOf(k, j))
  <2>1. BlockOf(k, j) % S = k
    BY <1>1, TagsOfSet DEF BlockOf
  <2>2. CASE m # k
    <3>1. (Cache_Mem[m][i].Tag * S + m) % S = m
      BY <1>1, TagsOfSet
    <3>. QED BY <2>1, <2>2, <3>1 DEF Holds
  <2>3. CASE m = k /\ i # j
    <3>1. Cache_Mem[k][i].Valid => Cache_Mem[k][i].Tag # Cache_Mem[k][j].Tag
      BY <1>7, <2>3 DEF IInv, OneLinePerBlock
    <3>. QED BY <1>1, <2>3, <3>1, TagsOfSet DEF Holds, BlockOf
  <2>. QED BY <1>7, <2>2, <2>3
<1>8. ASSUME NEW y \in Blocks
      PROVE  y \in Held' <=>
               y = x \/ (y \in Held /\ ~(Cache_Mem[k][j].Valid /\ y = BlockOf(k, j)))
  <2>1. y \in Held' <=> \E m \in Sets, i \in Lines : Holds(m, i, y)'
    BY DEF Held
  <2>2. y \in Held <=> \E m \in Sets, i \in Lines : Holds(m, i, y)
    BY DEF Held
  <2>3. ASSUME y \in Held', y # x
        PROVE  y \in Held /\ ~(Cache_Mem[k][j].Valid /\ y = BlockOf(k, j))
    <3>1. PICK m \in Sets, i \in Lines : Holds(m, i, y)'
      BY <2>1, <2>3
    <3>2. m # k \/ i # j
      BY <1>3, <2>3, <3>1
    <3>. QED BY <1>4, <1>7, <2>2, <3>1, <3>2
  <2>4. ASSUME y \in Held, ~(Cache_Mem[k][j].Valid /\ y = BlockOf(k, j))
        PROVE  y \in Held'
    <3>1. PICK m \in Sets, i \in Lines : Holds(m, i, y)
      BY <2>2, <2>4
    <3>2. m # k \/ i # j
      BY <1>6, <2>4, <3>1 DEF Holds
    <3>. QED BY <1>4, <2>1, <3>1, <3>2
  <2>5. x \in Held'
    BY <1>3 DEF Held
  <2>. QED BY <2>3, <2>4, <2>5
<1>9. Held \subseteq Blocks /\ Held' \subseteq Blocks
  BY DEF Held
<1>. QED BY <1>8, <1>9

\* The abstract cache's view of one set.
LEMMA AbstractSet ==
  ASSUME NEW x, NEW k, x % S = k
  PROVE  /\ Abstract!HeldWith(x) = HeldIn(k)
         /\ Abstract!LeastRecent(x) =
              {y \in HeldIn(k) : \A z \in HeldIn(k) : last[y] <= last[z]}
BY DEF Abstract!HeldWith, Abstract!LeastRecent, HeldIn

\* A use of a block in the simulator is a use in the abstract cache: a hit, a
\* miss in a set that is not full, or an eviction of a least recently used block.
LEMMA UsageImplements ==
  ASSUME IInv, Cache_Usage
  PROVE  Abstract!Next
<1>1. PICK k \in Sets, j \in Lines, t \in Nat, x \in Blocks :
        /\ Stamped(k, j, t, x)
        /\ \/ /\ LineHit(k, j, t)
              /\ hit_count' = hit_count + 1
              /\ UNCHANGED <<miss_count, evict_count>>
           \/ /\ LineFilled(k, j, t)
              /\ miss_count' = miss_count + 1
              /\ UNCHANGED <<hit_count, evict_count>>
           \/ /\ LineEvicted(k, j, t)
              /\ miss_count' = miss_count + 1
              /\ evict_count' = evict_count + 1
              /\ UNCHANGED hit_count
  BY UsageStamps DEF IInv
<1>2. /\ x = t * S + k /\ x % S = k
      /\ last' = [last EXCEPT ![x] = hit_count + miss_count + 1]
  BY <1>1 DEF Stamped, IInv, CountsAgree
<1>3. /\ Abstract!HeldWith(x) = HeldIn(k)
      /\ Abstract!LeastRecent(x) =
           {y \in HeldIn(k) : \A z \in HeldIn(k) : last[y] <= last[z]}
  BY <1>2, AbstractSet
<1>4. Held' = (IF Cache_Mem[k][j].Valid THEN Held \ {BlockOf(k, j)} ELSE Held) \cup {x}
  BY <1>1, HeldAfter
<1>5. /\ \A i \in ValidIn(k) : BlockOf(k, i) \in HeldIn(k)
      /\ \A y \in HeldIn(k) : \E i \in ValidIn(k) : BlockOf(k, i) = y
  BY HeldByLine
<1>6. /\ Cardinality(HeldIn(k)) = Cardinality(ValidIn(k))
      /\ ValidIn(k) = Lines => Cardinality(ValidIn(k)) = E
      /\ ValidIn(k) # Lines => Cardinality(ValidIn(k)) < E
  BY HeldCardinality
\* A miss is one in the abstract cache, too.
<1>7. ASSUME LineMiss(k, t) PROVE x \notin Held
  <2>1. SUFFICES ASSUME x \in HeldIn(k) PROVE FALSE
    BY <1>2 DEF HeldIn
  <2>2. PICK i \in ValidIn(k) : BlockOf(k, i) = x
    BY <1>5, <2>1
  <2>3. i \in Lines /\ Cache_Mem[k][i].Valid /\ Cache_Mem[k][i].Tag \in Int
    BY <2>2 DEF ValidIn, IInv, TypeOK, Line
  <2>4. Cache_Mem[k][i].Tag = t
    BY <1>2, <2>2, <2>3, TagsOfSet DEF BlockOf
  <2>. QED BY <1>7, <2>3, <2>4 DEF LineMiss
<1>8. CASE /\ LineHit(k, j, t)
           /\ hit_count' = hit_count + 1
           /\ UNCHANGED <<miss_count, evict_count>>
  <2>1. j \in ValidIn(k) /\ BlockOf(k, j) = x
    BY <1>2, <1>8 DEF LineHit, ValidIn, BlockOf
  <2>2. x \in Held /\ Held' = Held
    BY <1>4, <1>5, <2>1 DEF HeldIn
  <2>3. Abstract!Hit(x)
    BY <1>8, <2>2 DEF Abstract!Hit
  <2>. QED BY <1>2, <2>3 DEF Abstract!Next, Abstract!Use
<1>9. CASE /\ LineFilled(k, j, t)
           /\ miss_count' = miss_count + 1
           /\ UNCHANGED <<hit_count, evict_count>>
  <2>1. x \notin Held
    BY <1>7, <1>9 DEF LineFilled
  <2>2. Cardinality(HeldIn(k)) < E
    BY <1>6, <1>9 DEF LineFilled, ValidIn
  <2>3. Held' = Held \cup {x}
    BY <1>4, <1>9 DEF LineFilled
  <2>4. Abstract!Miss(x)
    BY <1>3, <1>9, <2>1, <2>2, <2>3 DEF Abstract!Miss, Abstract!Cardinality, Cardinality
  <2>. QED BY <1>2, <2>4 DEF Abstract!Next, Abstract!Use
<1>10. CASE /\ LineEvicted(k, j, t)
            /\ miss_count' = miss_count + 1
            /\ evict_count' = evict_count + 1
            /\ UNCHANGED hit_count
  <2>1. x \notin Held
    BY <1>7, <1>10 DEF LineEvicted
  <2>2. ValidIn(k) = Lines /\ Cardinality(HeldIn(k)) = E
    BY <1>6, <1>10 DEF LineEvicted, ValidIn
  <2>3. Held' = (Held \ {BlockOf(k, j)}) \cup {x}
    BY <1>4, <1>10 DEF LineEvicted
  <2>4. ASSUME NEW z \in HeldIn(k) PROVE last[BlockOf(k, j)] <= last[z]
    <3>1. PICK i \in Lines : BlockOf(k, i) = z
      BY <1>5, <2>2, <2>4
    <3>2. /\ Cache_Mem[k][i].LRUTag = last[z]
          /\ Cache_Mem[k][j].LRUTag = last[BlockOf(k, j)]
          /\ Cache_Mem[k][j].LRUTag =< Cache_Mem[k][i].LRUTag
      BY <1>10, <3>1 DEF LineEvicted, IInv, LinesStamped
    <3>. QED BY <3>2
  <2>5. BlockOf(k, j) \in Abstract!LeastRecent(x)
    BY <1>3, <1>5, <2>2, <2>4
  <2>6. Abstract!Evict(x)
    BY <1>3, <1>10, <2>1, <2>2, <2>3, <2>5 DEF Abstract!Evict, Abstract!Cardinality, Cardinality
  <2>. QED BY <1>2, <2>6 DEF Abstract!Next, Abstract!Use
<1>. QED BY <1>1, <1>8, <1>9, <1>10

\* For every geometry and trace, whatever malloc left in the lines, the
\* simulator holds and counts what a least recently used cache would.
THEOREM Implements == Spec => ImplementsLru
<1>1. Init => Abstract!Init
  <2> SUFFICES ASSUME Init PROVE Abstract!Init
    OBVIOUS
  <2>1. \A k \in Sets, i \in Lines : ~Cache_Mem[k][i].Valid
    BY DEF Init
  <2>2. Held = {}
    BY <2>1 DEF Held, Holds
  <2>. QED BY <2>2 DEF Init, Abstract!Init
<1>2. IInv /\ [Next]_vars => [Abstract!Next]_(Abstract!lvars)
  <2> SUFFICES ASSUME IInv, [Next]_vars PROVE [Abstract!Next]_(Abstract!lvars)
    OBVIOUS
  <2>1. CASE Cache_Usage
    BY <2>1, UsageImplements
  <2>2. CASE UNCHANGED <<Cache_Mem, counts, last>>
    BY <2>2 DEF counts, Abstract!lvars, Held, Holds
  <2>. QED BY <2>1, <2>2 DEF Next, ReadLine, vars
<1>. QED BY <1>1, <1>2, Invariance, PTL DEF Spec, ImplementsLru, Abstract!Spec

=============================================================================
