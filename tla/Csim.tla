-------------------------------- MODULE Csim --------------------------------
(***************************************************************************)
(* The cache simulator (src/cachelab/csim.c): Run_Cache reads a trace line *)
(* by line and Cache_Usage looks each address up in an array of lines.     *)
(*                                                                         *)
(* S and B stand for 1 << s and 1 << b; an address is not negative, so     *)
(* that a shift is a division.  Cache_clock is an int: ClockBound stands   *)
(* for the largest one, beyond which the code's increment is undefined.    *)
(***************************************************************************)
EXTENDS Integers, Sequences, FiniteSetsExt

CONSTANTS
  S, B,        \* sets, bytes per block
  E,           \* lines per set
  Locations,   \* addresses in the trace
  Garbage,     \* what malloc may leave in a line
  ClockBound

ASSUME GeometryAssumption == {S, B, E} \subseteq Nat \ {0}
ASSUME LocationsAssumption == Locations \subseteq Nat
ASSUME GarbageAssumption == Garbage \subseteq Int
ASSUME ClockBoundAssumption == ClockBound \in Nat

VARIABLES
  Cache_Mem,    \* for each set its lines
  Cache_clock,
  hit_count, miss_count, evict_count,
  todo,         \* uses of memory the current trace line has left
  last          \* history: when each block was used last, 0 if never

counts == <<hit_count, miss_count, evict_count>>
vars == <<Cache_Mem, Cache_clock, counts, todo, last>>

Sets  == 0 .. S - 1
Lines == 0 .. E - 1

Line == [Valid : BOOLEAN, LRUTag : Int, Tag : Int]

Set_id(location) == (location \div B) % S
Tag(location)    == location \div (B * S)

\* The block an address is in, and all blocks of the trace.
Block(location) == location \div B
Blocks == {Block(l) : l \in Locations}

TypeOK ==
  /\ Cache_Mem \in [Sets -> [Lines -> Line]]
  /\ Cache_clock \in Nat
  /\ hit_count \in Nat /\ miss_count \in Nat /\ evict_count \in Nat
  /\ todo \in Seq(Locations)
  /\ last \in [Blocks -> Nat]

\* init_Cache clears Valid and nothing else.
Init ==
  /\ Cache_Mem \in [Sets -> [Lines -> [Valid : {FALSE}, LRUTag : Garbage,
                                       Tag : Garbage]]]
  /\ Cache_clock = 0
  /\ hit_count = 0 /\ miss_count = 0 /\ evict_count = 0
  /\ todo = <<>>
  /\ last = [x \in Blocks |-> 0]

-----------------------------------------------------------------------------
(***************************************************************************)
(* Run_Cache.  An instruction fetch is skipped, a modify is two uses.      *)
(***************************************************************************)
Times == [I |-> 0, L |-> 1, S |-> 1, M |-> 2]

Uses(type, location) == [n \in 1 .. Times[type] |-> location]

ReadLine(type, location) ==
  /\ todo = <<>>
  /\ todo' = Uses(type, location)
  /\ UNCHANGED <<Cache_Mem, Cache_clock, counts, last>>

(***************************************************************************)
(* Cache_Usage.  A line keeps its Tag while it is invalid, and the tag may *)
(* be the one looked for: Valid decides.                                   *)
(***************************************************************************)
\* Variant: the Valid bit is not looked at.
MatchingTags(k, t) == {i \in Lines : Cache_Mem[k][i].Tag = t}

Matching(k, t) ==
  {i \in Lines : Cache_Mem[k][i].Tag = t /\ Cache_Mem[k][i].Valid}

Invalid(k) == {i \in Lines : ~Cache_Mem[k][i].Valid}

\* Variant: always the first line.
FirstLine(k) == 0

\* The first of the lines with the smallest LRUTag.
Oldest(k) == Min({i \in Lines : \A j \in Lines :
                    Cache_Mem[k][i].LRUTag <= Cache_Mem[k][j].LRUTag})

\* Variant: a hit leaves LRUTag alone.
StampUnlessHit(k, i, t) ==
  Cache_Mem' = [Cache_Mem EXCEPT ![k][i] =
    IF @.Valid /\ @.Tag = t THEN @
    ELSE [Valid |-> TRUE, LRUTag |-> Cache_clock', Tag |-> t]]

Stamp(k, i, t) ==
  Cache_Mem' = [Cache_Mem EXCEPT ![k][i] =
    [Valid |-> TRUE, LRUTag |-> Cache_clock', Tag |-> t]]

Hit(k, t) ==
  /\ Matching(k, t) # {}
  /\ Stamp(k, Min(Matching(k, t)), t)
  /\ hit_count' = hit_count + 1
  /\ UNCHANGED <<miss_count, evict_count>>

Fill(k, t) ==
  /\ Matching(k, t) = {} /\ Invalid(k) # {}
  /\ Stamp(k, Min(Invalid(k)), t)
  /\ miss_count' = miss_count + 1
  /\ UNCHANGED <<hit_count, evict_count>>

Evict(k, t) ==
  /\ Matching(k, t) = {} /\ Invalid(k) = {}
  /\ Stamp(k, Oldest(k), t)
  /\ miss_count' = miss_count + 1
  /\ evict_count' = evict_count + 1
  /\ UNCHANGED hit_count

Cache_Usage ==
  /\ todo # <<>>
  /\ Cache_clock < ClockBound
  /\ Cache_clock' = Cache_clock + 1
  /\ LET k == Set_id(Head(todo))
         t == Tag(Head(todo))
     IN  Hit(k, t) \/ Fill(k, t) \/ Evict(k, t)
  /\ last' = [last EXCEPT ![Block(Head(todo))] = Cache_clock']
  /\ todo' = Tail(todo)

Next ==
  \/ \E type \in DOMAIN Times, l \in Locations : ReadLine(type, l)
  \/ Cache_Usage

Spec == Init /\ [][Next]_vars

-----------------------------------------------------------------------------
Holds(k, i, x) ==
  /\ Cache_Mem[k][i].Valid
  /\ Cache_Mem[k][i].Tag * S + k = x

\* The blocks in the cache, whatever lines they are in.
Held == {x \in Blocks : \E k \in Sets, i \in Lines : Holds(k, i, x)}

\* The cache holds the most recently used blocks: one it holds was used later
\* than any block of the same set that it does not hold, and as long as a set
\* has an invalid line, it holds everything of the set that was ever used.
KeepsMostRecent ==
  \A y \in Blocks \ Held :
    /\ \A x \in Held : x % S = y % S => last[y] < last[x]
    /\ last[y] # 0 => Invalid(y % S) = {}

ValidLines == {ki \in Sets \X Lines : Cache_Mem[ki[1]][ki[2]].Valid}

\* The summary adds up: every use is a hit or a miss, and what was missed
\* and not evicted again is in the cache.
CountsAgree ==
  /\ hit_count + miss_count = Cache_clock
  /\ miss_count - evict_count = Cardinality(ValidLines)

Abstract == INSTANCE Lru WITH held <- Held, hits <- hit_count,
                              misses <- miss_count, evictions <- evict_count

\* The simulator counts what a least recently used cache would.
ImplementsLru == Abstract!Spec

=============================================================================
