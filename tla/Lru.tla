-------------------------------- MODULE Lru --------------------------------
(***************************************************************************)
(* What a set-associative cache with E lines per set and least recently    *)
(* used replacement holds, and what it counts.  Lines, tags and addresses  *)
(* do not appear: a block is in the cache or not, and the set of block x   *)
(* is x % S.                                                               *)
(***************************************************************************)
EXTENDS Naturals, FiniteSets

CONSTANTS
  Blocks,  \* block numbers
  S,       \* number of sets
  E        \* lines per set

VARIABLES
  held,    \* blocks in the cache
  last,    \* for each block the number of its last use, 0 if never used
  hits, misses, evictions

lvars == <<held, last, hits, misses, evictions>>

Init ==
  /\ held = {}
  /\ last = [x \in Blocks |-> 0]
  /\ hits = 0 /\ misses = 0 /\ evictions = 0

HeldWith(x) == {y \in held : y % S = x % S}

LeastRecent(x) == {y \in HeldWith(x) : \A z \in HeldWith(x) : last[y] <= last[z]}

Hit(x) ==
  /\ x \in held
  /\ hits' = hits + 1
  /\ UNCHANGED <<held, misses, evictions>>

Miss(x) ==
  /\ x \notin held
  /\ Cardinality(HeldWith(x)) < E
  /\ held' = held \cup {x}
  /\ misses' = misses + 1
  /\ UNCHANGED <<hits, evictions>>

Evict(x) ==
  /\ x \notin held
  /\ Cardinality(HeldWith(x)) = E
  /\ \E y \in LeastRecent(x) : held' = (held \ {y}) \cup {x}
  /\ misses' = misses + 1
  /\ evictions' = evictions + 1
  /\ UNCHANGED hits

Use(x) ==
  /\ Hit(x) \/ Miss(x) \/ Evict(x)
  /\ last' = [last EXCEPT ![x] = hits + misses + 1]

Next == \E x \in Blocks : Use(x)

Spec == Init /\ [][Next]_lvars

=============================================================================
