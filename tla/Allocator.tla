------------------------------ MODULE Allocator ------------------------------
(***************************************************************************)
(* What an allocator promises its program: the blocks it hands out are     *)
(* aligned, lie in the heap and do not overlap, and their contents change  *)
(* only when the program writes to them.  There are no tags, lists or free *)
(* blocks here.                                                            *)
(***************************************************************************)
EXTENDS Integers

CONSTANTS
  Ids,     \* names the program has for its blocks
  HeapEnd  \* largest address

VARIABLE
  block    \* for each name where its block is and the words in it

Unused == [at |-> 0, words |-> <<>>]

WordSize == 4

Extent(b) == {b.at + WordSize * (k - 1) : k \in DOMAIN b.words}

Init == block = [i \in Ids |-> Unused]

\* Only block i changes.
Changes(i) ==
  /\ DOMAIN block' = Ids
  /\ \A j \in Ids \ {i} : block'[j] = block[j]

\* What block i becomes is a block by the program's lights.
Sound(i) ==
  /\ block'[i] # Unused /\ block'[i].at % 8 = 0
  /\ Extent(block'[i]) \subseteq 1 .. HeapEnd
  /\ \A j \in Ids \ {i} : Extent(block'[i]) \cap Extent(block[j]) = {}

Allocate(i) == block[i] = Unused /\ Changes(i) /\ Sound(i)

Release(i) == block[i] # Unused /\ Changes(i) /\ block'[i] = Unused

\* The words the old and the new block both have are the same.
Resize(i) ==
  /\ block[i] # Unused /\ Changes(i) /\ Sound(i)
  /\ \A k \in DOMAIN block[i].words \cap DOMAIN block'[i].words :
       block'[i].words[k] = block[i].words[k]

Next == \E i \in Ids : Allocate(i) \/ Release(i) \/ Resize(i)

Spec == Init /\ [][Next]_block

=============================================================================
