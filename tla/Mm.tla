-------------------------------- MODULE Mm --------------------------------
(***************************************************************************)
(* The allocator of src/Malloclab/mm.c and a program that uses it the way  *)
(* eval_mm_valid in mdriver.c does, in any order: it fills the blocks it   *)
(* gets, looks at them again, and stops when realloc fails.  Nothing is    *)
(* concurrent, so a step is a whole call with the writes that follow it.   *)
(***************************************************************************)
EXTENDS SegLists

CONSTANTS
  CHUNKSIZE,     \* what mm_init asks for
  SizeModulus,   \* how many values a size_t has
  Ids,           \* the program's names for its blocks
  Sizes,         \* sizes it asks for
  InitialWords,  \* what memory may hold before mm_init: it is not cleared
                 \* when the heap is reset
  CopyOrders     \* how memcpy may copy: "up", "down"

ASSUME MmAssumption ==
  /\ CHUNKSIZE \in Nat /\ Ids \subseteq Nat /\ InitialWords \subseteq Nat
  /\ SizeModulus \in Nat /\ {MAXSIZE, MAX_HEAP} \subseteq 0 .. (SizeModulus - 2 * DSIZE)
  /\ \A sz \in Sizes : sz \in 0 .. (SizeModulus - 1) /\ sz % WSIZE = 0
  /\ CopyOrders \subseteq {"up", "down"}

VARIABLES
  mem,      \* the words of memory
  brk,      \* the end of the heap; tail_rp is always this
  block,    \* for each name the pointer and the words the program stored
  stopped,  \* the program has stopped
  wrapped   \* history: realloc has been given a block and a size that Wraps

vars == <<mem, brk, block, stopped, wrapped>>

heap == [mem |-> mem, brk |-> brk, bp |-> NULL]

Unused == [at |-> NULL, words |-> <<>>]

Live == {i \in Ids : block[i] # Unused}

Held(m, p, n) == [k \in 1 .. n |-> m[p + WSIZE * (k - 1)]]

Store(m, p, s) ==
  [a \in DOMAIN m |-> IF a \in {p + WSIZE * (k - 1) : k \in DOMAIN s}
                      THEN s[(a - p) \div WSIZE + 1] ELSE m[a]]

\* Dnum * DSIZE.  The sum is a size_t: for the last 15 sizes it wraps.  malloc has
\* refused those before, but realloc has not.
Wraps(sz) == sz + DSIZE + DSIZE - 1 >= SizeModulus
Need(sz) ==
  DSIZE * (IF sz <= DSIZE THEN 2 ELSE ((sz + DSIZE + DSIZE - 1) % SizeModulus) \div DSIZE)

\* n words from src to dst, lowest or highest address first.  Going down, a
\* word that src and dst share is overwritten before it is read when dst is
\* below src, by a word as far above it as a multiple of their distance.
memcpy(m, dst, src, n, order) ==
  LET d == (src - dst) \div WSIZE
      from(k) == IF order = "down" /\ d > 0 THEN k + ((n - k) \div d) * d ELSE k
  IN  Store(m, dst, [k \in 1 .. n |-> m[src + WSIZE * (from(k) - 1)]])

(***************************************************************************)
(* The entry points.                                                       *)
(***************************************************************************)
Carved(h, sz) ==
  IF h.bp = NULL THEN h
  ELSE rand_place([h EXCEPT !.mem = delete_block(@, h.bp)], sz)

malloc(h, sz, granted) ==
  LET fit == best_fit(h.mem, Need(sz))
  IN  IF sz = 0 \/ sz > MAXSIZE THEN [h EXCEPT !.bp = NULL]
      ELSE Carved(IF fit # NULL THEN [h EXCEPT !.bp = fit]
                  ELSE expand_heap(h, Need(sz), granted), Need(sz))

free(h, ptr) ==
  IF ptr = NULL THEN h
  ELSE Coalesced([h EXCEPT !.bp = ptr,
                           !.mem = [Tagged(@, ptr, BlockSize(@, ptr), 0) EXCEPT
                                      ![PREVRP(ptr)] = NULL, ![NEXTRP(ptr)] = NULL]])

\* Variant: the contents do not move with the block.
ShiftedWithoutCopy(h, oldptr, order) ==
  [h EXCEPT !.mem = Tagged(@, h.bp, BlockSize(@, h.bp), 1)]

\* The combined block is allocated; its contents move to its front.
Shifted(h, oldptr, order) ==
  LET m == Tagged(h.mem, h.bp, BlockSize(h.mem, h.bp), 1)
  IN  [h EXCEPT !.mem =
         IF h.bp = oldptr THEN m
         ELSE memcpy(m, h.bp, oldptr, BlockSize(m, oldptr) \div WSIZE, order)]

\* Variant: the old block is not freed.
ReplacedLeaks(old, new, order) ==
  IF new.bp = NULL THEN new
  ELSE [new EXCEPT !.mem =
          memcpy(@, new.bp, old.bp,
                 (BlockSize(old.mem, old.bp) - DSIZE) \div WSIZE, order)]

\* The contents go to the new block, if there is one, and the old one is freed.
Replaced(old, new, order) ==
  IF new.bp = NULL THEN new
  ELSE LET copied == memcpy(new.mem, new.bp, old.bp,
                            (BlockSize(old.mem, old.bp) - DSIZE) \div WSIZE, order)
       IN  [free([new EXCEPT !.mem = copied], old.bp) EXCEPT !.bp = new.bp]

\* Only with all its free neighbours does the block turn out to be large enough,
\* or not.
Resized(h, sz, granted, order) ==
  LET newsz == BlockSize(h.mem, h.bp)
  IN  IF Need(sz) = newsz THEN h
      ELSE IF Need(sz) < newsz THEN place(h, Need(sz))
      ELSE Replaced(h, malloc(h, sz, granted), order)

realloc(h, oldptr, sz, granted, order) ==
  IF oldptr = NULL THEN malloc(h, sz, granted)
  ELSE IF sz = 0 THEN free(h, oldptr)
  ELSE Resized(Shifted(imme_combine([h EXCEPT !.bp = oldptr]), oldptr, order),
               sz, granted, order)

(***************************************************************************)
(* The program.                                                            *)
(***************************************************************************)
\* mm_init in a heap of CHUNKSIZE bytes: list heads, prologue, epilogue, and
\* one free block.  An mm_init that fails ends the program at once.
InitialHeap(w) ==
  expand_heap([mem |-> [a \in Words |-> IF a < 15 * WSIZE THEN NULL
                                        ELSE IF a < 17 * WSIZE THEN PACK(DSIZE, 1)
                                        ELSE IF a = 17 * WSIZE THEN PACK(0, 1)
                                        ELSE w],
               brk |-> 18 * WSIZE, bp |-> NULL], CHUNKSIZE, TRUE)

Init ==
  /\ \E w \in InitialWords : mem = InitialHeap(w).mem /\ brk = InitialHeap(w).brk
  /\ block = [i \in Ids |-> Unused]
  /\ stopped = FALSE /\ wrapped = FALSE

\* The words i should hold: the first it keeps, the others are its own.
Filled(i, kept, sz) ==
  [k \in 1 .. sz \div WSIZE |-> IF k \in DOMAIN kept THEN kept[k] ELSE 100 * i + k]

\* A call returned r for i, whose words are now these; the program has to
\* write the ones after the first n.  A call that got nothing changed nothing.
Handed(i, r, words, n) ==
  /\ r.bp # NULL
  /\ mem' = Store(r.mem, r.bp + WSIZE * n, SubSeq(words, n + 1, Len(words)))
  /\ brk' = r.brk
  /\ block' = [block EXCEPT ![i] = [at |-> r.bp, words |-> words]]
  /\ UNCHANGED <<stopped, wrapped>>

Malloc(i) ==
  /\ block[i] = Unused
  /\ \E sz \in Sizes, granted \in BOOLEAN :
       Handed(i, malloc(heap, sz, granted), Filled(i, <<>>, sz), 0)

\* calloc clears the block before it looks whether there is one.
Cleared(i, r, sz) ==
  IF r.bp = NULL THEN stopped' = TRUE /\ UNCHANGED <<mem, brk, block, wrapped>>
  ELSE Handed(i, r, [k \in 1 .. sz \div WSIZE |-> 0], 0)

\* sz is the product of calloc's arguments.
Calloc(i) ==
  /\ block[i] = Unused
  /\ \E sz \in Sizes \cap 1 .. MAXSIZE, granted \in BOOLEAN :
       Cleared(i, malloc(heap, sz, granted), sz)

Free(i) ==
  /\ mem' = free(heap, block[i].at).mem
  /\ block' = [block EXCEPT ![i] = Unused]
  /\ UNCHANGED <<brk, stopped, wrapped>>

\* The program keeps its old pointer when realloc fails, and stops.
Refused(r) ==
  /\ r.bp = NULL
  /\ mem' = r.mem /\ brk' = r.brk /\ stopped' = TRUE
  /\ UNCHANGED <<block, wrapped>>

\* It is given what realloc cut off for a size that no heap has room for, and stops
\* (add_range takes the size as an int, which is below 0, and asserts size > 0).
Overrun(r) ==
  /\ r.bp # NULL
  /\ mem' = r.mem /\ brk' = r.brk /\ stopped' = TRUE /\ wrapped' = TRUE
  /\ UNCHANGED block

Kept(i, sz) == SubSeq(block[i].words, 1, Min({Len(block[i].words), sz \div WSIZE}))

Taken(i, r, sz) ==
  \/ Refused(r)
  \/ ~Wraps(sz) /\ Handed(i, r, Filled(i, Kept(i, sz), sz), Len(Kept(i, sz)))
  \/ Wraps(sz) /\ Overrun(r)

Realloc(i) ==
  \E sz \in Sizes, granted \in BOOLEAN, order \in CopyOrders :
    \/ sz = 0 /\ Free(i)
    \/ sz # 0 /\ Taken(i, realloc(heap, block[i].at, sz, granted, order), sz)

Next ==
  /\ ~stopped
  /\ \E i \in Ids : Malloc(i) \/ Calloc(i) \/ Free(i) \/ Realloc(i)

Spec == Init /\ [][Next]_vars

(***************************************************************************)
(* Properties.                                                             *)
(***************************************************************************)
\* After every call, a failed one included, mm_checkheap has nothing to report:
\* the tags match, no two free blocks touch, and the lists, linked both ways,
\* hold every free block once in the list of its size.  What realloc leaves when
\* Dnum has wrapped (mm.c:424) is excepted: place may have cut a block of 0 or 8
\* bytes.
HeapOK == ~wrapped => mm_checkheap(heap)

Allocated == BlocksOf(heap) \ FreeBlocks(heap)

\* As long as realloc has not failed, the allocated blocks are the program's,
\* one for each name in use, aligned and with room for what it asked for:
\* nothing is handed out twice, and nothing is lost.
BlocksOwned ==
  ~stopped =>
    /\ Allocated = {block[i].at : i \in Live}
    /\ Cardinality(Allocated) = Cardinality(Live)
    /\ \A i \in Live : /\ block[i].at % 8 = 0
                       /\ BlockSize(mem, block[i].at) - DSIZE
                            >= WSIZE * Len(block[i].words)

\* The heap grows only for a block that no free block could have held.
GrowsOnlyWhenNeeded ==
  [][brk' > brk =>
       \E i \in Ids : /\ block'[i] # block[i]
                      /\ \A b \in FreeBlocks(heap) :
                           BlockSize(mem, b) < Need(WSIZE * Len(block'[i].words))]_vars

\* The program's blocks with the words that are in memory.
Contents ==
  [i \in Ids |-> [at |-> block[i].at,
                  words |-> Held(mem, block[i].at, Len(block[i].words))]]

Alloc == INSTANCE Allocator WITH HeapEnd <- MAX_HEAP, block <- Contents

\* Up to a failed realloc, or a calloc without memory, the allocator keeps the
\* promise of Allocator: sound, disjoint blocks, and contents that a call for
\* one block changes neither there nor anywhere else.
ImplementsAllocator == Alloc!Init /\ [][Alloc!Next \/ stopped']_Contents

=============================================================================
