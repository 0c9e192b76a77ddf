------------------------------ MODULE SegLists ------------------------------
(***************************************************************************)
(* The heap of the allocator (src/Malloclab/mm.c) word by word: blocks     *)
(* with a header and a footer, and 14 doubly linked lists of free blocks   *)
(* by size.  A routine is an operator from the memory or the heap it finds *)
(* to the one it leaves behind.  A heap is its memory, its end, and the    *)
(* pointer that a routine is given or returns: [mem, brk, bp].             *)
(*                                                                         *)
(* A pointer is its offset in bytes from heap_p, which is how mm.c stores  *)
(* it in a word; NULL is stored as 0, as long as the low 32 bits of the    *)
(* heap's address are 0 (memlib.c maps it at 0x800000000).                 *)
(***************************************************************************)
EXTENDS Integers, Sequences, FiniteSetsExt

CONSTANTS
  MAX_HEAP,       \* bytes mem_sbrk has
  MINEXPANDSIZE,  \* the least the heap grows by
  MAXSIZE

\* mm.c has 504 and mdriver 100 MB; the heap has room for what mm_init puts
\* there first, and grows by no less than a block.
ASSUME SizesAssumption ==
  /\ {MAX_HEAP, MINEXPANDSIZE, MAXSIZE} \subseteq Nat
  /\ MINEXPANDSIZE >= 16 /\ MAX_HEAP >= 72

NULL  == 0
WSIZE == 4
DSIZE == 8

\* Memory, with a few words beyond the limit that are not the heap's.
Words == {WSIZE * k : k \in 0 .. MAX_HEAP \div WSIZE + 11}

\* Sizes are multiples of 8, so that the lowest bit of a tag is free.
PACK(sz, alloc) == sz + alloc
SIZE(m, a)      == (m[a] \div DSIZE) * DSIZE
ALLOC(m, a)     == m[a] % 2

HEADRP(bp) == bp - WSIZE
NEXTRP(bp) == bp
PREVRP(bp) == bp + WSIZE

BlockSize(m, bp) == SIZE(m, HEADRP(bp))
IsFree(m, bp)    == ALLOC(m, HEADRP(bp)) = 0
PREVBLK(m, bp)   == bp - SIZE(m, bp - DSIZE)
NEXTBLK(m, bp)   == bp + BlockSize(m, bp)

\* Header and footer of a block are written together.
Tagged(m, bp, sz, alloc) ==
  [m EXCEPT ![HEADRP(bp)] = PACK(sz, alloc), ![bp - DSIZE + sz] = PACK(sz, alloc)]

\* The list for a block of sz bytes: one for each of the sizes 16, 24, 32 and
\* 40, then ranges that double.
Index(sz) ==
  LET s == sz - 2 * DSIZE
      doubling == {i \in 5 .. 13 : (s - 32) \div 2 ^ (i - 4) < 16}
  IN  IF s < 32 THEN s \div DSIZE + 1
                ELSE IF doubling = {} THEN 14 ELSE Min(doubling)

(***************************************************************************)
(* Free lists.  The head of list idx is word idx; it stands in for the     *)
(* block before the first one.                                             *)
(***************************************************************************)
\* Variant: the next block keeps its old predecessor.
delete_blockOneWay(m, bp) == [m EXCEPT ![m[PREVRP(bp)]] = m[NEXTRP(bp)]]

delete_block(m, bp) ==
  LET pre == m[PREVRP(bp)]
      nxt == m[NEXTRP(bp)]
      m1  == IF nxt # NULL THEN [m EXCEPT ![PREVRP(nxt)] = pre] ELSE m
  IN  IF pre # NULL THEN [m1 EXCEPT ![NEXTRP(pre)] = nxt] ELSE m1

add_block(m, bp) ==
  LET pre == WSIZE * Index(BlockSize(m, bp))
      nxt == m[pre]
      m1  == [m EXCEPT ![PREVRP(bp)] = pre, ![NEXTRP(bp)] = nxt,
                       ![NEXTRP(pre)] = bp]
  IN  IF nxt # NULL THEN [m1 EXCEPT ![PREVRP(nxt)] = bp] ELSE m1

MaxBlocks == MAX_HEAP \div (2 * DSIZE)

\* The blocks of list idx in the order of the list.
Chain(m, idx) ==
  LET nth[n \in 0 .. MaxBlocks] ==
        IF n = 0 THEN WSIZE * idx
        ELSE LET b == nth[n - 1] IN IF b = NULL THEN NULL ELSE m[NEXTRP(b)]
      len == Cardinality({n \in 1 .. MaxBlocks : nth[n] # NULL})
  IN  [n \in 1 .. len |-> nth[n]]

\* The places in list idx of the blocks of at least sz bytes.
Fitting(m, idx, sz) ==
  {n \in DOMAIN Chain(m, idx) : /\ BlockSize(m, Chain(m, idx)[n]) >= sz
                                /\ IsFree(m, Chain(m, idx)[n])}

\* Variant: the list sz belongs to is left out.
ListsAbove(m, sz) == {idx \in Index(sz) + 1 .. 14 : Fitting(m, idx, sz) # {}}

ListsThatFit(m, sz) == {idx \in Index(sz) .. 14 : Fitting(m, idx, sz) # {}}

\* A block of at least sz bytes: the first in the lists of one size; in the
\* others the first that has no more than 16 bytes to spare or else the first
\* of the smallest.
best_fit(m, sz) ==
  LET idx     == Min(ListsThatFit(m, sz))
      c       == Chain(m, idx)
      fits    == Fitting(m, idx, sz)
      size(n) == BlockSize(m, c[n])
      near    == {n \in fits : size(n) <= sz + 16}
      least   == {n \in fits : \A k \in fits : size(n) <= size(k)}
  IN  IF ListsThatFit(m, sz) = {} THEN NULL
      ELSE c[Min(IF idx <= 4 THEN fits ELSE IF near # {} THEN near ELSE least)]

(***************************************************************************)
(* Combining and splitting.                                                *)
(***************************************************************************)
\* The block together with its free neighbours, taken out of the lists, as one
\* free block in no list.
imme_combine(h) ==
  LET prev  == PREVBLK(h.mem, h.bp)
      next  == NEXTBLK(h.mem, h.bp)
      freed == {b \in {prev, next} : IsFree(h.mem, b)}
      first == IF prev \in freed THEN prev ELSE h.bp
      size(b)      == IF b \in freed THEN BlockSize(h.mem, b) ELSE 0
      unlink(m, b) == IF IsFree(m, b) THEN delete_block(m, b) ELSE m
  IN  IF freed = {} THEN [h EXCEPT !.mem = unlink(@, h.bp)]
      ELSE [h EXCEPT !.mem = Tagged(unlink(unlink(unlink(@, h.bp), prev), next),
                                    first, size(prev) + BlockSize(h.mem, h.bp) + size(next), 0),
                     !.bp  = first]

Linked(h) == [h EXCEPT !.mem = add_block(@, h.bp)]

\* How free and expand_heap give a block to the lists.
Coalesced(h) == Linked(imme_combine(Linked(h)))

\* The front of the block becomes an allocated block; what remains a free one,
\* if it is large enough to be a block.
place(h, sz) ==
  LET rem  == BlockSize(h.mem, h.bp) - sz
      rest == h.bp + sz
  IN  [h EXCEPT !.mem =
         IF rem < 2 * DSIZE
         THEN Tagged(@, h.bp, BlockSize(@, h.bp), 1)
         ELSE add_block(Tagged(Tagged(@, h.bp, sz, 1), rest, rem, 0), rest)]

\* The same with the back of the block, which it returns.
rand_place(h, sz) ==
  LET rem == BlockSize(h.mem, h.bp) - sz
  IN  IF rem < 2 * DSIZE
      THEN [h EXCEPT !.mem = Tagged(@, h.bp, BlockSize(@, h.bp), 1)]
      ELSE [h EXCEPT !.mem = Tagged(add_block(Tagged(@, h.bp, rem, 0), h.bp),
                                    h.bp + rem, sz, 1),
                     !.bp  = h.bp + rem]

\* The end of the heap before it was extended, or -1.  The system may refuse
\* at any time.
mem_sbrk(brk, incr, granted) ==
  IF granted /\ brk + incr <= MAX_HEAP THEN brk ELSE -1

expand_heap(h, x, granted) ==
  LET sz == ((Max({x, MINEXPANDSIZE}) + DSIZE - 1) \div DSIZE) * DSIZE
      bp == mem_sbrk(h.brk, sz, granted)
      m  == [Tagged(h.mem, bp, sz, 0) EXCEPT
               ![PREVRP(bp)] = NULL, ![NEXTRP(bp)] = NULL,
               ![HEADRP(bp + sz)] = PACK(0, 1)]
  IN  IF sz >= MAXSIZE \/ bp = -1 THEN [h EXCEPT !.bp = NULL]
      ELSE Coalesced([mem |-> m, brk |-> h.brk + sz, bp |-> bp])

(***************************************************************************)
(* What mm_checkheap demands.  A walk over the blocks starts behind the    *)
(* prologue and ends at the epilogue, whose header is the last word.       *)
(***************************************************************************)
FirstBlock == 18 * WSIZE

Walk(h) ==
  LET nth[n \in 0 .. MaxBlocks] ==
        IF n = 0 THEN FirstBlock
        ELSE LET b == nth[n - 1] IN IF b < h.brk THEN NEXTBLK(h.mem, b) ELSE b
  IN  {nth[n] : n \in 0 .. MaxBlocks}

BlocksOf(h) == Walk(h) \ {h.brk}

FreeBlocks(h) == {b \in BlocksOf(h) : IsFree(h.mem, b)}

\* The blocks tile the heap, their tags match, and no two free ones touch.
BlocksTile(h) ==
  /\ h.mem[15 * WSIZE] = PACK(DSIZE, 1) /\ h.mem[16 * WSIZE] = PACK(DSIZE, 1)
  /\ h.brk \in Walk(h) /\ h.mem[HEADRP(h.brk)] = PACK(0, 1)
  /\ \A b \in BlocksOf(h) :
       /\ BlockSize(h.mem, b) > DSIZE /\ NEXTBLK(h.mem, b) <= h.brk
       /\ h.mem[NEXTBLK(h.mem, b) - DSIZE] = h.mem[HEADRP(b)]
       /\ IsFree(h.mem, b) => ~IsFree(h.mem, NEXTBLK(h.mem, b))

\* Every list is linked both ways and holds blocks of its sizes; together
\* the lists hold each free block once, and nothing else.
ListsHoldTheFree(h) ==
  /\ \A idx \in 1 .. 14 :
       LET c == Chain(h.mem, idx) IN
       \A n \in DOMAIN c :
         /\ c[n] \in FreeBlocks(h) /\ Index(BlockSize(h.mem, c[n])) = idx
         /\ h.mem[PREVRP(c[n])] = IF n = 1 THEN WSIZE * idx ELSE c[n - 1]
  /\ \A b \in FreeBlocks(h) :
       \E n \in DOMAIN Chain(h.mem, Index(BlockSize(h.mem, b))) :
         Chain(h.mem, Index(BlockSize(h.mem, b)))[n] = b

mm_checkheap(h) == BlocksTile(h) /\ ListsHoldTheFree(h)

=============================================================================
