------------------------------ MODULE MmProofs ------------------------------
(***************************************************************************)
(* Proofs about the allocator.                                             *)
(***************************************************************************)
EXTENDS Mm, FiniteSetTheorems, SequenceTheorems, WellFoundedInduction, TLAPS

-----------------------------------------------------------------------------
(***************************************************************************)
(* Numbers, addresses and tags.                                            *)
(***************************************************************************)
\* A set of numbers has a least element.
LEMMA NatHasLeast ==
  ASSUME NEW S, S \subseteq Nat, S # {}
  PROVE  \E x \in S : \A y \in S : x <= y
<1>1. PICK n \in S : \A y \in S : ~ (<<y, n>> \in OpToRel(<, Nat))
  BY NatLessThanWellFounded, WFMin
<1>2. ASSUME NEW y \in S PROVE n <= y
  <2>1. n \in Nat /\ y \in Nat
    OBVIOUS
  <2>2. y < n => <<y, n>> \in OpToRel(<, Nat)
    BY <2>1 DEF OpToRel
  <2>3. ~(y < n)
    BY <1>1, <2>2, Zenon
  <2>. QED BY <2>1, <2>3
<1>. QED BY <1>2

\* Min returns it.
LEMMA MinIsIn ==
  ASSUME NEW S, S \subseteq Nat, S # {}
  PROVE  Min(S) \in S /\ \A y \in S : Min(S) <= y
<1>1. \E x \in S : \A y \in S : x <= y
  BY NatHasLeast
<1>. QED BY <1>1 DEF Min

\* Multiples of 8.
Eights == {n \in Nat : n % 8 = 0}

\* Multiples of 8 are as far apart as that.
LEMMA EightsClosed ==
  /\ Eights \subseteq Nat /\ {0, 8, 16, 24, 64, 72} \subseteq Eights
  /\ \A a, b \in Eights : a + b \in Eights
  /\ \A a, b \in Eights : b <= a => a - b \in Eights
  /\ \A a, b \in Eights : a < b => a + 8 <= b
  /\ \A a, b \in Eights : a + 4 # b /\ a # b + 4
  /\ \A n \in Nat : (n \div 8) * 8 \in Eights
BY DEF Eights

\* A size and the bit that says whether the block is in use.
LEMMA Packed ==
  ASSUME NEW sz \in Eights, NEW x \in {0, 1}
  PROVE  /\ (PACK(sz, x) \div DSIZE) * DSIZE = sz
         /\ PACK(sz, x) % 2 = x
         /\ PACK(sz, x) \in Nat
BY DEF PACK, DSIZE, Eights

\* Memory reaches a little beyond the heap.
LEMMA AreWords ==
  ASSUME NEW a \in Eights, a <= MAX_HEAP
  PROVE  {a, a + 4, a + 8, a + 12} \subseteq Words /\ (a >= 8 => a - 4 \in Words)
<1>. DEFINE k == a \div 4
            K == MAX_HEAP \div 4 + 11
<1>1. MAX_HEAP \in Nat
  BY SizesAssumption
<1>2. a = 4 * k /\ k \in Nat
  BY DEF Eights
<1>3. k + 3 <= K /\ K \in Nat
  BY <1>1, <1>2
<1>. HIDE DEF K, k
<1>4. \A j \in 0 .. K : 4 * j \in Words
  BY DEF Words, WSIZE, K
<1>5. /\ k \in 0 .. K /\ k + 1 \in 0 .. K /\ k + 2 \in 0 .. K /\ k + 3 \in 0 .. K
      /\ a >= 8 => k - 1 \in 0 .. K
  BY <1>2, <1>3
<1>6. 4 * k = a /\ 4 * (k + 1) = a + 4 /\ 4 * (k + 2) = a + 8 /\ 4 * (k + 3) = a + 12
      /\ 4 * (k - 1) = a - 4
  BY <1>2
<1>. QED BY <1>4, <1>5, <1>6

\* A block of at least 16 bytes has a list.
LEMMA HasList ==
  ASSUME NEW sz \in Eights, sz >= 16
  PROVE  Index(sz) \in 1 .. 14
<1>. DEFINE s == sz - 2 * DSIZE
            D == {i \in 5 .. 13 : (s - 32) \div 2 ^ (i - 4) < 16}
<1>1. Index(sz) = IF s < 32 THEN s \div DSIZE + 1 ELSE IF D = {} THEN 14 ELSE Min(D)
  BY DEF Index
<1>2. D \subseteq 5 .. 13
  OBVIOUS
<1>3. s \in Nat /\ (s < 32 => s \div DSIZE + 1 \in 1 .. 4)
  BY EightsClosed DEF DSIZE
<1>. HIDE DEF D, s
<1>4. D # {} => Min(D) \in 5 .. 13
  <2>1. D \subseteq Nat
    BY <1>2
  <2>. QED BY <1>2, <2>1, MinIsIn
<1>5. CASE s < 32
  BY <1>1, <1>3, <1>5
<1>6. CASE ~(s < 32) /\ D = {}
  BY <1>1, <1>6
<1>7. CASE ~(s < 32) /\ D # {}
  BY <1>1, <1>4, <1>7
<1>. QED BY <1>5, <1>6, <1>7

\* The ranges of the lists are as long as powers of two.
LEMMA RangeLengths == \A i \in 5 .. 13 : 2 ^ (i - 4) \in Nat \ {0}
<1>1. ASSUME NEW i \in 5 .. 13 PROVE 2 ^ (i - 4) \in Nat \ {0}
  <2>1. PICK k : k = i - 4
    OBVIOUS
  <2>2. \/ k = 1 \/ k = 2 \/ k = 3 \/ k = 4 \/ k = 5
        \/ k = 6 \/ k = 7 \/ k = 8 \/ k = 9
    BY <2>1
  <2>3. /\ 2 ^ 1 = 2 /\ 2 ^ 2 = 4 /\ 2 ^ 3 = 8 /\ 2 ^ 4 = 16 /\ 2 ^ 5 = 32
        /\ 2 ^ 6 = 64 /\ 2 ^ 7 = 128 /\ 2 ^ 8 = 256 /\ 2 ^ 9 = 512
    OBVIOUS
  <2>4. /\ k = 1 => 2 ^ k = 2 ^ 1
        /\ k = 2 => 2 ^ k = 2 ^ 2
        /\ k = 3 => 2 ^ k = 2 ^ 3
        /\ k = 4 => 2 ^ k = 2 ^ 4
        /\ k = 5 => 2 ^ k = 2 ^ 5
        /\ k = 6 => 2 ^ k = 2 ^ 6
        /\ k = 7 => 2 ^ k = 2 ^ 7
        /\ k = 8 => 2 ^ k = 2 ^ 8
        /\ k = 9 => 2 ^ k = 2 ^ 9
    BY Zenon
  <2>. QED BY <2>1, <2>2, <2>3, <2>4
<1>. QED BY <1>1

\* Division keeps the order.
LEMMA DivMonotone ==
  ASSUME NEW x \in Nat, NEW y \in Nat, x <= y, NEW d \in Nat \ {0}
  PROVE  x \div d <= y \div d
OBVIOUS

\* A larger block is in the same list or a later one.
LEMMA IndexMonotone ==
  ASSUME NEW s \in Eights, s >= 16, NEW t \in Eights, s <= t
  PROVE  Index(s) <= Index(t)
<1>. DEFINE D(z) == {i \in 5 .. 13 : (z - 32) \div 2 ^ (i - 4) < 16}
<1>1. PICK x \in Nat, y \in Nat : x = s - 2 * DSIZE /\ y = t - 2 * DSIZE /\ x <= y
  <2>1. s \in Nat /\ t \in Nat /\ t >= 16
    BY DEF Eights
  <2>. QED BY <2>1 DEF DSIZE
<1>2. /\ Index(s) = IF x < 32 THEN x \div DSIZE + 1 ELSE IF D(x) = {} THEN 14 ELSE Min(D(x))
      /\ Index(t) = IF y < 32 THEN y \div DSIZE + 1 ELSE IF D(y) = {} THEN 14 ELSE Min(D(y))
  BY <1>1 DEF Index
<1>3. /\ x < 32 => x \div DSIZE + 1 \in 1 .. 4
      /\ y < 32 => y \div DSIZE + 1 \in 1 .. 4 /\ x \div DSIZE + 1 <= y \div DSIZE + 1
  BY <1>1 DEF DSIZE
<1>4. x >= 32 => D(y) \subseteq D(x)
  <2>1. SUFFICES ASSUME x >= 32, NEW i \in 5 .. 13, (y - 32) \div 2 ^ (i - 4) < 16
                 PROVE  (x - 32) \div 2 ^ (i - 4) < 16
    OBVIOUS
  <2>2. PICK d \in Nat \ {0} : d = 2 ^ (i - 4)
    BY RangeLengths
  <2>3. x - 32 \in Nat /\ y - 32 \in Nat /\ x - 32 <= y - 32
    BY <1>1, <2>1
  <2>4. (x - 32) \div d <= (y - 32) \div d
    BY <2>3, DivMonotone
  <2>5. (x - 32) \div d \in Int /\ (y - 32) \div d \in Int
    BY <2>3
  <2>. QED BY <2>1, <2>2, <2>4, <2>5
<1>5. \A z \in Nat : D(z) \subseteq Nat /\ D(z) \subseteq 5 .. 13
  OBVIOUS
<1>. HIDE DEF D
<1>6. \A z \in Nat : D(z) # {} => Min(D(z)) \in D(z) /\ \A i \in D(z) : Min(D(z)) <= i
  BY <1>5, MinIsIn
<1>7. CASE y < 32
  BY <1>1, <1>2, <1>3, <1>7
<1>8. CASE y >= 32
  <2>1. Index(t) \in 5 .. 14
    BY <1>1, <1>2, <1>5, <1>6, <1>8
  <2>2. CASE x < 32
    BY <1>2, <1>3, <2>1, <2>2
  <2>3. CASE x >= 32
    <3>1. CASE D(y) = {}
      <4>1. Index(t) = 14
        BY <1>1, <1>2, <1>8, <3>1
      <4>2. Index(s) \in 5 .. 14
        BY <1>1, <1>2, <1>5, <1>6, <2>3
      <4>. QED BY <4>1, <4>2
    <3>2. CASE D(y) # {}
      <4>1. Min(D(y)) \in D(x) /\ D(x) # {}
        BY <1>4, <1>6, <2>3, <3>2
      <4>2. Min(D(x)) <= Min(D(y))
        BY <1>6, <4>1
      <4>3. Index(t) = Min(D(y)) /\ Index(s) = Min(D(x))
        BY <1>1, <1>2, <1>8, <2>3, <3>2, <4>1
      <4>. QED BY <4>2, <4>3
    <3>. QED BY <3>1, <3>2
  <2>. QED BY <1>1, <2>2, <2>3
<1>. QED BY <1>1, <1>7, <1>8

-----------------------------------------------------------------------------
(***************************************************************************)
(* The blocks B tile the heap up to brk.                                   *)
(***************************************************************************)
BlockOK(m, b) ==
  /\ b \in Eights /\ b >= FirstBlock
  /\ m[b - 4] \in Nat /\ BlockSize(m, b) \in Eights /\ BlockSize(m, b) >= 16
  /\ m[b + BlockSize(m, b) - 8] = m[b - 4]

\* The prologue and the epilogue.
EndsOK(m, brk1) ==
  /\ DOMAIN m = Words
  /\ brk1 \in Eights /\ FirstBlock <= brk1 /\ brk1 <= MAX_HEAP
  /\ m[15 * WSIZE] = PACK(DSIZE, 1) /\ m[16 * WSIZE] = PACK(DSIZE, 1)
  /\ m[brk1 - 4] = PACK(0, 1)

\* The block sizes n lead from each of the blocks B to the next.
Steps(n, brk1, B) ==
  /\ \A b \in B : n[b] >= 16 /\ b + n[b] \in B \cup {brk1} /\ b + n[b] <= brk1
  /\ \A b, c \in B : b < c => b + n[b] <= c
  /\ \A b \in B \cup {brk1} : b = FirstBlock \/ \E c \in B : c + n[c] = b

SizesOf(m, B) == [b \in B |-> BlockSize(m, b)]

Tiles(m, brk1, B) ==
  /\ EndsOK(m, brk1)
  /\ \A b \in B : BlockOK(m, b)
  /\ Steps(SizesOf(m, B), brk1, B)

\* A block whose tags are as they were.
SameTags(m, m2, b) ==
  /\ m2[b - 4] = m[b - 4]
  /\ m2[b + BlockSize(m, b) - 8] = m[b + BlockSize(m, b) - 8]

SameEnds(m, m2, brk1) ==
  /\ DOMAIN m2 = Words
  /\ m2[15 * WSIZE] = m[15 * WSIZE] /\ m2[16 * WSIZE] = m[16 * WSIZE]
  /\ m2[brk1 - 4] = m[brk1 - 4]

\* A block whose tags were not written is the block it was.
LEMMA BlockKept ==
  ASSUME NEW m, NEW m2, NEW b, BlockOK(m, b), SameTags(m, m2, b)
  PROVE  /\ BlockOK(m2, b)
         /\ BlockSize(m2, b) = BlockSize(m, b)
         /\ IsFree(m2, b) <=> IsFree(m, b)
<1>1. BlockSize(m2, b) = BlockSize(m, b) /\ (IsFree(m2, b) <=> IsFree(m, b))
  BY DEF SameTags, BlockSize, SIZE, IsFree, ALLOC, HEADRP, WSIZE
<1>. QED BY <1>1 DEF BlockOK, SameTags

\* A block that gets new tags.
LEMMA BlockTagged ==
  ASSUME NEW m, NEW b \in Eights, b >= FirstBlock, NEW sz \in Eights, sz >= 16,
         NEW x \in {0, 1}, m[b - 4] = PACK(sz, x), m[b + sz - 8] = PACK(sz, x)
  PROVE  BlockOK(m, b) /\ BlockSize(m, b) = sz /\ (IsFree(m, b) <=> x = 0)
<1>1. /\ (PACK(sz, x) \div DSIZE) * DSIZE = sz /\ PACK(sz, x) % 2 = x
      /\ PACK(sz, x) \in Nat
  BY Packed
<1>2. BlockSize(m, b) = sz /\ (IsFree(m, b) <=> x = 0)
  BY <1>1 DEF BlockSize, SIZE, IsFree, ALLOC, HEADRP, WSIZE
<1>. QED BY <1>1, <1>2 DEF BlockOK

\* Tagging a block changes its first and its last word, and nothing else.
LEMMA TaggedWords ==
  ASSUME NEW m, DOMAIN m = Words, NEW b, NEW sz, NEW x
  PROVE  /\ DOMAIN Tagged(m, b, sz, x) = Words
         /\ \A a \in Words : Tagged(m, b, sz, x)[a] =
              IF a = b - 4 \/ a = b - 8 + sz THEN PACK(sz, x) ELSE m[a]
         /\ Tagged(m, b, sz, x) = [a \in Words |-> Tagged(m, b, sz, x)[a]]
BY DEF Tagged, HEADRP, WSIZE, DSIZE

\* Blocks that are combined, or one that is tagged anew.
LEMMA StepsMerged ==
  ASSUME NEW n, NEW brk1 \in Eights, NEW B, B \subseteq Eights,
         \A c \in B : n[c] \in Eights, Steps(n, brk1, B),
         NEW b \in B, NEW e \in B \cup {brk1}, b < e,
         NEW B2, B2 = {c \in B : c <= b \/ c >= e},
         NEW n2, n2[b] = e - b, \A c \in B2 : c # b => n2[c] = n[c]
  PROVE  Steps(n2, brk1, B2)
<1>0. B2 \subseteq B /\ B \subseteq Nat /\ brk1 \in Nat /\ \A c \in B : n[c] \in Nat
  BY EightsClosed
<1>1. /\ B2 \subseteq B /\ b \in B2 /\ B \subseteq Nat /\ brk1 \in Nat
      /\ \A c \in B : n[c] \in Nat
  BY <1>0
<1>2. /\ \A c \in B : n[c] >= 16 /\ c + n[c] \in B \cup {brk1} /\ c + n[c] <= brk1
      /\ \A c, d \in B : c < d => c + n[c] <= d
      /\ \A c \in B \cup {brk1} : c = FirstBlock \/ \E d \in B : d + n[d] = c
  BY DEF Steps
<1>3. e \in B2 \cup {brk1} /\ e <= brk1 /\ b + n[b] <= e /\ e \in Nat
  BY <1>1, <1>2
<1>4. ASSUME NEW c \in B2
      PROVE  n2[c] >= 16 /\ c + n2[c] \in B2 \cup {brk1} /\ c + n2[c] <= brk1
  <2>1. CASE c = b
    <3>1. b + (e - b) = e /\ e - b >= 16
      BY <1>1, <1>2, <1>3
    <3>. QED BY <1>3, <2>1, <3>1
  <2>2. CASE c # b
    <3>1. c \in B /\ n2[c] = n[c] /\ c \in Nat /\ n[c] \in Nat
      BY <1>1, <2>2
    <3>2. c + n[c] \in B \cup {brk1} /\ c + n[c] <= brk1 /\ n[c] >= 16
      BY <1>2, <3>1
    <3>3. c + n[c] <= b \/ c + n[c] >= e
      BY <1>1, <1>2, <1>3, <2>2, <3>1
    <3>. QED BY <3>1, <3>2, <3>3
  <2>. QED BY <2>1, <2>2
<1>5. ASSUME NEW c \in B2, NEW d \in B2, c < d PROVE c + n2[c] <= d
  <2>1. CASE c = b
    BY <1>1, <1>3, <1>5, <2>1
  <2>2. CASE c # b
    BY <1>1, <1>2, <1>5, <2>2
  <2>. QED BY <2>1, <2>2
<1>6. ASSUME NEW c \in B2 \cup {brk1}, c # FirstBlock
      PROVE  \E d \in B2 : d + n2[d] = c
  <2>1. PICK d \in B : d + n[d] = c
    BY <1>1, <1>2, <1>6
  <2>2. CASE d \in B2 /\ d # b
    BY <2>1, <2>2
  <2>3. CASE d \notin B2 \/ d = b
    <3>1. d \in Nat /\ b <= d /\ d < e /\ n[d] \in Nat /\ n[d] >= 16
      BY <1>1, <1>2, <1>3, <2>3
    <3>2. c <= e /\ c > b
      BY <1>1, <1>2, <1>3, <2>1, <3>1
    <3>3. c >= e
      BY <1>1, <1>3, <3>2
    <3>4. b + n2[b] = c
      BY <1>1, <1>3, <3>2, <3>3
    <3>. QED BY <1>1, <3>4
  <2>. QED BY <2>2, <2>3
<1>. QED BY <1>4, <1>5, <1>6 DEF Steps

\* A block that is split.
LEMMA StepsSplit ==
  ASSUME NEW n, NEW brk1 \in Eights, NEW B, B \subseteq Eights,
         \A c \in B : n[c] \in Eights, Steps(n, brk1, B),
         NEW b \in B, NEW s1 \in Eights, NEW s2 \in Eights, s1 >= 16, s2 >= 16,
         s1 + s2 = n[b],
         NEW n2, n2[b] = s1, n2[b + s1] = s2, \A c \in B : c # b => n2[c] = n[c]
  PROVE  Steps(n2, brk1, B \cup {b + s1}) /\ b + s1 \notin B
<1>. DEFINE r == b + s1
<1>1. B \subseteq Nat /\ brk1 \in Nat /\ (\A c \in B : n[c] \in Nat) /\ s1 \in Nat /\ s2 \in Nat
  BY EightsClosed
<1>2. /\ \A c \in B : n[c] >= 16 /\ c + n[c] \in B \cup {brk1} /\ c + n[c] <= brk1
      /\ \A c, d \in B : c < d => c + n[c] <= d
      /\ \A c \in B \cup {brk1} : c = FirstBlock \/ \E d \in B : d + n[d] = c
  BY DEF Steps
<1>3. r \in Nat /\ b < r /\ r < b + n[b] /\ r + s2 = b + n[b]
  BY <1>1
<1>. HIDE DEF r
<1>4. \A c \in B : c # b => c + n[c] <= b \/ c >= b + n[b]
  BY <1>1, <1>2
<1>5. r \notin B
  BY <1>1, <1>2, <1>3, <1>4
<1>6. n2[r] = s2 /\ b + n2[b] = r
  BY DEF r
<1>7. ASSUME NEW c \in B \cup {r}
      PROVE  n2[c] >= 16 /\ c + n2[c] \in B \cup {r} \cup {brk1} /\ c + n2[c] <= brk1
  BY <1>1, <1>2, <1>3, <1>6
<1>8. ASSUME NEW c \in B \cup {r}, NEW d \in B \cup {r}, c < d PROVE c + n2[c] <= d
  <2>1. CASE c = b
    <3>1. d = r \/ d >= b + n[b]
      BY <1>1, <1>2, <1>8, <2>1
    <3>. QED BY <1>1, <1>3, <1>6, <2>1, <3>1
  <2>2. CASE c = r
    <3>1. d \in B /\ d # b
      BY <1>1, <1>3, <1>8, <2>2
    <3>2. d >= b + n[b]
      BY <1>1, <1>2, <1>3, <1>4, <1>8, <2>2, <3>1
    <3>. QED BY <1>3, <1>6, <2>2, <3>2
  <2>3. CASE c # b /\ c # r
    <3>1. c \in B /\ n2[c] = n[c] /\ c \in Nat /\ n[c] \in Nat
      BY <1>1, <2>3
    <3>2. CASE d = r
      BY <1>1, <1>3, <1>4, <1>8, <2>3, <3>1, <3>2
    <3>3. CASE d # r
      BY <1>2, <1>8, <3>1, <3>3
    <3>. QED BY <3>2, <3>3
  <2>. QED BY <2>1, <2>2, <2>3
<1>9. ASSUME NEW c \in B \cup {r} \cup {brk1}, c # FirstBlock
      PROVE  \E d \in B \cup {r} : d + n2[d] = c
  <2>1. CASE c = r
    BY <1>6, <2>1
  <2>2. CASE c # r
    <3>1. PICK d \in B : d + n[d] = c
      BY <1>2, <1>9, <2>2
    <3>. QED BY <1>3, <1>6, <3>1
  <2>. QED BY <2>1, <2>2
<1>. QED BY <1>5, <1>7, <1>8, <1>9 DEF Steps, r

\* What a tiling says, in plain terms.
LEMMA TilesFacts ==
  ASSUME NEW m, NEW brk1, NEW B, Tiles(m, brk1, B)
  PROVE  /\ DOMAIN m = Words
         /\ brk1 \in Eights /\ brk1 \in Nat /\ 72 <= brk1 /\ brk1 <= MAX_HEAP
         /\ B \subseteq Eights /\ B \subseteq Nat
         /\ \A b \in B :
              /\ b >= 72 /\ BlockOK(m, b)
              /\ BlockSize(m, b) \in Eights /\ BlockSize(m, b) \in Nat
              /\ BlockSize(m, b) >= 16
              /\ b + BlockSize(m, b) \in B \cup {brk1}
              /\ b + BlockSize(m, b) <= brk1
              /\ m[b + BlockSize(m, b) - 8] = m[b - 4]
         /\ \A b, c \in B : b < c => b + BlockSize(m, b) <= c
         /\ \A b \in B \cup {brk1} : b = 72 \/ \E c \in B : c + BlockSize(m, c) = b
         /\ m[60] = 9 /\ m[64] = 9 /\ m[brk1 - 4] = 1
<1>. DEFINE n == SizesOf(m, B)
<1>1. \A b \in B : n[b] = BlockSize(m, b)
  BY DEF SizesOf
<1>2. FirstBlock = 72 /\ 15 * WSIZE = 60 /\ 16 * WSIZE = 64 /\ PACK(DSIZE, 1) = 9 /\ PACK(0, 1) = 1
  BY DEF FirstBlock, WSIZE, DSIZE, PACK
<1>3. EndsOK(m, brk1) /\ (\A b \in B : BlockOK(m, b)) /\ Steps(n, brk1, B)
  BY DEF Tiles
<1>. HIDE DEF n
<1>4. \A b \in B : b \in Eights /\ b >= 72 /\ BlockSize(m, b) \in Eights
                   /\ m[b + BlockSize(m, b) - 8] = m[b - 4]
  BY <1>2, <1>3 DEF BlockOK
<1>5. Eights \subseteq Nat
  BY EightsClosed
<1>6. /\ \A b \in B : /\ BlockSize(m, b) >= 16 /\ b + BlockSize(m, b) \in B \cup {brk1}
                      /\ b + BlockSize(m, b) <= brk1
      /\ \A b, c \in B : b < c => b + BlockSize(m, b) <= c
      /\ \A b \in B \cup {brk1} : b = 72 \/ \E c \in B : c + BlockSize(m, c) = b
  <2>1. /\ \A b \in B : n[b] >= 16 /\ b + n[b] \in B \cup {brk1} /\ b + n[b] <= brk1
        /\ \A b, c \in B : b < c => b + n[b] <= c
        /\ \A b \in B \cup {brk1} : b = FirstBlock \/ \E c \in B : c + n[c] = b
    BY <1>3 DEF Steps
  <2>. QED BY <1>1, <1>2, <2>1
<1>7. /\ DOMAIN m = Words
      /\ brk1 \in Eights /\ 72 <= brk1 /\ brk1 <= MAX_HEAP
      /\ m[60] = 9 /\ m[64] = 9 /\ m[brk1 - 4] = 1
  BY <1>2, <1>3 DEF EndsOK
<1>. QED BY <1>3, <1>4, <1>5, <1>6, <1>7

\* The words of the tags and what they say.
LEMMA TagSays ==
  ASSUME NEW m, NEW b
  PROVE  /\ BlockSize(m, b) = (m[b - 4] \div 8) * 8
         /\ IsFree(m, b) <=> m[b - 4] % 2 = 0
         /\ NEXTBLK(m, b) = b + BlockSize(m, b)
         /\ PREVBLK(m, b) = b - (m[b - 8] \div 8) * 8
BY DEF BlockSize, SIZE, IsFree, ALLOC, HEADRP, WSIZE, DSIZE, NEXTBLK, PREVBLK

\* The blocks before and behind a block; at the ends of the heap there is an
\* allocated one that is none of the blocks.
LEMMA Neighbours ==
  ASSUME NEW m, NEW brk1, NEW B, Tiles(m, brk1, B), NEW b \in B
  PROVE  /\ NEXTBLK(m, b) = b + BlockSize(m, b)
         /\ NEXTBLK(m, b) \in B \cup {brk1}
         /\ ~IsFree(m, brk1) /\ ~IsFree(m, 64) /\ 64 \notin B /\ brk1 \notin B
         /\ \/ b = 72 /\ PREVBLK(m, b) = 64
            \/ /\ PREVBLK(m, b) \in B
               /\ PREVBLK(m, b) + BlockSize(m, PREVBLK(m, b)) = b
<1>1. NEXTBLK(m, b) = b + BlockSize(m, b) /\ NEXTBLK(m, b) \in B \cup {brk1}
  BY TilesFacts, TagSays
<1>2. ~IsFree(m, brk1) /\ ~IsFree(m, 64)
  BY TilesFacts, TagSays
<1>3. 64 \notin B /\ brk1 \notin B
  BY TilesFacts
<1>4. CASE b = 72
  BY <1>4, TilesFacts, TagSays
<1>5. CASE b # 72
  <2>1. PICK c \in B : c + BlockSize(m, c) = b
    BY <1>5, TilesFacts
  <2>2. m[b - 8] = m[c - 4] /\ c \in Nat /\ BlockSize(m, c) \in Nat /\ b \in Nat
    BY <2>1, TilesFacts
  <2>3. PREVBLK(m, b) = c
    BY <2>1, <2>2, TagSays
  <2>. QED BY <1>1, <1>2, <1>3, <2>1, <2>3
<1>. QED BY <1>1, <1>2, <1>3, <1>4, <1>5

\* The words from the header of a block to its footer.
Extent(m, b) == {a \in Words : b - 4 <= a /\ a < b - 4 + BlockSize(m, b)}

Untouched(m, m2, b) == \A a \in Extent(m, b) : m2[a] = m[a]

SameBlocks(m, m2, B) ==
  \A b \in B : BlockSize(m2, b) = BlockSize(m, b) /\ (IsFree(m2, b) <=> IsFree(m, b))

\* A block lies in memory.
LEMMA InWords ==
  ASSUME NEW m, NEW brk1, NEW B, Tiles(m, brk1, B)
  PROVE  /\ {60, 64, brk1 - 4} \subseteq Words
         /\ \A b \in B : /\ {b - 4, b, b + 4, b + BlockSize(m, b) - 8} \subseteq Words
                         /\ {b - 4, b, b + 4, b + BlockSize(m, b) - 8} \subseteq Extent(m, b)
         /\ Words \subseteq Nat
<1>0. Words \subseteq Nat
  BY SizesAssumption DEF Words, WSIZE
<1>1. /\ brk1 \in Eights /\ brk1 \in Nat /\ 72 <= brk1 /\ brk1 <= MAX_HEAP
      /\ \A b \in B : /\ b >= 72 /\ b \in Eights /\ b \in Nat /\ BlockSize(m, b) \in Eights
                      /\ BlockSize(m, b) \in Nat /\ BlockSize(m, b) >= 16
                      /\ b + BlockSize(m, b) <= brk1
  BY TilesFacts
<1>2. 64 \in Eights /\ 64 <= MAX_HEAP
  BY <1>1, SizesAssumption, EightsClosed
<1>3. {60, 64, brk1 - 4} \subseteq Words
  BY <1>1, <1>2, AreWords
<1>4. ASSUME NEW b \in B
      PROVE  /\ {b - 4, b, b + 4, b + BlockSize(m, b) - 8} \subseteq Words
             /\ {b - 4, b, b + 4, b + BlockSize(m, b) - 8} \subseteq Extent(m, b)
  <2>. DEFINE e == b + BlockSize(m, b) - 8
  <2>1. b \in Nat /\ b <= MAX_HEAP /\ e <= MAX_HEAP /\ b + 8 <= e /\ e \in Nat
    BY <1>1, SizesAssumption
  <2>2. e \in Eights
    <3>1. b + BlockSize(m, b) \in Eights
      BY <1>1, EightsClosed
    <3>2. 8 \in Eights /\ 8 <= b + BlockSize(m, b)
      BY <1>1, EightsClosed
    <3>3. (b + BlockSize(m, b)) - 8 \in Eights
      BY <3>1, <3>2, EightsClosed, Zenon
    <3>4. (b + BlockSize(m, b)) - 8 = e
      BY <1>1
    <3>. QED BY <3>3, <3>4
  <2>3. {b - 4, b, b + 4, e} \subseteq Words
    BY <1>1, <2>1, <2>2, AreWords
  <2>. QED BY <1>1, <2>1, <2>3 DEF Extent
<1>. QED BY <1>0, <1>3, <1>4

\* Blocks whose tags and ends were not written still tile the heap.
LEMMA TilesKept ==
  ASSUME NEW m, NEW brk1, NEW B, Tiles(m, brk1, B),
         NEW m2, SameEnds(m, m2, brk1), \A b \in B : SameTags(m, m2, b)
  PROVE  Tiles(m2, brk1, B) /\ SameBlocks(m, m2, B)
<1>1. \A b \in B : BlockOK(m, b)
  BY DEF Tiles
<1>2. (\A b \in B : BlockOK(m2, b)) /\ SameBlocks(m, m2, B)
  BY <1>1, BlockKept DEF SameBlocks
<1>3. SizesOf(m2, B) = SizesOf(m, B)
  BY <1>2 DEF SizesOf, SameBlocks
<1>4. EndsOK(m2, brk1)
  BY DEF Tiles, EndsOK, SameEnds
<1>. QED BY <1>2, <1>3, <1>4 DEF Tiles

\* What is untouched is the same block.
LEMMA UntouchedKept ==
  ASSUME NEW m, NEW brk1, NEW B, Tiles(m, brk1, B), NEW m2, NEW b \in B, Untouched(m, m2, b)
  PROVE  /\ SameTags(m, m2, b) /\ BlockOK(m2, b)
         /\ BlockSize(m2, b) = BlockSize(m, b) /\ (IsFree(m2, b) <=> IsFree(m, b))
         /\ m2[b] = m[b] /\ m2[b + 4] = m[b + 4] /\ Extent(m2, b) = Extent(m, b)
<1>1. {b - 4, b, b + 4, b + BlockSize(m, b) - 8} \subseteq Extent(m, b)
  BY InWords
<1>2. SameTags(m, m2, b) /\ m2[b] = m[b] /\ m2[b + 4] = m[b + 4]
  BY <1>1 DEF Untouched, SameTags
<1>3. BlockOK(m, b)
  BY DEF Tiles
<1>4. /\ BlockOK(m2, b) /\ BlockSize(m2, b) = BlockSize(m, b)
      /\ (IsFree(m2, b) <=> IsFree(m, b))
  BY <1>2, <1>3, BlockKept
<1>. QED BY <1>2, <1>4 DEF Extent

\* The words that link the blocks F into the lists.
LinkWords(F) == {4 * i : i \in 1 .. 14} \cup F \cup {b + 4 : b \in F}

\* No other block has one of them, and they are no tags.
LEMMA LinkWordsApart ==
  ASSUME NEW m, NEW brk1, NEW B, Tiles(m, brk1, B), NEW F \in SUBSET B, NEW a \in LinkWords(F)
  PROVE  /\ a \notin {60, 64, brk1 - 4}
         /\ \A b \in B : a # b - 4 /\ a # b + BlockSize(m, b) - 8
         /\ \A b \in B \ F : a \notin Extent(m, b)
<1>1. /\ brk1 \in Eights /\ brk1 \in Nat /\ 72 <= brk1
      /\ \A b \in B : /\ b >= 72 /\ b \in Eights /\ b \in Nat /\ BlockSize(m, b) \in Eights
                      /\ BlockSize(m, b) \in Nat /\ BlockSize(m, b) >= 16
      /\ \A b, c \in B : b < c => b + BlockSize(m, b) <= c
      /\ \A b \in B : b + BlockSize(m, b) <= brk1
  BY TilesFacts
<1>2. CASE \E i \in 1 .. 14 : a = 4 * i
  <2>1. a \in Nat /\ a <= 56
    BY <1>2
  <2>2. a \notin {60, 64, brk1 - 4}
    BY <1>1, <2>1
  <2>3. \A b \in B : a # b - 4 /\ a # b + BlockSize(m, b) - 8 /\ ~(b - 4 <= a)
    BY <1>1, <2>1
  <2>. QED BY <2>2, <2>3 DEF Extent
<1>3. CASE \E f \in F : a = f \/ a = f + 4
  <2>1. PICK f \in F : a = f \/ a = f + 4
    BY <1>3
  <2>2. f \in B /\ f \in Nat /\ f >= 72 /\ a \in Nat /\ a >= 72 /\ f \in Eights
    BY <1>1, <2>1
  <2>3. a # brk1 - 4
    <3>1. f + 16 <= brk1
      BY <1>1, <2>2
    <3>. QED BY <1>1, <2>1, <2>2, <3>1
  <2>4. ASSUME NEW b \in B PROVE a # b - 4 /\ a # b + BlockSize(m, b) - 8
    <3>1. b \in Nat /\ BlockSize(m, b) \in Nat /\ BlockSize(m, b) >= 16
      BY <1>1
    <3>2. b = f \/ b + BlockSize(m, b) <= f \/ f + 16 <= b
      BY <1>1, <2>2, <3>1
    <3>. QED BY <2>1, <2>2, <3>1, <3>2
  <2>5. ASSUME NEW b \in B \ F PROVE a \notin Extent(m, b)
    <3>1. b \in Nat /\ BlockSize(m, b) \in Nat /\ BlockSize(m, b) >= 16
      BY <1>1
    <3>2. b + BlockSize(m, b) <= f \/ f + 16 <= b
      BY <1>1, <2>2, <3>1
    <3>. QED BY <2>1, <2>2, <3>1, <3>2 DEF Extent
  <2>. QED BY <2>2, <2>3, <2>4, <2>5
<1>. QED BY <1>2, <1>3 DEF LinkWords

\* The lists can be changed without harm to the tiling.
LEMMA OnlyLinksChange ==
  ASSUME NEW m, NEW brk1, NEW B, Tiles(m, brk1, B), NEW F \in SUBSET B,
         NEW m2, DOMAIN m2 = Words, \A a \in Words \ LinkWords(F) : m2[a] = m[a]
  PROVE  /\ Tiles(m2, brk1, B) /\ SameBlocks(m, m2, B)
         /\ \A b \in B \ F : Untouched(m, m2, b)
<1>1. \A a \in LinkWords(F) : /\ a \notin {60, 64, brk1 - 4}
                              /\ \A b \in B : a # b - 4 /\ a # b + BlockSize(m, b) - 8
                              /\ \A b \in B \ F : a \notin Extent(m, b)
  BY LinkWordsApart
<1>2. /\ {60, 64, brk1 - 4} \subseteq Words
      /\ \A b \in B : {b - 4, b + BlockSize(m, b) - 8} \subseteq Words
  BY InWords
<1>3. SameEnds(m, m2, brk1)
  BY <1>1, <1>2 DEF SameEnds, WSIZE
<1>4. \A b \in B : SameTags(m, m2, b)
  BY <1>1, <1>2 DEF SameTags
<1>5. \A b \in B \ F : Untouched(m, m2, b)
  BY <1>1 DEF Untouched, Extent
<1>. QED BY <1>3, <1>4, <1>5, TilesKept

-----------------------------------------------------------------------------
(***************************************************************************)
(* The lists link the blocks F: cl is the list of each block, and the rank *)
(* rk falls toward the head of the list.                                   *)
(***************************************************************************)
\* The blocks that can be linked: there is memory for the links.
Linkable(F) ==
  /\ \A i \in 1 .. 14 : 4 * i \in Words
  /\ \A b \in F : b \in Eights /\ b >= 72 /\ b \in Words /\ b + 4 \in Words

\* Word p, which stands before the block it points to, if it points to one.
PointsWell(m, p, F, cl, i) ==
  m[p] # 0 => m[p] \in F /\ cl[m[p]] = i /\ m[m[p] + 4] = p

Links(m, F, cl, rk) ==
  /\ \A i \in 1 .. 14 : PointsWell(m, 4 * i, F, cl, i)
  /\ \A b \in F :
       /\ cl[b] \in 1 .. 14 /\ rk[b] \in Nat
       /\ PointsWell(m, b, F, cl, cl[b])
       /\ \/ m[b + 4] = 4 * cl[b] /\ m[4 * cl[b]] = b
          \/ m[b + 4] \in F /\ m[m[b + 4]] = b /\ rk[m[b + 4]] < rk[b]

\* Nothing else matters for the lists.
LEMMA LinksKept ==
  ASSUME NEW m, NEW F, NEW cl, NEW rk, Links(m, F, cl, rk),
         NEW m2, \A a \in LinkWords(F) : m2[a] = m[a],
         NEW cl2, \A b \in F : cl2[b] = cl[b]
  PROVE  Links(m2, F, cl2, rk)
<1>1. /\ \A i \in 1 .. 14 : m2[4 * i] = m[4 * i]
      /\ \A b \in F : m2[b] = m[b] /\ m2[b + 4] = m[b + 4]
  BY DEF LinkWords
<1>2. ASSUME NEW i \in 1 .. 14 PROVE PointsWell(m2, 4 * i, F, cl2, i)
  BY <1>1 DEF Links, PointsWell
<1>3. ASSUME NEW b \in F
      PROVE  /\ cl2[b] \in 1 .. 14 /\ rk[b] \in Nat
             /\ PointsWell(m2, b, F, cl2, cl2[b])
             /\ \/ m2[b + 4] = 4 * cl2[b] /\ m2[4 * cl2[b]] = b
                \/ m2[b + 4] \in F /\ m2[m2[b + 4]] = b /\ rk[m2[b + 4]] < rk[b]
  BY <1>1 DEF Links, PointsWell
<1>. QED BY <1>2, <1>3 DEF Links

\* The words of the links are different ones.
LEMMA LinksApart ==
  ASSUME NEW F, Linkable(F)
  PROVE  /\ \A b, c \in F : b + 4 # c /\ b # 0 /\ (b + 4 = c + 4 => b = c)
         /\ \A b \in F, i \in 1 .. 14 : b # 4 * i /\ b + 4 # 4 * i /\ 4 * i # 0
         /\ \A i, j \in 1 .. 14 : 4 * i = 4 * j => i = j
<1>1. \A b \in F : b \in Eights /\ b \in Nat /\ b >= 72
  BY EightsClosed DEF Linkable
<1>2. \A b, c \in F : b + 4 # c
  BY <1>1, EightsClosed
<1>. QED BY <1>1, <1>2

\* delete_block writes the links that named the block, and nothing else.
LEMMA DeleteWords ==
  ASSUME NEW m, DOMAIN m = Words, NEW b, NEW pre, pre = m[b + 4], NEW nxt, nxt = m[b], pre # 0
  PROVE  /\ DOMAIN delete_block(m, b) = Words
         /\ \A a \in Words : delete_block(m, b)[a] =
              IF a = pre THEN nxt ELSE IF nxt # 0 /\ a = nxt + 4 THEN pre ELSE m[a]
BY DEF delete_block, PREVRP, NEXTRP, WSIZE, NULL

\* Taking a block out of its list.
LEMMA DeleteLinks ==
  ASSUME NEW m, DOMAIN m = Words, NEW F, Linkable(F), NEW cl, NEW rk, Links(m, F, cl, rk),
         NEW b \in F
  PROVE  /\ DOMAIN delete_block(m, b) = Words
         /\ Links(delete_block(m, b), F \ {b}, cl, rk)
         /\ \A a \in Words \ LinkWords(F) : delete_block(m, b)[a] = m[a]
<1>. DEFINE pre == m[b + 4]
            nxt == m[b]
            G   == F \ {b}
<1>1. /\ \A c, d \in F : c + 4 # d /\ c # 0 /\ (c + 4 = d + 4 => c = d)
      /\ \A c \in F, i \in 1 .. 14 : c # 4 * i /\ c + 4 # 4 * i /\ 4 * i # 0
      /\ \A i, j \in 1 .. 14 : 4 * i = 4 * j => i = j
  BY LinksApart
<1>2. /\ \A i \in 1 .. 14 : 4 * i \in Words
      /\ \A c \in F : c \in Words /\ c + 4 \in Words
  BY DEF Linkable
<1>3. \A i \in 1 .. 14 : m[4 * i] # 0 =>
        m[4 * i] \in F /\ cl[m[4 * i]] = i /\ m[m[4 * i] + 4] = 4 * i
  BY DEF Links, PointsWell
<1>4. \A c \in F : /\ cl[c] \in 1 .. 14 /\ rk[c] \in Nat
                   /\ m[c] # 0 => m[c] \in F /\ cl[m[c]] = cl[c] /\ m[m[c] + 4] = c
  BY DEF Links, PointsWell
<1>5. \A c \in F : \/ m[c + 4] = 4 * cl[c] /\ m[4 * cl[c]] = c
                   \/ m[c + 4] \in F /\ m[m[c + 4]] = c /\ rk[m[c + 4]] < rk[c]
  BY DEF Links
<1>6. /\ pre # 0 /\ m[pre] = b /\ pre \in F \cup {4 * i : i \in 1 .. 14}
      /\ nxt # 0 => nxt \in F
      /\ pre # b
  BY <1>1, <1>4, <1>5
<1>. DEFINE m2 == delete_block(m, b)
<1>7. /\ DOMAIN m2 = Words
      /\ \A a \in Words : m2[a] =
              IF a = pre THEN nxt ELSE IF nxt # 0 /\ a = nxt + 4 THEN pre ELSE m[a]
  BY <1>6, DeleteWords
<1>. HIDE DEF m2, pre, nxt
<1>8. \A a \in Words \ LinkWords(F) : m2[a] = m[a]
  BY <1>6, <1>7 DEF LinkWords
<1>9. nxt # b /\ (nxt # 0 => m[nxt + 4] = b /\ cl[nxt] = cl[b])
  BY <1>1, <1>4, <1>5, <1>6 DEF nxt, pre

<1>10. ASSUME NEW i \in 1 .. 14 PROVE PointsWell(m2, 4 * i, G, cl, i)
  <2>1. CASE 4 * i = pre
    <3>1. m2[4 * i] = nxt
      BY <1>2, <1>7, <2>1
    <3>2. nxt # 0 => nxt \in F /\ m2[nxt + 4] = pre
      BY <1>1, <1>2, <1>6, <1>7
    <3>3. cl[b] = i
      BY <1>1, <1>4, <1>5, <2>1 DEF pre
    <3>. QED BY <1>9, <2>1, <3>1, <3>2, <3>3 DEF PointsWell
  <2>2. CASE 4 * i # pre
    <3>1. m2[4 * i] = m[4 * i]
      BY <1>1, <1>2, <1>6, <1>7, <2>2
    <3>2. SUFFICES ASSUME m[4 * i] # 0
                   PROVE  m[4 * i] \in G /\ cl[m[4 * i]] = i /\ m2[m[4 * i] + 4] = 4 * i
      BY <3>1 DEF PointsWell
    <3>3. m[4 * i] \in F /\ cl[m[4 * i]] = i /\ m[m[4 * i] + 4] = 4 * i
      BY <1>3, <3>2
    <3>4. m[4 * i] # b
      BY <2>2, <3>3 DEF pre
    <3>5. m[4 * i] # nxt /\ m[4 * i] + 4 # pre
      BY <1>1, <1>6, <1>9, <3>2, <3>3
    <3>6. m2[m[4 * i] + 4] = m[m[4 * i] + 4]
      BY <1>1, <1>2, <1>6, <1>7, <3>3, <3>5
    <3>. QED BY <3>3, <3>4, <3>6
  <2>. QED BY <2>1, <2>2
<1>11. ASSUME NEW c \in G PROVE PointsWell(m2, c, G, cl, cl[c])
  <2>1. CASE c = pre
    <3>1. m2[c] = nxt
      BY <1>2, <1>7, <2>1
    <3>2. nxt # 0 => nxt \in F /\ m2[nxt + 4] = pre
      BY <1>1, <1>2, <1>6, <1>7
    <3>3. cl[b] = cl[c]
      BY <1>1, <1>4, <1>6, <2>1
    <3>. QED BY <1>9, <2>1, <3>1, <3>2, <3>3 DEF PointsWell
  <2>2. CASE c # pre
    <3>1. m2[c] = m[c]
      BY <1>1, <1>2, <1>6, <1>7, <2>2
    <3>2. SUFFICES ASSUME m[c] # 0
                   PROVE  m[c] \in G /\ cl[m[c]] = cl[c] /\ m2[m[c] + 4] = c
      BY <3>1 DEF PointsWell
    <3>3. m[c] \in F /\ cl[m[c]] = cl[c] /\ m[m[c] + 4] = c
      BY <1>4, <3>2
    <3>4. m[c] # b
      BY <2>2, <3>3 DEF pre
    <3>5. m[c] # nxt /\ m[c] + 4 # pre
      BY <1>1, <1>6, <1>9, <3>2, <3>3
    <3>6. m2[m[c] + 4] = m[m[c] + 4]
      BY <1>1, <1>2, <1>6, <1>7, <3>3, <3>5
    <3>. QED BY <3>3, <3>4, <3>6
  <2>. QED BY <2>1, <2>2
<1>12. ASSUME NEW c \in G
       PROVE  \/ m2[c + 4] = 4 * cl[c] /\ m2[4 * cl[c]] = c
              \/ m2[c + 4] \in G /\ m2[m2[c + 4]] = c /\ rk[m2[c + 4]] < rk[c]
  <2>1. CASE c = nxt
    <3>1. m2[c + 4] = pre /\ m2[pre] = c
      BY <1>1, <1>2, <1>6, <1>7, <2>1
    <3>2. m[c + 4] = b /\ cl[c] = cl[b]
      BY <1>1, <1>9, <2>1
    <3>3. rk[b] < rk[c]
      BY <1>1, <1>4, <1>5, <3>2
    <3>4. pre = 4 * cl[b] \/ (pre \in F /\ rk[pre] < rk[b])
      BY <1>5 DEF pre
    <3>5. pre \in F => rk[pre] \in Nat /\ rk[b] \in Nat /\ rk[c] \in Nat
      BY <1>4
    <3>. QED BY <1>6, <3>1, <3>2, <3>3, <3>4, <3>5
  <2>2. CASE c # nxt
    <3>1. m2[c + 4] = m[c + 4]
      BY <1>1, <1>2, <1>6, <1>7, <2>2
    <3>2. CASE m[c + 4] = 4 * cl[c] /\ m[4 * cl[c]] = c
      <4>1. 4 * cl[c] # pre
        BY <1>6, <3>2
      <4>2. m2[4 * cl[c]] = m[4 * cl[c]]
        BY <1>1, <1>2, <1>4, <1>6, <1>7, <4>1
      <4>. QED BY <3>1, <3>2, <4>2
    <3>3. CASE m[c + 4] \in F /\ m[m[c + 4]] = c /\ rk[m[c + 4]] < rk[c]
      <4>1. m[c + 4] # pre /\ m[c + 4] # b
        BY <1>6, <2>2, <3>3 DEF nxt
      <4>2. m2[m[c + 4]] = m[m[c + 4]]
        BY <1>1, <1>2, <1>6, <1>7, <3>3, <4>1
      <4>. QED BY <3>1, <3>3, <4>1, <4>2
    <3>. QED BY <1>5, <3>2, <3>3
  <2>. QED BY <2>1, <2>2
<1>13. Links(m2, G, cl, rk)
  BY <1>4, <1>10, <1>11, <1>12 DEF Links
<1>. QED BY <1>7, <1>8, <1>13 DEF m2

\* add_block writes the list head, the block and the former first of the list.
LEMMA AddWords ==
  ASSUME NEW m, DOMAIN m = Words, NEW b, NEW pre, pre = 4 * Index(BlockSize(m, b)),
         pre # b, pre # b + 4, b \in Words, b + 4 \in Words, pre \in Words
  PROVE  /\ DOMAIN add_block(m, b) = Words
         /\ \A a \in Words : add_block(m, b)[a] =
              IF m[pre] # 0 /\ a = m[pre] + 4 THEN b
              ELSE IF a = pre THEN b ELSE IF a = b THEN m[pre]
              ELSE IF a = b + 4 THEN pre ELSE m[a]
         /\ add_block(m, b) = [a \in Words |-> add_block(m, b)[a]]
BY DEF add_block, PREVRP, NEXTRP, WSIZE, NULL

\* Putting a block at the head of its list.
LEMMA AddLinks ==
  ASSUME NEW m, DOMAIN m = Words, NEW F, NEW cl, NEW rk, Links(m, F, cl, rk),
         NEW b, b \notin F, Linkable(F \cup {b}),
         cl[b] = Index(BlockSize(m, b)), cl[b] \in 1 .. 14
  PROVE  /\ DOMAIN add_block(m, b) = Words
         /\ Links(add_block(m, b), F \cup {b}, cl,
                  [c \in F \cup {b} |-> IF c = b THEN 0 ELSE rk[c] + 1])
         /\ \A a \in Words \ LinkWords(F \cup {b}) : add_block(m, b)[a] = m[a]
<1>. DEFINE G   == F \cup {b}
            pre == 4 * cl[b]
            nxt == m[pre]
            m2  == add_block(m, b)
            rk2 == [c \in F \cup {b} |-> IF c = b THEN 0 ELSE rk[c] + 1]
<1>1. /\ \A c, d \in G : c + 4 # d /\ c # 0 /\ (c + 4 = d + 4 => c = d)
      /\ \A c \in G, i \in 1 .. 14 : c # 4 * i /\ c + 4 # 4 * i /\ 4 * i # 0
      /\ \A i, j \in 1 .. 14 : 4 * i = 4 * j => i = j
  BY LinksApart
<1>2. /\ \A i \in 1 .. 14 : 4 * i \in Words
      /\ \A c \in G : c \in Words /\ c + 4 \in Words
  BY DEF Linkable
<1>3. \A i \in 1 .. 14 : m[4 * i] # 0 =>
        m[4 * i] \in F /\ cl[m[4 * i]] = i /\ m[m[4 * i] + 4] = 4 * i
  BY DEF Links, PointsWell
<1>4. \A c \in F : /\ cl[c] \in 1 .. 14 /\ rk[c] \in Nat
                   /\ m[c] # 0 => m[c] \in F /\ cl[m[c]] = cl[c] /\ m[m[c] + 4] = c
  BY DEF Links, PointsWell
<1>5. \A c \in F : \/ m[c + 4] = 4 * cl[c] /\ m[4 * cl[c]] = c
                   \/ m[c + 4] \in F /\ m[m[c + 4]] = c /\ rk[m[c + 4]] < rk[c]
  BY DEF Links
<1>6. /\ pre # b /\ pre # b + 4 /\ pre \in Words
      /\ nxt # 0 => nxt \in F /\ cl[nxt] = cl[b] /\ m[nxt + 4] = pre
  BY <1>1, <1>2, <1>3
<1>7. /\ DOMAIN m2 = Words
      /\ \A a \in Words : m2[a] = IF nxt # 0 /\ a = nxt + 4 THEN b
                                  ELSE IF a = pre THEN b ELSE IF a = b THEN nxt
                                  ELSE IF a = b + 4 THEN pre ELSE m[a]
  BY <1>2, <1>6, AddWords
<1>8. /\ \A c \in F : rk2[c] = rk[c] + 1 /\ rk2[c] \in Nat /\ rk[c] \in Nat
      /\ rk2[b] = 0
  BY <1>4
<1>9. pre \in {4 * i : i \in 1 .. 14} /\ b # 0 /\ pre # 0
  BY <1>1
<1>. HIDE DEF m2, nxt, rk2
<1>10. \A a \in Words \ LinkWords(F \cup {b}) : m2[a] = m[a]
  BY <1>6, <1>7, <1>9 DEF LinkWords
<1>11. m2[pre] = b /\ m2[b] = nxt /\ m2[b + 4] = pre /\ (nxt # 0 => m2[nxt + 4] = b)
  BY <1>1, <1>2, <1>6, <1>7
<1>12. ASSUME NEW i \in 1 .. 14 PROVE PointsWell(m2, 4 * i, G, cl, i)
  <2>1. CASE i = cl[b]
    BY <1>11, <2>1 DEF PointsWell
  <2>2. CASE i # cl[b]
    <3>1. 4 * i # pre
      BY <1>1, <2>2
    <3>2. m2[4 * i] = m[4 * i]
      BY <1>1, <1>2, <1>6, <1>7, <3>1
    <3>3. m[4 * i] # 0 => m[4 * i] # nxt /\ m[4 * i] \in F
      BY <1>3, <1>6, <2>2
    <3>4. m[4 * i] # 0 => m2[m[4 * i] + 4] = m[m[4 * i] + 4]
      BY <1>1, <1>2, <1>6, <1>7, <3>3
    <3>. QED BY <1>3, <3>2, <3>4 DEF PointsWell
  <2>. QED BY <2>1, <2>2
<1>13. ASSUME NEW c \in G PROVE PointsWell(m2, c, G, cl, cl[c])
  <2>1. CASE c = b
    BY <1>6, <1>11, <2>1 DEF PointsWell
  <2>2. CASE c # b
    <3>1. c \in F /\ m2[c] = m[c]
      BY <1>1, <1>2, <1>6, <1>7, <2>2
    <3>2. m[c] # 0 => m[c] # nxt /\ m[c] \in F
      BY <1>1, <1>4, <1>6, <3>1
    <3>3. m[c] # 0 => m2[m[c] + 4] = m[m[c] + 4]
      BY <1>1, <1>2, <1>6, <1>7, <3>2
    <3>. QED BY <1>4, <3>1, <3>3 DEF PointsWell
  <2>. QED BY <2>1, <2>2
<1>14. ASSUME NEW c \in G
       PROVE  \/ m2[c + 4] = 4 * cl[c] /\ m2[4 * cl[c]] = c
              \/ m2[c + 4] \in G /\ m2[m2[c + 4]] = c /\ rk2[m2[c + 4]] < rk2[c]
  <2>1. CASE c = b
    BY <1>11, <2>1
  <2>2. CASE c = nxt /\ c # b
    BY <1>1, <1>8, <1>11, <2>2
  <2>3. CASE c # nxt /\ c # b
    <3>1. m2[c + 4] = m[c + 4]
      BY <1>1, <1>2, <1>6, <1>7, <2>3
    <3>2. CASE m[c + 4] = 4 * cl[c] /\ m[4 * cl[c]] = c
      <4>1. 4 * cl[c] # pre
        BY <2>3, <3>2 DEF nxt
      <4>2. m2[4 * cl[c]] = m[4 * cl[c]]
        BY <1>1, <1>2, <1>4, <1>6, <1>7, <2>3, <4>1
      <4>. QED BY <3>1, <3>2, <4>2
    <3>3. CASE m[c + 4] \in F /\ m[m[c + 4]] = c /\ rk[m[c + 4]] < rk[c]
      <4>1. m[c + 4] # pre /\ m[c + 4] # b
        BY <1>1, <3>3
      <4>2. m2[m[c + 4]] = m[m[c + 4]]
        BY <1>1, <1>2, <1>6, <1>7, <3>3, <4>1
      <4>3. rk2[m[c + 4]] < rk2[c]
        BY <1>8, <2>3, <3>3
      <4>. QED BY <3>1, <3>3, <4>1, <4>2, <4>3
    <3>. QED BY <1>5, <2>3, <3>2, <3>3
  <2>. QED BY <2>1, <2>2, <2>3
<1>15. \A c \in G : cl[c] \in 1 .. 14 /\ rk2[c] \in Nat
  BY <1>4, <1>8
<1>16. Links(m2, G, cl, rk2)
  <2>. HIDE DEF pre, G
  <2>. QED BY <1>12, <1>13, <1>14, <1>15 DEF Links
<1>. QED BY <1>7, <1>10, <1>16 DEF m2, rk2

-----------------------------------------------------------------------------
(***************************************************************************)
(* A heap: blocks B that tile it, of which F, all of them free, are in the *)
(* lists of their sizes.                                                   *)
(***************************************************************************)
Frees(m, B) == {b \in B : IsFree(m, b)}
Used(m, B)  == {b \in B : ~IsFree(m, b)}

ListOf(m, F) == [b \in F |-> Index(BlockSize(m, b))]

Heap(m, brk1, B, F) ==
  /\ Tiles(m, brk1, B) /\ F \subseteq Frees(m, B)
  /\ \E rk : Links(m, F, ListOf(m, F), rk)

\* The links of different blocks, and the list heads, are different words.
LEMMA BlocksLinkable ==
  ASSUME NEW m, NEW brk1, NEW B, Tiles(m, brk1, B), NEW F \in SUBSET B
  PROVE  Linkable(F)
<1>1. \A b \in F : b \in Eights /\ b >= 72 /\ b \in Words /\ b + 4 \in Words
  BY TilesFacts, InWords
<1>2. MAX_HEAP \in Nat /\ MAX_HEAP >= 72
  BY SizesAssumption, TilesFacts
<1>3. ASSUME NEW i \in 1 .. 14 PROVE 4 * i \in Words
  <2>1. i \in 0 .. MAX_HEAP \div 4 + 11
    BY <1>2
  <2>. QED BY <2>1 DEF Words, WSIZE
<1>. QED BY <1>1, <1>3 DEF Linkable

\* Taking a block out of the lists changes nothing else.
LEMMA DeleteHeap ==
  ASSUME NEW m, NEW brk1, NEW B, NEW F, Heap(m, brk1, B, F), NEW b \in F
  PROVE  /\ Heap(delete_block(m, b), brk1, B, F \ {b})
         /\ SameBlocks(m, delete_block(m, b), B)
         /\ \A c \in B \ F : Untouched(m, delete_block(m, b), c)
<1>. DEFINE m2 == delete_block(m, b)
            G  == F \ {b}
<1>1. PICK rk : Links(m, F, ListOf(m, F), rk)
  BY DEF Heap
<1>2. Tiles(m, brk1, B) /\ F \subseteq Frees(m, B) /\ F \in SUBSET B
  BY DEF Heap, Frees
<1>3. Linkable(F) /\ DOMAIN m = Words
  BY <1>2, BlocksLinkable, TilesFacts
<1>4. /\ DOMAIN m2 = Words
      /\ Links(m2, F \ {b}, ListOf(m, F), rk)
      /\ \A a \in Words \ LinkWords(F) : m2[a] = m[a]
  BY <1>1, <1>3, DeleteLinks
<1>. HIDE DEF m2
<1>5. /\ Tiles(m2, brk1, B) /\ SameBlocks(m, m2, B)
      /\ \A c \in B \ F : Untouched(m, m2, c)
  BY <1>2, <1>4, OnlyLinksChange
<1>6. \A c \in G : ListOf(m2, G)[c] = ListOf(m, F)[c]
  BY <1>2, <1>5 DEF ListOf, SameBlocks
<1>7. Links(m2, G, ListOf(m2, G), rk)
  BY <1>4, <1>6, LinksKept
<1>8. G \subseteq Frees(m2, B)
  BY <1>2, <1>5 DEF Frees, SameBlocks
<1>9. Heap(m2, brk1, B, G)
  BY <1>5, <1>7, <1>8 DEF Heap
<1>. QED BY <1>5, <1>9 DEF m2

\* Nor does putting a free one into them.
LEMMA AddHeap ==
  ASSUME NEW m, NEW brk1, NEW B, NEW F, Heap(m, brk1, B, F), NEW b \in B \ F, IsFree(m, b)
  PROVE  /\ Heap(add_block(m, b), brk1, B, F \cup {b})
         /\ SameBlocks(m, add_block(m, b), B)
         /\ \A c \in B \ (F \cup {b}) : Untouched(m, add_block(m, b), c)
<1>. DEFINE m2 == add_block(m, b)
            G  == F \cup {b}
<1>1. PICK rk : Links(m, F, ListOf(m, F), rk)
  BY DEF Heap
<1>. DEFINE rk2 == [c \in G |-> IF c = b THEN 0 ELSE rk[c] + 1]
<1>2. Tiles(m, brk1, B) /\ F \subseteq Frees(m, B) /\ G \in SUBSET B
  BY DEF Heap, Frees
<1>3. Linkable(G) /\ DOMAIN m = Words
  BY <1>2, BlocksLinkable, TilesFacts
<1>4. ListOf(m, G)[b] = Index(BlockSize(m, b)) /\ ListOf(m, G)[b] \in 1 .. 14
  BY <1>2, TilesFacts, HasList DEF ListOf
<1>5. Links(m, F, ListOf(m, G), rk)
  <2>1. \A c \in F : ListOf(m, G)[c] = ListOf(m, F)[c]
    BY DEF ListOf
  <2>. QED BY <1>1, <2>1, LinksKept
<1>6. /\ DOMAIN m2 = Words
      /\ Links(m2, G, ListOf(m, G), rk2)
      /\ \A a \in Words \ LinkWords(G) : m2[a] = m[a]
  BY <1>3, <1>4, <1>5, AddLinks
<1>. HIDE DEF m2, rk2
<1>7. /\ Tiles(m2, brk1, B) /\ SameBlocks(m, m2, B)
      /\ \A c \in B \ G : Untouched(m, m2, c)
  BY <1>2, <1>6, OnlyLinksChange
<1>8. \A c \in G : ListOf(m2, G)[c] = ListOf(m, G)[c]
  BY <1>2, <1>7 DEF ListOf, SameBlocks
<1>9. Links(m2, G, ListOf(m2, G), rk2)
  BY <1>6, <1>8, LinksKept
<1>10. G \subseteq Frees(m2, B)
  BY <1>2, <1>7 DEF Frees, SameBlocks
<1>11. Heap(m2, brk1, B, G)
  BY <1>7, <1>9, <1>10 DEF Heap
<1>. QED BY <1>7, <1>11 DEF m2

\* What is in the lists stays there as long as it is untouched.
LEMMA UntouchedLists ==
  ASSUME NEW m, NEW brk1, NEW B, NEW F, Heap(m, brk1, B, F),
         NEW m2, NEW brk2, NEW B2, Tiles(m2, brk2, B2), F \subseteq B2,
         \A i \in 1 .. 14 : m2[4 * i] = m[4 * i], \A c \in F : Untouched(m, m2, c)
  PROVE  Heap(m2, brk2, B2, F)
<1>1. PICK rk : Links(m, F, ListOf(m, F), rk)
  BY DEF Heap
<1>2. Tiles(m, brk1, B) /\ F \subseteq Frees(m, B) /\ F \subseteq B
  BY DEF Heap, Frees
<1>3. \A c \in F : /\ BlockSize(m2, c) = BlockSize(m, c) /\ (IsFree(m2, c) <=> IsFree(m, c))
                   /\ m2[c] = m[c] /\ m2[c + 4] = m[c + 4]
  BY <1>2, UntouchedKept
<1>4. \A a \in LinkWords(F) : m2[a] = m[a]
  BY <1>3 DEF LinkWords
<1>5. \A c \in F : ListOf(m2, F)[c] = ListOf(m, F)[c]
  BY <1>3 DEF ListOf
<1>6. Links(m2, F, ListOf(m2, F), rk)
  BY <1>1, <1>4, <1>5, LinksKept
<1>7. F \subseteq Frees(m2, B2)
  BY <1>2, <1>3 DEF Frees
<1>. QED BY <1>6, <1>7 DEF Heap

\* From b to e there are the tags of one block; outside nothing has changed.
Retagged(m, m2, b, e, x) ==
  /\ DOMAIN m2 = Words
  /\ m2[b - 4] = PACK(e - b, x) /\ m2[e - 8] = PACK(e - b, x)
  /\ \A a \in Words : a < b - 4 \/ a >= e - 4 => m2[a] = m[a]

Outside(B, b, e) == {c \in B : c <= b \/ c >= e}

\* The blocks from b up to e become one, or b alone is tagged anew.
LEMMA TagHeap ==
  ASSUME NEW m, NEW brk1, NEW B, NEW F, Heap(m, brk1, B, F),
         NEW b \in B, NEW e \in B \cup {brk1}, b < e, \A c \in F : c < b \/ c >= e,
         NEW x \in {0, 1}, NEW m2, Retagged(m, m2, b, e, x),
         NEW B2, B2 = Outside(B, b, e)
  PROVE  /\ Heap(m2, brk1, B2, F)
         /\ BlockSize(m2, b) = e - b /\ (IsFree(m2, b) <=> x = 0)
         /\ \A c \in B2 \ {b} : Untouched(m, m2, c)
<1>. USE DEF Retagged, Outside
<1>. DEFINE n  == SizesOf(m, B)
            n2 == SizesOf(m2, B2)
<1>1. Tiles(m, brk1, B) /\ F \subseteq B
  BY DEF Heap, Frees
<1>2. /\ DOMAIN m = Words
      /\ brk1 \in Eights /\ brk1 \in Nat /\ 72 <= brk1 /\ brk1 <= MAX_HEAP
      /\ B \subseteq Eights /\ B \subseteq Nat
      /\ \A c \in B : /\ c >= 72 /\ BlockOK(m, c)
                      /\ BlockSize(m, c) \in Eights /\ BlockSize(m, c) \in Nat
                      /\ BlockSize(m, c) >= 16
                      /\ c + BlockSize(m, c) <= brk1
      /\ \A c, d \in B : c < d => c + BlockSize(m, c) <= d
  BY <1>1, TilesFacts
<1>3. e \in Eights /\ e \in Nat /\ b \in Eights /\ b \in Nat /\ b + BlockSize(m, b) <= e
      /\ e <= brk1
  <2>1. CASE e \in B
    BY <1>2, <2>1
  <2>2. CASE e = brk1
    BY <1>2, <2>2
  <2>. QED BY <2>1, <2>2
<1>4. e - b \in Eights /\ e - b >= 16
  <2>1. b <= e /\ e - b >= 16
    BY <1>2, <1>3
  <2>2. e - b \in Eights
    BY <1>3, <2>1, EightsClosed, Zenon
  <2>. QED BY <2>1, <2>2
<1>5. BlockOK(m2, b) /\ BlockSize(m2, b) = e - b /\ (IsFree(m2, b) <=> x = 0)
  <2>1. b >= FirstBlock
    BY <1>2 DEF FirstBlock, WSIZE
  <2>2. b + (e - b) - 8 = e - 8
    BY <1>3
  <2>. QED BY <1>3, <1>4, <2>1, <2>2, BlockTagged
<1>6. ASSUME NEW c \in B2 \ {b} PROVE Untouched(m, m2, c)
  <2>1. c \in B /\ (c + BlockSize(m, c) <= b \/ c >= e)
    BY <1>2, <1>3
  <2>2. ASSUME NEW a \in Extent(m, c) PROVE m2[a] = m[a]
    <3>1. a \in Words /\ a \in Nat /\ c - 4 <= a /\ a < c - 4 + BlockSize(m, c)
      BY <1>1, InWords DEF Extent
    <3>2. a < b - 4 \/ a >= e - 4
      BY <1>2, <1>3, <2>1, <3>1
    <3>. QED BY <3>1, <3>2
  <2>. QED BY <2>2 DEF Untouched
<1>7. ASSUME NEW c \in B2 \ {b} PROVE BlockOK(m2, c) /\ BlockSize(m2, c) = BlockSize(m, c)
  BY <1>1, <1>6, <1>7, UntouchedKept
<1>8. EndsOK(m2, brk1)
  <2>1. {60, 64, brk1 - 4} \subseteq Words
    BY <1>1, InWords
  <2>2. m2[60] = m[60] /\ m2[64] = m[64] /\ m2[brk1 - 4] = m[brk1 - 4]
    BY <1>2, <1>3, <2>1
  <2>. QED BY <1>1, <2>2 DEF Tiles, EndsOK, WSIZE
<1>9. Steps(n2, brk1, B2)
  <2>1. Steps(n, brk1, B) /\ \A c \in B : n[c] \in Eights
    BY <1>1, <1>2 DEF Tiles, SizesOf
  <2>2. b \in B2
    BY <1>3
  <2>3. n2[b] = e - b /\ \A c \in B2 : c # b => n2[c] = n[c]
    BY <1>5, <1>7, <2>2 DEF SizesOf
  <2>4. brk1 \in Eights /\ B \subseteq Eights
    BY <1>2
  <2>. HIDE DEF n, n2
  <2>. QED BY <2>1, <2>3, <2>4, StepsMerged
<1>10. Tiles(m2, brk1, B2)
  BY <1>5, <1>7, <1>8, <1>9 DEF Tiles
<1>11. F \subseteq B2 \ {b}
  BY <1>1, <1>2, <1>3
<1>12. \A i \in 1 .. 14 : m2[4 * i] = m[4 * i]
  <2>1. \A i \in 1 .. 14 : 4 * i \in Words
    BY <1>1, BlocksLinkable DEF Linkable
  <2>. QED BY <1>2, <2>1
<1>13. Heap(m2, brk1, B2, F)
  BY <1>6, <1>10, <1>11, <1>12, UntouchedLists
<1>. QED BY <1>5, <1>6, <1>13

\* At b there are the tags of two blocks; outside nothing has changed.
Halved(m, m2, b, s1, s2, x1, x2) ==
  /\ DOMAIN m2 = Words
  /\ m2[b - 4] = PACK(s1, x1) /\ m2[b + s1 - 8] = PACK(s1, x1)
  /\ m2[b + s1 - 4] = PACK(s2, x2) /\ m2[b + s1 + s2 - 8] = PACK(s2, x2)
  /\ \A a \in Words : a < b - 4 \/ a >= b + s1 + s2 - 4 => m2[a] = m[a]

\* Block b becomes two.
LEMMA SplitHeap ==
  ASSUME NEW m, NEW brk1, NEW B, NEW F, Heap(m, brk1, B, F), NEW b \in B \ F,
         NEW s1 \in Eights, NEW s2 \in Eights, s1 >= 16, s2 >= 16, s1 + s2 = BlockSize(m, b),
         NEW x1 \in {0, 1}, NEW x2 \in {0, 1}, NEW m2, Halved(m, m2, b, s1, s2, x1, x2)
  PROVE  /\ Heap(m2, brk1, B \cup {b + s1}, F) /\ b + s1 \notin B
         /\ BlockSize(m2, b) = s1 /\ (IsFree(m2, b) <=> x1 = 0)
         /\ BlockSize(m2, b + s1) = s2 /\ (IsFree(m2, b + s1) <=> x2 = 0)
         /\ \A c \in B \ {b} : Untouched(m, m2, c)
<1>. USE DEF Halved
<1>. DEFINE r  == b + s1
            B2 == B \cup {r}
            n  == SizesOf(m, B)
            n2 == SizesOf(m2, B2)
<1>1. Tiles(m, brk1, B) /\ F \subseteq B
  BY DEF Heap, Frees
<1>2. /\ DOMAIN m = Words
      /\ brk1 \in Eights /\ brk1 \in Nat /\ 72 <= brk1 /\ brk1 <= MAX_HEAP
      /\ B \subseteq Eights /\ B \subseteq Nat
      /\ \A c \in B : /\ c >= 72 /\ BlockOK(m, c)
                      /\ BlockSize(m, c) \in Eights /\ BlockSize(m, c) \in Nat
                      /\ BlockSize(m, c) >= 16
                      /\ c + BlockSize(m, c) <= brk1
      /\ \A c, d \in B : c < d => c + BlockSize(m, c) <= d
  BY <1>1, TilesFacts
<1>3. /\ s1 \in Nat /\ s2 \in Nat /\ b \in Nat /\ b \in Eights /\ b >= 72
      /\ b + s1 + s2 <= brk1
  BY <1>2, EightsClosed
<1>4. r \in Eights /\ r \in Nat /\ r >= 72
  <2>1. r \in Eights
    BY <1>3, EightsClosed, Zenon
  <2>. QED BY <1>3, <2>1
<1>5. /\ BlockOK(m2, b) /\ BlockSize(m2, b) = s1 /\ (IsFree(m2, b) <=> x1 = 0)
      /\ BlockOK(m2, r) /\ BlockSize(m2, r) = s2 /\ (IsFree(m2, r) <=> x2 = 0)
  <2>1. b >= FirstBlock /\ r >= FirstBlock
    BY <1>3, <1>4 DEF FirstBlock, WSIZE
  <2>2. /\ BlockOK(m2, b) /\ BlockSize(m2, b) = s1 /\ (IsFree(m2, b) <=> x1 = 0)
    BY <1>3, <2>1, BlockTagged
  <2>3. m2[r - 4] = PACK(s2, x2) /\ m2[r + s2 - 8] = PACK(s2, x2)
    <3>1. r - 4 = b + s1 - 4 /\ r + s2 - 8 = b + s1 + s2 - 8
      BY <1>3
    <3>. QED BY <3>1
  <2>4. /\ BlockOK(m2, r) /\ BlockSize(m2, r) = s2 /\ (IsFree(m2, r) <=> x2 = 0)
    <3>. HIDE DEF r
    <3>. QED BY <1>4, <2>1, <2>3, BlockTagged
  <2>. QED BY <2>2, <2>4
<1>6. ASSUME NEW c \in B \ {b} PROVE Untouched(m, m2, c)
  <2>1. c \in B /\ (c + BlockSize(m, c) <= b \/ c >= b + s1 + s2)
    BY <1>2, <1>3
  <2>2. ASSUME NEW a \in Extent(m, c) PROVE m2[a] = m[a]
    <3>1. a \in Words /\ a \in Nat /\ c - 4 <= a /\ a < c - 4 + BlockSize(m, c)
      BY <1>1, InWords DEF Extent
    <3>2. a < b - 4 \/ a >= b + s1 + s2 - 4
      BY <1>2, <1>3, <2>1, <3>1
    <3>. QED BY <3>1, <3>2
  <2>. QED BY <2>2 DEF Untouched
<1>7. ASSUME NEW c \in B \ {b} PROVE BlockOK(m2, c) /\ BlockSize(m2, c) = BlockSize(m, c)
  BY <1>1, <1>6, <1>7, UntouchedKept
<1>8. EndsOK(m2, brk1)
  <2>1. {60, 64, brk1 - 4} \subseteq Words
    BY <1>1, InWords
  <2>2. m2[60] = m[60] /\ m2[64] = m[64] /\ m2[brk1 - 4] = m[brk1 - 4]
    BY <1>2, <1>3, <2>1
  <2>. QED BY <1>1, <2>2 DEF Tiles, EndsOK, WSIZE
<1>9. Steps(n2, brk1, B2) /\ r \notin B
  <2>1. Steps(n, brk1, B) /\ \A c \in B : n[c] \in Eights
    BY <1>1, <1>2 DEF Tiles, SizesOf
  <2>2. /\ n2[b] = s1 /\ n2[b + s1] = s2 /\ \A c \in B : c # b => n2[c] = n[c]
        /\ s1 + s2 = n[b]
    BY <1>5, <1>7 DEF SizesOf
  <2>3. brk1 \in Eights /\ B \subseteq Eights /\ b \in B
    BY <1>2
  <2>. HIDE DEF n, n2
  <2>4. Steps(n2, brk1, B \cup {b + s1}) /\ b + s1 \notin B
    BY <2>1, <2>2, <2>3, StepsSplit
  <2>. QED BY <2>4
<1>10. Tiles(m2, brk1, B2)
  BY <1>5, <1>7, <1>8, <1>9 DEF Tiles
<1>11. F \subseteq B \ {b}
  BY <1>1
<1>12. \A i \in 1 .. 14 : m2[4 * i] = m[4 * i]
  <2>1. \A i \in 1 .. 14 : 4 * i \in Words
    BY <1>1, BlocksLinkable DEF Linkable
  <2>. QED BY <1>3, <2>1
<1>13. Heap(m2, brk1, B2, F)
  BY <1>6, <1>10, <1>11, <1>12, UntouchedLists
<1>. QED BY <1>5, <1>6, <1>9, <1>13

\* The heap is extended by a free block.
LEMMA GrowHeap ==
  ASSUME NEW m, NEW brk1, NEW B, NEW F, Heap(m, brk1, B, F),
         NEW sz \in Eights, sz >= 16, brk1 + sz <= MAX_HEAP,
         NEW m2, DOMAIN m2 = Words,
         m2[brk1 - 4] = PACK(sz, 0), m2[brk1 + sz - 8] = PACK(sz, 0),
         m2[brk1 + sz - 4] = PACK(0, 1),
         \A a \in Words : a < brk1 - 4 => m2[a] = m[a]
  PROVE  /\ Heap(m2, brk1 + sz, B \cup {brk1}, F) /\ brk1 \notin B
         /\ BlockSize(m2, brk1) = sz /\ IsFree(m2, brk1)
         /\ \A c \in B : Untouched(m, m2, c)
<1>. DEFINE e  == brk1 + sz
            B2 == B \cup {brk1}
            n  == SizesOf(m, B)
            n2 == SizesOf(m2, B2)
<1>1. Tiles(m, brk1, B) /\ F \subseteq B
  BY DEF Heap, Frees
<1>2. /\ DOMAIN m = Words
      /\ brk1 \in Eights /\ brk1 \in Nat /\ 72 <= brk1 /\ brk1 <= MAX_HEAP
      /\ B \subseteq Eights /\ B \subseteq Nat
      /\ \A c \in B : /\ c >= 72 /\ BlockOK(m, c)
                      /\ BlockSize(m, c) \in Eights /\ BlockSize(m, c) \in Nat
                      /\ BlockSize(m, c) >= 16
                      /\ c + BlockSize(m, c) <= brk1
      /\ \A c, d \in B : c < d => c + BlockSize(m, c) <= d
  BY <1>1, TilesFacts
<1>3. sz \in Nat /\ e \in Nat /\ e \in Eights
  BY <1>2, EightsClosed
<1>4. BlockOK(m2, brk1) /\ BlockSize(m2, brk1) = sz /\ IsFree(m2, brk1)
  <2>1. brk1 >= FirstBlock
    BY <1>2 DEF FirstBlock, WSIZE
  <2>. QED BY <1>2, <2>1, BlockTagged
<1>5. ASSUME NEW c \in B PROVE Untouched(m, m2, c)
  <2>1. ASSUME NEW a \in Extent(m, c) PROVE m2[a] = m[a]
    <3>1. a \in Words /\ a \in Nat /\ a < c - 4 + BlockSize(m, c)
      BY <1>1, InWords DEF Extent
    <3>2. a < brk1 - 4
      BY <1>2, <3>1
    <3>. QED BY <3>1, <3>2
  <2>. QED BY <2>1 DEF Untouched
<1>6. ASSUME NEW c \in B PROVE BlockOK(m2, c) /\ BlockSize(m2, c) = BlockSize(m, c)
  BY <1>1, <1>5, <1>6, UntouchedKept
<1>7. EndsOK(m2, e)
  <2>1. {60, 64} \subseteq Words
    BY <1>1, InWords
  <2>2. m2[60] = m[60] /\ m2[64] = m[64]
    BY <1>2, <2>1
  <2>3. m2[e - 4] = PACK(0, 1) /\ FirstBlock <= e
    <3>1. e - 4 = brk1 + sz - 4
      BY <1>2, <1>3
    <3>. QED BY <1>2, <1>3, <3>1 DEF FirstBlock, WSIZE
  <2>. QED BY <1>1, <1>3, <2>2, <2>3 DEF Tiles, EndsOK, WSIZE
<1>8. brk1 \notin B
  BY <1>2
<1>9. Steps(n2, e, B2)
  <2>1. /\ \A c \in B : n[c] >= 16 /\ c + n[c] \in B \cup {brk1} /\ c + n[c] <= brk1
        /\ \A c, d \in B : c < d => c + n[c] <= d
        /\ \A c \in B \cup {brk1} : c = FirstBlock \/ \E d \in B : d + n[d] = c
    BY <1>1 DEF Tiles, Steps
  <2>2. n2[brk1] = sz /\ \A c \in B : n2[c] = n[c] /\ n[c] \in Nat
    BY <1>2, <1>4, <1>6 DEF SizesOf
  <2>. HIDE DEF n, n2
  <2>3. ASSUME NEW c \in B2 PROVE n2[c] >= 16 /\ c + n2[c] \in B2 \cup {e} /\ c + n2[c] <= e
    BY <1>2, <1>3, <2>1, <2>2
  <2>4. ASSUME NEW c \in B2, NEW d \in B2, c < d PROVE c + n2[c] <= d
    <3>1. \A a \in B : a < brk1
      BY <1>2, <2>1
    <3>2. c \in B
      <4>1. c # brk1
        <5>1. SUFFICES ASSUME c = brk1 PROVE FALSE
          OBVIOUS
        <5>2. d \in B => d < brk1 /\ d \in Nat
          BY <1>2, <3>1
        <5>3. d = brk1 \/ d \in B
          OBVIOUS
        <5>. QED BY <1>2, <2>4, <5>1, <5>2, <5>3
      <4>. QED BY <4>1
    <3>3. CASE d \in B
      BY <2>1, <2>2, <2>4, <3>2, <3>3
    <3>4. CASE d = brk1
      BY <2>1, <2>2, <3>2, <3>4
    <3>. QED BY <3>3, <3>4
  <2>5. ASSUME NEW c \in B2 \cup {e} PROVE c = FirstBlock \/ \E d \in B2 : d + n2[d] = c
    BY <2>1, <2>2
  <2>. QED BY <2>3, <2>4, <2>5 DEF Steps
<1>10. Tiles(m2, e, B2)
  BY <1>4, <1>6, <1>7, <1>9 DEF Tiles
<1>11. \A i \in 1 .. 14 : m2[4 * i] = m[4 * i]
  <2>1. \A i \in 1 .. 14 : 4 * i \in Words
    BY <1>1, BlocksLinkable DEF Linkable
  <2>. QED BY <1>2, <2>1
<1>12. Heap(m2, e, B2, F)
  BY <1>1, <1>5, <1>10, <1>11, UntouchedLists
<1>. QED BY <1>4, <1>5, <1>8, <1>12

-----------------------------------------------------------------------------
(***************************************************************************)
(* imme_combine.                                                           *)
(***************************************************************************)
LEMMA UntouchedTwice ==
  ASSUME NEW m, NEW brk1, NEW B, Tiles(m, brk1, B), NEW b \in B,
         NEW m1, Untouched(m, m1, b), NEW m2, Untouched(m1, m2, b)
  PROVE  Untouched(m, m2, b)
<1>1. Extent(m1, b) = Extent(m, b)
  BY UntouchedKept
<1>. QED BY <1>1 DEF Untouched

\* Out of the lists, if it is there.
Unlinked(m, b) == IF IsFree(m, b) THEN delete_block(m, b) ELSE m

\* Taking a free block out of the lists leaves the allocated ones alone.
LEMMA UnlinkHeap ==
  ASSUME NEW m, NEW brk1, NEW B, NEW F, Heap(m, brk1, B, F), NEW b, IsFree(m, b) => b \in F
  PROVE  /\ Heap(Unlinked(m, b), brk1, B, F \ {b})
         /\ SameBlocks(m, Unlinked(m, b), B)
         /\ \A c \in B \ F : Untouched(m, Unlinked(m, b), c)
<1>1. CASE IsFree(m, b)
  BY <1>1, DeleteHeap DEF Unlinked
<1>2. CASE ~IsFree(m, b)
  <2>1. b \notin F
    BY <1>2 DEF Heap, Frees
  <2>2. F \ {b} = F
    BY <2>1
  <2>. QED BY <1>2, <2>2 DEF Unlinked, SameBlocks, Untouched
<1>. QED BY <1>1, <1>2

\* Free blocks touch nowhere, or only at p.
NoTouch(m, B) ==
  \A b, c \in B : IsFree(m, b) /\ IsFree(m, c) => b + BlockSize(m, b) # c

NoTouchBut(m, B, p) ==
  \A b, c \in B : IsFree(m, b) /\ IsFree(m, c) /\ b # p /\ c # p => b + BlockSize(m, b) # c

\* No free block is next to p.
Lonely(m, B, p) ==
  \A c \in B : IsFree(m, c) => c + BlockSize(m, c) # p /\ p + BlockSize(m, p) # c

\* A block and its neighbours are taken out of the lists.
LEMMA UnlinkThree ==
  ASSUME NEW m, NEW brk1, NEW B, Heap(m, brk1, B, Frees(m, B)), NEW p \in B,
         NEW prev, prev = PREVBLK(m, p), NEW next, next = NEXTBLK(m, p),
         NEW m3, m3 = Unlinked(Unlinked(Unlinked(m, p), prev), next)
  PROVE  /\ Heap(m3, brk1, B, Frees(m, B) \ {p, prev, next})
         /\ SameBlocks(m, m3, B)
         /\ \A c \in Used(m, B) : Untouched(m, m3, c)
<1>. DEFINE F  == Frees(m, B)
            m1 == Unlinked(m, p)
            m2 == Unlinked(m1, prev)
<1>1. Tiles(m, brk1, B)
  BY DEF Heap
<1>2. prev \in B \cup {64} /\ next \in B \cup {brk1}
  BY <1>1, Neighbours
<1>3. Used(m, B) = B \ F /\ F \subseteq B
  BY DEF Used, Frees
<1>4. Heap(m1, brk1, B, F \ {p}) /\ SameBlocks(m, m1, B) /\ \A c \in B \ F : Untouched(m, m1, c)
  <2>1. IsFree(m, p) => p \in F
    BY DEF Frees
  <2>. QED BY <2>1, UnlinkHeap
<1>. HIDE DEF m1
<1>5. p # prev /\ p # next /\ prev # next
  <2>1. p \in Nat /\ BlockSize(m, p) \in Nat /\ BlockSize(m, p) >= 16 /\ p >= 72
    BY <1>1, TilesFacts
  <2>2. next = p + BlockSize(m, p)
    BY <1>1, Neighbours
  <2>3. prev = 64 \/ (prev \in Nat /\ BlockSize(m, prev) \in Nat /\ BlockSize(m, prev) >= 16
                      /\ prev + BlockSize(m, prev) = p)
    <3>1. prev = 64 \/ (prev \in B /\ prev + BlockSize(m, prev) = p)
      BY <1>1, Neighbours
    <3>. QED BY <1>1, <3>1, TilesFacts
  <2>. QED BY <2>1, <2>2, <2>3
<1>6. /\ Heap(m2, brk1, B, F \ {p, prev}) /\ SameBlocks(m1, m2, B)
      /\ \A c \in B \ (F \ {p}) : Untouched(m1, m2, c)
  <2>1. ~IsFree(m1, 64)
    BY <1>4, Neighbours DEF Heap
  <2>2. IsFree(m1, prev) => prev \in F \ {p}
    BY <1>2, <1>4, <1>5, <2>1 DEF SameBlocks, Frees
  <2>3. /\ Heap(m2, brk1, B, (F \ {p}) \ {prev}) /\ SameBlocks(m1, m2, B)
        /\ \A c \in B \ (F \ {p}) : Untouched(m1, m2, c)
    BY <1>4, <2>2, UnlinkHeap
  <2>4. (F \ {p}) \ {prev} = F \ {p, prev}
    OBVIOUS
  <2>. QED BY <2>3, <2>4
<1>. HIDE DEF m2
<1>7. /\ Heap(m3, brk1, B, F \ {p, prev, next}) /\ SameBlocks(m2, m3, B)
      /\ \A c \in B \ (F \ {p, prev}) : Untouched(m2, m3, c)
  <2>1. ~IsFree(m2, brk1)
    BY <1>6, Neighbours DEF Heap
  <2>2. IsFree(m2, next) => next \in F \ {p, prev}
    BY <1>2, <1>4, <1>5, <1>6, <2>1 DEF SameBlocks, Frees
  <2>3. m3 = Unlinked(m2, next)
    BY DEF m1, m2
  <2>4. /\ Heap(m3, brk1, B, (F \ {p, prev}) \ {next}) /\ SameBlocks(m2, m3, B)
        /\ \A c \in B \ (F \ {p, prev}) : Untouched(m2, m3, c)
    BY <1>6, <2>2, <2>3, UnlinkHeap
  <2>5. (F \ {p, prev}) \ {next} = F \ {p, prev, next}
    OBVIOUS
  <2>. QED BY <2>4, <2>5
<1>8. SameBlocks(m, m3, B)
  BY <1>4, <1>6, <1>7 DEF SameBlocks
<1>9. ASSUME NEW c \in Used(m, B) PROVE Untouched(m, m3, c)
  <2>1. c \in B /\ Untouched(m, m1, c) /\ Untouched(m1, m2, c) /\ Untouched(m2, m3, c)
    BY <1>3, <1>4, <1>6, <1>7
  <2>2. Untouched(m, m2, c)
    BY <1>1, <2>1, UntouchedTwice
  <2>. QED BY <1>1, <2>1, <2>2, UntouchedTwice
<1>. QED BY <1>7, <1>8, <1>9

\* imme_combine in the terms used here.
LEMMA CombineSays ==
  ASSUME NEW m, NEW brk1, NEW p, NEW prev, prev = PREVBLK(m, p), NEW next, next = NEXTBLK(m, p),
         prev # next,
         NEW h, h = [mem |-> m, brk |-> brk1, bp |-> p]
  PROVE  /\ ~IsFree(m, prev) /\ ~IsFree(m, next) =>
              imme_combine(h) = [mem |-> Unlinked(m, p), brk |-> brk1, bp |-> p]
         /\ \A q, sz :
              /\ IsFree(m, prev) \/ IsFree(m, next)
              /\ q = IF IsFree(m, prev) THEN prev ELSE p
              /\ sz = (IF IsFree(m, prev) THEN BlockSize(m, prev) ELSE 0) + BlockSize(m, p)
                        + (IF IsFree(m, next) THEN BlockSize(m, next) ELSE 0)
              => imme_combine(h) =
                   [mem |-> Tagged(Unlinked(Unlinked(Unlinked(m, p), prev), next), q, sz, 0),
                    brk |-> brk1, bp |-> q]
<1>. DEFINE freed == {b \in {prev, next} : IsFree(m, b)}
<1>1. /\ prev \in freed <=> IsFree(m, prev)
      /\ next \in freed <=> IsFree(m, next)
      /\ freed = {} <=> ~IsFree(m, prev) /\ ~IsFree(m, next)
  OBVIOUS
<1>2. h.mem = m /\ h.bp = p
  OBVIOUS
<1>. HIDE DEF freed
<1>3. imme_combine(h) =
        IF freed = {} THEN [h EXCEPT !.mem = IF IsFree(@, p) THEN delete_block(@, p) ELSE @]
        ELSE [h EXCEPT
          !.mem = Tagged(Unlinked(Unlinked(Unlinked(@, p), prev), next),
                         IF prev \in freed THEN prev ELSE p,
                         (IF prev \in freed THEN BlockSize(m, prev) ELSE 0) + BlockSize(m, p)
                         + (IF next \in freed THEN BlockSize(m, next) ELSE 0), 0),
          !.bp = IF prev \in freed THEN prev ELSE p]
  BY <1>2 DEF imme_combine, Unlinked, freed
<1>. QED BY <1>1, <1>2, <1>3 DEF Unlinked

\* The free blocks besides p are as they were, or part of q.
FreesKept(m, B, p, m2, q, B2) ==
  \A c \in Frees(m, B) \ {p} :
    \/ BlockSize(m, c) <= BlockSize(m2, q)
    \/ c \in Frees(m2, B2) /\ BlockSize(m2, c) = BlockSize(m, c)

\* What imme_combine leaves behind: block q, in no list and with no free
\* neighbour, made of p and what was free next to it.
CombinedTo(m, brk1, B, p, m2, q, B2) ==
  /\ Heap(m2, brk1, B2, Frees(m2, B2) \ {q}) /\ q \in B2 /\ B2 \subseteq B
  /\ NoTouchBut(m2, B2, q) /\ Lonely(m2, B2, q)
  /\ Used(m2, B2) \ {q} = Used(m, B) \ {p}
  /\ \A c \in Used(m, B) \ {p} : Untouched(m, m2, c)
  /\ FreesKept(m, B, p, m2, q, B2)
  /\ BlockSize(m2, q) >= BlockSize(m, p)
  /\ IsFree(m, p) => IsFree(m2, q)
  /\ q # p => /\ IsFree(m, q) /\ q + 16 <= p
              /\ BlockSize(m2, q) >= BlockSize(m, p) + (p - q)
  /\ ~IsFree(m, p) =>
       /\ \A a \in Words : p <= a /\ a < p + BlockSize(m, p) - 8 => m2[a] = m[a]
       /\ q # p => m2[p - 4] = m[p - 4]

\* No neighbour is free.
LEMMA CombineAlone ==
  ASSUME NEW m, NEW brk1, NEW B, Heap(m, brk1, B, Frees(m, B)), NEW p \in B,
         NoTouchBut(m, B, p), ~IsFree(m, PREVBLK(m, p)), ~IsFree(m, NEXTBLK(m, p))
  PROVE  CombinedTo(m, brk1, B, p, Unlinked(m, p), p, B)
<1>. DEFINE m2 == Unlinked(m, p)
            F  == Frees(m, B)
<1>0. Tiles(m, brk1, B)
  BY DEF Heap
<1>1. /\ Heap(m2, brk1, B, F \ {p}) /\ SameBlocks(m, m2, B)
      /\ \A c \in B \ F : Untouched(m, m2, c)
  <2>1. IsFree(m, p) => p \in F
    BY DEF Frees
  <2>. QED BY <2>1, UnlinkHeap
<1>. HIDE DEF m2
<1>2. Frees(m2, B) = F /\ Used(m2, B) = Used(m, B) /\ Used(m, B) = B \ F
  BY <1>1 DEF Frees, Used, SameBlocks
<1>3. NoTouchBut(m2, B, p)
  BY <1>1 DEF NoTouchBut, SameBlocks
<1>4. Lonely(m2, B, p)
  <2>1. \A c \in B : BlockSize(m2, c) = BlockSize(m, c) /\ (IsFree(m2, c) <=> IsFree(m, c))
    BY <1>1 DEF SameBlocks
  <2>2. /\ NEXTBLK(m, p) = p + BlockSize(m, p)
        /\ p = 72 \/ (PREVBLK(m, p) \in B /\ PREVBLK(m, p) + BlockSize(m, PREVBLK(m, p)) = p)
    BY <1>0, Neighbours
  <2>3. ASSUME NEW c \in B, IsFree(m, c) PROVE c + BlockSize(m, c) # p
    <3>1. /\ c \in Nat /\ BlockSize(m, c) \in Nat /\ BlockSize(m, c) >= 16 /\ c >= 72
      BY <1>0, TilesFacts
    <3>2. CASE p = 72
      BY <3>1, <3>2
    <3>3. CASE PREVBLK(m, p) \in B /\ PREVBLK(m, p) + BlockSize(m, PREVBLK(m, p)) = p
      <4>. DEFINE d == PREVBLK(m, p)
      <4>1. d \in B /\ d + BlockSize(m, d) = p
        BY <3>3
      <4>2. d # c /\ ~IsFree(m, d)
        BY <2>3
      <4>. HIDE DEF d
      <4>3. /\ d \in Nat /\ BlockSize(m, d) \in Nat /\ BlockSize(m, d) >= 16
            /\ d < c => d + BlockSize(m, d) <= c
            /\ c < d => c + BlockSize(m, c) <= d
        BY <1>0, <4>1, TilesFacts
      <4>. QED BY <3>1, <4>1, <4>2, <4>3
    <3>. QED BY <2>2, <3>2, <3>3
  <2>4. ASSUME NEW c \in B, IsFree(m, c) PROVE p + BlockSize(m, p) # c
    BY <2>2, <2>4
  <2>. QED BY <2>1, <2>3, <2>4 DEF Lonely
<1>5. p \in Used(m, B) => Untouched(m, m2, p)
  BY <1>1, <1>2
<1>6. ~IsFree(m, p) => \A a \in Words : p <= a /\ a < p + BlockSize(m, p) - 8 => m2[a] = m[a]
  <2>1. SUFFICES ASSUME ~IsFree(m, p), NEW a \in Words, p <= a, a < p + BlockSize(m, p) - 8
                 PROVE  m2[a] = m[a]
    OBVIOUS
  <2>2. a \in Extent(m, p)
    <3>1. p \in Nat /\ BlockSize(m, p) \in Nat /\ a \in Nat
      BY <1>0, TilesFacts, InWords
    <3>. QED BY <2>1, <3>1 DEF Extent
  <2>. QED BY <1>5, <2>1, <2>2 DEF Untouched, Used
<1>7. BlockSize(m2, p) = BlockSize(m, p) /\ (IsFree(m, p) => IsFree(m2, p))
      /\ BlockSize(m, p) \in Nat
  BY <1>0, <1>1, TilesFacts DEF SameBlocks
<1>8. BlockSize(m2, p) >= BlockSize(m, p)
  BY <1>7
<1>9. \A c \in Used(m, B) \ {p} : Untouched(m, m2, c)
  BY <1>1, <1>2
<1>10. FreesKept(m, B, p, m2, p, B)
  BY <1>1, <1>2 DEF FreesKept, SameBlocks, Frees
<1>. QED BY <1>1, <1>2, <1>3, <1>4, <1>6, <1>7, <1>8, <1>9, <1>10 DEF CombinedTo, m2

\* A neighbour is free.
LEMMA CombineMerges ==
  ASSUME NEW m, NEW brk1, NEW B, Heap(m, brk1, B, Frees(m, B)), NEW p \in B,
         NoTouchBut(m, B, p),
         NEW prev, prev = PREVBLK(m, p), NEW next, next = NEXTBLK(m, p),
         IsFree(m, prev) \/ IsFree(m, next),
         NEW q, q = IF IsFree(m, prev) THEN prev ELSE p,
         NEW sz, sz = (IF IsFree(m, prev) THEN BlockSize(m, prev) ELSE 0) + BlockSize(m, p)
                        + (IF IsFree(m, next) THEN BlockSize(m, next) ELSE 0),
         NEW m3, m3 = Unlinked(Unlinked(Unlinked(m, p), prev), next)
  PROVE  \E B2 : CombinedTo(m, brk1, B, p, Tagged(m3, q, sz, 0), q, B2)
<1>. DEFINE F  == Frees(m, B)
            F3 == F \ {p, prev, next}
            e  == q + sz
            m2 == Tagged(m3, q, sz, 0)
            B2 == {c \in B : c <= q \/ c >= e}
<1>0. Tiles(m, brk1, B)
  BY DEF Heap
<1>1. /\ Heap(m3, brk1, B, F3) /\ SameBlocks(m, m3, B)
      /\ \A c \in Used(m, B) : Untouched(m, m3, c)
  BY UnlinkThree
<1>2. /\ p \in Nat /\ BlockSize(m, p) \in Nat /\ BlockSize(m, p) >= 16 /\ p >= 72
      /\ next = p + BlockSize(m, p) /\ next \in B \cup {brk1}
      /\ IsFree(m, next) => next \in B
      /\ IsFree(m, prev) => prev \in B
      /\ prev \in B => prev + BlockSize(m, prev) = p
      /\ p = 72 \/ prev \in B
  BY <1>0, TilesFacts, Neighbours
<1>3. /\ brk1 \in Nat
      /\ \A c \in B : /\ c \in Nat /\ BlockSize(m, c) \in Nat /\ BlockSize(m, c) >= 16
                      /\ c >= 72 /\ c + BlockSize(m, c) \in B \cup {brk1}
                      /\ c + BlockSize(m, c) <= brk1
      /\ \A c, d \in B : c < d => c + BlockSize(m, c) <= d
  BY <1>0, TilesFacts
<1>4. /\ e = IF IsFree(m, next) THEN next + BlockSize(m, next) ELSE next
      /\ q \in B /\ q <= p /\ q \in Nat /\ e \in Nat /\ next \in Nat /\ next <= e
      /\ sz \in Nat /\ sz = e - q /\ sz >= BlockSize(m, p) + (p - q)
      /\ q # p => q = prev /\ IsFree(m, prev) /\ q + 16 <= p
      /\ sz >= BlockSize(m, p) + 16
  <2>1. CASE IsFree(m, prev) /\ IsFree(m, next)
    <3>1. prev \in Nat /\ BlockSize(m, prev) \in Nat /\ BlockSize(m, next) \in Nat
          /\ BlockSize(m, prev) >= 16 /\ prev + BlockSize(m, prev) = p /\ prev \in B
      BY <1>2, <1>3, <2>1
    <3>. QED BY <1>2, <2>1, <3>1
  <2>2. CASE IsFree(m, prev) /\ ~IsFree(m, next)
    <3>1. prev \in Nat /\ BlockSize(m, prev) \in Nat
          /\ BlockSize(m, prev) >= 16 /\ prev + BlockSize(m, prev) = p /\ prev \in B
      BY <1>2, <1>3, <2>2
    <3>. QED BY <1>2, <2>2, <3>1
  <2>3. CASE ~IsFree(m, prev) /\ IsFree(m, next)
    <3>1. BlockSize(m, next) \in Nat /\ BlockSize(m, next) >= 16
      BY <1>2, <1>3, <2>3
    <3>. QED BY <1>2, <2>3, <3>1
  <2>. QED BY <2>1, <2>2, <2>3
<1>5. e \in B \cup {brk1} /\ q < e
  BY <1>2, <1>3, <1>4
\* Between q and e there are no blocks but p and a free next.
<1>6. ASSUME NEW c \in B, q < c, c < e PROVE c = p \/ (c = next /\ IsFree(m, next))
  <2>1. CASE c < p
    <3>1. q = prev /\ prev \in B
      BY <1>2, <1>3, <1>4, <1>6, <2>1
    <3>2. prev + BlockSize(m, prev) <= c
      BY <1>3, <1>6, <3>1
    <3>. QED BY <1>2, <1>3, <2>1, <3>1, <3>2
  <2>2. CASE c > p
    <3>1. next <= c
      BY <1>2, <1>3, <2>2
    <3>2. IsFree(m, next)
      BY <1>3, <1>4, <1>6, <3>1
    <3>3. c = next \/ next + BlockSize(m, next) <= c
      BY <1>2, <1>3, <1>4, <3>1, <3>2
    <3>. QED BY <1>3, <1>4, <1>6, <3>2, <3>3
  <2>. QED BY <1>2, <1>3, <2>1, <2>2
<1>7. q # next /\ prev # p /\ prev # next /\ p # next
  <2>1. prev \in B => prev < p
    BY <1>2, <1>3
  <2>2. prev = 64 \/ prev \in B
    BY <1>0, Neighbours
  <2>. QED BY <1>2, <1>4, <2>1, <2>2
<1>8. /\ DOMAIN m3 = Words /\ DOMAIN m2 = Words
      /\ \A a \in Words : m2[a] = IF a = q - 4 \/ a = q - 8 + sz THEN PACK(sz, 0) ELSE m3[a]
  <2>1. DOMAIN m3 = Words
    BY <1>1, TilesFacts DEF Heap
  <2>. QED BY <2>1, TaggedWords
<1>. HIDE DEF m2, e
<1>9. /\ m2[q - 4] = PACK(e - q, 0) /\ m2[e - 8] = PACK(e - q, 0)
      /\ \A a \in Words : a < q - 4 \/ a >= e - 4 => m2[a] = m3[a]
  <2>1. /\ q - 4 \in Words /\ e - 8 \in Words /\ Words \subseteq Nat
    <3>1. q - 4 \in Words /\ Words \subseteq Nat
      BY <1>0, <1>4, InWords
    <3>2. e \in Eights /\ 8 <= e /\ e - 8 <= MAX_HEAP /\ 8 \in Eights
      <4>1. e \in Eights /\ e <= MAX_HEAP /\ MAX_HEAP \in Nat
        BY <1>0, <1>3, <1>5, TilesFacts, SizesAssumption
      <4>2. 8 \in Eights
        BY EightsClosed
      <4>3. q \in Nat /\ q >= 72 /\ e = q + sz /\ sz \in Nat
        BY <1>3, <1>4
      <4>4. 8 <= e
        BY <4>3
      <4>. QED BY <1>4, <4>1, <4>2, <4>4
    <3>3. e - 8 \in Eights
      BY <3>2, EightsClosed, Zenon
    <3>. QED BY <3>1, <3>2, <3>3, AreWords
  <2>2. q - 8 + sz = e - 8
    BY <1>4
  <2>3. \A a \in Words : a < q - 4 \/ a >= e - 4 => a # q - 4 /\ a # e - 8
    <3>1. q + 16 <= e
      BY <1>2, <1>4
    <3>. QED BY <1>4, <2>1, <3>1
  <2>4. \A a \in Words : m2[a] = IF a = q - 4 \/ a = e - 8 THEN PACK(e - q, 0) ELSE m3[a]
    BY <1>4, <1>8, <2>2
  <2>. QED BY <2>1, <2>3, <2>4
<1>10. \A c \in F3 : c < q \/ c >= e
  <2>1. ASSUME NEW c \in F3 PROVE c < q \/ c >= e
    <3>1. c \in B /\ c # p /\ c # prev /\ c # next
      BY DEF Frees
    <3>2. c # q
      BY <1>4, <3>1
    <3>. QED BY <1>3, <1>4, <1>6, <3>1, <3>2
  <2>. QED BY <2>1
<1>11. /\ Heap(m2, brk1, B2, F3)
       /\ BlockSize(m2, q) = e - q /\ IsFree(m2, q)
       /\ \A c \in B2 \ {q} : Untouched(m3, m2, c)
  <2>1. 0 \in {0, 1} /\ q \in B /\ e \in B \cup {brk1} /\ q < e /\ Heap(m3, brk1, B, F3)
        /\ DOMAIN m2 = Words /\ B2 = Outside(B, q, e)
    BY <1>1, <1>4, <1>5, <1>8 DEF Outside
  <2>a. Retagged(m3, m2, q, e, 0)
    BY <1>8, <1>9 DEF Retagged
  <2>. HIDE DEF F3, B2
  <2>2. /\ Heap(m2, brk1, B2, F3)
        /\ BlockSize(m2, q) = e - q /\ (IsFree(m2, q) <=> 0 = 0)
        /\ \A c \in B2 \ {q} : Untouched(m3, m2, c)
    BY <1>10, <2>1, <2>a, TagHeap
  <2>. QED BY <2>2
<1>12. ASSUME NEW c \in B2 \ {q}
       PROVE  /\ c \in B /\ c # p /\ BlockSize(m2, c) = BlockSize(m, c)
              /\ (IsFree(m2, c) <=> IsFree(m, c))
              /\ IsFree(m, c) => c # prev /\ c # next
  <2>1. c \in B /\ c # p
    BY <1>2, <1>3, <1>4
  <2>2. BlockSize(m2, c) = BlockSize(m3, c) /\ (IsFree(m2, c) <=> IsFree(m3, c))
    BY <1>1, <1>11, <2>1, UntouchedKept DEF Heap
  <2>3. IsFree(m, c) => c # prev /\ c # next
    <3>1. IsFree(m, prev) => q = prev
      OBVIOUS
    <3>2. IsFree(m, next) => next < e /\ q < next
      BY <1>2, <1>3, <1>4
    <3>. QED BY <1>3, <1>4, <2>1, <3>1, <3>2
  <2>. QED BY <1>1, <2>1, <2>2, <2>3 DEF SameBlocks
<1>13. Frees(m2, B2) \ {q} = F3 /\ Used(m2, B2) \ {q} = Used(m, B) \ {p}
  <2>1. ASSUME NEW c \in Frees(m2, B2) \ {q} PROVE c \in F3
    BY <1>12 DEF Frees
  <2>2. ASSUME NEW c \in F3 PROVE c \in Frees(m2, B2) \ {q}
    <3>1. c \in B2 \ {q} /\ IsFree(m, c)
      BY <1>3, <1>4, <1>10 DEF Frees
    <3>. QED BY <1>12, <3>1 DEF Frees
  <2>3. ASSUME NEW c \in Used(m2, B2) \ {q} PROVE c \in Used(m, B) \ {p}
    BY <1>12 DEF Used
  <2>4. ASSUME NEW c \in Used(m, B) \ {p} PROVE c \in Used(m2, B2) \ {q}
    <3>1. c \in B /\ ~IsFree(m, c) /\ c # p
      BY DEF Used
    <3>2. c # q
      BY <1>4, <3>1
    <3>3. c \in B2
      BY <1>3, <1>4, <1>6, <3>1, <3>2
    <3>. QED BY <1>12, <3>1, <3>2, <3>3 DEF Used
  <2>. QED BY <2>1, <2>2, <2>3, <2>4
<1>14. NoTouchBut(m2, B2, q)
  BY <1>12 DEF NoTouchBut
<1>15. Lonely(m2, B2, q)
  <2>1. SUFFICES ASSUME NEW c \in B2, IsFree(m2, c)
                 PROVE  c + BlockSize(m2, c) # q /\ q + BlockSize(m2, q) # c
    BY DEF Lonely
  <2>2. CASE c = q
    <3>1. e - q >= 16
      BY <1>2, <1>4
    <3>. QED BY <1>4, <1>11, <2>2, <3>1
  <2>3. CASE c # q
    <3>1. c \in B /\ c # p /\ BlockSize(m2, c) = BlockSize(m, c) /\ IsFree(m, c)
          /\ c # prev /\ c # next
      BY <1>12, <2>1, <2>3
    <3>2. c + BlockSize(m, c) # q
      <4>1. CASE IsFree(m, prev)
        BY <1>2, <1>7, <3>1, <4>1 DEF NoTouchBut
      <4>2. CASE ~IsFree(m, prev)
        <5>1. q = p
          BY <4>2
        <5>2. CASE p = 72
          BY <1>3, <3>1, <5>1, <5>2
        <5>3. CASE prev \in B
          <6>1. prev + BlockSize(m, prev) = p
            BY <1>2, <5>3
          <6>2. c < prev \/ prev < c
            BY <1>3, <3>1, <5>3
          <6>. QED BY <1>3, <3>1, <5>1, <5>3, <6>1, <6>2
        <5>. QED BY <1>2, <5>2, <5>3
      <4>. QED BY <4>1, <4>2
    <3>3. e # c
      <4>1. CASE IsFree(m, next)
        BY <1>2, <1>4, <1>7, <3>1, <4>1 DEF NoTouchBut
      <4>2. CASE ~IsFree(m, next)
        BY <1>4, <3>1, <4>2
      <4>. QED BY <4>1, <4>2
    <3>4. q + (e - q) = e
      BY <1>4
    <3>. QED BY <1>11, <3>1, <3>2, <3>3, <3>4
  <2>. QED BY <2>2, <2>3
<1>16. \A c \in Used(m, B) \ {p} : Untouched(m, m2, c)
  <2>1. ASSUME NEW c \in Used(m, B) \ {p} PROVE Untouched(m, m2, c)
    <3>1. c \in B2 \ {q} /\ c \in B
      BY <1>13 DEF Used
    <3>2. Untouched(m, m3, c) /\ Untouched(m3, m2, c)
      BY <1>1, <1>11, <3>1
    <3>. QED BY <1>0, <3>1, <3>2, UntouchedTwice
  <2>. QED BY <2>1
<1>17. ~IsFree(m, p) =>
         /\ \A a \in Words : p <= a /\ a < p + BlockSize(m, p) - 8 => m2[a] = m[a]
         /\ q # p => m2[p - 4] = m[p - 4]
  <2>1. SUFFICES ASSUME ~IsFree(m, p)
                 PROVE  /\ \A a \in Words : p <= a /\ a < p + BlockSize(m, p) - 8 => m2[a] = m[a]
                        /\ q # p => m2[p - 4] = m[p - 4]
    OBVIOUS
  <2>2. Untouched(m, m3, p)
    BY <1>1, <2>1 DEF Used
  <2>3. Words \subseteq Nat /\ p - 4 \in Extent(m, p) /\ p - 4 \in Words
    BY <1>0, InWords
  <2>4. q - 8 + sz = e - 8
    BY <1>4
  <2>5. ASSUME NEW a \in Words, p <= a, a < p + BlockSize(m, p) - 8 PROVE m2[a] = m[a]
    <3>1. a \in Nat /\ a # q - 4 /\ a # e - 8
      BY <1>2, <1>4, <2>3, <2>5
    <3>2. a \in Extent(m, p)
      BY <1>2, <2>5, <3>1 DEF Extent
    <3>. QED BY <1>8, <2>2, <2>4, <3>1, <3>2 DEF Untouched
  <2>6. ASSUME q # p PROVE m2[p - 4] = m[p - 4]
    <3>1. p - 4 # q - 4 /\ p - 4 # e - 8
      BY <1>2, <1>4, <2>6
    <3>. QED BY <1>8, <2>2, <2>3, <2>4, <3>1 DEF Untouched
  <2>. QED BY <2>5, <2>6
<1>18. /\ BlockSize(m2, q) >= BlockSize(m, p)
       /\ q # p => /\ IsFree(m, q) /\ q + 16 <= p
                   /\ BlockSize(m2, q) >= BlockSize(m, p) + (p - q)
  BY <1>2, <1>4, <1>11
<1>19. Heap(m2, brk1, B2, Frees(m2, B2) \ {q}) /\ q \in B2 /\ B2 \subseteq B
  <2>1. q \in B2 /\ B2 \subseteq B
    BY <1>4
  <2>. HIDE DEF B2, F3
  <2>. QED BY <1>11, <1>13, <2>1
<1>20. FreesKept(m, B, p, m2, q, B2)
  <2>1. SUFFICES ASSUME NEW c \in Frees(m, B) \ {p}
                 PROVE  \/ BlockSize(m, c) <= BlockSize(m2, q)
                        \/ c \in Frees(m2, B2) /\ BlockSize(m2, c) = BlockSize(m, c)
    BY DEF FreesKept
  <2>2. c \in B /\ IsFree(m, c) /\ c # p /\ BlockSize(m, c) \in Nat
    BY <1>3 DEF Frees
  <2>3. CASE c \in F3
    <3>1. c \in Frees(m2, B2) \ {q}
      BY <1>13, <2>3
    <3>. QED BY <1>12, <3>1 DEF Frees
  <2>4. CASE c \in {prev, next}
    <3>1. BlockSize(m, c) <= e - q
      BY <1>2, <1>3, <1>4, <2>2, <2>4
    <3>. QED BY <1>11, <3>1
  <2>. QED BY <2>3, <2>4
<1>. HIDE DEF B2, F3
<1>21. CombinedTo(m, brk1, B, p, m2, q, B2)
  BY <1>11, <1>13, <1>14, <1>15, <1>16, <1>17, <1>18, <1>19, <1>20 DEF CombinedTo
<1>. QED BY <1>21 DEF m2

\* imme_combine merges a block with what is free around it.
LEMMA Combine ==
  ASSUME NEW m, NEW brk1, NEW B, Heap(m, brk1, B, Frees(m, B)), NEW p \in B,
         NoTouchBut(m, B, p)
  PROVE  \E m2, q, B2 :
           /\ imme_combine([mem |-> m, brk |-> brk1, bp |-> p])
                = [mem |-> m2, brk |-> brk1, bp |-> q]
           /\ CombinedTo(m, brk1, B, p, m2, q, B2)
<1>. DEFINE prev == PREVBLK(m, p)
            next == NEXTBLK(m, p)
            h    == [mem |-> m, brk |-> brk1, bp |-> p]
            q    == IF IsFree(m, prev) THEN prev ELSE p
            sz   == (IF IsFree(m, prev) THEN BlockSize(m, prev) ELSE 0) + BlockSize(m, p)
                      + (IF IsFree(m, next) THEN BlockSize(m, next) ELSE 0)
            m3   == Unlinked(Unlinked(Unlinked(m, p), prev), next)
<1>1. prev # next
  <2>1. Tiles(m, brk1, B)
    BY DEF Heap
  <2>2. p \in Nat /\ p >= 72 /\ next \in Nat /\ next >= 72 /\ next > p
    BY <2>1, TilesFacts, Neighbours
  <2>3. prev = 64 \/ (prev \in B /\ prev + BlockSize(m, prev) = p)
    BY <2>1, Neighbours
  <2>4. prev = 64 \/ (prev \in Nat /\ prev < p)
    <3>1. prev \in B => prev \in Nat /\ BlockSize(m, prev) \in Nat /\ BlockSize(m, prev) >= 16
      BY <2>1, TilesFacts
    <3>. QED BY <2>2, <2>3, <3>1
  <2>. QED BY <2>2, <2>4
<1>2. CASE ~IsFree(m, prev) /\ ~IsFree(m, next)
  <2>1. CombinedTo(m, brk1, B, p, Unlinked(m, p), p, B)
    BY <1>2, CombineAlone
  <2>2. imme_combine(h) = [mem |-> Unlinked(m, p), brk |-> brk1, bp |-> p]
    BY <1>1, <1>2, CombineSays
  <2>. QED BY <2>1, <2>2
<1>3. CASE IsFree(m, prev) \/ IsFree(m, next)
  <2>1. \E B2 : CombinedTo(m, brk1, B, p, Tagged(m3, q, sz, 0), q, B2)
    BY <1>3, CombineMerges
  <2>2. imme_combine(h) = [mem |-> Tagged(m3, q, sz, 0), brk |-> brk1, bp |-> q]
    BY <1>1, <1>3, CombineSays
  <2>. QED BY <2>1, <2>2
<1>. QED BY <1>2, <1>3

-----------------------------------------------------------------------------
(***************************************************************************)
(* Between calls every free block is in a list and no two of them touch.   *)
(***************************************************************************)
Good(m, brk1, B) == Heap(m, brk1, B, Frees(m, B)) /\ NoTouch(m, B)

\* The allocated blocks are as they were.
SameUsed(m, B, m2, B2) ==
  Used(m2, B2) = Used(m, B) /\ \A c \in Used(m, B) : Untouched(m, m2, c)

\* Two steps that leave the allocated blocks alone.
LEMMA SameUsedTwice ==
  ASSUME NEW m, NEW brk1, NEW B, Tiles(m, brk1, B),
         NEW m1, NEW B1, SameUsed(m, B, m1, B1), NEW m2, NEW B2, SameUsed(m1, B1, m2, B2)
  PROVE  SameUsed(m, B, m2, B2)
<1>1. ASSUME NEW c \in Used(m, B) PROVE Untouched(m, m2, c)
  <2>1. c \in B /\ Untouched(m, m1, c) /\ Untouched(m1, m2, c)
    BY DEF Used, SameUsed
  <2>. QED BY <2>1, UntouchedTwice
<1>. QED BY <1>1 DEF SameUsed

\* Putting the one free block that is missing into the lists.
LEMMA AddLast ==
  ASSUME NEW m, NEW brk1, NEW B, NEW p \in Frees(m, B),
         Heap(m, brk1, B, Frees(m, B) \ {p})
  PROVE  /\ Heap(add_block(m, p), brk1, B, Frees(add_block(m, p), B))
         /\ SameBlocks(m, add_block(m, p), B)
         /\ SameUsed(m, B, add_block(m, p), B)
<1>. DEFINE m2 == add_block(m, p)
            F  == Frees(m, B) \ {p}
<1>1. p \in B \ F /\ IsFree(m, p) /\ F \cup {p} = Frees(m, B)
  BY DEF Frees
<1>2. /\ Heap(m2, brk1, B, F \cup {p}) /\ SameBlocks(m, m2, B)
      /\ \A c \in B \ (F \cup {p}) : Untouched(m, m2, c)
  <2>. HIDE DEF F
  <2>. QED BY <1>1, AddHeap
<1>. HIDE DEF m2
<1>3. Frees(m2, B) = Frees(m, B) /\ Used(m2, B) = Used(m, B) /\ Used(m, B) = B \ Frees(m, B)
  BY <1>2 DEF Frees, Used, SameBlocks
<1>4. SameUsed(m, B, m2, B)
  BY <1>1, <1>2, <1>3 DEF SameUsed
<1>5. Heap(m2, brk1, B, Frees(m2, B))
  BY <1>1, <1>2, <1>3
<1>. QED BY <1>2, <1>4, <1>5 DEF m2

\* free and expand_heap end in this: a free block gets into the lists together
\* with what is free around it.
LEMMA Coalesce ==
  ASSUME NEW m, NEW brk1, NEW B, NEW p \in Frees(m, B),
         Heap(m, brk1, B, Frees(m, B) \ {p}), NoTouchBut(m, B, p)
  PROVE  \E m2, q, B2 :
           /\ Coalesced([mem |-> m, brk |-> brk1, bp |-> p])
                = [mem |-> m2, brk |-> brk1, bp |-> q]
           /\ Good(m2, brk1, B2) /\ q \in Frees(m2, B2)
           /\ BlockSize(m2, q) >= BlockSize(m, p)
           /\ SameUsed(m, B, m2, B2)
<1>. DEFINE m1 == add_block(m, p)
<1>1. /\ Heap(m1, brk1, B, Frees(m1, B)) /\ SameBlocks(m, m1, B)
      /\ SameUsed(m, B, m1, B)
  BY AddLast
<1>2. p \in B /\ IsFree(m1, p) /\ BlockSize(m1, p) = BlockSize(m, p) /\ NoTouchBut(m1, B, p)
  BY <1>1 DEF Frees, SameBlocks, NoTouchBut
<1>3. Linked([mem |-> m, brk |-> brk1, bp |-> p]) = [mem |-> m1, brk |-> brk1, bp |-> p]
  BY DEF Linked
<1>. HIDE DEF m1
<1>4. PICK m2, q, B2 :
           /\ imme_combine([mem |-> m1, brk |-> brk1, bp |-> p])
                = [mem |-> m2, brk |-> brk1, bp |-> q]
           /\ CombinedTo(m1, brk1, B, p, m2, q, B2)
  BY <1>1, <1>2, Combine
<1>. DEFINE m3 == add_block(m2, q)
<1>5. /\ Heap(m2, brk1, B2, Frees(m2, B2) \ {q}) /\ q \in B2
      /\ NoTouchBut(m2, B2, q) /\ Lonely(m2, B2, q)
      /\ Used(m2, B2) \ {q} = Used(m1, B) \ {p}
      /\ \A c \in Used(m1, B) \ {p} : Untouched(m1, m2, c)
      /\ BlockSize(m2, q) >= BlockSize(m1, p)
      /\ IsFree(m2, q)
  BY <1>2, <1>4 DEF CombinedTo
<1>6. q \in Frees(m2, B2) /\ SameUsed(m1, B, m2, B2)
  <2>1. p \notin Used(m1, B) /\ q \notin Used(m2, B2)
    BY <1>2, <1>5 DEF Used
  <2>2. Used(m1, B) \ {p} = Used(m1, B) /\ Used(m2, B2) \ {q} = Used(m2, B2)
    BY <2>1
  <2>. QED BY <1>5, <2>2 DEF Frees, SameUsed
<1>7. /\ Heap(m3, brk1, B2, Frees(m3, B2)) /\ SameBlocks(m2, m3, B2)
      /\ SameUsed(m2, B2, m3, B2)
  BY <1>5, <1>6, AddLast
<1>8. Coalesced([mem |-> m, brk |-> brk1, bp |-> p]) = [mem |-> m3, brk |-> brk1, bp |-> q]
  BY <1>3, <1>4 DEF Coalesced, Linked
<1>. HIDE DEF m3
<1>9. NoTouch(m3, B2)
  <2>1. SUFFICES ASSUME NEW b \in B2, NEW c \in B2, IsFree(m2, b), IsFree(m2, c)
                 PROVE  b + BlockSize(m2, b) # c
    BY <1>7 DEF NoTouch, SameBlocks
  <2>2. CASE b = q \/ c = q
    BY <1>5, <2>1, <2>2 DEF Lonely
  <2>3. CASE b # q /\ c # q
    BY <1>5, <2>1, <2>3 DEF NoTouchBut
  <2>. QED BY <2>2, <2>3
<1>10. q \in Frees(m3, B2) /\ BlockSize(m3, q) = BlockSize(m2, q)
  BY <1>6, <1>7 DEF Frees, SameBlocks
<1>11. SameUsed(m, B, m3, B2)
  <2>1. Tiles(m, brk1, B) /\ Tiles(m1, brk1, B)
    BY <1>1 DEF Heap
  <2>2. SameUsed(m1, B, m3, B2)
    BY <1>6, <1>7, <2>1, SameUsedTwice
  <2>. QED BY <1>1, <2>1, <2>2, SameUsedTwice
<1>12. BlockSize(m3, q) >= BlockSize(m, p)
  BY <1>2, <1>5, <1>10
<1>. QED BY <1>7, <1>8, <1>9, <1>10, <1>11, <1>12 DEF Good

-----------------------------------------------------------------------------
(***************************************************************************)
(* place, rand_place and expand_heap.                                      *)
(***************************************************************************)
\* A block with new tags is the block it was.
LEMMA RetagOne ==
  ASSUME NEW m, NEW brk1, NEW B, NEW F, Heap(m, brk1, B, F), NEW b \in B \ F, NEW x \in {0, 1},
         NEW m2, m2 = Tagged(m, b, BlockSize(m, b), x)
  PROVE  /\ Heap(m2, brk1, B, F)
         /\ BlockSize(m2, b) = BlockSize(m, b) /\ (IsFree(m2, b) <=> x = 0)
         /\ \A c \in B \ {b} : Untouched(m, m2, c)
         /\ \A a \in Words : a # b - 4 /\ a # b + BlockSize(m, b) - 8 => m2[a] = m[a]
<1>. DEFINE sz == BlockSize(m, b)
            e  == b + sz
<1>1. Tiles(m, brk1, B) /\ F \subseteq B
  BY DEF Heap, Frees
<1>2. /\ DOMAIN m = Words
      /\ \A c \in B : c \in Nat /\ BlockSize(m, c) \in Nat /\ BlockSize(m, c) >= 16
      /\ \A c, d \in B : c < d => c + BlockSize(m, c) <= d
      /\ e \in B \cup {brk1}
  BY <1>1, TilesFacts
<1>3. b \in Nat /\ sz \in Nat /\ sz >= 16
  BY <1>2
<1>4. /\ DOMAIN m2 = Words
      /\ \A a \in Words : m2[a] = IF a = b - 4 \/ a = b - 8 + sz THEN PACK(sz, x) ELSE m[a]
  BY <1>2, TaggedWords
<1>5. {b - 4, b + sz - 8} \subseteq Words /\ Words \subseteq Nat
  BY <1>1, InWords
<1>. HIDE DEF sz
<1>6. b - 8 + sz = e - 8 /\ e - b = sz /\ b + sz - 8 = e - 8 /\ b < e
  BY <1>3
<1>7. Retagged(m, m2, b, e, x)
  <2>1. \A a \in Words : a < b - 4 \/ a >= e - 4 => a # b - 4 /\ a # e - 8
    BY <1>3, <1>5
  <2>2. m2[b - 4] = PACK(sz, x) /\ m2[e - 8] = PACK(sz, x)
    BY <1>4, <1>5, <1>6
  <2>3. \A a \in Words : a < b - 4 \/ a >= e - 4 => m2[a] = m[a]
    BY <1>4, <1>6, <2>1
  <2>. QED BY <1>4, <1>6, <2>2, <2>3 DEF Retagged
<1>8. Outside(B, b, e) = B
  <2>1. \A c \in B : c <= b \/ c >= e
    BY <1>2, <1>3 DEF sz
  <2>. QED BY <2>1 DEF Outside
<1>9. \A c \in F : c < b \/ c >= e
  BY <1>1, <1>2, <1>3 DEF sz
<1>. HIDE DEF e
<1>10. /\ Heap(m2, brk1, B, F) /\ BlockSize(m2, b) = e - b /\ (IsFree(m2, b) <=> x = 0)
       /\ \A c \in B \ {b} : Untouched(m, m2, c)
  BY <1>2, <1>6, <1>7, <1>8, <1>9, TagHeap
<1>. QED BY <1>4, <1>6, <1>10 DEF sz

\* The two pieces of a block.
LEMMA SplitTags ==
  ASSUME NEW m, NEW brk1, NEW B, Tiles(m, brk1, B), NEW b \in B,
         NEW s1 \in Eights, NEW s2 \in Eights, s1 >= 16, s2 >= 16, s1 + s2 = BlockSize(m, b),
         NEW x1, NEW x2
  PROVE  /\ Halved(m, Tagged(Tagged(m, b, s1, x1), b + s1, s2, x2), b, s1, s2, x1, x2)
         /\ {b - 4, b + s1 - 8, b + s1 - 4, b + s1 + s2 - 8} \subseteq Words
<1>. DEFINE m1 == Tagged(m, b, s1, x1)
            m2 == Tagged(m1, b + s1, s2, x2)
<1>1. /\ b \in Nat /\ b \in Eights /\ b >= 72 /\ b + BlockSize(m, b) <= brk1 /\ brk1 <= MAX_HEAP
      /\ brk1 \in Nat /\ MAX_HEAP \in Nat /\ DOMAIN m = Words
  BY TilesFacts, SizesAssumption
<1>2. s1 \in Nat /\ s2 \in Nat /\ b + s1 \in Eights /\ (b + s1) + s2 \in Eights
  BY <1>1, EightsClosed
<1>3. {b - 4, b + s1 - 8, b + s1 - 4, b + s1 + s2 - 8} \subseteq Words /\ Words \subseteq Nat
  <2>1. b - 4 \in Words /\ b + BlockSize(m, b) - 8 \in Words /\ Words \subseteq Nat
    BY InWords
  <2>2. b + s1 + s2 - 8 = b + BlockSize(m, b) - 8
    BY <1>1, <1>2
  <2>3. b + s1 <= MAX_HEAP /\ b + s1 >= 8
    BY <1>1, <1>2
  <2>4. b + s1 - 4 \in Words
    <3>1. (b + s1) - 4 \in Words
      BY <1>2, <2>3, AreWords, Zenon
    <3>2. (b + s1) - 4 = b + s1 - 4
      BY <1>1, <1>2
    <3>. QED BY <3>1, <3>2
  <2>5. b + s1 - 8 \in Words
    <3>1. (b + s1) - 8 \in Eights
      BY <1>2, <2>3, EightsClosed
    <3>2. (b + s1) - 8 = b + s1 - 8 /\ (b + s1) - 8 <= MAX_HEAP
      BY <1>1, <1>2, <2>3
    <3>. QED BY <3>1, <3>2, AreWords
  <2>. QED BY <2>1, <2>2, <2>4, <2>5
<1>4. /\ DOMAIN m1 = Words
      /\ \A a \in Words : m1[a] = IF a = b - 4 \/ a = b - 8 + s1 THEN PACK(s1, x1) ELSE m[a]
  BY <1>1, TaggedWords
<1>. HIDE DEF m1
<1>5. /\ DOMAIN m2 = Words
      /\ \A a \in Words : m2[a] = IF a = b + s1 - 4 \/ a = b + s1 - 8 + s2
                                  THEN PACK(s2, x2) ELSE m1[a]
  <2>1. (b + s1) - 4 = b + s1 - 4 /\ (b + s1) - 8 + s2 = b + s1 - 8 + s2
    BY <1>1, <1>2
  <2>. QED BY <1>4, <2>1, TaggedWords
<1>. HIDE DEF m2
<1>6. /\ b - 8 + s1 = b + s1 - 8 /\ b + s1 - 8 + s2 = b + s1 + s2 - 8
      /\ b - 4 # b + s1 - 4 /\ b - 4 # b + s1 + s2 - 8
      /\ b + s1 - 8 # b + s1 - 4 /\ b + s1 - 8 # b + s1 + s2 - 8
  BY <1>1, <1>2
<1>7. m2[b - 4] = PACK(s1, x1) /\ m2[b + s1 - 8] = PACK(s1, x1)
  BY <1>3, <1>4, <1>5, <1>6
<1>8. m2[b + s1 - 4] = PACK(s2, x2) /\ m2[b + s1 + s2 - 8] = PACK(s2, x2)
  BY <1>3, <1>5, <1>6
<1>9. \A a \in Words : a < b - 4 \/ a >= b + s1 + s2 - 4 => m2[a] = m[a]
  <2>1. \A a \in Words : a < b - 4 \/ a >= b + s1 + s2 - 4 =>
          a # b - 4 /\ a # b + s1 - 8 /\ a # b + s1 - 4 /\ a # b + s1 + s2 - 8
    BY <1>1, <1>2, <1>3
  <2>. QED BY <1>4, <1>5, <1>6, <2>1
<1>. QED BY <1>3, <1>5, <1>7, <1>8, <1>9 DEF Halved, m1, m2

\* place left x behind, where block b has sz bytes or a few more.
PlaceDid(m, brk1, B, b, sz, x) ==
  \E m2, B2 :
    /\ x = [mem |-> m2, brk |-> brk1, bp |-> b]
    /\ Good(m2, brk1, B2) /\ Used(m2, B2) = Used(m, B)
    /\ \A c \in Used(m, B) \ {b} : Untouched(m, m2, c)
    /\ BlockSize(m2, b) >= sz
    /\ \A a \in Words : b <= a /\ a < b + sz - 8 => m2[a] = m[a]

\* place gives back the end of an allocated block, if that is a block.
LEMMA PlaceFront ==
  ASSUME NEW m, NEW brk1, NEW B, Good(m, brk1, B), NEW b \in Used(m, B), Lonely(m, B, b),
         NEW sz \in Eights, sz >= 16, sz <= BlockSize(m, b),
         NEW x, x = place([mem |-> m, brk |-> brk1, bp |-> b], sz)
  PROVE  PlaceDid(m, brk1, B, b, sz, x)
<1>. DEFINE rem == BlockSize(m, b) - sz
            h   == [mem |-> m, brk |-> brk1, bp |-> b]
            F   == Frees(m, B)
<1>1. /\ Heap(m, brk1, B, F) /\ NoTouch(m, B) /\ Tiles(m, brk1, B)
      /\ b \in B /\ b \notin F /\ ~IsFree(m, b) /\ Used(m, B) = B \ F
  BY DEF Good, Heap, Used, Frees
<1>2. /\ b \in Nat /\ BlockSize(m, b) \in Nat /\ sz \in Nat /\ b \in Eights
      /\ BlockSize(m, b) \in Eights
  BY <1>1, TilesFacts, EightsClosed
<1>2a. rem \in Eights /\ rem \in Nat /\ sz + rem = BlockSize(m, b)
  <2>1. rem \in Eights
    BY <1>2, EightsClosed, Zenon
  <2>. QED BY <1>2, <2>1
<1>3. place(h, sz) = IF rem < 16
                     THEN [mem |-> Tagged(m, b, BlockSize(m, b), 1), brk |-> brk1, bp |-> b]
                     ELSE [mem |-> add_block(Tagged(Tagged(m, b, sz, 1), b + sz, rem, 0), b + sz),
                           brk |-> brk1, bp |-> b]
  BY DEF place, DSIZE
<1>4. CASE rem < 16
  <2>. DEFINE m2 == Tagged(m, b, BlockSize(m, b), 1)
  <2>1. b \in B \ F /\ 1 \in {0, 1}
    BY <1>1
  <2>2. /\ Heap(m2, brk1, B, F)
        /\ BlockSize(m2, b) = BlockSize(m, b) /\ (IsFree(m2, b) <=> 1 = 0)
        /\ \A c \in B \ {b} : Untouched(m, m2, c)
        /\ \A a \in Words : a # b - 4 /\ a # b + BlockSize(m, b) - 8 => m2[a] = m[a]
    <3>. HIDE DEF F
    <3>. QED BY <1>1, <2>1, RetagOne
  <2>. HIDE DEF m2
  <2>3. \A c \in B : BlockSize(m2, c) = BlockSize(m, c) /\ (IsFree(m2, c) <=> IsFree(m, c))
    BY <1>1, <2>2, UntouchedKept
  <2>4. Frees(m2, B) = F /\ Used(m2, B) = Used(m, B) /\ NoTouch(m2, B)
    BY <1>1, <2>3 DEF Frees, Used, NoTouch
  <2>5. \A a \in Words : b <= a /\ a < b + sz - 8 => m2[a] = m[a]
    <3>1. Words \subseteq Nat
      BY <1>1, InWords
    <3>2. \A a \in Words : b <= a /\ a < b + sz - 8 => a # b - 4 /\ a # b + BlockSize(m, b) - 8
      BY <1>2, <1>2a, <3>1
    <3>. QED BY <2>2, <3>2
  <2>6. \A c \in Used(m, B) \ {b} : Untouched(m, m2, c)
    BY <1>1, <2>2
  <2>7. Good(m2, brk1, B)
    BY <2>2, <2>4 DEF Good
  <2>8. place(h, sz) = [mem |-> m2, brk |-> brk1, bp |-> b]
    BY <1>3, <1>4 DEF m2
  <2>9. BlockSize(m2, b) >= sz
    BY <1>2, <1>2a, <2>2
  <2>. QED BY <2>4, <2>5, <2>6, <2>7, <2>8, <2>9 DEF PlaceDid
<1>5. CASE ~(rem < 16)
  <2>. DEFINE r  == b + sz
              m1 == Tagged(Tagged(m, b, sz, 1), r, rem, 0)
              m2 == add_block(m1, r)
              B2 == B \cup {r}
  <2>1. rem >= 16 /\ 1 \in {0, 1} /\ 0 \in {0, 1} /\ b \in B \ F
    BY <1>1, <1>2a, <1>5
  <2>2. Halved(m, m1, b, sz, rem, 1, 0)
    BY <1>1, <1>2a, <2>1, SplitTags
  <2>. HIDE DEF rem
  <2>3. /\ Heap(m1, brk1, B \cup {b + sz}, F) /\ b + sz \notin B
        /\ BlockSize(m1, b) = sz /\ (IsFree(m1, b) <=> 1 = 0)
        /\ BlockSize(m1, b + sz) = rem /\ (IsFree(m1, b + sz) <=> 0 = 0)
        /\ \A c \in B \ {b} : Untouched(m, m1, c)
    <3>. HIDE DEF F, m1
    <3>. QED BY <1>1, <1>2a, <2>1, <2>2, SplitHeap
  <2>. HIDE DEF m1
  <2>4. \A c \in B \ {b} : BlockSize(m1, c) = BlockSize(m, c) /\ (IsFree(m1, c) <=> IsFree(m, c))
    BY <1>1, <2>3, UntouchedKept
  <2>5. /\ Frees(m1, B2) = F \cup {r} /\ Frees(m1, B2) \ {r} = F
        /\ Used(m1, B2) = Used(m, B) /\ r \in Frees(m1, B2)
    <3>1. r \notin B
      BY <2>3
    <3>2. \A c \in B : IsFree(m1, c) <=> IsFree(m, c)
      BY <1>1, <2>3, <2>4
    <3>3. IsFree(m1, r)
      BY <2>3
    <3>. HIDE DEF r
    <3>. QED BY <3>1, <3>2, <3>3 DEF Frees, Used
  <2>6. /\ Heap(m2, brk1, B2, Frees(m2, B2)) /\ SameBlocks(m1, m2, B2)
        /\ SameUsed(m1, B2, m2, B2)
    <3>. HIDE DEF F
    <3>. QED BY <2>3, <2>5, AddLast
  <2>. HIDE DEF m2
  <2>7. Used(m2, B2) = Used(m, B)
    BY <2>5, <2>6 DEF SameUsed
  <2>8. Tiles(m1, brk1, B2)
    BY <2>3 DEF Heap
  <2>9. NoTouch(m2, B2)
    <3>1. SUFFICES ASSUME NEW c \in B2, NEW d \in B2, IsFree(m1, c), IsFree(m1, d)
                   PROVE  c + BlockSize(m1, c) # d
      BY <2>6 DEF NoTouch, SameBlocks
    <3>2. CASE c = r
      <4>1. r + rem = b + BlockSize(m, b)
        BY <1>2, <1>2a
      <4>2. d # r => d \in B /\ d # b /\ IsFree(m, d)
        BY <1>1, <2>3, <2>4, <3>1
      <4>3. d # r => b + BlockSize(m, b) # d
        BY <4>2 DEF Lonely
      <4>4. d = r => r + rem # d
        BY <1>2, <1>2a, <2>1
      <4>. QED BY <2>3, <3>2, <4>1, <4>3, <4>4
    <3>3. CASE c # r /\ d = r
      <4>1. c \in B /\ c # b /\ c \in Nat /\ BlockSize(m1, c) \in Nat /\ r \in B2
        BY <2>3, <2>8, <3>1, <3>3, TilesFacts
      <4>2. b \in B2 /\ BlockSize(m1, b) = sz /\ c \in B2
        BY <1>1, <2>3
      <4>3. c < b \/ b < c
        BY <1>2, <4>1
      <4>4. c < b => c + BlockSize(m1, c) <= b
        BY <2>8, <4>2, TilesFacts
      <4>5. b < c => b + sz <= c
        BY <2>8, <4>2, TilesFacts
      <4>6. BlockSize(m1, c) >= 16
        BY <2>8, <4>2, TilesFacts
      <4>. QED BY <1>2, <3>3, <4>1, <4>3, <4>4, <4>5, <4>6
    <3>4. CASE c # r /\ d # r
      <4>1. c \in B /\ d \in B /\ c # b /\ d # b
        BY <2>3, <3>1, <3>4
      <4>2. IsFree(m, c) /\ IsFree(m, d) /\ BlockSize(m1, c) = BlockSize(m, c)
        BY <2>4, <3>1, <4>1
      <4>. QED BY <1>1, <4>1, <4>2 DEF NoTouch
    <3>. QED BY <3>2, <3>3, <3>4
  <2>10. ASSUME NEW c \in Used(m, B) \ {b} PROVE Untouched(m, m2, c)
    <3>1. c \in B \ {b} /\ c \in Used(m1, B2)
      BY <1>1, <2>5
    <3>2. Untouched(m, m1, c) /\ Untouched(m1, m2, c)
      BY <2>3, <2>6, <3>1 DEF SameUsed
    <3>. QED BY <1>1, <3>1, <3>2, UntouchedTwice
  <2>11. BlockSize(m2, b) = sz
    BY <1>1, <2>3, <2>6 DEF SameBlocks
  <2>12. \A a \in Words : b <= a /\ a < b + sz - 8 => m2[a] = m[a]
    <3>1. SUFFICES ASSUME NEW a \in Words, b <= a, a < b + sz - 8 PROVE m2[a] = m[a]
      OBVIOUS
    <3>2. a \in Nat
      BY <1>1, InWords
    <3>3. Untouched(m1, m2, b)
      BY <2>5, <2>6 DEF SameUsed
    <3>4. a \in Extent(m1, b)
      BY <1>2, <2>3, <3>1, <3>2 DEF Extent
    <3>5. m2[a] = m1[a]
      BY <3>3, <3>4 DEF Untouched
    <3>6. m1[a] = m[a]
      <4>1. DOMAIN m = Words
        BY <1>1, TilesFacts
      <4>2. DOMAIN Tagged(m, b, sz, 1) = Words /\
            Tagged(m, b, sz, 1)[a] = IF a = b - 4 \/ a = b - 8 + sz THEN PACK(sz, 1) ELSE m[a]
        BY <4>1, TaggedWords
      <4>3. m1[a] = IF a = r - 4 \/ a = r - 8 + rem THEN PACK(rem, 0) ELSE Tagged(m, b, sz, 1)[a]
        <5>. HIDE DEF r
        <5>. QED BY <4>2, TaggedWords DEF m1
      <4>4. a # b - 4 /\ a # b - 8 + sz /\ a # r - 4 /\ a # r - 8 + rem
        BY <1>2, <1>2a, <3>1, <3>2
      <4>. QED BY <4>2, <4>3, <4>4
    <3>. QED BY <3>5, <3>6
  <2>13. Good(m2, brk1, B2)
    BY <2>6, <2>9 DEF Good
  <2>14. place(h, sz) = [mem |-> m2, brk |-> brk1, bp |-> b]
    BY <1>3, <1>5 DEF m2, m1
  <2>15. BlockSize(m2, b) >= sz
    BY <1>2, <2>11
  <2>. HIDE DEF h
  <2>16. /\ place(h, sz) = [mem |-> m2, brk |-> brk1, bp |-> b]
         /\ Good(m2, brk1, B2) /\ Used(m2, B2) = Used(m, B)
         /\ \A c \in Used(m, B) \ {b} : Untouched(m, m2, c)
         /\ BlockSize(m2, b) >= sz
         /\ \A a \in Words : b <= a /\ a < b + sz - 8 => m2[a] = m[a]
    BY <2>7, <2>10, <2>12, <2>13, <2>14, <2>15
  <2>. QED BY <2>16 DEF h, PlaceDid
<1>. QED BY <1>4, <1>5

\* rand_place links the free piece before it tags the other one: the words are
\* different ones, and the order does not matter.
LEMMA TagsAndLinks ==
  ASSUME NEW m, NEW brk1, NEW B, NEW F, Heap(m, brk1, B, F), NEW b \in B \ F,
         NEW s1 \in Eights, NEW s2 \in Eights, s1 >= 16, s2 >= 16, s1 + s2 = BlockSize(m, b),
         NEW x1 \in {0, 1}, NEW x2 \in {0, 1}
  PROVE  Tagged(add_block(Tagged(m, b, s1, x1), b), b + s1, s2, x2)
           = add_block(Tagged(Tagged(m, b, s1, x1), b + s1, s2, x2), b)
<1>. DEFINE m1  == Tagged(m, b, s1, x1)
            m2  == Tagged(m1, b + s1, s2, x2)
            pre == 4 * Index(s1)
            nxt == m[pre]
            t1  == b + s1 - 4
            t2  == b + s1 - 8 + s2
            lhs == Tagged(add_block(m1, b), b + s1, s2, x2)
            rhs == add_block(m2, b)
<1>1. Tiles(m, brk1, B) /\ F \subseteq B /\ F \in SUBSET B
  BY DEF Heap, Frees
<1>2. /\ b \in Nat /\ b >= 72 /\ DOMAIN m = Words
      /\ s1 \in Nat /\ s2 \in Nat /\ {b - 4, b, b + 4, t1, t2} \subseteq Words
      /\ Words \subseteq Nat
  <2>1. b \in Nat /\ b >= 72 /\ DOMAIN m = Words /\ s1 \in Nat /\ s2 \in Nat
    BY <1>1, TilesFacts, EightsClosed
  <2>2. {b - 4, b, b + 4} \subseteq Words /\ Words \subseteq Nat
    BY <1>1, InWords
  <2>3. {t1, b + s1 + s2 - 8} \subseteq Words
    BY <1>1, SplitTags
  <2>4. b + s1 + s2 - 8 = t2
    BY <2>1
  <2>. QED BY <2>1, <2>2, <2>3, <2>4
<1>3. Index(s1) \in 1 .. 14 /\ pre \in Words /\ pre \in Nat /\ pre <= 56
  <2>1. Index(s1) \in 1 .. 14
    BY HasList
  <2>2. pre \in Words
    BY <1>1, <2>1, BlocksLinkable DEF Linkable
  <2>. QED BY <2>1, <2>2
<1>. HIDE DEF pre
<1>4. nxt # 0 => nxt \in F
  <2>1. PICK rk : Links(m, F, ListOf(m, F), rk)
    BY DEF Heap
  <2>. QED BY <1>3, <2>1 DEF Links, PointsWell, pre
<1>5. nxt # 0 => nxt \in Nat /\ nxt >= 72 /\ nxt + 4 \notin {b - 4, b, b + 4, t1, t2}
  <2>1. SUFFICES ASSUME nxt # 0
                 PROVE  nxt \in Nat /\ nxt >= 72 /\ nxt + 4 \notin {b - 4, b, b + 4, t1, t2}
    OBVIOUS
  <2>2. nxt \in F /\ nxt \in B /\ nxt # b
    BY <1>1, <1>4, <2>1
  <2>3. nxt \in Nat /\ nxt >= 72 /\ BlockSize(m, nxt) \in Nat /\ BlockSize(m, nxt) >= 16
    BY <1>1, <2>2, TilesFacts
  <2>4. nxt + BlockSize(m, nxt) <= b \/ b + BlockSize(m, b) <= nxt
    <3>1. nxt < b \/ b < nxt
      BY <1>2, <2>2, <2>3
    <3>. QED BY <1>1, <2>2, <3>1, TilesFacts
  <2>5. nxt + 16 <= b \/ b + s1 + s2 <= nxt
    BY <1>2, <2>3, <2>4
  <2>. QED BY <1>2, <2>3, <2>5
<1>6. /\ t1 # b - 4 /\ t2 # b - 4 /\ t1 # b - 8 + s1 /\ t2 # b - 8 + s1
      /\ t1 # pre /\ t2 # pre /\ t1 # b /\ t2 # b /\ t1 # b + 4 /\ t2 # b + 4
      /\ pre # b /\ pre # b + 4 /\ pre # b - 4 /\ pre # b - 8 + s1
  BY <1>2, <1>3
<1>7. /\ DOMAIN m1 = Words
      /\ \A a \in Words : m1[a] = IF a = b - 4 \/ a = b - 8 + s1 THEN PACK(s1, x1) ELSE m[a]
  BY <1>2, TaggedWords
<1>. HIDE DEF m1
<1>8. /\ DOMAIN m2 = Words
      /\ \A a \in Words : m2[a] = IF a = t1 \/ a = t2 THEN PACK(s2, x2) ELSE m1[a]
  <2>1. (b + s1) - 4 = t1 /\ (b + s1) - 8 + s2 = t2
    BY <1>2
  <2>. QED BY <1>7, <2>1, TaggedWords
<1>. HIDE DEF m2
<1>9. m1[b - 4] = PACK(s1, x1) /\ m2[b - 4] = PACK(s1, x1)
  BY <1>2, <1>6, <1>7, <1>8
<1>10. BlockSize(m1, b) = s1 /\ BlockSize(m2, b) = s1
  BY <1>9, Packed DEF BlockSize, SIZE, HEADRP, WSIZE
<1>11. pre = 4 * Index(BlockSize(m1, b)) /\ pre = 4 * Index(BlockSize(m2, b))
  BY <1>10 DEF pre
<1>12. m1[pre] = nxt /\ m2[pre] = nxt
  BY <1>3, <1>6, <1>7, <1>8
<1>. HIDE DEF nxt
<1>13. /\ DOMAIN add_block(m1, b) = Words
       /\ \A a \in Words : add_block(m1, b)[a] =
            IF nxt # 0 /\ a = nxt + 4 THEN b
            ELSE IF a = pre THEN b ELSE IF a = b THEN nxt
            ELSE IF a = b + 4 THEN pre ELSE m1[a]
  BY <1>2, <1>3, <1>6, <1>7, <1>11, <1>12, AddWords
<1>14. /\ rhs = [a \in Words |-> rhs[a]]
       /\ \A a \in Words : rhs[a] =
            IF nxt # 0 /\ a = nxt + 4 THEN b
            ELSE IF a = pre THEN b ELSE IF a = b THEN nxt
            ELSE IF a = b + 4 THEN pre ELSE m2[a]
  BY <1>2, <1>3, <1>6, <1>8, <1>11, <1>12, AddWords
<1>15. /\ lhs = [a \in Words |-> lhs[a]]
       /\ \A a \in Words : lhs[a] =
            IF a = t1 \/ a = t2 THEN PACK(s2, x2) ELSE add_block(m1, b)[a]
  <2>1. (b + s1) - 4 = t1 /\ (b + s1) - 8 + s2 = t2
    BY <1>2
  <2>. QED BY <1>13, <2>1, TaggedWords
<1>. HIDE DEF lhs, rhs
<1>16. ASSUME NEW a \in Words PROVE lhs[a] = rhs[a]
  <2>1. CASE a = t1 \/ a = t2
    <3>1. lhs[a] = PACK(s2, x2)
      BY <1>15, <2>1
    <3>2. rhs[a] = m2[a]
      BY <1>5, <1>6, <1>14, <2>1
    <3>. QED BY <1>8, <2>1, <3>1, <3>2
  <2>2. CASE a # t1 /\ a # t2
    BY <1>8, <1>13, <1>14, <1>15, <2>2
  <2>. QED BY <2>1, <2>2
<1>17. lhs = rhs
  BY <1>14, <1>15, <1>16
<1>. QED BY <1>17 DEF lhs, rhs, m1, m2

\* The program gets a block more, and the others are as they were.
Gets(m, B, m2, r, B2, sz) ==
  /\ r \in Used(m2, B2) /\ r \notin Used(m, B) /\ Used(m2, B2) = Used(m, B) \cup {r}
  /\ \A c \in Used(m, B) : Untouched(m, m2, c)
  /\ BlockSize(m2, r) >= sz

\* The whole free block becomes the program's, or its back.
LEMMA CarveUp ==
  ASSUME NEW m, NEW brk1, NEW B, Good(m, brk1, B), NEW q \in Frees(m, B),
         NEW sz \in Eights, sz >= 16, sz <= BlockSize(m, q)
  PROVE  \E m2, r, B2 :
           /\ Carved([mem |-> m, brk |-> brk1, bp |-> q], sz)
                = [mem |-> m2, brk |-> brk1, bp |-> r]
           /\ Good(m2, brk1, B2) /\ Gets(m, B, m2, r, B2, sz)
<1>. DEFINE F   == Frees(m, B)
            G   == F \ {q}
            m1  == delete_block(m, q)
            rem == BlockSize(m1, q) - sz
            h   == [mem |-> m, brk |-> brk1, bp |-> q]
<1>1. /\ Heap(m, brk1, B, F) /\ NoTouch(m, B) /\ Tiles(m, brk1, B)
      /\ q \in B /\ IsFree(m, q) /\ Used(m, B) = B \ F
  BY DEF Good, Heap, Used, Frees
<1>2. /\ Heap(m1, brk1, B, G) /\ SameBlocks(m, m1, B)
      /\ \A c \in B \ F : Untouched(m, m1, c)
  <2>. HIDE DEF m1, F
  <2>. QED BY <1>1, DeleteHeap DEF m1, F
<1>. HIDE DEF m1
<1>3. /\ q \in Nat /\ BlockSize(m1, q) \in Nat /\ sz \in Nat /\ q \in Eights /\ q >= 72
      /\ BlockSize(m1, q) \in Eights /\ BlockSize(m1, q) = BlockSize(m, q)
  BY <1>1, <1>2, TilesFacts, EightsClosed DEF SameBlocks
<1>4. rem \in Eights /\ rem \in Nat /\ rem + sz = BlockSize(m1, q)
  <2>1. rem \in Eights
    BY <1>3, EightsClosed, Zenon
  <2>. QED BY <1>3, <2>1
<1>5. Carved(h, sz) =
        IF rem < 16
        THEN [mem |-> Tagged(m1, q, BlockSize(m1, q), 1), brk |-> brk1, bp |-> q]
        ELSE [mem |-> Tagged(add_block(Tagged(m1, q, rem, 0), q), q + rem, sz, 1),
              brk |-> brk1, bp |-> q + rem]
  <2>1. h.bp # NULL
    BY <1>3 DEF NULL
  <2>2. [h EXCEPT !.mem = delete_block(@, h.bp)] = [mem |-> m1, brk |-> brk1, bp |-> q]
    BY DEF m1
  <2>. DEFINE h1 == [mem |-> m1, brk |-> brk1, bp |-> q]
  <2>3. Carved(h, sz) = rand_place(h1, sz)
    BY <2>1, <2>2 DEF Carved
  <2>4. rand_place(h1, sz) =
          IF rem < 16 THEN [h1 EXCEPT !.mem = Tagged(@, q, BlockSize(@, q), 1)]
          ELSE [h1 EXCEPT !.mem = Tagged(add_block(Tagged(@, q, rem, 0), q), q + rem, sz, 1),
                          !.bp = q + rem]
    <3>1. h1.mem = m1 /\ h1.bp = q
      OBVIOUS
    <3>. HIDE DEF h1
    <3>. QED BY <3>1 DEF rand_place, DSIZE
  <2>. HIDE DEF rem, h
  <2>5. CASE rem < 16
    BY <2>3, <2>4, <2>5
  <2>6. CASE ~(rem < 16)
    BY <2>3, <2>4, <2>6
  <2>. QED BY <2>5, <2>6
<1>6. Frees(m1, B) = F /\ Used(m1, B) = Used(m, B) /\ NoTouch(m1, B) /\ SameUsed(m, B, m1, B)
  BY <1>1, <1>2 DEF Frees, Used, SameBlocks, NoTouch, SameUsed
<1>7. q \in B \ G /\ q \notin Used(m, B) /\ Tiles(m1, brk1, B) /\ IsFree(m1, q)
  BY <1>1, <1>2 DEF Heap, SameBlocks
<1>8. CASE rem < 16
  <2>. DEFINE m2 == Tagged(m1, q, BlockSize(m1, q), 1)
  <2>1. 1 \in {0, 1}
    OBVIOUS
  <2>2. /\ Heap(m2, brk1, B, G)
        /\ BlockSize(m2, q) = BlockSize(m1, q) /\ (IsFree(m2, q) <=> 1 = 0)
        /\ \A c \in B \ {q} : Untouched(m1, m2, c)
    <3>. HIDE DEF G
    <3>. QED BY <1>2, <1>7, <2>1, RetagOne
  <2>. HIDE DEF m2
  <2>3. \A c \in B \ {q} : BlockSize(m2, c) = BlockSize(m1, c) /\ (IsFree(m2, c) <=> IsFree(m1, c))
    BY <1>7, <2>2, UntouchedKept
  <2>4. Frees(m2, B) = G /\ Used(m2, B) = Used(m1, B) \cup {q}
    BY <1>1, <1>6, <2>2, <2>3 DEF Frees, Used
  <2>5. NoTouch(m2, B)
    BY <1>6, <2>2, <2>3 DEF NoTouch
  <2>6. ASSUME NEW c \in Used(m, B) PROVE Untouched(m, m2, c)
    <3>1. c \in B \ {q} /\ Untouched(m, m1, c)
      BY <1>1, <1>2, <1>7
    <3>. QED BY <1>1, <2>2, <3>1, UntouchedTwice
  <2>7. Gets(m, B, m2, q, B, sz)
    <3>1. BlockSize(m2, q) >= sz
      BY <1>3, <2>2
    <3>. QED BY <1>6, <1>7, <2>4, <2>6, <3>1 DEF Gets
  <2>8. Good(m2, brk1, B)
    BY <2>2, <2>4, <2>5 DEF Good
  <2>9. Carved(h, sz) = [mem |-> m2, brk |-> brk1, bp |-> q]
    BY <1>5, <1>8 DEF m2
  <2>. QED BY <2>7, <2>8, <2>9
<1>9. CASE ~(rem < 16)
  <2>. DEFINE r  == q + rem
              m2 == Tagged(Tagged(m1, q, rem, 0), q + rem, sz, 1)
              m3 == add_block(m2, q)
              B2 == B \cup {q + rem}
  <2>1. rem >= 16 /\ 1 \in {0, 1} /\ 0 \in {0, 1}
    BY <1>4, <1>9
  <2>2. Halved(m1, m2, q, rem, sz, 0, 1)
    BY <1>1, <1>3, <1>4, <1>7, <2>1, SplitTags
  <2>3. Tagged(add_block(Tagged(m1, q, rem, 0), q), q + rem, sz, 1) = m3
    <3>. HIDE DEF rem, G
    <3>. QED BY <1>2, <1>4, <1>7, <2>1, TagsAndLinks
  <2>. HIDE DEF rem
  <2>4. /\ Heap(m2, brk1, B \cup {q + rem}, G) /\ q + rem \notin B
        /\ BlockSize(m2, q) = rem /\ (IsFree(m2, q) <=> 0 = 0)
        /\ BlockSize(m2, q + rem) = sz /\ (IsFree(m2, q + rem) <=> 1 = 0)
        /\ \A c \in B \ {q} : Untouched(m1, m2, c)
    <3>. HIDE DEF G, m2
    <3>. QED BY <1>2, <1>4, <1>7, <2>1, <2>2, SplitHeap
  <2>. HIDE DEF m2
  <2>5. \A c \in B \ {q} : BlockSize(m2, c) = BlockSize(m1, c) /\ (IsFree(m2, c) <=> IsFree(m1, c))
    BY <1>7, <2>4, UntouchedKept
  <2>6. r \notin B /\ ~IsFree(m2, r) /\ IsFree(m2, q) /\ B2 = B \cup {r}
    BY <2>4
  <2>7. /\ Frees(m2, B2) = F /\ q \in Frees(m2, B2) /\ Used(m2, B2) = Used(m1, B) \cup {r}
        /\ r \notin Used(m, B) /\ r \in B2
    <3>. HIDE DEF r, B2
    <3>1. \A c \in B : IsFree(m2, c) <=> IsFree(m1, c)
      BY <1>7, <2>5, <2>6
    <3>. QED BY <1>1, <1>6, <1>7, <2>6, <3>1 DEF Frees, Used
  <2>8. /\ Heap(m3, brk1, B2, Frees(m3, B2)) /\ SameBlocks(m2, m3, B2)
        /\ SameUsed(m2, B2, m3, B2)
    <3>1. Heap(m2, brk1, B2, Frees(m2, B2) \ {q})
      BY <2>4, <2>7
    <3>. HIDE DEF B2
    <3>. QED BY <2>7, <3>1, AddLast
  <2>. HIDE DEF m3
  <2>9. Tiles(m2, brk1, B2) /\ q \in B2
    BY <1>7, <2>4 DEF Heap
  <2>10. NoTouch(m3, B2)
    <3>1. SUFFICES ASSUME NEW c \in B2, NEW d \in B2, IsFree(m2, c), IsFree(m2, d)
                   PROVE  c + BlockSize(m2, c) # d
      BY <2>8 DEF NoTouch, SameBlocks
    <3>2. c \in B /\ d \in B /\ IsFree(m1, c) /\ IsFree(m1, d)
      BY <1>7, <2>5, <2>6, <3>1
    <3>3. CASE c = q
      BY <2>4, <2>6, <3>2, <3>3
    <3>4. CASE c # q
      BY <1>6, <2>5, <3>2, <3>4 DEF NoTouch
    <3>. QED BY <3>3, <3>4
  <2>11. ASSUME NEW c \in Used(m, B) PROVE Untouched(m, m3, c)
    <3>1. c \in B \ {q} /\ Untouched(m, m1, c) /\ c \in Used(m2, B2)
      BY <1>1, <1>2, <1>6, <1>7, <2>7
    <3>2. Untouched(m1, m2, c) /\ Untouched(m2, m3, c)
      BY <2>4, <2>8, <3>1 DEF SameUsed
    <3>3. Untouched(m, m2, c)
      BY <1>1, <3>1, <3>2, UntouchedTwice
    <3>. QED BY <1>1, <3>1, <3>2, <3>3, UntouchedTwice
  <2>12. Used(m3, B2) = Used(m, B) \cup {r}
    BY <1>6, <2>7, <2>8 DEF SameUsed
  <2>13. BlockSize(m3, r) >= sz
    BY <1>3, <2>4, <2>7, <2>8 DEF SameBlocks
  <2>. HIDE DEF r
  <2>14. Gets(m, B, m3, r, B2, sz)
    BY <2>7, <2>11, <2>12, <2>13 DEF Gets
  <2>15. Good(m3, brk1, B2)
    BY <2>8, <2>10 DEF Good
  <2>16. Carved(h, sz) = [mem |-> m3, brk |-> brk1, bp |-> r]
    BY <1>5, <1>9, <2>3 DEF r
  <2>. QED BY <2>14, <2>15, <2>16
<1>. QED BY <1>8, <1>9

-----------------------------------------------------------------------------
\* Max of two numbers.
LEMMA MaxOfTwo ==
  ASSUME NEW x \in Nat, NEW y \in Nat
  PROVE  Max({x, y}) \in {x, y} /\ Max({x, y}) >= x /\ Max({x, y}) >= y
<1>1. \E z \in {x, y} : \A w \in {x, y} : z >= w
  <2>1. CASE x >= y
    BY <2>1
  <2>2. CASE y >= x
    BY <2>2
  <2>. QED BY <2>1, <2>2
<1>2. Max({x, y}) \in {x, y} /\ \A w \in {x, y} : Max({x, y}) >= w
  BY <1>1 DEF Max
<1>. QED BY <1>2

\* expand_heap leaves everything as it is and returns NULL, or adds a free block
\* of at least the size it is asked for.
ExpandDid(m, brk1, B, r, x) ==
  \/ r = [mem |-> m, brk |-> brk1, bp |-> NULL]
  \/ \E m2, brk2, q, B2 :
       /\ r = [mem |-> m2, brk |-> brk2, bp |-> q]
       /\ Good(m2, brk2, B2) /\ q \in Frees(m2, B2)
       /\ BlockSize(m2, q) >= x
       /\ SameUsed(m, B, m2, B2)

\* A larger heap is as good as the one before, and the new block, with the
\* free one it may touch, is one free block of at least the size asked for.
LEMMA Expand ==
  ASSUME NEW m, NEW brk1, NEW B, Good(m, brk1, B), NEW p, NEW x \in Nat,
         NEW granted \in BOOLEAN,
         NEW r, r = expand_heap([mem |-> m, brk |-> brk1, bp |-> p], x, granted)
  PROVE  ExpandDid(m, brk1, B, r, x)
<1>. DEFINE h  == [mem |-> m, brk |-> brk1, bp |-> p]
            mx == Max({x, MINEXPANDSIZE})
            sz == ((mx + DSIZE - 1) \div DSIZE) * DSIZE
            bp == mem_sbrk(brk1, sz, granted)
            m1 == [Tagged(m, bp, sz, 0) EXCEPT
                     ![PREVRP(bp)] = NULL, ![NEXTRP(bp)] = NULL,
                     ![HEADRP(bp + sz)] = PACK(0, 1)]
            h2 == [mem |-> m1, brk |-> brk1 + sz, bp |-> bp]
            F  == Frees(m, B)
<1>1. r = IF sz >= MAXSIZE \/ bp = -1 THEN [mem |-> m, brk |-> brk1, bp |-> NULL]
          ELSE Coalesced(h2)
  BY DEF expand_heap
<1>2. CASE sz >= MAXSIZE \/ bp = -1
  BY <1>1, <1>2 DEF ExpandDid
<1>3. CASE ~(sz >= MAXSIZE \/ bp = -1)
  <2>1. sz \in Eights /\ sz >= 16 /\ sz >= x /\ sz \in Nat
    <3>1. mx \in Nat /\ mx >= x /\ mx >= 16
      BY MaxOfTwo, SizesAssumption
    <3>. HIDE DEF mx
    <3>2. mx + DSIZE - 1 = mx + 7
      BY <3>1 DEF DSIZE
    <3>3. sz = ((mx + 7) \div 8) * 8
      BY <3>2 DEF DSIZE
    <3>. HIDE DEF sz
    <3>4. sz \in Eights
      <4>1. mx + 7 \in Nat
        BY <3>1
      <4>2. ((mx + 7) \div 8) * 8 \in Eights
        BY <4>1, EightsClosed, Zenon
      <4>. QED BY <3>3, <4>2
    <3>. QED BY <3>1, <3>3, <3>4
  <2>. HIDE DEF sz
  <2>2. bp = brk1 /\ brk1 + sz <= MAX_HEAP
    BY <1>3 DEF mem_sbrk
  <2>. HIDE DEF bp
  <2>3. /\ Heap(m, brk1, B, F) /\ NoTouch(m, B) /\ Tiles(m, brk1, B) /\ F \subseteq B
    BY DEF Good, Heap, Frees
  <2>4. /\ DOMAIN m = Words /\ brk1 \in Nat /\ brk1 \in Eights /\ brk1 >= 72 /\ MAX_HEAP \in Nat
    BY <2>3, TilesFacts, SizesAssumption
  <2>5. {brk1 - 4, brk1, brk1 + 4, brk1 + sz - 8, brk1 + sz - 4} \subseteq Words
    <3>1. {brk1 - 4, brk1, brk1 + 4} \subseteq Words
      BY <2>1, <2>2, <2>4, AreWords
    <3>2. brk1 + sz \in Eights /\ 8 <= brk1 + sz /\ 8 \in Eights
      BY <2>1, <2>4, EightsClosed
    <3>3. (brk1 + sz) - 4 \in Words
      BY <2>2, <3>2, AreWords, Zenon
    <3>4. (brk1 + sz) - 8 \in Eights
      BY <3>2, EightsClosed, Zenon
    <3>5. (brk1 + sz) - 8 = brk1 + sz - 8 /\ (brk1 + sz) - 4 = brk1 + sz - 4
          /\ brk1 + sz - 8 <= MAX_HEAP
      BY <2>1, <2>2, <2>4
    <3>6. brk1 + sz - 8 \in Words
      BY <3>4, <3>5, AreWords
    <3>. QED BY <3>1, <3>3, <3>5, <3>6
  <2>6. /\ DOMAIN m1 = Words
        /\ \A a \in Words : m1[a] =
             IF a = brk1 + sz - 4 THEN PACK(0, 1)
             ELSE IF a = brk1 \/ a = brk1 + 4 THEN NULL
             ELSE IF a = brk1 - 4 \/ a = brk1 - 8 + sz THEN PACK(sz, 0) ELSE m[a]
    <3>. DEFINE t == Tagged(m, brk1, sz, 0)
    <3>1. /\ DOMAIN t = Words
          /\ \A a \in Words : t[a] = IF a = brk1 - 4 \/ a = brk1 - 8 + sz THEN PACK(sz, 0) ELSE m[a]
      BY <2>4, TaggedWords
    <3>2. m1 = [t EXCEPT ![brk1 + 4] = NULL, ![brk1] = NULL, ![(brk1 + sz) - 4] = PACK(0, 1)]
      BY <2>2 DEF PREVRP, NEXTRP, HEADRP, WSIZE
    <3>. HIDE DEF t, m1
    <3>3. (brk1 + sz) - 4 = brk1 + sz - 4
      BY <2>1, <2>4
    <3>4. DOMAIN m1 = Words
      BY <3>1, <3>2
    <3>5. ASSUME NEW a \in Words
          PROVE  m1[a] = IF a = brk1 + sz - 4 THEN PACK(0, 1)
                         ELSE IF a = brk1 \/ a = brk1 + 4 THEN NULL ELSE t[a]
      BY <3>1, <3>2, <3>3
    <3>. QED BY <3>1, <3>4, <3>5
  <2>. HIDE DEF m1
  <2>7. /\ brk1 - 4 # brk1 /\ brk1 - 4 # brk1 + 4 /\ brk1 - 4 # brk1 + sz - 4
        /\ brk1 + sz - 8 # brk1 /\ brk1 + sz - 8 # brk1 + 4 /\ brk1 + sz - 8 # brk1 + sz - 4
        /\ brk1 - 8 + sz = brk1 + sz - 8
    BY <2>1, <2>4
  <2>8. /\ m1[brk1 - 4] = PACK(sz, 0) /\ m1[brk1 + sz - 8] = PACK(sz, 0)
        /\ m1[brk1 + sz - 4] = PACK(0, 1)
    BY <2>5, <2>6, <2>7
  <2>9. \A a \in Words : a < brk1 - 4 => m1[a] = m[a]
    <3>1. \A a \in Words : a < brk1 - 4 =>
            a \notin {brk1 + sz - 4, brk1, brk1 + 4, brk1 - 4, brk1 - 8 + sz}
      <4>1. Words \subseteq Nat
        BY <2>3, InWords
      <4>. QED BY <2>1, <2>4, <4>1
    <3>. QED BY <2>6, <3>1
  <2>. DEFINE B1 == B \cup {brk1}
  <2>10. /\ Heap(m1, brk1 + sz, B1, F) /\ brk1 \notin B
         /\ BlockSize(m1, brk1) = sz /\ IsFree(m1, brk1)
         /\ \A c \in B : Untouched(m, m1, c)
    <3>. HIDE DEF F
    <3>. QED BY <2>1, <2>2, <2>3, <2>6, <2>8, <2>9, GrowHeap
  <2>11. \A c \in B : BlockSize(m1, c) = BlockSize(m, c) /\ (IsFree(m1, c) <=> IsFree(m, c))
    BY <2>3, <2>10, UntouchedKept
  <2>12. /\ brk1 \in Frees(m1, B1) /\ Frees(m1, B1) \ {brk1} = F
         /\ Used(m1, B1) = Used(m, B)
    BY <2>10, <2>11 DEF Frees, Used
  <2>13. SameUsed(m, B, m1, B1)
    BY <2>10, <2>12 DEF SameUsed, Used
  <2>14. NoTouchBut(m1, B1, brk1)
    BY <2>3, <2>11 DEF NoTouchBut, NoTouch
  <2>15. PICK m2, q, B2 :
           /\ Coalesced([mem |-> m1, brk |-> brk1 + sz, bp |-> brk1])
                = [mem |-> m2, brk |-> brk1 + sz, bp |-> q]
           /\ Good(m2, brk1 + sz, B2) /\ q \in Frees(m2, B2)
           /\ BlockSize(m2, q) >= BlockSize(m1, brk1)
           /\ SameUsed(m1, B1, m2, B2)
    <3>1. Heap(m1, brk1 + sz, B1, Frees(m1, B1) \ {brk1})
      BY <2>10, <2>12
    <3>. HIDE DEF B1
    <3>. QED BY <2>12, <2>14, <3>1, Coalesce
  <2>16. r = [mem |-> m2, brk |-> brk1 + sz, bp |-> q]
    BY <1>1, <1>3, <2>2, <2>15
  <2>17. BlockSize(m2, q) >= x
    <3>1. BlockSize(m2, q) \in Nat
      BY <2>15, TilesFacts DEF Good, Heap, Frees
    <3>. QED BY <2>1, <2>10, <2>15, <3>1
  <2>18. SameUsed(m, B, m2, B2)
    BY <2>3, <2>13, <2>15, SameUsedTwice
  <2>. QED BY <2>15, <2>16, <2>17, <2>18 DEF ExpandDid
<1>. QED BY <1>2, <1>3

-----------------------------------------------------------------------------
(***************************************************************************)
(* The order of a list.                                                    *)
(***************************************************************************)
\* What is true of 0 and of the successor of each number it is true of.
LEMMA NatAreAll ==
  ASSUME NEW S, 0 \in S, \A n \in Nat : n \in S => n + 1 \in S
  PROVE  Nat \subseteq S
<1> SUFFICES ASSUME Nat \ S # {} PROVE FALSE
  OBVIOUS
<1>1. PICK n \in Nat \ S : \A y \in Nat \ S : n <= y
  BY NatHasLeast
<1>2. n # 0 /\ n - 1 \in Nat /\ n - 1 < n /\ (n - 1) + 1 = n
  BY <1>1
<1>3. n - 1 \in S
  BY <1>1, <1>2
<1>. QED BY <1>1, <1>2, <1>3

Iterated(f, a0, g, N) == f = [n \in 0 .. N |-> IF n = 0 THEN a0 ELSE g[f[n - 1]]]

\* A step that stays in D can be taken over and over.
LEMMA Iterates ==
  ASSUME NEW D, NEW a0 \in D, NEW g \in [D -> D], NEW N \in Nat
  PROVE  \E f \in [0 .. N -> D] : Iterated(f, a0, g, N)
<1>. DEFINE OK(f, n) == f[0] = a0 /\ \A k \in 1 .. n : f[k] = g[f[k - 1]]
            T == {n \in Nat : \E f \in [0 .. n -> D] : OK(f, n)}
<1>1. 0 \in T
  <2>1. [k \in 0 .. 0 |-> a0] \in [0 .. 0 -> D] /\ OK([k \in 0 .. 0 |-> a0], 0)
    OBVIOUS
  <2>. QED BY <2>1
<1>2. ASSUME NEW n \in Nat, n \in T PROVE n + 1 \in T
  <2>1. PICK f \in [0 .. n -> D] : OK(f, n)
    BY <1>2
  <2>. DEFINE f2 == [k \in 0 .. n + 1 |-> IF k = n + 1 THEN g[f[n]] ELSE f[k]]
  <2>2. f2 \in [0 .. n + 1 -> D]
    <3>1. ASSUME NEW k \in 0 .. n + 1 PROVE (IF k = n + 1 THEN g[f[n]] ELSE f[k]) \in D
      <4>1. n \in 0 .. n
        OBVIOUS
      <4>2. k # n + 1 => k \in 0 .. n
        OBVIOUS
      <4>. QED BY <4>1, <4>2
    <3>. QED BY <3>1
  <2>3. OK(f2, n + 1)
    <3>1. f2[0] = a0
      BY <2>1
    <3>2. ASSUME NEW k \in 1 .. n + 1 PROVE f2[k] = g[f2[k - 1]]
      <4>1. CASE k = n + 1
        <5>1. k - 1 = n /\ n \in 0 .. n + 1 /\ n # n + 1 /\ k \in 0 .. n + 1
          BY <4>1
        <5>. QED BY <4>1, <5>1
      <4>2. CASE k # n + 1
        <5>1. k \in 1 .. n /\ k \in 0 .. n + 1 /\ k - 1 \in 0 .. n + 1 /\ k - 1 # n + 1
          BY <4>2
        <5>. QED BY <2>1, <4>2, <5>1
      <4>. QED BY <4>1, <4>2
    <3>. QED BY <3>1, <3>2
  <2>. HIDE DEF f2, OK
  <2>. QED BY <2>2, <2>3
<1>3. Nat \subseteq T
  <2>. HIDE DEF T
  <2>. QED BY <1>1, <1>2, NatAreAll
<1>4. PICK f \in [0 .. N -> D] : OK(f, N)
  BY <1>3
<1>5. f = [n \in 0 .. N |-> f[n]]
  OBVIOUS
<1>6. ASSUME NEW n \in 0 .. N PROVE f[n] = IF n = 0 THEN a0 ELSE g[f[n - 1]]
  <2>1. n # 0 => n \in 1 .. N
    OBVIOUS
  <2>. QED BY <1>4, <2>1
<1>7. f = [n \in 0 .. N |-> IF n = 0 THEN a0 ELSE g[f[n - 1]]]
  BY <1>5, <1>6, Zenon
<1>. QED BY <1>7 DEF Iterated

\* The nodes that Chain looks at: the head of the list, and NULL in the end.
ChainNodes(m, idx, nth) ==
  nth = [n \in 0 .. MaxBlocks |->
           IF n = 0 THEN WSIZE * idx
           ELSE IF nth[n - 1] = NULL THEN NULL ELSE m[NEXTRP(nth[n - 1])]]

NotNull(nth, N) == {n \in 1 .. N : nth[n] # NULL}

ChainRuns(m, idx, nth) ==
  /\ ChainNodes(m, idx, nth)
  /\ Chain(m, idx) = [n \in 1 .. Cardinality(NotNull(nth, MaxBlocks)) |-> nth[n]]

\* The recursive function that Chain counts and lists by exists.
LEMMA ChainHasNodes ==
  ASSUME NEW m, NEW idx \in 1 .. 14, NEW D, WSIZE * idx \in D, NULL \in D,
         \A d \in D : d # NULL => m[d] \in D, MaxBlocks \in Nat
  PROVE  \E nth \in [0 .. MaxBlocks -> D] : ChainRuns(m, idx, nth)
<1>. DEFINE g == [d \in D |-> IF d = NULL THEN NULL ELSE m[d]]
            c == CHOOSE nth : ChainNodes(m, idx, nth)
<1>1. g \in [D -> D]
  OBVIOUS
<1>2. PICK f \in [0 .. MaxBlocks -> D] :
        f = [n \in 0 .. MaxBlocks |-> IF n = 0 THEN WSIZE * idx ELSE g[f[n - 1]]]
  <2>. HIDE DEF g
  <2>1. \A a0 \in D : \E f \in [0 .. MaxBlocks -> D] :
          Iterated(f, a0, g, MaxBlocks)
    BY <1>1, Iterates
  <2>. QED BY <2>1, Zenon DEF Iterated
<1>3. \A n \in 0 .. MaxBlocks : n # 0 => n - 1 \in 0 .. MaxBlocks
  OBVIOUS
<1>4. \A n \in 0 .. MaxBlocks : n # 0 =>
        g[f[n - 1]] = IF f[n - 1] = NULL THEN NULL ELSE m[NEXTRP(f[n - 1])]
  BY <1>3 DEF NEXTRP
<1>. HIDE DEF g
<1>5. [n \in 0 .. MaxBlocks |-> IF n = 0 THEN WSIZE * idx ELSE g[f[n - 1]]]
        = [n \in 0 .. MaxBlocks |->
             IF n = 0 THEN WSIZE * idx
             ELSE IF f[n - 1] = NULL THEN NULL ELSE m[NEXTRP(f[n - 1])]]
  BY <1>4, Zenon
<1>6. ChainNodes(m, idx, f)
  BY <1>2, <1>5 DEF ChainNodes
<1>7. ChainNodes(m, idx, c)
  BY <1>6
<1>8. c = f
  <2>1. \A n \in 0 .. MaxBlocks : c[n] = IF n = 0 THEN WSIZE * idx
             ELSE IF c[n - 1] = NULL THEN NULL ELSE m[NEXTRP(c[n - 1])]
    BY <1>7 DEF ChainNodes
  <2>2. \A n \in 0 .. MaxBlocks : f[n] = IF n = 0 THEN WSIZE * idx
             ELSE IF f[n - 1] = NULL THEN NULL ELSE m[NEXTRP(f[n - 1])]
    BY <1>6 DEF ChainNodes
  <2>. DEFINE S == {n \in Nat : n <= MaxBlocks => c[n] = f[n]}
  <2>. HIDE DEF c
  <2>3. 0 \in S
    BY <2>1, <2>2
  <2>4. ASSUME NEW n \in Nat, n \in S PROVE n + 1 \in S
    <3>1. SUFFICES ASSUME n + 1 <= MaxBlocks PROVE c[n + 1] = f[n + 1]
      OBVIOUS
    <3>2. c[n] = f[n] /\ n + 1 \in 0 .. MaxBlocks /\ n + 1 # 0 /\ (n + 1) - 1 = n
      BY <2>4, <3>1
    <3>. QED BY <2>1, <2>2, <3>2
  <2>5. Nat \subseteq S
    <3>. HIDE DEF S
    <3>. QED BY <2>3, <2>4, NatAreAll
  <2>6. \A n \in 0 .. MaxBlocks : c[n] = f[n]
    BY <2>5
  <2>7. c = [n \in 0 .. MaxBlocks |-> c[n]] /\ f = [n \in 0 .. MaxBlocks |-> f[n]]
    BY <1>6, <1>7 DEF ChainNodes
  <2>8. [n \in 0 .. MaxBlocks |-> c[n]] = [n \in 0 .. MaxBlocks |-> f[n]]
    BY <2>6, Zenon
  <2>. QED BY <2>7, <2>8, Zenon
<1>9. Chain(m, idx) = [n \in 1 .. Cardinality(NotNull(c, MaxBlocks)) |-> c[n]]
  BY DEF Chain, ChainNodes, NotNull
<1>. QED BY <1>6, <1>8, <1>9 DEF ChainRuns

\* A sequence that is not NULL at first and stays NULL once it is.
LEMMA PrefixOfNulls ==
  ASSUME NEW N \in Nat, NEW f, f[0] # NULL,
         \A n \in 0 .. N : n # 0 /\ f[n - 1] = NULL => f[n] = NULL
  PROVE  \E L \in 0 .. N : /\ Cardinality(NotNull(f, N)) = L
                           /\ \A n \in 0 .. L : f[n] # NULL
                           /\ L < N => f[L + 1] = NULL
<1>. DEFINE Z == {n \in Nat : n <= N /\ f[n] = NULL}
<1>1. \A L \in 0 .. N : Cardinality(1 .. L) = L
  BY FS_Interval
<1>2. CASE Z = {}
  <2>1. NotNull(f, N) = 1 .. N /\ N \in 0 .. N /\ \A n \in 0 .. N : f[n] # NULL
    BY <1>2 DEF NotNull
  <2>. QED BY <1>1, <2>1
<1>3. CASE Z # {}
  <2>1. PICK z \in Z : \A y \in Z : z <= y
    BY <1>3, NatHasLeast
  <2>2. z \in 0 .. N /\ f[z] = NULL /\ z # 0 /\ z - 1 \in 0 .. N /\ (z - 1) + 1 = z /\ z \in Nat
    BY <2>1
  <2>3. \A n \in 0 .. z - 1 : f[n] # NULL
    <3>1. ASSUME NEW n \in 0 .. z - 1, f[n] = NULL PROVE FALSE
      <4>1. n \in Z /\ n < z
        BY <2>2, <3>1
      <4>. QED BY <2>1, <2>2, <4>1
    <3>. QED BY <3>1
  <2>. DEFINE S == {d \in Nat : z + d <= N => f[z + d] = NULL}
  <2>4. 0 \in S
    BY <2>2
  <2>5. ASSUME NEW d \in Nat, d \in S PROVE d + 1 \in S
    <3>1. SUFFICES ASSUME z + (d + 1) <= N PROVE f[z + (d + 1)] = NULL
      OBVIOUS
    <3>2. f[z + d] = NULL /\ z + (d + 1) \in 0 .. N /\ z + (d + 1) # 0 /\ (z + (d + 1)) - 1 = z + d
      BY <2>2, <2>5, <3>1
    <3>. QED BY <3>2
  <2>6. Nat \subseteq S
    <3>. HIDE DEF S
    <3>. QED BY <2>4, <2>5, NatAreAll
  <2>7. ASSUME NEW n \in z .. N PROVE f[n] = NULL
    <3>1. n - z \in Nat /\ z + (n - z) = n
      BY <2>2
    <3>2. n - z \in S
      BY <2>6, <3>1
    <3>. QED BY <3>1, <3>2
  <2>8. NotNull(f, N) = 1 .. z - 1
    <3>1. \A n \in 1 .. N : n \in z .. N \/ n \in 0 .. z - 1
      BY <2>2
    <3>2. \A n : n \in 1 .. z - 1 <=> n \in 1 .. N /\ n \in 0 .. z - 1
      BY <2>2
    <3>3. \A n \in z .. N : n \notin 0 .. z - 1
      BY <2>2
    <3>. HIDE DEF Z, S
    <3>. QED BY <2>3, <2>7, <3>1, <3>2, <3>3, Zenon DEF NotNull
  <2>. HIDE DEF Z, S
  <2>. QED BY <1>1, <2>2, <2>3, <2>8
<1>. QED BY <1>2, <1>3

\* Chain gives the blocks of list idx in the order in which they are linked,
\* and it stops at the end of the list or when it has MaxBlocks of them.
IsChain(m, F, cl, idx, nth, L) ==
  /\ L \in 0 .. MaxBlocks
  /\ Chain(m, idx) = [n \in 1 .. L |-> nth[n]]
  /\ nth[0] = 4 * idx
  /\ \A n \in 1 .. L : /\ nth[n] \in F /\ cl[nth[n]] = idx
                       /\ m[nth[n] + 4] = nth[n - 1] /\ m[nth[n - 1]] = nth[n]
  /\ L < MaxBlocks => m[nth[L]] = 0

\* Following the links from a list head gives the blocks of the list, until
\* the first NULL.
LEMMA ChainFacts ==
  ASSUME NEW m, NEW F, NEW cl, NEW rk, Links(m, F, cl, rk), Linkable(F),
         NEW idx \in 1 .. 14, MaxBlocks \in Nat
  PROVE  \E nth, L : IsChain(m, F, cl, idx, nth, L)
<1>. DEFINE D == {4 * idx} \cup F \cup {0}
<1>1. 4 * idx \in D /\ 0 \in D /\ 4 * idx # 0
  OBVIOUS
<1>2. \A d \in D : d # 0 => m[d] \in D
  BY DEF Links, PointsWell
<1>3. PICK nth \in [0 .. MaxBlocks -> D] : ChainRuns(m, idx, nth)
  <2>1. WSIZE * idx \in D /\ NULL \in D /\ \A d \in D : d # NULL => m[d] \in D
    BY <1>1, <1>2 DEF WSIZE, NULL
  <2>. HIDE DEF D
  <2>. QED BY <2>1, ChainHasNodes
<1>4. /\ nth[0] = 4 * idx
      /\ \A n \in 0 .. MaxBlocks :
           n # 0 => nth[n] = IF nth[n - 1] = 0 THEN 0 ELSE m[nth[n - 1]]
  BY <1>3 DEF ChainRuns, ChainNodes, NEXTRP, WSIZE, NULL
<1>5. PICK L \in 0 .. MaxBlocks :
        /\ Cardinality(NotNull(nth, MaxBlocks)) = L
        /\ \A n \in 0 .. L : nth[n] # 0
        /\ L < MaxBlocks => nth[L + 1] = 0
  <2>1. nth[0] # NULL /\ \A n \in 0 .. MaxBlocks : n # 0 /\ nth[n - 1] = NULL => nth[n] = NULL
    BY <1>1, <1>4 DEF NULL
  <2>. HIDE DEF D
  <2>2. \A f : f[0] # NULL /\ (\A n \in 0 .. MaxBlocks : n # 0 /\ f[n - 1] = NULL => f[n] = NULL)
        => \E k \in 0 .. MaxBlocks :
             /\ Cardinality(NotNull(f, MaxBlocks)) = k
             /\ \A n \in 0 .. k : f[n] # NULL
             /\ k < MaxBlocks => f[k + 1] = NULL
    BY PrefixOfNulls
  <2>. QED BY <2>1, <2>2, Zenon DEF NULL
<1>. DEFINE In(n) == nth[n] \in F /\ cl[nth[n]] = idx
            S == {n \in Nat : n <= L => n = 0 \/ In(n)}
<1>6. ASSUME NEW n \in 1 .. L, n - 1 = 0 \/ In(n - 1)
      PROVE  In(n) /\ m[nth[n] + 4] = nth[n - 1] /\ m[nth[n - 1]] = nth[n]
  <2>1. n \in 0 .. MaxBlocks /\ n # 0 /\ n - 1 \in 0 .. L /\ n \in 0 .. L
    BY <1>5
  <2>2. nth[n] # 0 /\ nth[n - 1] # 0 /\ nth[n] = m[nth[n - 1]]
    BY <1>4, <1>5, <2>1
  <2>3. PointsWell(m, nth[n - 1], F, cl, idx)
    <3>1. CASE n - 1 = 0
      <4>1. nth[n - 1] = 4 * idx
        BY <1>4, <3>1
      <4>2. PointsWell(m, 4 * idx, F, cl, idx)
        BY DEF Links
      <4>. QED BY <4>1, <4>2
    <3>2. CASE In(n - 1)
      BY <3>2 DEF Links
    <3>. QED BY <1>6, <3>1, <3>2
  <2>. QED BY <2>2, <2>3 DEF PointsWell
<1>7. Nat \subseteq S
  <2>1. 0 \in S
    OBVIOUS
  <2>2. ASSUME NEW n \in Nat, n \in S PROVE n + 1 \in S
    <3>1. SUFFICES ASSUME n + 1 <= L PROVE In(n + 1)
      OBVIOUS
    <3>2. n + 1 \in 1 .. L /\ (n + 1) - 1 = n /\ n <= L
      BY <1>5, <3>1
    <3>3. n = 0 \/ In(n)
      BY <2>2, <3>2
    <3>. HIDE DEF In
    <3>. QED BY <1>6, <3>2, <3>3
  <2>. HIDE DEF S
  <2>. QED BY <2>1, <2>2, NatAreAll
<1>8. ASSUME NEW n \in 1 .. L
      PROVE  In(n) /\ m[nth[n] + 4] = nth[n - 1] /\ m[nth[n - 1]] = nth[n]
  <2>1. n - 1 \in Nat /\ n - 1 <= L
    BY <1>5
  <2>2. n - 1 = 0 \/ In(n - 1)
    BY <1>7, <2>1
  <2>. QED BY <1>6, <2>2
<1>9. L < MaxBlocks => m[nth[L]] = 0
  <2>1. L < MaxBlocks => L + 1 \in 0 .. MaxBlocks /\ L + 1 # 0 /\ (L + 1) - 1 = L /\ L \in 0 .. L
    BY <1>5
  <2>. QED BY <1>4, <1>5, <2>1
<1>10. Chain(m, idx) = [n \in 1 .. L |-> nth[n]]
  BY <1>3, <1>5, Zenon DEF ChainRuns
<1>11. \A n \in 1 .. L : /\ nth[n] \in F /\ cl[nth[n]] = idx
                        /\ m[nth[n] + 4] = nth[n - 1] /\ m[nth[n - 1]] = nth[n]
  BY <1>8
<1>12. IsChain(m, F, cl, idx, nth, L)
  BY <1>4, <1>5, <1>9, <1>10, <1>11, Zenon DEF IsChain
<1>. QED BY <1>12

\* Further down the list the rank is higher.
LEMMA ChainRises ==
  ASSUME NEW m, NEW F, NEW cl, NEW rk, Links(m, F, cl, rk), Linkable(F),
         NEW idx \in 1 .. 14, NEW nth, NEW L, IsChain(m, F, cl, idx, nth, L), MaxBlocks \in Nat
  PROVE  \A n, k \in 1 .. L : n < k => rk[nth[n]] < rk[nth[k]]
<1>1. L \in Nat
  BY DEF IsChain
<1>2. ASSUME NEW n \in 1 .. L, n + 1 <= L PROVE rk[nth[n]] < rk[nth[n + 1]]
  <2>1. n + 1 \in 1 .. L /\ (n + 1) - 1 = n
    BY <1>1, <1>2
  <2>2. nth[n] \in F /\ nth[n + 1] \in F /\ m[nth[n + 1] + 4] = nth[n]
    BY <2>1 DEF IsChain
  <2>3. cl[nth[n + 1]] \in 1 .. 14
    BY <2>2 DEF Links
  <2>4. nth[n] # 4 * cl[nth[n + 1]]
    BY <2>2, <2>3, LinksApart
  <2>. QED BY <2>2, <2>4 DEF Links
<1>. DEFINE S == {d \in Nat : \A n \in 1 .. L : d > 0 /\ n + d <= L => rk[nth[n]] < rk[nth[n + d]]}
<1>3. 0 \in S
  OBVIOUS
<1>4. ASSUME NEW d \in Nat, d \in S PROVE d + 1 \in S
  <2>1. SUFFICES ASSUME NEW n \in 1 .. L, n + (d + 1) <= L
                 PROVE  rk[nth[n]] < rk[nth[n + (d + 1)]]
    OBVIOUS
  <2>2. n + d \in 1 .. L /\ (n + d) + 1 <= L /\ (n + d) + 1 = n + (d + 1)
    BY <1>1, <2>1
  <2>3. n + (d + 1) \in 1 .. L
    BY <1>1, <2>1
  <2>4. rk[nth[n + d]] < rk[nth[n + (d + 1)]]
    BY <1>2, <2>2
  <2>5. rk[nth[n]] \in Nat /\ rk[nth[n + d]] \in Nat /\ rk[nth[n + (d + 1)]] \in Nat
    BY <2>2, <2>3 DEF IsChain, Links
  <2>6. d > 0 => rk[nth[n]] < rk[nth[n + d]]
    BY <1>4, <2>2
  <2>7. CASE d = 0
    BY <2>4, <2>7
  <2>8. CASE d > 0
    BY <2>4, <2>5, <2>6, <2>8
  <2>. QED BY <2>7, <2>8
<1>5. Nat \subseteq S
  <2>. HIDE DEF S
  <2>. QED BY <1>3, <1>4, NatAreAll
<1>6. ASSUME NEW n \in 1 .. L, NEW k \in 1 .. L, n < k PROVE rk[nth[n]] < rk[nth[k]]
  <2>1. k - n \in Nat /\ k - n > 0 /\ n + (k - n) = k /\ k <= L
    BY <1>1, <1>6
  <2>2. k - n \in S
    BY <1>5, <2>1
  <2>. QED BY <2>1, <2>2
<1>. QED BY <1>6

\* The blocks of a heap are fewer than MaxBlocks: Chain sees the end of a list.
LEMMA ChainShort ==
  ASSUME NEW m, NEW brk1, NEW B, Tiles(m, brk1, B), NEW F \in SUBSET B,
         NEW cl, NEW rk, Links(m, F, cl, rk),
         NEW idx \in 1 .. 14, NEW nth, NEW L, IsChain(m, F, cl, idx, nth, L)
  PROVE  L \in Nat /\ L < MaxBlocks /\ MaxBlocks \in Nat
<1>1. MaxBlocks \in Nat /\ MaxBlocks >= 4
  BY SizesAssumption DEF MaxBlocks, DSIZE
<1>2. L \in 0 .. MaxBlocks
  BY DEF IsChain
<1>3. SUFFICES ASSUME L = MaxBlocks PROVE FALSE
  BY <1>1, <1>2
<1>. DEFINE f == [n \in 1 .. L |-> nth[n] \div 16]
<1>4. ASSUME NEW b \in B PROVE b \div 16 \in 1 .. MaxBlocks - 1
  <2>1. b \in Nat /\ b >= 72 /\ BlockSize(m, b) \in Nat /\ BlockSize(m, b) >= 16
        /\ b + BlockSize(m, b) <= brk1 /\ brk1 \in Nat /\ brk1 <= MAX_HEAP
    BY TilesFacts
  <2>2. MAX_HEAP \in Nat
    BY SizesAssumption
  <2>3. b + 16 <= MAX_HEAP
    BY <2>1, <2>2
  <2>. QED BY <2>1, <2>2, <2>3 DEF MaxBlocks, DSIZE
<1>5. ASSUME NEW b \in B, NEW c \in B, b < c PROVE b \div 16 # c \div 16
  <2>1. b \in Nat /\ c \in Nat /\ BlockSize(m, b) \in Nat /\ BlockSize(m, b) >= 16
        /\ b + BlockSize(m, b) <= c
    BY <1>5, TilesFacts
  <2>2. b + 16 <= c
    BY <2>1
  <2>. QED BY <2>1, <2>2
<1>6. \A n \in 1 .. L : nth[n] \in B
  BY DEF IsChain
<1>7. f \in [1 .. L -> 1 .. MaxBlocks - 1]
  BY <1>4, <1>6
<1>8. PICK x, y \in 1 .. L : x # y /\ f[x] = f[y]
  <2>1. IsFiniteSet(1 .. L) /\ Cardinality(1 .. L) = L
    BY <1>1, <1>3, FS_Interval
  <2>2. IsFiniteSet(1 .. MaxBlocks - 1) /\ Cardinality(1 .. MaxBlocks - 1) = MaxBlocks - 1
    BY <1>1, FS_Interval
  <2>3. Cardinality(1 .. MaxBlocks - 1) < Cardinality(1 .. L)
    BY <1>1, <1>3, <2>1, <2>2
  <2>. HIDE DEF f
  <2>. QED BY <1>7, <2>1, <2>2, <2>3, FS_PigeonHole
<1>9. nth[x] \div 16 = nth[y] \div 16 /\ nth[x] \in B /\ nth[y] \in B
  BY <1>6, <1>8
<1>10. nth[x] \in Nat /\ nth[y] \in Nat
  BY <1>9, TilesFacts
<1>11. nth[x] = nth[y]
  BY <1>5, <1>9, <1>10
<1>12. Linkable(F)
  BY BlocksLinkable
<1>13. \A n, k \in 1 .. L : n < k => rk[nth[n]] < rk[nth[k]]
  BY <1>1, <1>12, ChainRises
<1>14. rk[nth[x]] \in Nat
  BY DEF IsChain, Links
<1>15. x < y \/ y < x
  BY <1>1, <1>2, <1>8
<1>16. rk[nth[x]] < rk[nth[x]]
  BY <1>11, <1>13, <1>15
<1>. QED BY <1>14, <1>16

\* The list holds every block of its sizes.
Covers(F, cl, idx, nth, L) ==
  \A b \in F : cl[b] = idx => \E n \in 1 .. L : nth[n] = b

\* Every free block of the list is met on the way.
LEMMA ChainCovers ==
  ASSUME NEW m, NEW brk1, NEW B, Tiles(m, brk1, B), NEW F \in SUBSET B,
         NEW cl, NEW rk, Links(m, F, cl, rk),
         NEW idx \in 1 .. 14, NEW nth, NEW L, IsChain(m, F, cl, idx, nth, L)
  PROVE  Covers(F, cl, idx, nth, L)
<1>. DEFINE X == {b \in F : cl[b] = idx /\ \A n \in 1 .. L : nth[n] # b}
            R == {rk[b] : b \in X}
<1>1. SUFFICES ASSUME X # {} PROVE FALSE
  BY DEF Covers
<1>2. R \subseteq Nat /\ R # {}
  BY <1>1 DEF Links
<1>3. PICK r \in R : \A y \in R : r <= y
  <2>. HIDE DEF R
  <2>. QED BY <1>2, NatHasLeast
<1>4. PICK b \in X : r = rk[b]
  OBVIOUS
<1>5. b \in F /\ cl[b] = idx /\ (\A n \in 1 .. L : nth[n] # b) /\ rk[b] \in Nat
  BY <1>4 DEF Links
<1>6. b # 0
  BY <1>5, BlocksLinkable, LinksApart
<1>7. L \in Nat /\ L < MaxBlocks /\ m[nth[L]] = 0
  <2>1. L \in Nat /\ L < MaxBlocks
    BY ChainShort
  <2>. QED BY <2>1 DEF IsChain
<1>8. ASSUME NEW n \in 0 .. L, m[nth[n]] = b PROVE FALSE
  <2>1. n # L
    BY <1>6, <1>7, <1>8
  <2>2. n + 1 \in 1 .. L /\ (n + 1) - 1 = n
    BY <1>7, <2>1
  <2>3. nth[n + 1] = b
    BY <1>8, <2>2 DEF IsChain
  <2>. QED BY <1>5, <2>2, <2>3
<1>9. CASE m[b + 4] = 4 * idx /\ m[4 * idx] = b
  <2>1. 0 \in 0 .. L /\ nth[0] = 4 * idx
    BY <1>7 DEF IsChain
  <2>. QED BY <1>8, <1>9, <2>1
<1>10. CASE m[b + 4] \in F /\ m[m[b + 4]] = b /\ rk[m[b + 4]] < rk[b]
  <2>1. cl[m[b + 4]] = idx /\ rk[m[b + 4]] \in Nat
    BY <1>5, <1>6, <1>10 DEF Links, PointsWell
  <2>2. m[b + 4] \notin X
    BY <1>3, <1>4, <1>5, <1>10, <2>1
  <2>3. PICK n \in 1 .. L : nth[n] = m[b + 4]
    BY <1>10, <2>1, <2>2
  <2>4. n \in 0 .. L /\ m[nth[n]] = b
    BY <1>7, <1>10, <2>3
  <2>. QED BY <1>8, <2>4
<1>. QED BY <1>5, <1>9, <1>10 DEF Links

\* best_fit finds a free block of at least the size it looks for, or none.
LEMMA BestFit ==
  ASSUME NEW m, NEW brk1, NEW B, NEW F, Heap(m, brk1, B, F), NEW sz \in Eights, sz >= 16
  PROVE  \/ best_fit(m, sz) = NULL /\ \A b \in F : BlockSize(m, b) < sz
         \/ best_fit(m, sz) \in F /\ BlockSize(m, best_fit(m, sz)) >= sz
<1>. DEFINE lists == ListsThatFit(m, sz)
            idx   == Min(lists)
            c     == Chain(m, idx)
            fits  == Fitting(m, idx, sz)
            near  == {n \in fits : BlockSize(m, c[n]) <= sz + 16}
            least == {n \in fits : \A k \in fits : BlockSize(m, c[n]) <= BlockSize(m, c[k])}
            T     == IF idx <= 4 THEN fits ELSE IF near # {} THEN near ELSE least
<1>1. CASE lists = {}
  <2>1. best_fit(m, sz) = NULL
    BY <1>1 DEF best_fit
  <2>2. ASSUME NEW b \in F, BlockSize(m, b) >= sz PROVE FALSE
    <3>1. PICK cl, rk : cl = ListOf(m, F) /\ Links(m, F, cl, rk)
      BY DEF Heap
    <3>2. Tiles(m, brk1, B) /\ F \in SUBSET B /\ Linkable(F) /\ IsFree(m, b)
      BY BlocksLinkable DEF Heap, Frees
    <3>3. MaxBlocks \in Nat
      BY SizesAssumption DEF MaxBlocks, DSIZE
    <3>4. PICK i \in 1 .. 14 : i = cl[b] /\ i = Index(BlockSize(m, b))
      BY <3>1 DEF ListOf, Links
    <3>5. PICK nth, L : IsChain(m, F, cl, i, nth, L)
      BY <3>1, <3>2, <3>3, ChainFacts
    <3>6. Covers(F, cl, i, nth, L)
      BY <3>1, <3>2, <3>5, ChainCovers
    <3>7. PICK n \in 1 .. L : nth[n] = b
      BY <3>4, <3>6 DEF Covers
    <3>8. n \in DOMAIN Chain(m, i) /\ Chain(m, i)[n] = b
      BY <3>5, <3>7 DEF IsChain
    <3>9. Fitting(m, i, sz) # {}
      BY <2>2, <3>2, <3>8 DEF Fitting
    <3>10. Index(sz) <= i /\ Index(sz) \in 1 .. 14
      <4>1. BlockSize(m, b) \in Eights /\ BlockSize(m, b) \in Nat /\ sz \in Nat
        BY <3>2, TilesFacts DEF Eights
      <4>2. sz <= BlockSize(m, b)
        BY <2>2, <4>1
      <4>. QED BY <3>4, <4>1, <4>2, IndexMonotone, HasList
    <3>11. i \in lists
      BY <3>9, <3>10 DEF ListsThatFit
    <3>. QED BY <1>1, <3>11
  <2>3. \A b \in F : BlockSize(m, b) \in Nat /\ sz \in Nat
    BY TilesFacts DEF Heap, Frees, Eights
  <2>. QED BY <2>1, <2>2, <2>3
<1>2. CASE lists # {}
  <2>1. best_fit(m, sz) = c[Min(T)]
    BY <1>2 DEF best_fit
  <2>2. idx \in 1 .. 14 /\ fits # {}
    <3>1. lists \subseteq Nat
      BY HasList DEF ListsThatFit
    <3>2. idx \in lists
      <4>. HIDE DEF lists
      <4>. QED BY <1>2, <3>1, MinIsIn
    <3>3. Index(sz) \in 1 .. 14
      BY HasList
    <3>. QED BY <3>2, <3>3 DEF ListsThatFit
  <2>3. PICK cl, rk : cl = ListOf(m, F) /\ Links(m, F, cl, rk)
    BY DEF Heap
  <2>4. Tiles(m, brk1, B) /\ F \subseteq B /\ Linkable(F)
    BY BlocksLinkable DEF Heap, Frees
  <2>5. MaxBlocks \in Nat
    BY SizesAssumption DEF MaxBlocks, DSIZE
  <2>. HIDE DEF lists, idx
  <2>6. PICK nth, L : IsChain(m, F, cl, idx, nth, L)
    BY <2>2, <2>3, <2>4, <2>5, ChainFacts
  <2>7. /\ DOMAIN c = 1 .. L /\ L \in Nat
        /\ \A n \in 1 .. L : c[n] \in F
    BY <2>6 DEF IsChain
  <2>8. /\ fits \subseteq 1 .. L /\ fits \subseteq Nat
        /\ \A n \in fits : c[n] \in F /\ BlockSize(m, c[n]) >= sz
    BY <2>7 DEF Fitting
  <2>9. T # {} /\ T \subseteq fits
    <3>1. least # {}
      <4>. DEFINE R == {BlockSize(m, c[n]) : n \in fits}
      <4>1. R \subseteq Nat /\ R # {}
        BY <2>2, <2>4, <2>8, TilesFacts
      <4>2. PICK r \in R : \A y \in R : r <= y
        <5>. HIDE DEF R
        <5>. QED BY <4>1, NatHasLeast
      <4>3. PICK n \in fits : r = BlockSize(m, c[n])
        OBVIOUS
      <4>. QED BY <4>2, <4>3
    <3>. HIDE DEF fits, c
    <3>. QED BY <2>2, <3>1
  <2>10. Min(T) \in T
    <3>. HIDE DEF T, fits
    <3>. QED BY <2>8, <2>9, MinIsIn
  <2>11. Min(T) \in fits
    <3>. HIDE DEF T
    <3>. QED BY <2>9, <2>10
  <2>. HIDE DEF T, fits, c
  <2>. QED BY <2>1, <2>8, <2>11
<1>. QED BY <1>1, <1>2

-----------------------------------------------------------------------------
(***************************************************************************)
(* What mm_checkheap looks at.                                             *)
(***************************************************************************)
\* The first block, or the end of a heap without blocks, is behind the prologue.
LEMMA FirstIsThere ==
  ASSUME NEW m, NEW brk1, NEW B, Tiles(m, brk1, B)
  PROVE  72 \in B \cup {brk1}
<1>1. B \cup {brk1} \subseteq Nat /\ B \cup {brk1} # {}
  BY TilesFacts
<1>2. PICK x \in B \cup {brk1} : \A y \in B \cup {brk1} : x <= y
  BY <1>1, NatHasLeast
<1>3. ASSUME NEW c \in B, c + BlockSize(m, c) = x PROVE FALSE
  <2>1. c \in Nat /\ BlockSize(m, c) \in Nat /\ BlockSize(m, c) >= 16 /\ x <= c
    BY <1>2, TilesFacts
  <2>2. x \in Nat
    BY <1>1
  <2>. QED BY <1>3, <2>1, <2>2
<1>. QED BY <1>2, <1>3, TilesFacts

\* The addresses that Walk looks at.
WalkNodes(m, brk1, nth) ==
  nth = [n \in 0 .. MaxBlocks |->
           IF n = 0 THEN FirstBlock
           ELSE IF nth[n - 1] < brk1 THEN NEXTBLK(m, nth[n - 1]) ELSE nth[n - 1]]

\* The recursive function that Walk collects exists.
LEMMA WalkHasNodes ==
  ASSUME NEW m, NEW brk1, NEW B, Tiles(m, brk1, B), NEW p,
         NEW h, h = [mem |-> m, brk |-> brk1, bp |-> p]
  PROVE  \E nth : WalkNodes(m, brk1, nth) /\ Walk(h) = {nth[n] : n \in 0 .. MaxBlocks}
<1>. DEFINE D == B \cup {brk1}
            g == [d \in D |-> IF d < brk1 THEN d + BlockSize(m, d) ELSE d]
            c == CHOOSE nth : WalkNodes(m, brk1, nth)
<1>1. MaxBlocks \in Nat
  BY SizesAssumption DEF MaxBlocks, DSIZE
<1>2. g \in [D -> D]
  <2>1. ASSUME NEW d \in D PROVE (IF d < brk1 THEN d + BlockSize(m, d) ELSE d) \in D
    <3>1. d \in B => d + BlockSize(m, d) \in D
      BY TilesFacts
    <3>2. d = brk1 => ~(d < brk1)
      BY TilesFacts
    <3>. QED BY <3>1, <3>2
  <2>. HIDE DEF D
  <2>. QED BY <2>1
<1>3. FirstBlock \in D
  BY FirstIsThere DEF FirstBlock, WSIZE
<1>4. PICK f \in [0 .. MaxBlocks -> D] : Iterated(f, FirstBlock, g, MaxBlocks)
  <2>. HIDE DEF D, g
  <2>. QED BY <1>1, <1>2, <1>3, Iterates
<1>5. \A n \in 0 .. MaxBlocks : n # 0 => n - 1 \in 0 .. MaxBlocks
  BY <1>1
<1>6. \A n \in 0 .. MaxBlocks : n # 0 =>
        g[f[n - 1]] = IF f[n - 1] < brk1 THEN NEXTBLK(m, f[n - 1]) ELSE f[n - 1]
  BY <1>5 DEF NEXTBLK
<1>7. WalkNodes(m, brk1, f)
  <2>. HIDE DEF g
  <2>1. f = [n \in 0 .. MaxBlocks |-> IF n = 0 THEN FirstBlock ELSE g[f[n - 1]]]
    BY <1>4, Zenon DEF Iterated
  <2>2. [n \in 0 .. MaxBlocks |-> IF n = 0 THEN FirstBlock ELSE g[f[n - 1]]]
          = [n \in 0 .. MaxBlocks |->
               IF n = 0 THEN FirstBlock
               ELSE IF f[n - 1] < brk1 THEN NEXTBLK(m, f[n - 1]) ELSE f[n - 1]]
    BY <1>6, Zenon
  <2>. QED BY <2>1, <2>2 DEF WalkNodes
<1>8. WalkNodes(m, brk1, c)
  BY <1>7
<1>9. Walk(h) = {c[n] : n \in 0 .. MaxBlocks}
  <2>1. h.mem = m /\ h.brk = brk1
    OBVIOUS
  <2>. QED BY <2>1 DEF Walk, WalkNodes
<1>. QED BY <1>8, <1>9

\* It meets every block, and the end of the heap.
LEMMA WalkMeets ==
  ASSUME NEW m, NEW brk1, NEW B, Tiles(m, brk1, B), NEW p,
         NEW h, h = [mem |-> m, brk |-> brk1, bp |-> p]
  PROVE  Walk(h) = B \cup {brk1}
<1>. DEFINE D == B \cup {brk1}
<1>1. MaxBlocks \in Nat
  BY SizesAssumption DEF MaxBlocks, DSIZE
<1>2. PICK c : WalkNodes(m, brk1, c) /\ Walk(h) = {c[n] : n \in 0 .. MaxBlocks}
  BY WalkHasNodes
<1>3. /\ c[0] = 72
      /\ \A n \in 0 .. MaxBlocks : n # 0 =>
           c[n] = IF c[n - 1] < brk1 THEN c[n - 1] + BlockSize(m, c[n - 1]) ELSE c[n - 1]
  BY <1>1, <1>2 DEF WalkNodes, FirstBlock, WSIZE, NEXTBLK
<1>. DEFINE Far(n) == c[n] \in D /\ (c[n] \in B => c[n] >= 72 + 16 * n)
            S      == {n \in Nat : n <= MaxBlocks => Far(n)}
<1>4. 0 \in S
  BY <1>3, FirstIsThere
<1>5. ASSUME NEW n \in Nat, n \in S PROVE n + 1 \in S
  <2>1. SUFFICES ASSUME n + 1 <= MaxBlocks PROVE Far(n + 1)
    OBVIOUS
  <2>2. n <= MaxBlocks /\ n + 1 \in 0 .. MaxBlocks /\ n + 1 # 0 /\ (n + 1) - 1 = n
    BY <1>1, <2>1
  <2>3. c[n + 1] = IF c[n] < brk1 THEN c[n] + BlockSize(m, c[n]) ELSE c[n]
    BY <1>3, <2>2
  <2>4. c[n] \in D /\ (c[n] \in B => c[n] >= 72 + 16 * n)
    BY <1>5, <2>2
  <2>5. brk1 \notin B /\ brk1 \in Nat
    BY TilesFacts
  <2>6. CASE c[n] \in B
    <3>1. /\ c[n] \in Nat /\ BlockSize(m, c[n]) \in Nat /\ BlockSize(m, c[n]) >= 16
          /\ c[n] + BlockSize(m, c[n]) \in D /\ c[n] + BlockSize(m, c[n]) <= brk1
      BY <2>6, TilesFacts
    <3>2. c[n] < brk1
      BY <2>5, <3>1
    <3>3. c[n + 1] = c[n] + BlockSize(m, c[n])
      BY <2>3, <3>2
    <3>4. c[n + 1] >= 72 + 16 * (n + 1)
      BY <2>4, <2>6, <3>1, <3>3
    <3>. QED BY <3>1, <3>3, <3>4
  <2>7. CASE c[n] = brk1
    BY <2>3, <2>5, <2>7
  <2>. QED BY <2>4, <2>6, <2>7
<1>6. \A n \in 0 .. MaxBlocks : Far(n)
  <2>1. Nat \subseteq S
    <3>. HIDE DEF S
    <3>. QED BY <1>4, <1>5, NatAreAll
  <2>. QED BY <2>1
<1>7. Walk(h) \subseteq D
  BY <1>2, <1>6
<1>8. D \subseteq Walk(h)
  <2>1. SUFFICES ASSUME D \ Walk(h) # {} PROVE FALSE
    OBVIOUS
  <2>2. D \ Walk(h) \subseteq Nat
    BY TilesFacts
  <2>3. PICK d \in D \ Walk(h) : \A y \in D \ Walk(h) : d <= y
    <3>. HIDE DEF D
    <3>. QED BY <2>1, <2>2, NatHasLeast
  <2>4. d # 72
    BY <1>1, <1>2, <1>3
  <2>5. PICK b \in B : b + BlockSize(m, b) = d
    BY <2>4, TilesFacts
  <2>6. /\ b \in Nat /\ BlockSize(m, b) \in Nat /\ BlockSize(m, b) >= 16 /\ d \in Nat
        /\ d <= brk1 /\ brk1 \in Nat /\ brk1 <= MAX_HEAP
    BY <2>2, <2>5, TilesFacts
  <2>7. b \in Walk(h)
    BY <2>3, <2>5, <2>6
  <2>8. PICK n \in 0 .. MaxBlocks : c[n] = b
    BY <1>2, <2>7
  <2>9. b >= 72 + 16 * n /\ b + 16 <= MAX_HEAP /\ MAX_HEAP \in Nat
    BY <1>6, <2>5, <2>6, <2>8, SizesAssumption
  <2>10. n + 1 <= MaxBlocks
    BY <2>6, <2>9 DEF MaxBlocks, DSIZE
  <2>11. n + 1 \in 0 .. MaxBlocks /\ n + 1 # 0 /\ (n + 1) - 1 = n
    BY <2>10
  <2>12. c[n + 1] = d
    BY <1>3, <2>5, <2>6, <2>8, <2>11
  <2>. QED BY <1>2, <2>11, <2>12
<1>. QED BY <1>7, <1>8

\* Such a heap passes the check.
LEMMA GoodIsOK ==
  ASSUME NEW m, NEW brk1, NEW B, Good(m, brk1, B), NEW p,
         NEW h, h = [mem |-> m, brk |-> brk1, bp |-> p]
  PROVE  /\ mm_checkheap(h)
         /\ BlocksOf(h) = B /\ FreeBlocks(h) = Frees(m, B)
<1>1. Tiles(m, brk1, B) /\ Heap(m, brk1, B, Frees(m, B)) /\ NoTouch(m, B)
  BY DEF Good, Heap
<1>2. h.mem = m /\ h.brk = brk1
  OBVIOUS
<1>3. Walk(h) = B \cup {brk1} /\ brk1 \notin B
  BY <1>1, TilesFacts, WalkMeets
<1>4. BlocksOf(h) = B /\ FreeBlocks(h) = Frees(m, B)
  BY <1>2, <1>3 DEF BlocksOf, FreeBlocks, Frees
<1>5. BlocksTile(h)
  <2>1. h.mem[15 * WSIZE] = PACK(DSIZE, 1) /\ h.mem[16 * WSIZE] = PACK(DSIZE, 1)
    BY <1>1, <1>2 DEF Tiles, EndsOK
  <2>2. h.brk \in Walk(h) /\ h.mem[HEADRP(h.brk)] = PACK(0, 1)
    BY <1>1, <1>2, <1>3 DEF Tiles, EndsOK, HEADRP, WSIZE
  <2>3. ASSUME NEW b \in B
        PROVE  /\ BlockSize(m, b) > DSIZE /\ NEXTBLK(m, b) <= brk1
               /\ m[NEXTBLK(m, b) - DSIZE] = m[HEADRP(b)]
               /\ IsFree(m, b) => ~IsFree(m, NEXTBLK(m, b))
    <3>1. /\ BlockSize(m, b) \in Nat /\ BlockSize(m, b) >= 16 /\ b + BlockSize(m, b) <= brk1
          /\ m[b + BlockSize(m, b) - 8] = m[b - 4]
      BY <1>1, TilesFacts
    <3>2. NEXTBLK(m, b) = b + BlockSize(m, b)
          /\ NEXTBLK(m, b) \in B \cup {brk1} /\ ~IsFree(m, brk1)
      BY <1>1, Neighbours
    <3>3. IsFree(m, b) => ~IsFree(m, NEXTBLK(m, b))
      BY <1>1, <3>2 DEF NoTouch
    <3>4. b \in Nat
      BY <1>1, TilesFacts
    <3>5. (b + BlockSize(m, b)) - 8 = b + BlockSize(m, b) - 8
      BY <3>1, <3>4
    <3>. QED BY <3>1, <3>2, <3>3, <3>5 DEF DSIZE, HEADRP, WSIZE
  <2>. QED BY <1>2, <1>4, <2>1, <2>2, <2>3 DEF BlocksTile
<1>6. ListsHoldTheFree(h)
  <2>. DEFINE F == Frees(m, B)
  <2>1. PICK cl, rk : cl = ListOf(m, F) /\ Links(m, F, cl, rk)
    BY <1>1 DEF Heap
  <2>2. F \subseteq B /\ Linkable(F)
    BY <1>1, BlocksLinkable DEF Frees
  <2>3. MaxBlocks \in Nat
    BY SizesAssumption DEF MaxBlocks, DSIZE
  <2>4. \A b \in F : cl[b] = Index(BlockSize(m, b)) /\ cl[b] \in 1 .. 14
    BY <2>1 DEF ListOf, Links
  <2>. HIDE DEF F
  <2>5. ASSUME NEW idx \in 1 .. 14, NEW n \in DOMAIN Chain(m, idx)
        PROVE  /\ Chain(m, idx)[n] \in F /\ Index(BlockSize(m, Chain(m, idx)[n])) = idx
               /\ m[PREVRP(Chain(m, idx)[n])] =
                    IF n = 1 THEN WSIZE * idx ELSE Chain(m, idx)[n - 1]
    <3>1. PICK nth, L : IsChain(m, F, cl, idx, nth, L)
      BY <2>1, <2>2, <2>3, ChainFacts
    <3>2. /\ L \in Nat /\ n \in 1 .. L /\ Chain(m, idx)[n] = nth[n]
          /\ nth[0] = 4 * idx
          /\ nth[n] \in F /\ cl[nth[n]] = idx /\ m[nth[n] + 4] = nth[n - 1]
      BY <3>1 DEF IsChain
    <3>3. n = 1 => nth[n - 1] = 4 * idx
      BY <3>2
    <3>4. n # 1 => n - 1 \in 1 .. L
      BY <3>2
    <3>5. n # 1 => nth[n - 1] = Chain(m, idx)[n - 1]
      BY <3>1, <3>4 DEF IsChain
    <3>6. Index(BlockSize(m, nth[n])) = idx
      BY <2>4, <3>2
    <3>7. m[nth[n] + 4] = IF n = 1 THEN 4 * idx ELSE Chain(m, idx)[n - 1]
      BY <3>2, <3>3, <3>5
    <3>. QED BY <3>2, <3>6, <3>7 DEF PREVRP, WSIZE
  <2>6. ASSUME NEW b \in F
        PROVE  \E n \in DOMAIN Chain(m, Index(BlockSize(m, b))) :
                 Chain(m, Index(BlockSize(m, b)))[n] = b
    <3>1. PICK idx \in 1 .. 14 : idx = cl[b] /\ idx = Index(BlockSize(m, b))
      BY <2>4
    <3>2. PICK nth, L : IsChain(m, F, cl, idx, nth, L)
      BY <2>1, <2>2, <2>3, ChainFacts
    <3>3. PICK n \in 1 .. L : nth[n] = b
      <4>1. Links(m, F, cl, rk) /\ F \in SUBSET B /\ Tiles(m, brk1, B)
        BY <1>1, <2>1, <2>2
      <4>2. Covers(F, cl, idx, nth, L)
        BY <3>2, <4>1, ChainCovers
      <4>. QED BY <3>1, <4>2 DEF Covers
    <3>4. Chain(m, idx) = [k \in 1 .. L |-> nth[k]]
      BY <3>2 DEF IsChain
    <3>5. \E k \in DOMAIN Chain(m, idx) : Chain(m, idx)[k] = b
      BY <3>3, <3>4
    <3>. QED BY <3>1, <3>5
  <2>7. FreeBlocks(h) = F
    BY <1>4 DEF F
  <2>. QED BY <1>2, <2>5, <2>6, <2>7 DEF ListsHoldTheFree
<1>. QED BY <1>4, <1>5, <1>6 DEF mm_checkheap

-----------------------------------------------------------------------------
(***************************************************************************)
(* The entry points.                                                       *)
(***************************************************************************)
\* Below the last sizes that a size_t has, the sum that Need divides is exact.
LEMMA NeedIsExact ==
  ASSUME NEW sz \in Nat, ~Wraps(sz)
  PROVE  Need(sz) = 8 * (IF sz <= 8 THEN 2 ELSE (sz + 8 + 8 - 1) \div 8)
<1>1. SizeModulus \in Nat
  BY MmAssumption
<1>2. sz + 8 + 8 - 1 \in Nat /\ sz + 8 + 8 - 1 < SizeModulus
  BY <1>1 DEF Wraps, DSIZE
<1>3. (sz + 8 + 8 - 1) % SizeModulus = sz + 8 + 8 - 1
  BY <1>1, <1>2
<1>. QED BY <1>3 DEF Need, DSIZE

\* malloc refuses a size for which it is not.
LEMMA SmallIsExact ==
  ASSUME NEW sz \in Nat, ~(sz > MAXSIZE)
  PROVE  ~Wraps(sz)
<1>1. SizeModulus \in Nat /\ MAXSIZE \in Nat /\ MAXSIZE <= SizeModulus - 16
  BY MmAssumption, SizesAssumption DEF DSIZE
<1>. QED BY <1>1 DEF Wraps, DSIZE

\* Where the sum wraps, fewer bytes are left of it than the least block has, and
\* malloc would have refused the size.
LEMMA WrappedNeed ==
  ASSUME NEW sz \in 0 .. (SizeModulus - 1), Wraps(sz)
  PROVE  Need(sz) \in {0, 8} /\ sz > MAXSIZE
<1>1. /\ SizeModulus \in Nat /\ MAXSIZE \in Nat /\ MAX_HEAP \in Nat /\ MAX_HEAP >= 72
      /\ MAXSIZE <= SizeModulus - 16 /\ MAX_HEAP <= SizeModulus - 16
  BY MmAssumption, SizesAssumption DEF DSIZE
<1>2. sz + 15 >= SizeModulus /\ sz + 15 < SizeModulus + 15 /\ sz > 8 /\ sz \in Nat /\ sz > MAXSIZE
  BY <1>1 DEF Wraps, DSIZE
<1>3. PICK k \in 0 .. 14 : sz + 8 + 8 - 1 = SizeModulus + k
  <2>1. sz + 15 - SizeModulus \in 0 .. 14
    BY <1>1, <1>2
  <2>2. sz + 8 + 8 - 1 = SizeModulus + (sz + 15 - SizeModulus)
    BY <1>1, <1>2
  <2>. QED BY <2>1, <2>2
<1>4. (SizeModulus + k) % SizeModulus = k
  BY <1>1
<1>5. k \div 8 \in {0, 1}
  OBVIOUS
<1>6. Need(sz) = 8 * (k \div 8)
  BY <1>2, <1>3, <1>4 DEF Need, DSIZE
<1>. QED BY <1>2, <1>5, <1>6

\* The size of a block for sz bytes.
LEMMA NeedIsEnough ==
  ASSUME NEW sz \in Nat, ~Wraps(sz)
  PROVE  Need(sz) \in Eights /\ Need(sz) >= 16 /\ Need(sz) >= sz + 8
<1>1. PICK q : q = (IF sz <= 8 THEN 2 ELSE (sz + 8 + 8 - 1) \div 8) /\ Need(sz) = 8 * q
  BY NeedIsExact
<1>2. q \in Nat /\ q >= 2 /\ 8 * q >= sz + 8
  BY <1>1
<1>3. 8 * q \in Nat /\ (8 * q) % 8 = 0 /\ 8 * q >= 16
  BY <1>2
<1>. QED BY <1>1, <1>2, <1>3 DEF Eights

\* No smaller block would do.
LEMMA NeedIsLeast ==
  ASSUME NEW sz \in Nat, ~Wraps(sz), NEW t \in Eights, t >= 16, t >= sz + 8
  PROVE  Need(sz) <= t
<1>1. PICK q : q = (IF sz <= 8 THEN 2 ELSE (sz + 8 + 8 - 1) \div 8) /\ Need(sz) = 8 * q
  BY NeedIsExact
<1>2. PICK k \in Nat : t = 8 * k
  <2>1. t \in Nat /\ t % 8 = 0
    BY DEF Eights
  <2>2. t \div 8 \in Nat /\ t = 8 * (t \div 8)
    BY <2>1
  <2>. QED BY <2>2
<1>3. q <= k
  BY <1>1, <1>2
<1>. QED BY <1>1, <1>2, <1>3

\* What is got after a step that leaves the allocated blocks alone.
LEMMA GetsThen ==
  ASSUME NEW m, NEW brk1, NEW B, Tiles(m, brk1, B), NEW m1, NEW B1, SameUsed(m, B, m1, B1),
         NEW m2, NEW r, NEW B2, NEW sz, Gets(m1, B1, m2, r, B2, sz)
  PROVE  Gets(m, B, m2, r, B2, sz)
<1>1. Used(m, B) \subseteq B
  BY DEF Used
<1>2. ASSUME NEW c \in Used(m, B) PROVE Untouched(m, m2, c)
  <2>1. Untouched(m, m1, c) /\ Untouched(m1, m2, c)
    BY DEF SameUsed, Gets
  <2>. QED BY <1>1, <2>1, UntouchedTwice
<1>. QED BY <1>2 DEF SameUsed, Gets

\* malloc leaves everything as it is and returns NULL, or the program gets a
\* block that it did not have.
MallocDid(m, brk1, B, r, need) ==
  \/ r = [mem |-> m, brk |-> brk1, bp |-> NULL]
  \/ \E m2, brk2, q, B2 :
       /\ r = [mem |-> m2, brk |-> brk2, bp |-> q]
       /\ Good(m2, brk2, B2) /\ Gets(m, B, m2, q, B2, need)

\* malloc returns a block that nobody had, or nothing.
LEMMA MallocGives ==
  ASSUME NEW m, NEW brk1, NEW B, Good(m, brk1, B), NEW p, NEW sz \in Nat, NEW granted \in BOOLEAN,
         NEW r, r = malloc([mem |-> m, brk |-> brk1, bp |-> p], sz, granted)
  PROVE  MallocDid(m, brk1, B, r, Need(sz))
<1>1. CASE sz = 0 \/ sz > MAXSIZE
  BY <1>1 DEF malloc, MallocDid
<1>2. CASE ~(sz = 0 \/ sz > MAXSIZE)
  <2>1. PICK need \in Eights : need = Need(sz) /\ need >= 16
    BY <1>2, SmallIsExact, NeedIsEnough
  <2>2. Heap(m, brk1, B, Frees(m, B)) /\ Tiles(m, brk1, B)
    BY DEF Good, Heap
  <2>3. CASE best_fit(m, need) # NULL
    <3>1. PICK q : q = best_fit(m, need) /\ q # NULL
      BY <2>3
    <3>2. q \in Frees(m, B) /\ need <= BlockSize(m, q)
      <4>1. BlockSize(m, q) >= need /\ q \in Frees(m, B)
        BY <2>1, <2>2, <3>1, BestFit
      <4>2. BlockSize(m, q) \in Nat /\ need \in Nat
        BY <2>2, <4>1, TilesFacts DEF Frees, Eights
      <4>. QED BY <4>1, <4>2
    <3>3. r = Carved([mem |-> m, brk |-> brk1, bp |-> q], need)
      BY <1>2, <2>1, <3>1 DEF malloc
    <3>4. PICK m2, q2, B2 :
            /\ Carved([mem |-> m, brk |-> brk1, bp |-> q], need)
                 = [mem |-> m2, brk |-> brk1, bp |-> q2]
            /\ Good(m2, brk1, B2) /\ Gets(m, B, m2, q2, B2, need)
      BY <2>1, <3>2, CarveUp
    <3>. QED BY <2>1, <3>3, <3>4 DEF MallocDid
  <2>4. CASE best_fit(m, need) = NULL
    <3>1. PICK e : e = expand_heap([mem |-> m, brk |-> brk1, bp |-> p], need, granted)
      OBVIOUS
    <3>2. r = Carved(e, need)
      BY <1>2, <2>1, <2>4, <3>1 DEF malloc
    <3>3. need \in Nat
      BY <2>1 DEF Eights
    <3>4. CASE e = [mem |-> m, brk |-> brk1, bp |-> NULL]
      BY <3>2, <3>4 DEF Carved, MallocDid
    <3>5. ASSUME NEW m1, NEW brk2, NEW q, NEW B1, e = [mem |-> m1, brk |-> brk2, bp |-> q],
                 Good(m1, brk2, B1), q \in Frees(m1, B1), BlockSize(m1, q) >= need,
                 SameUsed(m, B, m1, B1)
          PROVE  \E m2, q2, B2 :
                   /\ r = [mem |-> m2, brk |-> brk2, bp |-> q2]
                   /\ Good(m2, brk2, B2) /\ Gets(m, B, m2, q2, B2, need)
      <4>1. need <= BlockSize(m1, q)
        <5>1. BlockSize(m1, q) \in Nat
          BY <3>5, TilesFacts DEF Good, Heap, Frees
        <5>. QED BY <3>3, <3>5, <5>1
      <4>2. PICK m2, q2, B2 :
              /\ Carved([mem |-> m1, brk |-> brk2, bp |-> q], need)
                   = [mem |-> m2, brk |-> brk2, bp |-> q2]
              /\ Good(m2, brk2, B2) /\ Gets(m1, B1, m2, q2, B2, need)
        BY <2>1, <3>5, <4>1, CarveUp
      <4>3. Gets(m, B, m2, q2, B2, need)
        BY <2>2, <3>5, <4>2, GetsThen
      <4>. QED BY <3>2, <3>5, <4>2, <4>3
    <3>6. \/ e = [mem |-> m, brk |-> brk1, bp |-> NULL]
          \/ \E m1, brk2, q, B1 :
               /\ e = [mem |-> m1, brk |-> brk2, bp |-> q]
               /\ Good(m1, brk2, B1) /\ q \in Frees(m1, B1)
               /\ BlockSize(m1, q) >= need
               /\ SameUsed(m, B, m1, B1)
      BY <3>1, <3>3, Expand DEF ExpandDid
    <3>. QED BY <2>1, <3>4, <3>5, <3>6 DEF MallocDid
  <2>. QED BY <2>3, <2>4
<1>. QED BY <1>1, <1>2

\* The heap grows when no free block is large enough.
LEMMA MallocGrows ==
  ASSUME NEW m, NEW brk1, NEW B, Good(m, brk1, B), NEW p, NEW sz \in Nat, NEW granted \in BOOLEAN,
         NEW r, r = malloc([mem |-> m, brk |-> brk1, bp |-> p], sz, granted), r.brk # brk1
  PROVE  \A b \in Frees(m, B) : BlockSize(m, b) < Need(sz)
<1>1. ~(sz = 0 \/ sz > MAXSIZE)
  BY DEF malloc
<1>2. PICK need \in Eights : need = Need(sz) /\ need >= 16
  BY <1>1, SmallIsExact, NeedIsEnough
<1>3. Heap(m, brk1, B, Frees(m, B)) /\ Tiles(m, brk1, B)
  BY DEF Good, Heap
<1>4. ASSUME best_fit(m, need) # NULL PROVE FALSE
  <2>1. PICK q : q = best_fit(m, need) /\ q # NULL
    BY <1>4
  <2>2. q \in Frees(m, B) /\ need <= BlockSize(m, q)
    <3>1. BlockSize(m, q) >= need /\ q \in Frees(m, B)
      BY <1>2, <1>3, <2>1, BestFit
    <3>2. BlockSize(m, q) \in Nat /\ need \in Nat
      BY <1>3, <3>1, TilesFacts DEF Frees, Eights
    <3>. QED BY <3>1, <3>2
  <2>3. r = Carved([mem |-> m, brk |-> brk1, bp |-> q], need)
    BY <1>1, <1>2, <2>1 DEF malloc
  <2>4. PICK m2, q2, B2 :
          /\ Carved([mem |-> m, brk |-> brk1, bp |-> q], need)
               = [mem |-> m2, brk |-> brk1, bp |-> q2]
          /\ Good(m2, brk1, B2) /\ Gets(m, B, m2, q2, B2, need)
    BY <1>2, <2>2, CarveUp
  <2>. QED BY <2>3, <2>4
<1>5. best_fit(m, need) \in Frees(m, B) => best_fit(m, need) # NULL
  BY <1>3, TilesFacts DEF Frees, NULL
<1>. QED BY <1>2, <1>3, <1>4, <1>5, BestFit

\* free gives the block back, and the others are as they were.
FreeDid(m, brk1, B, p, r) ==
  \E m2, q, B2 :
    /\ r = [mem |-> m2, brk |-> brk1, bp |-> q]
    /\ Good(m2, brk1, B2)
    /\ Used(m2, B2) = Used(m, B) \ {p}
    /\ \A c \in Used(m, B) \ {p} : Untouched(m, m2, c)

\* free gives the block back, and touches no other allocated one.
LEMMA FreeGivesBack ==
  ASSUME NEW m, NEW brk1, NEW B, Good(m, brk1, B), NEW p \in Used(m, B), NEW x
  PROVE  FreeDid(m, brk1, B, p, free([mem |-> m, brk |-> brk1, bp |-> x], p))
<1>1. /\ Heap(m, brk1, B, Frees(m, B)) /\ Tiles(m, brk1, B) /\ NoTouch(m, B)
      /\ p \in B /\ p \notin Frees(m, B) /\ ~IsFree(m, p) /\ p >= 72 /\ p \in Nat
      /\ Frees(m, B) \subseteq B
  <2>1. Tiles(m, brk1, B) /\ p \in B
    BY DEF Good, Heap, Used
  <2>. QED BY <2>1, TilesFacts DEF Good, Used, Frees
<1>2. PICK m1 : m1 = Tagged(m, p, BlockSize(m, p), 0)
  OBVIOUS
<1>3. /\ Heap(m1, brk1, B, Frees(m, B))
      /\ BlockSize(m1, p) = BlockSize(m, p) /\ IsFree(m1, p)
      /\ \A c \in B \ {p} : Untouched(m, m1, c)
  BY <1>1, <1>2, RetagOne
<1>4. PICK m2 : m2 = [m1 EXCEPT ![p + 4] = 0, ![p] = 0]
  OBVIOUS
<1>5. Tiles(m1, brk1, B) /\ DOMAIN m1 = Words
  <2>1. Tiles(m1, brk1, B)
    BY <1>3 DEF Heap
  <2>. QED BY <2>1, TilesFacts
<1>6. /\ DOMAIN m2 = Words
      /\ \A a \in Words : a # p /\ a # p + 4 => m2[a] = m1[a]
  BY <1>4, <1>5
<1>7. /\ Tiles(m2, brk1, B) /\ SameBlocks(m1, m2, B)
      /\ \A c \in B \ {p} : Untouched(m1, m2, c)
  <2>1. p \in LinkWords({p}) /\ p + 4 \in LinkWords({p})
    BY DEF LinkWords
  <2>2. \A a \in Words \ LinkWords({p}) : m2[a] = m1[a]
    BY <1>6, <2>1
  <2>. QED BY <1>1, <1>5, <1>6, <2>2, OnlyLinksChange
<1>8. Heap(m2, brk1, B, Frees(m, B))
  <2>1. \A i \in 1 .. 14 : m2[4 * i] = m1[4 * i]
    <3>1. ASSUME NEW i \in 1 .. 14 PROVE 4 * i \in Words /\ 4 * i # p /\ 4 * i # p + 4
      <4>1. 4 * i \in Words
        BY <1>1, BlocksLinkable DEF Linkable
      <4>. QED BY <1>1, <4>1
    <3>. QED BY <1>6, <3>1
  <2>2. \A c \in Frees(m, B) : Untouched(m1, m2, c)
    BY <1>1, <1>7
  <2>. QED BY <1>1, <1>3, <1>7, <2>1, <2>2, UntouchedLists
<1>9. /\ \A c \in B \ {p} : /\ Untouched(m, m2, c) /\ BlockSize(m2, c) = BlockSize(m, c)
                            /\ IsFree(m2, c) <=> IsFree(m, c)
      /\ BlockSize(m2, p) = BlockSize(m, p) /\ IsFree(m2, p)
  <2>1. ASSUME NEW c \in B \ {p} PROVE Untouched(m, m2, c)
    BY <1>1, <1>3, <1>7, UntouchedTwice
  <2>2. ASSUME NEW c \in B \ {p}
        PROVE  BlockSize(m2, c) = BlockSize(m, c) /\ (IsFree(m2, c) <=> IsFree(m, c))
    BY <1>1, <2>1, UntouchedKept
  <2>3. BlockSize(m2, p) = BlockSize(m, p) /\ IsFree(m2, p)
    BY <1>1, <1>3, <1>7 DEF SameBlocks
  <2>. QED BY <2>1, <2>2, <2>3
<1>10. /\ Frees(m2, B) = Frees(m, B) \cup {p} /\ Frees(m2, B) \ {p} = Frees(m, B)
       /\ Used(m2, B) = Used(m, B) \ {p}
  BY <1>1, <1>9 DEF Frees, Used
<1>11. NoTouchBut(m2, B, p)
  BY <1>1, <1>9 DEF NoTouch, NoTouchBut
<1>12. PICK m3, q, B3 :
         /\ Coalesced([mem |-> m2, brk |-> brk1, bp |-> p]) = [mem |-> m3, brk |-> brk1, bp |-> q]
         /\ Good(m3, brk1, B3) /\ q \in Frees(m3, B3)
         /\ BlockSize(m3, q) >= BlockSize(m2, p)
         /\ SameUsed(m2, B, m3, B3)
  <2>1. p \in Frees(m2, B) /\ Heap(m2, brk1, B, Frees(m2, B) \ {p})
    BY <1>8, <1>10
  <2>. QED BY <1>11, <2>1, Coalesce
<1>13. free([mem |-> m, brk |-> brk1, bp |-> x], p) = [mem |-> m3, brk |-> brk1, bp |-> q]
  <2>1. p # NULL
    BY <1>1 DEF NULL
  <2>2. free([mem |-> m, brk |-> brk1, bp |-> x], p)
          = Coalesced([mem |-> m2, brk |-> brk1, bp |-> p])
    <3>1. PICK h : h = [mem |-> m, brk |-> brk1, bp |-> x]
      OBVIOUS
    <3>2. h.mem = m
      BY <3>1
    <3>3. m2 = [Tagged(h.mem, p, BlockSize(h.mem, p), 0) EXCEPT
                  ![PREVRP(p)] = NULL, ![NEXTRP(p)] = NULL]
      BY <1>2, <1>4, <3>2 DEF PREVRP, NEXTRP, WSIZE, NULL
    <3>4. free(h, p) = Coalesced([h EXCEPT !.bp = p, !.mem = m2])
      <4>1. free(h, p) =
              Coalesced([h EXCEPT !.bp = p,
                                  !.mem = [Tagged(@, p, BlockSize(@, p), 0) EXCEPT
                                             ![PREVRP(p)] = NULL, ![NEXTRP(p)] = NULL]])
        BY <2>1 DEF free
      <4>2. [h EXCEPT !.bp = p,
                      !.mem = [Tagged(@, p, BlockSize(@, p), 0) EXCEPT
                                 ![PREVRP(p)] = NULL, ![NEXTRP(p)] = NULL]]
              = [h EXCEPT !.bp = p, !.mem = m2]
        BY <3>1, <3>3
      <4>. QED BY <4>1, <4>2
    <3>5. [h EXCEPT !.bp = p, !.mem = m2] = [mem |-> m2, brk |-> brk1, bp |-> p]
      <4>1. [h EXCEPT !.bp = p, !.mem = m2] = [[h EXCEPT !.bp = p] EXCEPT !.mem = m2]
        OBVIOUS
      <4>2. [h EXCEPT !.bp = p] = [mem |-> m, brk |-> brk1, bp |-> p]
        BY <3>1
      <4>3. [[mem |-> m, brk |-> brk1, bp |-> p] EXCEPT !.mem = m2]
              = [mem |-> m2, brk |-> brk1, bp |-> p]
        OBVIOUS
      <4>. QED BY <4>1, <4>2, <4>3
    <3>. QED BY <3>1, <3>4, <3>5
  <2>. QED BY <1>12, <2>2
<1>14. Used(m3, B3) = Used(m, B) \ {p}
  BY <1>10, <1>12 DEF SameUsed
<1>15. ASSUME NEW c \in Used(m, B) \ {p} PROVE Untouched(m, m3, c)
  <2>1. Untouched(m, m2, c) /\ c \in Used(m2, B) /\ c \in B
    BY <1>9, <1>10 DEF Used
  <2>2. Untouched(m2, m3, c)
    BY <1>12, <2>1 DEF SameUsed
  <2>. QED BY <1>1, <2>1, <2>2, UntouchedTwice
<1>. QED BY <1>12, <1>13, <1>14, <1>15 DEF FreeDid

\* Nothing has changed but words of the program's in block b.
Written(m, m2, b) ==
  /\ DOMAIN m2 = Words
  /\ \A a \in Words : a < b \/ a >= b + BlockSize(m, b) - 8 => m2[a] = m[a]

\* The program's words are neither tags nor links.
LEMMA WriteHeap ==
  ASSUME NEW m, NEW brk1, NEW B, NEW F, Heap(m, brk1, B, F), NEW b \in B \ F,
         NEW m2, Written(m, m2, b)
  PROVE  /\ Heap(m2, brk1, B, F) /\ SameBlocks(m, m2, B)
         /\ \A c \in B \ {b} : Untouched(m, m2, c)
<1>1. Tiles(m, brk1, B) /\ F \subseteq B
  BY DEF Heap, Frees
<1>2. PICK e : e = b + BlockSize(m, b)
  OBVIOUS
<1>3. b \in B /\ b \in Nat /\ b >= 72 /\ e \in Nat /\ e >= b + 16 /\ e <= brk1 /\ brk1 \in Nat
      /\ e \in Eights /\ b \in Eights /\ brk1 \in Eights
  <2>1. /\ b \in B /\ b \in Nat /\ b \in Eights /\ b >= 72 /\ brk1 \in Nat /\ brk1 \in Eights
        /\ BlockSize(m, b) \in Eights /\ BlockSize(m, b) \in Nat /\ BlockSize(m, b) >= 16
        /\ b + BlockSize(m, b) <= brk1
    BY <1>1, TilesFacts
  <2>2. b + BlockSize(m, b) \in Eights
    BY <2>1, EightsClosed
  <2>. QED BY <1>2, <2>1, <2>2
<1>4. ASSUME NEW a \in Words, a < b \/ a >= e - 8 PROVE m2[a] = m[a]
  <2>1. e - 8 = b + BlockSize(m, b) - 8
    BY <1>1, <1>2, <1>3, TilesFacts
  <2>. QED BY <1>4, <2>1 DEF Written
<1>5. ASSUME NEW c \in B \ {b} PROVE Untouched(m, m2, c)
  <2>1. c \in Nat /\ BlockSize(m, c) \in Nat
    BY <1>1, TilesFacts
  <2>2. c < b => c + BlockSize(m, c) <= b
    BY <1>1, <1>3, TilesFacts
  <2>3. b < c => e <= c
    BY <1>1, <1>2, <1>3, TilesFacts
  <2>4. ASSUME NEW a \in Extent(m, c) PROVE a \in Words /\ (a < b \/ a >= e - 8)
    <3>1. a \in Words /\ c - 4 <= a /\ a < c - 4 + BlockSize(m, c) /\ a \in Nat
      BY <1>1, <2>4, InWords DEF Extent
    <3>2. c < b \/ b < c
      BY <1>3, <2>1
    <3>. QED BY <1>3, <2>1, <2>2, <2>3, <3>1, <3>2
  <2>. QED BY <1>4, <2>4 DEF Untouched
<1>6. SameTags(m, m2, b)
  <2>1. {b - 4, b + BlockSize(m, b) - 8} \subseteq Words
    BY <1>1, <1>3, InWords
  <2>2. b - 4 < b /\ e - 8 >= e - 8 /\ e - 8 = b + BlockSize(m, b) - 8
    BY <1>1, <1>2, <1>3, TilesFacts
  <2>. QED BY <1>4, <2>1, <2>2 DEF SameTags
<1>7. SameEnds(m, m2, brk1)
  <2>1. {60, 64, brk1 - 4} \subseteq Words
    BY <1>1, InWords
  <2>2. 60 < b /\ 64 < b /\ brk1 - 4 >= e - 8
    BY <1>3
  <2>. QED BY <1>4, <2>1, <2>2 DEF SameEnds, Written, WSIZE
<1>8. Tiles(m2, brk1, B) /\ SameBlocks(m, m2, B)
  <2>1. ASSUME NEW c \in B PROVE SameTags(m, m2, c)
    BY <1>1, <1>5, <1>6, UntouchedKept
  <2>. QED BY <1>1, <1>7, <2>1, TilesKept
<1>9. \A i \in 1 .. 14 : m2[4 * i] = m[4 * i]
  <2>1. ASSUME NEW i \in 1 .. 14 PROVE 4 * i \in Words /\ 4 * i < b
    <3>1. 4 * i \in Words
      BY <1>1, BlocksLinkable DEF Linkable
    <3>. QED BY <1>3, <3>1
  <2>. QED BY <1>4, <2>1
<1>10. \A c \in F : Untouched(m, m2, c)
  BY <1>1, <1>5
<1>11. Heap(m2, brk1, B, F)
  BY <1>1, <1>8, <1>9, <1>10, UntouchedLists
<1>. QED BY <1>5, <1>8, <1>11

\* Nor do they make the heap a bad one.
LEMMA WriteGood ==
  ASSUME NEW m, NEW brk1, NEW B, Good(m, brk1, B), NEW b \in Used(m, B),
         NEW m2, Written(m, m2, b)
  PROVE  /\ Good(m2, brk1, B) /\ SameBlocks(m, m2, B) /\ Used(m2, B) = Used(m, B)
         /\ \A c \in Used(m, B) \ {b} : Untouched(m, m2, c)
<1>1. Heap(m, brk1, B, Frees(m, B)) /\ b \in B \ Frees(m, B) /\ Used(m, B) \subseteq B
  BY DEF Good, Used, Frees
<1>2. /\ Heap(m2, brk1, B, Frees(m, B)) /\ SameBlocks(m, m2, B)
      /\ \A c \in B \ {b} : Untouched(m, m2, c)
  BY <1>1, WriteHeap
<1>3. Frees(m2, B) = Frees(m, B) /\ Used(m2, B) = Used(m, B)
  BY <1>2 DEF SameBlocks, Frees, Used
<1>4. NoTouch(m2, B)
  BY <1>2 DEF SameBlocks, Good, NoTouch
<1>. QED BY <1>1, <1>2, <1>3, <1>4 DEF Good

\* The words of the program's in a block.
LEMMA BlockWords ==
  ASSUME NEW m, NEW brk1, NEW B, Tiles(m, brk1, B), NEW b \in B,
         NEW k \in Nat, 4 * k + 12 <= BlockSize(m, b)
  PROVE  b + 4 * k \in Words /\ b + 4 * k \in Extent(m, b)
<1>1. /\ b \in Nat /\ b % 8 = 0 /\ BlockSize(m, b) \in Nat
      /\ b + BlockSize(m, b) <= brk1 /\ brk1 <= MAX_HEAP /\ brk1 \in Nat /\ MAX_HEAP \in Nat
  BY TilesFacts, SizesAssumption DEF Eights
<1>2. PICK j \in Nat : b = 4 * j
  <2>1. b \div 4 \in Nat /\ b = 4 * (b \div 4)
    BY <1>1
  <2>. QED BY <2>1
<1>3. j + k \in 0 .. MAX_HEAP \div 4 + 11 /\ b + 4 * k = 4 * (j + k)
  BY <1>1, <1>2
<1>4. b + 4 * k \in Words
  BY <1>3 DEF Words, WSIZE
<1>. QED BY <1>1, <1>4 DEF Extent

\* A word that Store writes.
LEMMA Stored ==
  ASSUME NEW m, DOMAIN m = Words, NEW p \in Nat, NEW s, NEW n \in Nat, DOMAIN s = 1 .. n,
         NEW k \in Nat, k < n, p + 4 * k \in Words
  PROVE  Store(m, p, s)[p + 4 * k] = s[k + 1]
<1>1. p + 4 * k \in {p + WSIZE * (j - 1) : j \in DOMAIN s}
  <2>1. k + 1 \in DOMAIN s /\ p + 4 * k = p + 4 * ((k + 1) - 1)
    OBVIOUS
  <2>. QED BY <2>1 DEF WSIZE
<1>2. ((p + 4 * k) - p) \div WSIZE + 1 = k + 1
  <2>1. (p + 4 * k) - p = 4 * k
    OBVIOUS
  <2>2. (4 * k) \div 4 = k
    OBVIOUS
  <2>. QED BY <2>1, <2>2 DEF WSIZE
<1>3. Store(m, p, s)[p + 4 * k] = s[((p + 4 * k) - p) \div WSIZE + 1]
  BY <1>1 DEF Store
<1>. QED BY <1>2, <1>3

\* A word that memcpy copies.
LEMMA CopiedUp ==
  ASSUME NEW m, DOMAIN m = Words, NEW dst \in Nat, NEW src \in Nat, NEW n \in Nat,
         NEW k \in Nat, k < n, dst + 4 * k \in Words
  PROVE  memcpy(m, dst, src, n, "up")[dst + 4 * k] = m[src + 4 * k]
<1>. DEFINE s == [j \in 1 .. n |-> m[src + 4 * (j - 1)]]
<1>1. memcpy(m, dst, src, n, "up") = Store(m, dst, s)
  BY DEF memcpy, WSIZE
<1>2. DOMAIN s = 1 .. n /\ s[k + 1] = m[src + 4 * k]
  <2>1. k + 1 \in 1 .. n /\ 4 * ((k + 1) - 1) = 4 * k
    OBVIOUS
  <2>2. s[k + 1] = m[src + 4 * ((k + 1) - 1)]
    BY <2>1
  <2>. QED BY <2>1, <2>2
<1>. HIDE DEF s
<1>. QED BY <1>1, <1>2, Stored

\* A program that keeps within its block, and memcpy.
LEMMA StoreWrites ==
  ASSUME NEW m, DOMAIN m = Words, NEW b \in Nat, NEW p \in Nat, NEW n \in Nat,
         NEW s, DOMAIN s = 1 .. n, BlockSize(m, b) \in Nat,
         b <= p, p + 4 * n + 8 <= b + BlockSize(m, b)
  PROVE  Written(m, Store(m, p, s), b)
<1>1. DOMAIN Store(m, p, s) = Words
  BY DEF Store
<1>2. ASSUME NEW a \in Words, a < b \/ a >= b + BlockSize(m, b) - 8
      PROVE  Store(m, p, s)[a] = m[a]
  <2>1. a \in Int
    BY SizesAssumption DEF Words, WSIZE
  <2>2. a \notin {p + WSIZE * (k - 1) : k \in DOMAIN s}
    <3>1. ASSUME NEW k \in DOMAIN s, a = p + WSIZE * (k - 1) PROVE FALSE
      <4>1. k \in 1 .. n /\ a >= p /\ a + 4 <= p + 4 * n
        BY <3>1 DEF WSIZE
      <4>. QED BY <1>2, <2>1, <4>1
    <3>. QED BY <3>1
  <2>. QED BY <2>2 DEF Store
<1>. QED BY <1>1, <1>2 DEF Written

\* memcpy, in either order, writes into the block it copies to.
LEMMA CopyWrites ==
  ASSUME NEW m, DOMAIN m = Words, NEW b \in Nat, NEW n \in Nat, NEW src, NEW order,
         BlockSize(m, b) \in Nat, 4 * n + 8 <= BlockSize(m, b)
  PROVE  Written(m, memcpy(m, b, src, n, order), b)
<1>1. PICK s : memcpy(m, b, src, n, order) = Store(m, b, s) /\ DOMAIN s = 1 .. n
  <2>. DEFINE d       == (src - b) \div WSIZE
              from(k) == IF order = "down" /\ d > 0 THEN k + ((n - k) \div d) * d ELSE k
              s1      == [k \in 1 .. n |-> m[src + WSIZE * (from(k) - 1)]]
  <2>1. memcpy(m, b, src, n, order) = Store(m, b, s1)
    BY DEF memcpy
  <2>2. DOMAIN s1 = 1 .. n
    OBVIOUS
  <2>. HIDE DEF s1
  <2>. QED BY <2>1, <2>2
<1>2. b <= b /\ b + 4 * n + 8 <= b + BlockSize(m, b)
  OBVIOUS
<1>. QED BY <1>1, <1>2, StoreWrites

\* The program has block q where it had p; its others are as they were.
Swapped(m, B, p, m2, q, B2) ==
  /\ q \in B2 /\ Used(m2, B2) = (Used(m, B) \ {p}) \cup {q}
  /\ q \notin Used(m, B) \ {p}
  /\ \A c \in Used(m, B) \ {p} : Untouched(m, m2, c)

\* A block that moves twice.
LEMMA SwappedTwice ==
  ASSUME NEW m, NEW brk1, NEW B, Tiles(m, brk1, B), NEW p,
         NEW m1, NEW q1, NEW B1, Swapped(m, B, p, m1, q1, B1),
         NEW m2, NEW q2, NEW B2, Swapped(m1, B1, q1, m2, q2, B2)
  PROVE  Swapped(m, B, p, m2, q2, B2)
<1>1. Used(m1, B1) \ {q1} = Used(m, B) \ {p} /\ Used(m, B) \subseteq B
  BY DEF Swapped, Used
<1>2. ASSUME NEW c \in Used(m, B) \ {p} PROVE Untouched(m, m2, c)
  <2>1. Untouched(m, m1, c) /\ Untouched(m1, m2, c)
    BY <1>1 DEF Swapped
  <2>. QED BY <1>1, <2>1, UntouchedTwice
<1>. QED BY <1>1, <1>2 DEF Swapped

\* When memcpy goes up, block q of m2 begins with the words of the program's in
\* block p of m, except for those that sz bytes have no room for.
Carried(order, m, p, m2, q, sz) ==
  order = "up" =>
    \A k \in Nat : 4 * k + 12 <= BlockSize(m, p) /\ 4 * k + 12 <= sz =>
                     m2[q + 4 * k] = m[p + 4 * k]

\* All of them.
MovedTo(order, m, p, m2, q) ==
  /\ BlockSize(m2, q) >= BlockSize(m, p)
  /\ Carried(order, m, p, m2, q, BlockSize(m, p))

\* realloc first makes the block as large as it can where it is, or lower.
LEMMA ShiftGives ==
  ASSUME NEW m, NEW brk1, NEW B, Good(m, brk1, B), NEW p \in Used(m, B), NEW order
  PROVE  \E m2, q, B2 :
           /\ Shifted(imme_combine([mem |-> m, brk |-> brk1, bp |-> p]), p, order)
                = [mem |-> m2, brk |-> brk1, bp |-> q]
           /\ Good(m2, brk1, B2) /\ Swapped(m, B, p, m2, q, B2)
           /\ Lonely(m2, B2, q) /\ MovedTo(order, m, p, m2, q)
           /\ FreesKept(m, B, p, m2, q, B2)
<1>1. /\ Heap(m, brk1, B, Frees(m, B)) /\ Tiles(m, brk1, B) /\ NoTouchBut(m, B, p)
      /\ p \in B /\ ~IsFree(m, p)
  BY DEF Good, Heap, NoTouch, NoTouchBut, Used
<1>2. PICK m2, q, B2 :
        /\ imme_combine([mem |-> m, brk |-> brk1, bp |-> p]) = [mem |-> m2, brk |-> brk1, bp |-> q]
        /\ CombinedTo(m, brk1, B, p, m2, q, B2)
  BY <1>1, Combine
<1>3. PICK F : F = Frees(m2, B2) \ {q}
  OBVIOUS
<1>4. /\ Heap(m2, brk1, B2, F) /\ q \in B2 \ F /\ Tiles(m2, brk1, B2) /\ F \subseteq B2
      /\ NoTouchBut(m2, B2, q) /\ Lonely(m2, B2, q)
      /\ Used(m2, B2) \ {q} = Used(m, B) \ {p}
      /\ \A c \in Used(m, B) \ {p} : Untouched(m, m2, c)
  <2>1. Heap(m2, brk1, B2, F)
    BY <1>2, <1>3 DEF CombinedTo
  <2>2. Tiles(m2, brk1, B2) /\ F \subseteq B2
    BY <1>3, <2>1 DEF Heap, Frees
  <2>. QED BY <1>2, <1>3, <2>1, <2>2 DEF CombinedTo
<1>5. PICK s : s = BlockSize(m2, q)
  OBVIOUS
<1>6. PICK m3 : m3 = Tagged(m2, q, s, 1)
  OBVIOUS
<1>7. /\ Heap(m3, brk1, B2, F)
      /\ BlockSize(m3, q) = s /\ ~IsFree(m3, q)
      /\ \A c \in B2 \ {q} : Untouched(m2, m3, c)
      /\ \A a \in Words : a # q - 4 /\ a # q + s - 8 => m3[a] = m2[a]
  <2>1. /\ Heap(m3, brk1, B2, F)
        /\ BlockSize(m3, q) = BlockSize(m2, q) /\ (IsFree(m3, q) <=> 1 = 0)
        /\ \A c \in B2 \ {q} : Untouched(m2, m3, c)
        /\ \A a \in Words : a # q - 4 /\ a # q + BlockSize(m2, q) - 8 => m3[a] = m2[a]
    BY <1>4, <1>5, <1>6, RetagOne
  <2>. QED BY <1>5, <2>1
<1>8. \A c \in B2 \ {q} : BlockSize(m3, c) = BlockSize(m2, c) /\ (IsFree(m3, c) <=> IsFree(m2, c))
  BY <1>4, <1>7, UntouchedKept
<1>9. Frees(m3, B2) = F /\ Used(m3, B2) = (Used(m, B) \ {p}) \cup {q} /\ q \in Used(m3, B2)
  <2>1. Frees(m3, B2) = F
    BY <1>3, <1>7, <1>8 DEF Frees
  <2>2. Used(m3, B2) = (Used(m2, B2) \ {q}) \cup {q}
    BY <1>4, <1>7, <1>8 DEF Used
  <2>. QED BY <1>4, <2>1, <2>2
<1>10. NoTouch(m3, B2) /\ Lonely(m3, B2, q)
  <2>1. NoTouch(m3, B2)
    BY <1>4, <1>7, <1>8 DEF NoTouch, NoTouchBut
  <2>2. Lonely(m3, B2, q)
    BY <1>4, <1>5, <1>7, <1>8 DEF Lonely
  <2>. QED BY <2>1, <2>2
<1>11. Good(m3, brk1, B2)
  BY <1>7, <1>9, <1>10 DEF Good
<1>12. Swapped(m, B, p, m3, q, B2)
  <2>1. ASSUME NEW c \in Used(m, B) \ {p} PROVE Untouched(m, m3, c)
    <3>1. Untouched(m, m2, c) /\ c \in B /\ c \in B2 \ {q}
      BY <1>4 DEF Used
    <3>2. Untouched(m2, m3, c)
      BY <1>7, <3>1
    <3>. QED BY <1>1, <3>1, <3>2, UntouchedTwice
  <2>2. q \notin Used(m, B) \ {p}
    BY <1>4
  <2>. QED BY <1>4, <1>9, <2>1, <2>2 DEF Swapped
<1>13. FreesKept(m, B, p, m3, q, B2)
  <2>1. FreesKept(m, B, p, m2, q, B2)
    BY <1>2 DEF CombinedTo
  <2>3. SUFFICES ASSUME NEW c \in Frees(m, B) \ {p}
                 PROVE  \/ BlockSize(m, c) <= BlockSize(m3, q)
                        \/ c \in Frees(m3, B2) /\ BlockSize(m3, c) = BlockSize(m, c)
    BY DEF FreesKept
  <2>4. CASE BlockSize(m, c) <= BlockSize(m2, q)
    BY <1>5, <1>7, <2>4
  <2>5. CASE c \in Frees(m2, B2) /\ BlockSize(m2, c) = BlockSize(m, c) /\ c # q
    BY <1>3, <1>4, <1>8, <1>9, <2>5
  <2>6. CASE c = q /\ BlockSize(m2, c) = BlockSize(m, c)
    <3>1. BlockSize(m2, q) \in Nat
      BY <1>4, TilesFacts
    <3>. QED BY <1>5, <1>7, <2>6, <3>1
  <2>. QED BY <2>1, <2>4, <2>5, <2>6 DEF FreesKept
<1>14. PICK h : h = [mem |-> m2, brk |-> brk1, bp |-> q]
  OBVIOUS
<1>15. h.mem = m2 /\ h.bp = q
  BY <1>14
<1>16. CASE q = p
  <2>1. Shifted(h, p, order) = [h EXCEPT !.mem = m3]
    BY <1>5, <1>6, <1>15, <1>16 DEF Shifted
  <2>2. [h EXCEPT !.mem = m3] = [mem |-> m3, brk |-> brk1, bp |-> q]
    BY <1>14
  <2>3. MovedTo(order, m, p, m3, q)
    <3>1. s >= BlockSize(m, p) /\ s \in Nat /\ BlockSize(m, p) \in Nat /\ p \in Nat
      BY <1>1, <1>2, <1>4, <1>5, TilesFacts DEF CombinedTo
    <3>2. ASSUME NEW k \in Nat, 4 * k + 12 <= BlockSize(m, p)
          PROVE  m3[p + 4 * k] = m[p + 4 * k]
      <4>1. p + 4 * k \in Words
        BY <1>1, <3>2, BlockWords
      <4>2. m2[p + 4 * k] = m[p + 4 * k]
        BY <1>1, <1>2, <3>1, <3>2, <4>1 DEF CombinedTo
      <4>3. p + 4 * k # q - 4 /\ p + 4 * k # q + s - 8
        BY <1>16, <3>1, <3>2
      <4>. QED BY <1>7, <4>1, <4>2, <4>3
    <3>. QED BY <1>7, <1>16, <3>1, <3>2 DEF MovedTo, Carried
  <2>. QED BY <1>2, <1>10, <1>11, <1>12, <1>14, <1>13, <2>1, <2>2, <2>3
<1>17. CASE q # p
  <2>1. PICK m4 : m4 = memcpy(m3, q, p, BlockSize(m3, p) \div WSIZE, order)
    OBVIOUS
  <2>2. Shifted(h, p, order) = [h EXCEPT !.mem = m4]
    BY <1>5, <1>6, <1>15, <1>17, <2>1 DEF Shifted
  <2>3. [h EXCEPT !.mem = m4] = [mem |-> m4, brk |-> brk1, bp |-> q]
    BY <1>14
  <2>4. BlockSize(m3, p) = BlockSize(m, p)
    <3>1. m2[p - 4] = m[p - 4] /\ p - 4 \in Words
      BY <1>1, <1>2, <1>17, InWords DEF CombinedTo
    <3>2. p - 4 # q - 4 /\ p - 4 # q + s - 8
      <4>1. p \in Eights /\ q \in Eights /\ s \in Eights /\ q + s \in Eights
        <5>1. p \in Eights /\ q \in Eights /\ s \in Eights
          BY <1>1, <1>4, <1>5, TilesFacts
        <5>. QED BY <5>1, EightsClosed
      <4>2. p + 4 # q + s
        BY <4>1, EightsClosed
      <4>. QED BY <1>17, <4>1, <4>2 DEF Eights
    <3>3. m3[p - 4] = m[p - 4]
      BY <1>7, <3>1, <3>2
    <3>. QED BY <3>3, TagSays
  <2>5. PICK n \in Nat : n = BlockSize(m3, p) \div WSIZE /\ 4 * n = BlockSize(m, p)
    <3>1. BlockSize(m, p) \in Nat /\ BlockSize(m, p) % 8 = 0
      BY <1>1, TilesFacts DEF Eights
    <3>. QED BY <2>4, <3>1 DEF WSIZE
  <2>6. s \in Nat /\ q \in Nat /\ 4 * n + 8 <= s
    <3>1. s \in Nat /\ q \in Nat
      BY <1>4, <1>5, TilesFacts
    <3>2. s >= BlockSize(m, p) + (p - q) /\ q + 16 <= p /\ p \in Nat
      BY <1>1, <1>2, <1>5, <1>17, TilesFacts DEF CombinedTo
    <3>. QED BY <2>5, <3>1, <3>2
  <2>7. Written(m3, m4, q)
    <3>1. DOMAIN m3 = Words
      BY <1>7, TilesFacts DEF Heap
    <3>. QED BY <1>7, <2>1, <2>5, <2>6, <3>1, CopyWrites
  <2>8. /\ Good(m4, brk1, B2) /\ SameBlocks(m3, m4, B2) /\ Used(m4, B2) = Used(m3, B2)
        /\ \A c \in Used(m3, B2) \ {q} : Untouched(m3, m4, c)
    BY <1>9, <1>11, <2>7, WriteGood
  <2>9. Swapped(m3, B2, q, m4, q, B2)
    BY <1>9, <2>8, <1>4 DEF Swapped
  <2>10. Swapped(m, B, p, m4, q, B2)
    BY <1>1, <1>12, <2>9, SwappedTwice
  <2>11. Lonely(m4, B2, q)
    BY <1>4, <1>10, <2>8 DEF Lonely, SameBlocks
  <2>12. MovedTo(order, m, p, m4, q)
    <3>1. /\ BlockSize(m4, q) = s /\ s >= BlockSize(m, p) + (p - q) /\ BlockSize(m, p) \in Nat
          /\ p \in Nat /\ q \in Nat /\ q + 16 <= p /\ s \in Nat
      BY <1>1, <1>2, <1>4, <1>5, <1>7, <1>17, <2>8, TilesFacts DEF CombinedTo, SameBlocks
    <3>2. ASSUME NEW k \in Nat, 4 * k + 12 <= BlockSize(m, p), order = "up"
          PROVE  m4[q + 4 * k] = m[p + 4 * k]
      <4>1. p + 4 * k \in Words
        BY <1>1, <3>2, BlockWords
      <4>2. m2[p + 4 * k] = m[p + 4 * k]
        BY <1>1, <1>2, <3>1, <3>2, <4>1 DEF CombinedTo
      <4>3. p + 4 * k # q - 4 /\ p + 4 * k # q + s - 8
        BY <3>1, <3>2
      <4>4. m3[p + 4 * k] = m[p + 4 * k]
        BY <1>7, <4>1, <4>2, <4>3
      <4>5. k < n /\ q + 4 * k \in Words
        <5>1. 4 * k + 12 <= BlockSize(m2, q)
          BY <1>5, <3>1, <3>2
        <5>. QED BY <1>4, <2>5, <3>2, <5>1, BlockWords
      <4>6. DOMAIN m3 = Words
        BY <1>7, TilesFacts DEF Heap
      <4>7. m4 = memcpy(m3, q, p, n, "up")
        BY <2>1, <2>5, <3>2
      <4>8. m4[q + 4 * k] = m3[p + 4 * k]
        BY <3>1, <4>5, <4>6, <4>7, CopiedUp
      <4>. QED BY <4>4, <4>8
    <3>. QED BY <3>1, <3>2 DEF MovedTo, Carried
  <2>13. FreesKept(m, B, p, m4, q, B2)
    BY <1>4, <1>13, <2>8 DEF FreesKept, Frees, SameBlocks
  <2>. QED BY <1>2, <1>14, <2>2, <2>3, <2>8, <2>10, <2>11, <2>12, <2>13
<1>. QED BY <1>16, <1>17

\* Replaced left x behind, where the program has block r instead of q.
ReplaceDid(order, m, B, q, brk2, r, need, x) ==
  \E m2, B2 :
    /\ x = [mem |-> m2, brk |-> brk2, bp |-> r]
    /\ Good(m2, brk2, B2) /\ Swapped(m, B, q, m2, r, B2)
    /\ BlockSize(m2, r) >= need /\ Carried(order, m, q, m2, r, need)

\* The other way is a new block, with the contents of the old one, which is
\* freed then.
LEMMA ReplaceGives ==
  ASSUME NEW m, NEW brk1, NEW B, Good(m, brk1, B), NEW q \in Used(m, B),
         NEW need \in Nat, BlockSize(m, q) < need,
         NEW m1, NEW brk2, NEW r, NEW B1, Good(m1, brk2, B1), Gets(m, B, m1, r, B1, need),
         NEW order,
         NEW y, y = Replaced([mem |-> m, brk |-> brk1, bp |-> q],
                             [mem |-> m1, brk |-> brk2, bp |-> r], order)
  PROVE  ReplaceDid(order, m, B, q, brk2, r, need, y)
<1>1. Tiles(m, brk1, B) /\ q \in B /\ Used(m, B) \subseteq B
  BY DEF Good, Heap, Used
<1>2. /\ Tiles(m1, brk2, B1) /\ r \in Used(m1, B1) /\ r \in B1 /\ r \notin Used(m, B) /\ r # q
      /\ Used(m1, B1) = Used(m, B) \cup {r} /\ q \in Used(m1, B1)
      /\ (\A c \in Used(m, B) : Untouched(m, m1, c)) /\ BlockSize(m1, r) >= need
  BY DEF Good, Heap, Gets, Used
<1>3. PICK n \in Nat : n = (BlockSize(m, q) - DSIZE) \div WSIZE /\ 4 * n + 8 = BlockSize(m, q)
  <2>1. BlockSize(m, q) \in Nat /\ BlockSize(m, q) % 8 = 0 /\ BlockSize(m, q) >= 16
    BY <1>1, TilesFacts DEF Eights
  <2>. QED BY <2>1 DEF DSIZE, WSIZE
<1>4. PICK m2 : m2 = memcpy(m1, r, q, n, order)
  OBVIOUS
<1>5. Written(m1, m2, r)
  <2>1. r \in Nat /\ BlockSize(m1, r) \in Nat /\ DOMAIN m1 = Words
    BY <1>2, TilesFacts
  <2>2. 4 * n + 8 <= BlockSize(m1, r)
    BY <1>2, <1>3, <2>1
  <2>. QED BY <1>4, <2>1, <2>2, CopyWrites
<1>6. /\ Good(m2, brk2, B1) /\ SameBlocks(m1, m2, B1) /\ Used(m2, B1) = Used(m1, B1)
      /\ \A c \in Used(m1, B1) \ {r} : Untouched(m1, m2, c)
  BY <1>2, <1>5, WriteGood
<1>7. PICK m3, x, B3 :
        /\ free([mem |-> m2, brk |-> brk2, bp |-> r], q) = [mem |-> m3, brk |-> brk2, bp |-> x]
        /\ Good(m3, brk2, B3) /\ Used(m3, B3) = Used(m2, B1) \ {q}
        /\ \A c \in Used(m2, B1) \ {q} : Untouched(m2, m3, c)
  <2>1. q \in Used(m2, B1) /\ Good(m2, brk2, B1)
    BY <1>2, <1>6
  <2>2. FreeDid(m2, brk2, B1, q, free([mem |-> m2, brk |-> brk2, bp |-> r], q))
    BY <2>1, FreeGivesBack
  <2>. QED BY <2>2 DEF FreeDid
<1>8. Replaced([mem |-> m, brk |-> brk1, bp |-> q], [mem |-> m1, brk |-> brk2, bp |-> r], order)
        = [mem |-> m3, brk |-> brk2, bp |-> r]
  <2>1. PICK old, new : old = [mem |-> m, brk |-> brk1, bp |-> q]
                        /\ new = [mem |-> m1, brk |-> brk2, bp |-> r]
    OBVIOUS
  <2>2. old.mem = m /\ old.bp = q /\ new.mem = m1 /\ new.bp = r
    BY <2>1
  <2>3. r # NULL
    BY <1>2, TilesFacts DEF NULL
  <2>4. m2 = memcpy(new.mem, new.bp, old.bp,
                    (BlockSize(old.mem, old.bp) - DSIZE) \div WSIZE, order)
    BY <1>3, <1>4, <2>2
  <2>5. Replaced(old, new, order) = [free([new EXCEPT !.mem = m2], old.bp) EXCEPT !.bp = new.bp]
    BY <2>2, <2>3, <2>4 DEF Replaced
  <2>6. [new EXCEPT !.mem = m2] = [mem |-> m2, brk |-> brk2, bp |-> r]
    BY <2>1
  <2>7. [[mem |-> m3, brk |-> brk2, bp |-> x] EXCEPT !.bp = r] = [mem |-> m3, brk |-> brk2, bp |-> r]
    OBVIOUS
  <2>8. free([new EXCEPT !.mem = m2], old.bp) = [mem |-> m3, brk |-> brk2, bp |-> x]
    BY <1>7, <2>2, <2>6
  <2>. QED BY <2>1, <2>2, <2>5, <2>7, <2>8
<1>9. Tiles(m2, brk2, B1) /\ Used(m2, B1) \subseteq B1 /\ Used(m3, B3) \subseteq B3
  BY <1>6 DEF Good, Heap, Used
<1>10. r \in Used(m3, B3) /\ Used(m3, B3) = (Used(m, B) \ {q}) \cup {r}
  BY <1>2, <1>6, <1>7
<1>11. Untouched(m2, m3, r) /\ BlockSize(m3, r) >= need
  <2>1. Untouched(m2, m3, r)
    BY <1>2, <1>6, <1>7
  <2>2. BlockSize(m3, r) = BlockSize(m2, r)
    BY <1>2, <1>9, <2>1, UntouchedKept
  <2>3. BlockSize(m2, r) = BlockSize(m1, r)
    BY <1>2, <1>6 DEF SameBlocks
  <2>. QED BY <1>2, <2>1, <2>2, <2>3
<1>12. ASSUME NEW c \in Used(m, B) \ {q} PROVE Untouched(m, m3, c)
  <2>1. Untouched(m, m1, c) /\ c \in B /\ c \in B1 /\ c # r /\ c \in Used(m1, B1)
    BY <1>1, <1>2 DEF Used
  <2>2. Untouched(m1, m2, c)
    BY <1>6, <2>1
  <2>3. Untouched(m2, m3, c)
    BY <1>6, <1>7, <2>1
  <2>4. Untouched(m, m2, c)
    BY <1>1, <2>1, <2>2, UntouchedTwice
  <2>. QED BY <1>1, <2>1, <2>3, <2>4, UntouchedTwice
<1>13. Swapped(m, B, q, m3, r, B3)
  BY <1>2, <1>9, <1>10, <1>12 DEF Swapped
<1>14. Carried(order, m, q, m3, r, need)
  <2>1. /\ q \in Nat /\ r \in Nat /\ DOMAIN m1 = Words
        /\ BlockSize(m, q) \in Nat /\ BlockSize(m1, r) \in Nat /\ BlockSize(m, q) < BlockSize(m1, r)
        /\ BlockSize(m2, r) = BlockSize(m1, r) /\ r \in B1
    BY <1>1, <1>2, <1>6, TilesFacts DEF SameBlocks
  <2>2. ASSUME NEW k \in Nat, 4 * k + 12 <= BlockSize(m, q), order = "up"
        PROVE  m3[r + 4 * k] = m[q + 4 * k]
    <3>1. q + 4 * k \in Extent(m, q)
      BY <1>1, <2>2, BlockWords
    <3>2. m1[q + 4 * k] = m[q + 4 * k]
      BY <1>2, <3>1 DEF Untouched
    <3>3. r + 4 * k \in Words
      BY <1>2, <2>1, <2>2, BlockWords
    <3>4. r + 4 * k \in Extent(m2, r)
      BY <1>9, <2>1, <2>2, BlockWords
    <3>5. m3[r + 4 * k] = m2[r + 4 * k]
      BY <1>11, <3>4 DEF Untouched
    <3>6. k < n /\ m2 = memcpy(m1, r, q, n, "up")
      BY <1>3, <1>4, <2>1, <2>2
    <3>7. m2[r + 4 * k] = m1[q + 4 * k]
      BY <2>1, <3>3, <3>6, CopiedUp
    <3>. QED BY <3>2, <3>5, <3>7
  <2>. QED BY <2>2 DEF Carried
<1>15. y = [mem |-> m3, brk |-> brk2, bp |-> r]
  BY <1>8
<1>. QED BY <1>7, <1>11, <1>13, <1>14, <1>15 DEF ReplaceDid

\* realloc for need bytes that made r of block p.
ReallocDid(order, m, brk1, B, p, r, need) ==
  \/ \E m2, B2 : r = [mem |-> m2, brk |-> brk1, bp |-> NULL] /\ Good(m2, brk1, B2)
  \/ \E m2, brk2, q, B2 :
       /\ r = [mem |-> m2, brk |-> brk2, bp |-> q]
       /\ Good(m2, brk2, B2) /\ Swapped(m, B, p, m2, q, B2)
       /\ BlockSize(m2, q) >= need /\ Carried(order, m, p, m2, q, need)

\* The combined block is large enough, split, or replaced.
LEMMA ResizeGives ==
  ASSUME NEW m, NEW brk1, NEW B, Good(m, brk1, B), NEW q \in Used(m, B), Lonely(m, B, q),
         NEW sz \in Nat, ~Wraps(sz), NEW granted \in BOOLEAN, NEW order,
         NEW r, r = Resized([mem |-> m, brk |-> brk1, bp |-> q], sz, granted, order)
  PROVE  ReallocDid(order, m, brk1, B, q, r, Need(sz))
<1>1. PICK need \in Eights : need = Need(sz) /\ need >= 16
  BY NeedIsEnough
<1>2. PICK h : h = [mem |-> m, brk |-> brk1, bp |-> q]
  OBVIOUS
<1>3. h.mem = m /\ h.bp = q
  BY <1>2
<1>4. q \in B /\ BlockSize(m, q) \in Nat /\ need \in Nat
  BY <1>1, TilesFacts DEF Good, Heap, Used, Eights
<1>5. CASE need = BlockSize(m, q)
  <2>1. r = h
    BY <1>1, <1>2, <1>3, <1>5 DEF Resized
  <2>2. Swapped(m, B, q, m, q, B)
    BY <1>4 DEF Swapped, Untouched
  <2>3. BlockSize(m, q) >= need /\ Carried(order, m, q, m, q, need)
    BY <1>4, <1>5 DEF Carried
  <2>. QED BY <1>1, <1>2, <2>1, <2>2, <2>3 DEF ReallocDid
<1>6. CASE need < BlockSize(m, q)
  <2>1. r = place(h, need)
    BY <1>1, <1>2, <1>3, <1>6, <1>4 DEF Resized
  <2>2. need <= BlockSize(m, q)
    BY <1>4, <1>6
  <2>3. PICK m2, B2 :
          /\ r = [mem |-> m2, brk |-> brk1, bp |-> q]
          /\ Good(m2, brk1, B2) /\ Used(m2, B2) = Used(m, B)
          /\ \A c \in Used(m, B) \ {q} : Untouched(m, m2, c)
          /\ BlockSize(m2, q) >= need
          /\ \A a \in Words : q <= a /\ a < q + need - 8 => m2[a] = m[a]
    <3>1. r = place([mem |-> m, brk |-> brk1, bp |-> q], need)
      BY <1>2, <2>1
    <3>2. PlaceDid(m, brk1, B, q, need, r)
      BY <1>1, <2>2, <3>1, PlaceFront
    <3>. QED BY <3>2 DEF PlaceDid
  <2>4. q \in B2
    BY <2>3 DEF Used
  <2>5. Swapped(m, B, q, m2, q, B2)
    BY <2>3, <2>4 DEF Swapped
  <2>6. Carried(order, m, q, m2, q, need)
    <3>1. ASSUME NEW k \in Nat, 4 * k + 12 <= BlockSize(m, q), 4 * k + 12 <= need
          PROVE  m2[q + 4 * k] = m[q + 4 * k]
      <4>1. Tiles(m, brk1, B) /\ q \in Nat
        BY <1>4, TilesFacts DEF Good, Heap
      <4>2. q + 4 * k \in Words
        BY <1>4, <3>1, <4>1, BlockWords
      <4>3. q <= q + 4 * k /\ q + 4 * k < q + need - 8
        BY <1>4, <3>1, <4>1
      <4>. QED BY <2>3, <4>2, <4>3
    <3>. QED BY <3>1 DEF Carried
  <2>7. r = [mem |-> m2, brk |-> brk1, bp |-> q] /\ Good(m2, brk1, B2) /\ BlockSize(m2, q) >= need
    BY <2>3
  <2>8. need = Need(sz)
    BY <1>1
  <2>. QED BY <2>5, <2>6, <2>7, <2>8 DEF ReallocDid
<1>7. CASE BlockSize(m, q) < need
  <2>1. PICK new : new = malloc(h, sz, granted)
    OBVIOUS
  <2>2. r = Replaced(h, new, order)
    BY <1>1, <1>2, <1>3, <1>4, <1>7, <2>1 DEF Resized
  <2>3. CASE new = [mem |-> m, brk |-> brk1, bp |-> NULL]
    <3>1. new.bp = NULL
      BY <2>3
    <3>2. r = [mem |-> m, brk |-> brk1, bp |-> NULL]
      BY <2>2, <2>3, <3>1 DEF Replaced
    <3>. QED BY <3>2 DEF ReallocDid
  <2>4. ASSUME NEW m1, NEW brk2, NEW q1, NEW B1, new = [mem |-> m1, brk |-> brk2, bp |-> q1],
               Good(m1, brk2, B1), Gets(m, B, m1, q1, B1, need)
        PROVE  \E m2, B2 :
                 /\ r = [mem |-> m2, brk |-> brk2, bp |-> q1]
                 /\ Good(m2, brk2, B2) /\ Swapped(m, B, q, m2, q1, B2)
                 /\ BlockSize(m2, q1) >= need /\ Carried(order, m, q, m2, q1, need)
    <3>1. r = Replaced([mem |-> m, brk |-> brk1, bp |-> q],
                       [mem |-> m1, brk |-> brk2, bp |-> q1], order)
      BY <1>2, <2>2, <2>4
    <3>2. ReplaceDid(order, m, B, q, brk2, q1, need, r)
      BY <1>4, <1>7, <2>4, <3>1, ReplaceGives
    <3>. QED BY <3>2 DEF ReplaceDid
  <2>5. MallocDid(m, brk1, B, new, need)
    <3>1. new = malloc([mem |-> m, brk |-> brk1, bp |-> q], sz, granted)
      BY <1>2, <2>1
    <3>. QED BY <1>1, <3>1, MallocGives
  <2>7. CASE new # [mem |-> m, brk |-> brk1, bp |-> NULL]
    <3>1. \E m2, brk2, q1, B2 :
            /\ r = [mem |-> m2, brk |-> brk2, bp |-> q1]
            /\ Good(m2, brk2, B2) /\ Swapped(m, B, q, m2, q1, B2)
            /\ BlockSize(m2, q1) >= need /\ Carried(order, m, q, m2, q1, need)
      <4>1. PICK m1, brk2, q1, B1 :
              /\ new = [mem |-> m1, brk |-> brk2, bp |-> q1]
              /\ Good(m1, brk2, B1) /\ Gets(m, B, m1, q1, B1, need)
        BY <2>5, <2>7 DEF MallocDid
      <4>2. \E m2, B2 :
              /\ r = [mem |-> m2, brk |-> brk2, bp |-> q1]
              /\ Good(m2, brk2, B2) /\ Swapped(m, B, q, m2, q1, B2)
              /\ BlockSize(m2, q1) >= need /\ Carried(order, m, q, m2, q1, need)
        BY <2>4, <4>1
      <4>. QED BY <4>2
    <3>. QED BY <1>1, <3>1 DEF ReallocDid
  <2>. QED BY <2>3, <2>7
<1>. QED BY <1>4, <1>5, <1>6, <1>7

\* realloc moves the block or leaves it where it is, and the others are as they
\* were; when it fails the old block has become larger or has moved, and the
\* program cannot know.
LEMMA ReallocGives ==
  ASSUME NEW m, NEW brk1, NEW B, Good(m, brk1, B), NEW p \in Used(m, B), NEW x,
         NEW sz \in Nat, sz # 0, ~Wraps(sz), NEW granted \in BOOLEAN, NEW order,
         NEW r, r = realloc([mem |-> m, brk |-> brk1, bp |-> x], p, sz, granted, order)
  PROVE  ReallocDid(order, m, brk1, B, p, r, Need(sz))
<1>1. PICK m1, q1, B1 :
        /\ Shifted(imme_combine([mem |-> m, brk |-> brk1, bp |-> p]), p, order)
             = [mem |-> m1, brk |-> brk1, bp |-> q1]
        /\ Good(m1, brk1, B1) /\ Swapped(m, B, p, m1, q1, B1)
        /\ Lonely(m1, B1, q1) /\ MovedTo(order, m, p, m1, q1)
  BY ShiftGives
<1>2. Tiles(m, brk1, B) /\ p # NULL
  <2>1. Tiles(m, brk1, B) /\ p \in B
    BY DEF Good, Heap, Used
  <2>. QED BY <2>1, TilesFacts DEF NULL
<1>3. r = Resized([mem |-> m1, brk |-> brk1, bp |-> q1], sz, granted, order)
  <2>1. PICK h : h = [mem |-> m, brk |-> brk1, bp |-> x]
    OBVIOUS
  <2>2. [h EXCEPT !.bp = p] = [mem |-> m, brk |-> brk1, bp |-> p]
    BY <2>1
  <2>3. r = Resized(Shifted(imme_combine([h EXCEPT !.bp = p]), p, order), sz, granted, order)
    BY <1>2, <2>1 DEF realloc
  <2>. QED BY <1>1, <2>2, <2>3
<1>4. q1 \in Used(m1, B1)
  BY <1>1 DEF Swapped
<1>5. ReallocDid(order, m1, brk1, B1, q1, r, Need(sz))
  <2>1. Good(m1, brk1, B1) /\ Lonely(m1, B1, q1)
    BY <1>1
  <2>. QED BY <1>3, <1>4, <2>1, ResizeGives
<1>6. \A m2, q2, B2 : Swapped(m1, B1, q1, m2, q2, B2) => Swapped(m, B, p, m2, q2, B2)
  BY <1>1, <1>2, SwappedTwice
<1>7. \A m2, q2 : Carried(order, m1, q1, m2, q2, Need(sz)) => Carried(order, m, p, m2, q2, Need(sz))
  <2>1. BlockSize(m1, q1) >= BlockSize(m, p) /\ Carried(order, m, p, m1, q1, BlockSize(m, p))
    BY <1>1 DEF MovedTo
  <2>2. BlockSize(m, p) \in Nat /\ BlockSize(m1, q1) \in Nat
    <3>1. p \in B /\ q1 \in B1 /\ Tiles(m1, brk1, B1)
      BY <1>1, <1>4 DEF Good, Heap, Used
    <3>. QED BY <1>2, <3>1, TilesFacts
  <2>3. ASSUME NEW m2, NEW q2, Carried(order, m1, q1, m2, q2, Need(sz)), order = "up",
               NEW k \in Nat, 4 * k + 12 <= BlockSize(m, p), 4 * k + 12 <= Need(sz)
        PROVE  m2[q2 + 4 * k] = m[p + 4 * k]
    <3>1. 4 * k + 12 <= BlockSize(m1, q1)
      BY <2>1, <2>2, <2>3
    <3>2. m2[q2 + 4 * k] = m1[q1 + 4 * k]
      BY <2>3, <3>1 DEF Carried
    <3>3. m1[q1 + 4 * k] = m[p + 4 * k]
      BY <2>1, <2>3 DEF Carried
    <3>. QED BY <3>2, <3>3
  <2>. QED BY <2>3 DEF Carried
<1>. QED BY <1>5, <1>6, <1>7 DEF ReallocDid

\* For a size that wraps it neither refuses nor asks for more heap.
LEMMA ReallocWraps ==
  ASSUME NEW m, NEW brk1, NEW B, Good(m, brk1, B), NEW p \in Used(m, B), NEW x,
         NEW sz \in 0 .. (SizeModulus - 1), sz # 0, Wraps(sz),
         NEW granted \in BOOLEAN, NEW order,
         NEW r, r = realloc([mem |-> m, brk |-> brk1, bp |-> x], p, sz, granted, order)
  PROVE  r.brk = brk1 /\ r.bp # NULL
<1>1. PICK m1, q1, B1 :
        /\ Shifted(imme_combine([mem |-> m, brk |-> brk1, bp |-> p]), p, order)
             = [mem |-> m1, brk |-> brk1, bp |-> q1]
        /\ Good(m1, brk1, B1) /\ Swapped(m, B, p, m1, q1, B1)
  BY ShiftGives
<1>2. p # NULL
  <2>1. Tiles(m, brk1, B) /\ p \in B
    BY DEF Good, Heap, Used
  <2>. QED BY <2>1, TilesFacts DEF NULL
<1>3. PICK h : h = [mem |-> m1, brk |-> brk1, bp |-> q1]
  OBVIOUS
<1>4. r = Resized(h, sz, granted, order)
  <2>1. PICK g : g = [mem |-> m, brk |-> brk1, bp |-> x]
    OBVIOUS
  <2>2. [g EXCEPT !.bp = p] = [mem |-> m, brk |-> brk1, bp |-> p]
    BY <2>1
  <2>3. r = Resized(Shifted(imme_combine([g EXCEPT !.bp = p]), p, order), sz, granted, order)
    BY <1>2, <2>1 DEF realloc
  <2>. QED BY <1>1, <1>3, <2>2, <2>3
<1>5. BlockSize(m1, q1) \in Nat /\ BlockSize(m1, q1) >= 16 /\ q1 # NULL
  <2>1. Tiles(m1, brk1, B1) /\ q1 \in B1
    BY <1>1 DEF Good, Heap, Swapped
  <2>. QED BY <2>1, TilesFacts DEF NULL
<1>6. PICK need \in {0, 8} : need = Need(sz)
  BY WrappedNeed
<1>7. need # BlockSize(m1, q1) /\ need < BlockSize(m1, q1)
  BY <1>5
<1>8. h.mem = m1 /\ h.bp = q1
  BY <1>3
<1>9. r = place(h, need)
  BY <1>4, <1>6, <1>7, <1>8 DEF Resized
<1>. QED BY <1>3, <1>5, <1>9 DEF place

\* The heap grows for a block that neither the old one with its neighbours nor
\* any other free block has room for.
LEMMA ReallocGrows ==
  ASSUME NEW m, NEW brk1, NEW B, Good(m, brk1, B), NEW p \in Used(m, B), NEW x,
         NEW sz \in Nat, sz # 0, ~Wraps(sz), NEW granted \in BOOLEAN, NEW order,
         NEW r, r = realloc([mem |-> m, brk |-> brk1, bp |-> x], p, sz, granted, order),
         r.brk # brk1
  PROVE  /\ \A b \in Frees(m, B) : BlockSize(m, b) < Need(sz)
         /\ BlockSize(m, p) < Need(sz)
<1>1. PICK m1, q1, B1 :
        /\ Shifted(imme_combine([mem |-> m, brk |-> brk1, bp |-> p]), p, order)
             = [mem |-> m1, brk |-> brk1, bp |-> q1]
        /\ Good(m1, brk1, B1) /\ Swapped(m, B, p, m1, q1, B1)
        /\ MovedTo(order, m, p, m1, q1) /\ FreesKept(m, B, p, m1, q1, B1)
  BY ShiftGives
<1>2. /\ Tiles(m, brk1, B) /\ p \in B /\ p # NULL /\ ~IsFree(m, p) /\ BlockSize(m, p) \in Nat
      /\ \A b \in Frees(m, B) : BlockSize(m, b) \in Nat
  <2>1. Tiles(m, brk1, B) /\ p \in B /\ ~IsFree(m, p)
    BY DEF Good, Heap, Used
  <2>. QED BY <2>1, TilesFacts DEF NULL, Frees
<1>3. PICK h : h = [mem |-> m1, brk |-> brk1, bp |-> q1]
  OBVIOUS
<1>4. r = Resized(h, sz, granted, order)
  <2>1. PICK g : g = [mem |-> m, brk |-> brk1, bp |-> x]
    OBVIOUS
  <2>2. [g EXCEPT !.bp = p] = [mem |-> m, brk |-> brk1, bp |-> p]
    BY <2>1
  <2>3. r = Resized(Shifted(imme_combine([g EXCEPT !.bp = p]), p, order), sz, granted, order)
    BY <1>2, <2>1 DEF realloc
  <2>. QED BY <1>1, <1>3, <2>2, <2>3
<1>5. PICK need \in Nat : need = Need(sz)
  BY NeedIsEnough DEF Eights
<1>6. q1 \in Used(m1, B1) /\ BlockSize(m1, q1) \in Nat
  <2>1. Tiles(m1, brk1, B1) /\ q1 \in B1
    BY <1>1 DEF Good, Heap, Swapped
  <2>. QED BY <1>1, <2>1, TilesFacts DEF Swapped
<1>7. h.mem = m1 /\ h.brk = brk1 /\ h.bp = q1
  BY <1>3
<1>8. BlockSize(m1, q1) < need
  <2>1. need # BlockSize(m1, q1)
    BY <1>4, <1>5, <1>7 DEF Resized
  <2>2. ASSUME need < BlockSize(m1, q1) PROVE FALSE
    <3>1. r = place(h, need)
      BY <1>4, <1>5, <1>7, <2>1, <2>2 DEF Resized
    <3>. QED BY <1>3, <3>1 DEF place
  <2>. QED BY <1>5, <1>6, <2>1, <2>2
<1>9. PICK new : new = malloc(h, sz, granted)
  OBVIOUS
<1>10. r = Replaced(h, new, order)
  BY <1>4, <1>5, <1>6, <1>7, <1>8, <1>9 DEF Resized
<1>11. new.brk # brk1
  <2>1. MallocDid(m1, brk1, B1, new, need)
    BY <1>1, <1>3, <1>5, <1>9, MallocGives
  <2>2. CASE new = [mem |-> m1, brk |-> brk1, bp |-> NULL]
    BY <1>10, <2>2 DEF Replaced
  <2>3. CASE new # [mem |-> m1, brk |-> brk1, bp |-> NULL]
    <3>1. PICK m2, brk2, q2, B2 :
            /\ new = [mem |-> m2, brk |-> brk2, bp |-> q2]
            /\ Good(m2, brk2, B2) /\ Gets(m1, B1, m2, q2, B2, need)
      BY <2>1, <2>3 DEF MallocDid
    <3>2. ReplaceDid(order, m1, B1, q1, brk2, q2, need, r)
      BY <1>1, <1>3, <1>5, <1>6, <1>8, <1>10, <3>1, ReplaceGives
    <3>3. r.brk = brk2
      BY <3>2 DEF ReplaceDid
    <3>. QED BY <3>1, <3>3
  <2>. QED BY <2>2, <2>3
<1>12. \A b \in Frees(m1, B1) : BlockSize(m1, b) < need
  BY <1>1, <1>3, <1>5, <1>9, <1>11, MallocGrows
<1>13. ASSUME NEW b \in Frees(m, B) PROVE BlockSize(m, b) < need
  <2>1. b \in Frees(m, B) \ {p} /\ BlockSize(m, b) \in Nat
    BY <1>2 DEF Frees
  <2>2. CASE BlockSize(m, b) <= BlockSize(m1, q1)
    BY <1>6, <1>8, <2>1, <2>2
  <2>3. CASE b \in Frees(m1, B1) /\ BlockSize(m1, b) = BlockSize(m, b)
    BY <1>12, <2>3
  <2>. QED BY <1>1, <2>1, <2>2, <2>3 DEF FreesKept
<1>14. BlockSize(m, p) < need
  BY <1>1, <1>2, <1>6, <1>8 DEF MovedTo
<1>. QED BY <1>5, <1>13, <1>14

-----------------------------------------------------------------------------
(***************************************************************************)
(* The inductive invariant.                                                *)
(***************************************************************************)
\* The allocated blocks are the program's, one for each name.
Owns(m, B) ==
  /\ Used(m, B) = {block[i].at : i \in Live}
  /\ \A i, j \in Live : block[i].at = block[j].at => i = j
  /\ \A i \in Live : 4 * Len(block[i].words) + 8 <= BlockSize(m, block[i].at)

IInv ==
  /\ block \in [Ids -> [at : Nat, words : Seq(Nat)]]
  /\ brk \in Nat /\ stopped \in BOOLEAN /\ wrapped \in BOOLEAN
  /\ wrapped => stopped
  /\ ~wrapped => \E B : Good(mem, brk, B) /\ (~stopped => Owns(mem, B))

\* In the middle of a step: q is for i, and the other names have their blocks.
OwnsBut(m, B, i, q) ==
  /\ q \in B /\ Used(m, B) = {block[j].at : j \in Live \ {i}} \cup {q}
  /\ \A j \in Live \ {i} :
       block[j].at # q /\ 4 * Len(block[j].words) + 8 <= BlockSize(m, block[j].at)
  /\ \A j \in Live \ {i} : Untouched(mem, m, block[j].at)

\* The blocks the program has are allocated ones, and none of them is NULL.
LEMMA OwnedIsUsed ==
  ASSUME IInv, NEW B, Good(mem, brk, B), Owns(mem, B)
  PROVE  /\ Tiles(mem, brk, B) /\ Used(mem, B) \subseteq B
         /\ \A i \in Live : /\ i \in Ids /\ block[i].at \in Used(mem, B)
                            /\ block[i].at \in Nat /\ block[i].at # NULL
<1>1. Tiles(mem, brk, B) /\ Used(mem, B) \subseteq B
  BY DEF Good, Heap, Used
<1>2. ASSUME NEW i \in Live
      PROVE  i \in Ids /\ block[i].at \in Used(mem, B) /\ block[i].at \in Nat /\ block[i].at # NULL
  <2>1. i \in Ids /\ block[i].at \in Used(mem, B)
    BY DEF Owns, Live
  <2>. QED BY <1>1, <2>1, TilesFacts DEF NULL
<1>. QED BY <1>1, <1>2

\* A block that is untouched has room for what it had room for.
LEMMA OthersKept ==
  ASSUME IInv, NEW B, Good(mem, brk, B), Owns(mem, B), NEW i,
         NEW m2, \A j \in Live \ {i} : Untouched(mem, m2, block[j].at)
  PROVE  \A j \in Live \ {i} : 4 * Len(block[j].words) + 8 <= BlockSize(m2, block[j].at)
<1>1. ASSUME NEW j \in Live \ {i}
      PROVE  4 * Len(block[j].words) + 8 <= BlockSize(m2, block[j].at)
  <2>1. Tiles(mem, brk, B) /\ block[j].at \in B
    BY OwnedIsUsed
  <2>2. BlockSize(m2, block[j].at) = BlockSize(mem, block[j].at)
    BY <2>1, UntouchedKept
  <2>. QED BY <2>2 DEF Owns
<1>. QED BY <1>1

\* A block that was got by malloc is one more for the program.
LEMMA GotIsOwned ==
  ASSUME IInv, NEW B, Good(mem, brk, B), Owns(mem, B), NEW i \in Ids, block[i] = Unused,
         NEW m2, NEW q, NEW B2, NEW sz, Gets(mem, B, m2, q, B2, sz)
  PROVE  OwnsBut(m2, B2, i, q)
<1>1. Live \ {i} = Live
  BY DEF Live
<1>2. Used(mem, B) = {block[j].at : j \in Live}
  BY DEF Owns
<1>3. \A j \in Live \ {i} : block[j].at \in Used(mem, B)
  BY OwnedIsUsed
<1>4. \A j \in Live \ {i} : Untouched(mem, m2, block[j].at)
  BY <1>3 DEF Gets
<1>5. \A j \in Live \ {i} : 4 * Len(block[j].words) + 8 <= BlockSize(m2, block[j].at)
  BY <1>4, OthersKept
<1>6. q \in B2 /\ Used(m2, B2) = Used(mem, B) \cup {q} /\ q \notin Used(mem, B)
  BY DEF Gets, Used
<1>. QED BY <1>1, <1>2, <1>3, <1>4, <1>5, <1>6 DEF OwnsBut

\* A block that realloc moved takes the place of the old one.
LEMMA SwappedIsOwned ==
  ASSUME IInv, NEW B, Good(mem, brk, B), Owns(mem, B), NEW i \in Live,
         NEW m2, NEW q, NEW B2, Swapped(mem, B, block[i].at, m2, q, B2)
  PROVE  OwnsBut(m2, B2, i, q)
<1>1. Used(mem, B) \ {block[i].at} = {block[j].at : j \in Live \ {i}}
  BY DEF Owns
<1>2. \A j \in Live \ {i} : block[j].at \in Used(mem, B) \ {block[i].at}
  BY <1>1
<1>3. \A j \in Live \ {i} : Untouched(mem, m2, block[j].at)
  BY <1>2 DEF Swapped
<1>4. \A j \in Live \ {i} : 4 * Len(block[j].words) + 8 <= BlockSize(m2, block[j].at)
  BY <1>3, OthersKept
<1>. QED BY <1>1, <1>2, <1>3, <1>4 DEF OwnsBut, Swapped

\* What the program's words are, before and after a step.
LEMMA ContentsAre ==
  /\ \A i \in Ids : Contents[i] = [at |-> block[i].at,
                                   words |-> Held(mem, block[i].at, Len(block[i].words))]
  /\ \A i \in Ids : Contents'[i] = [at |-> block'[i].at,
                                    words |-> Held(mem', block'[i].at, Len(block'[i].words))]
  /\ DOMAIN Contents = Ids /\ DOMAIN Contents' = Ids
BY DEF Contents

\* They are the same when the words in memory are.
LEMMA HeldSame ==
  ASSUME NEW m, NEW m2, NEW p, NEW n \in Nat,
         \A k \in Nat : k < n => m2[p + 4 * k] = m[p + 4 * k]
  PROVE  Held(m2, p, n) = Held(m, p, n)
<1>1. ASSUME NEW k \in 1 .. n PROVE m2[p + WSIZE * (k - 1)] = m[p + WSIZE * (k - 1)]
  <2>1. k - 1 \in Nat /\ k - 1 < n
    OBVIOUS
  <2>. QED BY <2>1 DEF WSIZE
<1>. QED BY <1>1 DEF Held

\* A name without a block has no words.
LEMMA UnusedContents ==
  ASSUME NEW i \in Ids, block[i] = Unused
  PROVE  Contents[i] = Alloc!Unused
<1>1. Len(Unused.words) = 0 /\ Unused.at = 0
  BY DEF Unused, NULL
<1>2. Held(mem, 0, 0) = <<>>
  BY DEF Held
<1>. QED BY <1>1, <1>2, ContentsAre DEF Alloc!Unused

\* The same of a name that gave its block back.
LEMMA FreedContents ==
  ASSUME NEW i \in Ids, block'[i] = Unused
  PROVE  Contents'[i] = Alloc!Unused
<1>1. Len(Unused.words) = 0 /\ Unused.at = 0
  BY DEF Unused, NULL
<1>2. Held(mem', 0, 0) = <<>>
  BY DEF Held
<1>. QED BY <1>1, <1>2, ContentsAre DEF Alloc!Unused

\* Where the n words of a block are.
LEMMA HeldExtent ==
  ASSUME NEW m, NEW q \in Nat, NEW n \in Nat, NEW b, b = [at |-> q, words |-> Held(m, q, n)]
  PROVE  /\ Alloc!Extent(b) \subseteq Int
         /\ \A a \in Alloc!Extent(b) : q <= a /\ a + 4 <= q + 4 * n
<1>1. b.at = q /\ DOMAIN b.words = 1 .. n
  BY DEF Held
<1>2. Alloc!Extent(b) = {q + 4 * (k - 1) : k \in 1 .. n}
  BY <1>1 DEF Alloc!Extent, Alloc!WordSize
<1>. QED BY <1>2

\* An untouched block holds what it held.
LEMMA ContentsKept ==
  ASSUME IInv, NEW B, Good(mem, brk, B), Owns(mem, B), NEW j \in Live,
         Untouched(mem, mem', block[j].at), block'[j] = block[j]
  PROVE  Contents'[j] = Contents[j]
<1>1. /\ Tiles(mem, brk, B) /\ block[j].at \in B /\ j \in Ids
      /\ 4 * Len(block[j].words) + 8 <= BlockSize(mem, block[j].at)
  BY OwnedIsUsed DEF Owns
<1>2. Len(block[j].words) \in Nat /\ BlockSize(mem, block[j].at) \in Nat
  BY <1>1, TilesFacts DEF IInv
<1>3. PICK n \in Nat, p \in Nat : n = Len(block[j].words) /\ p = block[j].at
  BY <1>1, <1>2, TilesFacts
<1>4. ASSUME NEW k \in Nat, k < n PROVE mem'[p + 4 * k] = mem[p + 4 * k]
  <2>1. 4 * k + 12 <= BlockSize(mem, p)
    BY <1>1, <1>2, <1>3, <1>4
  <2>2. p + 4 * k \in Extent(mem, p)
    BY <1>1, <1>3, <2>1, BlockWords
  <2>. QED BY <1>3, <2>2 DEF Untouched
<1>5. Held(mem', p, n) = Held(mem, p, n)
  BY <1>4, HeldSame
<1>. QED BY <1>1, <1>3, <1>5, ContentsAre

\* A name without a block still has none.
LEMMA NoContentsKept ==
  ASSUME NEW j \in Ids, block[j] = Unused, block'[j] = Unused
  PROVE  Contents'[j] = Contents[j]
BY UnusedContents, FreedContents

\* The program has block q for i, with n words in it; what the others hold is
\* what they held.
LEMMA HandedSound ==
  ASSUME IInv, NEW B, Good(mem, brk, B), Owns(mem, B),
         NEW i \in Ids, NEW m2, NEW brk2, NEW q, NEW B2, Good(m2, brk2, B2), OwnsBut(m2, B2, i, q),
         NEW n \in Nat, 4 * n + 8 <= BlockSize(m2, q),
         \A c \in Used(m2, B2) \ {q} : Untouched(m2, mem', c),
         \A j \in Ids \ {i} : block'[j] = block[j],
         block'[i].at = q, Len(block'[i].words) = n
  PROVE  Alloc!Changes(i) /\ Alloc!Sound(i)
<1>1. /\ Tiles(m2, brk2, B2) /\ q \in B2 /\ Tiles(mem, brk, B)
      /\ q \in Nat /\ q >= 72 /\ q % 8 = 0 /\ BlockSize(m2, q) \in Nat
      /\ q + BlockSize(m2, q) <= brk2 /\ brk2 <= MAX_HEAP /\ brk2 \in Nat /\ MAX_HEAP \in Nat
  <2>1. Tiles(m2, brk2, B2) /\ q \in B2 /\ Tiles(mem, brk, B)
    BY DEF Good, Heap, OwnsBut
  <2>. QED BY <2>1, TilesFacts, SizesAssumption DEF Eights
<1>2. ASSUME NEW j \in Ids \ {i} PROVE Contents'[j] = Contents[j]
  <2>1. CASE j \notin Live
    BY <1>2, <2>1, NoContentsKept DEF Live
  <2>2. CASE j \in Live
    <3>1. block[j].at \in Used(m2, B2) \ {q} /\ block[j].at \in B
      BY <2>2, OwnedIsUsed DEF OwnsBut
    <3>2. Untouched(mem, m2, block[j].at) /\ Untouched(m2, mem', block[j].at)
      BY <2>2, <3>1 DEF OwnsBut
    <3>3. Untouched(mem, mem', block[j].at)
      BY <1>1, <3>1, <3>2, UntouchedTwice
    <3>. QED BY <2>2, <3>3, ContentsKept
  <2>. QED BY <2>1, <2>2
<1>3. Contents'[i] = [at |-> q, words |-> Held(mem', q, n)]
  BY ContentsAre
<1>4. PICK b : b = Contents'[i]
  OBVIOUS
<1>5. /\ Alloc!Extent(b) \subseteq Int
      /\ \A a \in Alloc!Extent(b) : q <= a /\ a + 4 <= q + 4 * n
  BY <1>1, <1>3, <1>4, HeldExtent
<1>6. Alloc!Extent(b) \subseteq 1 .. MAX_HEAP
  BY <1>1, <1>5
<1>7. ASSUME NEW j \in Ids \ {i} PROVE Alloc!Extent(b) \cap Alloc!Extent(Contents[j]) = {}
  <2>1. CASE j \notin Live
    <3>1. Contents[j] = Alloc!Unused
      BY <1>7, <2>1, UnusedContents DEF Live
    <3>2. Alloc!Extent(Alloc!Unused) = {}
      BY DEF Alloc!Extent, Alloc!Unused
    <3>. QED BY <3>1, <3>2
  <2>2. CASE j \in Live
    <3>1. PICK p : p = block[j].at
      OBVIOUS
    <3>2. p \in B2 /\ p # q /\ 4 * Len(block[j].words) + 8 <= BlockSize(m2, p)
      BY <2>2, <3>1 DEF OwnsBut, Used
    <3>3. p \in Nat /\ BlockSize(m2, p) \in Nat
      BY <1>1, <3>2, TilesFacts
    <3>4. p + BlockSize(m2, p) <= q \/ q + BlockSize(m2, q) <= p
      <4>1. \A c, d \in B2 : c < d => c + BlockSize(m2, c) <= d
        BY <1>1, TilesFacts
      <4>. QED BY <1>1, <3>2, <3>3, <4>1
    <3>5. PICK k \in Nat : k = Len(block[j].words)
      BY <1>7 DEF IInv
    <3>6. Contents[j] = [at |-> p, words |-> Held(mem, p, k)]
      BY <1>7, <3>1, <3>5, ContentsAre
    <3>7. PICK c : c = Contents[j]
      OBVIOUS
    <3>8. /\ Alloc!Extent(c) \subseteq Int
          /\ \A a \in Alloc!Extent(c) : p <= a /\ a + 4 <= p + 4 * k
      BY <3>3, <3>6, <3>7, HeldExtent
    <3>9. Alloc!Extent(b) \cap Alloc!Extent(c) = {}
      <4>1. 4 * k + 8 <= BlockSize(m2, p) /\ 4 * n + 8 <= BlockSize(m2, q)
        BY <3>2, <3>5
      <4>. SUFFICES ASSUME NEW a \in Alloc!Extent(b), a \in Alloc!Extent(c) PROVE FALSE
        OBVIOUS
      <4>2. a \in Int /\ q <= a /\ a + 4 <= q + 4 * n /\ p <= a /\ a + 4 <= p + 4 * k
        BY <1>5, <3>8
      <4>. QED BY <1>1, <3>3, <3>4, <4>1, <4>2
    <3>. QED BY <3>7, <3>9
  <2>. QED BY <2>1, <2>2
<1>8. b # Alloc!Unused /\ b.at % 8 = 0
  <2>1. b.at = q /\ Alloc!Unused.at = 0
    BY <1>3, <1>4 DEF Alloc!Unused
  <2>. QED BY <1>1, <2>1
<1>9. Alloc!Changes(i)
  BY <1>2, ContentsAre DEF Alloc!Changes
<1>. QED BY <1>4, <1>6, <1>7, <1>8, <1>9 DEF Alloc!Sound

\* What the program writes into what it was handed comes after the words it
\* keeps, and stays in the block.
LEMMA HandedWrites ==
  ASSUME NEW m2, NEW brk2, NEW B2, Good(m2, brk2, B2), NEW q \in B2,
         NEW words \in Seq(Nat), NEW n \in Nat, n <= Len(words),
         4 * Len(words) + 8 <= BlockSize(m2, q),
         NEW m3, m3 = Store(m2, q + WSIZE * n, SubSeq(words, n + 1, Len(words)))
  PROVE  /\ Written(m2, m3, q)
         /\ \A k \in Nat : k < n => m3[q + 4 * k] = m2[q + 4 * k]
<1>1. /\ Tiles(m2, brk2, B2) /\ q \in Nat
      /\ BlockSize(m2, q) \in Nat /\ DOMAIN m2 = Words
  <2>1. Tiles(m2, brk2, B2)
    BY DEF Good, Heap
  <2>. QED BY <2>1, TilesFacts
<1>2. PICK k \in Nat : k = Len(words) - n /\ n + k = Len(words)
  OBVIOUS
<1>3. PICK s : s = SubSeq(words, n + 1, Len(words)) /\ DOMAIN s = 1 .. k
  <2>1. Len(words) \in Nat /\ n + 1 \in Int
    OBVIOUS
  <2>2. DOMAIN SubSeq(words, n + 1, Len(words)) = 1 .. k
    BY <1>2
  <2>. QED BY <2>2
<1>4. PICK p \in Nat : /\ p = q + WSIZE * n /\ p = q + 4 * n
                       /\ q <= p /\ p + 4 * k + 8 <= q + BlockSize(m2, q)
  BY <1>1, <1>2 DEF WSIZE
<1>5. Written(m2, Store(m2, p, s), q)
  BY <1>1, <1>3, <1>4, StoreWrites
<1>6. ASSUME NEW j \in Nat, j < n PROVE m3[q + 4 * j] = m2[q + 4 * j]
  <2>1. q + 4 * j \in DOMAIN m2
    <3>1. 4 * j + 12 <= BlockSize(m2, q)
      BY <1>1, <1>6
    <3>. QED BY <1>1, <3>1, BlockWords
  <2>2. PICK a \in Int : a = q + 4 * j /\ a < p
    BY <1>1, <1>4, <1>6
  <2>3. a \notin {p + WSIZE * (l - 1) : l \in DOMAIN s}
    <3>1. \A l \in 1 .. k : p + 4 * (l - 1) >= p
      BY <1>4
    <3>2. \A l \in DOMAIN s : a # p + WSIZE * (l - 1)
      <4>. SUFFICES ASSUME NEW l \in 1 .. k PROVE a # p + 4 * (l - 1)
        BY <1>3 DEF WSIZE
      <4>. QED BY <1>4, <2>2, <3>1
    <3>. QED BY <3>2
  <2>4. Store(m2, p, s)[a] = m2[a]
    BY <2>1, <2>2, <2>3 DEF Store
  <2>5. m3 = Store(m2, p, s)
    BY <1>3, <1>4
  <2>. QED BY <2>2, <2>4, <2>5
<1>. QED BY <1>3, <1>4, <1>5, <1>6

\* What Handed did with block q that malloc or realloc returned for i: the
\* promise of Allocator holds of it, and the words before the first one that
\* the program writes are those the call left there.
GaveTo(i, m2, q, words, n) ==
  /\ Alloc!Changes(i) /\ Alloc!Sound(i)
  /\ Contents'[i] = [at |-> q, words |-> Held(mem', q, Len(words))]
  /\ \A k \in Nat : k < n => mem'[q + 4 * k] = m2[q + 4 * k]

\* The program is handed a block, and the others are left alone.
LEMMA HandedGives ==
  ASSUME IInv, NEW B, Good(mem, brk, B), Owns(mem, B),
         NEW i \in Ids, NEW m2, NEW brk2, NEW q, NEW B2, Good(m2, brk2, B2), OwnsBut(m2, B2, i, q),
         NEW words \in Seq(Nat), NEW n \in Nat, n <= Len(words),
         4 * Len(words) + 8 <= BlockSize(m2, q),
         NEW r, r = [mem |-> m2, brk |-> brk2, bp |-> q], Handed(i, r, words, n)
  PROVE  GaveTo(i, m2, q, words, n)
<1>1. /\ mem' = Store(m2, q + WSIZE * n, SubSeq(words, n + 1, Len(words)))
      /\ block' = [block EXCEPT ![i] = [at |-> q, words |-> words]]
  BY DEF Handed
<1>2. q \in B2 /\ q \in Used(m2, B2)
  BY DEF OwnsBut
<1>3. Written(m2, mem', q) /\ \A k \in Nat : k < n => mem'[q + 4 * k] = m2[q + 4 * k]
  BY <1>1, <1>2, HandedWrites
<1>4. \A c \in Used(m2, B2) \ {q} : Untouched(m2, mem', c)
  BY <1>2, <1>3, WriteGood
<1>5. /\ \A j \in Ids \ {i} : block'[j] = block[j]
      /\ block'[i] = [at |-> q, words |-> words]
  BY <1>1 DEF IInv
<1>6. block'[i].at = q /\ block'[i].words = words
  BY <1>5
<1>7. Alloc!Changes(i) /\ Alloc!Sound(i)
  <2>1. PICK l \in Nat : l = Len(words) /\ Len(block'[i].words) = l
    BY <1>6
  <2>. QED BY <1>4, <1>5, <1>6, <2>1, HandedSound
<1>8. Contents'[i] = [at |-> q, words |-> Held(mem', q, Len(words))]
  BY <1>6, ContentsAre
<1>. QED BY <1>3, <1>7, <1>8 DEF GaveTo

\* The program takes what it was handed and fills it.
LEMMA HandedKeeps ==
  ASSUME IInv, ~stopped, NEW B, Good(mem, brk, B), Owns(mem, B),
         NEW i \in Ids, NEW m2, NEW brk2, NEW q, NEW B2, Good(m2, brk2, B2), OwnsBut(m2, B2, i, q),
         NEW words \in Seq(Nat), NEW n \in Nat, n <= Len(words),
         4 * Len(words) + 8 <= BlockSize(m2, q),
         NEW r, r = [mem |-> m2, brk |-> brk2, bp |-> q], Handed(i, r, words, n)
  PROVE  IInv'
<1>1. /\ mem' = Store(m2, q + WSIZE * n, SubSeq(words, n + 1, Len(words)))
      /\ brk' = brk2 /\ stopped' = stopped /\ wrapped' = wrapped
      /\ block' = [block EXCEPT ![i] = [at |-> q, words |-> words]]
  BY DEF Handed
<1>2. /\ Tiles(m2, brk2, B2) /\ q \in B2 /\ q \in Used(m2, B2) /\ q \in Nat /\ q >= 72
      /\ BlockSize(m2, q) \in Nat /\ DOMAIN m2 = Words /\ brk2 \in Nat
  <2>1. Tiles(m2, brk2, B2) /\ q \in B2 /\ q \in Used(m2, B2)
    BY DEF Good, Heap, OwnsBut
  <2>. QED BY <2>1, TilesFacts
<1>3. Written(m2, mem', q)
  BY <1>1, <1>2, HandedWrites
<1>4. Good(mem', brk2, B2) /\ SameBlocks(m2, mem', B2) /\ Used(mem', B2) = Used(m2, B2)
  BY <1>2, <1>3, WriteGood
<1>5. block' \in [Ids -> [at : Nat, words : Seq(Nat)]]
  BY <1>1, <1>2 DEF IInv
<1>6. Live' = Live \cup {i} /\ Live \subseteq Ids
  <2>1. \A j \in Ids : j # i => block'[j] = block[j]
    BY <1>1 DEF IInv
  <2>2. block'[i] = [at |-> q, words |-> words]
    BY <1>1 DEF IInv
  <2>3. block'[i] # Unused
    BY <1>2, <2>2 DEF Unused, NULL
  <2>. QED BY <2>1, <2>3 DEF Live
<1>7. /\ \A j \in Live \ {i} : block'[j] = block[j]
      /\ block'[i].at = q /\ block'[i].words = words
  BY <1>1, <1>6 DEF IInv
<1>8. Used(mem', B2) = {block'[j].at : j \in Live'}
  <2>1. Used(mem', B2) = {block[j].at : j \in Live \ {i}} \cup {q}
    BY <1>4 DEF OwnsBut
  <2>. QED BY <1>6, <1>7, <2>1
<1>9. ASSUME NEW j \in Live', NEW k \in Live', block'[j].at = block'[k].at PROVE j = k
  <2>1. \A l \in Live \ {i} : block[l].at # q
    BY DEF OwnsBut
  <2>2. \A a, b \in Live : block[a].at = block[b].at => a = b
    BY DEF Owns
  <2>. QED BY <1>6, <1>7, <1>9, <2>1, <2>2
<1>10. ASSUME NEW j \in Live'
       PROVE  4 * Len(block'[j].words) + 8 <= BlockSize(mem', block'[j].at)
  <2>1. block'[j].at \in B2
    BY <1>8 DEF Used
  <2>2. BlockSize(mem', block'[j].at) = BlockSize(m2, block'[j].at)
    BY <1>4, <2>1 DEF SameBlocks
  <2>3. CASE j = i
    BY <1>7, <2>2, <2>3
  <2>4. CASE j # i
    BY <1>6, <1>7, <2>2, <2>4 DEF OwnsBut
  <2>. QED BY <2>3, <2>4
<1>11. Owns(mem, B2)'
  BY <1>8, <1>9, <1>10 DEF Owns
<1>12. Good(mem', brk', B2)
  BY <1>1, <1>4
<1>13. brk' \in Nat /\ stopped' \in BOOLEAN /\ wrapped' = FALSE
  BY <1>1, <1>2 DEF IInv
<1>. QED BY <1>5, <1>11, <1>12, <1>13 DEF IInv

\* A call for i is a step of Allocator, changes nothing it can see, or ends the
\* program.
Promised(i) ==
  \/ Alloc!Allocate(i) \/ Alloc!Release(i) \/ Alloc!Resize(i)
  \/ stopped' \/ Contents' = Contents

\* The heap grows only for a block for i that no free block could have held.
Grew(i, B) ==
  brk' # brk =>
    /\ block'[i] # block[i]
    /\ \A b \in Frees(mem, B) : BlockSize(mem, b) < Need(4 * Len(block'[i].words))

\* free takes a block from the program, or nothing.
LEMMA FreeKeeps ==
  ASSUME IInv, ~stopped, NEW B, Good(mem, brk, B), Owns(mem, B), NEW i \in Ids, Free(i)
  PROVE  IInv' /\ Promised(i) /\ Grew(i, B)
<1>1. /\ mem' = free(heap, block[i].at).mem
      /\ block' = [block EXCEPT ![i] = Unused] /\ brk' = brk /\ stopped' = stopped
      /\ wrapped' = wrapped
  BY DEF Free
<1>2. /\ block' \in [Ids -> [at : Nat, words : Seq(Nat)]]
      /\ brk' \in Nat /\ stopped' \in BOOLEAN /\ wrapped' = FALSE
  <2>1. Unused \in [at : Nat, words : Seq(Nat)]
    BY DEF Unused, NULL
  <2>. QED BY <1>1, <2>1 DEF IInv
<1>3. /\ \A j \in Ids \ {i} : block'[j] = block[j]
      /\ block'[i] = Unused
      /\ Live' = Live \ {i} /\ Live \subseteq Ids
  <2>1. (\A j \in Ids \ {i} : block'[j] = block[j]) /\ block'[i] = Unused
    BY <1>1 DEF IInv
  <2>. QED BY <2>1 DEF Live
<1>4. CASE i \notin Live
  <2>1. block[i] = Unused
    BY <1>4 DEF Live
  <2>2. mem' = mem
    BY <1>1, <2>1 DEF free, heap, Unused
  <2>3. Live' = Live /\ \A j \in Live : block'[j] = block[j]
    BY <1>3, <1>4
  <2>4. Owns(mem, B)'
    BY <2>2, <2>3 DEF Owns
  <2>5. block' = block
    BY <1>1, <2>1 DEF IInv
  <2>6. Contents' = Contents
    BY <2>2, <2>5 DEF Contents
  <2>. QED BY <1>1, <1>2, <2>2, <2>4, <2>6 DEF IInv, Promised, Grew
<1>5. CASE i \in Live
  <2>1. block[i].at \in Used(mem, B)
    BY <1>5, OwnedIsUsed
  <2>2. FreeDid(mem, brk, B, block[i].at, free(heap, block[i].at))
    BY <2>1, FreeGivesBack DEF heap
  <2>3. PICK m2, x, B2 :
          /\ free(heap, block[i].at) = [mem |-> m2, brk |-> brk, bp |-> x]
          /\ Good(m2, brk, B2) /\ Used(m2, B2) = Used(mem, B) \ {block[i].at}
          /\ \A c \in Used(mem, B) \ {block[i].at} : Untouched(mem, m2, c)
    BY <2>2 DEF FreeDid
  <2>4. mem' = m2
    BY <1>1, <2>3
  <2>5. \A j, k \in Live : block[j].at = block[k].at => j = k
    BY DEF Owns
  <2>6. Used(mem, B) \ {block[i].at} = {block[j].at : j \in Live \ {i}}
    BY <1>5, <2>5 DEF Owns
  <2>7. \A j \in Live \ {i} : Untouched(mem, m2, block[j].at)
    BY <2>3, <2>6
  <2>8. \A j \in Live \ {i} : 4 * Len(block[j].words) + 8 <= BlockSize(m2, block[j].at)
    BY <2>7, OthersKept
  <2>9. \A j \in Live' : j \in Live \ {i} /\ block'[j] = block[j]
    BY <1>3
  <2>10. Owns(mem, B2)'
    <3>1. Used(mem', B2) = {block'[j].at : j \in Live'}
      BY <1>3, <2>3, <2>4, <2>6, <2>9
    <3>2. \A j, k \in Live' : block'[j].at = block'[k].at => j = k
      BY <2>5, <2>9
    <3>3. \A j \in Live' : 4 * Len(block'[j].words) + 8 <= BlockSize(mem', block'[j].at)
      BY <2>4, <2>8, <2>9
    <3>. QED BY <3>1, <3>2, <3>3 DEF Owns
  <2>11. IInv'
    BY <1>1, <1>2, <2>3, <2>4, <2>10 DEF IInv
  <2>12. ASSUME NEW j \in Ids \ {i} PROVE Contents'[j] = Contents[j]
    <3>1. CASE j \notin Live
      BY <1>3, <3>1, NoContentsKept DEF Live
    <3>2. CASE j \in Live
      BY <1>3, <2>4, <2>7, <3>2, ContentsKept
    <3>. QED BY <3>1, <3>2
  <2>13. Contents[i] # Alloc!Unused
    <3>1. block[i].at # NULL /\ Contents[i].at = block[i].at /\ Alloc!Unused.at = 0
      BY <1>5, OwnedIsUsed, ContentsAre DEF Alloc!Unused
    <3>. QED BY <3>1 DEF NULL
  <2>14. Contents'[i] = Alloc!Unused
    BY <1>3, FreedContents
  <2>15. Alloc!Release(i)
    BY <2>12, <2>13, <2>14, ContentsAre DEF Alloc!Release, Alloc!Changes
  <2>. QED BY <1>1, <2>11, <2>15 DEF Promised, Grew
<1>. QED BY <1>4, <1>5

\* Min of two numbers.
LEMMA MinOfTwo ==
  ASSUME NEW x \in Nat, NEW y \in Nat
  PROVE  Min({x, y}) \in {x, y} /\ Min({x, y}) <= x /\ Min({x, y}) <= y
<1>1. \E z \in {x, y} : \A w \in {x, y} : z <= w
  <2>1. CASE x <= y
    BY <2>1
  <2>2. CASE y <= x
    BY <2>2
  <2>. QED BY <2>1, <2>2
<1>2. Min({x, y}) \in {x, y} /\ \A w \in {x, y} : Min({x, y}) <= w
  BY <1>1 DEF Min
<1>. QED BY <1>2

\* The words the program stores are as many as it asked for.
LEMMA WordsFill ==
  ASSUME NEW sz \in Nat, sz % 4 = 0
  PROVE  /\ sz \div WSIZE \in Nat /\ 4 * (sz \div WSIZE) = sz
         /\ \A f \in [1 .. sz \div WSIZE -> Nat] : f \in Seq(Nat) /\ Len(f) = sz \div WSIZE
<1>1. sz \div 4 \in Nat /\ 4 * (sz \div 4) = sz
  OBVIOUS
<1>2. ASSUME NEW n \in Nat, NEW f \in [1 .. n -> Nat] PROVE f \in Seq(Nat) /\ Len(f) = n
  OBVIOUS
<1>. QED BY <1>1, <1>2 DEF WSIZE

\* What the program stores in a block that was got.
LEMMA FilledIs ==
  ASSUME NEW sz \in Nat, sz % 4 = 0, NEW i \in Ids, NEW kept \in Seq(Nat)
  PROVE  /\ Filled(i, kept, sz) \in Seq(Nat) /\ Len(Filled(i, kept, sz)) = sz \div WSIZE
         /\ 4 * Len(Filled(i, kept, sz)) = sz
<1>1. i \in Nat
  BY MmAssumption
<1>2. sz \div WSIZE \in Nat /\ 4 * (sz \div WSIZE) = sz
  BY WordsFill
<1>3. ASSUME NEW k \in 1 .. sz \div WSIZE
      PROVE  (IF k \in DOMAIN kept THEN kept[k] ELSE 100 * i + k) \in Nat
  BY <1>1, <1>2
<1>4. Filled(i, kept, sz) \in [1 .. sz \div WSIZE -> Nat]
  BY <1>3 DEF Filled
<1>. QED BY <1>2, <1>4, WordsFill

\* What it keeps of a block that realloc moved: as many words as there is room
\* for.
LEMMA KeptIs ==
  ASSUME IInv, NEW i \in Ids, NEW sz \in Nat
  PROVE  /\ Kept(i, sz) \in Seq(Nat) /\ Len(Kept(i, sz)) <= sz \div WSIZE
         /\ Len(Kept(i, sz)) \in Nat
         /\ Len(Kept(i, sz)) = Min({Len(block[i].words), sz \div WSIZE})
<1>1. PICK s \in Seq(Nat) : s = block[i].words
  BY DEF IInv
<1>2. sz \div WSIZE \in Nat /\ Len(s) \in Nat
  <2>1. sz \div 4 \in Nat
    OBVIOUS
  <2>. QED BY <2>1 DEF WSIZE
<1>3. PICK k \in Nat : k = Min({Len(s), sz \div WSIZE}) /\ k <= Len(s) /\ k <= sz \div WSIZE
  BY <1>2, MinOfTwo
<1>4. Kept(i, sz) = SubSeq(s, 1, k)
  BY <1>1, <1>3 DEF Kept
<1>5. SubSeq(s, 1, k) \in Seq(Nat) /\ Len(SubSeq(s, 1, k)) = k
  <2>1. \A j \in 1 .. k : s[j] \in Nat
    BY <1>3
  <2>2. 1 \in Int /\ k \in Int /\ (IF 1 <= k THEN k - 1 + 1 ELSE 0) = k
    BY <1>3
  <2>. QED BY <2>1, <2>2, SubSeqProperties
<1>. QED BY <1>1, <1>3, <1>4, <1>5

\* The program may call the allocator when it holds nothing for the name.
LEMMA GetKeeps ==
  ASSUME IInv, ~stopped, NEW B, Good(mem, brk, B), Owns(mem, B),
         NEW i \in Ids, block[i] = Unused, NEW sz \in Nat, NEW granted \in BOOLEAN,
         NEW words \in Seq(Nat), NEW n \in Nat, n <= Len(words), 4 * Len(words) = sz,
         Handed(i, malloc(heap, sz, granted), words, n)
  PROVE  IInv' /\ Promised(i) /\ Grew(i, B)
<1>1. PICK r : r = malloc(heap, sz, granted)
  OBVIOUS
<1>2. MallocDid(mem, brk, B, r, Need(sz))
  BY <1>1, MallocGives DEF heap
<1>3. Handed(i, r, words, n)
  BY <1>1
<1>4. r.bp # NULL
  BY <1>3 DEF Handed
<1>5. PICK m2, brk2, q, B2 :
        /\ r = [mem |-> m2, brk |-> brk2, bp |-> q]
        /\ Good(m2, brk2, B2) /\ Gets(mem, B, m2, q, B2, Need(sz))
  BY <1>2, <1>4 DEF MallocDid
<1>6. OwnsBut(m2, B2, i, q)
  BY <1>5, GotIsOwned
<1>7. 4 * Len(words) + 8 <= BlockSize(m2, q)
  <2>1. Tiles(m2, brk2, B2) /\ q \in B2 /\ BlockSize(m2, q) >= Need(sz)
    BY <1>5 DEF Good, Heap, Gets, Used
  <2>2. ~(sz > MAXSIZE)
    BY <1>1, <1>4 DEF malloc
  <2>3. ~Wraps(sz)
    BY <2>2, SmallIsExact
  <2>4. BlockSize(m2, q) \in Nat /\ Need(sz) \in Nat /\ Need(sz) >= sz + 8
    BY <2>1, <2>3, TilesFacts, NeedIsEnough DEF Eights
  <2>. QED BY <2>1, <2>4
<1>8. IInv'
  BY <1>3, <1>5, <1>6, <1>7, HandedKeeps
<1>9. GaveTo(i, m2, q, words, n)
  BY <1>3, <1>5, <1>6, <1>7, HandedGives
<1>10. Alloc!Allocate(i)
  BY <1>9, UnusedContents DEF GaveTo, Alloc!Allocate
<1>11. Grew(i, B)
  <2>1. brk' = r.brk /\ block'[i] = [at |-> r.bp, words |-> words]
    BY <1>3 DEF Handed, IInv
  <2>2. block'[i] # block[i]
    BY <1>4, <2>1 DEF Unused
  <2>3. r.brk # brk => \A b \in Frees(mem, B) : BlockSize(mem, b) < Need(sz)
    BY <1>1, MallocGrows DEF heap
  <2>4. block'[i].words = words
    BY <2>1
  <2>. QED BY <2>1, <2>2, <2>3, <2>4 DEF Grew
<1>. QED BY <1>8, <1>10, <1>11 DEF Promised

\* A malloc that got a block, whatever it was asked for.
LEMMA MallocKeeps ==
  ASSUME IInv, ~stopped, NEW B, Good(mem, brk, B), Owns(mem, B), NEW i \in Ids, Malloc(i)
  PROVE  IInv' /\ Promised(i) /\ Grew(i, B)
<1>1. PICK sz \in Sizes, granted \in BOOLEAN :
        Handed(i, malloc(heap, sz, granted), Filled(i, <<>>, sz), 0)
  BY DEF Malloc
<1>2. sz \in Nat /\ sz % 4 = 0
  BY MmAssumption DEF WSIZE
<1>3. PICK words \in Seq(Nat) : words = Filled(i, <<>>, sz) /\ 4 * Len(words) = sz
  <2>1. <<>> \in Seq(Nat)
    OBVIOUS
  <2>. QED BY <1>2, <2>1, FilledIs
<1>4. 0 \in Nat /\ 0 <= Len(words) /\ 4 * Len(words) = sz /\ block[i] = Unused
  BY <1>2, <1>3 DEF Malloc
<1>5. Handed(i, malloc(heap, sz, granted), words, 0)
  BY <1>1, <1>3
<1>. QED BY <1>2, <1>4, <1>5, GetKeeps

\* A program that stops has lost count of its blocks, not the heap.
LEMMA StopKeeps ==
  ASSUME IInv, ~stopped, stopped' = TRUE, block' = block, wrapped' = wrapped,
         NEW B, Good(mem', brk', B)
  PROVE  IInv' /\ \A i : Promised(i)
<1>1. brk' \in Nat
  BY TilesFacts DEF Good, Heap
<1>. QED BY <1>1 DEF IInv, Promised

\* calloc clears the block, or ends the program.
LEMMA CallocKeeps ==
  ASSUME IInv, ~stopped, NEW B, Good(mem, brk, B), Owns(mem, B), NEW i \in Ids, Calloc(i)
  PROVE  IInv' /\ Promised(i) /\ Grew(i, B)
<1>1. PICK sz \in Sizes \cap 1 .. MAXSIZE, granted \in BOOLEAN :
        Cleared(i, malloc(heap, sz, granted), sz)
  BY DEF Calloc
<1>2. sz \in Nat /\ sz % 4 = 0 /\ block[i] = Unused
  BY MmAssumption DEF WSIZE, Calloc
<1>3. CASE stopped' = TRUE /\ UNCHANGED <<mem, brk, block, wrapped>>
  BY <1>3, StopKeeps DEF Grew
<1>4. CASE Handed(i, malloc(heap, sz, granted), [k \in 1 .. sz \div WSIZE |-> 0], 0)
  <2>. DEFINE words == [k \in 1 .. sz \div WSIZE |-> 0]
  <2>1. words \in Seq(Nat) /\ 4 * Len(words) = sz
    <3>1. words \in [1 .. sz \div WSIZE -> Nat]
      OBVIOUS
    <3>2. sz \div WSIZE \in Nat /\ 4 * (sz \div WSIZE) = sz
      BY <1>2, WordsFill
    <3>. HIDE DEF words
    <3>3. words \in Seq(Nat) /\ Len(words) = sz \div WSIZE
      BY <1>2, <3>1, WordsFill
    <3>. QED BY <3>2, <3>3
  <2>2. Handed(i, malloc(heap, sz, granted), words, 0)
    BY <1>4
  <2>. HIDE DEF words
  <2>3. 0 \in Nat /\ 0 <= Len(words) /\ 4 * Len(words) = sz
    BY <1>2, <2>1
  <2>. QED BY <1>2, <2>1, <2>2, <2>3, GetKeeps
<1>. QED BY <1>1, <1>3, <1>4 DEF Cleared

\* The words that the old and the new block both have are the same.
LEMMA ResizeKept ==
  ASSUME IInv, NEW B, Good(mem, brk, B), Owns(mem, B), NEW i \in Live,
         NEW p, p = block[i].at, NEW m2, NEW q, NEW need \in Nat,
         Carried("up", mem, p, m2, q, need),
         NEW words \in Seq(Nat), 4 * Len(words) + 8 <= need,
         NEW n, n = Min({Len(block[i].words), Len(words)}), GaveTo(i, m2, q, words, n)
  PROVE  Alloc!Resize(i)
<1>1. /\ i \in Ids /\ p \in Nat /\ p # NULL /\ BlockSize(mem, p) \in Nat
      /\ 4 * Len(block[i].words) + 8 <= BlockSize(mem, p)
  <2>1. Tiles(mem, brk, B) /\ p \in B /\ i \in Ids /\ p \in Nat /\ p # NULL
    BY OwnedIsUsed
  <2>. QED BY <2>1, TilesFacts DEF Owns
<1>2. PICK l \in Nat : l = Len(block[i].words)
  BY <1>1 DEF IInv
<1>3. PICK l2 \in Nat : l2 = Len(words)
  OBVIOUS
<1>4. n \in Nat /\ n \in {l, l2}
  BY <1>2, <1>3, MinOfTwo
<1>5. /\ Contents[i] = [at |-> p, words |-> Held(mem, p, l)]
      /\ Contents'[i] = [at |-> q, words |-> Held(mem', q, l2)]
  BY <1>1, <1>2, <1>3, ContentsAre DEF GaveTo
<1>6. ASSUME NEW k \in Nat, k < n PROVE mem'[q + 4 * k] = mem[p + 4 * k]
  <2>1. n <= l /\ n <= l2
    BY <1>2, <1>3, MinOfTwo
  <2>2. 4 * k + 12 <= BlockSize(mem, p) /\ 4 * k + 12 <= need
    BY <1>1, <1>2, <1>3, <1>4, <1>6, <2>1
  <2>3. m2[q + 4 * k] = mem[p + 4 * k]
    BY <2>2 DEF Carried
  <2>4. mem'[q + 4 * k] = m2[q + 4 * k]
    BY <1>6 DEF GaveTo
  <2>. QED BY <2>3, <2>4
<1>7. ASSUME NEW k \in (1 .. l) \cap (1 .. l2)
      PROVE  Held(mem', q, l2)[k] = Held(mem, p, l)[k]
  <2>1. PICK j \in Nat : j = k - 1 /\ j < n
    BY <1>4, <1>7
  <2>2. mem'[q + 4 * j] = mem[p + 4 * j]
    BY <1>6, <2>1
  <2>. QED BY <2>1, <2>2 DEF Held, WSIZE
<1>8. DOMAIN Held(mem, p, l) = 1 .. l /\ DOMAIN Held(mem', q, l2) = 1 .. l2
  BY DEF Held
<1>9. Contents[i] # Alloc!Unused
  <2>1. Contents[i].at = p /\ Alloc!Unused.at = 0
    BY <1>5 DEF Alloc!Unused
  <2>. QED BY <1>1, <2>1 DEF NULL
<1>10. \A k \in DOMAIN Contents[i].words \cap DOMAIN Contents'[i].words :
         Contents'[i].words[k] = Contents[i].words[k]
  BY <1>5, <1>7, <1>8
<1>. QED BY <1>9, <1>10 DEF GaveTo, Alloc!Resize

\* A realloc that moved the block or freed it, or one that failed, after which
\* the program stops.
LEMMA ReallocKeeps ==
  ASSUME IInv, ~stopped, NEW B, Good(mem, brk, B), Owns(mem, B), NEW i \in Ids, Realloc(i)
  PROVE  IInv' /\ Grew(i, B) /\ (CopyOrders \subseteq {"up"} => Promised(i))
<1>1. PICK sz \in Sizes, granted \in BOOLEAN, order \in CopyOrders :
        \/ sz = 0 /\ Free(i)
        \/ sz # 0 /\ Taken(i, realloc(heap, block[i].at, sz, granted, order), sz)
  BY DEF Realloc
<1>2. CASE sz = 0 /\ Free(i)
  BY <1>2, FreeKeeps
<1>3. CASE sz # 0 /\ Taken(i, realloc(heap, block[i].at, sz, granted, order), sz)
  <2>1. sz \in Nat /\ sz % 4 = 0 /\ sz \in 0 .. (SizeModulus - 1)
    BY MmAssumption DEF WSIZE
  <2>2. PICK kept \in Seq(Nat) : kept = Kept(i, sz) /\ Len(kept) <= sz \div WSIZE /\ Len(kept) \in Nat
    BY <2>1, KeptIs
  <2>3. PICK words \in Seq(Nat) :
          words = Filled(i, kept, sz) /\ 4 * Len(words) = sz /\ Len(words) = sz \div WSIZE
    BY <2>1, FilledIs
  <2>4. PICK n \in Nat : n = Len(kept) /\ n <= Len(words)
    BY <2>2, <2>3
  <2>5. PICK r : r = realloc(heap, block[i].at, sz, granted, order)
    OBVIOUS
  <2>6. \/ Refused(r)
        \/ ~Wraps(sz) /\ Handed(i, r, words, n)
        \/ Wraps(sz) /\ Overrun(r)
    BY <1>3, <2>2, <2>3, <2>4, <2>5 DEF Taken
  <2>7. CASE block[i] = Unused
    <3>1. r = malloc(heap, sz, granted)
      BY <2>5, <2>7 DEF realloc, Unused
    <3>2. CASE Handed(i, r, words, n)
      <4>1. Handed(i, malloc(heap, sz, granted), words, n) /\ 4 * Len(words) = sz
        BY <2>1, <2>3, <3>1, <3>2
      <4>. QED BY <2>1, <2>4, <2>7, <4>1, GetKeeps
    <3>3. CASE Refused(r)
      <4>1. MallocDid(mem, brk, B, r, Need(sz))
        BY <2>1, <3>1, MallocGives DEF heap
      <4>2. \E B2 : Good(r.mem, r.brk, B2)
        BY <4>1 DEF MallocDid
      <4>3. mem' = r.mem /\ brk' = r.brk /\ stopped' = TRUE /\ block' = block /\ wrapped' = wrapped
        BY <3>3 DEF Refused
      <4>4. \E B2 : Good(mem', brk', B2)
        BY <4>2, <4>3
      <4>5. r.bp = NULL
        BY <3>3 DEF Refused
      <4>6. brk' = brk
        <5>1. ASSUME NEW m2, NEW brk2, NEW q, NEW B2, r = [mem |-> m2, brk |-> brk2, bp |-> q],
                     Good(m2, brk2, B2), Gets(mem, B, m2, q, B2, Need(sz))
              PROVE  FALSE
          <6>1. Tiles(m2, brk2, B2) /\ q \in B2 /\ q = NULL
            BY <4>5, <5>1 DEF Good, Heap, Gets, Used
          <6>2. q \in Nat /\ q >= 72
            BY <6>1, TilesFacts
          <6>. QED BY <6>1, <6>2 DEF NULL
        <5>2. r = [mem |-> mem, brk |-> brk, bp |-> NULL]
          BY <4>1, <5>1 DEF MallocDid
        <5>. QED BY <4>3, <5>2
      <4>. QED BY <4>3, <4>4, <4>6, StopKeeps DEF Grew
    <3>4. CASE Wraps(sz) /\ Overrun(r)
      <4>1. sz > MAXSIZE
        BY <2>1, <3>4, WrappedNeed
      <4>2. r.bp = NULL
        BY <3>1, <4>1 DEF malloc, heap
      <4>. QED BY <3>4, <4>2 DEF Overrun
    <3>. QED BY <2>6, <3>2, <3>3, <3>4
  <2>8. CASE block[i] # Unused
    <3>1. i \in Live /\ block[i].at \in Used(mem, B)
      BY <2>8, OwnedIsUsed DEF Live
    <3>2. PICK p : p = block[i].at
      OBVIOUS
    <3>3. p \in Used(mem, B)
      BY <3>1, <3>2
    <3>4. r = realloc([mem |-> mem, brk |-> brk, bp |-> NULL], p, sz, granted, order)
      BY <2>5, <3>2 DEF heap
    <3>5. Wraps(sz) \/ ReallocDid(order, mem, brk, B, p, r, Need(sz))
      BY <1>3, <2>1, <3>3, <3>4, ReallocGives
    <3>6. Wraps(sz) => r.brk = brk /\ r.bp # NULL
      BY <1>3, <2>1, <3>3, <3>4, ReallocWraps
    <3>7. CASE Wraps(sz) /\ Overrun(r)
      <4>1. brk' = brk /\ stopped' = TRUE /\ wrapped' = TRUE /\ block' = block
        BY <3>6, <3>7 DEF Overrun
      <4>. QED BY <4>1 DEF IInv, Grew, Promised
    <3>8. CASE ~Wraps(sz) /\ Refused(r)
      <4>1. /\ r.bp = NULL /\ mem' = r.mem /\ brk' = r.brk /\ stopped' = TRUE
            /\ block' = block /\ wrapped' = wrapped
        BY <3>8 DEF Refused
      <4>2. \E B2 : Good(r.mem, r.brk, B2)
        BY <3>5, <3>8 DEF ReallocDid
      <4>3. \E B2 : Good(mem', brk', B2)
        BY <4>1, <4>2
      <4>4. brk' = brk
        <5>1. ASSUME NEW m2, NEW brk2, NEW q, NEW B2, r = [mem |-> m2, brk |-> brk2, bp |-> q],
                     Good(m2, brk2, B2), Swapped(mem, B, p, m2, q, B2)
              PROVE  FALSE
          <6>1. Tiles(m2, brk2, B2) /\ q \in B2 /\ q = NULL
            BY <4>1, <5>1 DEF Good, Heap, Swapped
          <6>2. q \in Nat /\ q >= 72
            BY <6>1, TilesFacts
          <6>. QED BY <6>1, <6>2 DEF NULL
        <5>2. PICK m2 : r = [mem |-> m2, brk |-> brk, bp |-> NULL]
          BY <3>5, <3>8, <5>1 DEF ReallocDid
        <5>. QED BY <4>1, <5>2
      <4>. QED BY <4>1, <4>3, <4>4, StopKeeps DEF Grew
    <3>9. CASE ~Wraps(sz) /\ Handed(i, r, words, n)
      <4>1. r.bp # NULL
        BY <3>9 DEF Handed
      <4>2. PICK m2, brk2, q, B2 :
              /\ r = [mem |-> m2, brk |-> brk2, bp |-> q]
              /\ Good(m2, brk2, B2) /\ Swapped(mem, B, p, m2, q, B2)
              /\ BlockSize(m2, q) >= Need(sz) /\ Carried(order, mem, p, m2, q, Need(sz))
        BY <3>5, <3>9, <4>1 DEF ReallocDid
      <4>3. OwnsBut(m2, B2, i, q)
        BY <3>1, <3>2, <4>2, SwappedIsOwned
      <4>4. Need(sz) \in Nat /\ Need(sz) >= 4 * Len(words) + 8
        BY <2>1, <2>3, <3>9, NeedIsEnough DEF Eights
      <4>5. 4 * Len(words) + 8 <= BlockSize(m2, q)
        <5>1. Tiles(m2, brk2, B2) /\ q \in B2
          BY <4>2 DEF Good, Heap, Swapped
        <5>2. BlockSize(m2, q) \in Nat
          BY <5>1, TilesFacts
        <5>. QED BY <4>2, <4>4, <5>2
      <4>6. IInv'
        BY <2>4, <3>9, <4>2, <4>3, <4>5, HandedKeeps
      <4>7. GaveTo(i, m2, q, words, n)
        BY <2>4, <3>9, <4>2, <4>3, <4>5, HandedGives
      <4>8. ASSUME CopyOrders \subseteq {"up"} PROVE Alloc!Resize(i)
        <5>1. order = "up"
          BY <4>8
        <5>2. n = Min({Len(block[i].words), Len(words)})
          BY <2>1, <2>2, <2>3, <2>4, KeptIs
        <5>3. 4 * Len(block[i].words) + 8 <= BlockSize(mem, p)
          BY <3>1, <3>2 DEF Owns
        <5>. QED BY <3>1, <3>2, <4>2, <4>4, <4>7, <5>1, <5>2, <5>3, ResizeKept
      <4>9. Grew(i, B)
        <5>1. SUFFICES ASSUME brk' # brk
                       PROVE  /\ block'[i] # block[i]
                              /\ \A b \in Frees(mem, B) :
                                   BlockSize(mem, b) < Need(4 * Len(block'[i].words))
          BY DEF Grew
        <5>2. brk' = r.brk /\ block'[i] = [at |-> r.bp, words |-> words]
          BY <3>9 DEF Handed, IInv
        <5>3. block'[i].words = words
          BY <5>2
        <5>4. /\ \A b \in Frees(mem, B) : BlockSize(mem, b) < Need(sz)
              /\ BlockSize(mem, p) < Need(sz)
          BY <1>3, <2>1, <3>3, <3>4, <3>9, <5>1, <5>2, ReallocGrows
        <5>5. ASSUME block'[i] = block[i] PROVE FALSE
          <6>1. /\ Tiles(mem, brk, B) /\ p \in B
                /\ 4 * Len(words) + 8 <= BlockSize(mem, p)
            BY <3>1, <3>2, <5>3, <5>5, OwnedIsUsed DEF Owns
          <6>2. /\ BlockSize(mem, p) \in Eights /\ BlockSize(mem, p) >= 16
                /\ BlockSize(mem, p) \in Nat
            BY <6>1, TilesFacts
          <6>3. BlockSize(mem, p) >= sz + 8
            BY <2>1, <2>3, <6>1, <6>2
          <6>4. Need(sz) <= BlockSize(mem, p)
            BY <2>1, <3>9, <6>2, <6>3, NeedIsLeast
          <6>. QED BY <4>4, <5>4, <6>2, <6>4
        <5>. QED BY <2>3, <5>3, <5>4, <5>5
      <4>. QED BY <4>6, <4>8, <4>9 DEF Promised
    <3>10. ~(Wraps(sz) /\ Refused(r))
      BY <3>6 DEF Refused
    <3>. QED BY <2>6, <3>7, <3>8, <3>9, <3>10
  <2>. QED BY <2>7, <2>8
<1>. QED BY <1>1, <1>2, <1>3

\* mm_init: the empty heap is one without blocks.
LEMMA InitialIsGood ==
  ASSUME NEW w \in InitialWords, NEW r, r = InitialHeap(w)
  PROVE  \E B : Good(r.mem, r.brk, B) /\ Used(r.mem, B) = {}
<1>. DEFINE m == [a \in Words |-> IF a < 15 * WSIZE THEN NULL
                                  ELSE IF a < 17 * WSIZE THEN PACK(DSIZE, 1)
                                  ELSE IF a = 17 * WSIZE THEN PACK(0, 1)
                                  ELSE w]
<1>1. {4 * i : i \in 1 .. 14} \cup {60, 64, 68} \subseteq Words
  <2>1. MAX_HEAP \in Nat /\ MAX_HEAP >= 72
    BY SizesAssumption
  <2>2. \A k \in 0 .. 18 : k \in 0 .. MAX_HEAP \div 4 + 11
    BY <2>1
  <2>3. \A k \in 0 .. 18 : 4 * k \in Words
    BY <2>2 DEF Words, WSIZE
  <2>4. 60 = 4 * 15 /\ 64 = 4 * 16 /\ 68 = 4 * 17
    OBVIOUS
  <2>. QED BY <2>3, <2>4
<1>2. /\ DOMAIN m = Words
      /\ \A i \in 1 .. 14 : m[4 * i] = 0
      /\ m[60] = 9 /\ m[64] = 9 /\ m[68] = 1
  BY <1>1 DEF WSIZE, NULL, PACK, DSIZE
<1>3. PICK m1 : m1 = m
  OBVIOUS
<1>4. Tiles(m1, 72, {})
  <2>1. 72 \in Eights /\ 72 <= MAX_HEAP
    BY EightsClosed, SizesAssumption
  <2>2. EndsOK(m1, 72)
    BY <1>2, <1>3, <2>1 DEF EndsOK, FirstBlock, WSIZE, PACK, DSIZE
  <2>3. Steps(SizesOf(m1, {}), 72, {})
    BY DEF Steps, FirstBlock, WSIZE
  <2>. QED BY <2>2, <2>3 DEF Tiles
<1>5. Good(m1, 72, {})
  <2>1. Frees(m1, {}) = {}
    BY DEF Frees
  <2>2. Links(m1, {}, ListOf(m1, {}), [b \in {} |-> 0])
    BY <1>2, <1>3 DEF Links, PointsWell
  <2>. QED BY <1>4, <2>1, <2>2 DEF Good, Heap, NoTouch
<1>6. r = expand_heap([mem |-> m1, brk |-> 72, bp |-> NULL], CHUNKSIZE, TRUE)
  <2>1. 18 * WSIZE = 72
    BY DEF WSIZE
  <2>. QED BY <1>3, <2>1 DEF InitialHeap
<1>7. ExpandDid(m1, 72, {}, r, CHUNKSIZE)
  <2>1. CHUNKSIZE \in Nat /\ TRUE \in BOOLEAN
    BY MmAssumption
  <2>. HIDE DEF m
  <2>. QED BY <1>5, <1>6, <2>1, Expand
<1>8. CASE r = [mem |-> m1, brk |-> 72, bp |-> NULL]
  BY <1>5, <1>8 DEF Used
<1>9. ASSUME NEW m2, NEW brk2, NEW q, NEW B2, r = [mem |-> m2, brk |-> brk2, bp |-> q],
             Good(m2, brk2, B2), SameUsed(m1, {}, m2, B2)
      PROVE  \E B : Good(r.mem, r.brk, B) /\ Used(r.mem, B) = {}
  <2>1. r.mem = m2 /\ r.brk = brk2
    BY <1>9
  <2>2. Used(m2, B2) = {}
    BY <1>9 DEF SameUsed, Used
  <2>. QED BY <1>9, <2>1, <2>2
<1>. QED BY <1>7, <1>8, <1>9 DEF ExpandDid

\* mm_init leaves the invariant behind.
LEMMA InitIInv == Init => IInv
<1> SUFFICES ASSUME Init PROVE IInv
  OBVIOUS
<1>1. PICK w \in InitialWords : mem = InitialHeap(w).mem /\ brk = InitialHeap(w).brk
  BY DEF Init
<1>2. PICK B : Good(mem, brk, B) /\ Used(mem, B) = {}
  BY <1>1, InitialIsGood
<1>3. /\ block = [i \in Ids |-> Unused] /\ stopped = FALSE /\ wrapped = FALSE
      /\ brk \in Nat
  BY <1>2, TilesFacts DEF Init, Good, Heap
<1>4. block \in [Ids -> [at : Nat, words : Seq(Nat)]]
  <2>1. Unused \in [at : Nat, words : Seq(Nat)]
    BY DEF Unused, NULL
  <2>. QED BY <1>3, <2>1
<1>5. Live = {}
  BY <1>3 DEF Live
<1>6. Owns(mem, B)
  BY <1>2, <1>5 DEF Owns
<1>. QED BY <1>2, <1>3, <1>4, <1>6 DEF IInv

\* Every call of the program keeps it, and the promise of Allocator, and grows
\* the heap only for want of a free block.
LEMMA NextIInv ==
  ASSUME IInv, [Next]_vars
  PROVE  /\ IInv'
         /\ CopyOrders \subseteq {"up"} => [Alloc!Next \/ stopped']_Contents
         /\ brk' # brk => \E i \in Ids : \E B : Good(mem, brk, B) /\ Grew(i, B)
<1>1. CASE UNCHANGED vars
  BY <1>1 DEF vars, IInv, Owns, Live, Contents
<1>2. CASE Next
  <2>1. ~stopped
    BY <1>2 DEF Next
  <2>2. PICK B : Good(mem, brk, B) /\ Owns(mem, B)
    BY <2>1 DEF IInv
  <2>3. PICK i \in Ids : Malloc(i) \/ Calloc(i) \/ Free(i) \/ Realloc(i)
    BY <1>2 DEF Next
  <2>4. IInv' /\ Grew(i, B) /\ (CopyOrders \subseteq {"up"} => Promised(i))
    <3>1. CASE Malloc(i)
      BY <2>1, <2>2, <3>1, MallocKeeps
    <3>2. CASE Calloc(i)
      BY <2>1, <2>2, <3>2, CallocKeeps
    <3>3. CASE Free(i)
      BY <2>1, <2>2, <3>3, FreeKeeps
    <3>4. CASE Realloc(i)
      BY <2>1, <2>2, <3>4, ReallocKeeps
    <3>. QED BY <2>3, <3>1, <3>2, <3>3, <3>4
  <2>5. Promised(i) => [Alloc!Next \/ stopped']_Contents
    BY DEF Promised, Alloc!Next
  <2>. QED BY <2>2, <2>4, <2>5
<1>. QED BY <1>1, <1>2

-----------------------------------------------------------------------------
(***************************************************************************)
(* What the invariant says of the properties the runs check.               *)
(***************************************************************************)
\* The heap that mm_checkheap looks at between calls is a good one.
LEMMA HeapIsGood ==
  ASSUME NEW B, Good(mem, brk, B)
  PROVE  mm_checkheap(heap) /\ BlocksOf(heap) = B /\ FreeBlocks(heap) = Frees(mem, B)
<1>1. PICK h : h = [mem |-> mem, brk |-> brk, bp |-> NULL]
  OBVIOUS
<1>2. mm_checkheap(h) /\ BlocksOf(h) = B /\ FreeBlocks(h) = Frees(mem, B)
  BY <1>1, GoodIsOK
<1>3. heap = h
  BY <1>1 DEF heap
<1>. QED BY <1>2, <1>3

\* The invariant implies that the check finds nothing to report.
LEMMA IInvHeapOK == IInv => HeapOK
<1> SUFFICES ASSUME IInv, ~wrapped PROVE mm_checkheap(heap)
  BY DEF HeapOK
<1>1. PICK B : Good(mem, brk, B)
  BY DEF IInv
<1>. QED BY <1>1, HeapIsGood

\* The names in use and their blocks correspond one to one.
LEMMA OneBlockEach ==
  ASSUME IInv, NEW B, Good(mem, brk, B), Owns(mem, B)
  PROVE  /\ IsFiniteSet(Used(mem, B))
         /\ Cardinality(Used(mem, B)) = Cardinality(Live)
<1>. DEFINE T == Used(mem, B)
            f == [i \in Live |-> block[i].at]
<1>1. IsFiniteSet(T)
  <2>1. Tiles(mem, brk, B) /\ T \subseteq B
    BY OwnedIsUsed
  <2>2. T \in SUBSET Nat /\ brk \in Nat /\ \A b \in T : b <= brk
    BY <2>1, TilesFacts
  <2>. QED BY <2>2, FS_BoundedSetOfNaturals
<1>2. \A i, j \in Live : block[i].at = block[j].at => i = j
  BY DEF Owns
<1>3. T = {block[i].at : i \in Live}
  BY DEF Owns
<1>. HIDE DEF T
<1>4. f \in [Live -> T]
  BY <1>3
<1>5. \A i, j \in Live : f[i] = f[j] => i = j
  BY <1>2
<1>6. \A b \in T : \E i \in Live : f[i] = b
  BY <1>3
<1>. HIDE DEF f
<1>7. f \in Injection(Live, T) /\ f \in Surjection(Live, T)
  BY <1>4, <1>5, <1>6 DEF Injection, Surjection, IsInjective
<1>8. Cardinality(Live) = Cardinality(T)
  BY <1>1, <1>7, FS_Injection
<1>. QED BY <1>1, <1>8 DEF T

\* And that the allocated blocks are the program's.
LEMMA IInvBlocksOwned == IInv => BlocksOwned
<1> SUFFICES ASSUME IInv, ~stopped PROVE BlocksOwned
  BY DEF BlocksOwned
<1>1. PICK B : Good(mem, brk, B) /\ Owns(mem, B)
  BY DEF IInv
<1>2. Allocated = Used(mem, B)
  <2>1. BlocksOf(heap) = B /\ FreeBlocks(heap) = Frees(mem, B)
    BY <1>1, HeapIsGood
  <2>. QED BY <2>1 DEF Allocated, Used, Frees
<1>3. Allocated = {block[i].at : i \in Live}
  BY <1>1, <1>2 DEF Owns
<1>4. Cardinality(Allocated) = Cardinality(Live)
  BY <1>1, <1>2, OneBlockEach
<1>5. ASSUME NEW i \in Live
      PROVE  /\ block[i].at % 8 = 0
             /\ BlockSize(mem, block[i].at) - DSIZE >= WSIZE * Len(block[i].words)
  <2>1. Tiles(mem, brk, B) /\ block[i].at \in B /\ i \in Ids
    BY <1>1, OwnedIsUsed
  <2>2. block[i].at \in Eights /\ BlockSize(mem, block[i].at) \in Nat
    BY <2>1, TilesFacts
  <2>3. Len(block[i].words) \in Nat
    BY <2>1 DEF IInv
  <2>4. 4 * Len(block[i].words) + 8 <= BlockSize(mem, block[i].at)
    BY <1>1 DEF Owns
  <2>5. block[i].at % 8 = 0
    BY <2>2 DEF Eights
  <2>. QED BY <2>2, <2>3, <2>4, <2>5 DEF DSIZE, WSIZE
<1>. QED BY <1>3, <1>4, <1>5 DEF BlocksOwned

\* A step that moves the end of the heap was for a block that no free one could
\* have held.
LEMMA GrowthIsNeeded ==
  ASSUME IInv, [Next]_vars, brk' > brk
  PROVE  \E i \in Ids : /\ block'[i] # block[i]
                        /\ \A b \in FreeBlocks(heap) :
                             BlockSize(mem, b) < Need(WSIZE * Len(block'[i].words))
<1>1. brk' # brk
  BY DEF IInv
<1>2. PICK i \in Ids : \E B : Good(mem, brk, B) /\ Grew(i, B)
  BY <1>1, NextIInv
<1>3. PICK B : Good(mem, brk, B) /\ Grew(i, B)
  BY <1>2
<1>4. FreeBlocks(heap) = Frees(mem, B)
  BY <1>3, HeapIsGood
<1>. QED BY <1>1, <1>3, <1>4 DEF Grew, WSIZE

\* The blocks tile the heap, the lists hold the free ones and, until realloc
\* has failed, the others are the program's: after every sequence of calls,
\* for every size of heap, set of names and sizes, up to a realloc whose Dnum
\* has wrapped, with which the program stops.
THEOREM Invariance == Spec => []IInv
<1>1. IInv /\ [Next]_vars => IInv'
  BY NextIInv
<1>. QED BY <1>1, InitIInv, PTL DEF Spec

\* After any sequence of malloc, calloc, free and realloc, those included that
\* the system refuses memory, mm_checkheap has nothing to report, unless the last
\* of them was a realloc of a block to one of the 15 largest values of a size_t
\* (mm.c:424).
THEOREM HeapSound == Spec => []HeapOK
<1>. QED BY Invariance, IInvHeapOK, PTL

\* As long as realloc has not failed, every allocated block belongs to one name
\* in use, is aligned, and is as large as the program was promised.
THEOREM BlocksAreOwned == Spec => []BlocksOwned
<1>. QED BY Invariance, IInvBlocksOwned, PTL

\* The heap grows only when no free block could have held what was asked for:
\* none in the lists that best_fit skips, or that realloc combined first.
THEOREM GrowsForNeed == Spec => GrowsOnlyWhenNeeded
<1>1. IInv /\ [Next]_vars =>
        [brk' > brk =>
           \E i \in Ids : /\ block'[i] # block[i]
                          /\ \A b \in FreeBlocks(heap) :
                               BlockSize(mem, b) < Need(WSIZE * Len(block'[i].words))]_vars
  BY GrowthIsNeeded
<1>. QED BY <1>1, Invariance, PTL DEF Spec, GrowsOnlyWhenNeeded

\* As long as the program does not stop, and memcpy copies upwards, each call is
\* one of Allocator's, or changes nothing the program can see: what is handed
\* out is aligned and overlaps nothing, realloc keeps the words that both blocks
\* have, and no call changes a word of another block.
THEOREM KeepsPromise ==
  ASSUME CopyOrders \subseteq {"up"}
  PROVE  Spec => ImplementsAllocator
<1>1. Init => Alloc!Init
  <2>. SUFFICES ASSUME Init PROVE Alloc!Init
    OBVIOUS
  <2>1. \A i \in Ids : block[i] = Unused
    BY DEF Init
  <2>2. \A i \in Ids : Contents[i] = Alloc!Unused
    BY <2>1, UnusedContents
  <2>3. Contents = [i \in Ids |-> Contents[i]]
    BY DEF Contents
  <2>. QED BY <2>2, <2>3, Zenon DEF Alloc!Init
<1>2. IInv /\ [Next]_vars => [Alloc!Next \/ stopped']_Contents
  BY NextIInv
<1>. QED BY <1>1, <1>2, Invariance, PTL DEF Spec, ImplementsAllocator

=============================================================================
