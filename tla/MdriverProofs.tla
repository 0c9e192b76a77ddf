--------------------------- MODULE MdriverProofs ---------------------------
(***************************************************************************)
(* Proofs about the allocators' test driver, for any number of traces and  *)
(* blocks, any sizes, any heap and any allocator, right or wrong.          *)
(***************************************************************************)
EXTENDS Mdriver, FiniteSetTheorems, SequenceTheorems, WellFoundedInduction, TLAPS

Ats == {"libc", "start", "mm_init", "valid", "util", "speed", "deinit",
        "results", "printed", "exit", "undefined"}

Stats == [valid : BOOLEAN, util : BOOLEAN, secs : BOOLEAN]

Full == [valid |-> TRUE, util |-> TRUE, secs |-> TRUE]

\* The variables of main and run_tests.
MainType ==
  /\ opt \in Options
  /\ at \in Ats
  /\ i \in 1 .. NumTraces
  /\ timed_out \in BOOLEAN /\ errors \in BOOLEAN
  /\ stats \in [1 .. NumTraces -> Stats]

-----------------------------------------------------------------------------
(***************************************************************************)
(* How the requests of a trace look to run_tests.                          *)
(***************************************************************************)

\* A request of eval_mm_valid ends the evaluation with an error, or goes on.
LEMMA RequestOutcome ==
  ASSUME NEW index \in Ids, Alloc(index) \/ Realloc(index) \/ Free(index) \/ FreeNull
  PROVE  /\ at = "valid"
         /\ \/ \E wrong : Fails(wrong)
            \/ UNCHANGED <<main, at>> /\ \E found \in BOOLEAN : errors' = (errors \/ found)
<1>1. CASE Alloc(index)
  BY <1>1 DEF Alloc, Done, malloc_error
<1>2. CASE Realloc(index)
  BY <1>2 DEF Realloc, Done, malloc_error
<1>3. CASE Free(index)
  BY <1>3 DEF Free, Done, malloc_error
<1>4. CASE FreeNull
  BY <1>4 DEF FreeNull, malloc_error
<1>. QED BY <1>1, <1>2, <1>3, <1>4

\* A failure is an error, and makes the trace invalid.
LEMMA FailsEffect ==
  ASSUME MainType, NEW wrong, Fails(wrong)
  PROVE  /\ errors' = TRUE
         /\ at' = (IF opt.onetime_flag THEN "results" ELSE "deinit")
         /\ stats' = [stats EXCEPT ![i].valid = FALSE]
         /\ UNCHANGED <<opt, i, timed_out>>
BY DEF Fails, malloc_error, Returned, MainType

\* The requests of eval_mm_util leave run_tests alone, too.
LEMMA UtilRequestOutcome ==
  ASSUME NEW index \in Ids,
         UtilAlloc(index) \/ UtilRealloc(index) \/ UtilFree(index)
  PROVE  at = "util" /\ UNCHANGED <<main, at, errors, faults, reported>>
BY DEF UtilAlloc, UtilRealloc, UtilFree, Tallied

\* What is recorded about a trace changes one field of its record.
LEMMA ValidSet ==
  ASSUME MainType, NEW valid \in BOOLEAN, stats' = [stats EXCEPT ![i].valid = valid]
  PROVE  /\ stats' \in [1 .. NumTraces -> Stats]
         /\ \A t \in 1 .. NumTraces : t # i => stats'[t] = stats[t]
         /\ stats'[i].valid = valid
<1>1. stats \in [1 .. NumTraces -> Stats] /\ i \in 1 .. NumTraces
  BY DEF MainType
<1>2. stats' = [stats EXCEPT ![i] = [stats[i] EXCEPT !.valid = valid]]
  OBVIOUS
<1>3. stats[i] \in Stats
  BY <1>1
<1>4. /\ [stats[i] EXCEPT !.valid = valid] \in Stats
      /\ [stats[i] EXCEPT !.valid = valid].valid = valid
  BY <1>3, Zenon DEF Stats
<1>. HIDE DEF Stats
<1>. QED BY <1>1, <1>2, <1>4, Zenon

\* Likewise when the utilisation or the time was measured.
LEMMA MeasuredSet ==
  ASSUME MainType
  PROVE  /\ stats' = [stats EXCEPT ![i].util = TRUE] =>
              /\ stats' \in [1 .. NumTraces -> Stats]
              /\ \A t \in 1 .. NumTraces : t # i => stats'[t] = stats[t]
              /\ stats'[i].util = TRUE /\ stats'[i].valid = stats[i].valid
         /\ stats' = [stats EXCEPT ![i].secs = TRUE] =>
              /\ stats' \in [1 .. NumTraces -> Stats]
              /\ \A t \in 1 .. NumTraces : t # i => stats'[t] = stats[t]
              /\ stats[i].util = TRUE /\ stats[i].valid = TRUE => stats'[i] = Full
<1>1. /\ stats \in [1 .. NumTraces -> Stats] /\ i \in 1 .. NumTraces
      /\ stats[i] \in Stats
  BY DEF MainType
<1>2. ASSUME stats' = [stats EXCEPT ![i].util = TRUE]
      PROVE  /\ stats' \in [1 .. NumTraces -> Stats]
             /\ \A t \in 1 .. NumTraces : t # i => stats'[t] = stats[t]
             /\ stats'[i].util = TRUE /\ stats'[i].valid = stats[i].valid
  <2>1. stats' = [stats EXCEPT ![i] = [stats[i] EXCEPT !.util = TRUE]]
    BY <1>2
  <2>2. /\ [stats[i] EXCEPT !.util = TRUE] \in Stats
        /\ [stats[i] EXCEPT !.util = TRUE].util = TRUE
        /\ [stats[i] EXCEPT !.util = TRUE].valid = stats[i].valid
    BY <1>1, Zenon DEF Stats
  <2>. QED BY <1>1, <2>1, <2>2, Zenon
<1>3. ASSUME stats' = [stats EXCEPT ![i].secs = TRUE]
      PROVE  /\ stats' \in [1 .. NumTraces -> Stats]
             /\ \A t \in 1 .. NumTraces : t # i => stats'[t] = stats[t]
             /\ stats[i].util = TRUE /\ stats[i].valid = TRUE => stats'[i] = Full
  <2>1. stats' = [stats EXCEPT ![i] = [stats[i] EXCEPT !.secs = TRUE]]
    BY <1>3
  <2>2. /\ [stats[i] EXCEPT !.secs = TRUE] \in Stats
        /\ [stats[i] EXCEPT !.secs = TRUE].secs = TRUE
        /\ [stats[i] EXCEPT !.secs = TRUE].valid = stats[i].valid
        /\ [stats[i] EXCEPT !.secs = TRUE].util = stats[i].util
    BY <1>1, Zenon DEF Stats
  <2>3. /\ stats' \in [1 .. NumTraces -> Stats]
        /\ \A t \in 1 .. NumTraces : t # i => stats'[t] = stats[t]
        /\ stats'[i] = [stats[i] EXCEPT !.secs = TRUE]
    BY <1>1, <2>1, <2>2, Zenon
  <2>4. ASSUME NEW r \in Stats, r.valid = TRUE, r.util = TRUE, r.secs = TRUE
        PROVE  r = Full
    BY <2>4 DEF Stats, Full
  <2>. QED BY <2>2, <2>3, <2>4
<1>. QED BY <1>2, <1>3

\* Main and run_tests keep their variables' types.
LEMMA MainTypeStep ==
  ASSUME MainType, [Next]_vars
  PROVE  MainType'
<1>. USE DEF MainType, main
<1>1. CASE UNCHANGED vars
  BY <1>1 DEF vars
<1>2. ASSUME NEW wrong, Fails(wrong) PROVE MainType'
  BY <1>2, FailsEffect, ValidSet, Zenon DEF Ats
<1>3. ASSUME NEW index \in Ids, Alloc(index) \/ Realloc(index) \/ Free(index)
      PROVE  MainType'
  BY <1>2, <1>3, RequestOutcome
<1>4. CASE FreeNull
  BY <1>4 DEF FreeNull, malloc_error
<1>5. ASSUME NEW index \in Ids, UtilAlloc(index) \/ UtilRealloc(index) \/ UtilFree(index)
      PROVE  MainType'
  BY <1>5, UtilRequestOutcome
<1>6. CASE MmInit
  BY <1>2, <1>6 DEF MmInit, Ats
<1>7. CASE EndOfTrace
  <2>1. /\ at' \in {"results", "util"} /\ stats' = [stats EXCEPT ![i].valid = TRUE]
        /\ UNCHANGED <<opt, i, timed_out, errors>>
    BY <1>7 DEF EndOfTrace, Returned
  <2>. QED BY <2>1, ValidSet, Zenon DEF Ats
<1>8. CASE EndOfUtil \/ EndOfSpeed
  <2>1. /\ at' \in {"speed", "deinit"} /\ UNCHANGED <<opt, i, timed_out, errors>>
        /\ \/ stats' = [stats EXCEPT ![i].util = TRUE]
           \/ stats' = [stats EXCEPT ![i].secs = TRUE]
    BY <1>8 DEF EndOfUtil, EndOfSpeed
  <2>. QED BY <2>1, MeasuredSet, Zenon DEF Ats
<1>9. CASE (at \in {"util", "speed"} /\ app_error) \/ EndOfLibc \/ StartTrace \/ PrintResults
  BY <1>9 DEF app_error, EndOfLibc, StartTrace, PrintResults, Ats
<1>10. CASE EndOfTests
  BY <1>10, MdriverAssumption DEF EndOfTests, Files, Ats
<1>11. CASE Timeout
  <2>1. /\ errors' = TRUE /\ UNCHANGED <<opt, i>>
        /\ \/ at' = "undefined" /\ UNCHANGED <<timed_out, stats>>
           \/ /\ at' = "deinit" /\ timed_out' = TRUE
              /\ stats' = [stats EXCEPT ![i].valid = FALSE]
    BY <1>11 DEF Timeout, TimeoutSets
  <2>. QED BY <2>1, ValidSet, Zenon DEF Ats
<1>. QED BY <1>1, <1>3, <1>4, <1>5, <1>6, <1>7, <1>8, <1>9, <1>10, <1>11 DEF Next

-----------------------------------------------------------------------------
(***************************************************************************)
(* The performance index.  Without an error so far, all traces up to the   *)
(* one at hand are valid and measured, and this one as far as it got.      *)
(***************************************************************************)
MeasuredSoFar ==
  ~errors /\ ~opt.onetime_flag =>
    /\ ~timed_out
    /\ \A t \in 1 .. NumTraces : t < i => stats[t] = Full
    /\ at \in {"util", "speed"} => stats[i].valid = TRUE
    /\ at = "speed" => stats[i].util = TRUE
    /\ at = "deinit" => stats[i] = Full
    /\ at \in {"results", "printed"} => i = NumTraces /\ stats[i] = Full

\* No step counts a trace that was not valid and measured.
LEMMA MeasuredStep ==
  ASSUME MainType, MeasuredSoFar, [Next]_vars
  PROVE  MeasuredSoFar'
<1>. USE DEF MeasuredSoFar, main
<1>. i \in 1 .. NumTraces /\ NumTraces \in Nat \ {0}
  BY MdriverAssumption DEF MainType
<1>1. CASE UNCHANGED vars
  BY <1>1 DEF vars
<1>2. ASSUME errors' = TRUE PROVE MeasuredSoFar'
  BY <1>2
<1>3. ASSUME NEW index \in Ids, Alloc(index) \/ Realloc(index) \/ Free(index)
      PROVE  MeasuredSoFar'
  BY <1>3, RequestOutcome, FailsEffect
<1>4. CASE FreeNull
  BY <1>4 DEF FreeNull, malloc_error
<1>5. ASSUME NEW index \in Ids, UtilAlloc(index) \/ UtilRealloc(index) \/ UtilFree(index)
      PROVE  MeasuredSoFar'
  BY <1>5, UtilRequestOutcome
<1>6. CASE MmInit
  BY <1>6, FailsEffect DEF MmInit
<1>7. CASE EndOfTrace
  <2>1. /\ at' = (IF opt.onetime_flag THEN "results" ELSE "util")
        /\ stats' = [stats EXCEPT ![i].valid = TRUE]
        /\ UNCHANGED <<opt, i, timed_out, errors>>
    BY <1>7 DEF EndOfTrace, Returned
  <2>2. /\ \A t \in 1 .. NumTraces : t # i => stats'[t] = stats[t]
        /\ stats'[i].valid = TRUE
    BY <2>1, ValidSet
  <2>. QED BY <2>1, <2>2
<1>8. CASE EndOfUtil
  <2>1. /\ at = "util" /\ at' = "speed" /\ UNCHANGED <<opt, i, timed_out, errors>>
        /\ stats' = [stats EXCEPT ![i].util = TRUE]
    BY <1>8 DEF EndOfUtil
  <2>2. /\ \A t \in 1 .. NumTraces : t # i => stats'[t] = stats[t]
        /\ stats'[i].util = TRUE /\ stats'[i].valid = stats[i].valid
    BY <2>1, MeasuredSet
  <2>. QED BY <2>1, <2>2
<1>9. CASE EndOfSpeed
  <2>1. /\ at = "speed" /\ at' = "deinit" /\ UNCHANGED <<opt, i, timed_out, errors>>
        /\ stats' = [stats EXCEPT ![i].secs = TRUE]
    BY <1>9 DEF EndOfSpeed
  <2>2. /\ \A t \in 1 .. NumTraces : t # i => stats'[t] = stats[t]
        /\ stats[i].util = TRUE /\ stats[i].valid = TRUE => stats'[i] = Full
    BY <2>1, MeasuredSet
  <2>. QED BY <2>1, <2>2
<1>10. CASE (at \in {"util", "speed"} /\ app_error) \/ EndOfLibc \/ StartTrace \/ PrintResults
  BY <1>10 DEF app_error, EndOfLibc, StartTrace, PrintResults
<1>11. CASE EndOfTests
  <2>1. /\ at = "deinit" /\ UNCHANGED <<opt, timed_out, errors, stats>>
        /\ ~opt.onetime_flag =>
             \/ i < NumTraces /\ i' = i + 1 /\ at' = "start"
             \/ ~(i < NumTraces) /\ i' = i /\ at' = "results"
    BY <1>11 DEF EndOfTests, Files
  <2>. QED BY <2>1
<1>12. CASE Timeout
  BY <1>2, <1>12 DEF Timeout, TimeoutSets
<1>. QED BY <1>1, <1>3, <1>4, <1>5, <1>6, <1>7, <1>8, <1>9, <1>10, <1>11, <1>12 DEF Next

\* Main and run_tests keep their types in every reachable state.
LEMMA MainTypeInvariance == Spec => []MainType
<1>1. Init => MainType
  <2>. SUFFICES ASSUME Init PROVE MainType
    OBVIOUS
  <2>1. NoStats \in Stats
    BY Zenon DEF NoStats, Stats
  <2>2. stats \in [1 .. NumTraces -> Stats]
    BY <2>1, Zenon DEF Init
  <2>3. /\ opt \in Options /\ timed_out = FALSE /\ errors = FALSE
        /\ at \in {"libc", "start"} /\ i = 1
    BY DEF Init
  <2>4. i \in 1 .. NumTraces
    BY <2>3, MdriverAssumption
  <2>. QED BY <2>2, <2>3, <2>4, Zenon DEF MainType, Ats
<1>2. MainType /\ [Next]_vars => MainType'
  BY MainTypeStep
<1>. QED BY <1>1, <1>2, PTL DEF Spec

\* A performance index other than 0 is one of all traces: none is missing, was
\* invalid, or was cut short by the alarm.
THEOREM IndexIsOfAll == Spec => []IndexStandsForAll
<1>1. Init => MeasuredSoFar
  BY MdriverAssumption DEF Init, MeasuredSoFar
<1>2. MainType /\ MeasuredSoFar /\ [Next]_vars => MeasuredSoFar'
  BY MeasuredStep
<1>3. MainType /\ MeasuredSoFar => IndexStandsForAll
  <2>. SUFFICES ASSUME MainType, MeasuredSoFar, at = "printed", ~errors, ~opt.onetime_flag,
                       NEW t \in DOMAIN stats
                PROVE  stats[t] = Full
    BY DEF IndexStandsForAll, Full
  <2>1. t \in 1 .. NumTraces /\ i = NumTraces
    BY DEF MainType, MeasuredSoFar
  <2>. QED BY <2>1, MdriverAssumption DEF MeasuredSoFar
<1>. QED BY <1>1, <1>2, <1>3, MainTypeInvariance, PTL DEF Spec

-----------------------------------------------------------------------------
(***************************************************************************)
(* eval_mm_valid: what holds of the blocks, the list of ranges and the     *)
(* memory between two requests, whatever the allocator does.               *)
(***************************************************************************)
Blocks == [at : Nat, size : Nat, base : {0, 1}]

Entries == [lo : Nat, hi : Nat, index : Ids]

TraceType ==
  /\ live \subseteq Ids
  /\ block \in [Ids -> Blocks]
  /\ ranges \in Seq(Entries)
  /\ DOMAIN mem = Addresses
  /\ faults \in Nat /\ reported \in BOOLEAN

\* A block the driver has accepted lies in the heap; one of size 0 is NULL.
Accepted(b) == IF b.size = 0 THEN b.at = NULL ELSE ~Misplaced(b)

Placed == at = "valid" => \A j \in live : Accepted(block[j])

\* The entry of a block.
EntryOf(b, j) == [lo |-> b.at, hi |-> b.at + b.size - 1, index |-> j]

\* The list rs has an entry for each payload in bs of the blocks ids, and no
\* other, ...
Lists(rs, bs, ids) ==
  /\ \A n \in 1 .. Len(rs) :
       LET j == rs[n].index IN j \in ids /\ bs[j].size > 0 /\ rs[n] = EntryOf(bs[j], j)
  /\ \A j \in ids : bs[j].size > 0 => \E n \in 1 .. Len(rs) : rs[n].index = j
  /\ \A m, n \in 1 .. Len(rs) : rs[m].index = rs[n].index => m = n

\* ... and of two that overlap the later one encloses the earlier one.
Nested(rs) ==
  \A m, n \in 1 .. Len(rs) :
    m < n /\ rs[m].lo <= rs[n].hi /\ rs[n].lo <= rs[m].hi
      => rs[m].lo < rs[n].lo /\ rs[n].hi < rs[m].hi

Listed ==
  at = "valid" => IF KeepsRanges THEN Lists(ranges, block, live) /\ Nested(ranges)
                                 ELSE ranges = <<>>

EvalInv == TraceType /\ Placed /\ Listed

\* The sizes have a maximum, so that every byte of the heap has an address.
LEMMA HeapHasAddresses ==
  /\ Max(Sizes) \in Nat /\ NULL \notin HeapLo .. HeapHi
  /\ HeapLo .. HeapHi \subseteq Addresses
  /\ Addresses \subseteq Nat
<1>1. PICK s \in Sizes : \A t \in Sizes : s >= t
  BY MdriverAssumption
<1>2. Max(Sizes) \in Sizes
  BY <1>1 DEF Max
<1>3. Max(Sizes) \in Nat /\ HeapLo \in Nat \ {0} /\ HeapHi \in Nat
  BY <1>2, MdriverAssumption
<1>4. Addresses = 0 .. HeapHi + 1 + Max(Sizes)
  BY DEF Addresses
<1>. HIDE DEF Max
<1>. QED BY <1>3, <1>4 DEF NULL

\* All bytes of an accepted block have addresses.
LEMMA AcceptedExtent ==
  ASSUME NEW b, b.at \in Nat, b.size \in Nat, Accepted(b)
  PROVE  /\ Extent(b) \subseteq Addresses
         /\ Extent(b) \subseteq Nat \ {NULL}
         /\ Extent(b) = {b.at + k : k \in 0 .. b.size - 1}
         /\ b.size > 0 => b.at # NULL
<1>1. CASE b.size = 0
  BY <1>1 DEF Extent
<1>2. CASE b.size # 0
  <2>1. {b.at, b.at + b.size - 1} \subseteq HeapLo .. HeapHi
    BY <1>2 DEF Accepted, Misplaced
  <2>2. b.at >= HeapLo /\ b.at + b.size - 1 <= HeapHi /\ HeapLo \in Nat \ {0} /\ HeapHi \in Nat
    BY <2>1, MdriverAssumption
  <2>3. Extent(b) \subseteq HeapLo .. HeapHi
    BY <2>2 DEF Extent
  <2>4. Extent(b) = {b.at + k : k \in 0 .. b.size - 1}
    <3>1. ASSUME NEW x \in Extent(b) PROVE \E k \in 0 .. b.size - 1 : x = b.at + k
      <4>1. x - b.at \in 0 .. b.size - 1 /\ x = b.at + (x - b.at)
        BY <3>1 DEF Extent
      <4>. QED BY <4>1
    <3>. QED BY <3>1 DEF Extent
  <2>. QED BY <2>2, <2>3, <2>4, HeapHasAddresses DEF NULL
<1>. QED BY <1>1, <1>2

\* A new entry goes in front of the list.
LEMMA AddedToList ==
  ASSUME NEW rs \in Seq(Entries), NEW e \in Entries
  PROVE  /\ <<e>> \o rs \in Seq(Entries)
         /\ Len(<<e>> \o rs) = Len(rs) + 1
         /\ (<<e>> \o rs)[1] = e
         /\ \A n \in 1 .. Len(rs) : (<<e>> \o rs)[n + 1] = rs[n]
OBVIOUS

\* remove_range takes out the one entry that begins where the block did.
LEMMA RemovedFromList ==
  ASSUME NEW rs \in Seq(Entries), NEW p \in 1 .. Len(rs),
         \A n \in 1 .. Len(rs) : rs[n].lo = rs[p].lo => n = p
  PROVE  LET out == remove_range(rs, rs[p].lo)
         IN  /\ out \in Seq(Entries)
             /\ Len(out) = Len(rs) - 1
             /\ \A n \in 1 .. Len(rs) - 1 : out[n] = rs[IF n < p THEN n ELSE n + 1]
<1>. DEFINE found == {n \in DOMAIN rs : rs[n].lo = rs[p].lo}
<1>1. found = {p}
  OBVIOUS
<1>2. Min({p}) = p
  BY DEF Min
<1>3. remove_range(rs, rs[p].lo) = SubSeq(rs, 1, p - 1) \o SubSeq(rs, p + 1, Len(rs))
  BY <1>1, <1>2 DEF remove_range, RemoveAt
<1>. DEFINE front == SubSeq(rs, 1, p - 1)
            back  == SubSeq(rs, p + 1, Len(rs))
<1>4. /\ SubSeq(rs, 1, p - 1) \in Seq(Entries) /\ Len(SubSeq(rs, 1, p - 1)) = p - 1
      /\ \A n \in 1 .. p - 1 : SubSeq(rs, 1, p - 1)[n] = rs[n]
  OBVIOUS
<1>5. /\ SubSeq(rs, p + 1, Len(rs)) \in Seq(Entries)
      /\ Len(SubSeq(rs, p + 1, Len(rs))) = Len(rs) - p
      /\ \A n \in 1 .. Len(rs) - p : SubSeq(rs, p + 1, Len(rs))[n] = rs[p + n]
  OBVIOUS
<1>6. /\ front \in Seq(Entries) /\ Len(front) = p - 1
      /\ back \in Seq(Entries) /\ Len(back) = Len(rs) - p
      /\ Len(rs) \in Nat
  BY <1>4, <1>5
<1>. HIDE DEF front, back
<1>7. /\ front \o back \in Seq(Entries) /\ Len(front \o back) = Len(rs) - 1
      /\ \A n \in 1 .. Len(rs) - 1 :
           (front \o back)[n] = IF n < p THEN front[n] ELSE back[n - (p - 1)]
  BY <1>6
<1>8. ASSUME NEW n \in 1 .. Len(rs) - 1
      PROVE  (front \o back)[n] = rs[IF n < p THEN n ELSE n + 1]
  <2>1. CASE n < p
    BY <1>4, <1>6, <1>7, <2>1 DEF front
  <2>2. CASE ~(n < p)
    <3>1. n - (p - 1) \in 1 .. Len(rs) - p /\ p + (n - (p - 1)) = n + 1
      BY <1>6, <2>2
    <3>. QED BY <1>5, <1>7, <2>2, <3>1 DEF back
  <2>. QED BY <2>1, <2>2
<1>. QED BY <1>3, <1>7, <1>8 DEF front, back

\* What is in an entry of the list.
LEMMA ListEntry ==
  ASSUME NEW rs \in Seq(Entries), NEW bs, NEW ids, Lists(rs, bs, ids),
         NEW n \in 1 .. Len(rs)
  PROVE  /\ rs[n].lo \in Nat /\ rs[n].hi \in Nat /\ rs[n].index \in ids
         /\ bs[rs[n].index].size > 0 /\ rs[n] = EntryOf(bs[rs[n].index], rs[n].index)
<1>1. rs[n] \in Entries
  OBVIOUS
<1>2. rs[n].lo \in Nat /\ rs[n].hi \in Nat
  BY <1>1 DEF Entries
<1>. QED BY <1>2, Zenon DEF Lists

\* A payload that begins and ends outside all others goes into the list.
LEMMA ListAfterAdd ==
  ASSUME NEW rs \in Seq(Entries), NEW bs \in [Ids -> Blocks], NEW ids \in SUBSET Ids,
         NEW index \in Ids, NEW b \in Blocks, b.size > 0, ~Overlaps(rs, b),
         Lists(rs, bs, ids \ {index}), Nested(rs)
  PROVE  LET out == <<EntryOf(b, index)>> \o rs
         IN  /\ out \in Seq(Entries) /\ Nested(out)
             /\ Lists(out, [bs EXCEPT ![index] = b], ids \cup {index})
<1>. DEFINE out == <<EntryOf(b, index)>> \o rs
            bs2 == [bs EXCEPT ![index] = b]
            e   == EntryOf(b, index)
<1>1. /\ e \in Entries /\ e.lo = b.at /\ e.hi = b.at + b.size - 1 /\ e.index = index
      /\ b.at \in Nat /\ b.size \in Nat
  BY DEF EntryOf, Entries, Blocks
<1>2. /\ out \in Seq(Entries) /\ Len(out) = Len(rs) + 1 /\ out[1] = e
      /\ \A n \in 1 .. Len(rs) : out[n + 1] = rs[n]
      /\ Len(rs) \in Nat
  BY <1>1, AddedToList
<1>3. \A n \in 1 .. Len(rs) :
        /\ rs[n].lo \in Nat /\ rs[n].hi \in Nat /\ rs[n].index \in ids \ {index}
        /\ bs[rs[n].index].size > 0 /\ rs[n] = EntryOf(bs[rs[n].index], rs[n].index)
  BY ListEntry
<1>4. /\ bs2[index] = b
      /\ \A j \in Ids : j # index => bs2[j] = bs[j]
  BY DEF Blocks
<1>. HIDE DEF out, bs2, e
<1>5. \A n \in 1 .. Len(out) : n # 1 => n - 1 \in 1 .. Len(rs) /\ out[n] = rs[n - 1]
  BY <1>2
<1>6. Lists(out, bs2, ids \cup {index})
  <2>1. ASSUME NEW n \in 1 .. Len(out)
        PROVE  /\ out[n].index \in ids \cup {index} /\ bs2[out[n].index].size > 0
               /\ out[n] = EntryOf(bs2[out[n].index], out[n].index)
    <3>1. CASE n = 1
      BY <1>1, <1>2, <1>4, <3>1 DEF e
    <3>2. CASE n # 1
      <4>1. n - 1 \in 1 .. Len(rs) /\ out[n] = rs[n - 1]
        BY <1>5, <3>2
      <4>2. /\ rs[n - 1].index \in ids \ {index} /\ bs[rs[n - 1].index].size > 0
            /\ rs[n - 1] = EntryOf(bs[rs[n - 1].index], rs[n - 1].index)
        BY <1>3, <4>1
      <4>3. rs[n - 1].index \in Ids /\ bs2[rs[n - 1].index] = bs[rs[n - 1].index]
        BY <1>4, <4>2
      <4>. QED BY <4>1, <4>2, <4>3
    <3>. QED BY <3>1, <3>2
  <2>2. ASSUME NEW j \in ids \cup {index}, bs2[j].size > 0
        PROVE  \E n \in 1 .. Len(out) : out[n].index = j
    <3>1. CASE j = index
      BY <1>1, <1>2, <3>1
    <3>2. CASE j # index
      <4>1. PICK n \in 1 .. Len(rs) : rs[n].index = j
        BY <1>4, <2>2, <3>2 DEF Lists
      <4>. QED BY <1>2, <4>1
    <3>. QED BY <3>1, <3>2
  <2>3. ASSUME NEW m \in 1 .. Len(out), NEW n \in 1 .. Len(out),
               out[m].index = out[n].index
        PROVE  m = n
    <3>1. CASE m = 1 \/ n = 1
      BY <1>1, <1>2, <1>3, <1>5, <2>3, <3>1
    <3>2. CASE m # 1 /\ n # 1
      <4>1. /\ m - 1 \in 1 .. Len(rs) /\ n - 1 \in 1 .. Len(rs)
            /\ rs[m - 1].index = rs[n - 1].index
        BY <1>5, <2>3, <3>2
      <4>2. \A k1, k2 \in 1 .. Len(rs) : rs[k1].index = rs[k2].index => k1 = k2
        BY DEF Lists
      <4>. QED BY <1>2, <4>1, <4>2
    <3>. QED BY <3>1, <3>2
  <2>. QED BY <2>1, <2>2, <2>3 DEF Lists
<1>7. Nested(out)
  <2>. SUFFICES ASSUME NEW m \in 1 .. Len(out), NEW n \in 1 .. Len(out), m < n,
                       out[m].lo <= out[n].hi, out[n].lo <= out[m].hi
                PROVE  out[m].lo < out[n].lo /\ out[n].hi < out[m].hi
    BY DEF Nested
  <2>. n # 1
    BY <1>2
  <2>1. n - 1 \in 1 .. Len(rs) /\ out[n] = rs[n - 1]
    BY <1>5
  <2>2. CASE m = 1
    <3>1. /\ b.at \notin rs[n - 1].lo .. rs[n - 1].hi
          /\ b.at + b.size - 1 \notin rs[n - 1].lo .. rs[n - 1].hi
      BY <2>1 DEF Overlaps
    <3>. QED BY <1>1, <1>2, <1>3, <2>1, <2>2, <3>1
  <2>3. CASE m # 1
    <3>1. m - 1 \in 1 .. Len(rs) /\ out[m] = rs[m - 1] /\ m - 1 < n - 1
      BY <1>2, <1>5, <2>3
    <3>. QED BY <2>1, <3>1 DEF Nested
  <2>. QED BY <2>2, <2>3
<1>. QED BY <1>2, <1>6, <1>7 DEF out, bs2, e

\* When a block is freed or moved, its entry and no other leaves the list.
LEMMA ListAfterRemove ==
  ASSUME NEW rs \in Seq(Entries), NEW bs \in [Ids -> Blocks], NEW ids \in SUBSET Ids,
         NEW index \in ids, \A j \in ids : Accepted(bs[j]),
         Lists(rs, bs, ids), Nested(rs)
  PROVE  LET out == remove_range(rs, bs[index].at)
         IN  out \in Seq(Entries) /\ Nested(out) /\ Lists(out, bs, ids \ {index})
<1>1. \A n \in 1 .. Len(rs) :
        /\ rs[n].lo \in Nat /\ rs[n].hi \in Nat /\ rs[n].index \in ids
        /\ bs[rs[n].index].size > 0 /\ rs[n] = EntryOf(bs[rs[n].index], rs[n].index)
  BY ListEntry
<1>2. /\ \A j \in Ids : bs[j].at \in Nat /\ bs[j].size \in Nat
      /\ Len(rs) \in Nat
  BY DEF Blocks
<1>3. ASSUME NEW n \in 1 .. Len(rs)
      PROVE  rs[n].lo = bs[rs[n].index].at /\ rs[n].lo <= rs[n].hi
  <2>1. /\ rs[n].lo = bs[rs[n].index].at
        /\ rs[n].hi = bs[rs[n].index].at + bs[rs[n].index].size - 1
    <3>1. PICK j \in ids : rs[n] = EntryOf(bs[j], j)
      BY <1>1
    <3>. QED BY <3>1 DEF EntryOf
  <2>2. /\ bs[rs[n].index].at \in Nat /\ bs[rs[n].index].size \in Nat
        /\ bs[rs[n].index].size > 0
    BY <1>1, <1>2
  <2>. QED BY <2>1, <2>2
<1>4. CASE bs[index].size = 0
  <2>1. \A n \in 1 .. Len(rs) : rs[n].lo # bs[index].at
    <3>. SUFFICES ASSUME NEW n \in 1 .. Len(rs) PROVE rs[n].lo # bs[index].at
      OBVIOUS
    <3>1. bs[rs[n].index].at # NULL
      BY <1>1, <1>2, AcceptedExtent
    <3>. QED BY <1>3, <1>4, <3>1 DEF Accepted
  <2>2. remove_range(rs, bs[index].at) = rs
    BY <2>1 DEF remove_range
  <2>3. Lists(rs, bs, ids \ {index})
    BY <1>4, <1>2 DEF Lists
  <2>. QED BY <2>2, <2>3
<1>5. CASE bs[index].size > 0
  <2>1. PICK p \in 1 .. Len(rs) : rs[p].index = index
    BY <1>5 DEF Lists
  <2>2. ASSUME NEW n \in 1 .. Len(rs), rs[n].lo = rs[p].lo
        PROVE  n = p
    BY <1>1, <1>2, <1>3, <2>2 DEF Nested
  <2>. DEFINE out == remove_range(rs, bs[index].at)
  <2>3. /\ out \in Seq(Entries) /\ Len(out) = Len(rs) - 1
        /\ \A n \in 1 .. Len(rs) - 1 : out[n] = rs[IF n < p THEN n ELSE n + 1]
    BY <1>3, <2>1, <2>2, RemovedFromList
  <2>. HIDE DEF out
  <2>4. ASSUME NEW n \in 1 .. Len(out)
        PROVE  LET old == IF n < p THEN n ELSE n + 1
               IN  old \in 1 .. Len(rs) /\ old # p /\ out[n] = rs[old]
    BY <1>2, <2>3
  <2>5. ASSUME NEW k \in 1 .. Len(rs), k # p
        PROVE  \E n \in 1 .. Len(out) : out[n] = rs[k]
    <3>1. CASE k < p
      <4>1. k \in 1 .. Len(out)
        BY <1>2, <2>3, <3>1
      <4>. QED BY <2>3, <3>1, <4>1
    <3>2. CASE k > p
      <4>1. k - 1 \in 1 .. Len(out) /\ ~(k - 1 < p) /\ (k - 1) + 1 = k
        BY <1>2, <2>3, <3>2
      <4>. QED BY <2>4, <4>1
    <3>. QED BY <2>5, <3>1, <3>2
  <2>6. Lists(out, bs, ids \ {index})
    <3>1. ASSUME NEW n \in 1 .. Len(out)
          PROVE  /\ out[n].index \in ids \ {index} /\ bs[out[n].index].size > 0
                 /\ out[n] = EntryOf(bs[out[n].index], out[n].index)
      <4>. DEFINE old == IF n < p THEN n ELSE n + 1
      <4>1. old \in 1 .. Len(rs) /\ old # p /\ out[n] = rs[old]
        BY <2>4
      <4>. HIDE DEF old
      <4>. QED BY <1>1, <2>1, <4>1 DEF Lists
    <3>2. ASSUME NEW j \in ids \ {index}, bs[j].size > 0
          PROVE  \E n \in 1 .. Len(out) : out[n].index = j
      <4>1. PICK k \in 1 .. Len(rs) : rs[k].index = j
        BY <3>2 DEF Lists
      <4>2. k # p
        BY <2>1, <4>1
      <4>. QED BY <2>5, <4>1, <4>2
    <3>3. ASSUME NEW m \in 1 .. Len(out), NEW n \in 1 .. Len(out),
                 out[m].index = out[n].index
          PROVE  m = n
      <4>1. (IF m < p THEN m ELSE m + 1) = (IF n < p THEN n ELSE n + 1)
        <5>. DEFINE mm == IF m < p THEN m ELSE m + 1
                    nn == IF n < p THEN n ELSE n + 1
        <5>1. /\ mm \in 1 .. Len(rs) /\ out[m] = rs[mm]
              /\ nn \in 1 .. Len(rs) /\ out[n] = rs[nn]
          BY <2>4
        <5>. HIDE DEF mm, nn
        <5>2. mm = nn
          BY <3>3, <5>1 DEF Lists
        <5>. QED BY <5>2 DEF mm, nn
      <4>. QED BY <4>1
    <3>. QED BY <3>1, <3>2, <3>3 DEF Lists
  <2>7. Nested(out)
    <3>. SUFFICES ASSUME NEW m \in 1 .. Len(out), NEW n \in 1 .. Len(out), m < n,
                         out[m].lo <= out[n].hi, out[n].lo <= out[m].hi
                  PROVE  out[m].lo < out[n].lo /\ out[n].hi < out[m].hi
      BY DEF Nested
    <3>. DEFINE mm == IF m < p THEN m ELSE m + 1
                nn == IF n < p THEN n ELSE n + 1
    <3>1. /\ mm \in 1 .. Len(rs) /\ out[m] = rs[mm]
          /\ nn \in 1 .. Len(rs) /\ out[n] = rs[nn]
      BY <2>4
    <3>2. mm < nn
      OBVIOUS
    <3>. HIDE DEF mm, nn
    <3>. QED BY <3>1, <3>2 DEF Nested
  <2>. QED BY <2>3, <2>6, <2>7 DEF out
<1>. QED BY <1>2, <1>4, <1>5

\* A block of size 0 has no entry, whether or not it counts.
LEMMA ListWithoutEntry ==
  ASSUME NEW rs \in Seq(Entries), NEW bs \in [Ids -> Blocks], NEW ids \in SUBSET Ids,
         NEW index \in Ids, NEW b \in Blocks, b.size = 0,
         Lists(rs, bs, ids \ {index})
  PROVE  /\ Lists(rs, [bs EXCEPT ![index] = b], ids \ {index})
         /\ Lists(rs, [bs EXCEPT ![index] = b], ids \cup {index})
<1>. DEFINE bs2 == [bs EXCEPT ![index] = b]
<1>1. /\ bs2[index] = b
      /\ \A j \in Ids : j # index => bs2[j] = bs[j]
  OBVIOUS
<1>. HIDE DEF bs2
<1>2. Lists(rs, bs2, ids \ {index})
  BY <1>1 DEF Lists
<1>3. Lists(rs, bs2, ids \cup {index})
  BY <1>1 DEF Lists
<1>. QED BY <1>2, <1>3 DEF bs2

\* Errors and wrong calls are counted.
LEMMA MallocError ==
  ASSUME TraceType, NEW found, NEW wrong, malloc_error(found, wrong)
  PROVE  /\ faults' \in Nat /\ reported' \in BOOLEAN
         /\ faults' >= faults
         /\ ~wrong => faults' = faults
         /\ wrong => faults' = faults + 1
         /\ reported' = (reported \/ found)
BY DEF TraceType, malloc_error

\* A failure leaves the trace as it was, and ends the evaluation.
LEMMA FailsKeepsTrace ==
  ASSUME EvalInv, NEW wrong, Fails(wrong)
  PROVE  EvalInv' /\ at' # "valid"
<1>1. /\ at' # "valid" /\ UNCHANGED <<block, ranges, mem, live>>
      /\ malloc_error(TRUE, wrong)
  BY DEF Fails, Returned
<1>2. faults' \in Nat /\ reported' \in BOOLEAN
  BY <1>1, MallocError DEF EvalInv
<1>. QED BY <1>1, <1>2 DEF EvalInv, TraceType, Placed, Listed

\* An empty list stays empty.
LEMMA NothingToRemove ==
  ASSUME NEW lo
  PROVE  remove_range(<<>>, lo) = <<>>
BY DEF remove_range

\* Where a block may be put: nowhere if its size is 0.
GoodPlace(size, index, p) ==
  IF size = 0 THEN p = NULL ELSE Right([at |-> p, size |-> size], index)

\* An answer is a pointer, and right if it is in a good place and nothing has
\* been overwritten; otherwise one thing is wrong.
LEMMA AnswerType ==
  ASSUME NEW size, NEW index, NEW copied, NEW a \in Answers(size, index, copied)
  PROVE  /\ a.p \in Pointers /\ a.p \in Nat
         /\ \/ a.hit = NULL /\ a.wrong = ~GoodPlace(size, index, a.p)
            \/ /\ a.wrong = TRUE /\ GoodPlace(size, index, a.p)
               /\ a.hit \in CellsOf(live \ {index}) \cup (a.p .. a.p + copied - 1)
<1>. DEFINE right == IF size = 0 THEN {NULL}
                     ELSE {p \in Pointers : Right([at |-> p, size |-> size], index)}
            hits(p) == CellsOf(live \ {index}) \cup (p .. p + copied - 1)
<1>1. a \in {[p |-> p, hit |-> NULL, wrong |-> p \notin right] : p \in Pointers}
        \cup UNION {{[p |-> p, hit |-> h, wrong |-> TRUE] : h \in hits(p)} : p \in right}
  BY Zenon DEF Answers
<1>2. NULL \in Pointers /\ Pointers \subseteq Nat
  BY MdriverAssumption DEF Pointers, NULL
<1>3. \A p \in Pointers : p \in right <=> GoodPlace(size, index, p)
  BY <1>2 DEF GoodPlace
<1>4. right \subseteq Pointers
  BY <1>2
<1>. HIDE DEF right
<1>5. CASE \E p \in Pointers : a = [p |-> p, hit |-> NULL, wrong |-> p \notin right]
  <2>1. PICK p \in Pointers : a = [p |-> p, hit |-> NULL, wrong |-> p \notin right]
    BY <1>5
  <2>2. a.p = p /\ a.hit = NULL /\ a.wrong = (p \notin right)
    BY <2>1, Zenon
  <2>3. a.wrong = ~GoodPlace(size, index, a.p)
    BY <1>3, <2>2, Zenon
  <2>. QED BY <1>2, <2>2, <2>3
<1>6. CASE \E p \in right : \E h \in hits(p) : a = [p |-> p, hit |-> h, wrong |-> TRUE]
  <2>1. PICK p \in right : \E h \in hits(p) : a = [p |-> p, hit |-> h, wrong |-> TRUE]
    BY <1>6
  <2>2. PICK h \in hits(p) : a = [p |-> p, hit |-> h, wrong |-> TRUE]
    BY <2>1
  <2>3. a.p = p /\ a.hit = h /\ a.wrong = TRUE
    BY <2>2
  <2>4. p \in Pointers /\ GoodPlace(size, index, p)
    BY <1>3, <1>4
  <2>. QED BY <1>2, <2>3, <2>4
<1>. QED BY <1>1, <1>5, <1>6, Zenon

\* A malloc fails, or puts a block in a place that the driver accepts.
LEMMA AllocOutcome ==
  ASSUME TraceType, NEW index \in Ids, Alloc(index)
  PROVE  /\ at = "valid" /\ index \notin live
         /\ \E size \in Sizes : \E a \in Answers(size, index, 0) :
              \/ /\ Fails(a.wrong)
                 /\ \/ a.p = NULL
                    \/ Misplaced([at |-> a.p, size |-> size])
                    \/ KeepsRanges /\ Overlaps(ranges, [at |-> a.p, size |-> size])
              \/ \E b \in Blocks :
                   /\ b.at = a.p /\ b.size = size /\ size > 0 /\ Accepted(b)
                   /\ KeepsRanges => ~Overlaps(ranges, b)
                   /\ malloc_error(CheckedAll, a.wrong)
                   /\ Done(index, b, add_range(ranges, b, index),
                           randomize_block(Hit(mem, a), b, index), live \cup {index})
<1>1. PICK size \in Sizes : \E a \in Answers(size, index, 0) :
        LET b == Based([at |-> a.p, size |-> size], index) IN
        IF a.p = NULL \/ Rejected(ranges, b) THEN Fails(a.wrong)
        ELSE /\ malloc_error(CheckedAll, a.wrong)
             /\ Done(index, b, add_range(ranges, b, index),
                     randomize_block(Hit(mem, a), b, index), live \cup {index})
  BY Zenon DEF Alloc
<1>2. PICK a \in Answers(size, index, 0) :
        LET b == Based([at |-> a.p, size |-> size], index) IN
        IF a.p = NULL \/ Rejected(ranges, b) THEN Fails(a.wrong)
        ELSE /\ malloc_error(CheckedAll, a.wrong)
             /\ Done(index, b, add_range(ranges, b, index),
                     randomize_block(Hit(mem, a), b, index), live \cup {index})
  BY <1>1, Zenon
<1>. DEFINE b == Based([at |-> a.p, size |-> size], index)
<1>3. b \in Blocks /\ b.at = a.p /\ b.size = size /\ size > 0
  <2>1. a.p \in Nat /\ size \in Nat \ {0}
    BY AnswerType, MdriverAssumption
  <2>. QED BY <2>1 DEF Based, Blocks, TraceType
<1>4. /\ Misplaced(b) <=> Misplaced([at |-> a.p, size |-> size])
      /\ Overlaps(ranges, b) <=> Overlaps(ranges, [at |-> a.p, size |-> size])
  BY <1>3 DEF Misplaced, Overlaps
<1>. HIDE DEF b
<1>5. Rejected(ranges, b) <=> Misplaced(b) \/ (KeepsRanges /\ Overlaps(ranges, b))
  BY DEF Rejected
<1>6. Accepted(b) <=> ~Misplaced(b)
  BY <1>3 DEF Accepted, Blocks
<1>7. at = "valid" /\ index \notin live
  BY DEF Alloc
<1>8. IF a.p = NULL \/ Rejected(ranges, b) THEN Fails(a.wrong)
        ELSE /\ malloc_error(CheckedAll, a.wrong)
             /\ Done(index, b, add_range(ranges, b, index),
                     randomize_block(Hit(mem, a), b, index), live \cup {index})
  BY <1>2, Zenon DEF b
<1>9. CASE Fails(a.wrong) /\ (a.p = NULL \/ Rejected(ranges, b))
  BY <1>4, <1>5, <1>7, <1>9, Zenon
<1>10. CASE ~(a.p = NULL \/ Rejected(ranges, b))
  BY <1>3, <1>5, <1>6, <1>7, <1>8, <1>10, Zenon
<1>. QED BY <1>8, <1>9, <1>10, Zenon

\* What an accepted malloc, and the end of a realloc, do to the trace.
LEMMA DoneEval ==
  ASSUME EvalInv, at = "valid", NEW index \in Ids, NEW b \in Blocks, Accepted(b),
         NEW rs \in Seq(Entries), NEW m, NEW found, NEW wrong,
         KeepsRanges => Lists(rs, block, live \ {index}) /\ Nested(rs),
         ~KeepsRanges => rs = <<>>,
         b.size > 0 /\ KeepsRanges => ~Overlaps(rs, b),
         malloc_error(found, wrong),
         Done(index, b, IF b.size > 0 THEN add_range(rs, b, index) ELSE rs, m,
              live \cup {index})
  PROVE  EvalInv'
<1>. USE DEF EvalInv
<1>1. /\ block' = [block EXCEPT ![index] = b] /\ live' = live \cup {index}
      /\ ranges' = (IF b.size > 0 THEN add_range(rs, b, index) ELSE rs)
      /\ DOMAIN mem' = Addresses /\ UNCHANGED <<main, at>>
  BY DEF Done, Reused
<1>2. /\ faults' \in Nat /\ reported' \in BOOLEAN
      /\ block \in [Ids -> Blocks] /\ live \in SUBSET Ids /\ b.size \in Nat
  BY MallocError DEF TraceType, Blocks
<1>3. KeepsRanges' <=> KeepsRanges
  BY <1>1 DEF KeepsRanges, main
<1>4. Placed'
  BY <1>1, <1>2 DEF Placed, Accepted, Misplaced
<1>5. /\ ranges' \in Seq(Entries)
      /\ IF KeepsRanges THEN Lists(ranges', block', live') /\ Nested(ranges')
                        ELSE ranges' = <<>>
  <2>1. CASE KeepsRanges /\ b.size > 0
    <3>1. ranges' = <<EntryOf(b, index)>> \o rs
      BY <1>1, <2>1 DEF add_range, EntryOf
    <3>2. LET out == <<EntryOf(b, index)>> \o rs
          IN  /\ out \in Seq(Entries) /\ Nested(out)
              /\ Lists(out, [block EXCEPT ![index] = b], live \cup {index})
      BY <1>2, <2>1, ListAfterAdd
    <3>. QED BY <1>1, <2>1, <3>1, <3>2
  <2>2. CASE KeepsRanges /\ ~(b.size > 0)
    <3>1. b.size = 0 /\ ranges' = rs
      BY <1>1, <1>2, <2>2
    <3>2. Lists(rs, [block EXCEPT ![index] = b], live \cup {index})
      BY <1>2, <2>2, <3>1, ListWithoutEntry
    <3>. QED BY <1>1, <2>2, <3>1, <3>2
  <2>3. CASE ~KeepsRanges
    BY <1>1, <2>3 DEF add_range
  <2>. QED BY <2>1, <2>2, <2>3
<1>6. TraceType'
  BY <1>1, <1>2, <1>5 DEF TraceType
<1>7. Listed'
  BY <1>3, <1>5 DEF Listed
<1>. QED BY <1>4, <1>6, <1>7

\* A malloc that is accepted adds a block and its entry.
LEMMA AllocEval ==
  ASSUME EvalInv, NEW index \in Ids, Alloc(index)
  PROVE  EvalInv'
<1>1. PICK size \in Sizes : \E a \in Answers(size, index, 0) :
        \/ Fails(a.wrong)
        \/ \E b \in Blocks :
             /\ b.at = a.p /\ b.size = size /\ size > 0 /\ Accepted(b)
             /\ KeepsRanges => ~Overlaps(ranges, b)
             /\ malloc_error(CheckedAll, a.wrong)
             /\ Done(index, b, add_range(ranges, b, index),
                     randomize_block(Hit(mem, a), b, index), live \cup {index})
  BY AllocOutcome, Zenon DEF EvalInv
<1>2. ASSUME NEW wrong, Fails(wrong) PROVE EvalInv'
  BY <1>2, FailsKeepsTrace
<1>3. ASSUME NEW b \in Blocks, NEW m, NEW wrong, b.size > 0, Accepted(b),
             KeepsRanges => ~Overlaps(ranges, b),
             malloc_error(CheckedAll, wrong),
             Done(index, b, add_range(ranges, b, index), m, live \cup {index})
      PROVE  EvalInv'
  <2>1. /\ at = "valid" /\ live \ {index} = live /\ ranges \in Seq(Entries)
        /\ KeepsRanges => Lists(ranges, block, live \ {index}) /\ Nested(ranges)
        /\ ~KeepsRanges => ranges = <<>>
    BY DEF Alloc, EvalInv, Listed, TraceType
  <2>2. Done(index, b, IF b.size > 0 THEN add_range(ranges, b, index) ELSE ranges, m,
             live \cup {index})
    BY <1>3
  <2>. QED BY <1>3, <2>1, <2>2, DoneEval
<1>. QED BY <1>1, <1>2, <1>3

\* What realloc has copied, and the block as far as its data must be there.
Kept(size, index) == Min({size, block[index].size})

Without(index) == remove_range(ranges, block[index].at)

MovedTo(a, index, size) == Hit(Copied(mem, block[index].at, a.p, Kept(size, index)), a)

MovedBlock(a, index, size) ==
  [block[index] EXCEPT !.at = a.p, !.size = CheckedSize(@, size)]

\* The smaller of the two sizes, in the allocator and in the driver.
LEMMA KeptIsSmaller ==
  ASSUME NEW size \in Nat, NEW old \in Nat
  PROVE  /\ Min({size, old}) \in Nat /\ Min({size, old}) <= size /\ Min({size, old}) <= old
         /\ Min({size, old}) = CheckedSize(old, size)
<1>1. CASE size < old
  <2>1. Min({size, old}) = size
    BY <1>1 DEF Min
  <2>. QED BY <1>1, <2>1 DEF CheckedSize
<1>2. CASE ~(size < old)
  <2>1. Min({size, old}) = old
    BY <1>2 DEF Min
  <2>. QED BY <1>2, <2>1 DEF CheckedSize
<1>. QED BY <1>1, <1>2

\* How a realloc that was answered with a goes on.
ReallocGoesOn(index, size, a) ==
  \/ /\ Fails(a.wrong)
     /\ \/ ~(a.p = NULL <=> size = 0)
        \/ size > 0 /\ Misplaced([at |-> a.p, size |-> size])
        \/ size > 0 /\ KeepsRanges /\ Overlaps(Without(index), [at |-> a.p, size |-> size])
  \/ \E b \in Blocks :
       /\ b.at = a.p /\ b.size = size /\ Accepted(b)
       /\ b.size > 0 /\ KeepsRanges => ~Overlaps(Without(index), b)
       /\ malloc_error(\/ CheckedAll \/ check_index(mem, block[index], index)
                       \/ check_index(MovedTo(a, index, size), MovedBlock(a, index, size), index),
                       a.wrong)
       /\ Done(index, b, IF b.size > 0 THEN add_range(Without(index), b, index)
                                       ELSE Without(index),
               randomize_block(MovedTo(a, index, size), b, index), live)

\* A realloc fails, or moves the block to a place that the driver accepts.
LEMMA ReallocOutcome ==
  ASSUME TraceType, NEW index \in Ids, Realloc(index)
  PROVE  /\ at = "valid" /\ index \in live
         /\ \E size \in Sizes \cup {0} : \E a \in Answers(size, index, Kept(size, index)) :
              ReallocGoesOn(index, size, a)
<1>. DEFINE new(size, a) == Based([at |-> a.p, size |-> size], index)
            fails(size, a) ==
              \/ (a.p = NULL) # (size = 0)
              \/ size > 0 /\ Rejected(Without(index), new(size, a))
            checks(size, a) ==
              malloc_error(\/ CheckedAll \/ check_index(mem, block[index], index)
                \/ check_index(MovedTo(a, index, size), MovedBlock(a, index, size), index),
                a.wrong)
            done(size, a) ==
              Done(index, new(size, a),
                   IF size > 0 THEN add_range(Without(index), new(size, a), index)
                               ELSE Without(index),
                   randomize_block(MovedTo(a, index, size), new(size, a), index), live)
<1>1. PICK size \in Sizes \cup {0} : \E a \in Answers(size, index, Kept(size, index)) :
        IF fails(size, a) THEN Fails(a.wrong) ELSE checks(size, a) /\ done(size, a)
  BY Zenon DEF Realloc, Kept, Without, MovedTo, MovedBlock
<1>2. PICK a \in Answers(size, index, Kept(size, index)) :
        IF fails(size, a) THEN Fails(a.wrong) ELSE checks(size, a) /\ done(size, a)
  BY <1>1, Zenon
<1>. DEFINE b == Based([at |-> a.p, size |-> size], index)
<1>3. b \in Blocks /\ b.at = a.p /\ b.size = size /\ size \in Nat
  <2>1. a.p \in Nat
    BY AnswerType, Zenon
  <2>2. size \in Nat
    BY MdriverAssumption
  <2>. QED BY <2>1, <2>2 DEF Based, Blocks, TraceType
<1>4. /\ Misplaced(b) <=> Misplaced([at |-> a.p, size |-> size])
      /\ Overlaps(Without(index), b) <=>
           Overlaps(Without(index), [at |-> a.p, size |-> size])
  BY <1>3 DEF Misplaced, Overlaps
<1>5. fails(size, a) <=>
        \/ ~(a.p = NULL <=> size = 0)
        \/ size > 0 /\ (Misplaced(b) \/ (KeepsRanges /\ Overlaps(Without(index), b)))
  BY Zenon DEF Rejected
<1>6. at = "valid" /\ index \in live
  BY DEF Realloc
<1>7. done(size, a) <=>
        Done(index, b, IF b.size > 0 THEN add_range(Without(index), b, index)
                                     ELSE Without(index),
             randomize_block(MovedTo(a, index, size), b, index), live)
  BY <1>3, Zenon
<1>. HIDE DEF b, done, fails, checks
<1>8. CASE fails(size, a)
  <2>1. Fails(a.wrong)
    BY <1>2, <1>8
  <2>2. ReallocGoesOn(index, size, a)
    BY <1>4, <1>5, <1>8, <2>1, Zenon DEF ReallocGoesOn
  <2>. QED BY <1>6, <2>2
<1>9. CASE ~fails(size, a)
  <2>1. checks(size, a) /\ done(size, a)
    BY <1>2, <1>9
  <2>2. Accepted(b)
    <3>1. CASE size = 0
      BY <1>3, <1>5, <1>9, <3>1 DEF Accepted
    <3>2. CASE size # 0
      BY <1>3, <1>5, <1>9, <3>2 DEF Accepted
    <3>. QED BY <3>1, <3>2
  <2>3. b.size > 0 /\ KeepsRanges => ~Overlaps(Without(index), b)
    BY <1>3, <1>5, <1>9
  <2>4. malloc_error(\/ CheckedAll \/ check_index(mem, block[index], index)
          \/ check_index(MovedTo(a, index, size), MovedBlock(a, index, size), index),
          a.wrong)
    BY <2>1, Zenon DEF checks
  <2>5. Done(index, b, IF b.size > 0 THEN add_range(Without(index), b, index)
                                     ELSE Without(index),
             randomize_block(MovedTo(a, index, size), b, index), live)
    BY <1>7, <2>1, Zenon
  <2>6. b \in Blocks /\ b.at = a.p /\ b.size = size
    BY <1>3
  <2>7. ReallocGoesOn(index, size, a)
    BY <2>2, <2>3, <2>4, <2>5, <2>6, Zenon DEF ReallocGoesOn
  <2>. QED BY <1>6, <2>7
<1>. QED BY <1>8, <1>9

\* The list without the entry of a block.
LEMMA RemovedEntry ==
  ASSUME EvalInv, at = "valid", NEW index \in live
  PROVE  /\ Without(index) \in Seq(Entries)
         /\ KeepsRanges => /\ Lists(Without(index), block, live \ {index})
                           /\ Nested(Without(index))
         /\ ~KeepsRanges => Without(index) = <<>>
<1>1. /\ ranges \in Seq(Entries) /\ block \in [Ids -> Blocks] /\ live \in SUBSET Ids
      /\ \A j \in live : Accepted(block[j])
      /\ KeepsRanges => Lists(ranges, block, live) /\ Nested(ranges)
      /\ ~KeepsRanges => ranges = <<>>
  BY DEF EvalInv, TraceType, Placed, Listed
<1>2. CASE KeepsRanges
  BY <1>1, <1>2, ListAfterRemove DEF Without
<1>3. CASE ~KeepsRanges
  BY <1>1, <1>3, NothingToRemove DEF Without
<1>. QED BY <1>2, <1>3

\* A realloc takes the entry of the block out and puts the new one in.
LEMMA ReallocEval ==
  ASSUME EvalInv, NEW index \in Ids, Realloc(index)
  PROVE  EvalInv'
<1>1. /\ at = "valid" /\ index \in live
      /\ \E size \in Sizes \cup {0} : \E a \in Answers(size, index, Kept(size, index)) :
           ReallocGoesOn(index, size, a)
  BY ReallocOutcome DEF EvalInv
<1>2. PICK size, a : ReallocGoesOn(index, size, a)
  BY <1>1
<1>3. CASE Fails(a.wrong)
  BY <1>3, FailsKeepsTrace
<1>4. ASSUME NEW b \in Blocks, NEW m, NEW found, NEW wrong, Accepted(b),
             b.size > 0 /\ KeepsRanges => ~Overlaps(Without(index), b),
             malloc_error(found, wrong),
             Done(index, b, IF b.size > 0 THEN add_range(Without(index), b, index)
                                          ELSE Without(index), m, live)
      PROVE  EvalInv'
  <2>1. /\ Without(index) \in Seq(Entries)
        /\ KeepsRanges => Lists(Without(index), block, live \ {index})
                            /\ Nested(Without(index))
        /\ ~KeepsRanges => Without(index) = <<>>
    BY <1>1, RemovedEntry
  <2>2. live \cup {index} = live
    BY <1>1
  <2>. HIDE DEF Without
  <2>. QED BY <1>1, <1>4, <2>1, <2>2, DoneEval
<1>. QED BY <1>2, <1>3, <1>4 DEF ReallocGoesOn

\* free takes the block and its entry out.
LEMMA FreeEval ==
  ASSUME EvalInv, NEW index \in Ids, Free(index)
  PROVE  EvalInv'
<1>. USE DEF EvalInv
<1>1. /\ at = "valid" /\ index \in live
      /\ \E h \in {NULL} \cup CellsOf(live \ {index}) :
           /\ malloc_error(CheckedAll \/ LastCheck(index), h # NULL)
           /\ Done(index, [Unused EXCEPT !.base = block[index].base],
                   remove_range(ranges, block[index].at),
                   Hit(mem, [hit |-> h]), live \ {index})
  BY DEF Free
<1>. DEFINE b == [Unused EXCEPT !.base = block[index].base]
<1>2. /\ faults' \in Nat /\ reported' \in BOOLEAN
  BY <1>1, MallocError
<1>3. /\ block' = [block EXCEPT ![index] = b]
      /\ ranges' = Without(index) /\ live' = live \ {index}
      /\ DOMAIN mem' = Addresses /\ UNCHANGED <<main, at>>
  BY <1>1 DEF Done, Reused, Without
<1>4. b \in Blocks /\ b.size = 0
  BY DEF Unused, Blocks, TraceType, NULL
<1>. HIDE DEF b
<1>5. /\ Without(index) \in Seq(Entries)
      /\ KeepsRanges => Lists(Without(index), block, live \ {index})
                          /\ Nested(Without(index))
      /\ ~KeepsRanges => Without(index) = <<>>
  BY <1>1, RemovedEntry
<1>6. KeepsRanges => Lists(ranges', block', live')
  <2>1. block \in [Ids -> Blocks] /\ live \in SUBSET Ids
    BY DEF TraceType
  <2>2. ASSUME KeepsRanges
        PROVE  Lists(Without(index), [block EXCEPT ![index] = b], live \ {index})
    <3>. HIDE DEF Without
    <3>. QED BY <1>4, <1>5, <2>1, <2>2, ListWithoutEntry
  <2>. QED BY <1>3, <2>2
<1>7. TraceType'
  BY <1>2, <1>3, <1>4, <1>5 DEF TraceType
<1>8. Placed'
  BY <1>3 DEF Placed, TraceType, Accepted, Misplaced
<1>9. Listed'
  BY <1>3, <1>5, <1>6 DEF Listed, KeepsRanges, main
<1>. QED BY <1>7, <1>8, <1>9

\* free(NULL) is given no block.
LEMMA FreeNullEval ==
  ASSUME EvalInv, FreeNull
  PROVE  EvalInv'
<1>1. /\ UNCHANGED <<main, at, block, ranges, live>>
      /\ \E h \in {NULL} \cup CellsOf(live) :
           malloc_error(CheckedAll, h # NULL) /\ mem' = Hit(mem, [hit |-> h])
  BY DEF FreeNull
<1>2. faults' \in Nat /\ reported' \in BOOLEAN /\ DOMAIN mem' = Addresses
  BY <1>1, MallocError DEF EvalInv, Hit, TraceType
<1>3. TraceType'
  BY <1>1, <1>2 DEF EvalInv, TraceType
<1>4. Placed'
  BY <1>1 DEF EvalInv, Placed, Accepted, Misplaced
<1>5. Listed'
  BY <1>1 DEF EvalInv, Listed, KeepsRanges, main, Lists, Nested
<1>. QED BY <1>3, <1>4, <1>5 DEF EvalInv

\* Before mm_init the trace has been set up anew.
Fresh == at = "mm_init" => live = {} /\ ranges = <<>> /\ faults = 0 /\ reported = FALSE

\* reinit_trace and clear_ranges leave nothing of the trace before.
LEMMA ReinitializedEval ==
  ASSUME Reinitialized
  PROVE  /\ TraceType' /\ live' = {} /\ ranges' = <<>> /\ faults' = 0 /\ reported' = FALSE
<1>. Unused \in Blocks
  BY DEF Blocks, Unused, NULL
<1>1. /\ block' = [j \in Ids |-> Unused] /\ mem' = [a \in Addresses |-> NoByte]
      /\ ranges' = <<>> /\ live' = {} /\ faults' = 0 /\ reported' = FALSE
  BY DEF Reinitialized
<1>2. block' \in [Ids -> Blocks] /\ DOMAIN mem' = Addresses
  BY <1>1
<1>3. ranges' \in Seq(Entries) /\ live' \in SUBSET Ids /\ faults' \in Nat
  BY <1>1
<1>4. reported' \in BOOLEAN
  BY <1>1
<1>. QED BY <1>1, <1>2, <1>3, <1>4 DEF TraceType

\* Once eval_mm_valid has returned, only the types count.
LEMMA NotEvaluating ==
  ASSUME TraceType', at' \notin {"valid", "mm_init"}
  PROVE  EvalInv' /\ Fresh'
BY DEF EvalInv, Placed, Listed, Fresh

\* A request of eval_mm_util changes a size.
LEMMA UtilKeepsTrace ==
  ASSUME TraceType, NEW index \in Ids,
         UtilAlloc(index) \/ UtilRealloc(index) \/ UtilFree(index)
  PROVE  TraceType' /\ at' = "util"
<1>1. PICK size, ids : /\ block' = [block EXCEPT ![index].size = size] /\ live' = ids
                       /\ size \in Nat /\ ids \subseteq Ids
                       /\ UNCHANGED <<at, ranges, mem, faults, reported>>
  <2>1. CASE UtilAlloc(index)
    <3>1. PICK size \in Sizes : Tallied(index, size, size, live \cup {index})
      BY <2>1 DEF UtilAlloc
    <3>2. size \in Nat /\ live \cup {index} \subseteq Ids
      BY MdriverAssumption DEF TraceType
    <3>. QED BY <3>1, <3>2 DEF Tallied
  <2>2. CASE UtilRealloc(index)
    <3>1. PICK size \in Sizes \cup {0} :
            Tallied(index, size, Growth(size, block[index].size), live)
      BY <2>2 DEF UtilRealloc
    <3>2. size \in Nat /\ live \subseteq Ids
      BY MdriverAssumption DEF TraceType
    <3>. QED BY <3>1, <3>2 DEF Tallied
  <2>3. CASE UtilFree(index)
    <3>1. Tallied(index, block[index].size, -block[index].size, live \ {index})
      BY <2>3 DEF UtilFree
    <3>2. block[index].size \in Nat /\ live \ {index} \subseteq Ids
      BY DEF TraceType, Blocks
    <3>. QED BY <3>1, <3>2 DEF Tallied
  <2>. QED BY <2>1, <2>2, <2>3
<1>2. block' \in [Ids -> Blocks]
  <2>1. [block[index] EXCEPT !.size = size] \in Blocks
    BY <1>1 DEF TraceType, Blocks
  <2>2. block' = [block EXCEPT ![index] = [block[index] EXCEPT !.size = size]]
    BY <1>1
  <2>. QED BY <2>1, <2>2 DEF TraceType
<1>3. at' = "util"
  BY <1>1 DEF UtilAlloc, UtilRealloc, UtilFree
<1>. QED BY <1>1, <1>2, <1>3 DEF TraceType

\* Every step keeps the blocks in the heap and the list in step with them.
LEMMA EvalStep ==
  ASSUME EvalInv, Fresh, [Next]_vars
  PROVE  EvalInv' /\ Fresh'
<1>. TraceType
  BY DEF EvalInv
<1>1. CASE UNCHANGED vars
  BY <1>1 DEF vars, main, trace, util, EvalInv, TraceType, Placed, Listed, Lists, Nested,
              Accepted, Misplaced, KeepsRanges, Fresh
<1>2. ASSUME NEW index \in Ids, Alloc(index) \/ Realloc(index) \/ Free(index) \/ FreeNull
      PROVE  EvalInv' /\ Fresh'
  <2>1. EvalInv'
    BY <1>2, AllocEval, ReallocEval, FreeEval, FreeNullEval
  <2>2. at' # "mm_init"
    BY <1>2, RequestOutcome DEF Fails, Returned
  <2>. QED BY <2>1, <2>2 DEF Fresh
<1>3. CASE FreeNull
  <2>1. EvalInv'
    BY <1>3, FreeNullEval
  <2>. QED BY <1>3, <2>1 DEF FreeNull, Fresh
<1>4. ASSUME NEW index \in Ids, UtilAlloc(index) \/ UtilRealloc(index) \/ UtilFree(index)
      PROVE  EvalInv' /\ Fresh'
  BY <1>4, UtilKeepsTrace, NotEvaluating
<1>5. CASE MmInit
  <2>1. CASE at' = "valid" /\ UNCHANGED <<main, errors, trace, util>>
    BY <1>5, <2>1 DEF MmInit, Fresh, EvalInv, TraceType, Placed, Listed, Lists, Nested,
                      trace
  <2>2. CASE Fails(TRUE)
    <3>1. at' # "mm_init"
      BY <2>2 DEF Fails, Returned
    <3>. QED BY <2>2, <3>1, FailsKeepsTrace DEF Fresh
  <2>. QED BY <1>5, <2>1, <2>2 DEF MmInit
<1>6. CASE EndOfTrace
  <2>1. at' \notin {"valid", "mm_init"}
    BY <1>6 DEF EndOfTrace, Returned
  <2>2. TraceType'
    BY <1>6, ReinitializedEval DEF EndOfTrace, TraceType, trace
  <2>. QED BY <2>1, <2>2, NotEvaluating
<1>7. CASE EndOfUtil \/ EndOfSpeed \/ (at \in {"util", "speed"} /\ app_error) \/ EndOfLibc
           \/ EndOfTests \/ PrintResults \/ Timeout
  <2>1. at' \notin {"valid", "mm_init"} /\ UNCHANGED trace
    BY <1>7 DEF EndOfUtil, EndOfSpeed, app_error, EndOfLibc, EndOfTests, PrintResults,
                Timeout
  <2>2. TraceType'
    BY <2>1 DEF TraceType, trace
  <2>. QED BY <2>1, <2>2, NotEvaluating
<1>8. CASE StartTrace
  <2>1. /\ TraceType' /\ live' = {} /\ ranges' = <<>> /\ faults' = 0 /\ reported' = FALSE
        /\ at' # "valid"
    BY <1>8, ReinitializedEval DEF StartTrace
  <2>. QED BY <2>1 DEF EvalInv, Placed, Listed, Fresh
<1>. QED BY <1>1, <1>2, <1>3, <1>4, <1>5, <1>6, <1>7, <1>8 DEF Next

\* The blocks and the list of ranges are as described in every reachable state.
LEMMA EvalInvariance == Spec => [](EvalInv /\ Fresh)
<1>1. Init => EvalInv /\ Fresh
  <2> SUFFICES ASSUME Init PROVE EvalInv /\ Fresh
    OBVIOUS
  <2>0. Unused \in Blocks
    BY DEF Blocks, Unused, NULL
  <2>1. /\ block = [j \in Ids |-> Unused] /\ mem = [a \in Addresses |-> NoByte]
        /\ ranges = <<>> /\ live = {} /\ faults = 0 /\ reported = FALSE
    BY DEF Init
  <2>2. block \in [Ids -> Blocks] /\ DOMAIN mem = Addresses
    BY <2>0, <2>1
  <2>3. ranges \in Seq(Entries) /\ live \in SUBSET Ids /\ faults \in Nat
    BY <2>1
  <2>4. reported \in BOOLEAN
    BY <2>1
  <2>5. TraceType
    BY <2>2, <2>3, <2>4 DEF TraceType
  <2>6. at # "valid"
    BY DEF Init
  <2>. QED BY <2>1, <2>5, <2>6 DEF EvalInv, Placed, Listed, Fresh
<1>2. EvalInv /\ Fresh /\ [Next]_vars => EvalInv' /\ Fresh'
  BY EvalStep
<1>. QED BY <1>1, <1>2, PTL DEF Spec

\* The list of ranges is the payloads of the trace, and of two that overlap
\* the later one encloses the earlier one, whatever the allocator answers: that
\* is the one overlap add_range does not notice.
THEOREM RangesAreSound == Spec => []RangesSound
<1>1. ASSUME EvalInv, at = "valid", KeepsRanges
      PROVE  /\ Len(ranges) = Cardinality(ToSet(ranges))
             /\ ToSet(ranges) =
                  {[lo |-> block[j].at, hi |-> block[j].at + block[j].size - 1, index |-> j] :
                     j \in {l \in live : block[l].size > 0}}
             /\ \A m, n \in DOMAIN ranges :
                  m < n /\ ranges[m].lo <= ranges[n].hi /\ ranges[n].lo <= ranges[m].hi
                    => ranges[m].lo < ranges[n].lo /\ ranges[n].hi < ranges[m].hi
  <2>1. /\ ranges \in Seq(Entries) /\ DOMAIN ranges = 1 .. Len(ranges) /\ Len(ranges) \in Nat
        /\ Lists(ranges, block, live) /\ Nested(ranges)
    BY <1>1 DEF EvalInv, TraceType, Listed
  <2>2. Len(ranges) = Cardinality(ToSet(ranges))
    <3>1. ranges \in Bijection(1 .. Len(ranges), ToSet(ranges))
      <4>1. ranges \in [1 .. Len(ranges) -> ToSet(ranges)]
        BY <2>1 DEF ToSet
      <4>2. \A m, n \in 1 .. Len(ranges) : ranges[m] = ranges[n] => m = n
        BY <2>1 DEF Lists
      <4>3. \A e \in ToSet(ranges) : \E n \in 1 .. Len(ranges) : ranges[n] = e
        BY <2>1 DEF ToSet
      <4>. QED BY <4>1, <4>2, <4>3 DEF Bijection, Injection, Surjection, IsInjective
    <3>2. ExistsBijection(1 .. Len(ranges), ToSet(ranges))
      BY <3>1 DEF ExistsBijection
    <3>. QED BY <2>1, <3>2, FS_CountingElements
  <2>3. ToSet(ranges) = {EntryOf(block[j], j) : j \in {l \in live : block[l].size > 0}}
    <3>1. ASSUME NEW n \in 1 .. Len(ranges)
          PROVE  \E j \in live : block[j].size > 0 /\ ranges[n] = EntryOf(block[j], j)
      BY <2>1, ListEntry
    <3>2. ASSUME NEW j \in live, block[j].size > 0
          PROVE  \E n \in 1 .. Len(ranges) : ranges[n] = EntryOf(block[j], j)
      <4>1. PICK n \in 1 .. Len(ranges) : ranges[n].index = j
        BY <2>1, <3>2 DEF Lists
      <4>2. ranges[n] = EntryOf(block[ranges[n].index], ranges[n].index)
        BY <2>1, ListEntry
      <4>. QED BY <4>1, <4>2
    <3>. QED BY <2>1, <3>1, <3>2, Zenon DEF ToSet
  <2>4. \A m, n \in DOMAIN ranges :
          m < n /\ ranges[m].lo <= ranges[n].hi /\ ranges[n].lo <= ranges[m].hi
            => ranges[m].lo < ranges[n].lo /\ ranges[n].hi < ranges[m].hi
    BY <2>1, Zenon DEF Nested
  <2>5. {EntryOf(block[j], j) : j \in {l \in live : block[l].size > 0}}
          = {[lo |-> block[j].at, hi |-> block[j].at + block[j].size - 1, index |-> j] :
               j \in {l \in live : block[l].size > 0}}
    BY DEF EntryOf
  <2>. QED BY <2>2, <2>3, <2>4, <2>5
<1>2. EvalInv /\ Fresh => RangesSound
  BY <1>1 DEF RangesSound
<1>. QED BY <1>2, EvalInvariance, PTL

(***************************************************************************)
(* The data of the blocks.                                                 *)
(***************************************************************************)
ByteOf(b, j, a) == <<j, b.base, a - b.at>>

\* Block j still has the data the driver gave it.
Intact(m, b, j) == \A a \in Extent(b) : m[a] = ByteOf(b, j, a)

\* As long as no call went wrong, all blocks have their data; afterwards one
\* block has lost some, unless an error was reported.
DataInv ==
  /\ reported => faults > 0
  /\ at = "valid" /\ opt.debug_mode # "none" =>
       /\ faults = 0 => \A j \in live : Intact(mem, block[j], j)
       /\ faults > 0 /\ ~reported => \E j \in live : ~Intact(mem, block[j], j)

\* No byte of one block is a byte of another.
LEMMA BytesDiffer ==
  ASSUME NEW b, NEW j, NEW a
  PROVE  /\ NoByte # ByteOf(b, j, a)
         /\ \A b2, j2, a2 : j # j2 => ByteOf(b, j, a) # ByteOf(b2, j2, a2)
<1>1. Len(NoByte) = 0 /\ Len(ByteOf(b, j, a)) = 3
  BY DEF NoByte, ByteOf
<1>2. \A b2, j2, a2 : ByteOf(b2, j2, a2)[1] = j2
  BY DEF ByteOf
<1>. QED BY <1>1, <1>2

\* check_index finds out whether a block has its data.
LEMMA CheckIndex ==
  ASSUME NEW m, NEW b, b.at \in Nat, b.size \in Nat, NEW index
  PROVE  check_index(m, b, index) <=> opt.debug_mode # "none" /\ ~Intact(m, b, index)
<1>1. DOMAIN Data(b, index) = 0 .. b.size - 1
  BY DEF Data
<1>2. \A k \in 0 .. b.size - 1 :
        /\ b.at + k \in Extent(b)
        /\ Data(b, index)[k] = ByteOf(b, index, b.at + k)
  <2> TAKE k \in 0 .. b.size - 1
  <2>1. (b.at + k) - b.at = k
    OBVIOUS
  <2>. QED BY <2>1 DEF Data, ByteOf, Extent
<1>3. \A a \in Extent(b) : a - b.at \in 0 .. b.size - 1 /\ b.at + (a - b.at) = a
  BY DEF Extent
<1>4. (\E k \in 0 .. b.size - 1 : m[b.at + k] # Data(b, index)[k]) <=> ~Intact(m, b, index)
  <2>1. ASSUME NEW k \in 0 .. b.size - 1, m[b.at + k] # Data(b, index)[k]
        PROVE  ~Intact(m, b, index)
    BY <1>2, <2>1, Zenon DEF Intact
  <2>2. ASSUME NEW a \in Extent(b), m[a] # ByteOf(b, index, a)
        PROVE  \E k \in 0 .. b.size - 1 : m[b.at + k] # Data(b, index)[k]
    <3>1. a - b.at \in 0 .. b.size - 1 /\ b.at + (a - b.at) = a
      BY <1>3
    <3>2. Data(b, index)[a - b.at] = ByteOf(b, index, a)
      BY <1>2, <3>1
    <3>. QED BY <2>2, <3>1, <3>2
  <2>. QED BY <2>1, <2>2 DEF Intact
<1>. QED BY <1>1, <1>4 DEF check_index

\* A byte is lost when it is given to another block or overwritten, and does
\* not come back; otherwise it stays.
LEMMA BytesOfOthers ==
  ASSUME NEW j, NEW b1, NEW index, index # j, NEW b, NEW h, NEW m1, NEW m2,
         \A a \in Extent(b1) :
           m2[a] = IF a \in Extent(b) THEN ByteOf(b, index, a)
                   ELSE IF h # NULL /\ a = h THEN NoByte ELSE m1[a]
  PROVE  /\ ~Intact(m1, b1, j) => ~Intact(m2, b1, j)
         /\ Extent(b1) \cap Extent(b) # {} => ~Intact(m2, b1, j)
         /\ h # NULL /\ h \in Extent(b1) => ~Intact(m2, b1, j)
         /\ h = NULL /\ Extent(b1) \cap Extent(b) = {} /\ Intact(m1, b1, j)
              => Intact(m2, b1, j)
<1>1. ASSUME NEW a \in Extent(b1), m2[a] # m1[a] \/ m1[a] # ByteOf(b1, j, a)
      PROVE  m2[a] # ByteOf(b1, j, a)
  BY <1>1, BytesDiffer
<1>2. ASSUME NEW a \in Extent(b1), a \in Extent(b) \/ (h # NULL /\ a = h)
      PROVE  m2[a] # ByteOf(b1, j, a)
  BY <1>2, BytesDiffer
<1>. QED BY <1>1, <1>2 DEF Intact

\* What the driver checks before a request finds nothing when nothing is lost.
LEMMA CheckedAllFinds ==
  ASSUME EvalInv, at = "valid", CheckedAll
  PROVE  opt.debug_mode # "none" /\ \E j \in live : ~Intact(mem, block[j], j)
<1>1. PICK n \in DOMAIN ranges : check_index(mem, block[ranges[n].index], ranges[n].index)
  BY DEF CheckedAll
<1>2. opt.debug_mode # "none"
  BY <1>1 DEF check_index
<1>3. KeepsRanges
  BY <1>1, <1>2 DEF EvalInv, Listed, KeepsRanges
<1>4. ranges[n].index \in live
  BY <1>1, <1>3 DEF EvalInv, Listed, Lists, TraceType
<1>5. block[ranges[n].index] \in Blocks
  BY <1>4 DEF EvalInv, TraceType
<1>6. ~Intact(mem, block[ranges[n].index], ranges[n].index)
  BY <1>1, <1>5, CheckIndex DEF Blocks
<1>. QED BY <1>2, <1>4, <1>6

\* A block in a good place is accepted: only what is wrong is rejected.
LEMMA GoodIsAccepted ==
  ASSUME EvalInv, at = "valid", NEW size \in Nat, size > 0, NEW index, NEW p \in Nat,
         GoodPlace(size, index, p), NEW rs \in Seq(Entries),
         KeepsRanges => Lists(rs, block, live \ {index})
  PROVE  LET b == [at |-> p, size |-> size]
         IN  p # NULL /\ ~Misplaced(b) /\ ~(KeepsRanges /\ Overlaps(rs, b))
<1>. DEFINE b == [at |-> p, size |-> size]
<1>1. ~Misplaced(b) /\ Extent(b) \cap CellsOf(live \ {index}) = {}
  <2>1. size # 0
    OBVIOUS
  <2>. QED BY <2>1, Zenon DEF GoodPlace, Right
<1>2. p # NULL
  BY <1>1, HeapHasAddresses DEF Misplaced
<1>3. {b.at, b.at + b.size - 1} \subseteq Extent(b)
  BY DEF Extent
<1>. HIDE DEF b
<1>4. ASSUME KeepsRanges, NEW n \in DOMAIN rs
      PROVE  {b.at, b.at + b.size - 1} \cap (rs[n].lo .. rs[n].hi) = {}
  <2>1. n \in 1 .. Len(rs)
    BY <1>4
  <2>2. rs[n].index \in live \ {index} /\ rs[n] = EntryOf(block[rs[n].index], rs[n].index)
    BY <1>4, <2>1, ListEntry
  <2>3. PICK j \in live \ {index} : rs[n] = EntryOf(block[j], j)
    BY <2>2
  <2>4. rs[n].lo .. rs[n].hi = Extent(block[j])
    BY <2>3 DEF EntryOf, Extent
  <2>. QED BY <1>1, <1>3, <2>4 DEF CellsOf
<1>5. ~(KeepsRanges /\ Overlaps(rs, b))
  BY <1>4, Zenon DEF Overlaps
<1>. QED BY <1>1, <1>2, <1>5 DEF b

\* The byte at a after a request that fills block b with index's data, while
\* the allocator overwrites the byte at h.
Became(b, index, h, a) ==
  IF a \in Extent(b) THEN ByteOf(b, index, a)
  ELSE IF h # NULL /\ a = h THEN NoByte ELSE mem[a]

\* A request does nothing else to the blocks it is not about ...
LeavesOthers(b, index, h) ==
  /\ live' \ {index} = live \ {index}
  /\ \A j \in live \ {index} :
       /\ block'[j] = block[j]
       /\ \A a \in Extent(block[j]) : mem'[a] = Became(b, index, h, a)

\* ... and is reported, or has done harm to one of them, if it went wrong.
FindsOrHarms(b, index, h, found, wrong) ==
  /\ found => wrong \/ \E j \in live : ~Intact(mem, block[j], j)
  /\ ~found /\ index \in live => Intact(mem, block[index], index)
  /\ wrong /\ ~found =>
       \E j \in live \ {index} :
         Extent(block[j]) \cap Extent(b) # {} \/ (h # NULL /\ h \in Extent(block[j]))
  /\ ~wrong => h = NULL /\ \A j \in live \ {index} : Extent(block[j]) \cap Extent(b) = {}

\* Such a request keeps the invariant.
LEMMA RequestKeepsData ==
  ASSUME EvalInv, DataInv, at = "valid", at' = "valid", opt' = opt,
         NEW index, NEW b, NEW h, NEW found \in BOOLEAN, NEW wrong \in BOOLEAN,
         malloc_error(found, wrong), found => opt.debug_mode # "none",
         opt.debug_mode # "none" =>
           /\ LeavesOthers(b, index, h) /\ FindsOrHarms(b, index, h, found, wrong)
           /\ index \in live' => Intact(mem', block'[index], index)
  PROVE  DataInv'
<1>1. /\ faults \in Nat /\ faults' \in Nat /\ faults' >= faults
      /\ reported' = (reported \/ found) /\ reported \in BOOLEAN
      /\ ~wrong => faults' = faults
      /\ wrong => faults' = faults + 1
  <2>1. TraceType
    BY DEF EvalInv
  <2>. QED BY <2>1, MallocError DEF TraceType
<1>2. reported' => faults' > 0
  <2>1. CASE reported
    BY <1>1, <2>1 DEF DataInv
  <2>2. CASE found
    <3>1. wrong \/ \E j \in live : ~Intact(mem, block[j], j)
      BY <2>2 DEF FindsOrHarms
    <3>2. wrong \/ faults # 0
      BY <2>2, <3>1 DEF DataInv
    <3>. QED BY <1>1, <3>2
  <2>. QED BY <1>1, <2>1, <2>2
<1>3. ASSUME opt.debug_mode # "none"
      PROVE  /\ faults' = 0 => \A j \in live' : Intact(mem', block'[j], j)
             /\ faults' > 0 /\ ~reported' => \E j \in live' : ~Intact(mem', block'[j], j)
  <2>1. LeavesOthers(b, index, h) /\ FindsOrHarms(b, index, h, found, wrong)
    BY <1>3
  <2>2. ASSUME NEW j \in live \ {index}
        PROVE  /\ j \in live' /\ block'[j] = block[j]
               /\ ~Intact(mem, block[j], j) => ~Intact(mem', block[j], j)
               /\ Extent(block[j]) \cap Extent(b) # {} => ~Intact(mem', block[j], j)
               /\ h # NULL /\ h \in Extent(block[j]) => ~Intact(mem', block[j], j)
               /\ h = NULL /\ Extent(block[j]) \cap Extent(b) = {}
                    /\ Intact(mem, block[j], j) => Intact(mem', block[j], j)
    <3>1. j \in live' /\ block'[j] = block[j] /\ index # j
      BY <2>1 DEF LeavesOthers
    <3>2. \A a \in Extent(block[j]) :
            mem'[a] = IF a \in Extent(b) THEN ByteOf(b, index, a)
                      ELSE IF h # NULL /\ a = h THEN NoByte ELSE mem[a]
      BY <2>1 DEF LeavesOthers, Became
    <3>3. DEFINE b1 == block[j]
                 m2 == mem'
    <3>. HIDE DEF b1, m2
    <3>4. \A a \in Extent(b1) :
            m2[a] = IF a \in Extent(b) THEN ByteOf(b, index, a)
                    ELSE IF h # NULL /\ a = h THEN NoByte ELSE mem[a]
      BY <3>2 DEF b1, m2
    <3>5. /\ ~Intact(mem, b1, j) => ~Intact(m2, b1, j)
          /\ Extent(b1) \cap Extent(b) # {} => ~Intact(m2, b1, j)
          /\ h # NULL /\ h \in Extent(b1) => ~Intact(m2, b1, j)
          /\ h = NULL /\ Extent(b1) \cap Extent(b) = {} /\ Intact(mem, b1, j)
               => Intact(m2, b1, j)
      BY <3>1, <3>4, BytesOfOthers
    <3>. QED BY <3>1, <3>5, Zenon DEF b1, m2
  <2>3. ASSUME faults' = 0, NEW j \in live'
        PROVE  Intact(mem', block'[j], j)
    <3>1. faults = 0 /\ ~wrong
      BY <1>1, <2>3
    <3>2. CASE j = index
      BY <1>3, <3>2
    <3>3. CASE j # index
      <4>1. j \in live \ {index}
        BY <2>1, <3>3 DEF LeavesOthers
      <4>2. Intact(mem, block[j], j) /\ h = NULL /\ Extent(block[j]) \cap Extent(b) = {}
        BY <1>3, <2>1, <3>1, <4>1 DEF FindsOrHarms, DataInv
      <4>. QED BY <2>2, <4>1, <4>2
    <3>. QED BY <3>2, <3>3
  <2>4. ASSUME faults' > 0, ~reported'
        PROVE  \E j \in live' : ~Intact(mem', block'[j], j)
    <3>1. ~found /\ ~reported
      BY <1>1, <2>4
    <3>2. CASE wrong
      <4>1. PICK j \in live \ {index} :
              Extent(block[j]) \cap Extent(b) # {} \/ (h # NULL /\ h \in Extent(block[j]))
        BY <2>1, <3>1, <3>2 DEF FindsOrHarms
      <4>. QED BY <2>2, <4>1
    <3>3. CASE ~wrong
      <4>1. faults > 0
        BY <1>1, <2>4, <3>3
      <4>2. PICK j \in live : ~Intact(mem, block[j], j)
        BY <1>3, <3>1, <4>1 DEF DataInv
      <4>3. j # index
        BY <2>1, <3>1, <4>2 DEF FindsOrHarms
      <4>. QED BY <2>2, <4>2, <4>3
    <3>. QED BY <3>2, <3>3
  <2>. QED BY <2>3, <2>4
<1>. QED BY <1>2, <1>3 DEF DataInv

\* What the allocator overwrites.
LEMMA HitByte ==
  ASSUME NEW m, DOMAIN m = Addresses, NEW r, NEW a \in Addresses
  PROVE  Hit(m, r)[a] = IF r.hit # NULL /\ a = r.hit THEN NoByte ELSE m[a]
BY DEF Hit

\* What the driver fills block index with, and what it leaves alone.
LEMMA FilledBytes ==
  ASSUME EvalInv, at = "valid", opt.debug_mode # "none",
         NEW index \in Ids, NEW b \in Blocks, Accepted(b), NEW rs, NEW m,
         Done(index, b, rs, randomize_block(m, b, index), live \cup {index})
  PROVE  /\ Intact(mem', b, index) /\ block'[index] = b
         /\ \A j \in live \ {index} :
              /\ block'[j] = block[j]
              /\ \A a \in Extent(block[j]) :
                   mem'[a] = IF a \in Extent(b) THEN ByteOf(b, index, a) ELSE m[a]
<1>1. /\ block' = [block EXCEPT ![index] = b]
      /\ mem' = Reused(randomize_block(m, b, index), block', live \cup {index})
      /\ block \in [Ids -> Blocks] /\ live \subseteq Ids
  BY DEF Done, EvalInv, TraceType
<1>2. block'[index] = b /\ \A j \in live \ {index} : block'[j] = block[j]
  BY <1>1
<1>3. ASSUME NEW j \in live \cup {index}, NEW a \in Extent(block'[j]), a \in Addresses
      PROVE  mem'[a] = IF a \in Extent(b) THEN ByteOf(b, index, a) ELSE m[a]
  <2>1. mem'[a] = randomize_block(m, b, index)[a]
    BY <1>1, <1>3 DEF Reused
  <2>2. randomize_block(m, b, index)[a] =
          IF a \in Extent(b) THEN Data(b, index)[a - b.at] ELSE m[a]
    BY <1>3 DEF randomize_block
  <2>3. a \in Extent(b) => Data(b, index)[a - b.at] = ByteOf(b, index, a)
    BY DEF Data, ByteOf, Extent, Blocks
  <2>. QED BY <2>1, <2>2, <2>3
<1>4. Extent(b) \subseteq Addresses
  BY AcceptedExtent DEF Blocks
<1>5. Intact(mem', b, index)
  BY <1>2, <1>3, <1>4 DEF Intact
<1>6. ASSUME NEW j \in live \ {index} PROVE Extent(block[j]) \subseteq Addresses
  <2>1. block[j] \in Blocks /\ Accepted(block[j])
    BY <1>1 DEF EvalInv, Placed
  <2>. QED BY <2>1, AcceptedExtent DEF Blocks
<1>. QED BY <1>2, <1>3, <1>5, <1>6

\* An answer that was accepted, and has not spoilt what was copied, is right, or
\* does harm to another block.
LEMMA AnswerHarms ==
  ASSUME EvalInv, at = "valid", NEW size \in Nat, NEW index,
         NEW copied \in Nat, copied <= size, NEW a \in Answers(size, index, copied),
         NEW b \in Blocks, b.at = a.p, b.size = size, Accepted(b)
  PROVE  /\ a.wrong \in BOOLEAN
         /\ a.wrong /\ ~(a.hit # NULL /\ a.hit \in a.p .. a.p + copied - 1) =>
              \E j \in live \ {index} :
                \/ Extent(block[j]) \cap Extent(b) # {}
                \/ a.hit # NULL /\ a.hit \in Extent(block[j])
         /\ ~a.wrong =>
              a.hit = NULL /\ \A j \in live \ {index} : Extent(block[j]) \cap Extent(b) = {}
<1>. DEFINE new == [at |-> a.p, size |-> size]
<1>1. /\ a.p \in Nat
      /\ \/ a.hit = NULL /\ a.wrong = ~GoodPlace(size, index, a.p)
         \/ /\ a.wrong = TRUE /\ GoodPlace(size, index, a.p)
            /\ a.hit \in CellsOf(live \ {index}) \cup (a.p .. a.p + copied - 1)
  BY AnswerType, Zenon
<1>2. a.wrong \in BOOLEAN
  BY <1>1
<1>3. Extent(new) = Extent(b) /\ (Misplaced(new) <=> Misplaced(b))
  BY DEF Extent, Misplaced
<1>4. GoodPlace(size, index, a.p) <=> Extent(b) \cap CellsOf(live \ {index}) = {}
  <2>1. CASE size = 0
    <3>1. Extent(b) = {} /\ a.p = NULL
      BY <2>1 DEF Extent, Blocks, Accepted
    <3>. QED BY <2>1, <3>1 DEF GoodPlace
  <2>2. CASE size # 0
    <3>1. ~Misplaced(new)
      BY <1>3, <2>2 DEF Accepted
    <3>. HIDE DEF new
    <3>2. GoodPlace(size, index, a.p) <=> Right(new, index)
      BY <2>2, Zenon DEF GoodPlace, new
    <3>. QED BY <1>3, <3>1, <3>2, Zenon DEF Right
  <2>. QED BY <2>1, <2>2
<1>. HIDE DEF new
<1>5. \A x \in CellsOf(live \ {index}) :
        \E j \in live \ {index} : x \in Extent(block[j])
  BY DEF CellsOf
<1>6. ASSUME NEW j \in live \ {index}
      PROVE  Extent(block[j]) \subseteq CellsOf(live \ {index}) /\ NULL \notin Extent(block[j])
  <2>1. block[j] \in Blocks /\ Accepted(block[j])
    BY DEF EvalInv, Placed, TraceType
  <2>2. NULL \notin Extent(block[j])
    BY <2>1, AcceptedExtent DEF Blocks
  <2>. QED BY <2>2 DEF CellsOf
<1>7. ASSUME a.wrong, ~(a.hit # NULL /\ a.hit \in a.p .. a.p + copied - 1)
      PROVE  \E j \in live \ {index} :
               \/ Extent(block[j]) \cap Extent(b) # {}
               \/ a.hit # NULL /\ a.hit \in Extent(block[j])
  <2>1. CASE ~GoodPlace(size, index, a.p)
    <3>1. PICK x \in Extent(b) : x \in CellsOf(live \ {index})
      BY <1>4, <2>1
    <3>. QED BY <1>5, <3>1
  <2>2. CASE GoodPlace(size, index, a.p)
    <3>1. a.hit \in CellsOf(live \ {index}) \cup (a.p .. a.p + copied - 1)
      BY <1>1, <1>7, <2>2
    <3>2. CASE a.hit \in CellsOf(live \ {index})
      <4>1. PICK j \in live \ {index} : a.hit \in Extent(block[j])
        BY <1>5, <3>2
      <4>. QED BY <1>6, <4>1
    <3>3. CASE a.hit = NULL /\ a.hit \notin CellsOf(live \ {index})
      <4>1. NULL \in a.p .. a.p + copied - 1
        BY <3>1, <3>3
      <4>2. copied > 0 /\ a.p = 0
        BY <1>1, <4>1 DEF NULL
      <4>3. size > 0
        BY <4>2
      <4>. QED BY <4>2, <4>3, AcceptedExtent DEF NULL
    <3>. QED BY <1>7, <3>1, <3>2, <3>3
  <2>. QED BY <2>1, <2>2
<1>8. ASSUME ~a.wrong
      PROVE  a.hit = NULL /\ \A j \in live \ {index} : Extent(block[j]) \cap Extent(b) = {}
  <2>1. a.hit = NULL /\ GoodPlace(size, index, a.p)
    BY <1>1, <1>8, Zenon
  <2>. QED BY <1>4, <1>6, <2>1
<1>. QED BY <1>2, <1>7, <1>8

\* A failure reported for a call that went wrong.
LEMMA FailureKeepsData ==
  ASSUME EvalInv, DataInv, Fails(TRUE)
  PROVE  DataInv' /\ faults' > 0
<1>1. /\ at' # "valid" /\ malloc_error(TRUE, TRUE) /\ TraceType
  BY DEF Fails, Returned, EvalInv
<1>2. faults' > 0
  BY <1>1 DEF malloc_error, TraceType
<1>. QED BY <1>1, <1>2 DEF DataInv

\* A malloc that is right is accepted, and otherwise reported or harmful.
LEMMA AllocData ==
  ASSUME EvalInv, DataInv, NEW index \in Ids, Alloc(index)
  PROVE  DataInv' /\ (at' # "valid" => faults' > 0)
<1>1. /\ TraceType /\ at = "valid" /\ index \notin live
      /\ live \ {index} = live /\ Sizes \subseteq Nat \ {0}
  BY MdriverAssumption DEF EvalInv, Alloc
<1>2. PICK size \in Sizes : \E a \in Answers(size, index, 0) :
        \/ /\ Fails(a.wrong)
           /\ \/ a.p = NULL
              \/ Misplaced([at |-> a.p, size |-> size])
              \/ KeepsRanges /\ Overlaps(ranges, [at |-> a.p, size |-> size])
        \/ \E b \in Blocks :
             /\ b.at = a.p /\ b.size = size /\ size > 0 /\ Accepted(b)
             /\ KeepsRanges => ~Overlaps(ranges, b)
             /\ malloc_error(CheckedAll, a.wrong)
             /\ Done(index, b, add_range(ranges, b, index),
                     randomize_block(Hit(mem, a), b, index), live \cup {index})
  BY <1>1, AllocOutcome, Zenon
<1>3. PICK a \in Answers(size, index, 0) :
        \/ /\ Fails(a.wrong)
           /\ \/ a.p = NULL
              \/ Misplaced([at |-> a.p, size |-> size])
              \/ KeepsRanges /\ Overlaps(ranges, [at |-> a.p, size |-> size])
        \/ \E b \in Blocks :
             /\ b.at = a.p /\ b.size = size /\ size > 0 /\ Accepted(b)
             /\ KeepsRanges => ~Overlaps(ranges, b)
             /\ malloc_error(CheckedAll, a.wrong)
             /\ Done(index, b, add_range(ranges, b, index),
                     randomize_block(Hit(mem, a), b, index), live \cup {index})
  BY <1>2, Zenon
<1>4. /\ a.p \in Nat
      /\ \/ a.hit = NULL /\ a.wrong = ~GoodPlace(size, index, a.p)
         \/ a.wrong = TRUE
  BY AnswerType, Zenon
<1>5. CASE /\ Fails(a.wrong)
           /\ \/ a.p = NULL
              \/ Misplaced([at |-> a.p, size |-> size])
              \/ KeepsRanges /\ Overlaps(ranges, [at |-> a.p, size |-> size])
  <2>1. ranges \in Seq(Entries) /\ (KeepsRanges => Lists(ranges, block, live \ {index}))
    BY <1>1 DEF EvalInv, TraceType, Listed
  <2>2. size \in Nat /\ size > 0
    BY <1>1
  <2>3. ~GoodPlace(size, index, a.p)
    BY <1>1, <1>4, <1>5, <2>1, <2>2, GoodIsAccepted
  <2>4. a.wrong = TRUE
    BY <1>4, <2>3, Zenon
  <2>. QED BY <1>5, <2>4, FailureKeepsData
<1>6. ASSUME NEW b \in Blocks, b.at = a.p, b.size = size, Accepted(b),
             malloc_error(CheckedAll, a.wrong),
             Done(index, b, add_range(ranges, b, index),
                  randomize_block(Hit(mem, a), b, index), live \cup {index})
      PROVE  DataInv' /\ at' = "valid"
  <2>1. at' = "valid" /\ opt' = opt /\ live' = live \cup {index}
    BY <1>1, <1>6 DEF Done, main
  <2>2. size \in Nat /\ 0 <= size /\ a.p .. a.p + 0 - 1 = {}
    BY <1>1, <1>4
  <2>3. /\ a.wrong \in BOOLEAN
        /\ a.wrong =>
             \E j \in live \ {index} :
               \/ Extent(block[j]) \cap Extent(b) # {}
               \/ a.hit # NULL /\ a.hit \in Extent(block[j])
        /\ ~a.wrong =>
             a.hit = NULL /\ \A j \in live \ {index} : Extent(block[j]) \cap Extent(b) = {}
    BY <1>1, <1>6, <2>2, AnswerHarms
  <2>4. CheckedAll \in BOOLEAN /\ (CheckedAll => opt.debug_mode # "none")
    BY Zenon DEF CheckedAll
  <2>5. ASSUME opt.debug_mode # "none"
        PROVE  /\ LeavesOthers(b, index, a.hit)
               /\ FindsOrHarms(b, index, a.hit, CheckedAll, a.wrong)
               /\ Intact(mem', block'[index], index)
    <3>1. /\ Intact(mem', b, index) /\ block'[index] = b
          /\ \A j \in live \ {index} :
               /\ block'[j] = block[j]
               /\ \A x \in Extent(block[j]) :
                    mem'[x] = IF x \in Extent(b) THEN ByteOf(b, index, x) ELSE Hit(mem, a)[x]
      BY <1>1, <1>6, <2>5, FilledBytes
    <3>2. ASSUME NEW j \in live \ {index}, NEW x \in Extent(block[j])
          PROVE  Hit(mem, a)[x] = IF a.hit # NULL /\ x = a.hit THEN NoByte ELSE mem[x]
      <4>1. block[j] \in Blocks /\ Accepted(block[j]) /\ DOMAIN mem = Addresses
        BY <1>1 DEF EvalInv, Placed, TraceType
      <4>2. x \in Addresses
        BY <4>1, AcceptedExtent DEF Blocks
      <4>. QED BY <4>1, <4>2, HitByte
    <3>3. LeavesOthers(b, index, a.hit)
      BY <1>1, <2>1, <3>1, <3>2 DEF LeavesOthers, Became
    <3>4. CheckedAll => \E j \in live : ~Intact(mem, block[j], j)
      BY <1>1, CheckedAllFinds
    <3>5. FindsOrHarms(b, index, a.hit, CheckedAll, a.wrong)
      BY <1>1, <2>3, <3>4 DEF FindsOrHarms
    <3>. QED BY <3>1, <3>3, <3>5
  <2>6. DataInv'
    BY <1>1, <1>6, <2>1, <2>3, <2>4, <2>5, RequestKeepsData
  <2>. QED BY <2>1, <2>6
<1>. QED BY <1>3, <1>5, <1>6

\* What realloc copies is in the new block; of a copy that has not been spoilt
\* the driver finds all data there.
LEMMA CopiedData ==
  ASSUME EvalInv, at = "valid", NEW index \in live, NEW size \in Nat,
         NEW a \in Answers(size, index, Kept(size, index)),
         NEW b \in Blocks, b.at = a.p, b.size = size, Accepted(b)
  PROVE  /\ Kept(size, index) \in Nat /\ Kept(size, index) <= size
         /\ \A x \in Addresses \ Extent(b) :
              MovedTo(a, index, size)[x] =
                IF a.hit # NULL /\ x = a.hit THEN NoByte ELSE mem[x]
         /\ a.hit = NULL /\ Intact(mem, block[index], index) =>
              Intact(MovedTo(a, index, size), MovedBlock(a, index, size), index)
         /\ a.hit # NULL /\ a.hit \in a.p .. a.p + Kept(size, index) - 1 =>
              ~Intact(MovedTo(a, index, size), MovedBlock(a, index, size), index)
         /\ MovedBlock(a, index, size).at \in Nat /\ MovedBlock(a, index, size).size \in Nat
<1>. DEFINE kept == Kept(size, index)
            old  == block[index]
            bm   == MovedBlock(a, index, size)
            m    == Copied(mem, old.at, a.p, kept)
<1>1. old \in Blocks /\ DOMAIN mem = Addresses /\ a.p \in Nat
  BY AnswerType, Zenon DEF EvalInv, TraceType
<1>2. kept \in Nat /\ kept <= size /\ kept <= old.size /\ kept = CheckedSize(old.size, size)
  BY <1>1, KeptIsSmaller DEF Kept, Blocks
<1>3. bm.at = a.p /\ bm.size = kept /\ bm.base = old.base
  BY <1>1, <1>2 DEF MovedBlock, Blocks
<1>. HIDE DEF kept, old, bm
<1>4. /\ a.p .. a.p + kept - 1 \subseteq Extent(b)
      /\ Extent(bm) = a.p .. a.p + kept - 1
      /\ Extent(b) \subseteq Addresses
  <2>1. Extent(b) \subseteq Addresses
    BY AcceptedExtent DEF Blocks
  <2>. QED BY <1>1, <1>2, <1>3, <2>1 DEF Extent
<1>5. /\ DOMAIN m = Addresses
      /\ \A x \in Addresses :
           m[x] = IF x \in a.p .. a.p + kept - 1 THEN mem[old.at + (x - a.p)] ELSE mem[x]
  BY DEF Copied
<1>. HIDE DEF m
<1>6. MovedTo(a, index, size) = Hit(m, a)
  BY DEF MovedTo, m, old, kept
<1>7. ASSUME NEW x \in Addresses \ Extent(b)
      PROVE  MovedTo(a, index, size)[x] =
               IF a.hit # NULL /\ x = a.hit THEN NoByte ELSE mem[x]
  <2>1. m[x] = mem[x]
    BY <1>4, <1>5
  <2>. QED BY <1>5, <1>6, <2>1, HitByte
<1>8. ASSUME a.hit = NULL, Intact(mem, old, index)
      PROVE  Intact(MovedTo(a, index, size), bm, index)
  <2> SUFFICES ASSUME NEW x \in Extent(bm)
               PROVE  MovedTo(a, index, size)[x] = ByteOf(bm, index, x)
    BY Zenon DEF Intact
  <2>1. x \in Addresses /\ x \in a.p .. a.p + kept - 1
    BY <1>4
  <2>2. MovedTo(a, index, size)[x] = mem[old.at + (x - a.p)]
    BY <1>5, <1>6, <1>8, <2>1 DEF Hit
  <2>3. old.at + (x - a.p) \in Extent(old) /\ (old.at + (x - a.p)) - old.at = x - a.p
    BY <1>1, <1>2, <2>1 DEF Extent, Blocks
  <2>4. mem[old.at + (x - a.p)] = ByteOf(old, index, old.at + (x - a.p))
    BY <1>8, <2>3, Zenon DEF Intact
  <2>. QED BY <1>3, <2>2, <2>3, <2>4 DEF ByteOf
<1>9. ASSUME a.hit # NULL, a.hit \in a.p .. a.p + kept - 1
      PROVE  ~Intact(MovedTo(a, index, size), bm, index)
  <2>1. a.hit \in Extent(bm) /\ a.hit \in Addresses
    BY <1>4, <1>9
  <2>2. MovedTo(a, index, size)[a.hit] = NoByte
    BY <1>5, <1>6, <1>9, <2>1, HitByte
  <2>3. NoByte # ByteOf(bm, index, a.hit)
    BY BytesDiffer
  <2>. QED BY <2>1, <2>2, <2>3 DEF Intact
<1>. QED BY <1>1, <1>2, <1>3, <1>7, <1>8, <1>9 DEF kept, old, bm

\* The checks of a realloc.
FoundInRealloc(a, index, size) ==
  \/ CheckedAll \/ check_index(mem, block[index], index)
  \/ check_index(MovedTo(a, index, size), MovedBlock(a, index, size), index)

\* A realloc that the driver accepts is right, reported or harmful.
LEMMA AcceptedReallocData ==
  ASSUME EvalInv, DataInv, at = "valid", NEW index \in Ids, index \in live, NEW size \in Nat,
         NEW a \in Answers(size, index, Kept(size, index)),
         NEW b \in Blocks, b.at = a.p, b.size = size, Accepted(b), NEW rs,
         malloc_error(FoundInRealloc(a, index, size), a.wrong),
         Done(index, b, rs, randomize_block(MovedTo(a, index, size), b, index), live)
  PROVE  DataInv' /\ at' = "valid"
<1>. DEFINE found == FoundInRealloc(a, index, size)
            m     == MovedTo(a, index, size)
            bm    == MovedBlock(a, index, size)
<1>1. /\ at' = "valid" /\ opt' = opt /\ live' = live /\ live \cup {index} = live
      /\ block[index] \in Blocks
  BY DEF Done, main, EvalInv, TraceType
<1>2. /\ Kept(size, index) \in Nat /\ Kept(size, index) <= size
      /\ \A x \in Addresses \ Extent(b) :
           m[x] = IF a.hit # NULL /\ x = a.hit THEN NoByte ELSE mem[x]
      /\ a.hit = NULL /\ Intact(mem, block[index], index) => Intact(m, bm, index)
      /\ a.hit # NULL /\ a.hit \in a.p .. a.p + Kept(size, index) - 1
           => ~Intact(m, bm, index)
      /\ bm.at \in Nat /\ bm.size \in Nat
  BY CopiedData
<1>3. /\ a.wrong \in BOOLEAN
      /\ a.wrong /\ ~(a.hit # NULL /\ a.hit \in a.p .. a.p + Kept(size, index) - 1) =>
           \E j \in live \ {index} :
             \/ Extent(block[j]) \cap Extent(b) # {}
             \/ a.hit # NULL /\ a.hit \in Extent(block[j])
      /\ ~a.wrong =>
           a.hit = NULL /\ \A j \in live \ {index} : Extent(block[j]) \cap Extent(b) = {}
  BY <1>2, AnswerHarms
<1>. HIDE DEF m, bm
<1>4. found <=> \/ CheckedAll \/ check_index(mem, block[index], index)
                \/ check_index(m, bm, index)
  BY Zenon DEF FoundInRealloc, m, bm
<1>5. found \in BOOLEAN /\ malloc_error(found, a.wrong)
  BY Zenon DEF FoundInRealloc
<1>6. /\ check_index(mem, block[index], index) <=>
           opt.debug_mode # "none" /\ ~Intact(mem, block[index], index)
      /\ check_index(m, bm, index) <=> opt.debug_mode # "none" /\ ~Intact(m, bm, index)
  BY <1>1, <1>2, CheckIndex DEF Blocks
<1>7. CheckedAll => opt.debug_mode # "none" /\ \E j \in live : ~Intact(mem, block[j], j)
  BY CheckedAllFinds
<1>. HIDE DEF found
<1>8. found => opt.debug_mode # "none"
  BY <1>4, <1>6, <1>7
<1>9. ASSUME opt.debug_mode # "none"
      PROVE  /\ LeavesOthers(b, index, a.hit)
             /\ FindsOrHarms(b, index, a.hit, found, a.wrong)
             /\ Intact(mem', block'[index], index)
  <2>1. /\ Intact(mem', b, index) /\ block'[index] = b
        /\ \A j \in live \ {index} :
             /\ block'[j] = block[j]
             /\ \A x \in Extent(block[j]) :
                  mem'[x] = IF x \in Extent(b) THEN ByteOf(b, index, x) ELSE m[x]
    <3>1. Done(index, b, rs, randomize_block(m, b, index), live \cup {index})
      BY <1>1, Zenon DEF m
    <3>. QED BY <1>9, <3>1, FilledBytes
  <2>2. ASSUME NEW j \in live \ {index}, NEW x \in Extent(block[j])
        PROVE  x \in Addresses
    <3>1. block[j] \in Blocks /\ Accepted(block[j])
      BY DEF EvalInv, Placed, TraceType
    <3>. QED BY <3>1, AcceptedExtent DEF Blocks
  <2>3. LeavesOthers(b, index, a.hit)
    BY <1>1, <1>2, <2>1, <2>2 DEF LeavesOthers, Became
  <2>4. found => a.wrong \/ \E j \in live : ~Intact(mem, block[j], j)
    <3>1. CASE CheckedAll \/ check_index(mem, block[index], index)
      BY <1>6, <1>7, <3>1
    <3>2. CASE check_index(m, bm, index) /\ ~a.wrong
      BY <1>2, <1>3, <1>6, <3>2
    <3>. QED BY <1>3, <1>4, <3>1, <3>2
  <2>5. ~found => Intact(mem, block[index], index) /\ Intact(m, bm, index)
    BY <1>4, <1>6, <1>9
  <2>6. a.wrong /\ ~found =>
          \E j \in live \ {index} :
            \/ Extent(block[j]) \cap Extent(b) # {}
            \/ a.hit # NULL /\ a.hit \in Extent(block[j])
    BY <1>2, <1>3, <2>5, Zenon
  <2>7. FindsOrHarms(b, index, a.hit, found, a.wrong)
    BY <1>3, <2>4, <2>5, <2>6 DEF FindsOrHarms
  <2>. QED BY <2>1, <2>3, <2>7
<1>10. DataInv'
  BY <1>1, <1>3, <1>5, <1>8, <1>9, RequestKeepsData
<1>. QED BY <1>1, <1>10

\* A realloc that is right is accepted.
LEMMA ReallocData ==
  ASSUME EvalInv, DataInv, NEW index \in Ids, Realloc(index)
  PROVE  DataInv' /\ (at' # "valid" => faults' > 0)
<1>1. at = "valid" /\ index \in live
  BY DEF Realloc
<1>2. PICK size \in Sizes \cup {0} : \E a \in Answers(size, index, Kept(size, index)) :
        ReallocGoesOn(index, size, a)
  BY ReallocOutcome, Zenon DEF EvalInv
<1>3. PICK a \in Answers(size, index, Kept(size, index)) : ReallocGoesOn(index, size, a)
  BY <1>2, Zenon
<1>4. size \in Nat /\ (size > 0 \/ size = 0)
  BY MdriverAssumption
<1>5. /\ a.p \in Nat
      /\ \/ a.hit = NULL /\ a.wrong = ~GoodPlace(size, index, a.p)
         \/ a.wrong = TRUE
  BY AnswerType, Zenon
<1>6. CASE /\ Fails(a.wrong)
           /\ \/ ~(a.p = NULL <=> size = 0)
              \/ size > 0 /\ Misplaced([at |-> a.p, size |-> size])
              \/ size > 0 /\ KeepsRanges
                          /\ Overlaps(Without(index), [at |-> a.p, size |-> size])
  <2>1. Without(index) \in Seq(Entries)
        /\ (KeepsRanges => Lists(Without(index), block, live \ {index}))
    BY <1>1, RemovedEntry, Zenon
  <2>2. ~GoodPlace(size, index, a.p)
    <3>1. CASE size = 0
      BY <1>6, <3>1 DEF GoodPlace
    <3>2. CASE size > 0
      <4>1. GoodPlace(size, index, a.p) =>
              /\ a.p # NULL /\ ~Misplaced([at |-> a.p, size |-> size])
              /\ ~(KeepsRanges /\ Overlaps(Without(index), [at |-> a.p, size |-> size]))
        <5>. HIDE DEF Without
        <5>. QED BY <1>1, <1>4, <1>5, <2>1, <3>2, GoodIsAccepted
      <4>2. size # 0
        BY <1>4, <3>2
      <4>. QED BY <1>6, <4>1, <4>2, Zenon
    <3>. QED BY <1>4, <3>1, <3>2
  <2>3. a.wrong = TRUE
    BY <1>5, <2>2, Zenon
  <2>. QED BY <1>6, <2>3, FailureKeepsData
<1>7. ASSUME NEW b \in Blocks, NEW rs, b.at = a.p, b.size = size, Accepted(b),
             malloc_error(FoundInRealloc(a, index, size), a.wrong),
             Done(index, b, rs, randomize_block(MovedTo(a, index, size), b, index), live)
      PROVE  DataInv' /\ at' = "valid"
  BY <1>1, <1>4, <1>7, AcceptedReallocData
<1>8. CASE \E b \in Blocks :
             /\ b.at = a.p /\ b.size = size /\ Accepted(b)
             /\ b.size > 0 /\ KeepsRanges => ~Overlaps(Without(index), b)
             /\ malloc_error(FoundInRealloc(a, index, size), a.wrong)
             /\ Done(index, b, IF b.size > 0 THEN add_range(Without(index), b, index)
                                             ELSE Without(index),
                     randomize_block(MovedTo(a, index, size), b, index), live)
  <2>. HIDE DEF Without
  <2>. QED BY <1>7, <1>8, Zenon
<1>. QED BY <1>3, <1>6, <1>8, Zenon DEF ReallocGoesOn, FoundInRealloc

\* What a call of the allocator's free does to the blocks that stay.
LEMMA HitData ==
  ASSUME EvalInv, DataInv, at = "valid", at' = "valid", opt' = opt,
         NEW index, NEW h, h \in {NULL} \cup CellsOf(live \ {index}), NEW found \in BOOLEAN,
         malloc_error(found, h # NULL),
         live' = live \ {index},
         \A j \in live \ {index} :
           /\ block'[j] = block[j]
           /\ \A x \in Extent(block[j]) : mem'[x] = Hit(mem, [hit |-> h])[x],
         found => opt.debug_mode # "none" /\ \E j \in live : ~Intact(mem, block[j], j),
         opt.debug_mode # "none" /\ ~found /\ index \in live => Intact(mem, block[index], index)
  PROVE  DataInv'
<1>1. Extent(Unused) = {}
  BY DEF Extent, Unused, NULL
<1>2. LeavesOthers(Unused, index, h)
  <2>1. ASSUME NEW j \in live \ {index}, NEW x \in Extent(block[j])
        PROVE  mem'[x] = Became(Unused, index, h, x)
    <3>1. block[j] \in Blocks /\ Accepted(block[j]) /\ DOMAIN mem = Addresses
      BY DEF EvalInv, Placed, TraceType
    <3>2. x \in Addresses
      BY <3>1, AcceptedExtent DEF Blocks
    <3>3. DEFINE r == [hit |-> h]
    <3>4. r.hit = h /\ mem'[x] = Hit(mem, r)[x]
      OBVIOUS
    <3>. HIDE DEF r
    <3>5. Hit(mem, r)[x] = IF r.hit # NULL /\ x = r.hit THEN NoByte ELSE mem[x]
      BY <3>1, <3>2, HitByte
    <3>. QED BY <1>1, <3>4, <3>5 DEF Became
  <2>. QED BY <2>1 DEF LeavesOthers
<1>3. h # NULL => \E j \in live \ {index} : h \in Extent(block[j])
  BY DEF CellsOf
<1>4. ASSUME opt.debug_mode # "none"
      PROVE  FindsOrHarms(Unused, index, h, found, h # NULL)
  BY <1>1, <1>3, <1>4 DEF FindsOrHarms
<1>5. (h # NULL) \in BOOLEAN /\ index \notin live'
  OBVIOUS
<1>. QED BY <1>2, <1>4, <1>5, RequestKeepsData

\* free finds what was lost of the block it is given.
LEMMA FreeData ==
  ASSUME EvalInv, DataInv, NEW index \in Ids, Free(index)
  PROVE  DataInv' /\ (at' # "valid" => faults' > 0)
<1>1. PICK h \in {NULL} \cup CellsOf(live \ {index}) :
        /\ malloc_error(CheckedAll \/ LastCheck(index), h # NULL)
        /\ Done(index, [Unused EXCEPT !.base = block[index].base],
                remove_range(ranges, block[index].at),
                Hit(mem, [hit |-> h]), live \ {index})
  BY Zenon DEF Free
<1>2. at = "valid" /\ index \in live /\ TraceType
  BY DEF Free, EvalInv
<1>. DEFINE found == CheckedAll \/ LastCheck(index)
<1>3. /\ at' = "valid" /\ opt' = opt /\ live' = live \ {index}
      /\ \A j \in live \ {index} :
           /\ block'[j] = block[j]
           /\ \A x \in Extent(block[j]) : mem'[x] = Hit(mem, [hit |-> h])[x]
  <2>1. /\ at' = "valid" /\ opt' = opt /\ live' = live \ {index}
        /\ block' = [block EXCEPT ![index] = [Unused EXCEPT !.base = block[index].base]]
        /\ mem' = Reused(Hit(mem, [hit |-> h]), block', live \ {index})
    BY <1>1, <1>2 DEF Done, main
  <2>2. ASSUME NEW j \in live \ {index}
        PROVE  /\ block'[j] = block[j]
               /\ \A x \in Extent(block[j]) : mem'[x] = Hit(mem, [hit |-> h])[x]
    <3>1. block'[j] = block[j]
      BY <1>2, <2>1 DEF TraceType
    <3>2. Extent(block[j]) \subseteq Addresses
      <4>1. block[j] \in Blocks /\ Accepted(block[j])
        BY <1>2 DEF EvalInv, Placed, TraceType
      <4>. QED BY <4>1, AcceptedExtent DEF Blocks
    <3>. QED BY <2>1, <3>1, <3>2 DEF Reused
  <2>. QED BY <2>1, <2>2
<1>4. LastCheck(index) <=> opt.debug_mode # "none" /\ ~Intact(mem, block[index], index)
  <2>1. block[index] \in Blocks
    BY <1>2 DEF TraceType
  <2>. QED BY <2>1, CheckIndex DEF LastCheck, Blocks
<1>5. /\ found => opt.debug_mode # "none" /\ \E j \in live : ~Intact(mem, block[j], j)
      /\ opt.debug_mode # "none" /\ ~found /\ index \in live
           => Intact(mem, block[index], index)
  BY <1>2, <1>4, CheckedAllFinds
<1>6. found \in BOOLEAN /\ malloc_error(found, h # NULL)
  BY <1>1, Zenon
<1>. HIDE DEF found
<1>7. DataInv'
  BY <1>2, <1>3, <1>5, <1>6, HitData
<1>. QED BY <1>3, <1>7

\* Every set leaves something out.
LEMMA SomethingElse == \A S : \E x : x \notin S
<1>. TAKE S
<1>. DEFINE R == {x \in S : x \notin x}
<1>1. R \notin S
  OBVIOUS
<1>. QED BY <1>1

\* free(NULL) gives no block back.
LEMMA FreeNullData ==
  ASSUME EvalInv, DataInv, FreeNull
  PROVE  DataInv' /\ at' = "valid"
<1>1. PICK index : index \notin live
  BY SomethingElse
<1>2. PICK h \in {NULL} \cup CellsOf(live) :
        malloc_error(CheckedAll, h # NULL) /\ mem' = Hit(mem, [hit |-> h])
  BY Zenon DEF FreeNull
<1>3. /\ at = "valid" /\ at' = "valid" /\ opt' = opt /\ live \ {index} = live
      /\ live' = live /\ block' = block
  BY <1>1 DEF FreeNull, main
<1>4. CheckedAll \in BOOLEAN
  BY Zenon DEF CheckedAll
<1>5. CheckedAll => opt.debug_mode # "none" /\ \E j \in live : ~Intact(mem, block[j], j)
  BY <1>3, CheckedAllFinds
<1>6. h \in {NULL} \cup CellsOf(live \ {index})
  BY <1>3
<1>7. \A j \in live \ {index} :
        /\ block'[j] = block[j]
        /\ \A x \in Extent(block[j]) : mem'[x] = Hit(mem, [hit |-> h])[x]
  BY <1>2, <1>3
<1>8. opt.debug_mode # "none" /\ ~CheckedAll /\ index \in live
        => Intact(mem, block[index], index)
  BY <1>1
<1>9. DataInv'
  BY <1>2, <1>3, <1>4, <1>5, <1>6, <1>7, <1>8, HitData
<1>. QED BY <1>3, <1>9

\* What is measured is a valid trace, and what is called invalid while there is
\* time is the fault of the allocator.
VerdictInv ==
  /\ at \in {"util", "speed"} => stats[i].valid = TRUE
  /\ at = "deinit" /\ ~timed_out /\ ~stats[i].valid => faults > 0

\* Where nothing is evaluated, only what was reported counts.
LEMMA NothingLost ==
  ASSUME DataInv, at' # "valid",
         UNCHANGED <<faults, reported>> \/ (faults' = 0 /\ reported' = FALSE)
  PROVE  DataInv'
BY DEF DataInv

\* Every step keeps the data of the blocks accounted for, and blames the
\* allocator only for what it did.
LEMMA DataStep ==
  ASSUME MainType, EvalInv, Fresh, DataInv, VerdictInv, [Next]_vars
  PROVE  DataInv' /\ VerdictInv'
<1>1. CASE UNCHANGED vars
  BY <1>1 DEF vars, main, trace, DataInv, VerdictInv, Intact, Extent, ByteOf
<1>2. ASSUME NEW index \in Ids, Alloc(index) \/ Realloc(index) \/ Free(index) \/ FreeNull
      PROVE  DataInv' /\ VerdictInv'
  <2>1. DataInv' /\ (at' # "valid" => faults' > 0)
    BY <1>2, AllocData, ReallocData, FreeData, FreeNullData
  <2>2. at' \notin {"util", "speed"}
    BY <1>2, RequestOutcome DEF Fails, Returned
  <2>. QED BY <2>1, <2>2 DEF VerdictInv
<1>3. CASE FreeNull
  BY <1>3, FreeNullData DEF VerdictInv
<1>4. ASSUME NEW index \in Ids, UtilAlloc(index) \/ UtilRealloc(index) \/ UtilFree(index)
      PROVE  DataInv' /\ VerdictInv'
  <2>1. at = "util" /\ UNCHANGED <<main, at, faults, reported>>
    BY <1>4, UtilRequestOutcome
  <2>. QED BY <2>1, NothingLost DEF main, VerdictInv
<1>5. CASE MmInit
  <2>1. CASE at' = "valid" /\ UNCHANGED <<main, errors, trace, util>>
    <3>1. live' = {} /\ faults' = 0 /\ reported' = FALSE
      BY <1>5, <2>1 DEF MmInit, Fresh, trace
    <3>. QED BY <2>1, <3>1 DEF DataInv, VerdictInv
  <2>2. CASE Fails(TRUE)
    <3>1. at' \notin {"util", "speed"}
      BY <2>2 DEF Fails, Returned
    <3>. QED BY <2>2, <3>1, FailureKeepsData DEF VerdictInv
  <2>. QED BY <1>5, <2>1, <2>2 DEF MmInit
<1>6. CASE EndOfTrace
  <2>1. /\ stats' = [stats EXCEPT ![i].valid = TRUE] /\ i' = i
        /\ at' \notin {"valid", "deinit"}
        /\ (faults' = 0 /\ reported' = FALSE) \/ UNCHANGED <<faults, reported>>
    BY <1>6 DEF EndOfTrace, Returned, Reinitialized, trace
  <2>2. stats'[i].valid = TRUE
    BY <2>1, ValidSet
  <2>. QED BY <2>1, <2>2, NothingLost DEF VerdictInv
<1>7. CASE EndOfUtil
  <2>1. /\ stats' = [stats EXCEPT ![i].util = TRUE] /\ i' = i /\ at' = "speed"
        /\ at = "util" /\ UNCHANGED <<faults, reported>>
    BY <1>7 DEF EndOfUtil, trace
  <2>2. stats'[i].valid = TRUE
    BY <2>1, MeasuredSet DEF VerdictInv
  <2>. QED BY <2>1, <2>2, NothingLost DEF VerdictInv
<1>8. CASE EndOfSpeed
  <2>1. /\ stats' = [stats EXCEPT ![i].secs = TRUE] /\ i' = i /\ at' = "deinit"
        /\ at = "speed" /\ UNCHANGED <<faults, reported>>
    BY <1>8 DEF EndOfSpeed, trace
  <2>2. stats'[i].valid = TRUE
    BY <2>1, MeasuredSet DEF VerdictInv, MainType, Stats
  <2>. QED BY <2>1, <2>2, NothingLost DEF VerdictInv
<1>9. CASE (at \in {"util", "speed"} /\ app_error) \/ EndOfLibc \/ EndOfTests \/ PrintResults
  <2>1. at' \notin {"valid", "util", "speed", "deinit"} /\ UNCHANGED <<faults, reported>>
    BY <1>9 DEF app_error, EndOfLibc, EndOfTests, PrintResults, trace
  <2>. QED BY <2>1, NothingLost DEF VerdictInv
<1>10. CASE Timeout
  <2>1. /\ at' = "undefined" \/ (at' = "deinit" /\ timed_out' = TRUE)
        /\ UNCHANGED <<faults, reported>>
    BY <1>10 DEF Timeout, trace
  <2>. QED BY <2>1, NothingLost DEF VerdictInv
<1>11. CASE StartTrace
  <2>1. /\ at' = IF timed_out THEN "deinit" ELSE "mm_init"
        /\ faults' = 0 /\ reported' = FALSE /\ timed_out' = timed_out
    BY <1>11 DEF StartTrace, Reinitialized
  <2>. QED BY <2>1, NothingLost DEF VerdictInv
<1>. QED BY <1>1, <1>2, <1>3, <1>4, <1>5, <1>6, <1>7, <1>8, <1>9, <1>10, <1>11 DEF Next

\* What the driver knows of the data holds in every reachable state.
LEMMA DataInvariance == Spec => [](DataInv /\ VerdictInv)
<1>1. Init => DataInv /\ VerdictInv
  BY DEF Init, DataInv, VerdictInv
<1>2. MainType /\ EvalInv /\ Fresh /\ DataInv /\ VerdictInv /\ [Next]_vars
        => DataInv' /\ VerdictInv'
  BY DataStep
<1>. QED BY <1>1, <1>2, MainTypeInvariance, EvalInvariance, PTL DEF Spec

\* An allocator all of whose calls are right is never accused: no error is
\* reported and no trace called invalid, but when time was up.
THEOREM NeverAFalseAlarm == Spec => []NoFalseAlarm
<1>1. DataInv /\ VerdictInv => NoFalseAlarm
  BY DEF DataInv, VerdictInv, NoFalseAlarm
<1>. QED BY <1>1, DataInvariance, PTL

\* Whatever an allocator does wrong in a trace that frees its blocks is
\* reported in that trace, however long the trace, wherever the blocks lie and
\* with the list of ranges or without it.
THEOREM WrongIsAlwaysFound == Spec => []WrongIsFound
<1>1. ASSUME EvalInv, DataInv, at = "valid", opt.debug_mode # "none", faults > 0,
             \A j \in live : block[j].size = 0
      PROVE  reported
  <2>1. ASSUME NEW j \in live PROVE Intact(mem, block[j], j)
    <3>1. block[j] \in Blocks /\ block[j].size = 0
      BY <1>1 DEF EvalInv, TraceType
    <3>2. Extent(block[j]) = {}
      BY <3>1 DEF Extent, Blocks
    <3>. QED BY <3>2 DEF Intact
  <2>. QED BY <1>1, <2>1 DEF DataInv
<1>2. EvalInv /\ DataInv => WrongIsFound
  BY <1>1 DEF WrongIsFound
<1>. QED BY <1>2, EvalInvariance, DataInvariance, PTL

-----------------------------------------------------------------------------
(***************************************************************************)
(* The sizes in use and their sum.                                         *)
(***************************************************************************)

\* What is true of 0 and of the successor of each number it is true of.
LEMMA NatAreAll ==
  ASSUME NEW S, 0 \in S, \A n \in Nat : n \in S => n + 1 \in S
  PROVE  Nat \subseteq S
<1> SUFFICES ASSUME Nat \ S # {} PROVE FALSE
  OBVIOUS
<1>. DEFINE T == Nat \ S
<1>0. T \subseteq Nat /\ T # {}
  OBVIOUS
<1>. HIDE DEF T
<1>1. PICK n \in T : \A y \in T : ~ (<<y, n>> \in OpToRel(<, Nat))
  BY <1>0, NatLessThanWellFounded, WFMin
<1>2. n \in Nat /\ n \notin S
  BY DEF T
<1>3. n # 0 /\ n - 1 \in Nat /\ n - 1 < n /\ (n - 1) + 1 = n
  BY <1>2
<1>4. n - 1 \in T
  BY <1>2, <1>3 DEF T
<1>5. \A x, y \in Nat : x < y => <<x, y>> \in OpToRel(<, Nat)
  BY DEF OpToRel
<1>. QED BY <1>1, <1>2, <1>3, <1>4, <1>5, Zenon

\* The sum of the sizes in s is that of its first block and of the others.
First(s) == CHOOSE x \in s : TRUE

Sum(bs, g, s) == IF s = {} THEN 0 ELSE bs[First(s)].size + g[s \ {First(s)}]

Sums(bs, U, g) == g = [s \in SUBSET U |-> Sum(bs, g, s)]

\* What CHOOSE picks of a set is in it.
LEMMA FirstIsIn == \A s : s # {} => First(s) \in s
BY DEF First

\* There is such a sum of every finite set.
LEMMA SumsExist ==
  ASSUME NEW U, IsFiniteSet(U), NEW bs
  PROVE  \E g : Sums(bs, U, g)
<1>. DEFINE UpTo(n, g) ==
              /\ g = [s \in SUBSET U |-> g[s]]
              /\ \A s \in SUBSET U : Cardinality(s) <= n => g[s] = Sum(bs, g, s)
            S == {n \in Nat : \E g : UpTo(n, g)}
<1>1. \A s \in SUBSET U : IsFiniteSet(s) /\ Cardinality(s) \in Nat
                            /\ Cardinality(s) <= Cardinality(U) /\ Cardinality(U) \in Nat
  BY FS_Subset, FS_CardinalityType
<1>2. 0 \in S
  <2>. DEFINE g == [s \in SUBSET U |-> 0]
  <2>2. ASSUME NEW s \in SUBSET U, Cardinality(s) <= 0 PROVE g[s] = Sum(bs, g, s)
    <3>1. s = {}
      BY <1>1, <2>2, FS_EmptySet
    <3>. QED BY <3>1 DEF Sum
  <2>3. UpTo(0, g)
    BY <2>2
  <2>. QED BY <2>3
<1>3. ASSUME NEW n \in Nat, n \in S PROVE n + 1 \in S
  <2>1. PICK g : UpTo(n, g)
    BY <1>3
  <2>. DEFINE g2 == [s \in SUBSET U |-> Sum(bs, g, s)]
  <2>2. ASSUME NEW s \in SUBSET U, Cardinality(s) <= n + 1
        PROVE  g2[s] = Sum(bs, g2, s)
    <3>1. CASE s = {}
      BY <3>1 DEF Sum
    <3>2. CASE s # {}
      <4>. DEFINE t == s \ {First(s)}
      <4>1. t \in SUBSET U /\ Cardinality(t) <= n
        BY <1>1, <2>2, <3>2, FirstIsIn, FS_RemoveElement
      <4>2. g2[t] = g[t]
        BY <2>1, <4>1
      <4>. QED BY <3>2, <4>2 DEF Sum
    <3>. QED BY <3>1, <3>2
  <2>3. UpTo(n + 1, g2)
    BY <2>2
  <2>. HIDE DEF UpTo, g2
  <2>. QED BY <2>3
<1>. HIDE DEF S
<1>4. Nat \subseteq S
  BY <1>2, <1>3, NatAreAll
<1>5. Cardinality(U) \in Nat
  BY FS_CardinalityType
<1>6. PICK g : UpTo(Cardinality(U), g)
  BY <1>4, <1>5 DEF S
<1>7. \A s \in SUBSET U : g[s] = Sum(bs, g, s)
  BY <1>1, <1>6
<1>8. g = [s \in SUBSET U |-> g[s]]
  BY <1>6, Zenon
<1>9. Sums(bs, U, g)
  <2>1. [s \in SUBSET U |-> g[s]] = [s \in SUBSET U |-> Sum(bs, g, s)]
    BY <1>7
  <2>. QED BY <1>8, <2>1, Zenon DEF Sums
<1>. QED BY <1>9

\* Sums of the same sizes agree, are numbers, and do not depend on the order.
LEMMA SumsAgree ==
  ASSUME NEW U, NEW V, IsFiniteSet(U), IsFiniteSet(V), NEW bs1, NEW bs2, NEW g1, NEW g2,
         Sums(bs1, U, g1), Sums(bs2, V, g2), NEW T \in SUBSET U, T \subseteq V,
         \A x \in T : bs1[x].size = bs2[x].size /\ bs1[x].size \in Nat
  PROVE  /\ g1[T] = g2[T] /\ g1[T] \in Nat
         /\ \A x \in T : g1[T] = bs1[x].size + g1[T \ {x}]
<1>. DEFINE Good(s) == /\ g1[s] = g2[s] /\ g1[s] \in Nat
                       /\ \A x \in s : /\ g1[s] = bs1[x].size + g1[s \ {x}]
                                       /\ g1[s \ {x}] \in Nat
            S == {n \in Nat : \A s \in SUBSET T : Cardinality(s) = n => Good(s)}
<1>1. \A s \in SUBSET T : IsFiniteSet(s) /\ Cardinality(s) \in Nat
  BY FS_Subset, FS_CardinalityType
<1>2. \A s \in SUBSET T : g1[s] = Sum(bs1, g1, s) /\ g2[s] = Sum(bs2, g2, s)
  BY Zenon DEF Sums
<1>3. 0 \in S
  <2>1. ASSUME NEW s \in SUBSET T, Cardinality(s) = 0 PROVE Good(s)
    <3>1. s = {}
      BY <1>1, <2>1, FS_EmptySet
    <3>2. g1[s] = 0 /\ g2[s] = 0
      BY <1>2, <3>1, Zenon DEF Sum
    <3>. QED BY <3>1, <3>2
  <2>. QED BY <2>1
<1>4. ASSUME NEW n \in Nat, n \in S PROVE n + 1 \in S
  <2>1. ASSUME NEW s \in SUBSET T, Cardinality(s) = n + 1 PROVE Good(s)
    <3>. DEFINE c == First(s)
    <3>0. s # {} /\ c \in s /\ n \in Nat
      BY <1>1, <2>1, FS_EmptySet, FirstIsIn
    <3>1. /\ g1[s] = bs1[c].size + g1[s \ {c}] /\ g2[s] = bs2[c].size + g2[s \ {c}]
          /\ bs1[c].size = bs2[c].size /\ bs1[c].size \in Nat
      BY <1>2, <3>0 DEF Sum
    <3>. HIDE DEF c
    <3>2. \A x \in s : s \ {x} \in SUBSET T /\ Cardinality(s \ {x}) = n
      BY <1>1, <2>1, FS_RemoveElement
    <3>3. \A x \in s : Good(s \ {x})
      BY <1>4, <3>2
    <3>4. g1[s] = g2[s] /\ g1[s] \in Nat
      BY <3>0, <3>1, <3>3
    <3>5. ASSUME NEW x \in s, x # c
          PROVE  g1[s] = bs1[x].size + g1[s \ {x}]
      <4>1. (s \ {x}) \ {c} = (s \ {c}) \ {x}
        OBVIOUS
      <4>. DEFINE r == g1[(s \ {c}) \ {x}]
      <4>2. g1[s \ {c}] = bs1[x].size + r
        BY <3>0, <3>3, <3>5
      <4>3. g1[s \ {x}] = bs1[c].size + r
        BY <3>0, <3>3, <3>5, <4>1
      <4>4. r \in Nat /\ bs1[x].size \in Nat
        BY <3>0, <3>3, <3>5
      <4>. HIDE DEF r
      <4>. QED BY <3>1, <4>2, <4>3, <4>4
    <3>6. \A x \in s : g1[s \ {x}] \in Nat
      BY <3>3
    <3>. QED BY <3>1, <3>4, <3>5, <3>6
  <2>. QED BY <2>1
<1>. HIDE DEF S
<1>5. Nat \subseteq S
  BY <1>3, <1>4, NatAreAll
<1>6. Good(T)
  BY <1>1, <1>5 DEF S
<1>. QED BY <1>6

\* SizesOf is such a sum.
LEMMA SizesAreSums ==
  ASSUME NEW ids, IsFiniteSet(ids), NEW bs
  PROVE  \E g : Sums(bs, ids, g) /\ SizesOf(bs, ids) = g[ids]
<1>. DEFINE f == CHOOSE g : g = [s \in SUBSET ids |->
                   IF s = {} THEN 0 ELSE bs[First(s)].size + g[s \ {First(s)}]]
<1>1. SizesOf(bs, ids) = f[ids]
  BY Zenon DEF SizesOf, MapThenSumSet, MapThenFoldSet, First
<1>2. \E g : g = [s \in SUBSET ids |->
                    IF s = {} THEN 0 ELSE bs[First(s)].size + g[s \ {First(s)}]]
  <2>1. PICK g : Sums(bs, ids, g)
    BY SumsExist
  <2>2. g = [s \in SUBSET ids |->
               IF s = {} THEN 0 ELSE bs[First(s)].size + g[s \ {First(s)}]]
    BY <2>1, Zenon DEF Sums, Sum
  <2>. QED BY <2>2, Zenon
<1>3. f = [s \in SUBSET ids |->
             IF s = {} THEN 0 ELSE bs[First(s)].size + f[s \ {First(s)}]]
  BY <1>2, Zenon
<1>. HIDE DEF f
<1>4. Sums(bs, ids, f)
  BY <1>3, Zenon DEF Sums, Sum
<1>. QED BY <1>1, <1>4

\* Only the sizes of the blocks in the sum count, and each is a summand.
LEMMA SizesOfBlocks ==
  ASSUME NEW ids, IsFiniteSet(ids), NEW bs, NEW bs2,
         \A j \in ids : bs[j].size = bs2[j].size /\ bs[j].size \in Nat
  PROVE  /\ SizesOf(bs, ids) \in Nat /\ SizesOf(bs2, ids) = SizesOf(bs, ids)
         /\ \A x \in ids : SizesOf(bs, ids) = bs[x].size + SizesOf(bs, ids \ {x})
         /\ ids = {} => SizesOf(bs, ids) = 0
<1>1. PICK g : Sums(bs, ids, g) /\ SizesOf(bs, ids) = g[ids]
  BY SizesAreSums
<1>2. PICK g2 : Sums(bs2, ids, g2) /\ SizesOf(bs2, ids) = g2[ids]
  BY SizesAreSums
<1>3. /\ g[ids] = g2[ids] /\ g[ids] \in Nat
      /\ \A x \in ids : g[ids] = bs[x].size + g[ids \ {x}]
  <2>1. ids \in SUBSET ids /\ ids \subseteq ids
    OBVIOUS
  <2>. QED BY <1>1, <1>2, <2>1, SumsAgree
<1>4. ASSUME NEW x \in ids PROVE g[ids \ {x}] = SizesOf(bs, ids \ {x})
  <2>1. IsFiniteSet(ids \ {x})
    BY FS_RemoveElement
  <2>2. PICK g3 : Sums(bs, ids \ {x}, g3) /\ SizesOf(bs, ids \ {x}) = g3[ids \ {x}]
    BY <2>1, SizesAreSums
  <2>. DEFINE T == ids \ {x}
  <2>3. /\ T \in SUBSET ids /\ T \subseteq T
        /\ \A y \in T : bs[y].size = bs[y].size /\ bs[y].size \in Nat
    OBVIOUS
  <2>4. IsFiniteSet(T) /\ Sums(bs, T, g3)
    BY <2>1, <2>2
  <2>. HIDE DEF T
  <2>5. g[T] = g3[T]
    BY <1>1, <2>3, <2>4, SumsAgree
  <2>. QED BY <2>2, <2>5 DEF T
<1>5. ids = {} => g[ids] = 0
  BY <1>1, Zenon DEF Sums, Sum
<1>. QED BY <1>1, <1>2, <1>3, <1>4, <1>5

\* eval_mm_util keeps the sum of the sizes, and its maximum.
UtilInv ==
  at = "util" =>
    /\ total_size = SizesOf(block, live) /\ total_size \in Nat
    /\ max_total_size = peak

\* A request changes the total by as much as it changes the sum.
LEMMA TalliedSum ==
  ASSUME TraceType, UtilInv, at = "util", NEW index \in Ids, NEW size \in Nat,
         NEW change \in Int, NEW ids \in SUBSET Ids, Tallied(index, size, change, ids),
         ids \ {index} = live \ {index},
         change = (IF index \in ids THEN size ELSE 0)
                    - (IF index \in live THEN block[index].size ELSE 0)
  PROVE  UtilInv'
<1>. DEFINE bs2 == [block EXCEPT ![index].size = size]
            rest == live \ {index}
<1>1. /\ block' = bs2 /\ live' = ids /\ total_size' = total_size + change
      /\ max_total_size' = Max({total_size', max_total_size})
      /\ peak' = Max({peak, SizesOf(bs2, ids)})
  BY DEF Tallied
<1>2. /\ block \in [Ids -> Blocks] /\ live \in SUBSET Ids /\ ids \in SUBSET Ids
      /\ IsFiniteSet(live) /\ IsFiniteSet(ids) /\ IsFiniteSet(rest)
  BY MdriverAssumption, FS_Subset DEF TraceType
<1>3. /\ \A j \in Ids : block[j].size \in Nat /\ bs2[j].size \in Nat
      /\ \A j \in rest : block[j].size = bs2[j].size
      /\ bs2[index].size = size
  <2>1. ASSUME NEW j \in Ids
        PROVE  bs2[j].size = IF j = index THEN size ELSE block[j].size
    BY <1>2 DEF Blocks
  <2>. HIDE DEF bs2
  <2>. QED BY <1>2, <2>1 DEF Blocks
<1>. HIDE DEF bs2
<1>4. SizesOf(bs2, rest) = SizesOf(block, rest) /\ SizesOf(block, rest) \in Nat
  BY <1>2, <1>3, SizesOfBlocks
<1>5. SizesOf(block, live) =
        (IF index \in live THEN block[index].size ELSE 0) + SizesOf(block, rest)
  <2>1. CASE index \in live
    BY <1>2, <1>3, <2>1, SizesOfBlocks
  <2>2. CASE index \notin live
    <3>1. rest = live
      BY <2>2
    <3>. QED BY <1>4, <2>2, <3>1
  <2>. QED BY <2>1, <2>2
<1>6. SizesOf(bs2, ids) = (IF index \in ids THEN size ELSE 0) + SizesOf(bs2, rest)
  <2>1. CASE index \in ids
    <3>1. SizesOf(bs2, ids) = bs2[index].size + SizesOf(bs2, ids \ {index})
      <4>1. \A j \in ids : bs2[j].size = bs2[j].size /\ bs2[j].size \in Nat
        BY <1>2, <1>3
      <4>. QED BY <1>2, <2>1, <4>1, SizesOfBlocks
    <3>. QED BY <1>3, <2>1, <3>1
  <2>2. CASE index \notin ids
    <3>1. rest = ids
      BY <2>2
    <3>. QED BY <1>4, <2>2, <3>1
  <2>. QED BY <2>1, <2>2
<1>. HIDE DEF rest
<1>7. total_size' = SizesOf(bs2, ids) /\ total_size' \in Nat
  <2>1. total_size = SizesOf(block, live) /\ block[index].size \in Nat
    BY <1>3 DEF UtilInv
  <2>. QED BY <1>1, <1>4, <1>5, <1>6, <2>1
<1>8. max_total_size' = peak'
  <2>1. {total_size', max_total_size} = {peak, SizesOf(bs2, ids)}
    BY <1>7 DEF UtilInv
  <2>. QED BY <1>1, <2>1, Zenon
<1>. QED BY <1>1, <1>7, <1>8 DEF UtilInv

\* Every step keeps the total and its maximum.
LEMMA UtilStep ==
  ASSUME EvalInv, UtilInv, [Next]_vars
  PROVE  UtilInv'
<1>1. CASE UNCHANGED vars
  BY <1>1 DEF vars, trace, util, UtilInv
<1>2. ASSUME NEW index \in Ids, UtilAlloc(index) \/ UtilRealloc(index) \/ UtilFree(index)
      PROVE  UtilInv'
  <2>1. TraceType /\ block[index].size \in Nat /\ live \in SUBSET Ids
    BY DEF EvalInv, TraceType, Blocks
  <2>2. CASE UtilAlloc(index)
    <3>1. PICK size \in Sizes : Tallied(index, size, size, live \cup {index})
      BY <2>2 DEF UtilAlloc
    <3>2. /\ size \in Nat /\ size \in Int /\ live \cup {index} \in SUBSET Ids
          /\ (live \cup {index}) \ {index} = live \ {index}
          /\ index \notin live /\ index \in live \cup {index} /\ at = "util"
      BY <2>1, <2>2, MdriverAssumption DEF UtilAlloc
    <3>. QED BY <2>1, <3>1, <3>2, TalliedSum
  <2>3. CASE UtilRealloc(index)
    <3>1. PICK size \in Sizes \cup {0} :
            Tallied(index, size, Growth(size, block[index].size), live)
      BY <2>3 DEF UtilRealloc
    <3>2. /\ size \in Nat /\ index \in live /\ at = "util"
          /\ Growth(size, block[index].size) = size - block[index].size
          /\ size - block[index].size \in Int
      BY <2>1, <2>3, MdriverAssumption DEF UtilRealloc, Growth
    <3>. QED BY <2>1, <3>1, <3>2, TalliedSum
  <2>4. CASE UtilFree(index)
    <3>1. Tallied(index, block[index].size, -block[index].size, live \ {index})
      BY <2>4 DEF UtilFree
    <3>2. /\ -block[index].size \in Int /\ -block[index].size = 0 - block[index].size
          /\ live \ {index} \in SUBSET Ids /\ (live \ {index}) \ {index} = live \ {index}
          /\ index \in live /\ index \notin live \ {index} /\ at = "util"
      BY <2>1, <2>4 DEF UtilFree
    <3>. QED BY <2>1, <3>1, <3>2, TalliedSum
  <2>. QED BY <1>2, <2>2, <2>3, <2>4
<1>3. CASE EndOfTrace
  <2>1. CASE at' = "util"
    <3>1. /\ live' = {} /\ total_size' = 0 /\ max_total_size' = 0 /\ peak' = 0
      BY <1>3, <2>1 DEF EndOfTrace, Reinitialized
    <3>2. SizesOf(block', live') = 0
      <4>. DEFINE bs == block'
      <4>1. IsFiniteSet({}) /\ \A j \in {} : bs[j].size = bs[j].size /\ bs[j].size \in Nat
        BY FS_EmptySet
      <4>. HIDE DEF bs
      <4>2. SizesOf(bs, {}) = 0
        BY <4>1, SizesOfBlocks
      <4>. QED BY <3>1, <4>2 DEF bs
    <3>. QED BY <3>1, <3>2 DEF UtilInv
  <2>. QED BY <2>1 DEF UtilInv
<1>4. ASSUME NEW index \in Ids, Alloc(index) \/ Realloc(index) \/ Free(index) \/ FreeNull
      PROVE  at' # "util"
  BY <1>4, RequestOutcome DEF Fails, Returned
<1>5. CASE FreeNull
  BY <1>5 DEF FreeNull, UtilInv
<1>6. CASE MmInit
  BY <1>6 DEF MmInit, Fails, Returned, UtilInv
<1>7. CASE EndOfUtil \/ EndOfSpeed \/ (at \in {"util", "speed"} /\ app_error) \/ EndOfLibc
           \/ EndOfTests \/ PrintResults \/ Timeout \/ StartTrace
  BY <1>7 DEF EndOfUtil, EndOfSpeed, app_error, EndOfLibc, EndOfTests, PrintResults,
              Timeout, StartTrace, UtilInv
<1>. QED BY <1>1, <1>2, <1>3, <1>4, <1>5, <1>6, <1>7 DEF Next, UtilInv

\* The utilisation is computed from the true high water mark: the total that
\* the requests add to and take from is the sum of the sizes in use, whatever
\* the trace.
THEOREM UtilIsOfTheHighWater == Spec => []UtilIsHighWater
<1>1. Init => UtilInv
  BY DEF Init, UtilInv
<1>2. EvalInv /\ UtilInv /\ [Next]_vars => UtilInv'
  BY UtilStep
<1>3. UtilInv => UtilIsHighWater
  BY DEF UtilInv, UtilIsHighWater
<1>. QED BY <1>1, <1>2, <1>3, EvalInvariance, PTL DEF Spec

=============================================================================
