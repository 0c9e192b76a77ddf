------------------------------ MODULE Mdriver ------------------------------
(***************************************************************************)
(* The allocators' test driver (src/Malloclab/mdriver.c) with an allocator *)
(* that may be wrong: run_tests over a few traces, eval_mm_valid with its  *)
(* list of ranges and its random data, eval_mm_util, and the alarm that    *)
(* interrupts them.  A trace is any sequence of requests that allocates    *)
(* and frees its blocks in turn; one step is one request.                  *)
(***************************************************************************)
EXTENDS Integers, Sequences, FiniteSetsExt, SequencesExt

CONSTANTS
  Ids,        \* the indices of a trace's blocks
  Sizes,      \* sizes its requests ask for
  NumTraces,  \* num_tracefiles without -c
  ALIGNMENT,
  HeapLo, HeapHi,  \* the first and the last byte of the heap
  MaxFaults,  \* calls of the allocator that may go wrong in one trace
  Options     \* records [debug_mode, ignore_ranges, onetime_flag, set_timeout, run_libc]

NULL == 0

ASSUME MdriverAssumption ==
  /\ Sizes \subseteq Nat \ {0} /\ \E s \in Sizes : \A t \in Sizes : s >= t
  /\ {NumTraces, ALIGNMENT, HeapLo, HeapHi} \subseteq Nat \ {0} /\ IsFiniteSet(Ids)
  /\ MaxFaults \in Nat
  /\ \A o \in Options : o.debug_mode \in {"none", "cheap", "expensive"}

VARIABLES
  opt,        \* the options of this run; ignore_ranges is in the trace files
  at,         \* where main is
  i,          \* the trace run_tests is at
  jmp,        \* timeout_jmpbuf: "unset", "run_tests", or "gone" with its frame
  alarm,      \* the alarm: "off", "set" or "rung"
  timed_out,
  errors,     \* errors # 0
  stats,      \* for each trace: valid, and whether util and secs were measured
  block,      \* for each index blocks, block_sizes and block_rand_base
  ranges,     \* the list of ranges, its head first
  mem,        \* the bytes of memory that belong to payloads
  total_size, max_total_size,
  live,       \* history: the blocks of the trace
  faults,     \* history: wrong calls in this trace
  reported,   \* history: an error was reported in this trace
  peak        \* history: the largest sum of the blocks' sizes

main   == <<opt, i, jmp, alarm, timed_out, stats>>
trace  == <<block, ranges, mem, live, faults, reported>>
util   == <<total_size, max_total_size, peak>>
vars   == <<main, at, errors, trace, util>>

Addresses == 0 .. HeapHi + 1 + Max(Sizes)
Pointers  == 0 .. HeapHi + 1

Extent(b) == b.at .. b.at + b.size - 1

(***************************************************************************)
(* The list of ranges.                                                     *)
(***************************************************************************)
\* With DBG_NONE or ignore_ranges there is no list.
KeepsRanges == opt.debug_mode # "none" /\ ~opt.ignore_ranges

Misplaced(b) ==
  b.at % ALIGNMENT # 0 \/ ~({b.at, b.at + b.size - 1} \subseteq HeapLo .. HeapHi)

\* Does the new payload begin or end in an old one?
Overlaps(rs, b) ==
  \E n \in DOMAIN rs : {b.at, b.at + b.size - 1} \cap (rs[n].lo .. rs[n].hi) # {}

Rejected(rs, b) == Misplaced(b) \/ (KeepsRanges /\ Overlaps(rs, b))

add_range(rs, b, index) ==
  IF KeepsRanges THEN <<[lo |-> b.at, hi |-> b.at + b.size - 1, index |-> index]>> \o rs
  ELSE rs

\* Variant: the list is cut behind its head, not behind the entry before.
remove_rangeAndNewer(rs, lo) ==
  LET found == {n \in DOMAIN rs : rs[n].lo = lo}
  IN  IF found = {} THEN rs ELSE SubSeq(rs, Min(found) + 1, Len(rs))

remove_range(rs, lo) ==
  LET found == {n \in DOMAIN rs : rs[n].lo = lo}
  IN  IF found = {} THEN rs ELSE RemoveAt(rs, Min(found))

(***************************************************************************)
(* The random data.  A byte is its place in the data, so that no two are   *)
(* the same: the block it is for, whether the block was given its base an  *)
(* even or odd number of times, the offset.  Bytes outside the blocks are  *)
(* the allocator's, which may write there what it likes.                   *)
(***************************************************************************)
NoByte == <<>>

Data(b, index) == [k \in 0 .. b.size - 1 |-> <<index, b.base, k>>]

check_index(m, b, index) ==
  opt.debug_mode # "none"
    /\ \E k \in DOMAIN Data(b, index) : m[b.at + k] # Data(b, index)[k]

randomize_block(m, b, index) ==
  IF opt.debug_mode = "none" THEN m
  ELSE [a \in Addresses |-> IF a \in Extent(b) THEN Data(b, index)[a - b.at] ELSE m[a]]

Reused(m, bs, ids) ==
  [a \in Addresses |-> IF \E j \in ids : a \in Extent(bs[j]) THEN m[a] ELSE NoByte]

\* The check of all blocks in the list before each request.
CheckedAll ==
  opt.debug_mode = "expensive"
    /\ \E n \in DOMAIN ranges : check_index(mem, block[ranges[n].index], ranges[n].index)

(***************************************************************************)
(* The allocator.  An answer is a pointer and a byte of the program's that *)
(* the allocator has overwritten or failed to copy, or NULL for none.  At  *)
(* most one of them is wrong.                                              *)
(***************************************************************************)
CellsOf(ids) == UNION {Extent(block[j]) : j \in ids}

Right(b, index) == ~Misplaced(b) /\ Extent(b) \cap CellsOf(live \ {index}) = {}

Answers(size, index, copied) ==
  LET new(p)   == [at |-> p, size |-> size]
      right    == IF size = 0 THEN {NULL} ELSE {p \in Pointers : Right(new(p), index)}
      hits(p)  == CellsOf(live \ {index}) \cup (p .. p + copied - 1)
  IN  {[p |-> p, hit |-> NULL, wrong |-> p \notin right] : p \in Pointers}
      \cup UNION {{[p |-> p, hit |-> h, wrong |-> TRUE] : h \in hits(p)} : p \in right}

Hit(m, a) == IF a.hit = NULL THEN m ELSE [m EXCEPT ![a.hit] = NoByte]

\* realloc has copied the first n bytes.
Copied(m, from, to, n) ==
  [a \in Addresses |-> IF a \in to .. to + n - 1 THEN m[from + (a - to)] ELSE m[a]]

(***************************************************************************)
(* eval_mm_valid.                                                          *)
(***************************************************************************)
Unused == [at |-> NULL, size |-> 0, base |-> 0]

\* What the evaluations begin with: reinit_trace, clear_ranges, mem_reset_brk.
Reinitialized ==
  /\ block' = [j \in Ids |-> Unused] /\ ranges' = <<>>
  /\ mem' = [a \in Addresses |-> NoByte]
  /\ live' = {} /\ faults' = 0 /\ reported' = FALSE
  /\ total_size' = 0 /\ max_total_size' = 0 /\ peak' = 0

malloc_error(found, wrong) ==
  /\ errors' = (errors \/ found) /\ reported' = (reported \/ found)
  /\ faults' = IF wrong THEN faults + 1 ELSE faults
  /\ faults' <= MaxFaults

\* eval_mm_valid has returned; with -c the driver looks no further.
Returned(valid) ==
  /\ stats' = [stats EXCEPT ![i].valid = valid]
  /\ at' = IF opt.onetime_flag THEN "results" ELSE IF valid THEN "util" ELSE "deinit"
  /\ jmp' = IF opt.onetime_flag THEN "gone" ELSE jmp
  /\ UNCHANGED <<opt, i, alarm, timed_out>>

\* An error ends the evaluation.
Fails(wrong) ==
  /\ malloc_error(TRUE, wrong) /\ Returned(FALSE)
  /\ UNCHANGED <<block, ranges, mem, live, util>>

\* The request is done: block index is b now, the list rs, the memory m.
Done(index, b, rs, m, ids) ==
  /\ block' = [block EXCEPT ![index] = b]
  /\ ranges' = rs /\ live' = ids
  /\ mem' = Reused(m, block', ids)
  /\ UNCHANGED <<main, at, util>>

Based(b, index) == [at |-> b.at, size |-> b.size, base |-> 1 - block[index].base]

Alloc(index) ==
  /\ at = "valid" /\ index \notin live
  /\ \E size \in Sizes : \E a \in Answers(size, index, 0) :
       LET b == Based([at |-> a.p, size |-> size], index) IN
       IF a.p = NULL \/ Rejected(ranges, b) THEN Fails(a.wrong)
       ELSE /\ malloc_error(CheckedAll, a.wrong)
            /\ Done(index, b, add_range(ranges, b, index),
                    randomize_block(Hit(mem, a), b, index), live \cup {index})

\* Variant: as much is checked as the old block had.
CheckedSizeOld(old, size) == old

\* Up to min(size, oldsize).
CheckedSize(old, size) == IF size < old THEN size ELSE old

Realloc(index) ==
  /\ at = "valid" /\ index \in live
  /\ \E size \in Sizes \cup {0} :
     LET old  == block[index]
         kept == Min({size, old.size})
     IN  \E a \in Answers(size, index, kept) :
         LET b      == Based([at |-> a.p, size |-> size], index)
             rs     == remove_range(ranges, old.at)
             m      == Hit(Copied(mem, old.at, a.p, kept), a)
             moved  == [old EXCEPT !.at = a.p, !.size = CheckedSize(@, size)]
         IN  IF (a.p = NULL) # (size = 0) \/ (size > 0 /\ Rejected(rs, b))
             THEN Fails(a.wrong)
             ELSE /\ malloc_error(\/ CheckedAll \/ check_index(mem, old, index)
                                  \/ check_index(m, moved, index), a.wrong)
                  /\ Done(index, b, IF size > 0 THEN add_range(rs, b, index) ELSE rs,
                          randomize_block(m, b, index), live)

\* Variant: the block is not looked at any more.
LastCheckNone(index) == FALSE

\* The check of a block before it is freed.
LastCheck(index) == check_index(mem, block[index], index)

\* blocks and block_sizes keep their values, which are not used again.
Free(index) ==
  /\ at = "valid" /\ index \in live
  /\ \E h \in {NULL} \cup CellsOf(live \ {index}) :
       /\ malloc_error(CheckedAll \/ LastCheck(index), h # NULL)
       /\ Done(index, [Unused EXCEPT !.base = block[index].base],
               remove_range(ranges, block[index].at),
               Hit(mem, [hit |-> h]), live \ {index})

\* "f -1": the driver calls mm_free(0).
FreeNull ==
  /\ at = "valid"
  /\ \E h \in {NULL} \cup CellsOf(live) :
       /\ malloc_error(CheckedAll, h # NULL)
       /\ mem' = Hit(mem, [hit |-> h])
  /\ UNCHANGED <<main, at, block, ranges, live, util>>

EndOfTrace ==
  /\ at = "valid"
  /\ Returned(TRUE)
  /\ IF at' = "util" THEN Reinitialized ELSE UNCHANGED <<trace, util>>
  /\ UNCHANGED errors

(***************************************************************************)
(* eval_mm_util and eval_mm_speed.  The blocks are where they are; what    *)
(* counts is their sizes.  A call that fails ends the driver.              *)
(***************************************************************************)
app_error == at' = "exit" /\ UNCHANGED <<main, errors, trace, util>>

SizesOf(bs, ids) == MapThenSumSet(LAMBDA j : bs[j].size, ids)

Tallied(index, size, change, ids) ==
  /\ block' = [block EXCEPT ![index].size = size]
  /\ live' = ids
  /\ total_size' = total_size + change
  /\ max_total_size' = Max({total_size', max_total_size})
  /\ peak' = Max({peak, SizesOf(block', ids)})
  /\ UNCHANGED <<main, at, errors, ranges, mem, faults, reported>>

UtilAlloc(index) ==
  /\ at = "util" /\ index \notin live
  /\ \E size \in Sizes : Tallied(index, size, size, live \cup {index})

\* Variant: the old size stays in the total.
GrowthAll(new, old) == new

Growth(new, old) == new - old

UtilRealloc(index) ==
  /\ at = "util" /\ index \in live
  /\ \E size \in Sizes \cup {0} :
       Tallied(index, size, Growth(size, block[index].size), live)

UtilFree(index) ==
  /\ at = "util" /\ index \in live
  /\ Tallied(index, block[index].size, -block[index].size, live \ {index})

EndOfUtil ==
  /\ at = "util" /\ at' = "speed"
  /\ stats' = [stats EXCEPT ![i].util = TRUE]
  /\ UNCHANGED <<opt, i, jmp, alarm, timed_out, errors, trace, util>>

EndOfSpeed ==
  /\ at = "speed" /\ at' = "deinit"
  /\ stats' = [stats EXCEPT ![i].secs = TRUE]
  /\ UNCHANGED <<opt, i, jmp, alarm, timed_out, errors, trace, util>>

(***************************************************************************)
(* run_tests and main.                                                     *)
(***************************************************************************)
NoStats == [valid |-> FALSE, util |-> FALSE, secs |-> FALSE]

Init ==
  /\ opt \in Options
  /\ at = IF opt.run_libc THEN "libc" ELSE "start"
  /\ i = 1 /\ jmp = "unset" /\ timed_out = FALSE /\ errors = FALSE
  /\ alarm = IF opt.set_timeout THEN "set" ELSE "off"
  /\ stats = [t \in 1 .. NumTraces |-> NoStats]
  /\ block = [j \in Ids |-> Unused] /\ ranges = <<>> /\ live = {}
  /\ mem = [a \in Addresses |-> NoByte]
  /\ faults = 0 /\ reported = FALSE
  /\ total_size = 0 /\ max_total_size = 0 /\ peak = 0

EndOfLibc ==
  /\ at = "libc" /\ at' = "start"
  /\ UNCHANGED <<main, errors, trace, util>>

\* mem_init, setjmp and read_trace; nothing is evaluated once the alarm has rung.
StartTrace ==
  /\ at = "start"
  /\ at' = IF timed_out THEN "deinit" ELSE "mm_init"
  /\ jmp' = "run_tests"
  /\ Reinitialized
  /\ UNCHANGED <<opt, i, alarm, timed_out, errors, stats>>

\* The allocator's mm_init succeeds or fails.
MmInit ==
  /\ at = "mm_init"
  /\ \/ at' = "valid" /\ UNCHANGED <<main, errors, trace, util>>
     \/ Fails(TRUE)

Files == IF opt.onetime_flag THEN 1 ELSE NumTraces

\* mem_deinit, and the next trace or the end of run_tests.
EndOfTests ==
  /\ at = "deinit"
  /\ IF i < Files THEN i' = i + 1 /\ at' = "start" /\ jmp' = jmp
                  ELSE i' = i /\ at' = "results" /\ jmp' = "gone"
  /\ UNCHANGED <<opt, alarm, timed_out, errors, stats, trace, util>>

\* The performance index is printed: 0 after errors.
PrintResults ==
  /\ at = "results" /\ at' = "printed"
  /\ UNCHANGED <<main, errors, trace, util>>

\* errors after the handler.  Variant: a timeout is not counted.
TimeoutLeaves(errs) == errs

TimeoutSets(errs) == TRUE

\* The handler jumps to the last setjmp of run_tests, from where the trace is
\* read again and counts as invalid.  Before the first setjmp, and when
\* run_tests has returned, there is nowhere to jump to.
Timeout ==
  /\ alarm = "set" /\ alarm' = "rung"
  /\ at \notin {"printed", "exit", "undefined"}
  /\ errors' = TimeoutSets(errors)
  /\ IF jmp # "run_tests"
     THEN at' = "undefined" /\ UNCHANGED <<timed_out, stats>>
     ELSE at' = "deinit" /\ timed_out' = TRUE /\ stats' = [stats EXCEPT ![i].valid = FALSE]
  /\ UNCHANGED <<opt, i, jmp, trace, util>>

Next ==
  \/ \E index \in Ids : \/ Alloc(index) \/ Realloc(index) \/ Free(index)
                        \/ UtilAlloc(index) \/ UtilRealloc(index) \/ UtilFree(index)
  \/ MmInit \/ FreeNull \/ EndOfTrace
  \/ EndOfUtil \/ EndOfSpeed
  \/ at \in {"util", "speed"} /\ app_error
  \/ EndOfLibc \/ StartTrace \/ EndOfTests \/ PrintResults \/ Timeout

Spec == Init /\ [][Next]_vars

(***************************************************************************)
(* Properties.                                                             *)
(***************************************************************************)
\* An allocator that is right is not accused: eval_mm_valid reports an error,
\* or calls a trace invalid, only when some call went wrong.
NoFalseAlarm ==
  /\ reported => faults > 0
  /\ at = "deinit" /\ ~timed_out /\ ~stats[i].valid => faults > 0

\* Whatever goes wrong in a trace that frees all its blocks is reported in that
\* trace: also an overlap that add_range does not see, or with ignore_ranges
\* does not look for, for the bytes of one of the two blocks are lost then.
WrongIsFound ==
  at = "valid" /\ opt.debug_mode # "none" /\ faults > 0
    /\ (\A j \in live : block[j].size = 0)
  => reported

\* The list holds the payloads of the trace's blocks, each once, and when two
\* overlap, the later one encloses the earlier one, which is the overlap that
\* add_range does not look for.
RangesSound ==
  at = "valid" /\ KeepsRanges =>
    /\ Len(ranges) = Cardinality(ToSet(ranges))
    /\ ToSet(ranges) =
         {[lo |-> block[j].at, hi |-> block[j].at + block[j].size - 1, index |-> j] :
            j \in {l \in live : block[l].size > 0}}
    /\ \A m, n \in DOMAIN ranges :
         m < n /\ ranges[m].lo <= ranges[n].hi /\ ranges[n].lo <= ranges[m].hi
           => ranges[m].lo < ranges[n].lo /\ ranges[n].hi < ranges[m].hi

\* The total that requests and frees add up to is the sum of the sizes of the
\* blocks in use, and its maximum is the high water mark utilisation is
\* computed from.
UtilIsHighWater ==
  at = "util" => total_size = SizesOf(block, live) /\ max_total_size = peak

\* A performance index other than 0 stands for all traces: each was valid, and
\* its utilisation and its time were measured, whenever the alarm rang.
IndexStandsForAll ==
  at = "printed" /\ ~errors /\ ~opt.onetime_flag =>
    \A t \in DOMAIN stats : stats[t] = [valid |-> TRUE, util |-> TRUE, secs |-> TRUE]

=============================================================================
