# Formal models of ICS-lab

The repository holds one student's solutions to the labs of the ICS (CS:APP)
course, with the handouts' drivers: a shell, a storage allocator, a cache
simulator, a pipelined processor and bit puzzles. They are separate programs.
This directory holds TLA+ models of them, the TLC runs that check the models and
TLAPS proofs about them. `PROJECT.json` lists the runs, the theorems, and for
every definition the lines of code it stands for.

## 1. Inventory

### tshlab: the tiny shell (`src/tshlab/tsh.c`)

One thread runs `main`, `eval` and `waitfg`; `sigchld_handler`, `sigint_handler`
and `sigtstp_handler` interrupt it, and one another, whenever their signal is not
blocked. They share, without locks,

- `job_list`, a fixed array of `MAXJOBS` entries (pid, job ID, state), and
  `nextjid`;
- the kernel's table of the shell's children, which `fork`, `kill` and `waitpid`
  change and which changes by itself when a child dies, stops or is continued.

The only synchronisation is the signal mask: `eval` blocks SIGCHLD, SIGINT and
SIGTSTP from before `fork` until after `addjob`, and `sigchld_handler` blocks
everything around each change of the list. Hard: every order of those steps, a
child that dies before it is recorded, signals that merge, pointers and pids held
across an interruption, the window between `waitfg`'s test and its sleep, a full
list, job IDs that wrap. Correct means: list and process table agree, every
foreground command is waited for, every dead child is reaped once, a forwarded
signal hits only the foreground job, a job ID names one job.

### tshlab: test driver (`runtrace.c`, `sdriver.c`)

`sdriver` runs `runtrace` on each trace with the reference shell and with `tsh`
and compares the output; `runtrace` feeds lines to the shell and synchronises
with the test programs over a socket pair (WAIT, SIGNAL, NEXT), with a timeout
for every answer. It keeps no state but its place in the trace; which line the shell's
output belongs to it knows from the prompts alone. Hard: a late answer
against a timeout, a test program that dies before it answers, output of background
jobs and handlers between the shell's, everybody waiting for everybody. Correct
means: a shell that does what it should prints the same in every run, and every
run ends.

### Malloclab (`mm.c`, `memlib.c`, `mdriver.c`)

`mm.c` keeps blocks with header and footer words in one growing heap
(`mem_sbrk`), fourteen doubly linked lists of free blocks by size, best fit,
splitting and immediate coalescing; `realloc` coalesces in place first.
`mdriver.c` runs the allocator on trace files: it checks every returned block for
alignment, bounds and overlap with the payloads in its list of ranges, fills the
payload with random bytes that it looks at again when the block is reallocated or
freed, measures utilisation and time, and may set an alarm that cuts all this
short. Hard: long sequences of calls that leave lists, tags and blocks
inconsistent; calls that fail half way (`realloc`, line 440); 32-bit offsets
(line 82). Correct means: payloads are disjoint, inside the heap, keep their
contents, and the free lists are exactly the free blocks; the driver finds what an
allocator does wrong and accuses none that is right.

### cachelab (`csim.c`, `trans.c`)

`csim.c` simulates a set-associative cache: an array of lines per set with valid
bit, tag and the clock of the last use, and counts hits, misses and evictions.
Correct means: the lines of a set are the E most recently used tags, whatever
line they are kept in. `trans.c` transposes matrices block by block.

### Archlab (`isa.c`, `ssim.c`, `psim.c`, `seq-full.hcl`, `pipe-full.hcl`)

The Y86-64 machine three times: `step_state` of `isa.c` executes one instruction;
`ssim.c` with the equations of `seq-full.hcl` does the same in the stages of a
single-cycle processor; `psim.c` with `pipe-full.hcl` keeps up to five instructions
in pipe registers, forwards operands, predicts jumps as taken, stalls and bubbles.
`run_tty_sim` runs a simulator on a program and, with `-t`, `step_state` on a copy of
it, and compares registers, memory and condition codes. Correct means: a simulator
goes through the states of `step_state`, in program order, and stops where it
stops; the counters the CPI is printed from are right. Hard: combinations of
hazards in one cycle, exceptions with older and younger instructions under way,
instructions on the wrong path that ask for stalls of their own.

### Archlab: the assembler (`yas.c`, `yas-grammar.lex`, `isa.c`)

`yas` translates a `.ys` source to the `.yo` file the simulators load. It reads the
source twice with the same flex scanner: pass 1 collects labels, pass 2 emits code.
`finish_line` handles the tokens of one line; errors are reported and set
`hit_error`, and most of the time the pass goes on. Correct means: both passes find
each line at the same address, labels stand for these addresses, the exit status
tells whether the source was in order, and `load_mem` puts into memory what the
source says. Hard: state that survives a line (tokens, code bytes) or a pass (the
scanner's start condition), and the formats of addresses.

### Lab1-datalab (`bits.c`, `tests.c`, `btest.c`, `decl.c`)

Sixteen pure functions on 32-bit integers and floats, each with a straightforward
test function; `btest` runs both on generated arguments and compares. Correct
means: equal on every argument, at the extremes too. Hard: carries and overflow,
rounding, and the arguments the generator leaves out.

### Not to be modelled

The bomb and attack labs hold binaries and answers; `csapp.c` is the textbook's
library; the flex/bison output, Tk and Perl scripts, timing code and trace files have no
logic of this repository's own. The earlier versions of the allocator are near copies
of `mm.c` or the handout's examples, and are not built. `trans.c` and the pipeline's
variants are straight-line code for fixed sizes and skeletons of exercises. What is left
out of a component that is modelled (options, file syntax, printing, windows) is said
in its section. These parts make up most of the repository's lines, which is why the
models stand for a small share of them. `PROJECT.json` gives the reason for each.

## 2. Plan

| order | modules | what | status |
| --- | --- | --- | --- |
| 1 | `JobList`, `Tsh`, `JobControl` | the shell and its abstract specification | done |
| 1 | `TshProofs` | its proofs | done |
| 2 | `Csim`, `Lru`, `CsimProofs` | the cache simulator, the cache it simulates, proofs | done |
| 3 | `SegLists`, `Mm`, `Allocator` | the allocator at word level, refining an abstract allocator that only knows which blocks are live and what they hold; `mm_checkheap` as invariant | done |
| 3 | `MmProofs` | the blocks tile the heap, the lists hold the free ones, the others are the program's with what it stored in them; the heap grows only when it must | done |
| 4 | `Isa`, `Arch`, `Seq`, `Pipe`, `Simulate`, `SimProps` | the instruction set, both simulators and their check; each implements `Arch` | done |
| 4 | `SimProofs` | the control logic, the refinement, the comparison and the counters, for every program that fits | done |
| 5 | `TestPrograms`, `TestShell`, `RunTrace` | the driver with the shell and the test programs | done |
| 5 | `RunTraceProofs` | prompts and lines stay matched, for every trace | done |
| 6 | `Words`, `Bits`, `BitsTests`, `Btest` | the bit puzzles, their test functions and the harness | done |
| 6 | `BitsProofs` | all sixteen puzzles equal to their test functions on every word; `btest` finds no error | done |
| 7 | `Yas`, `YasProps` | the assembler and the loader | done |
| 7 | `YasProofs` | both passes agree, the exit status and the image are right, for every source | done |
| 8 | `Mdriver` | the allocators' test driver with an allocator that may be wrong | done |
| 8 | `MdriverProofs` | what the driver's verdicts are worth, for every heap and trace | done |

The invariants of the runs that have no theorem are `OutputAsExpected` and `SignalFindsJob`,
which are about particular traces (section 7).

## 3. The shell

### Modules

- `JobList`: the array and its routines as operators from a list to a value or
  to the list they leave behind. `addjob(jl, nj, p, s)` is the array after
  `addjob`, `NextJidAfterAdd` what it leaves in `nextjid`, and so on.
- `Tsh`: the shell, its handlers, its children and the keyboard.
- `JobControl`: what the shell promises, without signals or handlers. It knows
  for every child what has become of it (`life`) and what the list says of it
  (`rec`).
- `MCTsh`: the symmetry set for TLC.

### State and code

| variable | code |
| --- | --- |
| `jobs`, `nextjid` | `job_list`, `nextjid` |
| `pc`, `cmd` | where `main`/`eval`/`waitfg` is; `eval`'s locals (kind of command, job pointer, pid, `prec_one`) |
| `blocked`, `pending` | the main thread's signal mask; signals posted and not delivered |
| `stack`, `hpc`, `hpid` | running handlers, innermost first; where each is; its local `pid` |
| `proc` | the kernel's state of each child |
| `dropped` | history: children for which `addjob` had no entry |

A step is what lies between two accesses to state somebody else can change.
`fork`, `addjob` and the unblocking are three steps, because a child can die in
between, but no handler can run there; that is the code's mask, not the model's
grain. `Getjob`, the `kill` (which reads `job->pid` again) and the assignment to
`job->state` are three steps of `fg`. `listjobs` reads the pid and the state of
each entry in two. In `sigchld_handler` the `waitpid` and the update, which runs
with every signal blocked, are two. `fgpid` is one step: no handler makes an
entry FG, so a scan that is interrupted finds what a scan at its last read would
have found, but for an entry cleared between the two reads of line 829 and 830.

Handlers nest as `Signal()` installs them, with an empty `sa_mask`: a handler
blocks only its own signal. `sigsuspend` ends when a handler has run
(`Wake`), and `waitfg` tests again.

The kernel and the children are not this repository's code. A child is `forked`
(still in the shell's group, before `setpgid`), `running`, `stopping` (stopped,
not reported by `waitpid` yet), `stopped`, `resumed`, or dead. It may exit, die of
a signal, stop itself and be continued by anybody. A SIGINT, SIGTSTP or SIGTERM
may be caught. Pids are reused as soon as they are reaped.

Left out: the text of command lines and of all output (so the number announced at
line 419 is not modelled), `verbose`, the options of `main`, SIGQUIT, and a second
process in a job's group. `nohup` differs from a plain command only in SIGHUP.

### Runs

| run | bounds | shows |
| --- | --- | --- |
| `shell_safety` | all commands, 2 entries, 2 pids, `JidBound` 2 | `Recorded`, `NoStaleEntry`, `UniquePids`, `ForwardOnlyToForeground`, `FreshUnlessWrapped`, `EveryJobIsNameable`; every step is one of `JobControl` or a stutter |
| `shell_foreground` | `run`, `runbg`, `kill`; 2 entries, 3 pids | `OneForeground`, `StopRecorded`, `RunIsWaitedFor` |
| `shell_reaping` | background commands, fairness | `DeadAreReaped` |

`JidBound` only stops new jobs from being started when `nextjid` exceeds it.
Two children are enough for one to be reaped while another is launched, killed
or waited for, and for a pid to be used again; three for two entries to be full
when another command is typed. Two entries are enough for the ID to wrap. Symmetry in `Pids` is sound because no property of those
runs compares a pid with a job ID; the liveness run uses none. Runs about the
shell do not check deadlock: the shell may exit.

`shell_foreground` leaves out `fg`, because with it the properties fail (see the
findings): they hold of the program as long as the user does not type `fg`.

Fairness: a deliverable signal is delivered (weak), and the code of the shell and of
its handlers, interrupted again and again, still gets on (strong): the
kernel schedules the process. `SF(Waitpid(p))` says that `waitpid(-1)` does not
pass over the same dead child for ever. Nothing is assumed of the user or the
programs.

### Findings

It is a run that TLC ends with a counterexample; `PROJECT.json` quotes the lines.

- `lost_wakeup`: `waitfg` tests, the child dies and is reaped, `waitfg` sleeps.

The model has more divergences that no run is spent on. `fg` writes FG over what the
handler has stored since its SIGCONT, so that two jobs may be in the foreground,
against "At most 1 job can be in the FG state" (tsh.c:49). `kill` reads `job->pid`
again after `Getjob` (tsh.c:470); when the child has been reaped in between, it is 0
and the shell signals its own group and dies. When the list is full, the
child has been forked already: a foreground command without an entry is not waited
for (`RunIsWaitedFor` excepts it). `nextjid` wraps to an ID in use, so that two
jobs may have the same (`FreshUnlessWrapped` says when they do not). The PID branch
of `Getjob` looks its argument up as a job ID (tsh.c:334). A ctrl-c that the handler
forwards before the child's `setpgid` finds no group and is lost.

### Proofs

For every number of entries, every set of pids and every set of commands:

- `TshProofs!Invariance`: `IInv` holds always. The safety invariants are not
  inductive by themselves. That `addjob` never records a child already reaped
  rests on the mask (`Masked`: no handler runs or can start from `fork` to
  `addjob`) and on `LaunchedIsNew`; that the reaper deletes the right entry, on
  `HandlersNest` (each handler is on the stack at most once) and
  `HandlerLocals` (what it holds is free in the kernel). `JobPointer` keeps
  `eval`'s pointer inside the array. From it: `TypeCorrect`, `ChildrenRecorded`,
  `EntriesNotStale`, `PidsUnique`, `ForwardingSound`.
- `TshProofs!Implements`: the shell implements `JobControl`. The mapping
  counts a child as dead until its entry is deleted, so `Waitpid` is a stutter and
  `ReapJob` is `Forget`; `AddJob` is `Record`, or a stutter when the list is full.
- `TshProofs`: IDs are fresh between wrap-arounds (`FreshJids`), and every job can be
  named (`JobsNameable`): a free entry has the ID 0 and a used one never does,
  whatever `fg` wrote into its state. Neither depends on which steps call `addjob`
  and `deletejob` when, so the argument needs no more than `TypeOK`.
- `TshProofs!ForegroundIsWaitedFor`, `WaitsForForeground`: `OneForeground` and
  `RunIsWaitedFor`, for shells whose user does not type `fg`. What is inductive is that
  an entry is FG only while `eval` is between `addjob` and the end of `waitfg` on behalf
  of the command with that pid (`RunInForeground`), and that the locals fit the place
  `eval` is at (`LocalsFitPc`): `bg` and `kill` cannot be there at the same time, and
  handlers only clear entries or mark them stopped.
- `TshProofs!StopsRecorded`: `StopRecorded`, without `fg` and `bg`. A stop is reported by one
  handler at a time, and no entry becomes anything but stopped or free afterwards.

`fg` and `bg` have to be excluded in the last two: they store a state after the
handler may have stored another (tsh.c:449), and with them the properties are false.

Assumptions: `MAXJOBS` is positive, 0 is no pid, `Commands` are commands.
Only model-checked: the liveness property (out of the prover's reach).

## 4. The cache simulator

### Modules

- `Csim`: `Run_Cache` and `Cache_Usage` over the array of lines. `ReadLine` is one
  turn of the loop in `Run_Cache` up to its calls; each call of `Cache_Usage` is
  one step, a `Hit`, a `Fill` or an `Evict`.
- `Lru`: a cache that only knows which blocks it holds and when each was used.
- `MCCsim`: the addresses for TLC.

| variable | code |
| --- | --- |
| `Cache_Mem`, `Cache_clock` | the lines (Valid, LRUTag, Tag) of each set; the static counter |
| `hit_count`, `miss_count`, `evict_count` | the counters `Report` increments |
| `todo` | the calls of `Cache_Usage` the current trace line has left: two for `M` |
| `last` | history: the number of each block's last use |

`S` and `B` are `1 << s` and `1 << b`; addresses of a trace are not negative, so
that shifting is dividing and masking is taking the remainder. `init_Cache` clears
`Valid` only: `LRUTag` and `Tag` start with anything in `Garbage`, the tag that is
looked for included. `Cache_clock` is an `int` whose overflow is undefined;
`ClockBound` stands for the largest one and the model takes no use beyond it.
Left out: the options (they are the constants), the verbose output, opening and
closing the trace.

### Run

`cache_lru`: two sets of two lines, four blocks that compete for one set and one in
the other, with a tag that set 0 has too; every trace of six uses. Six are
enough to fill a set, evict, bring the evicted block back and use the others in
between in any order. `KeepsMostRecent` says what a set holds, `CountsAgree` that
the summary adds up, `ImplementsLru` that hits, misses and evictions are counted
exactly when the cache of `Lru` has them. The trace ends when the bound is
reached, so deadlock is not checked.

### Proofs

`CsimProofs`, for every geometry, every set of addresses and every content of
uninitialised memory. `KeepsMostRecent` speaks of blocks and of the history `last`;
the code decides by the stamps of lines. `IInv` ties them together: a
valid line holds one block of the trace and its stamp is that block's last use
(`LinesStamped`), no block is in two lines (`OneLinePerBlock`), no two uses have the
same time (`UseTimes`), and what is not in a line was used before everything that
is (`MostRecentByLine`). A use stamps one line, chosen in one of three ways
(`UsageStamps`); the only block that can leave is the one in the evicted line, which
is the oldest, and no other line has the same stamp. From it: `TypeCorrect`,
`CountsRight`, `MostRecentKept`.

`Implements`: the simulator implements `Lru`. The blocks a set holds and its valid lines
are as many (`HeldCardinality`: the tag of a line is a bijection), so that a set is full for
the one when it is for the other; a use then is a hit, a fill or an eviction in
both (`UsageImplements`), and the block evicted is the one used longest ago.

Assumptions: `S`, `B` and `E` are positive, addresses are natural numbers.

## 5. The allocator

### Modules

- `SegLists`: the heap of `mm.c` word by word, and its routines as operators from
  a heap `[mem, brk, bp]` to a heap; `bp` is the pointer that goes in or comes out.
  `mm_checkheap` is there too.
- `Mm`: `malloc`, `free`, `realloc` and `calloc`, and the program that calls them.
- `Allocator`: what that program is promised. Its only state is, for every name,
  where the block is and which words it holds.
- `MCMm`: the instances for TLC.

| variable | code |
| --- | --- |
| `mem`, `brk` | the words of the simulated heap; `mem_brk` (`tail_rp` always equals it) |
| `block` | the driver's `blocks` and `block_sizes`, with the words it expects to find |
| `stopped` | `eval_mm_valid` has returned because `realloc` failed, or `calloc` has written to NULL; or `realloc` was given a size that wraps |
| `wrapped` | history: it was that |

Nothing here is concurrent, so a step is one call together with what the program
then writes. The program is `eval_mm_valid` without a trace: it calls anything for
any block, fills what it gets and expects to find it again. It goes further than
the driver where that asks more of the allocator: it goes on when `malloc` returns
NULL, keeps the old contents after `realloc`, calls `calloc`, and may ask for any
`size_t` (`read_trace` reads a size into an int, so that one just below 2^32 becomes one just
below 2^64, mdriver.c:757, 824). Pointers
are offsets from `heap_p`, as `mm.c` stores them. Sizes are multiples of a word; the
rounding of `Need` is that of the code, and its sum is taken modulo `SizeModulus`, the
number of values of a `size_t`. `first_fit` is never called and not modelled.
`sbrk` may refuse at any time. Memory is not cleared when the heap is reset:
`InitialWords` is what may be in it.

`mm.c:430` calls `memcpy` on regions that overlap, which is undefined. `memcpy` here
copies words from the lowest address up or from the highest down (`CopyOrders`).

### Runs

`malloc_heap`: three names, sizes 8 and 24 (blocks of 16 and 32 bytes), 0, and three
above `MAXSIZE`, two of which wrap (a `size_t` has 160 values: `Need(148)` is 0 and
`Need(156)` is 8); the heap starts with 32 bytes and may grow to 72 in steps of 16 or
more; copies go up. That is enough for a block to be combined on either side, on
both, split from a larger one, left whole because the rest would be too small,
moved down over itself, moved to a new block, and for requests to fail. Free
blocks of every size that appears (16 to 72) are in lists 1 to 5, several in the
small lists. Not reached with this heap: the choice among several blocks of
different sizes within a list of the doubling ranges, and lists 6 to 14.
`HeapOK` is `mm_checkheap`; it holds after failed calls as well, and is not asked of
what a wrapped `Dnum` leaves (below).
`BlocksOwned` says where the blocks are, and that nothing leaks;
`GrowsOnlyWhenNeeded` says that the lists that `best_fit` skips could not have held
the block; `ImplementsAllocator` that the program cannot tell the allocator from
`Allocator`, the contents of its blocks included. The program may stop, so deadlock is not checked.

### Known divergences

`realloc` combines and moves the block before it asks for memory (mm.c:425-440); when
it gets none the caller's pointer is no longer that of a block. The comments of the
handout's other allocators promise "If realloc() fails the original block is left
untouched" (mm-naive.c:108, mm-textbook.c:165). The model does what the code does and
the program stops there: `BlocksOwned` and `ImplementsAllocator` hold up to that
point, `HeapOK` beyond it.

`realloc` computes `Dnum` from its size in a `size_t` (mm.c:424) without the test
against `MAXSIZE` that `malloc` makes first (mm.c:369). For the last 15 values of a
`size_t` the sum wraps and `Dnum` is 0 or 1: instead of returning NULL, `realloc` calls
`place`, which cuts 0 or 8 bytes off the old block, or leaves it whole if the rest is too
small, and returns it for a payload that no heap could hold. `Wraps` and `Need` have this,
`Overrun` is what happens then. `eval_mm_valid` would get as far as `add_range`, where such a
size is a negative int and the assertion `size > 0` fails (mdriver.c:599); so the program
stops, `HeapOK` excepts the heap that is left (`wrapped`), and the other properties are about
running programs.

`mm.c:430` relies on a `memcpy` that copies up (which behaves as `memmove` would):
with `CopyOrders = {"up"}` everything holds, and that is what `malloc_heap` checks. With
"down" a block that moves by less than its size is garbled; the outcome is undefined in
C, so no run counts on it.

`calloc` without memory writes to NULL (mm.c:461); no document says what it should
do, and the model stops there.

### Proofs

For every size of the heap and the chunks, requests of any value of a `size_t` of any
width, every set of names, and, except for `KeepsPromise`, either order of `memcpy`:

- `MmProofs!HeapSound`: `HeapOK`, that is up to a `realloc` whose `Dnum` has wrapped. `mm_checkheap` walks: block by block up to the epilogue,
  and along each list. What a walk meets is no invariant a step can be shown to keep, so
  the proof replaces walks by sets. A heap is `Good` for a set `B` of addresses when
  `Tiles` holds: every member's size leads to another member or to the end, and no two
  overlap; when `Links` holds: every free member has a predecessor that points back to it
  in the list of its size, with ranks that grow along the links, so that no list has a
  cycle; and when no two free members touch. `BlockOK`, `SameTags`, `Untouched` say which
  words a block's tags are and that a routine left them alone.
- One lemma per routine says what it does to a `Good` heap: `DeleteHeap` and `AddHeap` for
  the lists, `TagHeap`, `SplitHeap`, `GrowHeap` and `Combine` for the tiling, `PlaceFront`,
  `CarveUp`, `Expand`, `BestFit` above them, then `MallocGives`, `FreeGivesBack`,
  `ReallocGives`. Each also says that the other allocated blocks keep every word.
- `GoodIsOK`: a `Good` heap passes `mm_checkheap`. A chain follows ranks that grow, so
  it is shorter than `MaxBlocks` (`ChainShort`, by pigeonhole: blocks are at least 16
  bytes) and meets every free block of its list (`ChainCovers`).
- Sizes. `NeedIsExact` and `SmallIsExact`: the sum does not wrap for what `malloc` goes on
  with. `WrappedNeed`, `ReallocWraps`: where it does, `realloc` of a block never fails and never
  asks for more heap, so that `GrowsOnlyWhenNeeded` and the refinement need no exception
  for it but the one for a program that stops; a `realloc` of NULL is a `malloc`, and fails.
- `MmProofs!Invariance`: the inductive invariant `IInv` says that, unless `Dnum` has wrapped
  (and then the program has stopped), some `B` makes the heap `Good` and, until `realloc` has failed, that the allocated members are the blocks of the
  names in use, one each (`Owns`). `MmProofs!BlocksAreOwned`: `BlocksOwned` follows.
- `MmProofs!KeepsPromise`: `ImplementsAllocator`, the refinement, when `memcpy` copies up
  (`CopyOrders` holds nothing else, as in `malloc_heap`; going down it is false). No
  invariant says what the words are; each step is shown to keep them. `Carried` follows
  the words of one block through `realloc`: `imme_combine` leaves them (`CombinedTo`),
  `memcpy` takes them to the front or to the new block (`CopiedUp`), and freeing the old
  block or splitting the new one comes after the last of them. The other blocks are
  untouched, so no step changes what `Contents` says of another name (`HandedSound`), and
  two blocks do not overlap because they are members of one tiling.
- `MmProofs!GrowsForNeed`: `GrowsOnlyWhenNeeded`. `best_fit` starts at the list of the
  size it needs; `IndexMonotone` says that the lists before it have only smaller blocks,
  `ChainCovers` that it misses none in the others (`BestFit`). For `realloc`, a free block
  of the heap before the call is still there when `best_fit` looks, or has become part of
  the combined block, which is too small as well (`FreesKept`, `ReallocGrows`).

Assumptions: sizes are naturals, requests are multiples of a word and values of a `size_t`,
`MAXSIZE` and the limit of the heap are at least 16 below the number of those (2^31, 100 MB and
2^64 in the code), the heap grows by at least 16 bytes (the code has 504) and has room
for the list heads and the prologue (72
bytes; `memlib.c` has 100 MB). All properties of `malloc_heap` are proved.

## 6. The Y86-64 simulators

### Modules

- `Isa`: `isa.c`. Words of `WordBytes` bytes, memory, registers, `compute_alu`,
  `compute_cc`, `cond_holds`, and `StepState` with one operator per part:
  `Fetched` decodes, `FetchStatus` finds what is wrong, `Execute` does the rest.
- `Arch`: what the simulators promise, `StepState` after `StepState`.
- `Seq`: a cycle of `ssim`, one operator per equation of `seq-full.hcl`.
- `Pipe`: a cycle of `psim`, one operator per equation of `pipe-full.hcl`, with the
  stage functions, `pipe_cntl` and `update_pipes`.
- `Simulate`: `run_tty_sim` with the loops of `sim_run_pipe` and `sim_run`.
- `SimProps`: the refinement mapping and the properties; `MCY86`: the programs.

| variable | code |
| --- | --- |
| `reg`, `mem`, `cc`, `ccIn` | the simulator's state and `cc_in` |
| `F` ... `W` | the pipe registers (`pc_curr`, `if_id_curr`, ...) |
| `instructions`, `cycles` | the counters of the CPI |
| `pc` | `ssim`'s program counter |
| `phase`, `icount`, `ccount`, `run_status` | where `run_tty_sim` is; the loop's counters |
| `isa`, `e`, `step`, `match` | the copy `step_state` works on; the result |
| `lost`, `last` | history: cycles the program's text explains; the last instruction |

A step is one cycle; all stages read the old pipe registers. The order in which
the C code calls the stage functions matters only for the values they pass one
another, which are operators here. `Arch` leaves one thing open: `step_state` has
moved `%rsp` when it finds that the stack address of a push, pop or call is bad
(isa.c:838), and the simulators have not.

The mapping of the pipeline is its memory stage: the architectural state is what
the instructions up to the one in M have done (`psimReg`, `psimMem`), and its
program counter is the address of the next instruction that is not on a wrong
path (`psimPc`).

Left out: object files, listings, the GUI, `seq+`, the variants of the pipeline
(exercise skeletons, equal to `pipe-full.hcl` but for a few equations).

### Runs

`y86_simulators`: words of one byte, 32 bytes of memory, and every program of up to
three instructions of 23 kinds (25 for `ssim`), and of up to four of the eleven kinds
that hazards are made of, behind a prologue that sets `%rsp`. Every forwarding
path, every pair of pipeline conditions, and a fault in each place relative to a
branch need at most four instructions in a row, since the pipe registers hold four
behind fetch; jumps and calls skip one instruction, returns go to
what the stack holds. Left out are programs on which the code differs for known
reasons: those that execute what they have written (the pipeline fetches the old
bytes), that come within `FetchAhead` of the end of the memory (psim.c:1408 tests the
byte five behind the instruction's, here the byte one behind, for the words are
shorter), that do not halt within `IsaLimit`; for `psim`, `jm` (which it lacks) and
stores without a base register. `InstrLimit` is out of reach: when it is met,
`psim` has counted cycles, because `Stat` is never `BUB` (psim.c:749), and the
comparison says nothing. The simulation ends, so deadlock is not checked.

`ImplementsArch` is the refinement. `NoPipeError`, `WrongPathCancelled`
and `FaultFreezesState` are about the control logic, and `CountersExplained` and
`MatchUnlessStackFault` about what is printed at the end. That the pipeline never runs
empty (`NeverDrained`) is only proved. `TinyProgramsFit` is the hypothesis of the
theorems below, evaluated by TLC on all comparable programs of up to two instructions.

### Findings

`psim_no_base`: `pipe-full.hcl` forwards when the source is `RNONE` ("no
register"), which equals the destination of every instruction that writes none.
`rmmovq %rax,0x100; rmmovq %rbx,0x110` stores the second word at the sum, and `psim -t`
prints "ISA Check Fails".

### Proofs

`SimProofs` proves all properties of `y86_simulators`, for every word size and memory
size. About the control logic, for every program and limit: `ControlInv` is inductive.
It says that a bubble is a nop and that an instruction with a bad
status has no effect in the stages before write-back (`StagesOK`); that the stages
behind a `ret` and a mispredicted jump are empty; that some stage behind fetch is
occupied; and when `cc_in` may differ from `cc` (`CcInKept`: only in the last two
cycles before the limit, psim.c:694). From it: `NoPipeErrorHolds`,
`WrongPathIsCancelled`, `PipelineNeverDrains`, `FaultFreezes`.

About the values, two hypotheses, which are what the code needs:

- `ProgramsFit`: for each program there is a set of states that it stays in, with the
  bytes of its instructions in a set `text` (`Contains`), and each instruction `Fits`. The
  simulators do not test register fields and do not stop at an immediate outside
  the memory, as `step_state` does; `psim` has no `jm`,
  forwards `RNONE` (the finding), wants the byte at `FetchAhead` (psim.c:1408) and
  fetches before the stores ahead of it are done, so that it may not write `text`.
  Nothing is asked of data, branches, stack or where a program faults.
- `BelowLimit`: `psim`'s run stays more than three calls away from the limit, for in
  its last calls `update_mem` and `update_cc` suspend what instructions do (psim.c:694,
  749). TLC finds it true of every run of `y86_simulators`. `ssim` has no such limit.

Then:

- `SimulatorsImplementArch`: `ImplementsArch`. For `ssim` a call is a step
  (`SeqStatus`). For `psim` the invariant is `PipeRight`: the registers hold words
  (`PipeTyped`), a bubble writes nothing, behind a `ret` in write-back the
  stages are empty, the program's text is what was loaded, and each pipe register holds what
  the program says: E the next instruction of `psimState` with the values its
  operands have there (`RightE`), D, if E was predicted rightly, the instruction after
  that (`RightD`), and fetch is at the one after that (`RightF`). That a cycle
  keeps it rests on four lemmas: the datapath of the textbook computes what
  `step_state` does (`DatapathRight`, used for `ssim` as well); `Forward` finds in the five
  places the value the register will have when the instruction ahead is
  done, unless that is a load, and then decode stalls (`ForwardRight`); fetch sees the
  bytes that `step_state` would see later (`FetchRight`); and the state after a cycle is
  the state after the instruction in E (`StateFollows`). A fault stutters until it
  is reported (`FaultStutters`).
- `ComparisonSucceeds`: `MatchUnlessStackFault`. The invariant `RunTold` keeps the
  states t[0] .. t[n] of the program, as many as the simulator has done instructions. The
  check walks through the same states, and `StackFault` says what `step_state` has
  changed when it stops at a bad address.
- `CountersAreRight`: `CountersExplained`. In `RunTold` is the account c[n+1] of
  waits, and `Counted`: cycles so far and the bubbles in front of the memory stage
  (`Bubbles`) add up to it. Behind an instruction that enters the memory stage
  there are as many bubbles as the account has for it (`BubblesCome`), and each
  cycle with an empty execute stage takes one away (`BubblesGo`).

The recursive functions of `Isa` (`Pow2`, `Bytes`, `BitAnd`) are computed by
well-founded induction on their finite domains: the library's theorem about
recursive definitions takes an operator and cannot be used.

## 7. The shell's test driver

### Modules

- `TestPrograms`: the programs the traces start, as sequences of instructions, with
  their SIGTERM handlers; the sockets they share with shell and driver.
- `TestShell`: `tsh` as seen from outside, on the job list of module `JobList`. A
  handler runs between two steps of the main program. What `Tsh` checks at the grain
  of single reads is taken for granted here: a wait for a foreground job never
  misses a wake-up.
- `RunTrace`: `runtrace.c`, its timers, and what may go wrong with a shell.
- `MCRunTrace`: thirteen traces, and the output of the reference shell for each.

| variable | code |
| --- | --- |
| `toShell`, `toDriver` | `datafd`: the shell's standard input and output |
| `syncs`, `signals` | `syncfd`: datagrams of the jobs to the driver and back |
| `shell`, `cmd`, `writes`, `notes` | where the shell is; texts still to write |
| `list`, `nextjid` | `job_list`, `nextjid` of `tsh.c` |
| `caught` | signals the shell's handlers have yet to take |
| `proc` | the jobs' processes: code left, state, what `waitpid` will report |
| `driver`, `at`, `code` | where `runtrace` is, its line, its exit status |
| `shown` | what it has printed |
| `sent`, `prompts`, `late`, `expired` | history |

A datagram is a text; `kill` and the announcements write several. `PROMPT` is a
text like the others, since `next_prompt` (runtrace.c:426) knows the prompt by
comparing a whole datagram with it: `echo` writes "tsh> ..." in almost every trace,
and that is no prompt. A sender waits when `QueueLen` datagrams are in a socket.

Time is not counted; `mode` says what the timers may do. "prompt": everything
comes in time. "slow": a timer that runs (`readable`'s five seconds, the alarm of
the driver at the end, those of the jobs) may expire at any point. "faulty": the
shell may stop answering or die, too.

Three things that the code does and a reader may not expect: when the first
prompt does not come in time, `runtrace` goes on (line 191) and from then on takes
every prompt for the answer to the line before; when a later prompt does not come it
exits with status 0 (line 250) without `clean`, and leaves shell and jobs behind;
`clean` knows the test programs by name and misses `myterm1` and `myterm2`.

### Run

`shell_driver`: three job entries, `QueueLen` 3 (Linux has 10; fewer makes senders
wait more often), and one trace of each kind of `trace03.txt` to
`trace30.txt`: foreground, background and both, `jobs`, `quit`, a job that
signals itself or the shell, SIGINT and SIGTSTP from the driver to a group of two
processes, `fg`, `bg`, `kill` of a process, a group and nothing, `pkill` from outside,
and a trace that ends without `quit`. Left out are the `ps` lines of some traces,
whose output depends on the machine; the pids that `kill` prints; the
programs that synchronise with nobody (`mysplitp`, `myhup`, `myterm3`,
`mycat`); options and temporary files of `runtrace` and `sdriver`. The run ends, so
deadlock is not checked.

`InStep` says that prompts and lines stay matched; `SignalFindsJob` that WAIT
makes a SIGINT meet a job; `OutputAsExpected` that a run in which no timer expires
prints the reference's output, whatever the order of the processes' steps: that is what
`sdriver` relies on when it compares two runs as text. (Its filter drops newlines,
and so does `Filtered`.) `Terminates` says that every run ends, in all modes; in
mode "prompt" it says that no timer is needed, so that no trace has driver,
shell and jobs wait for one another.

Fairness: `WF_vars(Next)`. The processes are separate and each gets on when it can, so
the system as a whole does not stop while somebody can go on. A timer expires in
the end, and a step of it is all that is left when everybody waits.

### Proofs

`RunTraceProofs!ShellInStep`: `InStep`, for every set of traces, any number of jobs and
any size of the sockets, in all modes. Nobody counts in the program; the proof does. The
start and every line sent promise `runtrace` one prompt (`Owed`); what is under way is
the lines the shell has not read, the one it works on, and the prompts in the socket
(`Load`). `Balance` says that never more is under way than is owed. The shell turns one
into another (`MainKeeps`), or drops it when it dies; handlers and jobs do neither
(`HandlerKeeps`, `ProcessStepQuiet`), because what they write is never the prompt: that is
the part of `EnvInv` about texts, through the listing of `jobs` (`ListingIsSilent`) and
what a job echoes. When nothing is owed nothing is under way, which is `InStep`. A first prompt that
comes late stays owed, which is why `InStep` excepts it.

Assumption: no command of a trace is, character for character, the prompt
(`LinesAssumption`; a job that printed one would be taken for the shell).
`OutputAsExpected` and `SignalFindsJob` are about the traces and programs of this repository,
which are data, and stay with TLC, as does liveness.

## 8. The bit puzzles

### Modules

- `Words`: a 32-bit word is the set of the positions of its one bits. `&`, `|` and
  `~` are set operations, shifts move positions, and a position of a sum receives a
  carry iff some lower position generates one and those between hand it on. This
  is C's arithmetic as the Makefile asks for it (`-fwrapv`); no word is ever turned
  into a number, but for shift counts and exponents.
- `Bits`: `bits.c`, statement by statement.
- `BitsTests`: `tests.c`. Its integer functions say what is meant over positions
  (`test_rotateRight`: position `i` is position `i + n` of before) or with C's
  operators, as the code does. Its float functions use the machine's `float`: here
  a float is its significand and its exponent, and a product is the nearest float,
  to even on a tie (`NearestFloat`).
- `Btest`: the table `test_set` of `decl.c`, `gen_vals`, the loops of
  `test_function` and the score of `run_tests`; one step is one call of a puzzle and
  of its test function.
- `MCBtest`: the arguments.

| variable | code |
| --- | --- |
| `test` | `i` of `run_tests` |
| `a1`, `a2` | the indices of `test_function` |
| `given` | `-f` with `-1` and `-2`: one puzzle on given arguments |
| `failed`, `points`, `max_points` | the puzzles with errors, the score |

### Run

`bit_puzzles`: `TEST_RANGE` is 9 instead of 500000, which leaves three values on each side of
every boundary for two arguments and nine for one. `random_val` may return any
sample, and a user may give any of: every run of ones `a .. b` (each starts and ends
every possible chain of carries), the numbers from -160 to 160 (all exponents at which
`float_pwr2` returns a denormal), and every exponent and sign with fractions that
end in each of the sixteen patterns of the last four bits (the ties of
`float_half`). For two arguments the runs begin and end at the borders of bytes and
fields. `rotateRight`'s count, `counter1To5` and `fullSub` are exhaustive, as in
`btest`. `IntegerPuzzlesRight` and `FloatPuzzlesRight` say that no call differs.
The user's arguments matter: `gen_vals` gives `float_pwr2` the bits of floats near
0, 1 and the largest, and with 500000 of them on each side none is an exponent from
-1 to -149, so that `btest` never sees the branch for denormals.

The program stops, so deadlock is not checked.

Left out: timeouts. No puzzle has a loop. (The alarm of one puzzle is not cancelled
when it ends, only replaced by the next one; one that rings while `gen_vals` prepares the next puzzle would
jump into a call of `test_function` that has returned, btest.c:353.)

### Proofs

`BitsProofs` proves that each of the sixteen puzzles equals its test function on all arguments it is
specified for: all 2^64 pairs of words where there are two. From that it proves
`IntegerPuzzlesRight` and `FloatPuzzlesRight`: `btest` finds no error, for every `TEST_RANGE`,
whatever `random_val` returns and whatever arguments a user gives within the range of the
puzzle. The run is a small instance of these theorems. The invariant is `BtestInv`: the
indices stay within the arguments (so that `vals[a]` is one, `Arguments`), arguments
are within the puzzle's range (`RangeLegal`, `IntLegal`, `FloatLegal`, `GivenLegal`),
and no puzzle has failed; `AllAgree` collects the sixteen theorems.

Induction over positions is out of this prover's reach. Most statements here are about the
positions of a word, and two lemmas take its place: `Upwards` says that what holds at every
position of which it holds at all lower ones holds everywhere (a least counterexample, from
the well-foundedness of `<`), `HighestBit` that a word that is not zero has
a highest position, in five doublings of the range (`LongerRanges`). The rest follows the puzzles:

- Sums. `CarryStep` and `SumBit` give the carry and the sum bit by bit from the definition of `Plus`,
  which speaks of chains; `Adder` says that whatever satisfies these equations is the sum.
  `fullSub`, `countConsecutive1` and `counter1To5` rest on it.
- Signs. `CarryReachesSign`: `x + ~y` carries into the sign iff the part of `x` below it is
  greater than that of `y`, where the highest position that differs decides
  (`isLessOrEqual`, `satAdd`).
- `CarryIn`: a one that is added is a carry into position 0. `trueFiveEighths` adds half
  of `x`, an eighth and the rounding this way; its test function divides a sum of 64 bits.
- `countConsecutive1` adds in five stages (`PairStage` to `WordStage`); `NibbleSum` adds within one
  byte, and `CountPairs` counts the runs that the stages add.
- `palindrome`: `SwappedGroups` follows a position through the four exchanges.
- Numbers. `EightBits`, `NumberFrom` and `FromNumber`: words below 256 and the numbers 0 to 255
  correspond (shift counts, exponents).
- Floats. `ExponentIsField`, `FieldAdded`: what adding to the field of the exponent does to a float;
  `NearestNormal`, `RoundUp`: the nearest float, to even on a tie, is what the puzzle's
  bit operations on the last two bits choose; `ExponentLess`: comparisons of exponents.
- `float_pwr2` compares words as integers (`ByteOrder`, `HighOrder`, `NegativeLeq`) and negates one
  (`NegBits`, `NegNeg`). Its test function is a loop: `LoopResult` gives a closed form of it,
  turn by turn upwards.

## 9. The assembler

### Modules

- `Yas`: the two passes, one step per line; the operands of instructions
  (`get_reg`, `get_mem`, `get_num`) as functions on the state of the parser; the table
  `instruction_set`; `load_mem`. Bytes, registers and instruction codes are those of
  `Isa`, so that what is assembled is what the simulators fetch.
- `YasProps`: well-formed sources, the addresses of their lines, and what a line says
  of the instruction at its address, each defined on its own from the language and not
  from `Yas`'s parsing.
- `MCYas`: the sources. `YasProofs`: the proofs.

The scanner makes words of numbers (64 bits in the code, `WordBytes` bytes here), but
`bytepos` and the `a` of an `.align` are ints (yas.c:26, 357, 366): `IntOf` keeps the low
bits, as a signed number; an int has `IntModulus` values, 2^32 in the code. So `.pos 0x100000000` goes to 0,
`.align 4294967296` is refused, and so is every alignment from 2^31 to 2^32 - 1. The
sums `bytepos + size` and `bytepos + a - 1` may overflow, which C leaves undefined; built as
the Makefile does (`gcc -O1`) they are plain additions, which wrap, and so they do here
(`Advance`, `Aligned`).

A source is a sequence of lines, a line the sequence of its tokens. It is `invalid`
when a character that begins no token comes after them. flex takes a comment only
together with its newline, so that a comment at the end of a file that lacks one is such a
line; this is what the variable `scanner` is about.

| variable | code |
| --- | --- |
| `source`, `at` | the file and `lineno` |
| `pass` | `pass` |
| `bytepos`, `code`, `hit_error` | the variables of these names; `bytepos` is an int |
| `scanner` | flex's start condition, `INITIAL` or `ERR` |
| `leftover` | `tcount` is not 0 when a line starts |
| `symbol_table` | `symbol_table` up to `symbol_cnt` |
| `outfile` | addresses and bytes `print_code` has written |
| `status` | running, or the exit status |
| `places` | history: `bytepos` before each line in pass 1 |

`Blank`, `Dropped`, `LabelLine`, `BadLine`, `Directive`, `Measure` and `Emit` are the
ways through `finish_line`; `Invalid` and `Swallow` are the scanner's error rules, `Unfinished` is
a last line that has no newline, and `EndOfPass` is `yywrap` with the end of `main`.

### Run

`assembler`: 83 kinds of lines (every instruction, all forms of operands, right and wrong,
directives, labels with and without the rest of a line, undefined and repeated labels, stray tokens), all
pairs of them, all triples of the sixteen that define labels or move addresses, and
some of four lines; each with and without a last newline. Two lines are enough for
what a line leaves behind (tokens, code bytes, an error), three for two definitions
of a label and a use. Words have three bytes, because TLC's integers end at 2^31; an int
has 2^18 values, fewer than a word, so that `.pos` and `.align` meet numbers that it
cuts off (to 12 and to 0), and the largest, from which it wraps. `MemLen` is
8192, as in the simulators, so that addresses of four digits are loaded. `PassesAgree` and
`LabelsAgree` compare the passes; `ExitStatusRight` says that `yas` exits with 0 for
exactly the well-formed sources; `ImageRight` that the file then loads if it stays within the
memory, and that the simulators fetch at every line what it says, unless a later line
overwrites it. The program stops, so deadlock is not checked.

What the properties had to allow for, and what is therefore worth knowing:

- A last comment without newline leaves flex in state ERR for pass 2, which takes line 1 for
  an invalid one, drops it and reports it. `PassesAgree` excepts such sources;
  `NewlineOk` says when this still ends in success.
- Tokens after the operands are ignored: `nop:` and `.quad 0 x10` are accepted
  (`-0x10` is scanned as `-0` and `x10`). `get_mem` needs no displacement and no base, so that
  `rmmovq %rax, %rbx` assembles to a store at address 0.
- With errors in pass 1 the `.yo` is empty, with errors in pass 2 it holds what could be
  assembled, with bytes of earlier lines for wrong operands. Only the exit status tells.
- A negative `.pos` is printed modulo 4096.
- The number of `.pos` and `.align` is the int it becomes: `WellFormedStatement`, `NextMultiple` and
  `After` say so.
- `.align` rounds with C's division, which goes towards 0 (yas.c:372): from -6, `.align 4` leads
  to 0 and not to -4 (`NextMultiple`).

### Proofs

`YasProofs` proves `PassesAgree` and `LabelsAgree` for every set of sources, every
word size and every table. That `bytepos` is `places[at]` in pass 2 is not
inductive: pass 2 must also advance as pass 1 did, and it advances by a line
only if it reads it the same way. So `IInv` says what a pass 1 without errors has
seen (`Seen`): all lines so far are in order (`InOrder`) and each moved the place of the
next one by `Advance`; an error is recorded in `hit_error`, or `leftover` will
make it one (`LeftoverExplained`). Pass 2 starts only when pass 1 has no errors, so that no
line can be in error there (`SecondPass`). `LineEffect` sums the ten actions on a line up in three effects:
a line read in order (`Regular`), an error (`Faulty`), a last line that waits for its newline
(`Waiting`). For labels, `Seen` says that names in the table come from lines
seen, and that the first definition of each name is the first entry with it: when
`Append` adds an entry for a first definition, no earlier entry can have the name.

`ExitStatusRight` is proved for every set of sources, too. Code and promise say it in
different terms, so that most of the proof brings one to the other:

- `AssembledOk`, `AcceptsIs`: the parser, argument by argument, sets no error exactly if the
  statement has one of the shapes of the language and its labels are known. The cases
  are the kinds of instructions; a memory reference ends in one of four places.
- `IntOfIs`, `NumIsInt`, `RoundedIsInt`: what `IntOf` does to an int (nothing), to a number and to a
  sum, and that rounding an int gives one.
- `AlignedIsNext`, `AdvanceIsAfter`, `PlacesAre`: the places of pass 1 are the recursive function
  `Place`. Two solutions of its equation would have a first place at which they differ.
- `FirstExists`, `LabelsAre`: after pass 1 the table defines the labels of the source.
- `LineIs`, `OutOfOrder`, `SourceIs`, `ErrIs`: a source is well formed if its lines are in order and pass 2
  has nothing to report on one of them (`Accepted`).

`Told` is the invariant: an error in pass 1 has a line out of order behind it; in pass 2 there
is one exactly if there is a line that is not `Accepted`; for sources that leave the scanner in ERR,
it says where the scanner is and that line 1 is reported. `IInv` is needed to know that
pass 2 has the table and the places of all lines.

`ImageRight` is proved as `ImagesAreRight`, again for every set of sources. What the promise
says of the memory after the run depends on all that was written, in its order, so that an
invariant has to say what each line contributes. `FileIs` does: the file is empty in pass 1; in
pass 2, as long as there is no error, `Filled(outfile, at - 1)` holds. It says of the lines behind that

- the bytes of each that has code are in `load_mem(outfile)`, except at addresses that a later
  line covers;
- the file stays within the memory exactly if all of them do;
- it has bytes at all exactly if one of them has code.

`FilledSkips` and `FilledGrows` keep it over a line without code and over one that prints
(`LoadMore`: one more record overwrites its addresses and leaves the others); `Fills` is that step
for `Emit`. The rest relates the bytes to the language:

- `CodeIs`, `DataIs`: what the parser leaves in `code`, field by field, from the argument tables.
- `FetchIs`: the simulators' fetch takes the same fields back out of those bytes. `WordRead` is its
  arithmetic: little-endian bytes of `v` are read as `Wrap(v)`; a byte is a quotient by a
  power of 2, which is why `WordBytes >= 3` is assumed, the powers being defined up to a word and
  `.long` having four bytes.
- `OneShape`, `TrimmedIs`, `Agree`: a well-formed statement has one shape, and the registers and the value that
  `YasProps` finds by their place among the tokens are those the parser read in order.
- `MeantIs`: labels stand for the places of their first definitions, from `Told` and `LabelsAre`.

The proof showed one error in the property: tokens after the operands are ignored by `yas`, but counted
as operands by `YasProps`, so that `rmmovq %rdi, (%rbp) 5` had a displacement and `mrmovq , %r8 (%rsp)` a
base there that the code does not give it. `Trimmed` cuts a statement after its operands; `MCYas` has such lines now.

### Left out

More than 12 tokens on a line (`add_token` tests `tpos` where it means `tcount`, yas.c:451) and more
than 1000 labels, both of which overflow arrays; labels and lines longer than the
buffers; Verilog output (`-V`); comments and the text copied behind the code; the HCL translator.

## 10. The allocators' test driver

### Modules

- `Mdriver`: `mdriver.c` with any allocator. Module `Mm` shows that `mm.c` passes the
  driver's checks; this one asks what the checks are worth.
- `MCMdriver`: the combinations of options.

| variable | code |
| --- | --- |
| `opt` | `debug_mode`, `onetime_flag`, `set_timeout > 0`, `run_libc`; `ignore_ranges` of the traces |
| `at`, `i`, `timed_out` | where the driver is; `run_tests`' locals |
| `jmp`, `alarm` | what `timeout_jmpbuf` holds; the alarm |
| `errors`, `stats` | `errors # 0`; `mm_stats`: `valid`, and whether `util` and `secs` were measured |
| `block` | `blocks`, `block_sizes`, `block_rand_base` |
| `ranges` | the list of ranges |
| `mem` | the bytes of the payloads |
| `total_size`, `max_total_size` | the locals of `eval_mm_util` |
| `live`, `faults`, `reported`, `peak` | history |

A step is one request of the trace, with all the checks around it. A trace is
any sequence of requests that frees and reallocates only what it has allocated, of any
length, so that nothing is gained by counting requests. Each call of the
allocator is right, or wrong in one way: NULL, or a pointer that is misaligned, outside
the heap or in another block; a byte of another payload overwritten; for `realloc` also a
byte that was not copied. Bytes outside the blocks in use are the allocator's to write.

A random byte is its place in the random data and a base is new for each `randomize_block`:
`check_index` notices every byte that differs. In the program two bytes are the same by chance
once in 256.

Left out: options and the syntax of trace files (a size of 0 for `mm_malloc` fails an
assertion, which no trace of the repository does), the libc evaluation, the
arithmetic of the performance index, printing. `eval_mm_speed` makes the calls of
`eval_mm_util` again and looks at nothing; it is one step. An answer that is NULL there
ends the driver (`app_error`).

### Run

`malloc_driver`: two indices and sizes 1 and 5 in a heap of seven bytes with an
alignment of 2, so that payloads can touch, overlap at either end, be enclosed by another and stick out of the heap on
both sides; two traces, so that one can spoil the next; two wrong calls in each, so that one may
hide the other. All levels of checking with and without `ignore_ranges`; `-c`, `-s`
and `-l`. The alarm may ring at any point. The driver stops, so deadlock is not checked.

`NoFalseAlarm`: a correct allocator is never accused. `WrongIsFound`: a wrong call is
reported by the time all blocks are freed, except with `DBG_NONE`. `RangesSound`: the list is
that of the payloads, each once, and two of them overlap in one way only. `UtilIsHighWater`: sums and
differences come to the largest sum of sizes. `IndexStandsForAll`: an index is printed only
when every trace was valid and measured.

### What the properties had to allow for

- `add_range` asks whether an end of the new payload lies in an old one, and not whether it
  encloses one, although "We use the range list to detect any overlapping allocated
  blocks" (mdriver.c:584). The overlap is found later, from the bytes that one
  block takes from the other.
- A trace that does not free a block hides what was wrong with it: nothing is looked at at
  the end (line 1005).
- `DBG_EXPENSIVE`, with which "we check every block every operation" (mdriver.c:118),
  goes through the list of ranges, and checks nothing when the trace has `ignore_ranges`.
- A garbled block is an error, but `eval_mm_valid` still returns 1, and the trace counts as
  valid in the table. Only the index is 0.
- `-c` prints an index although nothing was measured.
- An alarm while libc is tested, or after `run_tests` has returned, jumps into a frame that does
  not exist yet or any more (line 210). The model stops there (`"undefined"`). A jump out of
  libc's own functions leaves them in a state that C does not define; it is not modelled.

### Proofs

`MdriverProofs` proves the five properties for every heap, alignment, set of sizes and
indices, any number of traces and of wrong calls:

- `IndexIsOfAll`: every trace before the current one was measured, or an error is
  recorded (`MeasuredSoFar`); the alarm leaves `run_tests` by the jump and cannot reach the index.
- `RangesAreSound`, from `EvalInv`: live blocks have been placed by the checks (`Placed`), and
  the list of ranges, when it is kept, has exactly one entry for each (`Listed`).
- `NeverAFalseAlarm` and `WrongIsAlwaysFound`, from `DataInv` and `VerdictInv`: without a wrong
  call every block in use is intact; after one that was not reported some block is
  not. The second is inductive because damage stays: a byte that another block took or that was
  overwritten is never written back for its first owner (`BytesOfOthers`), a block is looked
  at before it is freed, and two blocks that overlap cannot both be intact.
- `UtilIsOfTheHighWater`: `total_size` is the sum of the sizes in use (`UtilInv`). The sum
  is a fold over a set, about which nothing can be proved by an induction theorem here; that it
  does not depend on the order, and changes by one summand, is proved with the least
  number for which it would fail.

Assumptions: sizes are positive and have a maximum, there are finitely many indices,
the heap's bounds and the alignment are positive.
