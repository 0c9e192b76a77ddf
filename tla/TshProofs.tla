----------------------------- MODULE TshProofs -----------------------------
(***************************************************************************)
(* Proofs about the shell, for every number of job list entries and every  *)
(* set of pids, commands and signals' interleavings.                       *)
(*                                                                         *)
(* The safety invariants of module Tsh are not inductive by themselves:    *)
(* that addjob never meets a child that was reaped already rests on the    *)
(* signal mask eval holds around fork and addjob, and that the reaper's    *)
(* local pid is still good rests on the nesting of the handlers.  IInv     *)
(* adds both.                                                              *)
(***************************************************************************)
EXTENDS Tsh, SequenceTheorems, WellFoundedInduction, TLAPS

(***************************************************************************)
(* Facts about the operators of module JobList, for lists of any size,     *)
(* stated once and cited by name in the proofs about the shell.            *)
(***************************************************************************)

\* Every nonempty set of natural numbers has a least element.
LEMMA NatHasLeast ==
  ASSUME NEW S, S \subseteq Nat, S # {}
  PROVE  \E x \in S : \A y \in S : x =< y
<1>1. PICK x \in S : \A y \in S : ~ (<<y, x>> \in OpToRel(<, Nat))
  BY NatLessThanWellFounded, WFMin
<1>2. ASSUME NEW y \in S PROVE x =< y
  <2>1. x \in Nat /\ y \in Nat
    OBVIOUS
  <2>2. y < x => <<y, x>> \in OpToRel(<, Nat)
    BY <2>1 DEF OpToRel
  <2>3. ~(y < x)
    BY <1>1, <2>2, Zenon
  <2>. QED BY <2>1, <2>3
<1>. QED BY <1>2

\* The first match of a search is an entry that matches.
LEMMA MinOfSlots ==
  ASSUME NEW S, S \subseteq Slots, S # {}
  PROVE  Min(S) \in S /\ Min(S) \in Slots
<1>1. S \subseteq Nat
  BY MaxJobsAssumption DEF Slots
<1>2. \E x \in S : \A y \in S : x =< y
  BY <1>1, NatHasLeast
<1>. QED BY <1>2 DEF Min

\* A search returns NULL, or an entry that matches if there is one.
LEMMA FirstOfSlots ==
  ASSUME NEW S, S \subseteq Slots
  PROVE  /\ FirstOf(S) \in {NULL} \cup Slots
         /\ S # {} <=> FirstOf(S) # NULL
         /\ S # {} => FirstOf(S) \in S
<1>1. NULL \notin Slots
  BY MaxJobsAssumption DEF NULL, Slots
<1>. QED BY <1>1, MinOfSlots DEF FirstOf

\* The IDs in the list are bounded.  (Least counterexample on the number of
\* entries looked at.)
LEMMA JidsBounded ==
  ASSUME NEW jl \in [Slots -> Job]
  PROVE  \E b \in Nat : \A i \in Slots : jl[i].jid =< b
<1>. DEFINE Bounded(n) == \E b \in Nat : \A i \in Slots : i < n => jl[i].jid =< b
            Bad == {n \in 0 .. MAXJOBS : ~Bounded(n)}
<1>1. ASSUME Bad # {} PROVE FALSE
  <2>1. PICK m \in Bad : \A y \in Bad : m =< y
    <3>1. Bad \subseteq Nat
      BY MaxJobsAssumption
    <3>. HIDE DEF Bad
    <3>. QED BY <1>1, <3>1, NatHasLeast
  <2>2. m \in 0 .. MAXJOBS /\ ~Bounded(m)
    BY <2>1
  <2>3. Bounded(0)
    <3>1. 0 \in Nat /\ \A i \in Slots : ~(i < 0)
      BY MaxJobsAssumption DEF Slots
    <3>. QED BY <3>1
  <2>4. m # 0
    BY <2>2, <2>3
  <2>5. m - 1 \in 0 .. MAXJOBS /\ m - 1 \notin Bad
    <3>1. m \in Nat /\ m - 1 \in 0 .. MAXJOBS
      BY <2>2, <2>4, MaxJobsAssumption
    <3>. HIDE DEF Bad
    <3>. QED BY <2>1, <3>1, MaxJobsAssumption
  <2>6. Bounded(m - 1)
    BY <2>5
  <2>7. PICK b \in Nat : \A i \in Slots : i < m - 1 => jl[i].jid =< b
    BY <2>6
  <2>8. m - 1 \in Slots /\ jl[m - 1].jid \in Nat
    BY <2>2, <2>4, MaxJobsAssumption DEF Slots, Job
  <2>9. PICK c \in Nat : b =< c /\ jl[m - 1].jid =< c
    BY <2>8
  <2>10. \A i \in Slots : i < m => jl[i].jid =< c
    <3>. SUFFICES ASSUME NEW i \in Slots, i < m PROVE jl[i].jid =< c
      OBVIOUS
    <3>1. i \in Int /\ m \in Int /\ jl[i].jid \in Nat
      BY <2>2, MaxJobsAssumption DEF Slots, Job
    <3>2. CASE i = m - 1
      BY <3>2, <2>9
    <3>3. CASE i < m - 1
      BY <3>3, <3>1, <2>7, <2>9
    <3>. QED BY <3>1, <3>2, <3>3
  <2>. QED BY <2>2, <2>10
<1>2. Bounded(MAXJOBS)
  BY <1>1, MaxJobsAssumption
<1>3. \A i \in Slots : i < MAXJOBS
  BY MaxJobsAssumption DEF Slots
<1>. QED BY <1>2, <1>3

\* maxjid is 0 or an ID of the list, and no ID is above it.
LEMMA MaxjidIsMax ==
  ASSUME NEW jl \in [Slots -> Job]
  PROVE  /\ maxjid(jl) \in Nat
         /\ \A i \in Slots : jl[i].jid =< maxjid(jl)
<1>. DEFINE S == {0} \cup {jl[i].jid : i \in Slots}
            Upper == {b \in Nat : \A x \in S : x =< b}
<1>1. S \subseteq Nat /\ 0 \in S
  BY DEF Job
<1>2. Upper # {}
  <2>1. PICK b \in Nat : \A i \in Slots : jl[i].jid =< b
    BY JidsBounded
  <2>. QED BY <2>1
<1>3. PICK u \in Upper : \A y \in Upper : u =< y
  <2>1. Upper \subseteq Nat
    OBVIOUS
  <2>. HIDE DEF Upper
  <2>. QED BY <1>2, <2>1, NatHasLeast
<1>4. u \in S
  <2>. SUFFICES ASSUME u \notin S PROVE FALSE
    OBVIOUS
  <2>1. u \in Nat /\ \A x \in S : x =< u
    BY <1>3
  <2>2. u # 0 /\ u - 1 \in Nat
    BY <2>1, <1>1
  <2>. HIDE DEF S
  <2>3. \A x \in S : x =< u - 1
    BY <2>1, <1>1
  <2>4. u - 1 \in Upper
    BY <2>2, <2>3
  <2>. QED BY <2>1, <2>4, <1>3
<1>5. \A x \in S : u >= x
  BY <1>3, <1>1
<1>6. Max(S) \in S /\ \A x \in S : Max(S) >= x
  <2>. HIDE DEF S, Upper
  <2>. QED BY <1>4, <1>5 DEF Max
<1>7. maxjid(jl) = Max(S)
  BY DEF maxjid
<1>8. maxjid(jl) \in Nat
  BY <1>1, <1>6, <1>7
<1>9. ASSUME NEW i \in Slots PROVE jl[i].jid =< maxjid(jl)
  <2>1. jl[i].jid \in S
    OBVIOUS
  <2>2. jl[i].jid \in Nat
    BY DEF Job
  <2>. HIDE DEF S
  <2>. QED BY <1>6, <1>7, <1>8, <2>1, <2>2
<1>. QED BY <1>8, <1>9

-----------------------------------------------------------------------------
(***************************************************************************)
(* What the updates do to the list.                                        *)
(***************************************************************************)

\* A child is tracked when an entry carries its pid.
LEMMA TrackedIsEntry ==
  ASSUME NEW jl, NEW p
  PROVE  Tracked(jl, p) <=> \E i \in Slots : jl[i].pid = p
BY DEF Tracked, WithPid

\* addjob fills one free entry.
LEMMA AddjobEffect ==
  ASSUME NEW jl \in [Slots -> Job], ~Full(jl),
         NEW nj \in Nat, NEW p \in Pids, NEW s \in JobStates
  PROVE  /\ addjob(jl, nj, p, s) \in [Slots -> Job]
         /\ \E i \in Slots :
              /\ jl[i].pid = 0
              /\ addjob(jl, nj, p, s) =
                   [jl EXCEPT ![i] = [pid |-> p, jid |-> nj, state |-> s]]
<1>1. WithPid(jl, 0) \subseteq Slots /\ WithPid(jl, 0) # {}
  BY DEF WithPid, Full
<1>2. Min(WithPid(jl, 0)) \in WithPid(jl, 0)
  BY <1>1, MinOfSlots
<1>3. PICK i \in Slots : i = Min(WithPid(jl, 0)) /\ jl[i].pid = 0
  BY <1>1, <1>2 DEF WithPid
<1>4. addjob(jl, nj, p, s) =
        [jl EXCEPT ![i] = [pid |-> p, jid |-> nj, state |-> s]]
  BY <1>3 DEF addjob
<1>5. [pid |-> p, jid |-> nj, state |-> s] \in Job
  BY DEF Job
<1>. QED BY <1>3, <1>4, <1>5

\* deletejob clears one entry of the child.
LEMMA DeletejobEffect ==
  ASSUME NEW jl \in [Slots -> Job], NEW p, Tracked(jl, p)
  PROVE  /\ deletejob(jl, p) \in [Slots -> Job]
         /\ \E i \in Slots :
              /\ jl[i].pid = p
              /\ deletejob(jl, p) = [jl EXCEPT ![i] = ClearedJob]
<1>1. WithPid(jl, p) \subseteq Slots /\ WithPid(jl, p) # {}
  BY DEF WithPid, Tracked
<1>2. Min(WithPid(jl, p)) \in WithPid(jl, p)
  BY <1>1, MinOfSlots
<1>3. PICK i \in Slots : i = Min(WithPid(jl, p)) /\ jl[i].pid = p
  BY <1>1, <1>2 DEF WithPid
<1>4. deletejob(jl, p) = [jl EXCEPT ![i] = ClearedJob]
  BY <1>3 DEF deletejob
<1>5. ClearedJob \in Job
  BY DEF ClearedJob, Job, JobStates
<1>. QED BY <1>3, <1>4, <1>5

\* setstate leaves pids and IDs alone, wherever it writes.
LEMMA SetstateEffect ==
  ASSUME NEW jl \in [Slots -> Job], NEW i, NEW s \in JobStates
  PROVE  /\ setstate(jl, i, s) \in [Slots -> Job]
         /\ \A k \in Slots : /\ setstate(jl, i, s)[k].pid = jl[k].pid
                             /\ setstate(jl, i, s)[k].jid = jl[k].jid
BY DEF setstate, Job

\* The free list is empty: every search by pid or ID fails there.
LEMMA InitjobsType == initjobs \in [Slots -> Job]
BY DEF initjobs, ClearedJob, Job, JobStates

\* fgpid is 0 or the pid of an entry in the foreground.
LEMMA FgpidIsForeground ==
  ASSUME NEW jl \in [Slots -> Job]
  PROVE  /\ fgpid(jl) \in Pids \cup {0}
         /\ fgpid(jl) # 0 =>
              \E i \in Slots : jl[i].pid = fgpid(jl) /\ jl[i].state = "FG"
<1>1. CASE InState(jl, "FG") = {}
  BY <1>1 DEF fgpid
<1>2. CASE InState(jl, "FG") # {}
  <2>1. InState(jl, "FG") \subseteq Slots
    BY DEF InState
  <2>2. Min(InState(jl, "FG")) \in InState(jl, "FG")
    BY <1>2, <2>1, MinOfSlots
  <2>3. PICK i \in Slots : i = Min(InState(jl, "FG")) /\ jl[i].state = "FG"
    BY <2>2 DEF InState
  <2>4. fgpid(jl) = jl[i].pid /\ jl[i].pid \in Pids \cup {0}
    BY <1>2, <2>3 DEF fgpid, Job
  <2>. QED BY <2>3, <2>4
<1>. QED BY <1>1, <1>2

\* nextjid stays a positive number: after addjob and after deletejob.
LEMMA NextJidPositive ==
  ASSUME NEW jl \in [Slots -> Job], NEW nj \in Nat \ {0}
  PROVE  /\ NextJidAfterAdd(nj) \in Nat \ {0}
         /\ NextJidAfterDelete(jl) \in Nat \ {0}
<1>1. maxjid(jl) \in Nat
  BY MaxjidIsMax
<1>. QED BY <1>1, MaxJobsAssumption DEF NextJidAfterAdd, NextJidAfterDelete

-----------------------------------------------------------------------------
(***************************************************************************)
(* The inductive invariant.                                                *)
(***************************************************************************)

Launching == {"fork", "add", "unblock"}

\* The stack holds exactly the handlers that have not returned, each once.
HandlersNest ==
  /\ \A s \in Sigs : hpc[s] # "idle" <=> \E i \in 1 .. Len(stack) : stack[i] = s
  /\ \A i, k \in 1 .. Len(stack) : stack[i] = stack[k] => i = k

\* A handler that has a pid in its local holds that of a child; when the
\* reaper holds that of a dead one, the kernel does not use it any more.
HandlerLocals ==
  /\ hpc["CHLD"] \in {"gone", "stop"} => hpid["CHLD"] \in Pids
  /\ hpc["CHLD"] = "gone" => proc[hpid["CHLD"]] = "free"
  /\ \A s \in Sigs : hpc[s] = "send" => hpid[s] \in Pids

\* From before fork to after addjob no handler runs or can start; everywhere
\* else every signal can be delivered.
Masked ==
  /\ pc \in Launching => stack = <<>> /\ blocked = Sigs /\ cmd.prec = {}
  /\ pc \notin Launching \cup {"exit"} => blocked = {}

\* The child addjob is called for exists and has no entry.
LaunchedIsNew ==
  pc = "add" => /\ cmd.pid \in Pids
                /\ proc[cmd.pid] # "free"
                /\ ~Tracked(jobs, cmd.pid)

\* The entry eval points to is one of the list.
JobPointer ==
  /\ pc \in {"signal", "setstate", "liststate"} => cmd.job \in Slots
  /\ pc = "list" => cmd.job \in 0 .. MAXJOBS

Safety == Recorded /\ NoStaleEntry /\ UniquePids

Aux == HandlersNest /\ HandlerLocals /\ Masked /\ LaunchedIsNew /\ JobPointer

IInv == TypeOK /\ Aux /\ Safety /\ ForwardOnlyToForeground

-----------------------------------------------------------------------------
(***************************************************************************)
(* Steps that change no part of the state the invariants are about, except *)
(* where the main thread is.                                               *)
(***************************************************************************)

\* The main thread runs only while every handler is idle.
LEMMA MainIsAlone ==
  ASSUME TypeOK, HandlersNest, stack = <<>>
  PROVE  \A s \in Sigs : hpc[s] = "idle"
BY DEF TypeOK, Locals, HandlersNest

\* A search leads to an entry or to NULL.
LEMMA GetjobType ==
  ASSUME NEW arg
  PROVE  Getjob(arg) \in {NULL} \cup Slots
<1>1. /\ WithJid(jobs, arg.n) \subseteq Slots
      /\ FirstOf(WithJid(jobs, arg.n)) \in {NULL} \cup Slots
  BY FirstOfSlots DEF WithJid
<1>. QED BY <1>1 DEF Getjob, getjobjid

\* With the list and the handlers left alone and no child created or reaped,
\* the safety invariants and those about handlers survive, unless eval gives
\* up a child between fork and addjob.
LEMMA QuietStep ==
  ASSUME IInv, UNCHANGED <<shell, handlv>>,
         \A q \in Pids : proc'[q] = "free" <=> proc[q] = "free",
         (pc # "add" /\ pc' # "add") \/ UNCHANGED <<pc, cmd>>
  PROVE  HandlersNest' /\ HandlerLocals' /\ Safety' /\ ForwardOnlyToForeground'
<1>. USE DEF IInv, Aux, shell, handlv
<1>1. HandlersNest' /\ HandlerLocals'
  BY DEF HandlersNest, HandlerLocals
<1>2. Recorded'
  BY DEF Safety, Recorded, BeingLaunched, Tracked, WithPid
<1>3. NoStaleEntry' /\ UniquePids'
  BY DEF Safety, NoStaleEntry, UniquePids, HeldByReaper, Tracked, WithPid
<1>4. ForwardOnlyToForeground'
  BY DEF ForwardOnlyToForeground, HandlerLocals, Sigs, Tracked, WithPid
<1>. QED BY <1>1, <1>2, <1>3, <1>4 DEF Safety

\* A signal or a change of its own never makes a child vanish or appear.
LEMMA MoveKeepsChildren ==
  ASSUME TypeOK, NEW p \in Pids, proc[p] # "free",
         NEW s \in ProcStates \ {"free"}, Move(p, s)
  PROVE  /\ proc' \in [Pids -> ProcStates]
         /\ pending' \in SUBSET Sigs
         /\ \A q \in Pids : proc'[q] = "free" <=> proc[q] = "free"
BY DEF TypeOK, Move, Sigs

\* The same for whatever a signal may do to its receiver.
LEMMA SignalKeepsChildren ==
  ASSUME TypeOK, NEW p \in Pids, proc[p] # "free", NEW sig, Signal(p, sig)
  PROVE  /\ proc' \in [Pids -> ProcStates]
         /\ pending' \in SUBSET Sigs
         /\ \A q \in Pids : proc'[q] = "free" <=> proc[q] = "free"
<1>1. proc[p] \in ProcStates \ {"free"}
  BY DEF TypeOK
<1>2. PICK s \in AfterSignal(proc[p], sig) : Move(p, s)
  BY DEF Signal
<1>3. AfterSignal(proc[p], sig) \subseteq ProcStates \ {"free"}
  BY <1>1 DEF AfterSignal, ProcStates
<1>. QED BY <1>2, <1>3, MoveKeepsChildren

\* Reading a command that forks: from here on every signal is blocked.
LEMMA TypeRunInv ==
  ASSUME IInv, NEW op \in Commands, TypeRun(op)
  PROVE  IInv'
<1>. USE DEF IInv, Aux, TypeRun, At
<1>1. HandlersNest' /\ HandlerLocals' /\ Safety' /\ ForwardOnlyToForeground'
  BY QuietStep
<1>2. TypeOK'
  BY DEF TypeOK, Locals, shell, handlv, NoCmd, NULL, mask_one, PCs
<1>3. Masked'
  BY DEF Masked, Launching, NoCmd, mask_one, handlv
<1>4. LaunchedIsNew' /\ JobPointer'
  BY DEF LaunchedIsNew, JobPointer
<1>. QED BY <1>1, <1>2, <1>3, <1>4

\* The mask goes back to what it was before fork, which was empty.
LEMMA UnblockInv ==
  ASSUME IInv, Unblock
  PROVE  IInv'
<1>. USE DEF IInv, Aux, Unblock, At, Done
<1>1. HandlersNest' /\ HandlerLocals' /\ Safety' /\ ForwardOnlyToForeground'
  BY QuietStep DEF shell, handlv
<1>2. TypeOK'
  BY DEF TypeOK, Locals, shell, handlv, mainv, NoCmd, NULL, PCs
<1>3. Masked'
  BY DEF Masked, Launching, NoCmd, handlv, mainv
<1>4. LaunchedIsNew' /\ JobPointer'
  BY DEF LaunchedIsNew, JobPointer, NoCmd, mainv, shell
<1>. QED BY <1>1, <1>2, <1>3, <1>4

\* waitfg reads the list and changes nothing but where the main thread is.
LEMMA WaitfgTestInv ==
  ASSUME IInv, WaitfgTest
  PROVE  IInv'
<1>. USE DEF IInv, Aux, WaitfgTest, At, Done
<1>1. HandlersNest' /\ HandlerLocals' /\ Safety' /\ ForwardOnlyToForeground'
  BY QuietStep DEF shell, handlv
<1>2. TypeOK'
  BY DEF TypeOK, Locals, shell, handlv, mainv, NoCmd, NULL, PCs
<1>3. Masked'
  BY DEF Masked, Launching, NoCmd, handlv, mainv
<1>4. LaunchedIsNew' /\ JobPointer'
  BY DEF LaunchedIsNew, JobPointer, NoCmd, mainv, shell
<1>. QED BY <1>1, <1>2, <1>3, <1>4

\* sigsuspend only puts the main thread to sleep.
LEMMA WaitfgSuspendInv ==
  ASSUME IInv, WaitfgSuspend
  PROVE  IInv'
<1>. USE DEF IInv, Aux, WaitfgSuspend, At, Done
<1>1. HandlersNest' /\ HandlerLocals' /\ Safety' /\ ForwardOnlyToForeground'
  BY QuietStep DEF shell, handlv
<1>2. TypeOK'
  BY DEF TypeOK, Locals, shell, handlv, mainv, NoCmd, NULL, PCs
<1>3. Masked'
  BY DEF Masked, Launching, NoCmd, handlv, mainv
<1>4. LaunchedIsNew' /\ JobPointer'
  BY DEF LaunchedIsNew, JobPointer, NoCmd, mainv, shell
<1>. QED BY <1>1, <1>2, <1>3, <1>4

\* fg, bg and kill take the pointer getjobjid found, which is not NULL.
LEMMA TypeJobInv ==
  ASSUME IInv, NEW op \in Commands, NEW arg \in Arguments, TypeJob(op, arg)
  PROVE  IInv'
<1>. USE DEF IInv, Aux, TypeJob, At, Done
<1>1. HandlersNest' /\ HandlerLocals' /\ Safety' /\ ForwardOnlyToForeground'
  BY QuietStep DEF shell, handlv
<1>2. TypeOK'
  <2>1. Getjob(arg) \in {NULL} \cup 0 .. MAXJOBS
    BY GetjobType, MaxJobsAssumption DEF Slots
  <2>2. cmd' = [op |-> op, job |-> Getjob(arg), pid |-> 0, prec |-> {}]
    BY DEF NoCmd
  <2>3. cmd' \in Locals
    BY <2>1, <2>2 DEF Locals
  <2>. QED BY <2>3 DEF TypeOK, shell, handlv, PCs
<1>3. Masked'
  BY DEF Masked, Launching, NoCmd, handlv, mainv
<1>4. LaunchedIsNew' /\ JobPointer'
  BY GetjobType DEF LaunchedIsNew, JobPointer, NoCmd, mainv, shell
<1>. QED BY <1>1, <1>2, <1>3, <1>4

\* jobs starts at entry 0, or the shell exits.
LEMMA TypeJobsInv ==
  ASSUME IInv, TypeJobs
  PROVE  IInv'
<1>. USE DEF IInv, Aux, TypeJobs, At, Done
<1>1. HandlersNest' /\ HandlerLocals' /\ Safety' /\ ForwardOnlyToForeground'
  BY QuietStep DEF shell, handlv
<1>2. TypeOK'
  <2>1. CASE pc' = "list" /\ cmd' = [NoCmd EXCEPT !.op = "jobs", !.job = 0]
    <3>1. cmd' = [op |-> "jobs", job |-> 0, pid |-> 0, prec |-> {}]
      BY <2>1 DEF NoCmd
    <3>2. cmd' \in Locals
      BY <3>1, MaxJobsAssumption DEF Locals
    <3>. QED BY <2>1, <3>2 DEF TypeOK, shell, handlv, PCs
  <2>2. CASE pc' = "exit" /\ UNCHANGED cmd
    BY <2>2 DEF TypeOK, shell, handlv, PCs
  <2>. QED BY <2>1, <2>2
<1>3. Masked'
  BY DEF Masked, Launching, NoCmd, handlv, mainv
<1>4. LaunchedIsNew' /\ JobPointer'
  <2>1. CASE pc' = "list" /\ cmd' = [NoCmd EXCEPT !.op = "jobs", !.job = 0]
    BY <2>1, MaxJobsAssumption DEF LaunchedIsNew, JobPointer, NoCmd
  <2>2. CASE pc' = "exit" /\ UNCHANGED cmd
    BY <2>2 DEF LaunchedIsNew, JobPointer
  <2>. QED BY <2>1, <2>2
<1>. QED BY <1>1, <1>2, <1>3, <1>4

\* listjobs never reads past the last entry.
LEMMA ListPidInv ==
  ASSUME IInv, ListPid
  PROVE  IInv'
<1>. USE DEF IInv, Aux, ListPid, At, Done
<1>1. HandlersNest' /\ HandlerLocals' /\ Safety' /\ ForwardOnlyToForeground'
  BY QuietStep DEF shell, handlv
<1>2. TypeOK'
  BY MaxJobsAssumption DEF JobPointer, TypeOK, Locals, shell, handlv, mainv, NoCmd, NULL, PCs
<1>3. Masked'
  BY DEF Masked, Launching, NoCmd, handlv, mainv
<1>4. LaunchedIsNew' /\ JobPointer'
  <2>1. cmd \in Locals /\ cmd.job \in 0 .. MAXJOBS
    BY DEF TypeOK, JobPointer
  <2>2. [cmd EXCEPT !.job = cmd.job + 1].job = cmd.job + 1
    BY <2>1 DEF Locals
  <2>3. cmd.job < MAXJOBS => cmd.job \in Slots /\ cmd.job + 1 \in 0 .. MAXJOBS
    BY <2>1, MaxJobsAssumption DEF Slots
  <2>4. pc' # "add" /\ pc' \notin {"signal", "setstate"}
    OBVIOUS
  <2>5. pc' = "liststate" => cmd'.job \in Slots
    BY <2>3
  <2>6. pc' = "list" => cmd'.job \in 0 .. MAXJOBS
    BY <2>2, <2>3
  <2>. QED BY <2>4, <2>5, <2>6 DEF LaunchedIsNew, JobPointer
<1>. QED BY <1>1, <1>2, <1>3, <1>4

\* After an entry was printed the next one is looked at.
LEMMA ListStateInv ==
  ASSUME IInv, ListState
  PROVE  IInv'
<1>. USE DEF IInv, Aux, ListState, At, Done
<1>1. HandlersNest' /\ HandlerLocals' /\ Safety' /\ ForwardOnlyToForeground'
  BY QuietStep DEF shell, handlv
<1>2. TypeOK'
  <2>1. cmd.job + 1 \in 0 .. MAXJOBS
    BY MaxJobsAssumption DEF JobPointer, Slots
  <2>2. cmd' \in Locals
    BY <2>1 DEF TypeOK, Locals
  <2>. QED BY <2>2 DEF TypeOK, shell, handlv, PCs
<1>3. Masked'
  BY DEF Masked, Launching, NoCmd, handlv, mainv
<1>4. LaunchedIsNew' /\ JobPointer'
  BY MaxJobsAssumption DEF Slots, LaunchedIsNew, JobPointer, NoCmd, mainv, shell
<1>. QED BY <1>1, <1>2, <1>3, <1>4

\* The shell exits; nothing else changes.
LEMMA QuitInv ==
  ASSUME IInv, Quit
  PROVE  IInv'
<1>. USE DEF IInv, Aux, Quit, At, Done
<1>1. HandlersNest' /\ HandlerLocals' /\ Safety' /\ ForwardOnlyToForeground'
  BY QuietStep DEF shell, handlv
<1>2. TypeOK'
  BY DEF TypeOK, Locals, shell, handlv, mainv, NoCmd, NULL, PCs
<1>3. Masked'
  BY DEF Masked, Launching, NoCmd, handlv, mainv
<1>4. LaunchedIsNew' /\ JobPointer'
  BY DEF LaunchedIsNew, JobPointer, NoCmd, mainv, shell
<1>. QED BY <1>1, <1>2, <1>3, <1>4

\* A key posts a signal; nothing else changes.
LEMMA KeyboardInv ==
  ASSUME IInv, NEW s \in {"INT", "TSTP"}, Keyboard(s)
  PROVE  IInv'
<1>. USE DEF IInv, Aux, Keyboard, At, Done
<1>1. HandlersNest' /\ HandlerLocals' /\ Safety' /\ ForwardOnlyToForeground'
  BY QuietStep DEF shell, handlv, mainv
<1>2. TypeOK'
  BY DEF Sigs, TypeOK, Locals, shell, handlv, mainv, NoCmd, NULL, PCs
<1>3. Masked'
  BY DEF Masked, Launching, NoCmd, handlv, mainv
<1>4. LaunchedIsNew' /\ JobPointer'
  BY DEF LaunchedIsNew, JobPointer, NoCmd, mainv, shell
<1>. QED BY <1>1, <1>2, <1>3, <1>4

-----------------------------------------------------------------------------
(***************************************************************************)
(* Steps of the main thread that create, signal or change a job.           *)
(***************************************************************************)
LEMMA ForkInv ==
  ASSUME IInv, Fork
  PROVE  IInv'
<1>. USE DEF IInv, Aux, At
<1>1. CASE pc' = "exit" /\ UNCHANGED <<proc, cmd>>
  <2>1. pc = "fork" /\ UNCHANGED <<shell, handlv, blocked, pending>>
    BY DEF Fork
  <2>2. HandlersNest' /\ HandlerLocals' /\ Safety' /\ ForwardOnlyToForeground'
    BY <1>1, <2>1, QuietStep
  <2>3. TypeOK'
    BY <1>1, <2>1 DEF TypeOK, shell, handlv, PCs
  <2>4. Masked' /\ LaunchedIsNew' /\ JobPointer'
    BY <1>1 DEF Masked, Launching, LaunchedIsNew, JobPointer
  <2>. QED BY <2>2, <2>3, <2>4
<1>2. ASSUME NEW p \in Pids,
             proc[p] = "free",
             proc' = [proc EXCEPT ![p] = "forked"],
             cmd' = [cmd EXCEPT !.pid = p],
             pc' = "add"
      PROVE  IInv'
  <2>1. /\ stack = <<>> /\ pc = "fork"
        /\ UNCHANGED <<shell, handlv, blocked, pending>>
    BY DEF Fork
  <2>2. \A s \in Sigs : hpc[s] = "idle" /\ hpc'[s] = "idle"
    BY <2>1, MainIsAlone DEF handlv
  <2>3. cmd \in Locals /\ cmd'.pid = p /\ cmd'.prec = cmd.prec
    BY <1>2 DEF TypeOK, Locals
  <2>4. ~Tracked(jobs, p)
    BY <1>2, <2>2 DEF Safety, NoStaleEntry, HeldByReaper, Sigs
  <2>5. TypeOK'
    BY <1>2, <2>1 DEF TypeOK, Locals, shell, handlv, PCs, ProcStates
  <2>6. HandlersNest' /\ HandlerLocals' /\ ForwardOnlyToForeground'
    BY <2>1, <2>2 DEF HandlersNest, HandlerLocals, ForwardOnlyToForeground,
                      Sigs, handlv
  <2>7. Masked' /\ LaunchedIsNew' /\ JobPointer'
    <3>1. Masked'
      BY <1>2, <2>1, <2>3 DEF Masked, Launching, handlv
    <3>2. LaunchedIsNew'
      BY <1>2, <2>1, <2>3, <2>4 DEF LaunchedIsNew, Tracked, WithPid, shell, TypeOK
    <3>. QED BY <1>2, <3>1, <3>2 DEF JobPointer
  <2>8. Recorded'
    BY <1>2, <2>1, <2>3 DEF Safety, Recorded, BeingLaunched, Tracked, WithPid,
                            shell, TypeOK
  <2>9. NoStaleEntry'
    BY <1>2, <2>1, <2>2 DEF Safety, NoStaleEntry, HeldByReaper, Tracked, WithPid,
                            shell, Sigs, TypeOK
  <2>10. UniquePids'
    BY <2>1 DEF Safety, UniquePids, shell
  <2>. QED BY <2>5, <2>6, <2>7, <2>8, <2>9, <2>10 DEF Safety
<1>. QED BY <1>1, <1>2 DEF Fork

\* addjob: the child becomes Tracked, or dropped when the list is full.
LEMMA AddJobInv ==
  ASSUME IInv, AddJob
  PROVE  IInv'
<1>. USE DEF IInv, Aux, At
<1>. DEFINE p == cmd.pid
<1>1. /\ stack = <<>> /\ pc = "add" /\ pc' = "unblock"
      /\ UNCHANGED <<cmd, blocked, pending, handlv, proc>>
  BY DEF AddJob
<1>2. \A s \in Sigs : hpc[s] = "idle" /\ hpc'[s] = "idle"
  BY <1>1, MainIsAlone DEF handlv
<1>3. p \in Pids /\ proc[p] # "free" /\ ~Tracked(jobs, p)
  BY <1>1 DEF LaunchedIsNew
<1>4. HandlersNest' /\ HandlerLocals' /\ ForwardOnlyToForeground'
  BY <1>1, <1>2 DEF HandlersNest, HandlerLocals, ForwardOnlyToForeground,
                    Sigs, handlv
<1>5. Masked' /\ LaunchedIsNew' /\ JobPointer'
  BY <1>1 DEF Masked, Launching, LaunchedIsNew, JobPointer, handlv
<1>6. CASE Full(jobs)
  <2>1. dropped' = dropped \cup {p} /\ UNCHANGED <<jobs, nextjid>>
    BY <1>6 DEF AddJob
  <2>2. TypeOK'
    BY <1>1, <1>3, <2>1 DEF TypeOK, handlv, PCs
  <2>3. Recorded'
    BY <1>1, <2>1 DEF Safety, Recorded, BeingLaunched, Tracked, WithPid
  <2>4. NoStaleEntry' /\ UniquePids'
    BY <1>1, <2>1 DEF Safety, NoStaleEntry, UniquePids, HeldByReaper, Tracked,
                      WithPid, handlv
  <2>. QED BY <1>4, <1>5, <2>2, <2>3, <2>4 DEF Safety
<1>7. CASE ~Full(jobs)
  <2>1. /\ jobs \in [Slots -> Job] /\ nextjid \in Nat \ {0}
        /\ LaunchState(cmd.op) \in JobStates
    BY DEF TypeOK, LaunchState, JobStates
  <2>2. /\ jobs' = addjob(jobs, nextjid, p, LaunchState(cmd.op))
        /\ nextjid' = NextJidAfterAdd(nextjid)
        /\ UNCHANGED dropped
    BY <1>7 DEF AddJob
  <2>3. /\ jobs' \in [Slots -> Job]
        /\ \E i \in Slots :
             /\ jobs[i].pid = 0
             /\ jobs' = [jobs EXCEPT ![i] = [pid |-> p, jid |-> nextjid,
                                             state |-> LaunchState(cmd.op)]]
    <3>. DEFINE st == LaunchState(cmd.op)
    <3>1. nextjid \in Nat /\ p \in Pids /\ st \in JobStates
      BY <1>3, <2>1
    <3>2. jobs' = addjob(jobs, nextjid, p, st)
      BY <2>2
    <3>. HIDE DEF p, st
    <3>3. /\ addjob(jobs, nextjid, p, st) \in [Slots -> Job]
          /\ \E i \in Slots :
               /\ jobs[i].pid = 0
               /\ addjob(jobs, nextjid, p, st) =
                    [jobs EXCEPT ![i] = [pid |-> p, jid |-> nextjid, state |-> st]]
      BY <1>7, <2>1, <3>1, AddjobEffect
    <3>. QED BY <3>2, <3>3 DEF st
  <2>4. PICK i \in Slots :
          /\ jobs[i].pid = 0
          /\ jobs' = [jobs EXCEPT ![i] = [pid |-> p, jid |-> nextjid,
                                          state |-> LaunchState(cmd.op)]]
    BY <2>3
  <2>5. \A k \in Slots : jobs'[k].pid = IF k = i THEN p ELSE jobs[k].pid
    BY <2>1, <2>4
  <2>6. TypeOK'
    BY <1>1, <2>1, <2>2, <2>3, NextJidPositive DEF TypeOK, handlv, PCs
  <2>7. \A q \in Pids : Tracked(jobs, q)' <=> Tracked(jobs, q) \/ q = p
    BY <2>4, <2>5, PidsAssumption DEF Tracked, WithPid
  <2>8. Recorded'
    BY <1>1, <2>2, <2>7 DEF Safety, Recorded, BeingLaunched
  <2>9. NoStaleEntry'
    BY <1>1, <1>3, <2>7 DEF Safety, NoStaleEntry, HeldByReaper, handlv
  <2>10. UniquePids'
    <3>. SUFFICES ASSUME NEW k \in Slots, NEW l \in Slots,
                         jobs'[k].pid = jobs'[l].pid, jobs'[k].pid # 0
                  PROVE  k = l
      BY DEF UniquePids
    <3>1. \A n \in Slots : jobs[n].pid # p
      BY <1>3 DEF Tracked, WithPid
    <3>. QED BY <2>5, <3>1 DEF Safety, UniquePids
  <2>. QED BY <1>4, <1>5, <2>6, <2>8, <2>9, <2>10 DEF Safety
<1>. QED BY <1>6, <1>7

\* kill from a built-in command: the child it hits, if any, stays a child.
LEMMA SendSignalInv ==
  ASSUME IInv, SendSignal
  PROVE  IInv'
<1>. USE DEF IInv, Aux, At
<1>. DEFINE p == jobs[cmd.job].pid
            sig == IF cmd.op \in {"fg", "bg"} THEN "CONT" ELSE "TERM"
            exists == IF cmd.op = "kill" THEN ProcessExists(p)
                                         ELSE GroupExists(p)
<1>1. /\ stack = <<>> /\ pc = "signal"
      /\ (exists /\ Signal(p, sig)) \/ UNCHANGED <<proc, pending>>
      /\ (pc' \in {"setstate", "exit"} /\ UNCHANGED cmd) \/ Done
      /\ UNCHANGED <<shell, blocked, handlv>>
  BY DEF SendSignal
<1>2. /\ proc' \in [Pids -> ProcStates]
      /\ pending' \in SUBSET Sigs
      /\ \A q \in Pids : proc'[q] = "free" <=> proc[q] = "free"
  <2>1. CASE UNCHANGED <<proc, pending>>
    BY <2>1 DEF TypeOK
  <2>2. CASE exists /\ Signal(p, sig)
    <3>1. p \in Pids /\ proc[p] # "free"
      <4>1. cmd.job \in Slots
        BY <1>1 DEF JobPointer
      <4>2. p \in Pids \cup {0}
        BY <4>1 DEF TypeOK, Job
      <4>. QED BY <2>2, <4>2 DEF GroupExists, ProcessExists
    <3>. QED BY <2>2, <3>1, SignalKeepsChildren
  <2>. QED BY <1>1, <2>1, <2>2
<1>3. HandlersNest' /\ HandlerLocals' /\ Safety' /\ ForwardOnlyToForeground'
  BY <1>1, <1>2, QuietStep DEF Done
<1>4. TypeOK'
  BY <1>1, <1>2 DEF Done, TypeOK, Locals, shell, handlv, NoCmd, NULL, PCs
<1>5. Masked' /\ LaunchedIsNew' /\ JobPointer'
  BY <1>1 DEF Done, Masked, Launching, LaunchedIsNew, JobPointer
<1>. QED BY <1>3, <1>4, <1>5

\* A new state in an entry, whoever writes it.
LEMMA SetstateKeepsSafety ==
  ASSUME IInv, NEW i, NEW s \in JobStates,
         jobs' = setstate(jobs, i, s),
         UNCHANGED <<proc, dropped>>,
         \A p \in Pids : HeldByReaper(p)' <=> HeldByReaper(p),
         pc # "add", pc' # "add"
  PROVE  Safety' /\ jobs' \in [Slots -> Job]
<1>. USE DEF IInv
<1>1. /\ jobs' \in [Slots -> Job]
      /\ \A k \in Slots : jobs'[k].pid = jobs[k].pid
  BY SetstateEffect DEF TypeOK
<1>2. \A p \in Pids : Tracked(jobs, p)' <=> Tracked(jobs, p)
  BY <1>1 DEF Tracked, WithPid
<1>3. Recorded' /\ NoStaleEntry'
  BY <1>2 DEF Safety, Recorded, NoStaleEntry, BeingLaunched
<1>4. UniquePids'
  BY <1>1 DEF Safety, UniquePids
<1>. QED BY <1>1, <1>3, <1>4 DEF Safety

\* fg and bg set a state; pids in the list do not change.
LEMMA SetStateInv ==
  ASSUME IInv, SetState
  PROVE  IInv'
<1>. USE DEF IInv, Aux, At
<1>1. /\ stack = <<>> /\ pc = "setstate"
      /\ (pc' = "waitfg" /\ UNCHANGED cmd) \/ Done
      /\ \E s \in {"FG", "BG"} : jobs' = setstate(jobs, cmd.job, s)
      /\ UNCHANGED <<nextjid, dropped, blocked, pending, handlv, proc>>
  BY DEF SetState
<1>2. \A s \in Sigs : hpc[s] = "idle" /\ hpc'[s] = "idle"
  BY <1>1, MainIsAlone DEF handlv
<1>3. Safety' /\ jobs' \in [Slots -> Job]
  <2>1. PICK s \in JobStates : jobs' = setstate(jobs, cmd.job, s)
    BY <1>1 DEF JobStates
  <2>2. \A p \in Pids : HeldByReaper(p)' <=> HeldByReaper(p)
    BY <1>1 DEF HeldByReaper, handlv
  <2>. QED BY <1>1, <2>1, <2>2, SetstateKeepsSafety DEF Done
<1>4. HandlersNest' /\ HandlerLocals' /\ ForwardOnlyToForeground'
  BY <1>1, <1>2 DEF HandlersNest, HandlerLocals, ForwardOnlyToForeground,
                    Sigs, handlv
<1>5. TypeOK'
  BY <1>1, <1>3 DEF Done, TypeOK, Locals, handlv, NoCmd, NULL, PCs
<1>6. Masked' /\ LaunchedIsNew' /\ JobPointer'
  BY <1>1 DEF Done, Masked, Launching, LaunchedIsNew, JobPointer, handlv
<1>. QED BY <1>3, <1>4, <1>5, <1>6

-----------------------------------------------------------------------------
(***************************************************************************)
(* Steps of the handlers.                                                  *)
(***************************************************************************)

\* A delivered signal adds its handler, which is idle, on top.
LEMMA PushKeepsNest ==
  ASSUME TypeOK, HandlersNest, NEW s \in Sigs, hpc[s] = "idle",
         stack' = <<s>> \o stack, hpc' = [hpc EXCEPT ![s] = "start"]
  PROVE  HandlersNest' /\ stack' \in Seq(Sigs)
<1>1. stack \in Seq(Sigs) /\ hpc \in [Sigs -> HPCs]
  BY DEF TypeOK
<1>2. /\ stack' \in Seq(Sigs)
      /\ Len(stack') = Len(stack) + 1
      /\ stack'[1] = s
      /\ \A i \in 1 .. Len(stack) : stack'[i + 1] = stack[i]
  BY <1>1
<1>3. Len(stack) \in Nat /\ \A i \in 1 .. Len(stack) : stack[i] # s
  BY <1>1 DEF HandlersNest
<1>4. \A i \in 1 .. Len(stack') : i # 1 =>
        i - 1 \in 1 .. Len(stack) /\ stack'[i] = stack[i - 1]
  BY <1>2, <1>3
<1>5. ASSUME NEW r \in Sigs
      PROVE  hpc'[r] # "idle" <=> \E i \in 1 .. Len(stack') : stack'[i] = r
  <2>1. CASE r = s
    <3>1. 1 \in 1 .. Len(stack')
      BY <1>2, <1>3
    <3>. QED BY <1>1, <1>2, <2>1, <3>1
  <2>2. CASE r # s
    <3>1. hpc'[r] = hpc[r]
      BY <1>1, <2>2
    <3>2. ASSUME NEW i \in 1 .. Len(stack), stack[i] = r
          PROVE  \E k \in 1 .. Len(stack') : stack'[k] = r
      <4>1. i + 1 \in 1 .. Len(stack')
        BY <1>2, <1>3
      <4>. QED BY <1>2, <3>2, <4>1
    <3>3. ASSUME NEW k \in 1 .. Len(stack'), stack'[k] = r
          PROVE  \E i \in 1 .. Len(stack) : stack[i] = r
      BY <1>2, <1>4, <2>2, <3>3
    <3>. QED BY <3>1, <3>2, <3>3 DEF HandlersNest
  <2>. QED BY <2>1, <2>2
<1>6. ASSUME NEW i \in 1 .. Len(stack'), NEW k \in 1 .. Len(stack'),
             stack'[i] = stack'[k]
      PROVE  i = k
  <2>1. CASE i = 1 \/ k = 1
    BY <1>2, <1>3, <1>4, <1>6, <2>1
  <2>2. CASE i # 1 /\ k # 1
    <3>1. i - 1 = k - 1
      BY <1>4, <1>6, <2>2 DEF HandlersNest
    <3>. QED BY <3>1, <1>2, <1>3
  <2>. QED BY <2>1, <2>2
<1>. QED BY <1>2, <1>5, <1>6 DEF HandlersNest

\* The innermost handler leaves, and was there once.
LEMMA PopKeepsNest ==
  ASSUME TypeOK, HandlersNest, NEW s \in Sigs,
         stack # <<>>, Head(stack) = s, Return(s)
  PROVE  /\ HandlersNest'
         /\ stack' \in Seq(Sigs)
         /\ hpc' \in [Sigs -> HPCs] /\ hpid' \in [Sigs -> Pids \cup {0}]
         /\ \A r \in Sigs : hpc'[r] = IF r = s THEN "idle" ELSE hpc[r]
         /\ \A r \in Sigs : r # s => hpid'[r] = hpid[r]
<1>1. stack \in Seq(Sigs) /\ hpc \in [Sigs -> HPCs]
      /\ hpid \in [Sigs -> Pids \cup {0}]
  BY DEF TypeOK
<1>2. /\ stack' \in Seq(Sigs)
      /\ Len(stack') = Len(stack) - 1
      /\ stack[1] = s
      /\ \A i \in 1 .. Len(stack') : stack'[i] = stack[i + 1]
      /\ Len(stack) \in Nat \ {0}
  BY <1>1 DEF Return
<1>3. /\ hpc' \in [Sigs -> HPCs] /\ hpid' \in [Sigs -> Pids \cup {0}]
      /\ \A r \in Sigs : hpc'[r] = IF r = s THEN "idle" ELSE hpc[r]
      /\ \A r \in Sigs : r # s => hpid'[r] = hpid[r]
  BY <1>1 DEF Return, HPCs
<1>4. \A i \in 1 .. Len(stack') : i + 1 \in 1 .. Len(stack)
  BY <1>2
<1>5. ASSUME NEW i \in 1 .. Len(stack') PROVE stack'[i] # s
  <2>1. 1 \in 1 .. Len(stack) /\ i + 1 # 1
    BY <1>2
  <2>. QED BY <1>2, <1>4, <2>1 DEF HandlersNest
<1>6. ASSUME NEW r \in Sigs
      PROVE  hpc'[r] # "idle" <=> \E i \in 1 .. Len(stack') : stack'[i] = r
  <2>1. CASE r = s
    BY <1>3, <1>5, <2>1
  <2>2. CASE r # s
    <3>1. ASSUME NEW i \in 1 .. Len(stack), stack[i] = r
          PROVE  \E k \in 1 .. Len(stack') : stack'[k] = r
      <4>1. i - 1 \in 1 .. Len(stack') /\ (i - 1) + 1 = i
        BY <1>2, <2>2, <3>1
      <4>. QED BY <1>2, <3>1, <4>1
    <3>2. ASSUME NEW k \in 1 .. Len(stack'), stack'[k] = r
          PROVE  \E i \in 1 .. Len(stack) : stack[i] = r
      BY <1>2, <1>4, <3>2
    <3>. QED BY <1>3, <2>2, <3>1, <3>2 DEF HandlersNest
  <2>. QED BY <2>1, <2>2
<1>7. ASSUME NEW i \in 1 .. Len(stack'), NEW k \in 1 .. Len(stack'),
             stack'[i] = stack'[k]
      PROVE  i = k
  <2>1. i + 1 = k + 1
    BY <1>2, <1>4, <1>7 DEF HandlersNest
  <2>. QED BY <2>1, <1>2
<1>. QED BY <1>2, <1>3, <1>6, <1>7 DEF HandlersNest

\* A handler runs only where eval is not launching a job, and leaves the main
\* thread alone.
LEMMA HandlerLeavesMain ==
  ASSUME IInv, stack # <<>>, UNCHANGED mainv
  PROVE  /\ pc \notin Launching /\ pc # "add" /\ pc' # "add"
         /\ Masked' /\ LaunchedIsNew' /\ JobPointer'
BY DEF IInv, Aux, Masked, Launching, LaunchedIsNew, JobPointer, mainv

\* Delivery starts a handler that was idle, on top of the others.
LEMMA DeliverInv ==
  ASSUME IInv, NEW s \in Sigs, Deliver(s)
  PROVE  IInv'
<1>. USE DEF IInv, Aux
<1>1. /\ pc # "exit" /\ s \in pending \ blocked /\ hpc[s] = "idle"
      /\ pending' = pending \ {s}
      /\ stack' = <<s>> \o stack
      /\ hpc' = [hpc EXCEPT ![s] = "start"]
      /\ pc' = IF pc = "asleep" THEN "waitfg" ELSE pc
      /\ UNCHANGED <<shell, cmd, blocked, hpid, proc>>
  BY DEF Deliver, Wake
<1>2. pc \notin Launching /\ pc # "add"
  BY <1>1 DEF Masked, Launching
<1>3. HandlersNest' /\ stack' \in Seq(Sigs)
  BY <1>1, PushKeepsNest
<1>4. TypeOK'
  BY <1>1, <1>3 DEF TypeOK, shell, PCs, HPCs
<1>5. \A r \in Sigs : hpc'[r] = IF r = s THEN "start" ELSE hpc[r]
  BY <1>1 DEF TypeOK
<1>6. HandlerLocals'
  BY <1>1, <1>5 DEF HandlerLocals, Sigs
<1>7. \A p \in Pids : HeldByReaper(p)' => HeldByReaper(p)
  BY <1>1, <1>5 DEF HeldByReaper, Sigs
<1>8. \A p \in Pids : HeldByReaper(p) => HeldByReaper(p)'
  BY <1>1, <1>5 DEF HeldByReaper, Sigs
<1>9. Safety'
  BY <1>1, <1>2, <1>8 DEF Safety, Recorded, NoStaleEntry, UniquePids,
                          BeingLaunched, Tracked, WithPid, shell
<1>10. ForwardOnlyToForeground'
  BY <1>1, <1>5 DEF ForwardOnlyToForeground, Tracked, WithPid, shell, Sigs
<1>11. Masked' /\ LaunchedIsNew' /\ JobPointer'
  BY <1>1, <1>2 DEF Masked, Launching, LaunchedIsNew, JobPointer
<1>. QED BY <1>3, <1>4, <1>6, <1>9, <1>10, <1>11

\* waitpid takes a dead child from the kernel: the reaper holds its pid.
LEMMA WaitpidInv ==
  ASSUME IInv, NEW p \in Pids, Waitpid(p)
  PROVE  IInv'
<1>. USE DEF IInv, Aux
<1>. DEFINE gone == Dead(p)
<1>1. /\ stack # <<>> /\ hpc["CHLD"] = "start"
      /\ \/ /\ gone
            /\ proc' = [proc EXCEPT ![p] = "free"]
            /\ hpc' = [hpc EXCEPT !["CHLD"] = "gone"]
         \/ /\ proc[p] = "stopping"
            /\ proc' = [proc EXCEPT ![p] = "stopped"]
            /\ hpc' = [hpc EXCEPT !["CHLD"] = "stop"]
      /\ hpid' = [hpid EXCEPT !["CHLD"] = p]
      /\ UNCHANGED <<shell, mainv, pending, stack>>
  BY DEF Waitpid, Running
<1>2. Masked' /\ LaunchedIsNew' /\ JobPointer' /\ pc # "add" /\ pc' # "add"
  BY <1>1, HandlerLeavesMain
<1>3. TypeOK'
  <2>1. proc' \in [Pids -> ProcStates]
    BY <1>1 DEF TypeOK, ProcStates
  <2>2. hpc' \in [Sigs -> HPCs] /\ hpid' \in [Sigs -> Pids \cup {0}]
    BY <1>1 DEF TypeOK, HPCs
  <2>. QED BY <1>1, <2>1, <2>2 DEF TypeOK, shell, mainv
<1>4. /\ hpc'["CHLD"] \in {"gone", "stop"} /\ hpid'["CHLD"] = p
      /\ hpc'["CHLD"] = "gone" <=> proc'[p] = "free"
      /\ \A s \in {"INT", "TSTP"} : hpc'[s] = hpc[s] /\ hpid'[s] = hpid[s]
      /\ \A q \in Pids \ {p} : proc'[q] = proc[q]
      /\ proc[p] # "free"
  BY <1>1 DEF TypeOK, Sigs, Dead
<1>5. HandlersNest'
  <2>1. \A s \in Sigs : hpc'[s] # "idle" <=> hpc[s] # "idle"
    BY <1>1, <1>4 DEF Sigs
  <2>. QED BY <1>1, <2>1 DEF HandlersNest
<1>6. HandlerLocals'
  BY <1>4 DEF HandlerLocals, Sigs
<1>7. Recorded'
  BY <1>1, <1>2, <1>4 DEF Safety, Recorded, BeingLaunched, Tracked, WithPid, shell
<1>8. NoStaleEntry' /\ UniquePids'
  BY <1>1, <1>4 DEF Safety, NoStaleEntry, UniquePids, HeldByReaper, Tracked,
                    WithPid, shell
<1>9. ForwardOnlyToForeground'
  <2>. SUFFICES ASSUME NEW s \in {"INT", "TSTP"}, hpc'[s] = "send"
                PROVE  LET q == hpid'[s] IN
                       \/ \E i \in WithPid(jobs', q) : jobs'[i].state \in {"FG", "ST"}
                       \/ ~Tracked(jobs', q) /\ proc'[q] = "free"
    BY DEF ForwardOnlyToForeground
  <2>1. hpc[s] = "send" /\ hpid'[s] = hpid[s] /\ hpid[s] \in Pids
    BY <1>4 DEF HandlerLocals, Sigs
  <2>2. jobs' = jobs
    BY <1>1 DEF shell
  <2>3. \A q \in Pids : proc[q] = "free" => proc'[q] = "free"
    BY <1>4
  <2>. QED BY <2>1, <2>2, <2>3 DEF ForwardOnlyToForeground
<1>. QED BY <1>2, <1>3, <1>5, <1>6, <1>7, <1>8, <1>9 DEF Safety

\* The reaper returns holding nothing.
LEMMA WaitpidNoneInv ==
  ASSUME IInv, WaitpidNone
  PROVE  IInv'
<1>. USE DEF IInv, Aux
<1>1. /\ stack # <<>> /\ Head(stack) = "CHLD" /\ hpc["CHLD"] = "start"
      /\ Return("CHLD") /\ UNCHANGED <<shell, mainv, pending, proc>>
  BY DEF WaitpidNone, Running
<1>2. Masked' /\ LaunchedIsNew' /\ JobPointer' /\ pc # "add" /\ pc' # "add"
  BY <1>1, HandlerLeavesMain
<1>3. /\ HandlersNest'
      /\ stack' \in Seq(Sigs)
      /\ hpc' \in [Sigs -> HPCs] /\ hpid' \in [Sigs -> Pids \cup {0}]
      /\ \A r \in Sigs : hpc'[r] = IF r = "CHLD" THEN "idle" ELSE hpc[r]
      /\ \A r \in Sigs : r # "CHLD" => hpid'[r] = hpid[r]
  BY <1>1, PopKeepsNest DEF Sigs
<1>4. TypeOK'
  BY <1>1, <1>3 DEF TypeOK, shell, mainv
<1>5. HandlerLocals' /\ ForwardOnlyToForeground'
  BY <1>1, <1>3 DEF HandlerLocals, ForwardOnlyToForeground, Tracked, WithPid,
                    shell, Sigs
<1>6. Safety'
  BY <1>1, <1>2, <1>3 DEF Safety, Recorded, NoStaleEntry, UniquePids, BeingLaunched,
                          HeldByReaper, Tracked, WithPid, shell, Sigs
<1>. QED BY <1>2, <1>3, <1>4, <1>5, <1>6

\* The reaper forgets its pid and calls waitpid again.
LEMMA NextChildEffect ==
  ASSUME TypeOK, HandlersNest, HandlerLocals, hpc["CHLD"] \in {"gone", "stop"},
         NextChild
  PROVE  /\ HandlersNest'
         /\ stack' = stack
         /\ hpc' \in [Sigs -> HPCs] /\ hpid' \in [Sigs -> Pids \cup {0}]
         /\ hpc'["CHLD"] = "start"
         /\ \A s \in {"INT", "TSTP"} : hpc'[s] = hpc[s] /\ hpid'[s] = hpid[s]
<1>1. /\ hpc' = [hpc EXCEPT !["CHLD"] = "start"]
      /\ hpid' = [hpid EXCEPT !["CHLD"] = 0]
      /\ UNCHANGED stack
  BY DEF NextChild
<1>2. /\ hpc' \in [Sigs -> HPCs] /\ hpid' \in [Sigs -> Pids \cup {0}]
      /\ hpc'["CHLD"] = "start"
      /\ \A s \in {"INT", "TSTP"} : hpc'[s] = hpc[s] /\ hpid'[s] = hpid[s]
  BY <1>1 DEF TypeOK, HPCs, Sigs
<1>3. \A s \in Sigs : hpc'[s] # "idle" <=> hpc[s] # "idle"
  BY <1>2 DEF Sigs
<1>4. HandlersNest'
  BY <1>1, <1>3 DEF HandlersNest
<1>. QED BY <1>1, <1>2, <1>4

\* The entry of the reaped child goes; no other entry had its pid.
LEMMA ReapJobInv ==
  ASSUME IInv, ReapJob
  PROVE  IInv'
<1>. USE DEF IInv, Aux
<1>. DEFINE p == hpid["CHLD"]
<1>1. /\ stack # <<>> /\ hpc["CHLD"] = "gone" /\ NextChild
      /\ dropped' = dropped \ {p}
      /\ UNCHANGED <<mainv, pending, proc>>
  BY DEF ReapJob, Running
<1>2. Masked' /\ LaunchedIsNew' /\ JobPointer' /\ pc # "add" /\ pc' # "add"
  BY <1>1, HandlerLeavesMain
<1>3. p \in Pids /\ proc[p] = "free" /\ p # 0
  BY <1>1, PidsAssumption DEF HandlerLocals
<1>4. /\ HandlersNest'
      /\ stack' = stack
      /\ hpc' \in [Sigs -> HPCs] /\ hpid' \in [Sigs -> Pids \cup {0}]
      /\ hpc'["CHLD"] = "start"
      /\ \A s \in {"INT", "TSTP"} : hpc'[s] = hpc[s] /\ hpid'[s] = hpid[s]
  BY <1>1, NextChildEffect
<1>5. /\ jobs' \in [Slots -> Job] /\ nextjid' \in Nat \ {0}
      /\ \A k \in Slots : jobs[k].pid # p => jobs'[k] = jobs[k]
      /\ \A k \in Slots : jobs[k].pid = p => jobs'[k].pid = 0
  <2>1. CASE Tracked(jobs, p)
    <3>1. jobs' = deletejob(jobs, p) /\ nextjid' = NextJidAfterDelete(jobs')
      BY <2>1 DEF ReapJob
    <3>2. jobs \in [Slots -> Job] /\ nextjid \in Nat \ {0}
      BY DEF TypeOK
    <3>3. PICK i \in Slots : /\ jobs[i].pid = p
                             /\ jobs' = [jobs EXCEPT ![i] = ClearedJob]
      <4>. HIDE DEF p
      <4>. QED BY <2>1, <3>1, <3>2, DeletejobEffect
    <3>4. jobs' \in [Slots -> Job]
      <4>. HIDE DEF p
      <4>. QED BY <2>1, <3>1, <3>2, DeletejobEffect
    <3>5. nextjid' \in Nat \ {0}
      BY <3>1, <3>2, <3>4, NextJidPositive
    <3>6. \A k \in Slots : k # i => jobs[k].pid # p /\ jobs'[k] = jobs[k]
      BY <1>3, <3>2, <3>3 DEF Safety, UniquePids
    <3>7. jobs'[i].pid = 0
      BY <3>2, <3>3 DEF ClearedJob
    <3>. QED BY <3>3, <3>4, <3>5, <3>6, <3>7
  <2>2. CASE ~Tracked(jobs, p)
    <3>1. UNCHANGED <<jobs, nextjid>>
      BY <2>2 DEF ReapJob
    <3>2. \A k \in Slots : jobs[k].pid # p
      BY <2>2 DEF Tracked, WithPid
    <3>. QED BY <3>1, <3>2 DEF TypeOK
  <2>. QED BY <2>1, <2>2
<1>6. \A q \in Pids : Tracked(jobs, q)' <=> Tracked(jobs, q) /\ q # p
  BY <1>3, <1>5, PidsAssumption DEF Tracked, WithPid
<1>7. TypeOK'
  BY <1>1, <1>4, <1>5 DEF TypeOK, mainv
<1>8. HandlerLocals'
  BY <1>4 DEF HandlerLocals, Sigs
<1>9. Recorded'
  BY <1>1, <1>2, <1>3, <1>6 DEF Safety, Recorded, BeingLaunched
<1>10. NoStaleEntry'
  BY <1>1, <1>6 DEF Safety, NoStaleEntry, HeldByReaper
<1>11. UniquePids'
  <2>. SUFFICES ASSUME NEW i \in Slots, NEW k \in Slots,
                       jobs'[i].pid = jobs'[k].pid, jobs'[i].pid # 0
                PROVE  i = k
    BY DEF UniquePids
  <2>1. jobs[i].pid = jobs'[i].pid /\ jobs[k].pid = jobs'[k].pid
    BY <1>5
  <2>. QED BY <2>1 DEF Safety, UniquePids
<1>12. ForwardOnlyToForeground'
  <2>. SUFFICES ASSUME NEW s \in {"INT", "TSTP"}, hpc'[s] = "send"
                PROVE  LET q == hpid'[s] IN
                       \/ \E i \in WithPid(jobs', q) : jobs'[i].state \in {"FG", "ST"}
                       \/ ~Tracked(jobs', q) /\ proc'[q] = "free"
    BY DEF ForwardOnlyToForeground
  <2>1. hpc[s] = "send" /\ hpid'[s] = hpid[s] /\ hpid[s] \in Pids
    BY <1>4 DEF HandlerLocals, Sigs
  <2>2. CASE hpid[s] = p
    BY <1>1, <1>3, <1>6, <2>1, <2>2
  <2>3. CASE hpid[s] # p
    <3>1. \A i \in Slots : jobs[i].pid = hpid[s] => jobs'[i] = jobs[i]
      BY <1>5, <2>3
    <3>2. CASE \E i \in WithPid(jobs, hpid[s]) : jobs[i].state \in {"FG", "ST"}
      BY <2>1, <3>1, <3>2 DEF WithPid
    <3>3. CASE ~Tracked(jobs, hpid[s]) /\ proc[hpid[s]] = "free"
      BY <1>1, <1>6, <2>1, <3>3
    <3>. QED BY <2>1, <3>2, <3>3 DEF ForwardOnlyToForeground
  <2>. QED BY <2>2, <2>3
<1>. QED BY <1>2, <1>4, <1>7, <1>8, <1>9, <1>10, <1>11, <1>12 DEF Safety

\* The entry of a stopped child is marked.
LEMMA StopJobInv ==
  ASSUME IInv, StopJob
  PROVE  IInv'
<1>. USE DEF IInv, Aux
<1>. DEFINE j == getjobpid(jobs, hpid["CHLD"])
<1>1. /\ stack # <<>> /\ hpc["CHLD"] = "stop" /\ NextChild
      /\ jobs' = IF j # NULL THEN setstate(jobs, j, "ST") ELSE jobs
      /\ UNCHANGED <<nextjid, dropped, mainv, pending, proc>>
  BY DEF StopJob, Running
<1>2. Masked' /\ LaunchedIsNew' /\ JobPointer' /\ pc # "add" /\ pc' # "add"
  BY <1>1, HandlerLeavesMain
<1>3. /\ HandlersNest'
      /\ stack' = stack
      /\ hpc' \in [Sigs -> HPCs] /\ hpid' \in [Sigs -> Pids \cup {0}]
      /\ hpc'["CHLD"] = "start"
      /\ \A s \in {"INT", "TSTP"} : hpc'[s] = hpc[s] /\ hpid'[s] = hpid[s]
  BY <1>1, NextChildEffect
<1>4. /\ jobs' \in [Slots -> Job]
      /\ \A k \in Slots : /\ jobs'[k].pid = jobs[k].pid
                          /\ jobs'[k].state \in {jobs[k].state, "ST"}
  <2>1. jobs \in [Slots -> Job]
    BY DEF TypeOK
  <2>2. CASE jobs' = jobs
    BY <2>1, <2>2
  <2>3. CASE jobs' = setstate(jobs, j, "ST")
    <3>. HIDE DEF j
    <3>1. "ST" \in JobStates
      BY DEF JobStates
    <3>2. /\ jobs' \in [Slots -> Job]
          /\ \A k \in Slots : jobs'[k].pid = jobs[k].pid
      BY <2>1, <2>3, <3>1, SetstateEffect
    <3>3. \A k \in Slots : jobs'[k].state \in {jobs[k].state, "ST"}
      BY <2>1, <2>3 DEF setstate, Job
    <3>. QED BY <3>2, <3>3
  <2>. QED BY <1>1, <2>2, <2>3
<1>5. \A q : Tracked(jobs, q)' <=> Tracked(jobs, q)
  BY <1>4 DEF Tracked, WithPid
<1>6. TypeOK'
  BY <1>1, <1>3, <1>4 DEF TypeOK, mainv
<1>7. HandlerLocals'
  BY <1>3 DEF HandlerLocals, Sigs
<1>8. Recorded' /\ NoStaleEntry' /\ UniquePids'
  <2>1. Recorded'
    BY <1>1, <1>2, <1>5 DEF Safety, Recorded, BeingLaunched
  <2>2. NoStaleEntry'
    BY <1>1, <1>5 DEF Safety, NoStaleEntry, HeldByReaper
  <2>3. UniquePids'
    BY <1>4 DEF Safety, UniquePids
  <2>. QED BY <2>1, <2>2, <2>3
<1>9. ForwardOnlyToForeground'
  BY <1>1, <1>3, <1>4, <1>5 DEF ForwardOnlyToForeground, WithPid
<1>. QED BY <1>2, <1>3, <1>6, <1>7, <1>8, <1>9 DEF Safety

\* The pid fgpid finds is that of a child, in an entry in state FG.
LEMMA FindFgInv ==
  ASSUME IInv, NEW s \in {"INT", "TSTP"}, FindFg(s)
  PROVE  IInv'
<1>. USE DEF IInv, Aux
<1>1. /\ stack # <<>> /\ Head(stack) = s /\ hpc[s] = "start"
      /\ UNCHANGED <<shell, mainv, pending, proc>>
  BY DEF FindFg, Running
<1>2. Masked' /\ LaunchedIsNew' /\ JobPointer' /\ pc # "add" /\ pc' # "add"
  BY <1>1, HandlerLeavesMain
<1>3. CASE fgpid(jobs) = 0
  <2>1. Return(s)
    BY <1>3 DEF FindFg
  <2>2. /\ HandlersNest'
        /\ stack' \in Seq(Sigs)
        /\ hpc' \in [Sigs -> HPCs] /\ hpid' \in [Sigs -> Pids \cup {0}]
        /\ \A r \in Sigs : hpc'[r] = IF r = s THEN "idle" ELSE hpc[r]
        /\ \A r \in Sigs : r # s => hpid'[r] = hpid[r]
    BY <1>1, <2>1, PopKeepsNest DEF Sigs
  <2>3. TypeOK'
    BY <1>1, <2>2 DEF TypeOK, shell, mainv
  <2>4. HandlerLocals' /\ ForwardOnlyToForeground'
    BY <1>1, <2>2 DEF HandlerLocals, ForwardOnlyToForeground, Tracked, WithPid,
                      shell, Sigs
  <2>5. Safety'
    BY <1>1, <1>2, <2>2 DEF Safety, Recorded, NoStaleEntry, UniquePids,
                            BeingLaunched, HeldByReaper, Tracked, WithPid, shell,
                            Sigs
  <2>. QED BY <1>2, <2>2, <2>3, <2>4, <2>5
<1>4. CASE fgpid(jobs) # 0
  <2>1. /\ hpid' = [hpid EXCEPT ![s] = fgpid(jobs)]
        /\ hpc' = [hpc EXCEPT ![s] = "send"]
        /\ UNCHANGED stack
    BY <1>4 DEF FindFg
  <2>2. /\ fgpid(jobs) \in Pids
        /\ \E i \in Slots : jobs[i].pid = fgpid(jobs) /\ jobs[i].state = "FG"
    BY <1>4, FgpidIsForeground DEF TypeOK
  <2>3. s \in Sigs /\ s # "CHLD"
    BY DEF Sigs
  <2>4. /\ hpc' \in [Sigs -> HPCs] /\ hpid' \in [Sigs -> Pids \cup {0}]
        /\ hpc'[s] = "send" /\ hpid'[s] = fgpid(jobs)
        /\ \A r \in Sigs : r # s => hpc'[r] = hpc[r] /\ hpid'[r] = hpid[r]
    BY <2>1, <2>2, <2>3 DEF TypeOK, HPCs
  <2>5. TypeOK'
    BY <1>1, <2>1, <2>4 DEF TypeOK, shell, mainv
  <2>6. HandlersNest'
    <3>1. \A r \in Sigs : hpc'[r] # "idle" <=> hpc[r] # "idle"
      BY <1>1, <2>3, <2>4
    <3>. QED BY <2>1, <3>1 DEF HandlersNest
  <2>7. HandlerLocals'
    BY <1>1, <2>2, <2>3, <2>4 DEF HandlerLocals, Sigs
  <2>8. Safety'
    BY <1>1, <1>2, <2>3, <2>4 DEF Safety, Recorded, NoStaleEntry, UniquePids,
                                  BeingLaunched, HeldByReaper, Tracked, WithPid,
                                  shell, Sigs
  <2>9. ForwardOnlyToForeground'
    BY <1>1, <2>2, <2>4 DEF ForwardOnlyToForeground, Tracked, WithPid, shell, Sigs
  <2>. QED BY <1>2, <2>5, <2>6, <2>7, <2>8, <2>9
<1>. QED BY <1>3, <1>4

\* The forwarding handler returns after its kill, and drops the pid.
LEMMA ForwardToFgInv ==
  ASSUME IInv, NEW s \in {"INT", "TSTP"}, ForwardToFg(s)
  PROVE  IInv'
<1>. USE DEF IInv, Aux
<1>1. /\ stack # <<>> /\ Head(stack) = s /\ hpc[s] = "send"
      /\ Return(s) /\ UNCHANGED <<shell, mainv>>
      /\ \/ GroupExists(hpid[s]) /\ Signal(hpid[s], s)
         \/ UNCHANGED <<proc, pending>>
  BY DEF ForwardToFg, Running
<1>2. Masked' /\ LaunchedIsNew' /\ JobPointer' /\ pc # "add" /\ pc' # "add"
  BY <1>1, HandlerLeavesMain
<1>3. /\ HandlersNest'
      /\ stack' \in Seq(Sigs)
      /\ hpc' \in [Sigs -> HPCs] /\ hpid' \in [Sigs -> Pids \cup {0}]
      /\ \A r \in Sigs : hpc'[r] = IF r = s THEN "idle" ELSE hpc[r]
      /\ \A r \in Sigs : r # s => hpid'[r] = hpid[r]
  BY <1>1, PopKeepsNest DEF Sigs
<1>4. /\ proc' \in [Pids -> ProcStates]
      /\ pending' \in SUBSET Sigs
      /\ \A q \in Pids : proc'[q] = "free" <=> proc[q] = "free"
  <2>1. CASE GroupExists(hpid[s]) /\ Signal(hpid[s], s)
    <3>1. hpid[s] \in Pids /\ proc[hpid[s]] # "free"
      BY <1>1, <2>1 DEF HandlerLocals, GroupExists, Sigs
    <3>. QED BY <2>1, <3>1, SignalKeepsChildren
  <2>2. CASE UNCHANGED <<proc, pending>>
    BY <2>2 DEF TypeOK
  <2>. QED BY <1>1, <2>1, <2>2
<1>5. TypeOK'
  BY <1>1, <1>3, <1>4 DEF TypeOK, shell, mainv
<1>6. HandlerLocals'
  BY <1>3, <1>4 DEF HandlerLocals, Sigs
<1>7. ForwardOnlyToForeground'
  BY <1>1, <1>3, <1>4 DEF HandlerLocals, ForwardOnlyToForeground, Tracked, WithPid,
                          shell, Sigs
<1>8. Safety'
  BY <1>1, <1>2, <1>3, <1>4 DEF Safety, Recorded, NoStaleEntry, UniquePids,
                                BeingLaunched, HeldByReaper, Tracked, WithPid,
                                shell, Sigs
<1>. QED BY <1>2, <1>3, <1>5, <1>6, <1>7, <1>8

-----------------------------------------------------------------------------
(***************************************************************************)
(* Steps of the children, and the theorems.                                *)
(***************************************************************************)
LEMMA ChildInv ==
  ASSUME IInv, NEW p \in Pids, Child(p)
  PROVE  IInv'
<1>. USE DEF IInv, Aux
<1>1. UNCHANGED <<shell, mainv, handlv>>
  BY DEF Child
<1>2. /\ proc' \in [Pids -> ProcStates]
      /\ pending' \in SUBSET Sigs
      /\ \A q \in Pids : proc'[q] = "free" <=> proc[q] = "free"
  <2>1. CASE \E s \in ProcStates \ {"free"} : proc[p] # "free" /\ Move(p, s)
    BY <2>1, MoveKeepsChildren
  <2>2. CASE ChildResumes(p)
    BY <2>2 DEF ChildResumes, TypeOK, ProcStates, Sigs
  <2>3. \/ \E s \in ProcStates \ {"free"} : proc[p] # "free" /\ Move(p, s)
        \/ ChildResumes(p)
    BY DEF Child, ChildStarts, ChildExits, ChildIsKilled, ChildStops,
           ChildContinued, Stopped, ProcStates
  <2>. QED BY <2>1, <2>2, <2>3
<1>3. HandlersNest' /\ HandlerLocals' /\ Safety' /\ ForwardOnlyToForeground'
  BY <1>1, <1>2, QuietStep DEF mainv
<1>4. TypeOK'
  BY <1>1, <1>2 DEF TypeOK, shell, mainv, handlv
<1>5. Masked' /\ JobPointer'
  BY <1>1 DEF Masked, JobPointer, mainv, handlv
<1>6. LaunchedIsNew'
  BY <1>1, <1>2 DEF LaunchedIsNew, Tracked, WithPid, mainv, shell
<1>. QED BY <1>3, <1>4, <1>5, <1>6

\* The invariant holds when the shell starts.
LEMMA InitInv == Init => IInv
<1>. SUFFICES ASSUME Init PROVE IInv
  OBVIOUS
<1>1. \A i \in Slots : jobs[i] = ClearedJob
  BY DEF Init, initjobs
<1>2. TypeOK
  <2>1. NoCmd \in Locals
    BY DEF NoCmd, Locals, NULL
  <2>2. stack \in Seq(Sigs)
    BY DEF Init
  <2>. QED BY <2>1, <2>2, InitjobsType DEF Init, TypeOK, PCs, HPCs, ProcStates
<1>3. HandlersNest /\ HandlerLocals /\ ForwardOnlyToForeground
  BY DEF Init, HandlersNest, HandlerLocals, ForwardOnlyToForeground, Sigs
<1>4. Masked /\ LaunchedIsNew /\ JobPointer
  BY DEF Init, Masked, Launching, LaunchedIsNew, JobPointer
<1>5. Safety
  BY <1>1, PidsAssumption DEF Init, Safety, Recorded, NoStaleEntry, UniquePids,
                              Tracked, WithPid, ClearedJob
<1>. QED BY <1>2, <1>3, <1>4, <1>5 DEF IInv, Aux

\* Every step preserves the invariant.
LEMMA StepInv == IInv /\ [Next]_vars => IInv'
<1>. SUFFICES ASSUME IInv, [Next]_vars PROVE IInv'
  OBVIOUS
<1>1. CASE UNCHANGED vars
  BY <1>1 DEF vars, IInv, Aux, Safety, TypeOK, HandlersNest, HandlerLocals, Masked,
              LaunchedIsNew, JobPointer, Recorded, NoStaleEntry, UniquePids,
              ForwardOnlyToForeground, HeldByReaper, BeingLaunched, Tracked, WithPid
<1>2. CASE Main
  BY <1>2, TypeRunInv, TypeJobInv, TypeJobsInv, QuitInv DEF Main
<1>3. CASE Eval
  BY <1>3, ForkInv, AddJobInv, UnblockInv, WaitfgTestInv, WaitfgSuspendInv,
     SendSignalInv, SetStateInv, ListPidInv, ListStateInv DEF Eval
<1>4. ASSUME NEW s \in Sigs, Deliver(s) PROVE IInv'
  BY <1>4, DeliverInv
<1>5. ASSUME NEW s \in Sigs, Handler(s) PROVE IInv'
  BY <1>5, WaitpidInv, WaitpidNoneInv, ReapJobInv, StopJobInv, FindFgInv,
     ForwardToFgInv DEF Handler, Sigs
<1>6. ASSUME NEW s \in {"INT", "TSTP"}, Keyboard(s) PROVE IInv'
  BY <1>6, KeyboardInv
<1>7. ASSUME NEW p \in Pids, Child(p) PROVE IInv'
  BY <1>7, ChildInv
<1>. QED BY <1>1, <1>2, <1>3, <1>4, <1>5, <1>6, <1>7 DEF Next

\* The inductive invariant holds in every reachable state: the signal mask
\* around fork and addjob and the nesting of the handlers keep the job list and
\* the process table together.
THEOREM Invariance == Spec => []IInv
BY InitInv, StepInv, PTL DEF Spec

\* Every variable of the shell and the kernel keeps its type.
THEOREM TypeCorrect == Spec => []TypeOK
<1>1. IInv => TypeOK
  BY DEF IInv
<1>. QED BY <1>1, Invariance, PTL

\* No child is lost between fork and addjob, whenever it dies.
THEOREM ChildrenRecorded == Spec => []Recorded
<1>1. IInv => Recorded
  BY DEF IInv, Safety
<1>. QED BY <1>1, Invariance, PTL

\* No entry is added for, or kept after, a child that was reaped.
THEOREM EntriesNotStale == Spec => []NoStaleEntry
<1>1. IInv => NoStaleEntry
  BY DEF IInv, Safety
<1>. QED BY <1>1, Invariance, PTL

\* A pid names at most one entry.
THEOREM PidsUnique == Spec => []UniquePids
<1>1. IInv => UniquePids
  BY DEF IInv, Safety
<1>. QED BY <1>1, Invariance, PTL

\* ctrl-c and ctrl-z are never forwarded to a background job or to a child
\* that reuses the pid.
THEOREM ForwardingSound == Spec => []ForwardOnlyToForeground
<1>1. IInv => ForwardOnlyToForeground
  BY DEF IInv
<1>. QED BY <1>1, Invariance, PTL

-----------------------------------------------------------------------------
(***************************************************************************)
(* The entries of the list, whatever the handlers do to it between two     *)
(* commands: the job IDs, the foreground job the shell waits for, the      *)
(* stops it was told of, and that the shell implements JobControl.         *)
(***************************************************************************)
IdInv == FreshUnlessWrapped /\ EveryJobIsNameable

\* A list with the same pids and IDs, and the same nextjid.
LEMMA SameIds ==
  ASSUME IdInv, nextjid' = nextjid,
         \A i \in Slots : jobs'[i].pid = jobs[i].pid /\ jobs'[i].jid = jobs[i].jid
  PROVE  IdInv'
BY DEF IdInv, FreshUnlessWrapped, EveryJobIsNameable

\* addjob takes a free entry, so the entry whose ID shows the wrap-around stays;
\* when nextjid wraps, the new entry is one that shows it.
LEMMA AddJobIds ==
  ASSUME IInv, IdInv, AddJob
  PROVE  IdInv'
<1>. USE DEF IdInv
<1>. DEFINE p == cmd.pid
            st == LaunchState(cmd.op)
<1>1. CASE Full(jobs)
  BY <1>1, SameIds DEF AddJob
<1>2. CASE ~Full(jobs)
  <2>1. /\ jobs \in [Slots -> Job] /\ nextjid \in Nat \ {0}
        /\ p \in Pids /\ st \in JobStates
        /\ jobs' = addjob(jobs, nextjid, p, st)
        /\ nextjid' = NextJidAfterAdd(nextjid)
    BY <1>2 DEF IInv, Aux, LaunchedIsNew, TypeOK, AddJob, At, LaunchState, JobStates
  <2>2. PICK i \in Slots :
          /\ jobs[i].pid = 0
          /\ jobs' = [jobs EXCEPT ![i] = [pid |-> p, jid |-> nextjid, state |-> st]]
    <3>. HIDE DEF p, st
    <3>. QED BY <1>2, <2>1, AddjobEffect
  <2>3. /\ jobs'[i].pid = p /\ jobs'[i].jid = nextjid
        /\ \A k \in Slots : k # i => jobs'[k] = jobs[k]
        /\ \A k \in Slots : jobs[k].jid \in Nat
    BY <2>1, <2>2 DEF Job
  <2>4. EveryJobIsNameable'
    BY <2>1, <2>3, PidsAssumption DEF EveryJobIsNameable
  <2>5. FreshUnlessWrapped'
    <3>1. CASE nextjid + 1 > MAXJOBS
      <4>1. jobs'[i].jid >= MAXJOBS
        BY <2>1, <2>3, <3>1, MaxJobsAssumption
      <4>. QED BY <4>1 DEF FreshUnlessWrapped
    <3>2. CASE ~(nextjid + 1 > MAXJOBS) /\ \A k \in Slots : jobs[k].jid < nextjid
      <4>1. nextjid' = nextjid + 1
        BY <2>1, <3>2 DEF NextJidAfterAdd
      <4>2. \A k \in Slots : jobs'[k].jid < nextjid'
        BY <2>1, <2>3, <3>2, <4>1
      <4>. QED BY <4>2 DEF FreshUnlessWrapped
    <3>3. CASE \E k \in Slots : jobs[k].jid >= MAXJOBS
      <4>1. PICK k \in Slots : jobs[k].jid >= MAXJOBS
        BY <3>3
      <4>2. k # i
        BY <2>2, <2>3, <4>1, MaxJobsAssumption DEF EveryJobIsNameable
      <4>3. jobs'[k].jid >= MAXJOBS
        BY <2>3, <4>1, <4>2
      <4>. QED BY <4>3 DEF FreshUnlessWrapped
    <3>. QED BY <3>1, <3>2, <3>3 DEF FreshUnlessWrapped
  <2>. QED BY <2>4, <2>5
<1>. QED BY <1>1, <1>2

\* deletejob makes nextjid one more than the largest ID left.
LEMMA ReapJobIds ==
  ASSUME IInv, IdInv, ReapJob
  PROVE  IdInv'
<1>. USE DEF IdInv
<1>. DEFINE p == hpid["CHLD"]
<1>1. CASE ~Tracked(jobs, p)
  BY <1>1, SameIds DEF ReapJob
<1>2. CASE Tracked(jobs, p)
  <2>1. /\ jobs \in [Slots -> Job] /\ jobs' = deletejob(jobs, p)
        /\ nextjid' = NextJidAfterDelete(jobs')
    BY <1>2 DEF IInv, TypeOK, ReapJob
  <2>2. /\ jobs' \in [Slots -> Job]
        /\ \E i \in Slots : jobs' = [jobs EXCEPT ![i] = ClearedJob]
    <3>. HIDE DEF p
    <3>. QED BY <1>2, <2>1, DeletejobEffect
  <2>3. PICK i \in Slots : jobs' = [jobs EXCEPT ![i] = ClearedJob]
    BY <2>2
  <2>4. EveryJobIsNameable'
    BY <2>1, <2>3 DEF EveryJobIsNameable, ClearedJob
  <2>5. FreshUnlessWrapped'
    <3>1. maxjid(jobs') \in Nat /\ \A k \in Slots : jobs'[k].jid =< maxjid(jobs')
      BY <2>2, MaxjidIsMax
    <3>2. \A k \in Slots : jobs'[k].jid \in Nat
      BY <2>2 DEF Job
    <3>3. \A k \in Slots : jobs'[k].jid < nextjid'
      BY <2>1, <3>1, <3>2 DEF NextJidAfterDelete
    <3>. QED BY <3>3 DEF FreshUnlessWrapped
  <2>. QED BY <2>4, <2>5
<1>. QED BY <1>1, <1>2

\* fg, bg and a stop change a state only.
LEMMA SetStateIds ==
  ASSUME IInv, IdInv, SetState \/ StopJob
  PROVE  IdInv'
<1>1. \/ jobs' = jobs
      \/ \E i, st : st \in JobStates /\ jobs' = setstate(jobs, i, st)
  BY DEF SetState, StopJob, JobStates
<1>2. jobs \in [Slots -> Job] /\ nextjid' = nextjid
  BY DEF IInv, TypeOK, SetState, StopJob
<1>3. \A i \in Slots : jobs'[i].pid = jobs[i].pid /\ jobs'[i].jid = jobs[i].jid
  <2>1. ASSUME NEW i, NEW st \in JobStates, jobs' = setstate(jobs, i, st)
        PROVE  \A k \in Slots : jobs'[k].pid = jobs[k].pid /\ jobs'[k].jid = jobs[k].jid
    BY <1>2, <2>1, SetstateEffect
  <2>. QED BY <1>1, <2>1
<1>. QED BY <1>2, <1>3, SameIds

\* Every other step leaves the list and nextjid alone.
LEMMA StepIds ==
  ASSUME IInv, IdInv, [Next]_vars
  PROVE  IdInv'
<1>1. ASSUME jobs' = jobs /\ nextjid' = nextjid PROVE IdInv'
  BY <1>1, SameIds
<1>2. CASE UNCHANGED vars
  BY <1>1, <1>2 DEF vars
<1>3. CASE Main
  BY <1>1, <1>3 DEF Main, TypeRun, TypeJob, TypeJobs, Quit, shell
<1>4. CASE Eval
  <2>1. CASE AddJob \/ SetState
    BY <2>1, AddJobIds, SetStateIds
  <2>2. CASE Fork \/ Unblock \/ WaitfgTest \/ WaitfgSuspend
             \/ SendSignal \/ ListPid \/ ListState
    BY <1>1, <2>2 DEF Fork, Unblock, WaitfgTest, WaitfgSuspend, SendSignal,
       ListPid, ListState, shell
  <2>. QED BY <1>4, <2>1, <2>2 DEF Eval
<1>5. ASSUME NEW s \in Sigs, Deliver(s) \/ Handler(s) PROVE IdInv'
  <2>1. CASE ReapJob \/ StopJob
    BY <2>1, ReapJobIds, SetStateIds
  <2>2. CASE WaitpidNone \/ (\E p \in Pids : Waitpid(p)) \/ FindFg(s)
             \/ ForwardToFg(s) \/ Deliver(s)
    BY <1>1, <2>2 DEF WaitpidNone, Waitpid, FindFg, ForwardToFg, Deliver, shell
  <2>. QED BY <1>5, <2>1, <2>2 DEF Handler
<1>6. CASE \E s \in {"INT", "TSTP"} : Keyboard(s)
  BY <1>1, <1>6 DEF Keyboard, shell
<1>7. CASE \E p \in Pids : Child(p)
  BY <1>1, <1>7 DEF Child, shell
<1>. QED BY <1>2, <1>3, <1>4, <1>5, <1>6, <1>7 DEF Next

\* Both hold in every reachable state.
LEMMA IdInvariance == Spec => []IdInv
<1>1. Init => IdInv
  <2>1. ASSUME Init PROVE \A i \in Slots : jobs[i] = ClearedJob /\ nextjid = 1
    BY <2>1 DEF Init, initjobs
  <2>. QED BY <2>1 DEF IdInv, FreshUnlessWrapped, EveryJobIsNameable, ClearedJob
<1>2. IInv /\ IdInv /\ [Next]_vars => IdInv'
  BY StepIds
<1>. QED BY <1>1, <1>2, Invariance, PTL DEF Spec

\* Only the wrap-around of nextjid, which leaves a job with an ID of MAXJOBS or
\* more in the list, can make addjob hand out an ID that is in use.
THEOREM FreshJids == Spec => []FreshUnlessWrapped
<1>1. IdInv => FreshUnlessWrapped
  BY DEF IdInv
<1>. QED BY <1>1, IdInvariance, PTL

\* Every job in the list has an ID that getjobjid looks for, and a free entry
\* has none, even one that fg or bg gave a state after it was cleared.
THEOREM JobsNameable == Spec => []EveryJobIsNameable
<1>1. IdInv => EveryJobIsNameable
  BY DEF IdInv
<1>. QED BY <1>1, IdInvariance, PTL

-----------------------------------------------------------------------------
(***************************************************************************)
(* The foreground.  As long as fg is not used, eval is waiting for the     *)
(* only entry whose state is FG.  That rests on what eval's locals hold at *)
(* each point, on no free entry being marked FG, and on the entry of the   *)
(* command eval waits for staying FG until it is stopped or deleted.       *)
(***************************************************************************)
Waiters == {"waitfg", "suspend", "asleep"}

\* What eval's locals hold where the main thread is.
LocalsFitPc ==
  /\ pc = "read" => cmd.op = "none"
  /\ pc \in Launching => cmd.op \in {"run", "runbg"}
  /\ pc = "fork" => cmd.pid = 0
  /\ pc \in Waiters => cmd.op = "run" /\ cmd.pid \in Pids
  /\ pc = "unblock" => cmd.pid \in Pids
  /\ pc \in {"signal", "setstate"} => cmd.op \in {"fg", "bg", "kill", "killpg"}
  /\ pc = "setstate" => cmd.op \in {"fg", "bg"}
  /\ pc \in {"list", "liststate"} => cmd.op = "jobs"

\* No free entry is marked as the foreground job.
ForegroundHasPid == \A i \in InState(jobs, "FG") : jobs[i].pid # 0

\* The entry of a foreground command is in the foreground or stopped.
RunInForeground ==
  cmd.op = "run" /\ cmd.pid \in Pids =>
    \A i \in WithPid(jobs, cmd.pid) : jobs[i].state \in {"FG", "ST"}

FgInv == LocalsFitPc /\ ForegroundHasPid /\ RunInForeground /\ OneForeground

\* Nothing of it is about anything but the list and the main thread; a handler
\* that wakes the main thread up leaves the rest alone.
LEMMA SameForeground ==
  ASSUME FgInv, jobs' = jobs, cmd' = cmd, pc' = pc \/ pc' = Wake(pc)
  PROVE  FgInv'
BY DEF FgInv, LocalsFitPc, ForegroundHasPid, RunInForeground, OneForeground,
       InState, WithPid, Wake, Launching, Waiters

\* fgpid finds nobody only if there is nobody, free entries left aside.
LEMMA NoForegroundPid ==
  ASSUME fgpid(jobs) = 0, \A i \in InState(jobs, "FG") : jobs[i].pid # 0
  PROVE  InState(jobs, "FG") = {}
<1>. SUFFICES ASSUME InState(jobs, "FG") # {} PROVE FALSE
  OBVIOUS
<1>1. InState(jobs, "FG") \subseteq Slots
  BY DEF InState
<1>2. Min(InState(jobs, "FG")) \in InState(jobs, "FG")
  BY <1>1, MinOfSlots
<1>. QED BY <1>2 DEF fgpid

\* A step that leaves fewer entries in the foreground and the main thread alone.
LEMMA LessForeground ==
  ASSUME FgInv, UNCHANGED mainv,
         \A i \in Slots : \/ jobs'[i] = jobs[i]
                          \/ jobs'[i].pid = 0 /\ jobs'[i].state = "UNDEF"
                          \/ jobs'[i].pid = jobs[i].pid /\ jobs'[i].state = "ST"
  PROVE  FgInv'
<1>1. ASSUME NEW i \in InState(jobs', "FG")
      PROVE  i \in InState(jobs, "FG") /\ jobs'[i] = jobs[i]
  BY <1>1 DEF InState
<1>2. LocalsFitPc'
  BY DEF FgInv, LocalsFitPc, mainv, Launching, Waiters
<1>3. ForegroundHasPid' /\ OneForeground'
  BY <1>1 DEF FgInv, ForegroundHasPid, OneForeground, mainv
<1>4. RunInForeground'
  BY PidsAssumption DEF FgInv, RunInForeground, WithPid, mainv
<1>. QED BY <1>2, <1>3, <1>4 DEF FgInv

\* At the prompt nothing is in the foreground, and nothing is put there before
\* addjob.
LEMMA NoneWithoutRun ==
  ASSUME FgInv, cmd.op # "run" \/ cmd.pid = 0
  PROVE  InState(jobs, "FG") = {}
BY DEF FgInv, OneForeground, ForegroundHasPid

\* When eval gives a command up, or starts another, nothing is in the
\* foreground.
LEMMA NothingInForeground ==
  ASSUME FgInv, jobs' = jobs, InState(jobs, "FG") = {},
         cmd'.op # "run" \/ cmd'.pid = 0, LocalsFitPc'
  PROVE  FgInv'
BY PidsAssumption DEF FgInv, ForegroundHasPid, OneForeground, RunInForeground,
                      InState, WithPid

\* Typing a command, and giving it up.
LEMMA MainForeground ==
  ASSUME IInv, FgInv, Main
  PROVE  FgInv'
<1>1. jobs' = jobs /\ pc = "read"
  BY DEF Main, TypeRun, TypeJob, TypeJobs, Quit, At, shell
<1>2. InState(jobs, "FG") = {} /\ cmd.op = "none"
  BY <1>1, NoneWithoutRun DEF FgInv, LocalsFitPc
<1>3. ASSUME NEW op \in Commands, TypeRun(op) PROVE FgInv'
  <2>1. cmd' = [op |-> op, job |-> NULL, pid |-> 0, prec |-> blocked]
        /\ op \in {"run", "runbg"} /\ pc' = "fork"
    BY <1>3 DEF TypeRun, NoCmd
  <2>2. LocalsFitPc'
    BY <2>1 DEF LocalsFitPc, Launching, Waiters
  <2>. QED BY <1>1, <1>2, <2>1, <2>2, NothingInForeground
<1>4. ASSUME NEW op \in Commands, NEW arg \in Arguments, TypeJob(op, arg)
      PROVE  FgInv'
  <2>1. cmd' = [op |-> op, job |-> Getjob(arg), pid |-> 0, prec |-> {}]
        /\ op \in {"fg", "bg", "kill", "killpg"} /\ pc' = "signal"
    BY <1>4 DEF TypeJob, NoCmd
  <2>2. LocalsFitPc'
    BY <2>1 DEF LocalsFitPc, Launching, Waiters
  <2>. QED BY <1>1, <1>2, <2>1, <2>2, NothingInForeground
<1>5. CASE TypeJobs \/ Quit
  <2>1. \/ pc' = "list" /\ cmd'.op = "jobs"
        \/ pc' = "exit" /\ cmd'.op = "none"
    BY <1>2, <1>5 DEF TypeJobs, Quit, NoCmd
  <2>2. LocalsFitPc'
    BY <2>1 DEF LocalsFitPc, Launching, Waiters
  <2>. QED BY <1>1, <1>2, <2>1, <2>2, NothingInForeground
<1>. QED BY <1>3, <1>4, <1>5 DEF Main

\* fork changes no entry, and the child it makes has none.
LEMMA ForkForeground ==
  ASSUME IInv, FgInv, Fork
  PROVE  FgInv'
<1>1. /\ jobs' = jobs /\ pc = "fork" /\ cmd \in Locals
      /\ cmd.op \in {"run", "runbg"} /\ cmd.pid = 0
  BY DEF Fork, At, shell, IInv, TypeOK, FgInv, LocalsFitPc, Launching
<1>2. InState(jobs, "FG") = {}
  BY <1>1, NoneWithoutRun
<1>3. CASE pc' = "exit" /\ UNCHANGED <<proc, cmd>>
  <2>1. LocalsFitPc'
    BY <1>3 DEF LocalsFitPc, Launching, Waiters
  <2>. QED BY <1>1, <1>2, <1>3, <2>1, NothingInForeground
<1>4. ASSUME NEW p \in Pids, pc' = "add", cmd' = [cmd EXCEPT !.pid = p], proc[p] = "free"
      PROVE  FgInv'
  <2>1. cmd'.op = cmd.op /\ cmd'.pid = p
    BY <1>1, <1>4 DEF Locals
  <2>2. LocalsFitPc'
    BY <1>1, <1>4, <2>1 DEF LocalsFitPc, Launching, Waiters
  <2>3. ~Tracked(jobs, p)
    <3>1. hpc["CHLD"] = "idle"
      BY MainIsAlone DEF IInv, Aux, Fork, At, Sigs
    <3>. QED BY <1>4, <3>1 DEF IInv, Safety, NoStaleEntry, HeldByReaper
  <2>4. WithPid(jobs', cmd'.pid) = {} /\ InState(jobs', "FG") = {}
    BY <1>1, <1>2, <2>1, <2>3 DEF Tracked
  <2>. QED BY <2>2, <2>4 DEF FgInv, ForegroundHasPid, OneForeground, RunInForeground
<1>. QED BY <1>3, <1>4 DEF Fork

\* The one entry in the foreground after addjob is the new one.
LEMMA AddJobForeground ==
  ASSUME IInv, FgInv, AddJob
  PROVE  FgInv'
<1>. DEFINE p == cmd.pid
            st == LaunchState(cmd.op)
<1>1. /\ pc = "add" /\ pc' = "unblock" /\ cmd' = cmd
      /\ p \in Pids /\ ~Tracked(jobs, p) /\ cmd.op \in {"run", "runbg"}
  BY DEF AddJob, At, IInv, Aux, LaunchedIsNew, FgInv, LocalsFitPc, Launching
<1>2. LocalsFitPc'
  BY <1>1 DEF LocalsFitPc, Launching, Waiters
<1>3. InState(jobs, "FG") = {}
  BY <1>1 DEF FgInv, OneForeground, Tracked, WithPid, InState
<1>4. CASE Full(jobs)
  <2>1. jobs' = jobs
    BY <1>4 DEF AddJob
  <2>2. InState(jobs', "FG") = {} /\ WithPid(jobs', cmd'.pid) = {}
    BY <1>1, <1>3, <2>1 DEF Tracked
  <2>. QED BY <1>2, <2>2 DEF FgInv, ForegroundHasPid, OneForeground, RunInForeground
<1>5. CASE ~Full(jobs)
  <2>1. /\ jobs \in [Slots -> Job] /\ nextjid \in Nat
        /\ st \in JobStates /\ (st = "FG" <=> cmd.op = "run")
        /\ jobs' = addjob(jobs, nextjid, p, st)
    BY <1>1, <1>5 DEF IInv, TypeOK, AddJob, LaunchState, JobStates
  <2>2. PICK i \in Slots :
          /\ jobs[i].pid = 0
          /\ jobs' = [jobs EXCEPT ![i] = [pid |-> p, jid |-> nextjid, state |-> st]]
    <3>. HIDE DEF p, st
    <3>. QED BY <1>1, <1>5, <2>1, AddjobEffect
  <2>3. /\ jobs'[i].pid = p /\ jobs'[i].state = st
        /\ \A k \in Slots : k # i => jobs'[k] = jobs[k]
    BY <2>1, <2>2
  <2>4. InState(jobs', "FG") \subseteq {i} /\ WithPid(jobs', p) = {i}
    BY <1>1, <1>3, <2>3 DEF InState, WithPid, Tracked
  <2>5. ForegroundHasPid' /\ OneForeground'
    BY <1>1, <2>1, <2>3, <2>4, PidsAssumption DEF ForegroundHasPid, OneForeground, InState
  <2>6. RunInForeground'
    BY <1>1, <2>1, <2>3, <2>4 DEF RunInForeground
  <2>. QED BY <1>2, <2>5, <2>6 DEF FgInv
<1>. QED BY <1>4, <1>5

\* Unblock and the loop of waitfg: the prompt comes back only when nothing is
\* in the foreground.
LEMMA WaitForeground ==
  ASSUME IInv, FgInv, Unblock \/ WaitfgTest \/ WaitfgSuspend
  PROVE  FgInv'
<1>1. jobs' = jobs
  BY DEF Unblock, WaitfgTest, WaitfgSuspend, shell
<1>2. CASE cmd' = cmd
  <2>1. LocalsFitPc'
    <3>1. /\ pc \in {"unblock"} \cup Waiters /\ cmd.op = "run" /\ cmd.pid \in Pids
          /\ pc' \in Waiters
      BY <1>2, PidsAssumption DEF Unblock, WaitfgTest, WaitfgSuspend, At, Done, Waiters, FgInv,
             LocalsFitPc, NoCmd, Launching
    <3>. QED BY <1>2, <3>1 DEF LocalsFitPc, Launching, Waiters
  <2>. QED BY <1>1, <1>2, <2>1 DEF FgInv, ForegroundHasPid, OneForeground,
              RunInForeground, InState, WithPid
<1>3. CASE Done
  <2>1. cmd'.op = "none" /\ pc' = "read"
    BY <1>3 DEF Done, NoCmd
  <2>2. LocalsFitPc'
    BY <2>1 DEF LocalsFitPc, Launching, Waiters
  <2>3. InState(jobs, "FG") = {}
    <3>1. CASE cmd.op # "run"
      BY <3>1, NoneWithoutRun
    <3>2. CASE cmd.op = "run"
      <4>1. fgpid(jobs) = 0 \/ cmd' = cmd
        BY <3>2 DEF Unblock, WaitfgTest, WaitfgSuspend
      <4>2. fgpid(jobs) = 0
        BY <2>1, <3>2, <4>1
      <4>. QED BY <4>2, NoForegroundPid DEF FgInv, ForegroundHasPid
    <3>. QED BY <3>1, <3>2
  <2>. QED BY <1>1, <2>1, <2>2, <2>3, NothingInForeground
<1>. QED BY <1>2, <1>3 DEF Unblock, WaitfgTest, WaitfgSuspend

\* fg, bg, kill and jobs start at the prompt and do not touch the foreground,
\* fg aside.
LEMMA BuiltinForeground ==
  ASSUME IInv, FgInv, "fg" \notin Commands,
         SendSignal \/ SetState \/ ListPid \/ ListState
  PROVE  FgInv'
<1>1. /\ pc \in {"signal", "setstate", "list", "liststate"} /\ cmd \in Locals
      /\ cmd.op # "run" /\ cmd.op # "fg"
  BY DEF SendSignal, SetState, ListPid, ListState, At, IInv, TypeOK, Locals,
         FgInv, LocalsFitPc
<1>2. InState(jobs, "FG") = {}
  BY <1>1, NoneWithoutRun
<1>3. cmd'.op \in {cmd.op, "none"}
  BY <1>1 DEF SendSignal, SetState, ListPid, ListState, Done, NoCmd, Locals
<1>4. LocalsFitPc'
  <2>1. CASE Done
    BY <2>1 DEF Done, NoCmd, LocalsFitPc, Launching, Waiters
  <2>2. CASE SendSignal /\ ~Done
    <3>1. \/ pc' = "setstate" /\ cmd' = cmd /\ cmd.op \in {"fg", "bg"}
          \/ pc' = "exit" /\ cmd' = cmd
      BY <2>2 DEF SendSignal
    <3>. QED BY <3>1 DEF LocalsFitPc, Launching, Waiters
  <2>3. CASE (ListPid \/ ListState) /\ ~Done
    <3>1. cmd.op = "jobs"
      BY <2>3 DEF ListPid, ListState, At, FgInv, LocalsFitPc
    <3>2. pc' \in {"list", "liststate"} /\ cmd'.op = cmd.op
      BY <1>1, <2>3 DEF ListPid, ListState, At, Locals
    <3>. QED BY <3>1, <3>2 DEF LocalsFitPc, Launching, Waiters
  <2>4. SetState => Done
    BY <1>1 DEF SetState
  <2>. QED BY <2>1, <2>2, <2>3, <2>4
<1>5. CASE SendSignal \/ ListPid \/ ListState
  <2>1. jobs' = jobs
    BY <1>5 DEF SendSignal, ListPid, ListState, shell
  <2>. QED BY <1>1, <1>2, <1>3, <1>4, <2>1, NothingInForeground
<1>6. CASE SetState
  <2>1. jobs \in [Slots -> Job] /\ jobs' = setstate(jobs, cmd.job, "BG")
    BY <1>1, <1>6 DEF SetState, IInv, TypeOK
  <2>2. InState(jobs', "FG") = {}
    BY <1>2, <2>1 DEF setstate, InState
  <2>3. cmd'.op # "run"
    BY <1>1, <1>3
  <2>. QED BY <1>4, <2>2, <2>3 DEF FgInv, ForegroundHasPid, OneForeground,
              RunInForeground
<1>. QED BY <1>5, <1>6

\* The handlers only clear entries and mark them stopped.
LEMMA HandlerForeground ==
  ASSUME IInv, FgInv, NEW s \in Sigs, Deliver(s) \/ Handler(s)
  PROVE  FgInv'
<1>. DEFINE p == hpid["CHLD"]
<1>1. CASE Deliver(s)
  BY <1>1, SameForeground DEF Deliver, shell
<1>2. CASE WaitpidNone \/ (\E q \in Pids : Waitpid(q)) \/ FindFg(s) \/ ForwardToFg(s)
  BY <1>2, SameForeground DEF WaitpidNone, Waitpid, FindFg, ForwardToFg, shell, mainv
<1>3. CASE ReapJob
  <2>1. UNCHANGED mainv
    BY <1>3 DEF ReapJob
  <2>2. CASE ~Tracked(jobs, p)
    BY <1>3, <2>2, SameForeground DEF ReapJob, mainv
  <2>3. CASE Tracked(jobs, p)
    <3>1. jobs \in [Slots -> Job] /\ jobs' = deletejob(jobs, p)
      BY <1>3, <2>3 DEF IInv, TypeOK, ReapJob
    <3>2. PICK i \in Slots : jobs' = [jobs EXCEPT ![i] = ClearedJob]
      <4>. HIDE DEF p
      <4>. QED BY <2>3, <3>1, DeletejobEffect
    <3>3. \A k \in Slots : \/ jobs'[k] = jobs[k]
                           \/ jobs'[k].pid = 0 /\ jobs'[k].state = "UNDEF"
      BY <3>1, <3>2 DEF ClearedJob
    <3>. QED BY <2>1, <3>3, LessForeground
  <2>. QED BY <2>2, <2>3
<1>4. CASE StopJob
  <2>1. UNCHANGED mainv /\ jobs \in [Slots -> Job]
    BY <1>4 DEF StopJob, IInv, TypeOK
  <2>2. \/ jobs' = jobs
        \/ \E i : jobs' = setstate(jobs, i, "ST")
    BY <1>4 DEF StopJob
  <2>3. \A k \in Slots : \/ jobs'[k] = jobs[k]
                         \/ jobs'[k].pid = jobs[k].pid /\ jobs'[k].state = "ST"
    BY <2>1, <2>2 DEF setstate, Job
  <2>. QED BY <2>1, <2>3, LessForeground
<1>. QED BY <1>1, <1>2, <1>3, <1>4 DEF Handler

\* Every step keeps the invariant of the foreground.
LEMMA StepForeground ==
  ASSUME IInv, FgInv, "fg" \notin Commands, [Next]_vars
  PROVE  FgInv'
<1>1. CASE UNCHANGED vars
  BY <1>1, SameForeground DEF vars
<1>2. CASE Main
  BY <1>2, MainForeground
<1>3. CASE Eval
  BY <1>3, ForkForeground, AddJobForeground, WaitForeground, BuiltinForeground DEF Eval
<1>4. CASE \E s \in Sigs : Deliver(s) \/ Handler(s)
  BY <1>4, HandlerForeground
<1>5. CASE \E s \in {"INT", "TSTP"} : Keyboard(s)
  BY <1>5, SameForeground DEF Keyboard, shell, mainv
<1>6. CASE \E p \in Pids : Child(p)
  BY <1>6, SameForeground DEF Child, shell, mainv
<1>. QED BY <1>1, <1>2, <1>3, <1>4, <1>5, <1>6 DEF Next

\* The foreground invariant holds in every reachable state of a shell whose
\* user does not type fg.
LEMMA ForegroundInvariance ==
  ASSUME "fg" \notin Commands
  PROVE  Spec => []FgInv
<1>1. Init => FgInv
  <2>. SUFFICES ASSUME Init PROVE FgInv
    OBVIOUS
  <2>1. InState(jobs, "FG") = {} /\ cmd.op = "none" /\ pc = "read"
    BY DEF Init, initjobs, InState, ClearedJob, NoCmd
  <2>. QED BY <2>1 DEF FgInv, LocalsFitPc, ForegroundHasPid, RunInForeground,
              OneForeground, Launching, Waiters
<1>2. IInv /\ FgInv /\ [Next]_vars => FgInv'
  BY StepForeground
<1>. QED BY <1>1, <1>2, Invariance, PTL DEF Spec

\* "At most 1 job can be in the FG state": it is the one eval is waiting for,
\* whatever signals arrive and whatever bg and kill do meanwhile.
THEOREM ForegroundIsWaitedFor ==
  ASSUME "fg" \notin Commands
  PROVE  Spec => []OneForeground
<1>1. FgInv => OneForeground
  BY DEF FgInv
<1>. QED BY <1>1, ForegroundInvariance, PTL

\* eval does not return to the prompt while the command it waits for is in the
\* list and not stopped.
THEOREM WaitsForForeground ==
  ASSUME "fg" \notin Commands
  PROVE  Spec => RunIsWaitedFor
<1>1. ASSUME IInv, FgInv, [Next]_vars, cmd.op = "run", Waiting, pc' = "read"
      PROVE  \A i \in WithPid(jobs, cmd.pid) : jobs[i].state = "ST"
  <2>1. pc \in Waiters /\ cmd.pid \in Pids
    BY <1>1 DEF Waiting, Waiters, FgInv, LocalsFitPc
  <2>2. WaitfgTest
    BY <1>1, <2>1 DEF Waiters, Next, vars, Main, TypeRun, TypeJob, TypeJobs, Quit, Eval,
       Fork, AddJob, Unblock, WaitfgSuspend, SendSignal, SetState, ListPid, ListState,
       At, Deliver, Wake, Handler, WaitpidNone, Waitpid, ReapJob, StopJob, FindFg,
       ForwardToFg, Keyboard, Child, mainv
  <2>3. fgpid(jobs) = 0
    BY <1>1, <2>2 DEF WaitfgTest
  <2>4. InState(jobs, "FG") = {}
    BY <1>1, <2>3, NoForegroundPid DEF FgInv, ForegroundHasPid
  <2>. QED BY <1>1, <2>1, <2>4 DEF FgInv, RunInForeground, InState, WithPid
<1>2. IInv /\ FgInv /\ [Next]_vars =>
        [cmd.op = "run" /\ Waiting /\ pc' = "read" =>
           \A i \in WithPid(jobs, cmd.pid) : jobs[i].state = "ST"]_vars
  BY <1>1
<1>. QED BY <1>2, Invariance, ForegroundInvariance, PTL DEF Spec, RunIsWaitedFor

-----------------------------------------------------------------------------
(***************************************************************************)
(* Stops.  A stop waitpid has reported reaches the entry of the child,     *)
(* which exists: the child cannot have been reported before addjob.  fg    *)
(* and bg overwrite the state of an entry with what they read before, so   *)
(* they are left out.                                                      *)
(***************************************************************************)

\* The child addjob is called for has had no stop reported.
NewNotStopped == pc = "add" => proc[cmd.pid] # "stopped"

StopInv == StopRecorded /\ NewNotStopped

NoFgBg == Commands \cap {"fg", "bg"} = {}

\* No new stop is reported, and a report is not forgotten.
LEMMA NoNewStop ==
  ASSUME TypeOK, StopInv, jobs' = jobs,
         \A p \in Pids : proc'[p] = "stopped" => proc[p] = "stopped",
         hpc["CHLD"] = "stop" =>
           hpc'["CHLD"] = "stop" /\ hpid'["CHLD"] = hpid["CHLD"],
         pc' = "add" => pc = "add" /\ cmd' = cmd /\ cmd.pid \in Pids
  PROVE  StopInv'
<1>1. \A i \in Slots : jobs[i].pid \in Pids \cup {0}
  BY DEF TypeOK, Job
<1>2. StopRecorded'
  BY <1>1 DEF StopInv, StopRecorded
<1>. QED BY <1>2 DEF StopInv, NewNotStopped

\* Only waitpid makes a stop one that was reported.
LEMMA SignalReportsNothing ==
  ASSUME TypeOK, NEW p \in Pids, NEW sig, Signal(p, sig)
  PROVE  \A q \in Pids : proc'[q] = "stopped" => proc[q] = "stopped"
<1>1. PICK s \in AfterSignal(proc[p], sig) : Move(p, s)
  BY DEF Signal
<1>2. s = "stopped" => proc[p] = "stopped"
  BY DEF AfterSignal
<1>. QED BY <1>1, <1>2 DEF Move, TypeOK

\* The main thread: addjob enters a child whose stop has not been reported.
LEMMA MainStops ==
  ASSUME IInv, FgInv, StopInv, NoFgBg, Main \/ Eval
  PROVE  StopInv'
<1>1. TypeOK
  BY DEF IInv
<1>2. CASE Main \/ Unblock \/ WaitfgTest \/ WaitfgSuspend \/ ListPid \/ ListState
  <2>1. /\ jobs' = jobs /\ proc' = proc /\ UNCHANGED <<hpc, hpid>> /\ pc' # "add"
    BY <1>2 DEF Main, TypeRun, TypeJob, TypeJobs, Quit, Unblock, WaitfgTest,
       WaitfgSuspend, ListPid, ListState, At, Done, shell, handlv
  <2>. QED BY <1>1, <2>1, NoNewStop
<1>3. CASE Fork
  <2>1. /\ jobs' = jobs /\ UNCHANGED <<hpc, hpid>> /\ cmd \in Locals
    BY <1>1, <1>3 DEF Fork, shell, handlv, TypeOK
  <2>2. CASE pc' = "exit" /\ UNCHANGED <<proc, cmd>>
    BY <1>1, <2>1, <2>2, NoNewStop
  <2>3. ASSUME NEW p \in Pids, pc' = "add", cmd' = [cmd EXCEPT !.pid = p],
               proc' = [proc EXCEPT ![p] = "forked"]
        PROVE  StopInv'
    <3>1. cmd'.pid = p /\ proc'[p] = "forked"
          /\ \A q \in Pids : proc'[q] = "stopped" => proc[q] = "stopped"
      BY <1>1, <2>1, <2>3 DEF TypeOK, Locals
    <3>2. \A i \in Slots : jobs[i].pid \in Pids \cup {0}
      BY <1>1 DEF TypeOK, Job
    <3>3. StopRecorded'
      BY <2>1, <3>1, <3>2 DEF StopInv, StopRecorded
    <3>. QED BY <3>1, <3>3 DEF StopInv, NewNotStopped
  <2>. QED BY <1>3, <2>2, <2>3 DEF Fork
<1>4. CASE AddJob
  <2>. DEFINE p == cmd.pid
              st == LaunchState(cmd.op)
  <2>1. /\ pc = "add" /\ pc' = "unblock" /\ UNCHANGED <<proc, hpc, hpid>>
        /\ p \in Pids /\ proc[p] # "stopped"
    BY <1>4 DEF AddJob, At, handlv, IInv, Aux, LaunchedIsNew, StopInv, NewNotStopped
  <2>2. CASE Full(jobs)
    BY <1>1, <1>4, <2>1, <2>2, NoNewStop DEF AddJob
  <2>3. CASE ~Full(jobs)
    <3>1. /\ jobs \in [Slots -> Job] /\ nextjid \in Nat
          /\ st \in JobStates /\ jobs' = addjob(jobs, nextjid, p, st)
      BY <1>1, <1>4, <2>3 DEF TypeOK, AddJob, LaunchState, JobStates
    <3>2. PICK i \in Slots :
            jobs' = [jobs EXCEPT ![i] = [pid |-> p, jid |-> nextjid, state |-> st]]
      <4>. HIDE DEF p, st
      <4>. QED BY <2>1, <2>3, <3>1, AddjobEffect
    <3>3. jobs'[i].pid = p /\ \A k \in Slots : k # i => jobs'[k] = jobs[k]
      BY <3>1, <3>2
    <3>4. StopRecorded'
      BY <2>1, <3>3 DEF StopInv, StopRecorded
    <3>. QED BY <2>1, <3>4 DEF StopInv, NewNotStopped
  <2>. QED BY <2>2, <2>3
<1>5. CASE SendSignal
  <2>. DEFINE p == jobs[cmd.job].pid
  <2>1. /\ jobs' = jobs /\ UNCHANGED <<hpc, hpid>> /\ pc' # "add"
        /\ p \in Pids \cup {0}
    BY <1>1, <1>5 DEF SendSignal, At, Done, shell, handlv, IInv, Aux, JobPointer,
                      TypeOK, Job
  <2>2. \/ proc' = proc
        \/ p # 0 /\ \E sig : Signal(p, sig)
    BY <1>5 DEF SendSignal, GroupExists, ProcessExists
  <2>3. \A q \in Pids : proc'[q] = "stopped" => proc[q] = "stopped"
    <3>. HIDE DEF p
    <3>. QED BY <1>1, <2>1, <2>2, SignalReportsNothing
  <2>. QED BY <1>1, <2>1, <2>3, NoNewStop
<1>6. ~SetState
  BY <1>1 DEF SetState, At, FgInv, LocalsFitPc, NoFgBg, TypeOK, Locals
<1>. QED BY <1>2, <1>3, <1>4, <1>5, <1>6 DEF Eval

\* The handlers: a stop is reported, then marked in the one entry of its child.
LEMMA HandlerStops ==
  ASSUME IInv, StopInv, NEW s \in Sigs, Deliver(s) \/ Handler(s)
  PROVE  StopInv'
<1>1. /\ TypeOK /\ hpc \in [Sigs -> HPCs] /\ hpid \in [Sigs -> Pids \cup {0}]
      /\ "CHLD" \in Sigs
  BY DEF IInv, TypeOK, Sigs
<1>2. pc # "add" /\ pc' # "add"
  <2>1. CASE Deliver(s)
    BY <2>1 DEF IInv, Aux, Masked, Launching, Deliver, Wake
  <2>2. CASE Handler(s)
    <3>1. stack # <<>> /\ UNCHANGED mainv
      BY <2>2 DEF Handler, WaitpidNone, Waitpid, ReapJob, StopJob, FindFg,
                  ForwardToFg, Running
    <3>. QED BY <3>1, HandlerLeavesMain
  <2>. QED BY <2>1, <2>2
<1>3. CASE Deliver(s)
  <2>1. /\ jobs' = jobs /\ proc' = proc /\ hpid' = hpid
        /\ hpc["CHLD"] = "stop" => hpc'["CHLD"] = "stop"
    BY <1>1, <1>3 DEF Deliver, shell
  <2>. QED BY <1>1, <1>2, <2>1, NoNewStop
<1>4. CASE WaitpidNone
  <2>1. jobs' = jobs /\ proc' = proc /\ hpc["CHLD"] # "stop"
    BY <1>4 DEF WaitpidNone, Running, shell
  <2>. QED BY <1>1, <1>2, <2>1, NoNewStop
<1>5. ASSUME NEW p \in Pids, Waitpid(p) PROVE StopInv'
  <2>1. /\ jobs' = jobs /\ hpc["CHLD"] = "start" /\ hpid'["CHLD"] = p
        /\ \A q \in Pids : q # p => proc'[q] = proc[q]
        /\ \/ proc'[p] = "free"
           \/ proc'[p] = "stopped" /\ hpc'["CHLD"] = "stop"
    BY <1>1, <1>5 DEF Waitpid, Running, shell, TypeOK
  <2>2. \A i \in Slots : jobs[i].pid \in Pids \cup {0}
    BY <1>1 DEF TypeOK, Job
  <2>3. StopRecorded'
    BY <2>1, <2>2 DEF StopInv, StopRecorded
  <2>. QED BY <1>2, <2>3 DEF StopInv, NewNotStopped
<1>6. CASE FindFg(s) /\ s # "CHLD"
  <2>1. /\ jobs' = jobs /\ proc' = proc
        /\ hpc'["CHLD"] = hpc["CHLD"] /\ hpid'["CHLD"] = hpid["CHLD"]
    BY <1>1, <1>6 DEF FindFg, Return, shell
  <2>. QED BY <1>1, <1>2, <2>1, NoNewStop
<1>7. CASE ForwardToFg(s) /\ s # "CHLD"
  <2>1. /\ jobs' = jobs /\ hpc[s] = "send" /\ hpid[s] \in Pids
        /\ hpc'["CHLD"] = hpc["CHLD"] /\ hpid'["CHLD"] = hpid["CHLD"]
        /\ proc' = proc \/ Signal(hpid[s], s)
    BY <1>1, <1>7 DEF ForwardToFg, Return, Running, shell, IInv, Aux, HandlerLocals
  <2>2. \A q \in Pids : proc'[q] = "stopped" => proc[q] = "stopped"
    BY <1>1, <2>1, SignalReportsNothing
  <2>. QED BY <1>1, <1>2, <2>1, <2>2, NoNewStop
<1>8. CASE ReapJob
  <2>. DEFINE p == hpid["CHLD"]
  <2>1. /\ hpc["CHLD"] = "gone" /\ proc' = proc
    BY <1>8 DEF ReapJob, Running
  <2>2. CASE ~Tracked(jobs, p)
    BY <1>1, <1>2, <1>8, <2>1, <2>2, NoNewStop DEF ReapJob
  <2>3. CASE Tracked(jobs, p)
    <3>1. jobs \in [Slots -> Job] /\ jobs' = deletejob(jobs, p)
      BY <1>1, <1>8, <2>3 DEF TypeOK, ReapJob
    <3>2. PICK i \in Slots : jobs' = [jobs EXCEPT ![i] = ClearedJob]
      <4>. HIDE DEF p
      <4>. QED BY <2>3, <3>1, DeletejobEffect
    <3>3. \A k \in Slots : jobs'[k] = jobs[k] \/ jobs'[k].pid = 0
      BY <3>1, <3>2 DEF ClearedJob
    <3>4. StopRecorded'
      BY <2>1, <3>3 DEF StopInv, StopRecorded
    <3>. QED BY <1>2, <3>4 DEF StopInv, NewNotStopped
  <2>. QED BY <2>2, <2>3
<1>9. CASE StopJob
  <2>. DEFINE p == hpid["CHLD"]
              i == getjobpid(jobs, p)
  <2>1. /\ hpc["CHLD"] = "stop" /\ proc' = proc /\ jobs \in [Slots -> Job]
        /\ p \in Pids /\ jobs' = IF i # NULL THEN setstate(jobs, i, "ST") ELSE jobs
    BY <1>1, <1>9 DEF StopJob, Running, TypeOK, IInv, Aux, HandlerLocals
  <2>2. ASSUME NEW k \in Slots, jobs[k].pid = p
        PROVE  jobs'[k].state = "ST"
    <3>1. WithPid(jobs, p) = {k}
      BY <2>1, <2>2, PidsAssumption DEF WithPid, IInv, Safety, UniquePids
    <3>2. i = k
      <4>1. i \in WithPid(jobs, p)
        <5>1. WithPid(jobs, p) \subseteq Slots /\ WithPid(jobs, p) # {}
          BY <3>1
        <5>. QED BY <5>1, FirstOfSlots DEF getjobpid
      <4>. QED BY <3>1, <4>1
    <3>3. k # NULL
      BY MaxJobsAssumption DEF Slots, NULL
    <3>. QED BY <2>1, <3>2, <3>3 DEF setstate
  <2>3. \A k \in Slots : \/ jobs'[k] = jobs[k]
                         \/ jobs'[k].pid = jobs[k].pid /\ jobs'[k].state = "ST"
    BY <2>1 DEF setstate, Job
  <2>4. StopRecorded'
    <3>. HIDE DEF p, i
    <3>. QED BY <2>1, <2>2, <2>3 DEF StopInv, StopRecorded, p
  <2>. QED BY <1>2, <2>4 DEF StopInv, NewNotStopped
<1>. QED BY <1>3, <1>4, <1>5, <1>6, <1>7, <1>8, <1>9 DEF Handler

\* A child's own step never passes for a report of waitpid.
LEMMA ChildStopsUnreported ==
  ASSUME IInv, StopInv, NEW p \in Pids, Child(p)
  PROVE  StopInv'
<1>1. UNCHANGED <<shell, mainv, handlv>> /\ TypeOK
  BY DEF Child, IInv
<1>2. \A q \in Pids : proc'[q] = "stopped" => proc[q] = "stopped"
  BY <1>1 DEF Child, ChildStarts, ChildExits, ChildIsKilled, ChildStops,
              ChildContinued, ChildResumes, Move, TypeOK
<1>3. pc = "add" => cmd.pid \in Pids
  BY DEF IInv, Aux, LaunchedIsNew
<1>. QED BY <1>1, <1>2, <1>3, NoNewStop DEF shell, mainv, handlv

\* Every step keeps the reported stops in the list.
LEMMA StepStops ==
  ASSUME IInv, FgInv, StopInv, NoFgBg, [Next]_vars
  PROVE  StopInv'
<1>1. TypeOK /\ (pc = "add" => cmd.pid \in Pids)
  BY DEF IInv, Aux, LaunchedIsNew
<1>2. CASE UNCHANGED vars
  BY <1>1, <1>2, NoNewStop DEF vars
<1>3. CASE Main \/ Eval
  BY <1>3, MainStops
<1>4. CASE \E s \in Sigs : Deliver(s) \/ Handler(s)
  BY <1>4, HandlerStops
<1>5. CASE \E s \in {"INT", "TSTP"} : Keyboard(s)
  BY <1>1, <1>5, NoNewStop DEF Keyboard, shell, mainv, handlv
<1>6. CASE \E p \in Pids : Child(p)
  BY <1>6, ChildStopsUnreported
<1>. QED BY <1>2, <1>3, <1>4, <1>5, <1>6 DEF Next

\* A stop that waitpid reported to sigchld_handler is in the list, or is being
\* written there, in a shell whose user does not type fg or bg: it cannot be
\* lost between fork and addjob, and no other handler overwrites it.
THEOREM StopsRecorded ==
  ASSUME Commands \cap {"fg", "bg"} = {}
  PROVE  Spec => []StopRecorded
<1>1. NoFgBg /\ "fg" \notin Commands
  BY DEF NoFgBg
<1>2. Init => StopInv
  BY DEF Init, StopInv, StopRecorded, NewNotStopped, initjobs, ClearedJob
<1>3. IInv /\ FgInv /\ StopInv /\ [Next]_vars => StopInv'
  BY <1>1, StepStops
<1>4. StopInv => StopRecorded
  BY DEF StopInv
<1>5. Spec => []FgInv
  BY <1>1, ForegroundInvariance
<1>. QED BY <1>2, <1>3, <1>4, <1>5, Invariance, PTL DEF Spec

-----------------------------------------------------------------------------
(***************************************************************************)
(* The shell implements JobControl: under the mapping life, rec of module  *)
(* Tsh every step, of the main thread, a handler, a child or the keyboard, *)
(* is a step of the abstract job control or leaves it alone.               *)
(***************************************************************************)
AbsVars == <<life, rec>>

\* Equal values for every pid are equal functions.
LEMMA LifeUnchanged ==
  ASSUME \A p \in Pids : LifeOf(p)' = LifeOf(p)
  PROVE  life' = life
BY DEF life

\* The same for records.
LEMMA RecUnchanged ==
  ASSUME \A p \in Pids : RecordOf(jobs', p) = RecordOf(jobs, p)
  PROVE  rec' = rec
BY DEF rec

\* The record of a child is the state in its entry, when that is the only one.
LEMMA RecordIsEntryState ==
  ASSUME NEW jl \in [Slots -> Job], NEW p \in Pids,
         \A i, k \in Slots : jl[i].pid = jl[k].pid /\ jl[i].pid # 0 => i = k
  PROVE  /\ \A i \in Slots : jl[i].pid = p => RecordOf(jl, p) = jl[i].state
         /\ (\A i \in Slots : jl[i].pid # p) => RecordOf(jl, p) = "none"
         /\ RecordOf(jl, p) = "none" <=> ~Tracked(jl, p)
<1>1. WithPid(jl, p) \subseteq Slots
  BY DEF WithPid
<1>2. ASSUME NEW i \in Slots, jl[i].pid = p PROVE RecordOf(jl, p) = jl[i].state
  <2>1. Tracked(jl, p)
    BY <1>2 DEF Tracked, WithPid
  <2>2. getjobpid(jl, p) \in WithPid(jl, p)
    BY <1>1, <2>1, FirstOfSlots DEF getjobpid, Tracked
  <2>3. getjobpid(jl, p) = i
    BY <1>2, <2>2, PidsAssumption DEF WithPid
  <2>. QED BY <2>1, <2>3 DEF RecordOf
<1>3. ASSUME \A i \in Slots : jl[i].pid # p
      PROVE  ~Tracked(jl, p) /\ RecordOf(jl, p) = "none"
  BY <1>3 DEF Tracked, WithPid, RecordOf
<1>4. RecordOf(jl, p) = "none" <=> ~Tracked(jl, p)
  <2>1. \A i \in Slots : jl[i].state # "none"
    BY DEF Job, JobStates
  <2>2. Tracked(jl, p) => \E i \in Slots : jl[i].pid = p
    BY TrackedIsEntry
  <2>. QED BY <1>2, <2>1, <2>2 DEF RecordOf
<1>. QED BY <1>2, <1>3, <1>4

\* When one entry changes, only the records of the old and the new child in
\* it do.
LEMMA OtherRecordsSame ==
  ASSUME NEW jl \in [Slots -> Job], NEW jm \in [Slots -> Job],
         \A i, k \in Slots : jl[i].pid = jl[k].pid /\ jl[i].pid # 0 => i = k,
         \A i, k \in Slots : jm[i].pid = jm[k].pid /\ jm[i].pid # 0 => i = k,
         NEW q \in Pids,
         \A k \in Slots : jl[k].pid = q => jm[k] = jl[k],
         \A k \in Slots : jm[k].pid = q => jl[k].pid = q
  PROVE  RecordOf(jm, q) = RecordOf(jl, q)
<1>1. CASE \E k \in Slots : jl[k].pid = q
  <2>1. PICK k \in Slots : jl[k].pid = q
    BY <1>1
  <2>2. RecordOf(jl, q) = jl[k].state
    BY <2>1, RecordIsEntryState
  <2>3. RecordOf(jm, q) = jm[k].state
    BY <2>1, RecordIsEntryState
  <2>. QED BY <2>1, <2>2, <2>3
<1>2. CASE \A k \in Slots : jl[k].pid # q
  <2>1. RecordOf(jl, q) = "none"
    BY <1>2, RecordIsEntryState
  <2>2. RecordOf(jm, q) = "none"
    BY <1>2, RecordIsEntryState
  <2>. QED BY <2>1, <2>2
<1>. QED BY <1>1, <1>2

\* The list decides the records.
LEMMA SameListSameRecords ==
  ASSUME jobs' = jobs
  PROVE  rec' = rec
<1>1. \A p \in Pids : RecordOf(jobs', p) = RecordOf(jobs, p)
  OBVIOUS
<1>. QED BY <1>1, RecUnchanged

\* The process table and the reaper's pid decide the lives.
LEMMA SameProcSameLives ==
  ASSUME UNCHANGED proc, \A p \in Pids : HeldByReaper(p)' <=> HeldByReaper(p)
  PROVE  life' = life
<1>1. \A p \in Pids : LifeOf(p)' = LifeOf(p)
  BY DEF LifeOf, Dead
<1>. QED BY <1>1, LifeUnchanged

\* A child that moves on lives on, or dies.
LEMMA ProcessStep ==
  ASSUME IInv, NEW p \in Pids, proc[p] \notin {"free", "exited", "killed"},
         NEW s \in ProcStates \ {"free"}, proc' = [proc EXCEPT ![p] = s],
         \A q \in Pids : HeldByReaper(q)' <=> HeldByReaper(q),
         jobs' = jobs
  PROVE  [Abstract!Next]_AbsVars
<1>. USE DEF IInv, Aux
<1>1. ~HeldByReaper(p)
  BY DEF HeldByReaper, HandlerLocals
<1>2. \A q \in Pids : q # p => LifeOf(q)' = LifeOf(q)
  BY DEF LifeOf, Dead, TypeOK
<1>3. rec' = rec
  BY SameListSameRecords
<1>4. LifeOf(p) = "live"
  BY <1>1 DEF LifeOf, Dead
<1>5. proc'[p] = s
  BY DEF TypeOK
<1>6. CASE s \in {"exited", "killed"}
  <2>1. LifeOf(p)' = "dead"
    BY <1>5, <1>6 DEF LifeOf, Dead
  <2>2. life' = [life EXCEPT ![p] = "dead"]
    BY <1>2, <2>1 DEF life
  <2>3. Abstract!Die(p)
    BY <1>3, <1>4, <2>2 DEF Abstract!Die, life
  <2>. QED BY <2>3 DEF Abstract!Next
<1>7. CASE s \notin {"exited", "killed"}
  <2>1. LifeOf(p)' = "live"
    BY <1>1, <1>5, <1>7 DEF LifeOf, Dead
  <2>2. life' = life
    BY <1>2, <1>4, <2>1, LifeUnchanged
  <2>. QED BY <1>3, <2>2 DEF AbsVars
<1>. QED BY <1>6, <1>7

\* So does a child that a signal hits.
LEMMA SignalStep ==
  ASSUME IInv, NEW p \in Pids, proc[p] # "free", NEW sig, Signal(p, sig),
         \A q \in Pids : HeldByReaper(q)' <=> HeldByReaper(q),
         jobs' = jobs
  PROVE  [Abstract!Next]_AbsVars
<1>1. PICK s \in AfterSignal(proc[p], sig) : Move(p, s)
  BY DEF Signal
<1>2. proc[p] \in ProcStates /\ proc' = [proc EXCEPT ![p] = s]
  BY <1>1 DEF IInv, TypeOK, Move
<1>3. CASE proc[p] \in {"exited", "killed"}
  <2>1. s = proc[p]
    BY <1>1, <1>3 DEF AfterSignal
  <2>2. proc' = proc
    BY <1>2, <2>1 DEF IInv, TypeOK
  <2>. QED BY <2>2, SameProcSameLives, SameListSameRecords DEF AbsVars
<1>4. CASE proc[p] \notin {"exited", "killed"}
  <2>1. s \in ProcStates \ {"free"}
    BY <1>1, <1>2 DEF AfterSignal, ProcStates
  <2>. QED BY <1>2, <1>4, <2>1, ProcessStep
<1>. QED BY <1>3, <1>4

\* fork and addjob, which no handler can come between.
LEMMA ForkImplements ==
  ASSUME IInv, Fork
  PROVE  [Abstract!Next]_AbsVars
<1>. USE DEF IInv, Aux, At
<1>1. stack = <<>> /\ UNCHANGED <<shell, handlv>>
  BY DEF Fork
<1>2. \A s \in Sigs : hpc[s] = "idle" /\ hpc'[s] = "idle"
  BY <1>1, MainIsAlone DEF handlv
<1>3. \A q \in Pids : ~HeldByReaper(q) /\ ~HeldByReaper(q)'
  BY <1>2 DEF HeldByReaper, Sigs
<1>4. rec' = rec
  BY <1>1, SameListSameRecords DEF shell
<1>5. CASE UNCHANGED proc
  BY <1>3, <1>4, <1>5, SameProcSameLives DEF AbsVars
<1>6. ASSUME NEW p \in Pids, proc[p] = "free", proc' = [proc EXCEPT ![p] = "forked"]
      PROVE  [Abstract!Next]_AbsVars
  <2>1. LifeOf(p) = "none" /\ LifeOf(p)' = "live"
    BY <1>3, <1>6 DEF LifeOf, Dead, TypeOK
  <2>2. \A q \in Pids : q # p => LifeOf(q)' = LifeOf(q)
    BY <1>3, <1>6 DEF LifeOf, Dead, TypeOK
  <2>3. life' = [life EXCEPT ![p] = "live"]
    BY <2>1, <2>2 DEF life
  <2>4. RecordOf(jobs, p) = "none"
    BY <1>3, <1>6, RecordIsEntryState DEF TypeOK, Safety, NoStaleEntry, UniquePids
  <2>5. Abstract!Launch(p)
    BY <1>4, <2>1, <2>3, <2>4 DEF Abstract!Launch, life, rec
  <2>. QED BY <2>5 DEF Abstract!Next
<1>. QED BY <1>5, <1>6 DEF Fork

\* addjob records the child, or leaves it unrecorded when the list is full.
LEMMA AddJobImplements ==
  ASSUME IInv, IInv', AddJob
  PROVE  [Abstract!Next]_AbsVars
<1>. USE DEF IInv, Aux, At
<1>. DEFINE p == cmd.pid
            st == LaunchState(cmd.op)
<1>1. stack = <<>> /\ pc = "add" /\ UNCHANGED <<cmd, handlv, proc>>
  BY DEF AddJob
<1>2. p \in Pids /\ proc[p] # "free" /\ ~Tracked(jobs, p)
  BY <1>1 DEF LaunchedIsNew
<1>3. life' = life
  <2>1. \A q \in Pids : HeldByReaper(q)' <=> HeldByReaper(q)
    BY <1>1 DEF HeldByReaper, handlv
  <2>. QED BY <1>1, <2>1, SameProcSameLives
<1>4. CASE Full(jobs)
  <2>1. jobs' = jobs
    BY <1>4 DEF AddJob
  <2>. QED BY <1>3, <2>1, SameListSameRecords DEF AbsVars
<1>5. CASE ~Full(jobs)
  <2>1. /\ jobs \in [Slots -> Job] /\ nextjid \in Nat
        /\ p \in Pids /\ st \in JobStates
        /\ jobs' = addjob(jobs, nextjid, p, st)
    BY <1>2, <1>5 DEF TypeOK, AddJob, LaunchState, JobStates
  <2>2. PICK i \in Slots :
          /\ jobs[i].pid = 0
          /\ jobs' = [jobs EXCEPT ![i] = [pid |-> p, jid |-> nextjid, state |-> st]]
    <3>. HIDE DEF p, st
    <3>. QED BY <1>5, <2>1, AddjobEffect
  <2>3. /\ jobs'[i].pid = p /\ jobs'[i].state = st
        /\ \A k \in Slots : k # i => jobs'[k] = jobs[k]
    BY <2>1, <2>2
  <2>. DEFINE Unique(jl) == \A m, n \in Slots :
                             jl[m].pid = jl[n].pid /\ jl[m].pid # 0 => m = n
  <2>4. jobs' \in [Slots -> Job] /\ Unique(jobs) /\ Unique(jobs')
    BY DEF Safety, UniquePids, TypeOK
  <2>5. /\ RecordOf(jobs', p) = st
        /\ RecordOf(jobs, p) = "none" /\ LifeOf(p) # "none"
    <3>1. RecordOf(jobs', p) = st
      BY <1>2, <2>3, <2>4, RecordIsEntryState
    <3>2. RecordOf(jobs, p) = "none"
      BY <1>2, <2>1, <2>4, RecordIsEntryState
    <3>. QED BY <1>2, <3>1, <3>2 DEF LifeOf
  <2>6. ASSUME NEW q \in Pids, q # p PROVE RecordOf(jobs', q) = RecordOf(jobs, q)
    <3>1. /\ \A k \in Slots : jobs[k].pid = q => jobs'[k] = jobs[k]
          /\ \A k \in Slots : jobs'[k].pid = q => jobs[k].pid = q
      BY <2>2, <2>3, <2>6, PidsAssumption
    <3>. QED BY <2>1, <2>4, <3>1, OtherRecordsSame
  <2>7. rec' = [rec EXCEPT ![p] = st]
    BY <1>2, <2>5, <2>6 DEF rec
  <2>8. Abstract!Record(p, st)
    BY <1>2, <1>3, <2>5, <2>7 DEF Abstract!Record, life, rec
  <2>9. st \in {"FG", "BG"}
    BY DEF LaunchState
  <2>. QED BY <1>2, <2>8, <2>9 DEF Abstract!Next
<1>. QED BY <1>4, <1>5

\* A signal from fg, bg or kill hits a child of the list, or nobody.
LEMMA SendSignalImplements ==
  ASSUME IInv, SendSignal
  PROVE  [Abstract!Next]_AbsVars
<1>. USE DEF IInv, Aux, At
<1>. DEFINE p == jobs[cmd.job].pid
            sig == IF cmd.op \in {"fg", "bg"} THEN "CONT" ELSE "TERM"
            exists == IF cmd.op = "kill" THEN ProcessExists(p)
                                         ELSE GroupExists(p)
<1>1. /\ pc = "signal" /\ UNCHANGED <<shell, handlv>>
      /\ (exists /\ Signal(p, sig)) \/ UNCHANGED proc
  BY DEF SendSignal
<1>2. /\ jobs' = jobs
      /\ \A q \in Pids : HeldByReaper(q)' <=> HeldByReaper(q)
  BY <1>1 DEF shell, handlv, HeldByReaper
<1>3. CASE UNCHANGED proc
  BY <1>2, <1>3, SameProcSameLives, SameListSameRecords DEF AbsVars
<1>4. CASE exists /\ Signal(p, sig)
  <2>1. cmd.job \in Slots
    BY <1>1 DEF JobPointer
  <2>2. p \in Pids \cup {0}
    BY <2>1 DEF TypeOK, Job
  <2>3. p \in Pids /\ proc[p] # "free"
    BY <1>4, <2>2 DEF GroupExists, ProcessExists
  <2>. QED BY <1>2, <1>4, <2>3, SignalStep
<1>. QED BY <1>1, <1>3, <1>4

\* A new state in an entry: the record of its child, if it has one, is moved.
LEMMA EntryMoved ==
  ASSUME IInv, IInv', NEW i \in Slots, NEW st \in JobStates,
         jobs' = setstate(jobs, i, st)
  PROVE  \/ jobs[i].pid = 0 /\ rec' = rec
         \/ /\ jobs[i].pid \in Pids
            /\ RecordOf(jobs, jobs[i].pid) # "none"
            /\ rec' = [rec EXCEPT ![jobs[i].pid] = st]
<1>. USE DEF IInv
<1>. DEFINE p == jobs[i].pid
            Unique(jl) == \A m, n \in Slots :
                            jl[m].pid = jl[n].pid /\ jl[m].pid # 0 => m = n
<1>1. /\ jobs \in [Slots -> Job] /\ jobs' \in [Slots -> Job]
      /\ Unique(jobs) /\ Unique(jobs')
  BY DEF Safety, UniquePids, TypeOK
<1>2. /\ jobs'[i].pid = p /\ jobs'[i].state = st
      /\ \A k \in Slots : k # i => jobs'[k] = jobs[k]
  BY <1>1 DEF setstate, Job
<1>3. ASSUME NEW q \in Pids, q # p PROVE RecordOf(jobs', q) = RecordOf(jobs, q)
  <2>1. /\ \A k \in Slots : jobs[k].pid = q => jobs'[k] = jobs[k]
        /\ \A k \in Slots : jobs'[k].pid = q => jobs[k].pid = q
    BY <1>2, <1>3
  <2>. QED BY <1>1, <2>1, OtherRecordsSame
<1>4. p \in Pids \cup {0}
  BY <1>1 DEF Job
<1>5. CASE p = 0
  BY <1>3, <1>5, RecUnchanged, PidsAssumption
<1>6. CASE p # 0
  <2>1. p \in Pids
    BY <1>4, <1>6
  <2>2. RecordOf(jobs', p) = st
    BY <1>1, <1>2, <2>1, RecordIsEntryState
  <2>3. RecordOf(jobs, p) # "none"
    <3>1. RecordOf(jobs, p) = jobs[i].state
      BY <1>1, <2>1, RecordIsEntryState
    <3>. QED BY <1>1, <3>1 DEF Job, JobStates
  <2>4. rec' = [rec EXCEPT ![p] = st]
    BY <1>3, <2>1, <2>2 DEF rec
  <2>. QED BY <2>1, <2>3, <2>4
<1>. QED BY <1>5, <1>6

\* fg and bg move the record of the job the pointer names, if it is still one.
LEMMA SetStateImplements ==
  ASSUME IInv, IInv', SetState
  PROVE  [Abstract!Next]_AbsVars
<1>. USE DEF IInv, Aux, At
<1>1. /\ pc = "setstate" /\ UNCHANGED <<handlv, proc>>
      /\ \E st \in {"FG", "BG"} : jobs' = setstate(jobs, cmd.job, st)
  BY DEF SetState
<1>2. life' = life
  <2>1. \A q \in Pids : HeldByReaper(q)' <=> HeldByReaper(q)
    BY <1>1 DEF HeldByReaper, handlv
  <2>. QED BY <1>1, <2>1, SameProcSameLives
<1>3. PICK st \in {"FG", "BG"} : jobs' = setstate(jobs, cmd.job, st)
  BY <1>1
<1>4. cmd.job \in Slots /\ st \in JobStates
  BY <1>1 DEF JobPointer, JobStates
<1>5. CASE rec' = rec
  BY <1>2, <1>5 DEF AbsVars
<1>6. ASSUME NEW p \in Pids, RecordOf(jobs, p) # "none",
             rec' = [rec EXCEPT ![p] = st]
      PROVE  [Abstract!Next]_AbsVars
  <2>1. Abstract!Move(p, st)
    BY <1>2, <1>6 DEF Abstract!Move, rec
  <2>. QED BY <2>1 DEF Abstract!Next
<1>7. \/ rec' = rec
      \/ \E p \in Pids : /\ RecordOf(jobs, p) # "none"
                         /\ rec' = [rec EXCEPT ![p] = st]
  BY <1>3, <1>4, EntryMoved
<1>. QED BY <1>5, <1>6, <1>7

\* The handler learns of a stop.
LEMMA StopJobImplements ==
  ASSUME IInv, IInv', StopJob
  PROVE  [Abstract!Next]_AbsVars
<1>. USE DEF IInv, Aux
<1>. DEFINE p == hpid["CHLD"]
            j == getjobpid(jobs, p)
<1>1. /\ hpc["CHLD"] = "stop" /\ NextChild /\ UNCHANGED proc
      /\ jobs' = IF j # NULL THEN setstate(jobs, j, "ST") ELSE jobs
  BY DEF StopJob, Running
<1>2. \A q \in Pids : ~HeldByReaper(q) /\ ~HeldByReaper(q)'
  BY <1>1 DEF HeldByReaper, NextChild, TypeOK, Sigs
<1>3. life' = life
  BY <1>1, <1>2, SameProcSameLives
<1>4. CASE j = NULL
  BY <1>1, <1>3, <1>4, SameListSameRecords DEF AbsVars
<1>5. CASE j # NULL
  <2>1. p \in Pids
    BY <1>1 DEF HandlerLocals
  <2>2. WithPid(jobs, p) \subseteq Slots
    BY DEF WithPid
  <2>3. j \in Slots /\ jobs[j].pid = p /\ Tracked(jobs, p)
    BY <1>5, <2>2, FirstOfSlots DEF getjobpid, WithPid, Tracked
  <2>4. /\ RecordOf(jobs, p) # "none"
        /\ rec' = [rec EXCEPT ![p] = "ST"]
    <3>1. "ST" \in JobStates /\ p # 0
      BY <2>1, PidsAssumption DEF JobStates
    <3>2. jobs' = setstate(jobs, j, "ST")
      BY <1>1, <1>5
    <3>. HIDE DEF j, p
    <3>. QED BY <2>3, <3>1, <3>2, EntryMoved
  <2>5. LifeOf(p) # "none"
    BY <1>2, <2>1, <2>3 DEF LifeOf, Safety, NoStaleEntry
  <2>6. Abstract!Stop(p)
    BY <1>3, <2>1, <2>4, <2>5 DEF Abstract!Stop, life, rec
  <2>. QED BY <2>1, <2>6 DEF Abstract!Next
<1>. QED BY <1>4, <1>5

\* waitpid takes a dead child from the kernel; to the abstract job control it
\* stays dead until the list forgets it, too.
LEMMA WaitpidImplements ==
  ASSUME IInv, NEW p \in Pids, Waitpid(p)
  PROVE  [Abstract!Next]_AbsVars
<1>. USE DEF IInv, Aux
<1>1. /\ hpc["CHLD"] = "start"
      /\ \/ /\ Dead(p)
            /\ proc' = [proc EXCEPT ![p] = "free"]
            /\ hpc' = [hpc EXCEPT !["CHLD"] = "gone"]
         \/ /\ proc[p] = "stopping"
            /\ proc' = [proc EXCEPT ![p] = "stopped"]
            /\ hpc' = [hpc EXCEPT !["CHLD"] = "stop"]
      /\ hpid' = [hpid EXCEPT !["CHLD"] = p]
      /\ UNCHANGED shell
  BY DEF Waitpid, Running
<1>2. rec' = rec
  BY <1>1, SameListSameRecords DEF shell
<1>3. \A q \in Pids : ~HeldByReaper(q)
  BY <1>1 DEF HeldByReaper
<1>4. \A q \in Pids : q # p => ~HeldByReaper(q)' /\ proc'[q] = proc[q]
  BY <1>1 DEF HeldByReaper, TypeOK, Sigs
<1>5. LifeOf(p)' = LifeOf(p)
  <2>1. CASE Dead(p) /\ hpc' = [hpc EXCEPT !["CHLD"] = "gone"]
    <3>1. HeldByReaper(p)'
      BY <1>1, <2>1 DEF HeldByReaper, TypeOK, Sigs
    <3>. QED BY <2>1, <3>1 DEF LifeOf, Dead
  <2>2. CASE /\ proc[p] = "stopping" /\ proc' = [proc EXCEPT ![p] = "stopped"]
             /\ hpc' = [hpc EXCEPT !["CHLD"] = "stop"]
    <3>1. ~HeldByReaper(p)' /\ proc'[p] = "stopped"
      BY <2>2 DEF HeldByReaper, TypeOK, Sigs
    <3>. QED BY <1>3, <2>2, <3>1 DEF LifeOf, Dead
  <2>. QED BY <1>1, <2>1, <2>2
<1>6. \A q \in Pids : q # p => LifeOf(q)' = LifeOf(q)
  BY <1>3, <1>4 DEF LifeOf, Dead
<1>. QED BY <1>2, <1>5, <1>6, LifeUnchanged DEF AbsVars

\* The list forgets the child the kernel has forgotten.
LEMMA ReapJobImplements ==
  ASSUME IInv, IInv', ReapJob
  PROVE  [Abstract!Next]_AbsVars
<1>. USE DEF IInv, Aux
<1>. DEFINE Unique(jl) == \A m, n \in Slots :
                            jl[m].pid = jl[n].pid /\ jl[m].pid # 0 => m = n
<1>1. hpc["CHLD"] = "gone" /\ NextChild /\ UNCHANGED proc
  BY DEF ReapJob, Running
<1>2. PICK p \in Pids : p = hpid["CHLD"] /\ proc[p] = "free" /\ p # 0
  BY <1>1, PidsAssumption DEF HandlerLocals
<1>3. /\ HeldByReaper(p)
      /\ \A q \in Pids : q # p => ~HeldByReaper(q)
      /\ \A q \in Pids : ~HeldByReaper(q)'
  BY <1>1, <1>2 DEF HeldByReaper, NextChild, TypeOK, Sigs
<1>4. LifeOf(p) = "dead" /\ LifeOf(p)' = "none"
  BY <1>1, <1>2, <1>3 DEF LifeOf, Dead
<1>5. \A q \in Pids : q # p => LifeOf(q)' = LifeOf(q)
  BY <1>1, <1>3 DEF LifeOf, Dead
<1>6. life' = [life EXCEPT ![p] = "none"]
  BY <1>2, <1>4, <1>5 DEF life
<1>7. /\ jobs \in [Slots -> Job] /\ jobs' \in [Slots -> Job]
      /\ Unique(jobs) /\ Unique(jobs')
  BY DEF Safety, UniquePids, TypeOK
<1>8. /\ \A k \in Slots : jobs[k].pid # p => jobs'[k] = jobs[k]
      /\ \A k \in Slots : jobs[k].pid = p => jobs'[k].pid = 0
  <2>1. CASE Tracked(jobs, p)
    <3>1. jobs' = deletejob(jobs, p)
      BY <1>2, <2>1 DEF ReapJob
    <3>2. PICK i \in Slots : /\ jobs[i].pid = p
                             /\ jobs' = [jobs EXCEPT ![i] = ClearedJob]
      BY <1>7, <2>1, <3>1, DeletejobEffect
    <3>3. \A k \in Slots : jobs[k].pid = p => k = i
      BY <1>2, <1>7, <3>2
    <3>. QED BY <1>7, <3>2, <3>3 DEF ClearedJob
  <2>2. CASE ~Tracked(jobs, p)
    BY <1>2, <2>2 DEF ReapJob, Tracked, WithPid
  <2>. QED BY <2>1, <2>2
<1>9. RecordOf(jobs', p) = "none"
  <2>1. \A k \in Slots : jobs'[k].pid # p
    BY <1>2, <1>8
  <2>. QED BY <1>2, <1>7, <2>1, RecordIsEntryState
<1>10. ASSUME NEW q \in Pids, q # p PROVE RecordOf(jobs', q) = RecordOf(jobs, q)
  <2>1. /\ \A k \in Slots : jobs[k].pid = q => jobs'[k] = jobs[k]
        /\ \A k \in Slots : jobs'[k].pid = q => jobs[k].pid = q
    BY <1>8, <1>10, PidsAssumption
  <2>. QED BY <1>7, <2>1, OtherRecordsSame
<1>11. rec' = [rec EXCEPT ![p] = "none"]
  BY <1>2, <1>9, <1>10 DEF rec
<1>12. Abstract!Forget(p)
  BY <1>2, <1>4, <1>6, <1>11 DEF Abstract!Forget, life
<1>. QED BY <1>2, <1>12 DEF Abstract!Next

\* A handler that starts, forwards a signal or returns holds no dead child
\* before or after.
LEMMA HandlerMoves ==
  ASSUME IInv, NEW s \in Sigs,
         \/ Deliver(s)
         \/ s # "CHLD" /\ (FindFg(s) \/ ForwardToFg(s))
         \/ s = "CHLD" /\ WaitpidNone
  PROVE  jobs' = jobs /\ \A q \in Pids : HeldByReaper(q)' <=> HeldByReaper(q)
<1>. USE DEF IInv, TypeOK, HeldByReaper, Sigs
<1>1. CASE Deliver(s)
  BY <1>1 DEF Deliver, shell
<1>2. CASE s # "CHLD" /\ FindFg(s)
  <2>1. hpc'["CHLD"] = hpc["CHLD"] /\ hpid'["CHLD"] = hpid["CHLD"] /\ jobs' = jobs
    BY <1>2 DEF FindFg, Return, shell
  <2>. QED BY <2>1
<1>3. CASE s # "CHLD" /\ ForwardToFg(s)
  <2>1. hpc'["CHLD"] = hpc["CHLD"] /\ hpid'["CHLD"] = hpid["CHLD"] /\ jobs' = jobs
    BY <1>3 DEF ForwardToFg, Return, shell
  <2>. QED BY <2>1
<1>4. CASE s = "CHLD" /\ WaitpidNone
  BY <1>4 DEF WaitpidNone, Running, Return, shell
<1>. QED BY <1>1, <1>2, <1>3, <1>4

\* The main thread.
LEMMA MainImplements ==
  ASSUME IInv, IInv', Main \/ Eval
  PROVE  [Abstract!Next]_AbsVars
<1>1. ASSUME UNCHANGED <<shell, handlv, proc>> PROVE [Abstract!Next]_AbsVars
  <2>1. jobs' = jobs /\ proc' = proc
        /\ \A q \in Pids : HeldByReaper(q)' <=> HeldByReaper(q)
    BY <1>1 DEF shell, handlv, HeldByReaper
  <2>. QED BY <2>1, SameProcSameLives, SameListSameRecords DEF AbsVars
<1>2. CASE Main
  BY <1>1, <1>2 DEF Main, TypeRun, TypeJob, TypeJobs, Quit
<1>3. CASE Unblock \/ WaitfgTest \/ WaitfgSuspend \/ ListPid \/ ListState
  BY <1>1, <1>3 DEF Unblock, WaitfgTest, WaitfgSuspend, ListPid, ListState
<1>4. CASE Fork \/ AddJob \/ SendSignal \/ SetState
  BY <1>4, ForkImplements, AddJobImplements, SendSignalImplements,
     SetStateImplements
<1>. QED BY <1>2, <1>3, <1>4 DEF Eval

\* The handlers.
LEMMA HandlerImplements ==
  ASSUME IInv, IInv', NEW s \in Sigs, Deliver(s) \/ Handler(s)
  PROVE  [Abstract!Next]_AbsVars
<1>1. ASSUME \/ Deliver(s)
             \/ s # "CHLD" /\ FindFg(s)
             \/ s # "CHLD" /\ ForwardToFg(s) /\ UNCHANGED proc
             \/ s = "CHLD" /\ WaitpidNone
      PROVE  [Abstract!Next]_AbsVars
  <2>1. proc' = proc
    BY <1>1 DEF Deliver, FindFg, WaitpidNone
  <2>2. jobs' = jobs /\ \A q \in Pids : HeldByReaper(q)' <=> HeldByReaper(q)
    BY <1>1, HandlerMoves
  <2>. QED BY <2>1, <2>2, SameProcSameLives, SameListSameRecords DEF AbsVars
<1>2. CASE /\ s # "CHLD" /\ ForwardToFg(s)
           /\ GroupExists(hpid[s]) /\ Signal(hpid[s], s)
  <2>1. PICK p \in Pids : p = hpid[s] /\ proc[p] # "free"
    BY <1>2 DEF GroupExists, IInv, TypeOK
  <2>2. jobs' = jobs /\ \A q \in Pids : HeldByReaper(q)' <=> HeldByReaper(q)
    BY <1>2, HandlerMoves
  <2>3. Signal(p, s)
    BY <1>2, <2>1
  <2>. QED BY <2>1, <2>2, <2>3, SignalStep
<1>3. ForwardToFg(s) => \/ UNCHANGED proc
                        \/ GroupExists(hpid[s]) /\ Signal(hpid[s], s)
  BY DEF ForwardToFg
<1>. QED BY <1>1, <1>2, <1>3, ReapJobImplements, StopJobImplements,
            WaitpidImplements DEF Handler

\* The children.
LEMMA ChildImplements ==
  ASSUME IInv, NEW p \in Pids, Child(p)
  PROVE  [Abstract!Next]_AbsVars
<1>1. jobs' = jobs /\ \A q \in Pids : HeldByReaper(q)' <=> HeldByReaper(q)
  BY DEF Child, shell, handlv, HeldByReaper
<1>2. /\ proc[p] \notin {"free", "exited", "killed"}
      /\ \E s \in ProcStates \ {"free"} : proc' = [proc EXCEPT ![p] = s]
  BY DEF Child, ChildStarts, ChildExits, ChildIsKilled, ChildStops,
         ChildContinued, ChildResumes, Move, Stopped, ProcStates
<1>3. PICK s \in ProcStates \ {"free"} : proc' = [proc EXCEPT ![p] = s]
  BY <1>2
<1>. QED BY <1>1, <1>2, <1>3, ProcessStep

\* The empty job list with no children is the abstract initial state.
LEMMA InitImplements ==
  ASSUME Init
  PROVE  Abstract!Init
<1>1. ASSUME NEW p \in Pids
      PROVE  LifeOf(p) = "none" /\ RecordOf(jobs, p) = "none"
  <2>1. ~HeldByReaper(p) /\ proc[p] = "free"
    BY DEF Init, HeldByReaper, Sigs
  <2>2. WithPid(jobs, p) = {}
    BY PidsAssumption DEF Init, initjobs, ClearedJob, WithPid
  <2>. QED BY <2>1, <2>2 DEF LifeOf, Dead, RecordOf, Tracked
<1>. QED BY <1>1 DEF Abstract!Init, life, rec

\* Every step of the shell is an abstract step or a stutter.
LEMMA StepImplements ==
  ASSUME IInv, IInv', [Next]_vars
  PROVE  [Abstract!Next]_AbsVars
<1>1. ASSUME UNCHANGED <<shell, handlv, proc>> PROVE [Abstract!Next]_AbsVars
  <2>1. jobs' = jobs /\ proc' = proc
        /\ \A q \in Pids : HeldByReaper(q)' <=> HeldByReaper(q)
    BY <1>1 DEF shell, handlv, HeldByReaper
  <2>. QED BY <2>1, SameProcSameLives, SameListSameRecords DEF AbsVars
<1>2. CASE UNCHANGED vars
  BY <1>1, <1>2 DEF vars, shell, handlv
<1>3. CASE \E s \in {"INT", "TSTP"} : Keyboard(s)
  BY <1>1, <1>3 DEF Keyboard
<1>4. CASE Main \/ Eval
  BY <1>4, MainImplements
<1>5. CASE \E s \in Sigs : Deliver(s) \/ Handler(s)
  BY <1>5, HandlerImplements
<1>6. CASE \E p \in Pids : Child(p)
  BY <1>6, ChildImplements
<1>. QED BY <1>2, <1>3, <1>4, <1>5, <1>6 DEF Next

\* The shell with its signals and handlers keeps the promises of JobControl:
\* a child gets one record, after it was forked, and loses it exactly once,
\* together with its pid and after its death, in whatever order fork, addjob,
\* the signals, the handlers and the built-in commands come.
THEOREM Implements == Spec => ImplementsJobControl
<1>1. Init => Abstract!Init
  BY InitImplements
<1>2. IInv /\ IInv' /\ [Next]_vars => [Abstract!Next]_(Abstract!avars)
  BY StepImplements DEF AbsVars, Abstract!avars
<1>. QED BY <1>1, <1>2, Invariance, PTL DEF Spec, ImplementsJobControl, Abstract!Spec

=============================================================================
