-------------------------------- MODULE Tsh --------------------------------
(***************************************************************************)
(* The tiny shell (src/tshlab/tsh.c) as a concurrent program: one thread   *)
(* of main/eval/waitfg, the three signal handlers that may interrupt it    *)
(* and one another at any unblocked moment, and the children it forks.     *)
(*                                                                         *)
(* The kernel (fork, kill, waitpid, signal delivery) and the programs the  *)
(* children run are not code of this repository: they are modelled from    *)
(* how tsh.c uses them and from the semantics those calls have.            *)
(*                                                                         *)
(* Grain.  A step of the shell is what lies between two of its accesses to *)
(* state that somebody else can change: the job list (main and handlers)   *)
(* and the kernel's process table.  Code that runs with every signal       *)
(* blocked is one step.                                                    *)
(***************************************************************************)
EXTENDS JobList, Sequences

CONSTANTS
  Commands,  \* the kinds of command line the user may type
  JidBound   \* no new job is started once nextjid exceeds it (bounds TLC)

ASSUME JidBoundAssumption == JidBound \in Nat \ {0}

VARIABLES
  \* memory of the shell
  jobs,     \* job_list
  nextjid,  \* next job ID to allocate
  pc,       \* where the main thread is
  cmd,      \* locals of eval: op, the job pointer or pid it holds, prec_one
  \* the kernel's view of the shell
  blocked,  \* the main thread's signal mask
  pending,  \* signals posted to the shell and not delivered
  stack,    \* handlers that are running, the innermost first
  hpc,      \* per signal: where its handler is, "idle" if not running
  hpid,     \* per signal: the handler's local pid
  \* the kernel's process table
  proc,     \* state of each child
  \* history
  dropped   \* children that addjob had no entry for

vars == <<jobs, nextjid, pc, cmd, blocked, pending, stack, hpc, hpid, proc,
          dropped>>

shell  == <<jobs, nextjid, dropped>>
mainv  == <<pc, cmd, blocked>>
handlv == <<stack, hpc, hpid>>

Sigs == {"CHLD", "INT", "TSTP"}

\* What eval blocks around fork and addjob (the variant leaves SIGCHLD out).
mask_oneWithoutChld == Sigs \ {"CHLD"}

mask_one == Sigs

AllCommands == {"run", "runbg", "fg", "bg", "kill", "killpg", "jobs", "quit"}

ASSUME CommandsAssumption == Commands \subseteq AllCommands

\* A forked child is still in the shell's process group; "stopping" is a
\* stop no waitpid has reported yet; "resumed" got SIGCONT and has not yet
\* been scheduled to tell its parent.
ProcStates == {"free", "forked", "running", "stopping", "stopped", "resumed",
               "exited", "killed"}

PCs == {"read", "fork", "add", "unblock", "waitfg", "suspend", "asleep",
        "signal", "setstate", "list", "liststate", "exit"}

HPCs == {"idle", "start", "gone", "stop", "send"}

NoCmd == [op |-> "none", job |-> NULL, pid |-> 0, prec |-> {}]

Locals == [op : Commands \cup {"none"}, job : {NULL} \cup 0 .. MAXJOBS,
           pid : Pids \cup {0}, prec : SUBSET Sigs]

TypeOK ==
  /\ jobs \in [Slots -> Job]
  /\ nextjid \in Nat \ {0}
  /\ pc \in PCs
  /\ cmd \in Locals
  /\ blocked \in SUBSET Sigs
  /\ pending \in SUBSET Sigs
  /\ stack \in Seq(Sigs)
  /\ hpc \in [Sigs -> HPCs]
  /\ hpid \in [Sigs -> Pids \cup {0}]
  /\ proc \in [Pids -> ProcStates]
  /\ dropped \in SUBSET Pids

Init ==
  /\ jobs = initjobs
  /\ nextjid = 1
  /\ pc = "read"
  /\ cmd = NoCmd
  /\ blocked = {}
  /\ pending = {}
  /\ stack = <<>>
  /\ hpc = [s \in Sigs |-> "idle"]
  /\ hpid = [s \in Sigs |-> 0]
  /\ proc = [p \in Pids |-> "free"]
  /\ dropped = {}

-----------------------------------------------------------------------------
(***************************************************************************)
(* The kernel: what a signal does to a child, and who it reaches.          *)
(***************************************************************************)
Dead(p)    == proc[p] \in {"exited", "killed"}
Stopped(p) == proc[p] \in {"stopping", "stopped"}

\* kill(-p, sig) finds somebody only once the child has done setpgid(0,0);
\* a dead leader that nobody has waited for still makes the call succeed.
GroupExists(p) == p # 0 /\ proc[p] \notin {"free", "forked"}
ProcessExists(p) == p # 0 /\ proc[p] # "free"

\* The states a child in state s may be in after signal sig reached it: a
\* program may catch the signal, and a stopped one keeps it pending.
AfterSignal(s, sig) ==
  CASE sig = "CONT" /\ s \in {"stopping", "stopped"} -> {"resumed"}
    [] sig \in {"INT", "TERM"} /\ s = "running" -> {"running", "killed"}
    [] sig = "TERM" /\ s = "forked"             -> {"forked", "killed"}
    [] sig = "TSTP" /\ s = "running"            -> {"running", "stopping"}
    [] OTHER                                    -> {s}

\* Child p moves to state s; the parent gets SIGCHLD when it dies or stops.
Move(p, s) ==
  /\ proc' = [proc EXCEPT ![p] = s]
  /\ pending' = IF s # proc[p] /\ s \in {"exited", "killed", "stopping"}
                THEN pending \cup {"CHLD"} ELSE pending

Signal(p, sig) == \E s \in AfterSignal(proc[p], sig) : Move(p, s)

(***************************************************************************)
(* The main thread runs while no handler is active and the shell has not   *)
(* exited.                                                                 *)
(***************************************************************************)
At(l) == stack = <<>> /\ pc = l

\* eval returns and main reads the next line.
Done == pc' = "read" /\ cmd' = NoCmd

\* The user types a command that forks.  eval blocks SIGCHLD, SIGINT and
\* SIGTSTP before it forks and remembers the mask it had.
TypeRun(op) ==
  /\ At("read")
  /\ op \in Commands \cap {"run", "runbg"}
  /\ nextjid <= JidBound
  /\ cmd' = [NoCmd EXCEPT !.op = op, !.prec = blocked]
  /\ blocked' = blocked \cup mask_one
  /\ pc' = "fork"
  /\ UNCHANGED <<shell, pending, handlv, proc>>

\* Fork: unix_error ends the shell when there is no process to be had.
Fork ==
  /\ At("fork")
  /\ \/ \E p \in Pids :
          /\ proc[p] = "free"
          /\ proc' = [proc EXCEPT ![p] = "forked"]
          /\ cmd' = [cmd EXCEPT !.pid = p]
          /\ pc' = "add"
     \/ pc' = "exit" /\ UNCHANGED <<proc, cmd>>
  /\ UNCHANGED <<shell, blocked, pending, handlv>>

\* Variant: every job is added as the foreground job.
LaunchAlwaysFg(op) == "FG"

LaunchState(op) == IF op = "runbg" THEN "BG" ELSE "FG"

\* addjob gives up, and leaves nextjid alone, when the list is full.
AddJob ==
  /\ At("add")
  /\ IF Full(jobs)
     THEN dropped' = dropped \cup {cmd.pid} /\ UNCHANGED <<jobs, nextjid>>
     ELSE /\ jobs' = addjob(jobs, nextjid, cmd.pid, LaunchState(cmd.op))
          /\ nextjid' = NextJidAfterAdd(nextjid)
          /\ UNCHANGED dropped
  /\ pc' = "unblock"
  /\ UNCHANGED <<cmd, blocked, pending, handlv, proc>>

Unblock ==
  /\ At("unblock")
  /\ blocked' = cmd.prec
  /\ IF cmd.op = "run" THEN pc' = "waitfg" /\ UNCHANGED cmd ELSE Done
  /\ UNCHANGED <<shell, pending, handlv, proc>>

(***************************************************************************)
(* waitfg tests fgpid with every signal deliverable, and only then goes to *)
(* sleep.  A signal that is delivered in between does not end the sleep.   *)
(***************************************************************************)
WaitfgTest ==
  /\ At("waitfg")
  /\ IF fgpid(jobs) # 0 THEN pc' = "suspend" /\ UNCHANGED cmd ELSE Done
  /\ UNCHANGED <<shell, blocked, pending, handlv, proc>>

WaitfgSuspend ==
  /\ At("suspend")
  /\ pc' = "asleep"
  /\ UNCHANGED <<shell, cmd, blocked, pending, handlv, proc>>

(***************************************************************************)
(* fg, bg and kill.  Getjob looks every argument up with getjobjid, also   *)
(* one that is written as a PID; eval keeps the pointer it returns.        *)
(***************************************************************************)
Arguments == [form : {"jid"}, n : 0 .. JidBound + 1] \cup
             [form : {"pid"}, n : Pids]

\* PIDs that are not numbers stand for numbers no job ID reaches.
Getjob(arg) == IF arg.form = "jid" THEN getjobjid(jobs, arg.n)
                                   ELSE FirstOf(WithJid(jobs, arg.n))

TypeJob(op, arg) ==
  /\ At("read")
  /\ op \in Commands \cap {"fg", "bg", "kill", "killpg"}
  /\ Getjob(arg) # NULL
  /\ cmd' = [NoCmd EXCEPT !.op = op, !.job = Getjob(arg)]
  /\ pc' = "signal"
  /\ UNCHANGED <<shell, blocked, pending, handlv, proc>>

\* The pid is read from the entry now: it is 0 when a handler has cleared the
\* entry since Getjob, and a kill to 0 goes to the shell's own group.
SendSignal ==
  LET p      == jobs[cmd.job].pid
      sig    == IF cmd.op \in {"fg", "bg"} THEN "CONT" ELSE "TERM"
      exists == IF cmd.op = "kill" THEN ProcessExists(p) ELSE GroupExists(p)
  IN  /\ At("signal")
      /\ \/ exists /\ Signal(p, sig)
         \/ ~exists /\ UNCHANGED <<proc, pending>>
      /\ CASE sig = "CONT" /\ (exists \/ p = 0) -> pc' = "setstate" /\ UNCHANGED cmd
           [] sig = "TERM" /\ p = 0 -> pc' = "exit" /\ UNCHANGED cmd
           [] OTHER -> Done
      /\ UNCHANGED <<shell, blocked, handlv>>

SetState ==
  /\ At("setstate")
  /\ jobs' = setstate(jobs, cmd.job, IF cmd.op = "fg" THEN "FG" ELSE "BG")
  /\ IF cmd.op = "fg" THEN pc' = "waitfg" /\ UNCHANGED cmd ELSE Done
  /\ UNCHANGED <<nextjid, dropped, blocked, pending, handlv, proc>>

(***************************************************************************)
(* jobs.  Open's unix_error ends the shell when the output file cannot be  *)
(* opened; listjobs reads the pid of an entry and later its state.         *)
(***************************************************************************)
TypeJobs ==
  /\ At("read")
  /\ "jobs" \in Commands
  /\ \/ pc' = "list" /\ cmd' = [NoCmd EXCEPT !.op = "jobs", !.job = 0]
     \/ pc' = "exit" /\ UNCHANGED cmd
  /\ UNCHANGED <<shell, blocked, pending, handlv, proc>>

ListPid ==
  /\ At("list")
  /\ \/ cmd.job = MAXJOBS /\ Done
     \/ /\ cmd.job < MAXJOBS /\ jobs[cmd.job].pid = 0
        /\ cmd' = [cmd EXCEPT !.job = @ + 1] /\ UNCHANGED pc
     \/ /\ cmd.job < MAXJOBS /\ jobs[cmd.job].pid # 0
        /\ pc' = "liststate" /\ UNCHANGED cmd
  /\ UNCHANGED <<shell, blocked, pending, handlv, proc>>

ListState ==
  /\ At("liststate")
  /\ pc' = "list"
  /\ cmd' = [cmd EXCEPT !.job = @ + 1]
  /\ UNCHANGED <<shell, blocked, pending, handlv, proc>>

\* quit, or end of file on the standard input.
Quit ==
  /\ At("read")
  /\ "quit" \in Commands
  /\ pc' = "exit"
  /\ UNCHANGED <<shell, cmd, blocked, pending, handlv, proc>>

Main ==
  \/ \E op \in Commands : TypeRun(op)
  \/ \E op \in Commands, arg \in Arguments : TypeJob(op, arg)
  \/ TypeJobs
  \/ Quit

Eval ==
  \/ Fork \/ AddJob \/ Unblock \/ WaitfgTest \/ WaitfgSuspend
  \/ SendSignal \/ SetState \/ ListPid \/ ListState

-----------------------------------------------------------------------------
(***************************************************************************)
(* Signal handlers.  Signal() installs them with an empty sa_mask, so a    *)
(* handler blocks its own signal only and may interrupt the others.        *)
(***************************************************************************)
\* Variant: waitfg tests fgpid once.
WakeAndReturn(l) == IF l = "asleep" THEN "read" ELSE l

\* sigsuspend returns when a handler has run; waitfg tests fgpid again.
Wake(l) == IF l = "asleep" THEN "waitfg" ELSE l

Deliver(s) ==
  /\ pc # "exit"
  /\ s \in pending \ blocked
  /\ hpc[s] = "idle"
  /\ pending' = pending \ {s}
  /\ stack' = <<s>> \o stack
  /\ hpc' = [hpc EXCEPT ![s] = "start"]
  /\ pc' = Wake(pc)
  /\ UNCHANGED <<shell, cmd, blocked, hpid, proc>>

Running(s, l) == pc # "exit" /\ stack # <<>> /\ Head(stack) = s /\ hpc[s] = l

Return(s) ==
  /\ stack' = Tail(stack)
  /\ hpc' = [hpc EXCEPT ![s] = "idle"]
  /\ hpid' = [hpid EXCEPT ![s] = 0]

\* waitpid(-1, &status, WNOHANG|WUNTRACED) returns a child that died, which is
\* reaped, or one that stopped and was not reported yet ...
Waitpid(p) ==
  /\ Running("CHLD", "start")
  /\ \/ /\ Dead(p)
        /\ proc' = [proc EXCEPT ![p] = "free"]
        /\ hpc' = [hpc EXCEPT !["CHLD"] = "gone"]
     \/ /\ proc[p] = "stopping"
        /\ proc' = [proc EXCEPT ![p] = "stopped"]
        /\ hpc' = [hpc EXCEPT !["CHLD"] = "stop"]
  /\ hpid' = [hpid EXCEPT !["CHLD"] = p]
  /\ UNCHANGED <<shell, mainv, pending, stack>>

\* ... or 0 or -1, which ends the loop.
WaitpidNone ==
  /\ Running("CHLD", "start")
  /\ \A p \in Pids : ~Dead(p) /\ proc[p] # "stopping"
  /\ Return("CHLD")
  /\ UNCHANGED <<shell, mainv, pending, proc>>

\* Variant: the handler returns after one child.
OneChildOnly == Return("CHLD")

\* The while loop calls waitpid again.
NextChild ==
  /\ hpc' = [hpc EXCEPT !["CHLD"] = "start"]
  /\ hpid' = [hpid EXCEPT !["CHLD"] = 0]
  /\ UNCHANGED stack

\* With every signal blocked: the entry of a dead child is deleted, the
\* entry of a stopped one is marked.  The loop goes on.
ReapJob ==
  LET p == hpid["CHLD"] IN
  /\ Running("CHLD", "gone")
  /\ IF Tracked(jobs, p)
     THEN jobs' = deletejob(jobs, p) /\ nextjid' = NextJidAfterDelete(jobs')
     ELSE UNCHANGED <<jobs, nextjid>>
  /\ dropped' = dropped \ {p}
  /\ NextChild
  /\ UNCHANGED <<mainv, pending, proc>>

StopJob ==
  LET i == getjobpid(jobs, hpid["CHLD"]) IN
  /\ Running("CHLD", "stop")
  /\ jobs' = IF i # NULL THEN setstate(jobs, i, "ST") ELSE jobs
  /\ NextChild
  /\ UNCHANGED <<nextjid, dropped, mainv, pending, proc>>

\* sigint_handler and sigtstp_handler: find the foreground job ...
FindFg(s) ==
  /\ Running(s, "start")
  /\ IF fgpid(jobs) # 0
     THEN /\ hpid' = [hpid EXCEPT ![s] = fgpid(jobs)]
          /\ hpc' = [hpc EXCEPT ![s] = "send"]
          /\ UNCHANGED stack
     ELSE Return(s)
  /\ UNCHANGED <<shell, mainv, pending, proc>>

\* ... and send the signal on to its process group, if there is one.
ForwardToFg(s) ==
  /\ Running(s, "send")
  /\ IF GroupExists(hpid[s]) THEN Signal(hpid[s], s)
                             ELSE UNCHANGED <<proc, pending>>
  /\ Return(s)
  /\ UNCHANGED <<shell, mainv>>

Handler(s) ==
  \/ s = "CHLD" /\ (WaitpidNone \/ ReapJob \/ StopJob
                     \/ \E p \in Pids : Waitpid(p))
  \/ s # "CHLD" /\ (FindFg(s) \/ ForwardToFg(s))

-----------------------------------------------------------------------------
(***************************************************************************)
(* Environment: the keyboard and the children.                             *)
(***************************************************************************)
Keyboard(s) ==
  /\ pc # "exit"
  /\ s \in {"INT", "TSTP"} \ pending
  /\ pending' = pending \cup {s}
  /\ UNCHANGED <<shell, mainv, handlv, proc>>

\* The child leaves the shell's process group and runs its program.
ChildStarts(p) == proc[p] = "forked" /\ Move(p, "running")

\* It exits (a failed redirection or execve makes it exit, too), is killed by
\* a signal, or stops itself.
ChildExits(p) == proc[p] \in {"forked", "running"} /\ Move(p, "exited")

ChildIsKilled(p) ==
  /\ proc[p] \in {"forked", "running", "stopping", "stopped"}
  /\ Move(p, "killed")

ChildStops(p) == proc[p] = "running" /\ Move(p, "stopping")

\* Somebody other than the shell continues a stopped child.
ChildContinued(p) == Stopped(p) /\ Move(p, "resumed")

\* A continued child is scheduled again and tells its parent.
ChildResumes(p) ==
  /\ proc[p] = "resumed"
  /\ proc' = [proc EXCEPT ![p] = "running"]
  /\ pending' = pending \cup {"CHLD"}

Child(p) ==
  /\ \/ ChildStarts(p) \/ ChildExits(p) \/ ChildIsKilled(p)
     \/ ChildStops(p) \/ ChildContinued(p) \/ ChildResumes(p)
  /\ UNCHANGED <<shell, mainv, handlv>>

Next ==
  \/ Main
  \/ Eval
  \/ \E s \in Sigs : Deliver(s) \/ Handler(s)
  \/ \E s \in {"INT", "TSTP"} : Keyboard(s)
  \/ \E p \in Pids : Child(p)

Spec == Init /\ [][Next]_vars

\* The kernel schedules the shell: a signal that can be delivered is, and
\* code that is interrupted again and again still gets on in between (strong
\* fairness).  waitpid does not pass over the same dead child for ever.
\* Nothing is assumed of the user and of the programs.
Fairness ==
  /\ SF_vars(Eval)
  /\ \A s \in Sigs : WF_vars(Deliver(s)) /\ SF_vars(Handler(s))
  /\ \A p \in Pids : SF_vars(Waitpid(p))

FairSpec == Spec /\ Fairness

-----------------------------------------------------------------------------
(***************************************************************************)
(* Properties.                                                             *)
(***************************************************************************)

\* The reaper has taken p from the kernel and not yet from the list.
HeldByReaper(p) == hpc["CHLD"] = "gone" /\ hpid["CHLD"] = p

\* eval has forked p and not yet called addjob.
BeingLaunched(p) == pc = "add" /\ cmd.pid = p

Waiting == pc \in {"waitfg", "suspend", "asleep"}

\* No child is lost: whatever the order of fork, addjob, the child's death and
\* SIGCHLD, a child the kernel still has is in the job list, is about to be
\* added, or is one addjob had no entry for.
Recorded ==
  \A p \in Pids : proc[p] # "free" =>
    Tracked(jobs, p) \/ BeingLaunched(p) \/ p \in dropped

\* No entry outlives its child: a pid in the list belongs to a child that has
\* not been reaped, or sigchld_handler is about to delete it.  addjob after
\* the reaping would leave such an entry behind for good.
NoStaleEntry ==
  \A p \in Pids : Tracked(jobs, p) => proc[p] # "free" \/ HeldByReaper(p)

\* A pid the kernel uses again never meets an old entry: two entries have
\* different pids, so getjobpid, deletejob and pid2jid mean the same one.
UniquePids ==
  \A i, k \in Slots : jobs[i].pid = jobs[k].pid /\ jobs[i].pid # 0 => i = k

\* sigint_handler and sigtstp_handler use a pid they read before: by the time
\* of the kill, with sigchld_handler run in between or not, it is still that
\* of a foreground job, of one that stopped, or of nobody; never that of a
\* background job or of a new child.
ForwardOnlyToForeground ==
  \A s \in {"INT", "TSTP"} : hpc[s] = "send" =>
    LET p == hpid[s] IN
    \/ \E i \in WithPid(jobs, p) : jobs[i].state \in {"FG", "ST"}
    \/ ~Tracked(jobs, p) /\ proc[p] = "free"

\* "At most 1 job can be in the FG state": while fg is not used, the only
\* entry in the foreground is that of the command eval is waiting for, so
\* there is none at the prompt.
OneForeground ==
  \A i \in InState(jobs, "FG") : cmd.op = "run" /\ cmd.pid = jobs[i].pid

\* eval waits for a foreground command: it returns to the prompt only when
\* the child is gone from the list, is marked stopped there, or never had an
\* entry because the list was full.
RunIsWaitedFor ==
  [][cmd.op = "run" /\ Waiting /\ pc' = "read" =>
       \A i \in WithPid(jobs, cmd.pid) : jobs[i].state = "ST"]_vars

\* A stop waitpid has reported is in the list, or is being written there.
StopRecorded ==
  \A i \in Slots : jobs[i].pid # 0 /\ proc[jobs[i].pid] = "stopped" =>
    \/ jobs[i].state = "ST"
    \/ hpc["CHLD"] = "stop" /\ hpid["CHLD"] = jobs[i].pid

\* Every dead child is reaped although SIGCHLDs coalesce, unless the shell
\* exits first.
DeadAreReaped ==
  \A p \in Pids : Dead(p) ~> (proc[p] = "free" \/ pc = "exit")

\* addjob hands out an ID that is in use only after nextjid has wrapped: as
\* long as no job has an ID of MAXJOBS or more, the next ID is above all IDs
\* in the list, whatever deletejob took out before.
FreshUnlessWrapped ==
  \/ \A i \in Slots : jobs[i].jid < nextjid
  \/ \E i \in Slots : jobs[i].jid >= MAXJOBS

\* Every job in the list can be named: its ID is at least 1, the smallest
\* getjobjid looks for, also when a free entry was given a state meanwhile.
EveryJobIsNameable ==
  \A i \in Slots : jobs[i].pid # 0 <=> jobs[i].jid >= 1

\* waitfg returns once no job is in the foreground.
WaitfgReturns ==
  (pc = "asleep" /\ fgpid(jobs) = 0) ~> (pc # "asleep")

\* The shell implements the bookkeeping of module JobControl.
LifeOf(p) == CASE HeldByReaper(p) \/ Dead(p) -> "dead"
               [] ~HeldByReaper(p) /\ proc[p] = "free" -> "none"
               [] OTHER -> "live"

RecordOf(jl, p) == IF Tracked(jl, p) THEN jl[getjobpid(jl, p)].state
                                     ELSE "none"

life == [p \in Pids |-> LifeOf(p)]
rec  == [p \in Pids |-> RecordOf(jobs, p)]

Abstract == INSTANCE JobControl

\* Every step of the shell is a step of JobControl or leaves it alone.
ImplementsJobControl == Abstract!Spec

=============================================================================
