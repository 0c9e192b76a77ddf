---------------------------- MODULE TestPrograms ----------------------------
(***************************************************************************)
(* The shell lab's test programs as runtrace runs them: processes of the      *)
(* shell under test that share its standard output, a socket to runtrace,     *)
(* and another socket to synchronise on (SYNCFD).  Every send is one          *)
(* datagram and every receive takes one.                                    *)
(***************************************************************************)
EXTENDS JobList, SequencesExt

CONSTANT QueueLen   \* datagrams a socket holds before a sender waits

ASSUME QueueLenAssumption == QueueLen \in Nat \ {0}

VARIABLES toShell,         \* lines on their way to the shell's standard input
          toDriver,        \* what was written to standard output and not read yet
          syncs, signals,  \* datagrams of the jobs to the driver and back
          shell,           \* where the shell is
          cmd,             \* the command line it evaluates
          writes, notes,   \* texts its main program and its handler have yet to write
          caught,          \* signals for the shell that its handlers have yet to take
          list, nextjid,   \* its job list
          proc,            \* the processes it started, in the order of their start
          hung             \* the shell does not go on, or has died of a fault

shellVars == <<shell, cmd, writes, notes, caught, list, nextjid, hung>>
socketVars == <<toShell, toDriver, syncs, signals>>
envVars == <<socketVars, shellVars, proc>>

\* Texts: one datagram each.
PROMPT == <<"tsh> ">>
NEWLINE == <<"\n">>
Id(jid) == <<"[jid] (pid) ", jid>>
Text(kind) == <<kind>>

EndOfFile == [prog |-> "EOF", bg |-> FALSE, arg |-> 0, text |-> NEWLINE]
--------------------------------------------------------------------------
(***************************************************************************)
(* The test programs, instruction by instruction, and what they do when they *)
(* take a SIGTERM; the others die of it.                                    *)
(***************************************************************************)
myspin1 == <<"sync", "await", "exit">>
myspin2 == <<"sync", "await", "exit">>
myterm1 == <<"sync", "await", "loop">>
myterm2 == <<"sync", "await", "loop">>
mysplit == <<"fork", "join", "exit">>
SplitChild == <<"sync", "await", "exit">>
myintp == <<"int shell", "loop">>
mytstpp == <<"tstp shell", "loop">>
myints == <<"int self", "loop">>
mytstps == <<"tstp self", "exit">>
myenv == <<"write", "exit">>

Code(prog) ==
  CASE prog = "myspin1" -> myspin1 [] prog = "myspin2" -> myspin2
    [] prog = "myterm1" -> myterm1 [] prog = "myterm2" -> myterm2
    [] prog = "myintp"  -> myintp  [] prog = "mytstpp" -> mytstpp
    [] prog = "myints"  -> myints  [] prog = "mytstps" -> mytstps
    [] prog = "mysplit" -> mysplit [] prog = "myenv"   -> myenv
    [] prog = "echo"    -> <<"write", "exit">>
    [] prog = "pkill"   -> <<"term all", "exit">>

myspin1_sigterm == <<"say", "await", "sync", "exit">>
\* Variant: the handler waits for the driver before it tells it.
myterm1_sigtermAwaitsFirst == <<"say", "await", "sync", "exit">>
myterm1_sigterm == <<"say", "sync", "await", "exit">>
myterm2_sigterm == <<"say", "sync", "await", "return">>

\* The handler a program installs for SIGTERM.
Sigterm(prog) ==
  CASE prog = "myspin1" -> myspin1_sigterm
    [] prog = "myterm1" -> myterm1_sigterm
    [] prog = "myterm2" -> myterm2_sigterm
    [] OTHER -> <<>>

Process(prog, leader, code, text) ==
  [prog |-> prog, leader |-> leader, code |-> code, text |-> text,
   state |-> "running", report |-> "none", pending |-> {}, handling |-> FALSE]

Procs == DOMAIN proc
Alive(p) == proc[p].state # "dead"
Group(p) == {q \in Procs : proc[q].leader = p /\ Alive(q)}

Dead(r, how) == [r EXCEPT !.state = "dead", !.report = how]
Post(S, sig) == [q \in Procs |-> IF q \in S THEN [proc[q] EXCEPT !.pending = @ \cup {sig}] ELSE proc[q]]

\* SIGCONT: a stop that was not reported yet will not be.
Continue(S) ==
  [q \in Procs |-> IF q \in S /\ proc[q].state = "stopped"
                   THEN [proc[q] EXCEPT !.state = "running", !.report = "none"]
                   ELSE proc[q]]

\* A process takes a signal before its next instruction.
Taken(r, sig) ==
  LET rest == [r EXCEPT !.pending = @ \ {sig}]
  IN  CASE sig = "TERM" /\ Sigterm(r.prog) # <<>> ->
             [rest EXCEPT !.code = Sigterm(r.prog) \o @, !.handling = TRUE]
        [] sig = "TSTP" -> [rest EXCEPT !.state = "stopped", !.report = "stopped"]
        [] OTHER        -> Dead(rest, "killed")

TakeSignal(p) ==
  /\ proc[p].state = "running"
  /\ \E sig \in proc[p].pending :
       /\ ~(sig = "TERM" /\ proc[p].handling)
       /\ proc' = [proc EXCEPT ![p] = Taken(@, sig)]
  /\ UNCHANGED <<socketVars, shellVars>>

CanTake(r) == \E sig \in r.pending : ~(sig = "TERM" /\ r.handling)

At(p, instruction) ==
  /\ proc[p].state = "running"
  /\ ~CanTake(proc[p])
  /\ proc[p].code # <<>>
  /\ Head(proc[p].code) = instruction

Goes(p) == [proc EXCEPT ![p].code = Tail(@)]

ToOutput(text) ==
  /\ Len(toDriver) < QueueLen
  /\ toDriver' = Append(toDriver, text)

Write(p) ==
  /\ \/ At(p, "write") /\ ToOutput(proc[p].text)
     \/ At(p, "say") /\ ToOutput(<<"SIGTERM in", proc[p].prog>>)
  /\ proc' = Goes(p)
  /\ UNCHANGED <<toShell, syncs, signals, shellVars>>

Sync(p) ==
  /\ At(p, "sync")
  /\ syncs < QueueLen
  /\ syncs' = syncs + 1
  /\ proc' = Goes(p)
  /\ UNCHANGED <<toShell, toDriver, signals, shellVars>>

\* Any job that waits may get the datagram.  A receive that a signal interrupts
\* is restarted behind the handler, unless the datagram was there already.
Await(p) ==
  /\ proc[p].state = "running"
  /\ proc[p].code # <<>>
  /\ Head(proc[p].code) = "await"
  /\ signals > 0
  /\ signals' = signals - 1
  /\ proc' = Goes(p)
  /\ UNCHANGED <<toShell, toDriver, syncs, shellVars>>

Exit(p) ==
  /\ At(p, "exit")
  /\ proc' = [proc EXCEPT ![p] = Dead(@, "exited")]
  /\ UNCHANGED <<socketVars, shellVars>>

Return(p) ==
  /\ At(p, "return")
  /\ proc' = [Goes(p) EXCEPT ![p].handling = FALSE]
  /\ UNCHANGED <<socketVars, shellVars>>

ForkChild(p) ==
  /\ At(p, "fork")
  /\ proc' = Append(Goes(p), Process(proc[p].prog, p, SplitChild, proc[p].text))
  /\ UNCHANGED <<socketVars, shellVars>>

Join(p) ==
  /\ At(p, "join")
  /\ Group(p) = {p}
  /\ proc' = Goes(p)
  /\ UNCHANGED <<socketVars, shellVars>>

SignalShell(p) ==
  /\ \/ At(p, "int shell") /\ caught' = caught \cup {"INT"}
     \/ At(p, "tstp shell") /\ caught' = caught \cup {"TSTP"}
  /\ proc' = Goes(p)
  /\ UNCHANGED <<socketVars, shell, cmd, writes, notes, list, nextjid, hung>>

SignalSelf(p) ==
  /\ \/ At(p, "int self") /\ proc' = [Goes(p) EXCEPT ![p].pending = {"INT"}]
     \/ At(p, "tstp self") /\ proc' = [Goes(p) EXCEPT ![p].pending = {"TSTP"}]
  /\ UNCHANGED <<socketVars, shellVars>>

Pkill(p) ==
  /\ At(p, "term all")
  /\ LET sent == Post({q \in Procs : Alive(q) /\ proc[q].prog = "myspin1"}, "TERM")
     IN  proc' = [sent EXCEPT ![p].code = Tail(@)]
  /\ UNCHANGED <<socketVars, shellVars>>

ProcessStep(p) ==
  TakeSignal(p) \/ Write(p) \/ Sync(p) \/ Await(p) \/ Exit(p) \/ Return(p) \/ ForkChild(p) \/ Join(p)
    \/ SignalShell(p) \/ SignalSelf(p) \/ Pkill(p)
=============================================================================
