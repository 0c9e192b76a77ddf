----------------------------- MODULE TestShell -----------------------------
(***************************************************************************)
(* The shell under test, tsh, as runtrace sees it: it reads a line, evaluates *)
(* it, waits for a foreground command, and prompts; a handler runs between    *)
(* two steps of its main program and writes what it has to say before the      *)
(* main program goes on.  Module Tsh has the finer steps.  Here the shell may *)
(* also hang or die, as a shell under test may.                             *)
(***************************************************************************)
EXTENDS TestPrograms

\* The main program goes on when the handler has written everything.
Main(pc) == shell = pc /\ notes = <<>> /\ ~hung

Goto(pc) == shell' = pc

EmitPrompt ==
  /\ Main("prompt")
  /\ ToOutput(PROMPT)
  /\ Goto("read")
  /\ UNCHANGED <<toShell, syncs, signals, cmd, writes, notes, caught, list, nextjid, hung, proc>>

\* A datagram of no bytes is the end of the file.
ReadLine ==
  /\ Main("read")
  /\ toShell # <<>>
  /\ toShell' = Tail(toShell)
  /\ cmd' = Head(toShell)
  /\ IF Head(toShell) = EndOfFile
     THEN ToOutput(NEWLINE) /\ Goto("dead")
     ELSE Goto("eval") /\ UNCHANGED toDriver
  /\ UNCHANGED <<syncs, signals, writes, notes, caught, list, nextjid, hung, proc>>

\* Builtin commands end by writing texts and going back to the prompt.
Says(texts) == writes' = texts /\ Goto("write")

\* A write of the handler, or of the main program.
WriteNote ==
  /\ notes # <<>>
  /\ shell # "dead"
  /\ ~hung
  /\ ToOutput(Head(notes))
  /\ notes' = Tail(notes)
  /\ UNCHANGED <<toShell, syncs, signals, shell, cmd, writes, caught, list, nextjid, hung, proc>>

WriteText ==
  /\ Main("write")
  /\ writes # <<>>
  /\ ToOutput(Head(writes))
  /\ writes' = Tail(writes)
  /\ UNCHANGED <<toShell, syncs, signals, shell, cmd, notes, caught, list, nextjid, hung, proc>>

EndEval ==
  /\ Main("write")
  /\ writes = <<>>
  /\ Goto("prompt")
  /\ UNCHANGED <<socketVars, cmd, writes, notes, caught, list, nextjid, hung, proc>>

Builtins == {"jobs", "fg", "bg", "kill", "kill group", "quit"}

\* fork to addjob, with the signals blocked.
Launch ==
  /\ Main("eval")
  /\ cmd.prog \notin Builtins
  /\ LET p == Len(proc) + 1
         state == IF cmd.bg THEN "BG" ELSE "FG"
     IN  /\ proc' = Append(proc, Process(cmd.prog, p, Code(cmd.prog), cmd.text))
         /\ IF Full(list) THEN UNCHANGED <<list, nextjid>>
            ELSE /\ list' = addjob(list, nextjid, p, state)
                 /\ nextjid' = NextJidAfterAdd(nextjid)
  /\ Goto(IF cmd.bg THEN "announce" ELSE "waitfg")
  /\ UNCHANGED <<socketVars, cmd, writes, notes, caught, hung>>

jidOf(p) == IF getjobpid(list, p) = NULL THEN 0 ELSE list[getjobpid(list, p)].jid

\* The job launched last; its ID is looked up with SIGCHLD unblocked.
Announce ==
  /\ Main("announce")
  /\ LET p == Max({q \in Procs : proc[q].leader = q})
     IN  Says(<<Id(jidOf(p)), cmd.text, NEWLINE>>)
  /\ UNCHANGED <<socketVars, cmd, notes, caught, list, nextjid, hung, proc>>

waitfg ==
  /\ Main("waitfg")
  /\ fgpid(list) = 0
  /\ Goto("prompt")
  /\ UNCHANGED <<socketVars, cmd, writes, notes, caught, list, nextjid, hung, proc>>

Entry(i) == <<Id(list[i].jid), Text(list[i].state), proc[list[i].pid].text>>

listjobs ==
  /\ Main("eval")
  /\ cmd.prog = "jobs"
  /\ Says(FlattenSeq([k \in 1 .. MAXJOBS |->
                        IF list[k - 1].pid = 0 THEN <<>> ELSE Entry(k - 1)]))
  /\ UNCHANGED <<socketVars, cmd, notes, caught, list, nextjid, hung, proc>>

Quit ==
  /\ Main("eval")
  /\ cmd.prog = "quit"
  /\ Goto("dead")
  /\ UNCHANGED <<socketVars, cmd, writes, notes, caught, list, nextjid, hung, proc>>

\* The commands that name a job.
NoSuchJob ==
  /\ Main("eval")
  /\ cmd.prog \in {"fg", "bg", "kill", "kill group"}
  /\ getjobjid(list, cmd.arg) = NULL
  /\ Says(<<cmd.text, Text(": No such job")>>)
  /\ UNCHANGED <<socketVars, cmd, notes, caught, list, nextjid, hung, proc>>

OnJob(i, p) ==
  /\ Main("eval")
  /\ i = getjobjid(list, cmd.arg)
  /\ i # NULL
  /\ p = list[i].pid

Foreground ==
  /\ cmd.prog = "fg"
  /\ \E i \in Slots : \E p \in Procs :
       /\ OnJob(i, p)
       /\ proc' = Continue(Group(p))
       /\ list' = setstate(list, i, "FG")
  /\ Goto("waitfg")
  /\ UNCHANGED <<socketVars, cmd, writes, notes, caught, nextjid, hung>>

Background ==
  /\ cmd.prog = "bg"
  /\ \E i \in Slots : \E p \in Procs :
       /\ OnJob(i, p)
       /\ proc' = Continue(Group(p))
       /\ list' = setstate(list, i, "BG")
       /\ Says(<<Id(list[i].jid), proc[p].text>>)
  /\ UNCHANGED <<socketVars, cmd, notes, caught, nextjid, hung>>

\* The process itself, or its group; the shell's own pid is printed first.
KillJob ==
  /\ cmd.prog \in {"kill", "kill group"}
  /\ \E i \in Slots : \E p \in Procs :
       /\ OnJob(i, p)
       /\ proc' = Post(IF cmd.prog = "kill" THEN {p} ELSE Group(p), "TERM")
  /\ Says(<<Text("pid pid")>>)
  /\ UNCHANGED <<socketVars, cmd, notes, caught, list, nextjid, hung>>
--------------------------------------------------------------------------
\* The handlers.  sigchld_handler blocks everything while it reports a child
\* and changes the list, so that both are one step.
Handles == shell # "dead" /\ notes = <<>> /\ ~hung

Fate(report) ==
  CASE report = "killed" -> <<Text("terminated by signal")>>
    [] report = "stopped" -> <<Text("stopped by signal")>>
    [] report = "exited" -> <<>>

Reap(p) ==
  /\ Handles
  /\ proc[p].leader = p
  /\ proc[p].report # "none"
  /\ notes' = IF proc[p].report = "exited" THEN <<>>
              ELSE <<Id(jidOf(p))>> \o Fate(proc[p].report)
  /\ proc' = [proc EXCEPT ![p].report = "none"]
  /\ IF ~Tracked(list, p) THEN UNCHANGED <<list, nextjid>>
     ELSE IF Alive(p)
     THEN list' = setstate(list, getjobpid(list, p), "ST") /\ UNCHANGED nextjid
     ELSE list' = deletejob(list, p) /\ nextjid' = NextJidAfterDelete(deletejob(list, p))
  /\ UNCHANGED <<socketVars, shell, cmd, writes, caught, hung>>

\* Variant: the handler forwards to every job of the list.
ForwardTargetsAll(p) == {q \in Procs : Alive(q) /\ Tracked(list, proc[q].leader)}
ForwardTargets(p) == Group(p)

Forward(sig) ==
  /\ Handles
  /\ sig \in caught
  /\ caught' = caught \ {sig}
  /\ proc' = IF fgpid(list) = 0 THEN proc ELSE Post(ForwardTargets(fgpid(list)), sig)
  /\ UNCHANGED <<socketVars, shell, cmd, writes, notes, list, nextjid, hung>>

MainStep ==
  \/ EmitPrompt \/ ReadLine \/ WriteText \/ EndEval
  \/ Launch \/ Announce \/ waitfg \/ listjobs \/ Quit
  \/ NoSuchJob \/ Foreground \/ Background \/ KillJob

HandlerStep ==
  \/ WriteNote
  \/ \E p \in Procs : Reap(p)
  \/ \E sig \in caught : Forward(sig)
=============================================================================
