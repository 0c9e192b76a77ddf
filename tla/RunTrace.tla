------------------------------ MODULE RunTrace ------------------------------
(***************************************************************************)
(* runtrace.c: the test driver runs a shell on a trace.  It sends the shell   *)
(* the trace's command lines, prints what the shell and its jobs write up to  *)
(* the next prompt (NEXT), synchronises with the jobs (WAIT, SIGNAL) and      *)
(* sends the shell signals.  It gives every answer DRIVER_TIMEOUT seconds;     *)
(* every job ends after JOB_TIMEOUT.                                        *)
(*                                                                         *)
(* Time is not counted.  In mode "prompt" everything happens before a timer   *)
(* would expire; in mode "slow" a timer may expire whenever it runs; in mode  *)
(* "faulty" the shell may fail as well.                                     *)
(***************************************************************************)
EXTENDS TestShell

CONSTANT Traces   \* names of traces
CONSTANT Lines    \* for each trace, its lines [op, cmd]

\* No command is written like the prompt, so that no job prints one.
ASSUME LinesAssumption ==
  \A t \in Traces :
    /\ Len(Lines[t]) \in Nat
    /\ \A i \in 1 .. Len(Lines[t]) : Lines[t][i].cmd.text # PROMPT

VARIABLES trace,   \* the trace that is run
          mode,
          driver,  \* where runtrace is
          at,      \* the line of the trace it is at
          shown,   \* what it has printed
          code,    \* its exit status
          sent, prompts,   \* history: lines sent, prompts that ended a NEXT
          late,            \* history: it went on without the first prompt
          expired          \* history: some timer has expired

driverVars == <<trace, mode, driver, at, shown, code, sent, prompts, late, expired>>
vars == <<envVars, driverVars>>

Init ==
  /\ trace \in Traces
  /\ mode \in {"prompt", "slow", "faulty"}
  /\ toShell = <<>> /\ toDriver = <<>> /\ syncs = 0 /\ signals = 0
  /\ shell = "prompt" /\ cmd = EndOfFile /\ writes = <<>> /\ notes = <<>> /\ caught = {}
  /\ list = initjobs /\ nextjid = 1 /\ proc = <<>> /\ hung = FALSE
  /\ driver = "start" /\ at = 1 /\ shown = <<>> /\ code = 0
  /\ sent = 0 /\ prompts = 0 /\ late = FALSE /\ expired = FALSE

Quits(status) == driver' = "exited" /\ code' = status
Stays == UNCHANGED <<trace, mode, driver, code>>
History == UNCHANGED <<sent, prompts, late, expired>>

\* Variant: whatever begins like the prompt is one.
IsPromptByPrefix(text) == Head(text) = Head(PROMPT)
IsPrompt(text) == text = PROMPT

\* recv takes the next datagram.
Received(text) ==
  /\ toDriver # <<>>
  /\ text = Head(toDriver)
  /\ toDriver' = Tail(toDriver)

FirstPrompt ==
  /\ driver = "start"
  /\ \E text \in ToSet(toDriver) :
       /\ Received(text)
       /\ IF IsPrompt(text) THEN driver' = "trace" /\ UNCHANGED code ELSE Quits(1)
  /\ History
  /\ UNCHANGED <<toShell, syncs, signals, shellVars, proc, trace, mode, at, shown>>

\* The line runtrace is at.
Line(op) ==
  /\ driver = "trace"
  /\ at <= Len(Lines[trace])
  /\ Lines[trace][at].op = op

Done == at' = at + 1

\* Variant: WAIT goes on when no job has reported yet.
WaitPolls ==
  /\ Line("WAIT")
  /\ syncs' = 0
  /\ Done
  /\ Stays /\ History
  /\ UNCHANGED <<toShell, toDriver, signals, shellVars, proc, shown>>
Wait ==
  /\ Line("WAIT")
  /\ syncs > 0
  /\ syncs' = syncs - 1
  /\ Done
  /\ Stays /\ History
  /\ UNCHANGED <<toShell, toDriver, signals, shellVars, proc, shown>>

\* next_prompt
Next_Prompt ==
  /\ Line("NEXT")
  /\ \E text \in ToSet(toDriver) :
       /\ Received(text)
       /\ IF IsPrompt(text)
          THEN Done /\ prompts' = prompts + 1 /\ UNCHANGED shown
          ELSE shown' = Append(shown, text) /\ UNCHANGED <<at, prompts>>
  /\ Stays
  /\ UNCHANGED <<toShell, syncs, signals, shellVars, proc, sent, late, expired>>

Signal ==
  /\ Line("SIGNAL")
  /\ signals < QueueLen
  /\ signals' = signals + 1
  /\ Done
  /\ Stays /\ History
  /\ UNCHANGED <<toShell, toDriver, syncs, shellVars, proc, shown>>

\* SIGINT and SIGTSTP go to the shell, which nobody has waited for yet.
KillShell(op, sig) ==
  /\ Line(op)
  /\ caught' = IF shell = "dead" THEN caught ELSE caught \cup {sig}
  /\ Done
  /\ Stays /\ History
  /\ UNCHANGED <<socketVars, shell, cmd, writes, notes, list, nextjid, hung, proc, shown>>

\* Somebody still holds the other end of the shell's socket.
Connected == shell # "dead" \/ \E p \in Procs : Alive(p)

SendLine ==
  /\ Line("send")
  /\ Connected
  /\ Len(toShell) < QueueLen
  /\ toShell' = Append(toShell, Lines[trace][at].cmd)
  /\ Done
  /\ sent' = sent + 1
  /\ Stays
  /\ UNCHANGED <<toDriver, syncs, signals, shellVars, proc, shown, prompts, late, expired>>

SendFails ==
  /\ Line("send")
  /\ ~Connected
  /\ Quits(1)
  /\ History
  /\ UNCHANGED <<envVars, trace, mode, at, shown>>

\* A datagram without bytes; nobody looks whether it could be sent.
SendEof ==
  /\ driver = "trace"
  /\ at > Len(Lines[trace])
  /\ Len(toShell) < QueueLen
  /\ toShell' = IF Connected THEN Append(toShell, EndOfFile) ELSE toShell
  /\ driver' = "end"
  /\ History
  /\ UNCHANGED <<toDriver, syncs, signals, shellVars, proc, trace, mode, code, at, shown>>

\* clean kills the shell and the test programs it knows by name.
Cleaned == {"myspin1", "myspin2", "mysplit", "myintp", "myints", "mytstpp", "mytstps", "myenv"}
clean ==
  /\ shell' = "dead"
  /\ proc' = [p \in Procs |-> IF Alive(p) /\ proc[p].prog \in Cleaned
                              THEN Dead(proc[p], "killed") ELSE proc[p]]

ShellEnds ==
  /\ driver = "end"
  /\ shell = "dead"
  /\ clean
  /\ Quits(0)
  /\ History
  /\ UNCHANGED <<socketVars, cmd, writes, notes, caught, list, nextjid, hung,
                 trace, mode, at, shown>>
--------------------------------------------------------------------------
\* Timers.  readable() returns 0 when nothing has come in time.
Expires == mode # "prompt" /\ expired' = TRUE

NoFirstPrompt ==
  /\ driver = "start"
  /\ toDriver = <<>>
  /\ Expires
  /\ driver' = "trace"
  /\ late' = TRUE
  /\ UNCHANGED <<envVars, trace, mode, at, shown, code, sent, prompts>>

NoSync ==
  /\ Line("WAIT")
  /\ syncs = 0
  /\ Expires
  /\ Quits(1)
  /\ UNCHANGED <<envVars, trace, mode, at, shown, sent, prompts, late>>

\* main exits with status 0 when next_prompt returns 0.
NoPrompt ==
  /\ Line("NEXT")
  /\ toDriver = <<>>
  /\ Expires
  /\ Quits(0)
  /\ UNCHANGED <<envVars, trace, mode, at, shown, sent, prompts, late>>

sigalrm_handler ==
  /\ driver = "end"
  /\ shell # "dead"
  /\ Expires
  /\ clean
  /\ Quits(1)
  /\ UNCHANGED <<socketVars, cmd, writes, notes, caught, list, nextjid, hung,
                 trace, mode, at, shown, sent, prompts, late>>

\* A job's own alarm; mytstps, echo and pkill have none.
JobAlarm(p) ==
  /\ proc[p].state = "running"
  /\ proc[p].prog \notin {"mytstps", "echo", "myenv", "pkill"}
  /\ Expires
  /\ proc' = [proc EXCEPT ![p] = Dead(@, "exited")]
  /\ UNCHANGED <<socketVars, shellVars, trace, mode, driver, at, shown, code, sent, prompts, late>>

\* A shell under test may stop answering, or die.
Fault ==
  /\ mode = "faulty"
  /\ ~hung
  /\ shell # "dead"
  /\ driver # "exited"
  /\ hung' = TRUE
  /\ shell' \in {shell, "dead"}
  /\ UNCHANGED <<socketVars, cmd, writes, notes, caught, list, nextjid, proc, driverVars>>
--------------------------------------------------------------------------
DriverStep ==
  \/ FirstPrompt \/ Wait \/ Next_Prompt \/ Signal
  \/ KillShell("SIGINT", "INT") \/ KillShell("SIGTSTP", "TSTP")
  \/ SendLine \/ SendFails \/ SendEof \/ ShellEnds

EnvStep ==
  /\ driver # "exited"
  /\ MainStep \/ HandlerStep \/ \E p \in Procs : ProcessStep(p)
  /\ UNCHANGED driverVars

Timer == NoFirstPrompt \/ NoSync \/ NoPrompt \/ sigalrm_handler
Alarm == driver # "exited" /\ \E p \in Procs : JobAlarm(p)

Next == DriverStep \/ EnvStep \/ Timer \/ Alarm \/ Fault

\* Whoever can go on does; a timer that runs expires in the end.
Spec == Init /\ [][Next]_vars /\ WF_vars(Next)
--------------------------------------------------------------------------
CONSTANT Expected   \* for each trace, what the reference shell makes runtrace print

\* When runtrace has seen as many prompts as it has sent lines, the shell is
\* done with all of them: what it prints before the next prompt belongs to the
\* next line.  The exception is a first prompt that came too late: runtrace goes
\* on without it and takes it for the answer to the first line.
InStep ==
  driver = "trace" /\ prompts = sent /\ ~late =>
    /\ shell \in {"read", "dead"}
    /\ toShell = <<>>
    /\ PROMPT \notin ToSet(toDriver)

\* Without line ends, which the filter of sdriver removes.
Filtered == SelectSeq(shown, LAMBDA text : text # NEWLINE)

\* A run in which no timer expires prints what the reference shell prints: the
\* order of the shell's and the jobs' steps never shows, so that sdriver may
\* compare two runs text by text.
OutputAsExpected == driver = "exited" /\ ~expired /\ ~hung => Filtered = Expected[trace]

\* A ctrl-c or ctrl-z that is on its way to the shell finds a foreground job
\* there that has started.
SignalFindsJob ==
  caught # {} /\ ~expired => \E p \in Procs : p = fgpid(list) /\ Alive(p)

\* Every run ends: traces wait only for what comes, also when the programs are
\* as slow as the timers allow and when the shell hangs, and in a run that is
\* fast enough no timer is needed.
Terminates == <>(driver = "exited")
=============================================================================
