----------------------------- MODULE MCRunTrace -----------------------------
(***************************************************************************)
(* The traces trace03.txt to trace30.txt, one of each kind, without the lines *)
(* that list processes with ps, for TLC, and what the reference shell prints *)
(* for them.                                                                *)
(***************************************************************************)
EXTENDS RunTrace

Do(op) == [op |-> op, cmd |-> EndOfFile]
WAIT == Do("WAIT")
NEXT == Do("NEXT")
SIGNAL == Do("SIGNAL")
SIGINT == Do("SIGINT")
SIGTSTP == Do("SIGTSTP")

Command(prog, bg, arg, text) == [op |-> "send", cmd |-> [prog |-> prog, bg |-> bg, arg |-> arg, text |-> text]]
fg_(prog) == Command(prog, FALSE, 0, Text(prog))
bg_(prog) == Command(prog, TRUE, 0, Text(prog))
echo(prog) == Command("echo", FALSE, 0, PROMPT \o <<prog>>)
builtin(prog, arg) == Command(prog, FALSE, arg, Text(prog))
jobs == builtin("jobs", 0)
quit == builtin("quit", 0)

\* A command with the echo that the traces have in front of it.
Echoed(line) == <<echo(line.cmd.prog), NEXT, line, NEXT>>
Shown(line) == <<PROMPT \o <<line.cmd.prog>>>>
Listed(jid, state, prog) == <<Id(jid), Text(state), Text(prog)>>
Killed(jid) == <<Id(jid), Text("terminated by signal")>>
Stopped(jid) == <<Id(jid), Text("stopped by signal")>>

TraceLines == [
  t03 |-> <<fg_("myspin1"), WAIT, SIGNAL, quit>>,
  t05 |-> Echoed(bg_("myspin1")) \o <<WAIT, SIGNAL, echo("quit"), NEXT, quit>>,
  t10 |-> Echoed(bg_("myspin1")) \o <<WAIT>> \o Echoed(fg_("pkill"))
            \o <<SIGNAL, SIGNAL, WAIT, echo("Child took SIGTERM"), NEXT, quit>>,
  t11 |-> Echoed(fg_("myints")) \o <<quit>>,
  t13 |-> Echoed(bg_("myspin1")) \o <<WAIT>> \o Echoed(fg_("myintp")) \o Echoed(jobs) \o <<SIGNAL, quit>>,
  t15 |-> Echoed(fg_("mytstpp")) \o Echoed(builtin("bg", 1)) \o Echoed(jobs) \o <<quit>>,
  t18 |-> <<echo("myspin1"), NEXT, bg_("myspin1"), WAIT, NEXT>> \o Echoed(fg_("mytstps")) \o Echoed(jobs)
            \o Echoed(builtin("fg", 2)) \o <<SIGNAL, quit>>,
  t19 |-> <<echo("mysplit"), NEXT, fg_("mysplit"), WAIT, SIGINT, NEXT, quit>>,
  t20 |-> <<echo("mysplit"), NEXT, fg_("mysplit"), WAIT, SIGTSTP, NEXT>> \o Echoed(jobs) \o <<quit>>,
  t26 |-> <<builtin("kill", 1), NEXT, quit>>,
  t27 |-> <<bg_("myterm2"), NEXT, WAIT, SIGNAL, builtin("kill", 1), WAIT, SIGNAL, quit>>,
  t28 |-> <<bg_("myterm1"), NEXT, WAIT, SIGNAL, builtin("kill group", 1), WAIT, SIGNAL, quit>>,
  eof |-> <<fg_("myenv"), NEXT>>]

Reference == [
  t03 |-> <<>>,
  t05 |-> Shown(bg_("myspin1")) \o <<Id(1), Text("myspin1")>> \o Shown(fg_("quit")),
  t10 |-> Shown(bg_("myspin1")) \o <<Id(1), Text("myspin1")>> \o Shown(fg_("pkill"))
            \o <<<<"SIGTERM in", "myspin1">>>> \o Shown(fg_("Child took SIGTERM")),
  t11 |-> Shown(fg_("myints")) \o Killed(1),
  t13 |-> Shown(bg_("myspin1")) \o <<Id(1), Text("myspin1")>> \o Shown(fg_("myintp")) \o Killed(2)
            \o Shown(jobs) \o Listed(1, "BG", "myspin1"),
  t15 |-> Shown(fg_("mytstpp")) \o Stopped(1) \o Shown(builtin("bg", 1)) \o <<Id(1), Text("mytstpp")>>
            \o Shown(jobs) \o Listed(1, "BG", "mytstpp"),
  t18 |-> Shown(bg_("myspin1")) \o <<Id(1), Text("myspin1")>> \o Shown(fg_("mytstps")) \o Stopped(2)
            \o Shown(jobs) \o Listed(1, "BG", "myspin1") \o Listed(2, "ST", "mytstps") \o Shown(builtin("fg", 2)),
  t19 |-> Shown(fg_("mysplit")) \o Killed(1),
  t20 |-> Shown(fg_("mysplit")) \o Stopped(1) \o Shown(jobs) \o Listed(1, "ST", "mysplit"),
  t26 |-> <<Text("kill"), Text(": No such job")>>,
  t27 |-> <<Id(1), Text("myterm2")>>,
  t28 |-> <<Id(1), Text("myterm1")>>,
  eof |-> <<Text("myenv")>>]

TraceNames == DOMAIN TraceLines
=============================================================================
