------------------------------ MODULE JobList ------------------------------
(***************************************************************************)
(* The job list of the tiny shell (src/tshlab/tsh.c): a fixed array of     *)
(* job_t entries and the routines that read and change it.  Every routine  *)
(* is an operator from a job list (and nextjid) to a value or to the list  *)
(* it leaves behind; module Tsh says which process calls it and when.      *)
(*                                                                         *)
(* The command line kept in an entry is not modelled: nothing but the      *)
(* listing reads it.                                                       *)
(***************************************************************************)
EXTENDS Integers, FiniteSetsExt

CONSTANTS
  MAXJOBS,  \* entries of the array
  Pids      \* process ids the kernel hands out; 0 marks a free entry

ASSUME MaxJobsAssumption == MAXJOBS \in Nat \ {0}
ASSUME PidsAssumption == 0 \notin Pids

Slots == 0 .. MAXJOBS - 1

\* What a routine that returns a struct job_t * returns when it finds none.
NULL == -1

JobStates == {"UNDEF", "FG", "BG", "ST"}

Job == [pid : Pids \cup {0}, jid : Nat, state : JobStates]

ClearedJob == [pid |-> 0, jid |-> 0, state |-> "UNDEF"]

initjobs == [i \in Slots |-> ClearedJob]

(***************************************************************************)
(* Searches.  Each scans the array from entry 0 and stops at the first     *)
(* match.                                                                  *)
(***************************************************************************)
WithPid(jl, p) == {i \in Slots : jl[i].pid = p}
WithJid(jl, j) == {i \in Slots : jl[i].jid = j}
InState(jl, s) == {i \in Slots : jl[i].state = s}

\* Variant: entry 0 is taken for "not found".
FirstOfSkipsEntryZero(S) == IF S \ {0} = {} THEN NULL ELSE Min(S \ {0})

FirstOf(S) == IF S = {} THEN NULL ELSE Min(S)

getjobpid(jl, p) == FirstOf(WithPid(jl, p))

getjobjid(jl, j) == IF j < 1 THEN NULL ELSE FirstOf(WithJid(jl, j))

\* Variant: any entry that is not stopped passes for the foreground job.
fgpidOfRunning(jl) ==
  LET running == {i \in Slots : jl[i].pid # 0 /\ jl[i].state # "ST"}
  IN  IF running = {} THEN 0 ELSE jl[Min(running)].pid

\* The pid stored in the first entry whose state is FG, 0 if there is none.
\* The pid itself is 0 when that entry was cleared and marked FG afterwards.
fgpid(jl) == IF InState(jl, "FG") = {} THEN 0
                                       ELSE jl[Min(InState(jl, "FG"))].pid

maxjid(jl) == Max({0} \cup {jl[i].jid : i \in Slots})

(***************************************************************************)
(* Updates.  addjob takes the first free entry and hands out nextjid,      *)
(* which goes back to 1 after MAXJOBS whatever is still in the list;       *)
(* deletejob recomputes it from the entries that are left.                 *)
(***************************************************************************)
Full(jl) == WithPid(jl, 0) = {}

\* Variant: takes the first entry that is not in the foreground.
addjobOverwrites(jl, nj, p, s) ==
  LET i == Min({k \in Slots : jl[k].state # "FG"})
  IN  [jl EXCEPT ![i] = [pid |-> p, jid |-> nj, state |-> s]]

addjob(jl, nj, p, s) ==
  [jl EXCEPT ![Min(WithPid(jl, 0))] = [pid |-> p, jid |-> nj, state |-> s]]

\* Variant: wraps to 0, which getjobjid never finds.
NextJidWrapsToZero(nj) == IF nj + 1 > MAXJOBS THEN 0 ELSE nj + 1

NextJidAfterAdd(nj) == IF nj + 1 > MAXJOBS THEN 1 ELSE nj + 1

setstate(jl, i, s) == [jl EXCEPT ![i].state = s]

Tracked(jl, p) == WithPid(jl, p) # {}

\* Variant: forgets the state and leaves the pid.
deletejobKeepsPid(jl, p) == setstate(jl, Min(WithPid(jl, p)), "UNDEF")

\* Variant: forgets the job and leaves its ID.
deletejobKeepsJid(jl, p) ==
  LET i == Min(WithPid(jl, p))
  IN  [jl EXCEPT ![i] = [ClearedJob EXCEPT !.jid = jl[i].jid]]

deletejob(jl, p) == [jl EXCEPT ![Min(WithPid(jl, p))] = ClearedJob]

\* Variant: the largest ID in the list, not the one after it.
NextJidIsMax(jl) == maxjid(jl)

NextJidAfterDelete(jl) == maxjid(jl) + 1

=============================================================================
