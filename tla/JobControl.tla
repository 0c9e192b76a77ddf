----------------------------- MODULE JobControl -----------------------------
(***************************************************************************)
(* What the job list of the tiny shell promises, without signals, handlers *)
(* or the interleavings they cause (src/tshlab/tsh.c, the comments on eval *)
(* and sigchld_handler): a child is recorded after it is started, changes  *)
(* its record only while it has one, and is forgotten once, in one step    *)
(* with its record, after it died.  Its pid is used again only then.       *)
(***************************************************************************)
CONSTANT Pids

VARIABLES
  life,  \* what has become of each child
  rec    \* what the job list says of it

avars == <<life, rec>>

Init ==
  /\ life = [p \in Pids |-> "none"]
  /\ rec = [p \in Pids |-> "none"]

\* eval forks p.
Launch(p) ==
  /\ life[p] = "none" /\ rec[p] = "none"
  /\ life' = [life EXCEPT ![p] = "live"]
  /\ UNCHANGED rec

\* eval adds it to the list, perhaps after it died.
Record(p, s) ==
  /\ life[p] # "none" /\ rec[p] = "none"
  /\ rec' = [rec EXCEPT ![p] = s]
  /\ UNCHANGED life

\* The user moves a job to the foreground or the background.
Move(p, s) ==
  /\ rec[p] # "none"
  /\ rec' = [rec EXCEPT ![p] = s]
  /\ UNCHANGED life

\* The shell learns that a child that has not died, or has since, stopped.
Stop(p) ==
  /\ life[p] # "none" /\ rec[p] # "none"
  /\ rec' = [rec EXCEPT ![p] = "ST"]
  /\ UNCHANGED life

Die(p) ==
  /\ life[p] = "live"
  /\ life' = [life EXCEPT ![p] = "dead"]
  /\ UNCHANGED rec

\* The shell forgets a dead child and its record.
Forget(p) ==
  /\ life[p] = "dead"
  /\ life' = [life EXCEPT ![p] = "none"]
  /\ rec' = [rec EXCEPT ![p] = "none"]

Next ==
  \E p \in Pids :
    \/ Launch(p) \/ Stop(p) \/ Die(p) \/ Forget(p)
    \/ \E s \in {"FG", "BG"} : Record(p, s) \/ Move(p, s)

Spec == Init /\ [][Next]_avars

=============================================================================
