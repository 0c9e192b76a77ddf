--------------------------- MODULE RunTraceProofs ---------------------------
(***************************************************************************)
(* Proofs about runtrace, for every set of traces, whatever the shell and    *)
(* its jobs do and however late they do it: runtrace and the shell are in    *)
(* step when as many prompts have come back as lines were sent.  What the    *)
(* shell owes runtrace bounds what is under way: the lines it has not read,  *)
(* the one it evaluates and the prompts that runtrace has not seen.          *)
(***************************************************************************)
EXTENDS RunTrace, FiniteSetTheorems, SequenceTheorems, WellFoundedInduction, TLAPS

\* A sequence, and one in which the prompt does not occur.
IsSeq(s) == \E S : s \in Seq(S)
Silent(s) == \E S : PROMPT \notin S /\ s \in Seq(S)

PromptsAt(s) == {i \in DOMAIN s : s[i] = PROMPT}
Count(s) == Cardinality(PromptsAt(s))

-----------------------------------------------------------------------------
\* What is true of 0 and of the successor of each number it is true of.
LEMMA NatAreAll ==
  ASSUME NEW S, 0 \in S, \A n \in Nat : n \in S => n + 1 \in S
  PROVE  Nat \subseteq S
<1> SUFFICES ASSUME Nat \ S # {} PROVE FALSE
  OBVIOUS
<1>. DEFINE T == Nat \ S
<1>0. T \subseteq Nat /\ T # {}
  OBVIOUS
<1>. HIDE DEF T
<1>1. PICK n \in T : \A y \in T : ~ (<<y, n>> \in OpToRel(<, Nat))
  BY <1>0, NatLessThanWellFounded, WFMin
<1>2. n \in Nat /\ n \notin S
  BY DEF T
<1>3. n # 0 /\ n - 1 \in Nat /\ n - 1 < n /\ (n - 1) + 1 = n
  BY <1>2
<1>4. n - 1 \in T
  BY <1>2, <1>3 DEF T
<1>5. \A x, y \in Nat : x < y => <<x, y>> \in OpToRel(<, Nat)
  BY DEF OpToRel
<1>. QED BY <1>1, <1>2, <1>3, <1>4, <1>5, Zenon

\* The prompts in a sequence can be counted.
LEMMA PromptsCounted ==
  ASSUME NEW s, IsSeq(s)
  PROVE  /\ IsFiniteSet(PromptsAt(s))
         /\ Count(s) \in Nat
         /\ Count(s) = 0 => PROMPT \notin ToSet(s)
<1>1. PICK S : s \in Seq(S)
  BY DEF IsSeq
<1>2. Len(s) \in Nat /\ DOMAIN s = 1 .. Len(s)
  BY <1>1
<1>3. IsFiniteSet(1 .. Len(s))
  BY <1>2, FS_Interval
<1>4. PromptsAt(s) \subseteq 1 .. Len(s)
  BY <1>2 DEF PromptsAt
<1>5. IsFiniteSet(PromptsAt(s))
  BY <1>3, <1>4, FS_Subset
<1>6. Count(s) = 0 => PromptsAt(s) = {}
  BY <1>5, FS_EmptySet DEF Count
<1>7. PromptsAt(s) = {} => PROMPT \notin ToSet(s)
  BY DEF PromptsAt, ToSet
<1>. QED BY <1>5, <1>6, <1>7, FS_CardinalityType DEF Count

\* A text that is written.
LEMMA AppendCounts ==
  ASSUME NEW s, IsSeq(s), NEW x
  PROVE  /\ IsSeq(Append(s, x))
         /\ Len(s) \in Nat /\ Len(Append(s, x)) = Len(s) + 1
         /\ x # PROMPT => Count(Append(s, x)) = Count(s)
         /\ x = PROMPT => Count(Append(s, x)) = Count(s) + 1
<1>1. PICK S : s \in Seq(S)
  BY DEF IsSeq
<1>. DEFINE T == S \cup {x}
            t == Append(s, x)
<1>2. s \in Seq(T) /\ x \in T
  BY <1>1, SeqMonotonic
<1>. HIDE DEF T
<1>3. /\ t \in Seq(T) /\ Len(t) = Len(s) + 1
      /\ \A i \in 1 .. Len(s) : t[i] = s[i]
      /\ t[Len(s) + 1] = x
  BY <1>2, AppendProperties
<1>4. Len(s) \in Nat /\ DOMAIN s = 1 .. Len(s) /\ DOMAIN t = 1 .. (Len(s) + 1)
  BY <1>2, <1>3
<1>. HIDE DEF t
<1>5. IsFiniteSet(PromptsAt(s))
  BY <1>1, PromptsCounted DEF IsSeq
<1>6. CASE x # PROMPT
  <2>1. PromptsAt(t) = PromptsAt(s)
    BY <1>3, <1>4, <1>6 DEF PromptsAt
  <2>. QED BY <1>3, <1>4, <1>6, <2>1 DEF Count, IsSeq, t
<1>7. CASE x = PROMPT
  <2>1. PromptsAt(t) = PromptsAt(s) \cup {Len(s) + 1} /\ Len(s) + 1 \notin PromptsAt(s)
    BY <1>3, <1>4, <1>7 DEF PromptsAt
  <2>2. Count(t) = Count(s) + 1
    BY <1>5, <2>1, FS_AddElement DEF Count
  <2>3. IsSeq(t)
    BY <1>3 DEF IsSeq
  <2>. QED BY <1>3, <1>4, <1>7, <2>2, <2>3 DEF t
<1>. QED BY <1>6, <1>7

\* A text that is read.
LEMMA TailCounts ==
  ASSUME NEW s, IsSeq(s), s # <<>>
  PROVE  /\ IsSeq(Tail(s))
         /\ Len(s) \in Nat /\ Len(Tail(s)) = Len(s) - 1
         /\ Head(s) \in ToSet(s)
         /\ \A i \in DOMAIN Tail(s) : i + 1 \in DOMAIN s /\ Tail(s)[i] = s[i + 1]
         /\ Head(s) # PROMPT => Count(Tail(s)) = Count(s)
         /\ Head(s) = PROMPT => Count(Tail(s)) = Count(s) - 1
<1>1. PICK S : s \in Seq(S)
  BY DEF IsSeq
<1>. DEFINE t == Tail(s)
            P == PromptsAt(s) \ {1}
            Q == PromptsAt(t)
<1>2. /\ t \in Seq(S) /\ Len(t) = Len(s) - 1
      /\ \A i \in 1 .. Len(t) : t[i] = s[i + 1]
  BY <1>1, HeadTailProperties
<1>3. /\ Len(s) \in Nat \ {0} /\ DOMAIN s = 1 .. Len(s) /\ DOMAIN t = 1 .. (Len(s) - 1)
      /\ Head(s) = s[1]
  BY <1>1, <1>2, EmptySeq
<1>. HIDE DEF t
<1>4. IsFiniteSet(PromptsAt(s)) /\ Count(s) \in Nat
  BY <1>1, PromptsCounted DEF IsSeq
<1>5. IsFiniteSet(P)
  BY <1>4, FS_RemoveElement
<1>6. /\ \A i \in Q : i \in Nat /\ i + 1 \in P
      /\ \A k \in P : k \in Nat /\ k - 1 \in Q /\ (k - 1) + 1 = k
  BY <1>2, <1>3 DEF PromptsAt
<1>7. Cardinality(Q) = Cardinality(P)
  <2>. DEFINE f == [k \in P |-> k - 1]
  <2>. HIDE DEF P, Q
  <2>1. f \in [P -> Q]
    BY <1>6
  <2>2. \A a, b \in P : f[a] = f[b] => a = b
    BY <1>6
  <2>3. \A i \in Q : \E k \in P : f[k] = i
    <3> TAKE i \in Q
    <3>1. i + 1 \in P /\ f[i + 1] = i
      BY <1>6
    <3>. QED BY <3>1
  <2>4. f \in Bijection(P, Q)
    BY <2>1, <2>2, <2>3, Zenon DEF Bijection, Injection, Surjection, IsInjective
  <2>5. ExistsBijection(P, Q)
    BY <2>4 DEF ExistsBijection
  <2>. QED BY <1>5, <2>5, FS_Bijection
<1>8. CASE Head(s) # PROMPT
  <2>1. P = PromptsAt(s)
    BY <1>3, <1>8 DEF PromptsAt
  <2>2. Count(Tail(s)) = Count(s)
    BY <1>7, <2>1 DEF Count, t
  <2>. QED BY <1>2, <1>3, <1>8, <2>2 DEF IsSeq, ToSet, t
<1>9. CASE Head(s) = PROMPT
  <2>1. 1 \in PromptsAt(s)
    BY <1>3, <1>9 DEF PromptsAt
  <2>2. Cardinality(P) = Count(s) - 1
    BY <1>4, <2>1, FS_RemoveElement DEF Count
  <2>3. Count(Tail(s)) = Count(s) - 1
    BY <1>7, <2>2 DEF Count, t
  <2>. QED BY <1>2, <1>3, <1>9, <2>3 DEF IsSeq, ToSet, t
<1>. QED BY <1>8, <1>9

\* Texts to write that are not the prompt.
LEMMA SilentTail ==
  ASSUME NEW s, Silent(s), s # <<>>
  PROVE  Head(s) # PROMPT /\ Silent(Tail(s))
<1>1. PICK S : PROMPT \notin S /\ s \in Seq(S)
  BY DEF Silent
<1>. QED BY <1>1, HeadTailProperties DEF Silent

\* A list of lists of texts.
LEMMA FlattenedSeq ==
  ASSUME NEW T, NEW n \in Nat \ {0}, NEW s \in [1 .. n -> Seq(T)]
  PROVE  FlattenSeq(s) \in Seq(T)
<1>. DEFINE Flat(f) == f = [i \in 1 .. n |-> IF i = 1 THEN s[i] ELSE f[i - 1] \o s[i]]
            UpTo(k, f) == /\ f \in [1 .. k -> Seq(T)]
                          /\ \A i \in 1 .. k : f[i] = IF i = 1 THEN s[i] ELSE f[i - 1] \o s[i]
            K == {k \in Nat : k > n \/ \E f : UpTo(k, f)}
<1>1. Len(s) = n
  OBVIOUS
<1>a. ASSUME NEW k \in Nat, NEW f, UpTo(k, f)
      PROVE  /\ f = [i \in 1 .. k |-> f[i]]
             /\ \A i \in 1 .. k : f[i] \in Seq(T)
             /\ \A i \in 1 .. k : i = 1 => f[i] = s[1]
             /\ \A i \in 1 .. k : i # 1 => f[i] = f[i - 1] \o s[i]
  BY <1>a
<1>b. ASSUME NEW k \in Nat, k + 1 <= n, NEW f, UpTo(k, f)
      PROVE  \E g : UpTo(k + 1, g)
  <2>. DEFINE g == [i \in 1 .. (k + 1) |-> IF i = 1 THEN s[1] ELSE f[i - 1] \o s[i]]
  <2>1. \A i \in 1 .. (k + 1) : g[i] = IF i = 1 THEN s[1] ELSE f[i - 1] \o s[i]
    OBVIOUS
  <2>2. g = [i \in 1 .. (k + 1) |-> g[i]]
    OBVIOUS
  <2>. HIDE DEF UpTo, g
  <2>0. /\ \A i \in 1 .. k : f[i] \in Seq(T)
        /\ \A i \in 1 .. k : i = 1 => f[i] = s[1]
        /\ \A i \in 1 .. k : i # 1 => f[i] = f[i - 1] \o s[i]
    BY <1>a, <1>b, Zenon
  <2>3. ASSUME NEW i \in 1 .. (k + 1) PROVE g[i] \in Seq(T)
    <3>1. CASE i = 1
      BY <1>b, <2>1, <3>1
    <3>2. CASE i # 1
      <4>1. i - 1 \in 1 .. k /\ i \in 1 .. n
        BY <1>b, <3>2
      <4>2. f[i - 1] \in Seq(T) /\ s[i] \in Seq(T)
        BY <1>a, <1>b, <4>1
      <4>. QED BY <2>1, <3>2, <4>2, ConcatProperties
    <3>. QED BY <3>1, <3>2
  <2>4. ASSUME NEW i \in 1 .. k PROVE g[i] = f[i]
    <3>1. i \in 1 .. (k + 1)
      OBVIOUS
    <3>2. g[i] = IF i = 1 THEN s[1] ELSE f[i - 1] \o s[i]
      BY <2>1, <3>1
    <3>3. f[i] = IF i = 1 THEN s[1] ELSE f[i - 1] \o s[i]
      BY <2>0
    <3>. QED BY <3>2, <3>3
  <2>5. ASSUME NEW i \in 1 .. (k + 1)
        PROVE  g[i] = IF i = 1 THEN s[i] ELSE g[i - 1] \o s[i]
    <3>1. CASE i = 1
      BY <2>1, <3>1
    <3>2. CASE i # 1
      <4>1. i - 1 \in 1 .. k
        BY <3>2
      <4>. QED BY <2>1, <2>4, <3>2, <4>1
    <3>. QED BY <3>1, <3>2
  <2>6. g \in [1 .. (k + 1) -> Seq(T)]
    BY <2>2, <2>3
  <2>7. UpTo(k + 1, g)
    BY <2>5, <2>6 DEF UpTo
  <2>. QED BY <2>7
<1>2. 0 \in K
  <2>1. UpTo(0, [i \in 1 .. 0 |-> s[i]])
    <3>1. 1 .. 0 = {}
      OBVIOUS
    <3>. QED BY <3>1
  <2>. QED BY <2>1
<1>3. ASSUME NEW k \in Nat, k \in K PROVE k + 1 \in K
  <2>. HIDE DEF UpTo
  <2>1. CASE k + 1 > n
    BY <2>1
  <2>2. CASE k + 1 <= n
    <3>1. PICK f : UpTo(k, f)
      BY <1>3, <2>2
    <3>2. \E g : UpTo(k + 1, g)
      BY <1>b, <2>2, <3>1
    <3>. QED BY <3>2
  <2>. QED BY <2>1, <2>2
<1>. HIDE DEF K
<1>4. n \in K
  BY <1>2, <1>3, NatAreAll
<1>5. \E f : Flat(f)
  <2>1. PICK f : UpTo(n, f)
    <3>. HIDE DEF UpTo
    <3>. QED BY <1>4 DEF K
  <2>2. f = [i \in 1 .. n |-> f[i]]
    BY <1>a, <2>1
  <2>3. \A i \in 1 .. n : f[i] = IF i = 1 THEN s[i] ELSE f[i - 1] \o s[i]
    BY <2>1
  <2>4. Flat(f)
    BY <2>2, <2>3
  <2>. QED BY <2>4
<1>. DEFINE flatten == CHOOSE f : Flat(f)
<1>6. FlattenSeq(s) = flatten[n]
  BY <1>1 DEF FlattenSeq
<1>7. Flat(flatten)
  BY <1>5
<1>. HIDE DEF flatten
<1>8. \A i \in 1 .. n : flatten[i] = IF i = 1 THEN s[i] ELSE flatten[i - 1] \o s[i]
  BY <1>7
<1>. DEFINE J == {k \in Nat : k + 1 <= n => flatten[k + 1] \in Seq(T)}
<1>9. 0 \in J
  BY <1>8
<1>10. ASSUME NEW k \in Nat, k \in J PROVE k + 1 \in J
  <2>1. SUFFICES ASSUME (k + 1) + 1 <= n PROVE flatten[(k + 1) + 1] \in Seq(T)
    OBVIOUS
  <2>2. flatten[k + 1] \in Seq(T) /\ s[(k + 1) + 1] \in Seq(T)
    BY <1>10, <2>1
  <2>3. flatten[(k + 1) + 1] = flatten[k + 1] \o s[(k + 1) + 1]
    <3>1. (k + 1) + 1 \in 1 .. n /\ (k + 1) + 1 # 1 /\ ((k + 1) + 1) - 1 = k + 1
      BY <2>1
    <3>. QED BY <1>8, <3>1
  <2>. QED BY <2>2, <2>3, ConcatProperties
<1>. HIDE DEF J
<1>11. n - 1 \in J
  <2>1. Nat \subseteq J
    BY <1>9, <1>10, NatAreAll
  <2>. QED BY <2>1
<1>. QED BY <1>6, <1>11 DEF J

-----------------------------------------------------------------------------
(***************************************************************************)
(* What is known of the shell, its jobs and the sockets: nothing but the    *)
(* shell's main program writes the prompt.                                  *)
(***************************************************************************)
Reports == {"none", "killed", "stopped", "exited"}

ProcOK(r) ==
  /\ {"text", "report"} \subseteq DOMAIN r
  /\ r.text # PROMPT
  /\ r.report \in Reports

ProcsOK(ps) == IsSeq(ps) /\ \A p \in DOMAIN ps : ProcOK(ps[p])

\* An entry of the job list names a process.
EntryOK(e, ps) ==
  /\ {"pid", "state"} \subseteq DOMAIN e
  /\ e.state \in JobStates
  /\ e.pid = 0 \/ e.pid \in DOMAIN ps

ListOK(jl, ps) == DOMAIN jl = Slots /\ \A i \in Slots : EntryOK(jl[i], ps)

LinesOK(ls) == IsSeq(ls) /\ \A i \in DOMAIN ls : ls[i].text # PROMPT

EnvInv ==
  /\ ProcsOK(proc)
  /\ ListOK(list, proc)
  /\ LinesOK(toShell)
  /\ cmd.text # PROMPT
  /\ Silent(writes)
  /\ Silent(notes)
  /\ IsSeq(toDriver)

\* What is under way: lines that the shell has not read, the one it evaluates,
\* and prompts that runtrace has not read.
Busy == IF shell \in {"read", "dead"} THEN 0 ELSE 1
Load == Len(toShell) + Busy + Count(toDriver)

\* Texts that are not the prompt.
LEMMA OtherTexts ==
  /\ NEWLINE # PROMPT
  /\ \A j : Id(j) # PROMPT
  /\ \A prog : <<"SIGTERM in", prog>> # PROMPT
  /\ \A k \in JobStates \cup {": No such job", "pid pid", "terminated by signal",
                              "stopped by signal"} : Text(k) # PROMPT
<1>1. Len(PROMPT) = 1 /\ PROMPT[1] = "tsh> "
  BY DEF PROMPT
<1>2. NEWLINE[1] = "\n"
  BY DEF NEWLINE
<1>5. \A k : Text(k)[1] = k
  BY DEF Text
<1>6. "tsh> " \notin JobStates \cup {": No such job", "pid pid", "terminated by signal",
                                    "stopped by signal", "\n"}
  BY DEF JobStates
<1>7. NEWLINE # PROMPT
  BY <1>1, <1>2, <1>6
<1>8. ASSUME NEW k \in JobStates \cup {": No such job", "pid pid", "terminated by signal",
                                       "stopped by signal"}
      PROVE  Text(k) # PROMPT
  BY <1>1, <1>5, <1>6
<1>9. (\A j : Id(j) # PROMPT) /\ \A prog : <<"SIGTERM in", prog>> # PROMPT
  BY DEF Id, PROMPT
<1>10. \A k \in JobStates \cup {": No such job", "pid pid", "terminated by signal",
                                "stopped by signal"} : Text(k) # PROMPT
  BY <1>8
<1>. QED BY <1>7, <1>9, <1>10

\* Short lists of texts.
LEMMA ShortLists ==
  /\ Silent(<<>>)
  /\ \A a : a # PROMPT => Silent(<<a>>)
  /\ \A a, b : a # PROMPT /\ b # PROMPT => Silent(<<a, b>>)
  /\ \A a, b, c : a # PROMPT /\ b # PROMPT /\ c # PROMPT => Silent(<<a, b, c>>)
<1>1. <<>> \in Seq({}) /\ PROMPT \notin {}
  BY EmptySeq
<1>2. ASSUME NEW a, a # PROMPT PROVE <<a>> \in Seq({a}) /\ PROMPT \notin {a}
  BY <1>2
<1>3. ASSUME NEW a, NEW b, a # PROMPT, b # PROMPT
      PROVE  <<a, b>> \in Seq({a, b}) /\ PROMPT \notin {a, b}
  BY <1>3
<1>4. ASSUME NEW a, NEW b, NEW c, a # PROMPT, b # PROMPT, c # PROMPT
      PROVE  <<a, b, c>> \in Seq({a, b, c}) /\ PROMPT \notin {a, b, c}
  BY <1>4
<1>. QED BY <1>1, <1>2, <1>3, <1>4, Zenon DEF Silent

\* Two lists of one text.
LEMMA Concat2 ==
  ASSUME NEW a, NEW b
  PROVE  <<a>> \o <<b>> = <<a, b>>
<1>1. <<a>> \in Seq({a, b}) /\ <<b>> \in Seq({a, b}) /\ <<a, b>> \in Seq({a, b})
  OBVIOUS
<1>. DEFINE c == <<a>> \o <<b>>
<1>2. c \in Seq({a, b}) /\ Len(c) = 2 /\ c[1] = a /\ c[2] = b
  BY <1>1, ConcatProperties
<1>. HIDE DEF c
<1>3. Len(c) = Len(<<a, b>>) /\ \A i \in 1 .. 2 : c[i] = <<a, b>>[i]
  BY <1>2
<1>4. c = <<a, b>>
  BY <1>1, <1>2, <1>3, SeqEqual
<1>. QED BY <1>4 DEF c

\* The same processes, changed.
LEMMA ChangedProcs ==
  ASSUME NEW ps, ProcsOK(ps), NEW qs, qs = [p \in DOMAIN ps |-> qs[p]],
         \A p \in DOMAIN ps : ProcOK(qs[p])
  PROVE  ProcsOK(qs) /\ DOMAIN qs = DOMAIN ps
<1>1. PICK S : ps \in Seq(S)
  BY DEF ProcsOK, IsSeq
<1>2. Len(ps) \in Nat /\ DOMAIN ps = 1 .. Len(ps)
  BY <1>1
<1>. DEFINE T == {qs[p] : p \in DOMAIN ps}
            n == Len(ps)
<1>3. qs \in [1 .. n -> T] /\ n \in Nat
  BY <1>2
<1>4. qs \in Seq(T)
  BY <1>3, SeqDef
<1>5. DOMAIN qs = DOMAIN ps
  BY <1>2, <1>3
<1>. QED BY <1>4, <1>5, Zenon DEF ProcsOK, IsSeq

\* A process that is started.
LEMMA StartedProcs ==
  ASSUME NEW ps, ProcsOK(ps), NEW r, ProcOK(r)
  PROVE  /\ ProcsOK(Append(ps, r))
         /\ DOMAIN ps \subseteq DOMAIN Append(ps, r)
         /\ Len(ps) + 1 \in DOMAIN Append(ps, r)
<1>1. PICK S : ps \in Seq(S)
  BY DEF ProcsOK, IsSeq
<1>. DEFINE T == S \cup {r}
            qs == Append(ps, r)
<1>2. ps \in Seq(T) /\ r \in T
  BY <1>1, SeqMonotonic
<1>. HIDE DEF T
<1>3. /\ qs \in Seq(T) /\ Len(qs) = Len(ps) + 1
      /\ \A i \in 1 .. Len(ps) : qs[i] = ps[i]
      /\ qs[Len(ps) + 1] = r
  BY <1>2, AppendProperties
<1>4. Len(ps) \in Nat /\ DOMAIN ps = 1 .. Len(ps) /\ DOMAIN qs = 1 .. (Len(ps) + 1)
  BY <1>2, <1>3
<1>. HIDE DEF qs
<1>5. \A p \in DOMAIN qs : ProcOK(qs[p])
  <2>1. \A p \in DOMAIN qs : p \in DOMAIN ps \/ p = Len(ps) + 1
    BY <1>4
  <2>2. \A p \in DOMAIN ps : qs[p] = ps[p] /\ ProcOK(ps[p])
    BY <1>3, <1>4 DEF ProcsOK
  <2>. QED BY <1>3, <2>1, <2>2
<1>6. IsSeq(qs)
  BY <1>3 DEF IsSeq
<1>. QED BY <1>4, <1>5, <1>6 DEF ProcsOK, qs

\* What the operators on processes and on the list leave.
LEMMA OneProcChanged ==
  ASSUME NEW r, ProcOK(r)
  PROVE  /\ \A x : ProcOK([r EXCEPT !.code = x])
         /\ \A x : ProcOK([r EXCEPT !.pending = x])
         /\ \A x : ProcOK([r EXCEPT !.handling = x])
         /\ \A x \in Reports : ProcOK([r EXCEPT !.report = x])
         /\ \A x \in Reports : ProcOK(Dead(r, x))
         /\ \A x \in Reports : ProcOK([r EXCEPT !.state = "running", !.report = x])
         /\ \A sig : ProcOK(Taken(r, sig))
<1>1. \A x : ProcOK([r EXCEPT !.code = x])
  BY DEF ProcOK
<1>2. \A x : ProcOK([r EXCEPT !.pending = x])
  BY DEF ProcOK
<1>3. \A x : ProcOK([r EXCEPT !.handling = x])
  BY DEF ProcOK
<1>4. \A x \in Reports : ProcOK([r EXCEPT !.report = x])
  BY DEF ProcOK
<1>5. ASSUME NEW q, ProcOK(q), NEW x \in Reports, NEW y
      PROVE  ProcOK([q EXCEPT !.state = y, !.report = x])
  BY <1>5 DEF ProcOK
<1>6. ASSUME NEW sig PROVE ProcOK(Taken(r, sig))
  <2>. DEFINE rest == [r EXCEPT !.pending = @ \ {sig}]
  <2>1. ProcOK(rest)
    BY <1>2
  <2>. HIDE DEF rest
  <2>2. ProcOK([rest EXCEPT !.code = Sigterm(r.prog) \o @, !.handling = TRUE])
    BY <2>1 DEF ProcOK
  <2>3. ProcOK([rest EXCEPT !.state = "stopped", !.report = "stopped"])
    BY <1>5, <2>1 DEF Reports
  <2>4. ProcOK(Dead(rest, "killed"))
    BY <1>5, <2>1 DEF Dead, Reports
  <2>5. \/ Taken(r, sig) = [rest EXCEPT !.code = Sigterm(r.prog) \o @, !.handling = TRUE]
        \/ Taken(r, sig) = [rest EXCEPT !.state = "stopped", !.report = "stopped"]
        \/ Taken(r, sig) = Dead(rest, "killed")
    BY DEF Taken, rest
  <2>. QED BY <2>2, <2>3, <2>4, <2>5, Zenon
<1>7. \A x \in Reports : ProcOK(Dead(r, x))
  BY <1>5 DEF Dead
<1>8. \A x \in Reports : ProcOK([r EXCEPT !.state = "running", !.report = x])
  BY <1>5
<1>9. \A sig : ProcOK(Taken(r, sig))
  BY <1>6
<1>. QED
  <2>. HIDE DEF ProcOK, Taken, Dead
  <2>. QED BY <1>1, <1>2, <1>3, <1>4, <1>7, <1>8, <1>9, Zenon

\* One process changes.
LEMMA ProcExcept ==
  ASSUME NEW ps, ProcsOK(ps), NEW p, NEW r, ProcOK(r), NEW qs, qs = [ps EXCEPT ![p] = r]
  PROVE  ProcsOK(qs) /\ DOMAIN qs = DOMAIN ps
<1>1. qs = [i \in DOMAIN ps |-> qs[i]]
  OBVIOUS
<1>2. \A i \in DOMAIN ps : qs[i] = r \/ qs[i] = ps[i]
  OBVIOUS
<1>3. \A i \in DOMAIN ps : ProcOK(qs[i])
  BY <1>2, Zenon DEF ProcsOK
<1>. QED BY <1>1, <1>3, ChangedProcs, Zenon

\* Signals are sent to processes, and stopped ones continued.
LEMMA SignalledProcs ==
  ASSUME ProcsOK(proc), NEW G
  PROVE  /\ \A sig : ProcsOK(Post(G, sig)) /\ DOMAIN Post(G, sig) = Procs
         /\ ProcsOK(Continue(G)) /\ DOMAIN Continue(G) = Procs
<1>1. \A q \in Procs : ProcOK(proc[q])
  BY DEF ProcsOK, Procs
<1>2. ASSUME NEW sig PROVE ProcsOK(Post(G, sig)) /\ DOMAIN Post(G, sig) = Procs
  <2>. DEFINE qs == Post(G, sig)
  <2>1. qs = [q \in DOMAIN proc |-> qs[q]]
    BY DEF Post, Procs
  <2>2. \A q \in DOMAIN proc :
          qs[q] = [proc[q] EXCEPT !.pending = @ \cup {sig}] \/ qs[q] = proc[q]
    BY DEF Post, Procs
  <2>. HIDE DEF qs
  <2>3. ASSUME NEW q \in DOMAIN proc PROVE ProcOK(qs[q])
    <3>1. ProcOK(proc[q])
      BY <1>1 DEF Procs
    <3>2. ProcOK([proc[q] EXCEPT !.pending = @ \cup {sig}])
      BY <3>1 DEF ProcOK
    <3>. QED BY <2>2, <3>1, <3>2, Zenon
  <2>. QED BY <2>1, <2>3, ChangedProcs, Zenon DEF qs, Procs
<1>3. ProcsOK(Continue(G)) /\ DOMAIN Continue(G) = Procs
  <2>. DEFINE qs == Continue(G)
  <2>1. qs = [q \in DOMAIN proc |-> qs[q]]
    BY DEF Continue, Procs
  <2>2. \A q \in DOMAIN proc :
          qs[q] = [proc[q] EXCEPT !.state = "running", !.report = "none"] \/ qs[q] = proc[q]
    BY DEF Continue, Procs
  <2>. HIDE DEF qs
  <2>3. ASSUME NEW q \in DOMAIN proc PROVE ProcOK(qs[q])
    <3>1. ProcOK(proc[q])
      BY <1>1 DEF Procs
    <3>2. ProcOK([proc[q] EXCEPT !.state = "running", !.report = "none"])
      BY <3>1 DEF ProcOK, Reports
    <3>. QED BY <2>2, <3>1, <3>2, Zenon
  <2>. QED BY <2>1, <2>3, ChangedProcs, Zenon DEF qs, Procs
<1>. QED BY <1>2, <1>3

\* The list stays good while processes are only added, and when an entry gets
\* another state or is replaced by a good one.
LEMMA GoodList ==
  ASSUME NEW jl, NEW ps, ListOK(jl, ps)
  PROVE  /\ \A qs : DOMAIN ps \subseteq DOMAIN qs => ListOK(jl, qs)
         /\ \A i, s : s \in JobStates => ListOK([jl EXCEPT ![i].state = s], ps)
         /\ \A i, e : EntryOK(e, ps) => ListOK([jl EXCEPT ![i] = e], ps)
<1>1. ASSUME NEW qs, DOMAIN ps \subseteq DOMAIN qs PROVE ListOK(jl, qs)
  BY <1>1 DEF ListOK, EntryOK
<1>2. ASSUME NEW i, NEW s \in JobStates PROVE ListOK([jl EXCEPT ![i].state = s], ps)
  <2>1. \A k \in Slots : EntryOK(jl[k], ps)
    BY DEF ListOK
  <2>2. \A k \in Slots : EntryOK([jl[k] EXCEPT !.state = s], ps)
    BY <2>1 DEF EntryOK
  <2>. DEFINE jm == [jl EXCEPT ![i].state = s]
  <2>3. DOMAIN jm = Slots
    BY DEF ListOK
  <2>4. \A k \in Slots : jm[k] = jl[k] \/ jm[k] = [jl[k] EXCEPT !.state = s]
    BY DEF ListOK
  <2>. HIDE DEF jm
  <2>. QED BY <2>1, <2>2, <2>3, <2>4, Zenon DEF ListOK, jm
<1>3. ASSUME NEW i, NEW e, EntryOK(e, ps) PROVE ListOK([jl EXCEPT ![i] = e], ps)
  <2>1. \A k \in Slots : EntryOK(jl[k], ps)
    BY DEF ListOK
  <2>. DEFINE jm == [jl EXCEPT ![i] = e]
  <2>2. DOMAIN jm = Slots
    BY DEF ListOK
  <2>3. \A k \in Slots : jm[k] = jl[k] \/ jm[k] = e
    BY DEF ListOK
  <2>. HIDE DEF jm
  <2>. QED BY <1>3, <2>1, <2>2, <2>3, Zenon DEF ListOK, jm
<1>. QED BY <1>1, <1>2, <1>3, Zenon

\* A step that leaves the shell where it is and writes at most one text that is
\* not the prompt.
QuietStep ==
  /\ ProcsOK(proc') /\ DOMAIN proc \subseteq DOMAIN proc'
  /\ UNCHANGED <<toShell, shell, cmd, writes, notes, list>>
  /\ \/ toDriver' = toDriver
     \/ \E x : x # PROMPT /\ toDriver' = Append(toDriver, x)

\* A step of the children at most adds to what runtrace reads, but no prompt.
LEMMA QuietStepKeeps ==
  ASSUME EnvInv, QuietStep
  PROVE  EnvInv' /\ Load' = Load
<1>1. IsSeq(toDriver)' /\ Count(toDriver)' = Count(toDriver)
  <2>1. CASE toDriver' = toDriver
    BY <2>1 DEF EnvInv, IsSeq, Count, PromptsAt
  <2>2. CASE \E x : x # PROMPT /\ toDriver' = Append(toDriver, x)
    <3>1. PICK x : x # PROMPT /\ toDriver' = Append(toDriver, x)
      BY <2>2
    <3>2. IsSeq(Append(toDriver, x)) /\ Count(Append(toDriver, x)) = Count(toDriver)
      BY <3>1, AppendCounts DEF EnvInv
    <3>. QED BY <3>1, <3>2
  <2>. QED BY <2>1, <2>2 DEF QuietStep
<1>2. ListOK(list, proc)'
  BY GoodList DEF EnvInv, QuietStep
<1>3. Len(toShell)' = Len(toShell) /\ Busy' = Busy
  BY DEF QuietStep, Busy
<1>. QED BY <1>1, <1>2, <1>3 DEF EnvInv, QuietStep, Load

\* A process takes one instruction or one signal.
LEMMA ProcessStepQuiet ==
  ASSUME EnvInv, NEW p \in Procs, ProcessStep(p)
  PROVE  QuietStep
<1>. DEFINE Same == UNCHANGED <<toShell, toDriver, shell, cmd, writes, notes, list>>
            Good == ProcsOK(proc') /\ DOMAIN proc \subseteq DOMAIN proc'
<1>. USE DEF socketVars, shellVars
<1>1. ProcsOK(proc) /\ ProcOK(proc[p])
  BY DEF EnvInv, ProcsOK, Procs
<1>2. ASSUME NEW r, ProcOK(r), proc' = [proc EXCEPT ![p] = r]
      PROVE  Good
  <2>1. ProcsOK(proc') /\ DOMAIN proc' = DOMAIN proc
    BY <1>1, <1>2, ProcExcept, Zenon
  <2>. QED BY <2>1
<1>3. ProcsOK(Goes(p)) /\ DOMAIN Goes(p) = DOMAIN proc
  <2>1. ProcOK([proc[p] EXCEPT !.code = Tail(@)])
    BY <1>1 DEF ProcOK
  <2>2. Goes(p) = [proc EXCEPT ![p] = [proc[p] EXCEPT !.code = Tail(@)]]
    BY DEF Goes
  <2>. QED BY <1>1, <2>1, <2>2, ProcExcept, Zenon
<1>4. ASSUME proc' = Goes(p) PROVE Good
  BY <1>3, <1>4
<1>5. ASSUME Same, Good PROVE QuietStep
  BY <1>5 DEF QuietStep
<1>6. CASE TakeSignal(p)
  <2>1. PICK sig : proc' = [proc EXCEPT ![p] = Taken(proc[p], sig)]
    BY <1>6 DEF TakeSignal
  <2>2. ProcOK(Taken(proc[p], sig))
    BY <1>1, OneProcChanged
  <2>3. Good
    BY <1>2, <2>1, <2>2
  <2>. QED BY <1>5, <1>6, <2>3 DEF TakeSignal
<1>7. CASE Write(p)
  <2>1. Good
    BY <1>4, <1>7 DEF Write
  <2>2. \E x : x # PROMPT /\ toDriver' = Append(toDriver, x)
    <3>1. CASE ToOutput(proc[p].text)
      BY <1>1, <3>1 DEF ToOutput, ProcOK
    <3>2. CASE ToOutput(<<"SIGTERM in", proc[p].prog>>)
      BY <3>2, OtherTexts DEF ToOutput
    <3>. QED BY <1>7, <3>1, <3>2 DEF Write
  <2>. QED BY <1>7, <2>1, <2>2 DEF Write, QuietStep
<1>8. CASE Sync(p) \/ Await(p) \/ Join(p) \/ SignalShell(p)
  <2>1. Good
    BY <1>4, <1>8 DEF Sync, Await, Join, SignalShell
  <2>. QED BY <1>5, <1>8, <2>1 DEF Sync, Await, Join, SignalShell
<1>9. CASE Exit(p)
  <2>1. ProcOK(Dead(proc[p], "exited"))
    BY <1>1, OneProcChanged DEF Reports
  <2>2. proc' = [proc EXCEPT ![p] = Dead(proc[p], "exited")]
    BY <1>9 DEF Exit
  <2>3. Good
    BY <1>2, <2>1, <2>2
  <2>. QED BY <1>5, <1>9, <2>3 DEF Exit
<1>10. CASE Return(p)
  <2>1. ProcOK([Goes(p)[p] EXCEPT !.handling = FALSE])
    BY <1>3, OneProcChanged DEF ProcsOK, Procs
  <2>2. proc' = [Goes(p) EXCEPT ![p] = [Goes(p)[p] EXCEPT !.handling = FALSE]]
    BY <1>10 DEF Return
  <2>3. ProcsOK(proc') /\ DOMAIN proc' = DOMAIN Goes(p)
    BY <1>3, <2>1, <2>2, ProcExcept, Zenon
  <2>4. Good
    BY <1>3, <2>3
  <2>. QED BY <1>5, <1>10, <2>4 DEF Return
<1>11. CASE SignalSelf(p)
  <2>1. PICK x : proc' = [Goes(p) EXCEPT ![p] = [Goes(p)[p] EXCEPT !.pending = x]]
    BY <1>11 DEF SignalSelf
  <2>2. ProcOK([Goes(p)[p] EXCEPT !.pending = x])
    BY <1>3, OneProcChanged DEF ProcsOK, Procs
  <2>3. ProcsOK(proc') /\ DOMAIN proc' = DOMAIN Goes(p)
    BY <1>3, <2>1, <2>2, ProcExcept, Zenon
  <2>4. Good
    BY <1>3, <2>3
  <2>. QED BY <1>5, <1>11, <2>4 DEF SignalSelf
<1>12. CASE ForkChild(p)
  <2>. DEFINE r == Process(proc[p].prog, p, SplitChild, proc[p].text)
  <2>1. ProcOK(r)
    BY <1>1 DEF Process, ProcOK, Reports
  <2>2. proc' = Append(Goes(p), r)
    BY <1>12 DEF ForkChild
  <2>. HIDE DEF r
  <2>3. Good
    BY <1>3, <2>1, <2>2, StartedProcs
  <2>. QED BY <1>5, <1>12, <2>3 DEF ForkChild
<1>13. CASE Pkill(p)
  <2>. DEFINE G == {q \in Procs : Alive(q) /\ proc[q].prog = "myspin1"}
              s == Post(G, "TERM")
  <2>1. ProcsOK(s) /\ DOMAIN s = Procs
    BY <1>1, SignalledProcs
  <2>2. proc' = [s EXCEPT ![p] = [s[p] EXCEPT !.code = Tail(proc[p].code)]] \/
        proc' = [s EXCEPT ![p] = [s[p] EXCEPT !.code = Tail(s[p].code)]]
    BY <1>13 DEF Pkill
  <2>. HIDE DEF s
  <2>3. ProcOK(s[p])
    BY <2>1 DEF ProcsOK
  <2>4. PICK r : proc' = [s EXCEPT ![p] = r] /\ ProcOK(r)
    <3>1. ASSUME NEW x PROVE ProcOK([s[p] EXCEPT !.code = x])
      BY <2>3 DEF ProcOK
    <3>. QED BY <2>2, <3>1, Zenon
  <2>5. ProcsOK(proc') /\ DOMAIN proc' = DOMAIN s
    BY <2>1, <2>4, ProcExcept, Zenon
  <2>6. Good
    BY <2>1, <2>5 DEF Procs
  <2>. QED BY <1>5, <1>13, <2>6 DEF Pkill
<1>. QED BY <1>6, <1>7, <1>8, <1>9, <1>10, <1>11, <1>12, <1>13 DEF ProcessStep

\* A step of a handler: a text is written, a child reaped or a signal sent on.
LEMMA HandlerKeeps ==
  ASSUME EnvInv, HandlerStep
  PROVE  EnvInv' /\ Load' = Load
<1>. USE DEF socketVars
<1>1. CASE WriteNote
  <2>1. /\ notes # <<>> /\ notes' = Tail(notes)
        /\ toDriver' = Append(toDriver, Head(notes))
        /\ UNCHANGED <<toShell, shell, cmd, writes, list, proc>>
    BY <1>1 DEF WriteNote, ToOutput
  <2>2. Head(notes) # PROMPT /\ Silent(Tail(notes))
    BY <2>1, SilentTail DEF EnvInv
  <2>3. IsSeq(toDriver)' /\ Count(toDriver)' = Count(toDriver)
    BY <2>1, <2>2, AppendCounts DEF EnvInv
  <2>. QED BY <2>1, <2>2, <2>3 DEF EnvInv, Load, Busy
<1>2. ASSUME NEW p \in Procs, Reap(p) PROVE EnvInv' /\ Load' = Load
  <2>1. UNCHANGED <<toShell, toDriver, shell, cmd, writes>>
    BY <1>2 DEF Reap
  <2>2. ProcsOK(proc') /\ DOMAIN proc' = DOMAIN proc
    <3>. DEFINE r == [proc[p] EXCEPT !.report = "none"]
    <3>1. proc' = [proc EXCEPT ![p] = r]
      BY <1>2 DEF Reap
    <3>2. ProcsOK(proc) /\ ProcOK(proc[p])
      BY DEF EnvInv, ProcsOK, Procs
    <3>3. ProcOK(r)
      BY <3>2 DEF ProcOK, Reports
    <3>. HIDE DEF r
    <3>. QED BY <3>1, <3>2, <3>3, ProcExcept, Zenon
  <2>3. Silent(notes)'
    <3>1. proc[p].report \in {"killed", "stopped", "exited"}
      BY <1>2 DEF Reap, EnvInv, ProcsOK, ProcOK, Procs, Reports
    <3>2. CASE proc[p].report = "exited"
      BY <1>2, <3>2, ShortLists DEF Reap
    <3>3. CASE proc[p].report # "exited"
      <4>1. PICK k \in {"terminated by signal", "stopped by signal"} :
              Fate(proc[p].report) = <<Text(k)>>
        BY <3>1, <3>3 DEF Fate
      <4>a. notes' = <<Id(jidOf(p))>> \o Fate(proc[p].report)
        BY <1>2, <3>3 DEF Reap
      <4>2. notes' = <<Id(jidOf(p)), Text(k)>>
        BY <4>a, <4>1, Concat2
      <4>3. Id(jidOf(p)) # PROMPT /\ Text(k) # PROMPT
        BY OtherTexts
      <4>. QED BY <4>2, <4>3, ShortLists
    <3>. QED BY <3>2, <3>3
  <2>4. ListOK(list', proc)
    <3>1. CASE UNCHANGED list
      BY <3>1 DEF EnvInv
    <3>2. CASE list' = setstate(list, getjobpid(list, p), "ST")
      BY <3>2, GoodList DEF setstate, EnvInv, JobStates
    <3>3. CASE list' = deletejob(list, p)
      <4>1. EntryOK(ClearedJob, proc)
        BY DEF EntryOK, ClearedJob, JobStates
      <4>. QED BY <3>3, <4>1, GoodList DEF deletejob, EnvInv
    <3>. QED BY <1>2, <3>1, <3>2, <3>3 DEF Reap
  <2>5. ListOK(list, proc)'
    BY <2>2, <2>4, GoodList
  <2>. QED BY <2>1, <2>2, <2>3, <2>5 DEF EnvInv, Load, Busy, LinesOK
<1>3. ASSUME NEW sig \in caught, Forward(sig) PROVE EnvInv' /\ Load' = Load
  <2>1. ProcsOK(proc') /\ DOMAIN proc' = DOMAIN proc
    BY <1>3, SignalledProcs DEF Forward, EnvInv, Procs
  <2>2. QuietStep
    BY <1>3, <2>1 DEF Forward, QuietStep
  <2>. QED BY <2>2, QuietStepKeeps
<1>. QED BY <1>1, <1>2, <1>3 DEF HandlerStep

\* Lengths and counts are numbers.
LEMMA LoadIsNat ==
  ASSUME EnvInv
  PROVE  /\ Len(toShell) \in Nat /\ Count(toDriver) \in Nat
         /\ Busy \in {0, 1} /\ Load \in Nat
<1>1. PICK S : toShell \in Seq(S)
  BY DEF EnvInv, LinesOK, IsSeq
<1>2. Len(toShell) \in Nat
  BY <1>1
<1>3. Count(toDriver) \in Nat
  BY PromptsCounted DEF EnvInv
<1>. QED BY <1>2, <1>3 DEF Busy, Load

\* A step of the main program that neither reads a line nor writes.
WorkStep ==
  /\ UNCHANGED <<toShell, toDriver, notes>>
  /\ Busy = 1
  /\ ProcsOK(proc') /\ ListOK(list', proc')
  /\ cmd' = cmd
  /\ Silent(writes')

\* A step of the shell at work on a line.
LEMMA WorkStepKeeps ==
  ASSUME EnvInv, WorkStep
  PROVE  EnvInv' /\ Load' <= Load
<1>1. Len(toShell) \in Nat /\ Count(toDriver) \in Nat /\ Busy' \in {0, 1}
  BY LoadIsNat DEF Busy
<1>2. Len(toShell)' = Len(toShell) /\ Count(toDriver)' = Count(toDriver)
  BY DEF WorkStep, Count, PromptsAt
<1>. QED BY <1>1, <1>2 DEF WorkStep, EnvInv, Load

\* What the shell says about its jobs.
LEMMA ListingIsSilent ==
  ASSUME EnvInv
  PROVE  Silent(FlattenSeq([k \in 1 .. MAXJOBS |->
                              IF list[k - 1].pid = 0 THEN <<>> ELSE Entry(k - 1)]))
<1>. DEFINE T == {Id(list[i].jid) : i \in Slots} \cup {Text(k) : k \in JobStates}
                   \cup {proc[p].text : p \in DOMAIN proc}
            s == [k \in 1 .. MAXJOBS |-> IF list[k - 1].pid = 0 THEN <<>> ELSE Entry(k - 1)]
<1>1. PROMPT \notin T
  BY OtherTexts DEF EnvInv, ProcsOK, ProcOK
<1>2. ASSUME NEW i \in Slots, list[i].pid # 0 PROVE Entry(i) \in Seq(T)
  <2>1. list[i].pid \in DOMAIN proc /\ list[i].state \in JobStates
    BY <1>2 DEF EnvInv, ListOK, EntryOK
  <2>2. Id(list[i].jid) \in T /\ Text(list[i].state) \in T /\ proc[list[i].pid].text \in T
    BY <1>2, <2>1
  <2>. HIDE DEF T
  <2>. QED BY <2>2 DEF Entry
<1>. HIDE DEF T
<1>3. s \in [1 .. MAXJOBS -> Seq(T)]
  <2>1. ASSUME NEW k \in 1 .. MAXJOBS
        PROVE  (IF list[k - 1].pid = 0 THEN <<>> ELSE Entry(k - 1)) \in Seq(T)
    <3>1. k - 1 \in Slots
      BY MaxJobsAssumption DEF Slots
    <3>2. <<>> \in Seq(T)
      BY EmptySeq
    <3>. QED BY <1>2, <3>1, <3>2
  <2>. QED BY <2>1
<1>. HIDE DEF s
<1>4. FlattenSeq(s) \in Seq(T)
  BY <1>3, FlattenedSeq, MaxJobsAssumption
<1>. QED BY <1>1, <1>4, Zenon DEF Silent, s

\* A step of the main program: the shell never owes runtrace more than before.
LEMMA MainKeeps ==
  ASSUME EnvInv, MainStep
  PROVE  EnvInv' /\ Load' <= Load
<1>. USE DEF socketVars
<1>1. ProcsOK(proc) /\ ListOK(list, proc) /\ cmd.text # PROMPT /\ Silent(writes)
  BY DEF EnvInv
<1>2. Len(toShell) \in Nat /\ Count(toDriver) \in Nat
  BY LoadIsNat
<1>3. CASE EmitPrompt
  <2>1. /\ toDriver' = Append(toDriver, PROMPT)
        /\ UNCHANGED <<toShell, cmd, writes, notes, list, proc>>
        /\ Busy = 1 /\ Busy' = 0
    BY <1>3 DEF EmitPrompt, ToOutput, Main, Goto, Busy
  <2>2. IsSeq(toDriver') /\ Count(toDriver)' = Count(toDriver) + 1
    <3>1. IsSeq(Append(toDriver, PROMPT))
          /\ Count(Append(toDriver, PROMPT)) = Count(toDriver) + 1
      BY AppendCounts DEF EnvInv
    <3>. QED BY <2>1, <3>1
  <2>. QED BY <1>2, <2>1, <2>2 DEF EnvInv, Load
<1>4. CASE ReadLine
  <2>1. /\ toShell # <<>> /\ toShell' = Tail(toShell) /\ cmd' = Head(toShell)
        /\ UNCHANGED <<writes, notes, list, proc>>
        /\ Busy = 0
    BY <1>4 DEF ReadLine, Main, Busy
  <2>2. /\ IsSeq(Tail(toShell)) /\ Len(Tail(toShell)) = Len(toShell) - 1
        /\ Head(toShell) \in ToSet(toShell)
        /\ \A i \in DOMAIN Tail(toShell) :
             i + 1 \in DOMAIN toShell /\ Tail(toShell)[i] = toShell[i + 1]
    BY <2>1, TailCounts DEF EnvInv, LinesOK
  <2>3. LinesOK(Tail(toShell)) /\ Head(toShell).text # PROMPT
    BY <2>2 DEF EnvInv, LinesOK, ToSet
  <2>4. IsSeq(toDriver') /\ Count(toDriver)' = Count(toDriver)
    <3>1. CASE toDriver' = toDriver
      BY <3>1 DEF EnvInv, Count, PromptsAt
    <3>2. CASE toDriver' = Append(toDriver, NEWLINE)
      <4>1. /\ IsSeq(Append(toDriver, NEWLINE))
            /\ Count(Append(toDriver, NEWLINE)) = Count(toDriver)
        BY AppendCounts, OtherTexts DEF EnvInv
      <4>. QED BY <3>2, <4>1
    <3>. QED BY <1>4, <3>1, <3>2 DEF ReadLine, ToOutput
  <2>5. Busy' \in {0, 1} /\ Len(toShell)' = Len(toShell) - 1
    BY <2>1, <2>2 DEF Busy
  <2>6. EnvInv'
    BY <2>1, <2>3, <2>4 DEF EnvInv
  <2>. QED BY <1>2, <2>1, <2>4, <2>5, <2>6 DEF Load
<1>5. CASE WriteText
  <2>1. /\ writes # <<>> /\ writes' = Tail(writes)
        /\ toDriver' = Append(toDriver, Head(writes))
        /\ UNCHANGED <<toShell, shell, cmd, notes, list, proc>>
    BY <1>5 DEF WriteText, ToOutput
  <2>2. Head(writes) # PROMPT /\ Silent(Tail(writes))
    BY <1>1, <2>1, SilentTail
  <2>3. IsSeq(toDriver)' /\ Count(toDriver)' = Count(toDriver)
    BY <2>1, <2>2, AppendCounts DEF EnvInv
  <2>. QED BY <1>2, <2>1, <2>2, <2>3 DEF EnvInv, Load, Busy
<1>6. CASE EndEval \/ waitfg \/ Quit
  <2>1. WorkStep
    BY <1>1, <1>6 DEF EndEval, waitfg, Quit, WorkStep, Main, Busy
  <2>. QED BY <2>1, WorkStepKeeps
<1>7. CASE Launch
  <2>. DEFINE p == Len(proc) + 1
              r == Process(cmd.prog, p, Code(cmd.prog), cmd.text)
              e == [pid |-> p, jid |-> nextjid, state |-> IF cmd.bg THEN "BG" ELSE "FG"]
  <2>1. /\ proc' = Append(proc, r)
        /\ list' = list \/ list' = [list EXCEPT ![Min(WithPid(list, 0))] = e]
        /\ UNCHANGED <<toShell, toDriver, cmd, writes, notes>>
        /\ Busy = 1
    BY <1>7 DEF Launch, addjob, Main, Busy
  <2>2. ProcOK(r)
    BY <1>1 DEF Process, ProcOK, Reports
  <2>. HIDE DEF r
  <2>3. ProcsOK(proc') /\ DOMAIN proc \subseteq DOMAIN proc' /\ p \in DOMAIN proc'
    BY <1>1, <2>1, <2>2, StartedProcs
  <2>4. ListOK(list, proc')
    BY <1>1, <2>3, GoodList
  <2>5. EntryOK(e, proc')
    BY <2>3 DEF EntryOK, JobStates
  <2>. HIDE DEF e
  <2>6. ListOK(list', proc')
    BY <2>1, <2>4, <2>5, GoodList
  <2>7. WorkStep
    BY <1>1, <2>1, <2>3, <2>6 DEF WorkStep
  <2>. QED BY <2>7, WorkStepKeeps
<1>8. CASE Announce
  <2>1. PICK j : writes' = <<Id(j), cmd.text, NEWLINE>>
    BY <1>8 DEF Announce, Says
  <2>2. Silent(writes')
    BY <1>1, <2>1, ShortLists, OtherTexts
  <2>3. WorkStep
    BY <1>1, <1>8, <2>2 DEF Announce, WorkStep, Main, Busy
  <2>. QED BY <2>3, WorkStepKeeps
<1>9. CASE listjobs
  <2>1. Silent(writes')
    BY <1>9, ListingIsSilent DEF listjobs, Says
  <2>2. WorkStep
    BY <1>1, <1>9, <2>1 DEF listjobs, WorkStep, Main, Busy
  <2>. QED BY <2>2, WorkStepKeeps
<1>10. CASE NoSuchJob
  <2>1. Silent(writes')
    BY <1>1, <1>10, ShortLists, OtherTexts DEF NoSuchJob, Says
  <2>2. WorkStep
    BY <1>1, <1>10, <2>1 DEF NoSuchJob, WorkStep, Main, Busy
  <2>. QED BY <2>2, WorkStepKeeps
<1>11. CASE Foreground \/ Background
  <2>1. PICK i \in Slots, p \in Procs, s \in {"FG", "BG"} :
          /\ proc' = Continue(Group(p))
          /\ list' = [list EXCEPT ![i].state = s]
          /\ OnJob(i, p)
          /\ writes' = writes \/ writes' = <<Id(list[i].jid), proc[p].text>>
          /\ UNCHANGED <<toShell, toDriver, cmd, notes>>
    BY <1>11 DEF Foreground, Background, Says, setstate
  <2>2. ProcsOK(proc') /\ DOMAIN proc' = DOMAIN proc
    BY <1>1, <2>1, SignalledProcs DEF Procs
  <2>3. ListOK(list', proc)
    BY <1>1, <2>1, GoodList DEF JobStates
  <2>4. ListOK(list', proc')
    BY <2>2, <2>3, GoodList
  <2>5. Silent(writes')
    <3>1. proc[p].text # PROMPT
      BY <1>1 DEF ProcsOK, ProcOK, Procs
    <3>. QED BY <1>1, <2>1, <3>1, ShortLists, OtherTexts
  <2>6. Busy = 1
    BY <2>1 DEF OnJob, Main, Busy
  <2>. QED BY <2>1, <2>2, <2>4, <2>5, <2>6, WorkStepKeeps DEF WorkStep
<1>12. CASE KillJob
  <2>1. PICK i \in Slots, p \in Procs :
          /\ \E G : proc' = Post(G, "TERM")
          /\ OnJob(i, p)
          /\ writes' = <<Text("pid pid")>>
          /\ UNCHANGED <<toShell, toDriver, cmd, notes, list>>
    BY <1>12 DEF KillJob, Says
  <2>2. ProcsOK(proc') /\ DOMAIN proc' = DOMAIN proc
    BY <1>1, <2>1, SignalledProcs DEF Procs
  <2>3. ListOK(list', proc')
    <3>1. ListOK(list, proc')
      BY <1>1, <2>2, GoodList
    <3>. QED BY <2>1, <3>1
  <2>4. Silent(writes')
    BY <2>1, ShortLists, OtherTexts
  <2>5. Busy = 1
    BY <2>1 DEF OnJob, Main, Busy
  <2>. QED BY <2>1, <2>2, <2>3, <2>4, <2>5, WorkStepKeeps DEF WorkStep
<1>. QED BY <1>3, <1>4, <1>5, <1>6, <1>7, <1>8, <1>9, <1>10, <1>11, <1>12, Zenon DEF MainStep

-----------------------------------------------------------------------------
(***************************************************************************)
(* The balance.  Every line sent and the start of the shell promise runtrace *)
(* one prompt; every prompt that ends a NEXT, and the first, keeps such a    *)
(* promise.  A first prompt that runtrace did not wait for is owed for ever. *)
(***************************************************************************)
Owed == sent - prompts + IF driver = "start" \/ late THEN 1 ELSE 0

Balance == driver \in {"start", "trace"} => Load <= Owed

RunInv ==
  /\ EnvInv
  /\ trace \in Traces
  /\ at \in Nat \ {0}
  /\ sent \in Nat /\ prompts \in Nat
  /\ driver = "start" => ~late
  /\ Balance

\* At the start the shell owes its first prompt and nothing is under way.
LEMMA RunInvInit ==
  Init => RunInv
<1> SUFFICES ASSUME Init PROVE RunInv
  OBVIOUS
<1>1. IsSeq(<<>>) /\ Len(<<>>) = 0 /\ DOMAIN <<>> = {}
  <2>1. <<>> \in Seq({})
    BY EmptySeq
  <2>. QED BY <2>1 DEF IsSeq
<1>2. Count(<<>>) = 0
  <2>1. PromptsAt(<<>>) = {}
    BY <1>1 DEF PromptsAt
  <2>. QED BY <2>1, FS_EmptySet DEF Count
<1>3. ListOK(list, proc)
  BY DEF Init, initjobs, ClearedJob, ListOK, EntryOK, JobStates
<1>4. EnvInv
  <2>1. EndOfFile.text # PROMPT
    BY OtherTexts DEF EndOfFile
  <2>2. toShell = <<>> /\ toDriver = <<>> /\ proc = <<>> /\ writes = <<>> /\ notes = <<>>
        /\ cmd = EndOfFile
    BY DEF Init
  <2>. QED BY <1>1, <1>3, <2>1, <2>2, ShortLists DEF EnvInv, ProcsOK, LinesOK
<1>5. Load = 1 /\ Owed = 1
  BY <1>1, <1>2 DEF Init, Load, Busy, Owed
<1>. QED BY <1>4, <1>5 DEF Init, RunInv, Balance

\* What runtrace leaves alone.
LEMMA EnvInvFrame ==
  ASSUME EnvInv, ProcsOK(proc'), DOMAIN proc' = DOMAIN proc, LinesOK(toShell'),
         IsSeq(toDriver'), UNCHANGED <<cmd, writes, notes, list>>
  PROVE  EnvInv'
<1>1. ListOK(list, proc')
  BY GoodList DEF EnvInv
<1>. QED BY <1>1 DEF EnvInv

\* clean kills the programs it knows.
LEMMA CleanedProcs ==
  ASSUME ProcsOK(proc), clean
  PROVE  ProcsOK(proc') /\ DOMAIN proc' = DOMAIN proc
<1>1. proc' = [p \in DOMAIN proc |-> proc'[p]]
  BY DEF clean, Procs
<1>2. \A p \in DOMAIN proc : proc'[p] = Dead(proc[p], "killed") \/ proc'[p] = proc[p]
  BY DEF clean, Procs
<1>3. \A p \in DOMAIN proc : ProcOK(Dead(proc[p], "killed"))
  BY OneProcChanged DEF ProcsOK, Reports
<1>4. \A p \in DOMAIN proc : ProcOK(proc'[p])
  BY <1>2, <1>3, Zenon DEF ProcsOK
<1>. QED BY <1>1, <1>4, ChangedProcs, Zenon

\* A line, or the end of the file, that is sent to the shell.
LEMMA AppendedLine ==
  ASSUME NEW ls, LinesOK(ls), NEW line, line.text # PROMPT
  PROVE  LinesOK(Append(ls, line)) /\ Len(Append(ls, line)) = Len(ls) + 1
<1>1. PICK S : ls \in Seq(S)
  BY DEF LinesOK, IsSeq
<1>. DEFINE T == S \cup {line}
            ms == Append(ls, line)
<1>2. ls \in Seq(T) /\ line \in T
  BY <1>1, SeqMonotonic
<1>. HIDE DEF T
<1>3. /\ ms \in Seq(T) /\ Len(ms) = Len(ls) + 1
      /\ \A i \in 1 .. Len(ls) : ms[i] = ls[i]
      /\ ms[Len(ls) + 1] = line
  BY <1>2, AppendProperties
<1>4. Len(ls) \in Nat /\ DOMAIN ls = 1 .. Len(ls) /\ DOMAIN ms = 1 .. (Len(ls) + 1)
  BY <1>2, <1>3
<1>. HIDE DEF ms
<1>5. \A i \in DOMAIN ms : ms[i].text # PROMPT
  BY <1>3, <1>4 DEF LinesOK
<1>. QED BY <1>3, <1>5 DEF LinesOK, IsSeq, ms

\* A prompt or another text that runtrace takes from its socket.
LEMMA ReceivedKeeps ==
  ASSUME RunInv, NEW text, Received(text), UNCHANGED <<toShell, shell>>
  PROVE  /\ IsSeq(toDriver')
         /\ text = PROMPT => Load' = Load - 1
         /\ text # PROMPT => Load' = Load
<1>1. toDriver # <<>> /\ text = Head(toDriver) /\ toDriver' = Tail(toDriver)
  BY DEF Received
<1>2. /\ IsSeq(Tail(toDriver))
      /\ text # PROMPT => Count(Tail(toDriver)) = Count(toDriver)
      /\ text = PROMPT => Count(Tail(toDriver)) = Count(toDriver) - 1
  BY <1>1, TailCounts DEF RunInv, EnvInv
<1>3. Len(toShell) \in Nat /\ Count(toDriver) \in Nat /\ Busy \in {0, 1}
  BY LoadIsNat DEF RunInv
<1>4. Len(toShell)' = Len(toShell) /\ Busy' = Busy
  BY DEF Busy
<1>. QED BY <1>1, <1>2, <1>3, <1>4 DEF Load

\* A step of runtrace.
LEMMA DriverKeeps ==
  ASSUME RunInv, DriverStep
  PROVE  RunInv'
<1>. USE DEF socketVars, shellVars, envVars
<1>1. /\ EnvInv /\ trace \in Traces /\ at \in Nat \ {0} /\ sent \in Nat /\ prompts \in Nat
      /\ Load \in Nat
  BY LoadIsNat DEF RunInv
<1>2. ProcsOK(proc) /\ LinesOK(toShell) /\ IsSeq(toDriver)
  BY <1>1 DEF EnvInv
<1>3. ASSUME UNCHANGED <<toShell, toDriver, shell, cmd, writes, notes, list, proc>>
      PROVE  EnvInv' /\ Load' = Load
  <2>1. EnvInv'
    BY <1>1, <1>2, <1>3, EnvInvFrame
  <2>2. Len(toShell)' = Len(toShell) /\ Count(toDriver)' = Count(toDriver) /\ Busy' = Busy
    BY <1>3 DEF Count, PromptsAt, Busy
  <2>. QED BY <2>1, <2>2 DEF Load
<1>4. CASE FirstPrompt
  <2>1. PICK text : /\ Received(text)
                    /\ text # PROMPT => driver' = "exited"
                    /\ text = PROMPT => driver' = "trace"
    BY <1>4 DEF FirstPrompt, IsPrompt, Quits
  <2>2. /\ driver = "start"
        /\ UNCHANGED <<toShell, shell, cmd, writes, notes, list, proc, trace, at,
                       sent, prompts, late>>
    BY <1>4 DEF FirstPrompt, History
  <2>3. IsSeq(toDriver') /\ (text = PROMPT => Load' = Load - 1)
    BY <2>1, <2>2, ReceivedKeeps
  <2>4. EnvInv'
    BY <1>1, <1>2, <2>2, <2>3, EnvInvFrame
  <2>. QED BY <1>1, <2>1, <2>2, <2>3, <2>4 DEF RunInv, Balance, Owed
<1>5. CASE Wait \/ Signal \/ KillShell("SIGINT", "INT") \/ KillShell("SIGTSTP", "TSTP")
  <2>1. /\ UNCHANGED <<toShell, toDriver, shell, cmd, writes, notes, list, proc,
                       trace, driver, sent, prompts, late>>
        /\ at' = at + 1
    BY <1>5 DEF Wait, Signal, KillShell, Done, Stays, History
  <2>2. EnvInv' /\ Load' = Load
    BY <1>3, <2>1
  <2>. QED BY <1>1, <2>1, <2>2 DEF RunInv, Balance, Owed
<1>6. CASE Next_Prompt
  <2>1. PICK text : /\ Received(text)
                    /\ text # PROMPT => UNCHANGED <<at, prompts>>
                    /\ text = PROMPT => at' = at + 1 /\ prompts' = prompts + 1
    BY <1>6 DEF Next_Prompt, IsPrompt, Done
  <2>2. /\ driver = "trace"
        /\ UNCHANGED <<toShell, shell, cmd, writes, notes, list, proc, trace, driver,
                       sent, late>>
    BY <1>6 DEF Next_Prompt, Line, Stays
  <2>3. /\ IsSeq(toDriver')
        /\ text = PROMPT => Load' = Load - 1
        /\ text # PROMPT => Load' = Load
    BY <2>1, <2>2, ReceivedKeeps
  <2>4. EnvInv'
    BY <1>1, <1>2, <2>2, <2>3, EnvInvFrame
  <2>5. at' \in Nat \ {0} /\ prompts' \in Nat
    BY <1>1, <2>1
  <2>6. Balance'
    BY <1>1, <2>1, <2>2, <2>3 DEF RunInv, Balance, Owed
  <2>. QED BY <1>1, <2>2, <2>4, <2>5, <2>6 DEF RunInv
<1>7. CASE SendLine
  <2>. DEFINE line == Lines[trace][at].cmd
  <2>1. /\ driver = "trace" /\ at <= Len(Lines[trace])
        /\ toShell' = Append(toShell, line)
        /\ at' = at + 1 /\ sent' = sent + 1
        /\ UNCHANGED <<toDriver, shell, cmd, writes, notes, list, proc, trace, driver,
                       prompts, late>>
    BY <1>7 DEF SendLine, Line, Done, Stays
  <2>2. line.text # PROMPT
    BY <1>1, <2>1, LinesAssumption
  <2>. HIDE DEF line
  <2>3. LinesOK(toShell') /\ Len(toShell') = Len(toShell) + 1
    BY <1>2, <2>1, <2>2, AppendedLine
  <2>4. EnvInv'
    BY <1>1, <1>2, <2>1, <2>3, EnvInvFrame
  <2>5. Load' = Load + 1
    <3>1. Count(toDriver)' = Count(toDriver) /\ Busy' = Busy
      BY <2>1 DEF Count, PromptsAt, Busy
    <3>2. Len(toShell) \in Nat /\ Count(toDriver) \in Nat /\ Busy \in {0, 1}
      BY <1>1, LoadIsNat
    <3>. QED BY <2>3, <3>1, <3>2 DEF Load
  <2>. QED BY <1>1, <2>1, <2>4, <2>5 DEF RunInv, Balance, Owed
<1>8. CASE SendFails
  <2>1. /\ UNCHANGED <<toShell, toDriver, shell, cmd, writes, notes, list, proc,
                       trace, at, sent, prompts, late>>
        /\ driver' = "exited"
    BY <1>8 DEF SendFails, Quits, History
  <2>. QED BY <1>1, <1>3, <2>1 DEF RunInv, Balance
<1>9. CASE SendEof
  <2>1. /\ toShell' = Append(toShell, EndOfFile) \/ toShell' = toShell
        /\ driver' = "end"
        /\ UNCHANGED <<toDriver, shell, cmd, writes, notes, list, proc, trace, at,
                       sent, prompts, late>>
    BY <1>9 DEF SendEof, History
  <2>2. EndOfFile.text # PROMPT
    BY OtherTexts DEF EndOfFile
  <2>3. LinesOK(toShell')
    BY <1>2, <2>1, <2>2, AppendedLine
  <2>4. EnvInv'
    BY <1>1, <1>2, <2>1, <2>3, EnvInvFrame
  <2>. QED BY <1>1, <2>1, <2>4 DEF RunInv, Balance
<1>10. CASE ShellEnds
  <2>1. /\ clean
        /\ driver' = "exited"
        /\ UNCHANGED <<toShell, toDriver, cmd, writes, notes, list, trace, at,
                       sent, prompts, late>>
    BY <1>10 DEF ShellEnds, Quits, History
  <2>2. ProcsOK(proc') /\ DOMAIN proc' = DOMAIN proc
    BY <1>2, <2>1, CleanedProcs
  <2>3. EnvInv'
    BY <1>1, <1>2, <2>1, <2>2, EnvInvFrame
  <2>. QED BY <1>1, <2>1, <2>3 DEF RunInv, Balance
<1>. QED BY <1>4, <1>5, <1>6, <1>7, <1>8, <1>9, <1>10, Zenon DEF DriverStep

\* A step of the shell or of one of its jobs.
LEMMA EnvKeeps ==
  ASSUME RunInv, EnvStep
  PROVE  RunInv'
<1>1. UNCHANGED <<trace, driver, at, sent, prompts, late>>
  BY DEF EnvStep, driverVars
<1>2. EnvInv /\ Load \in Nat
  BY LoadIsNat DEF RunInv
<1>3. EnvInv' /\ Load' <= Load
  <2>1. CASE MainStep
    BY <1>2, <2>1, MainKeeps
  <2>2. CASE HandlerStep
    BY <1>2, <2>2, HandlerKeeps
  <2>3. ASSUME NEW p \in Procs, ProcessStep(p) PROVE EnvInv' /\ Load' <= Load
    <3>1. QuietStep
      BY <1>2, <2>3, ProcessStepQuiet
    <3>. QED BY <1>2, <3>1, QuietStepKeeps
  <2>. QED BY <2>1, <2>2, <2>3 DEF EnvStep
<1>4. Load' \in Nat
  <2>1. (EnvInv => Load \in Nat)'
    BY LoadIsNat, PTL
  <2>. QED BY <1>3, <2>1
<1>. QED BY <1>1, <1>2, <1>3, <1>4 DEF RunInv, Balance, Owed

\* A timer expires, a job's alarm goes off, or the shell fails.
LEMMA TimerKeeps ==
  ASSUME RunInv, Timer \/ Alarm \/ Fault
  PROVE  RunInv'
<1>. USE DEF socketVars, shellVars, envVars
<1>1. /\ EnvInv /\ trace \in Traces /\ at \in Nat \ {0} /\ sent \in Nat /\ prompts \in Nat
      /\ Len(toShell) \in Nat /\ Count(toDriver) \in Nat /\ Load \in Nat
  BY LoadIsNat DEF RunInv
<1>2. ProcsOK(proc) /\ LinesOK(toShell) /\ IsSeq(toDriver)
  BY <1>1 DEF EnvInv
<1>3. CASE NoFirstPrompt \/ NoSync \/ NoPrompt
  <2>1. /\ UNCHANGED <<toShell, toDriver, shell, cmd, writes, notes, list, proc,
                       trace, at, sent, prompts>>
        /\ \/ driver = "start" /\ driver' = "trace" /\ late' = TRUE
           \/ driver' = "exited" /\ late' = late
    BY <1>3 DEF NoFirstPrompt, NoSync, NoPrompt, Quits
  <2>2. EnvInv'
    BY <1>1, <1>2, <2>1, EnvInvFrame
  <2>3. Len(toShell)' = Len(toShell) /\ Count(toDriver)' = Count(toDriver) /\ Busy' = Busy
    BY <2>1 DEF Count, PromptsAt, Busy
  <2>4. Load' = Load
    BY <2>3 DEF Load
  <2>. QED BY <1>1, <2>1, <2>2, <2>4 DEF RunInv, Balance, Owed
<1>4. CASE sigalrm_handler
  <2>1. /\ clean
        /\ driver' = "exited"
        /\ UNCHANGED <<toShell, toDriver, cmd, writes, notes, list, trace, at,
                       sent, prompts, late>>
    BY <1>4 DEF sigalrm_handler, Quits
  <2>2. ProcsOK(proc') /\ DOMAIN proc' = DOMAIN proc
    BY <1>2, <2>1, CleanedProcs
  <2>3. EnvInv'
    BY <1>1, <1>2, <2>1, <2>2, EnvInvFrame
  <2>. QED BY <1>1, <2>1, <2>3 DEF RunInv, Balance
<1>5. ASSUME NEW p \in Procs, JobAlarm(p) PROVE RunInv'
  <2>1. /\ UNCHANGED <<toShell, toDriver, shell, cmd, writes, notes, list,
                       trace, driver, at, sent, prompts, late>>
        /\ proc' = [proc EXCEPT ![p] = Dead(proc[p], "exited")]
    BY <1>5 DEF JobAlarm
  <2>2. ProcOK(Dead(proc[p], "exited"))
    BY <1>2, OneProcChanged DEF ProcsOK, Procs, Reports
  <2>3. ProcsOK(proc') /\ DOMAIN proc' = DOMAIN proc
    BY <1>2, <2>1, <2>2, ProcExcept, Zenon
  <2>4. QuietStep
    BY <2>1, <2>3 DEF QuietStep
  <2>5. EnvInv' /\ Load' = Load
    BY <1>1, <2>4, QuietStepKeeps
  <2>. QED BY <1>1, <2>1, <2>5 DEF RunInv, Balance, Owed
<1>6. CASE Fault
  <2>1. /\ UNCHANGED <<toShell, toDriver, cmd, writes, notes, list, proc,
                       trace, driver, at, sent, prompts, late>>
        /\ shell' \in {shell, "dead"}
    BY <1>6 DEF Fault, driverVars
  <2>2. EnvInv'
    BY <1>1, <1>2, <2>1, EnvInvFrame
  <2>3. /\ Len(toShell)' = Len(toShell) /\ Count(toDriver)' = Count(toDriver)
        /\ Busy' <= Busy /\ Busy \in {0, 1} /\ Busy' \in {0, 1}
    BY <2>1 DEF Count, PromptsAt, Busy
  <2>4. Load' \in Nat /\ Load' <= Load
    BY <1>1, <2>3 DEF Load
  <2>. QED BY <1>1, <2>1, <2>2, <2>4 DEF RunInv, Balance, Owed
<1>. QED BY <1>3, <1>4, <1>5, <1>6 DEF Timer, Alarm

\* Every step keeps the balance.
LEMMA RunInvNext ==
  RunInv /\ [Next]_vars => RunInv'
<1> SUFFICES ASSUME RunInv, [Next]_vars PROVE RunInv'
  OBVIOUS
<1>1. CASE UNCHANGED vars
  BY <1>1 DEF vars, envVars, socketVars, shellVars, driverVars, RunInv, EnvInv, Balance, Owed,
              Load, Busy, Count, PromptsAt
<1>2. CASE Next
  BY <1>2, DriverKeeps, EnvKeeps, TimerKeeps DEF Next
<1>. QED BY <1>1, <1>2

\* runtrace.c: when as many prompts ended a NEXT as lines were sent, the shell
\* has answered every line and waits for the next one, whatever the trace, the
\* shell's commands and their timing: what comes now belongs to the next line.
THEOREM ShellInStep ==
  Spec => []InStep
<1>1. RunInv => InStep
  <2> SUFFICES ASSUME RunInv, driver = "trace", prompts = sent, ~late
               PROVE  /\ shell \in {"read", "dead"}
                      /\ toShell = <<>>
                      /\ PROMPT \notin ToSet(toDriver)
    BY DEF InStep
  <2>1. EnvInv /\ sent \in Nat /\ Owed = 0 /\ Load <= Owed
    BY DEF RunInv, Owed, Balance
  <2>2. Len(toShell) = 0 /\ Count(toDriver) = 0 /\ Busy = 0
    BY <2>1, LoadIsNat DEF Load
  <2>3. PICK S : toShell \in Seq(S)
    BY <2>1 DEF EnvInv, LinesOK, IsSeq
  <2>4. toShell = <<>>
    BY <2>2, <2>3, EmptySeq
  <2>5. PROMPT \notin ToSet(toDriver)
    BY <2>1, <2>2, PromptsCounted DEF EnvInv
  <2>. QED BY <2>2, <2>4, <2>5 DEF Busy
<1>. QED BY <1>1, RunInvInit, RunInvNext, PTL DEF Spec

=============================================================================
