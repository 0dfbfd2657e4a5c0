-------------------------------- MODULE Guard --------------------------------
(****************************************************************************)
(* The read-before-edit guard: read_file, write_file and edit_file of       *)
(* core/tools/fs.ts with what run.ts does around a call: the cut of a       *)
(* ranged read, the count of failed edits, the reset of a fresh context.    *)
(*                                                                          *)
(* A file is the number of its lines; the byte cap of a read and the cut of *)
(* an output are lines too.  Two names may lead to one file (a symbolic     *)
(* link): the guard goes by the file, the count of misses by the name.      *)
(****************************************************************************)
EXTENDS Integers, Sequences, FiniteSets

CONSTANTS
  Paths,       \* the names the model uses
  FileOf,      \* the file a name leads to
  MaxLines,    \* bound: lines of a file
  Settings,    \* requireReadBeforeEdit and readRanges; readMaxBytes and
               \* maxToolOutputChars in lines (MaxLines or more: no cap, no cut)
  Escalation,  \* tools.editMissEscalation
  MaxSteps     \* bound: calls of the run

ASSUME GuardAssumption ==
  /\ MaxLines \in Nat \ {0} /\ MaxSteps \in Nat /\ Escalation \in Nat \ {0}
  /\ Settings \subseteq [guard : BOOLEAN, ranges : BOOLEAN, cap : Nat \ {0}, cut : Nat]

VARIABLES
  knobs,      \* the settings, chosen at the start
  disk,       \* the files: their lines, or Absent
  reads,      \* ctx.reads
  partReads,  \* ctx.partReads
  misses,     \* failed edits of a name
  wasReset,   \* the fresh context was taken
  log,        \* the calls since the reset, with what the model was shown
  steps       \* calls so far

guardVars == <<knobs, disk, reads, partReads, misses, wasReset, log, steps>>

Absent == -1
Files  == {FileOf[p] : p \in Paths}

GuardInit ==
  /\ knobs \in Settings
  /\ disk \in [Files -> {Absent, 0, MaxLines}]
  /\ reads = {} /\ partReads = {} /\ misses = [p \in Paths |-> 0]
  /\ wasReset = FALSE /\ log = <<>> /\ steps = 0

Least(i, j) == IF i < j THEN i ELSE j

\* A call as the log keeps it: from and to are the lines the model saw of a file
\* of `of` lines, `old` whether the file was there, `noted` the note of a miss.
Logged(op, p, how, from, to, of, noted) ==
  log' = Append(log, [op |-> op, path |-> p, how |-> how, from |-> from, to |-> to,
                      of |-> of, noted |-> noted])

\* run.ts counts a failed edit that the guard did not refuse; a success of any of
\* the three tools starts the count of that name over.
Missed(p)  == misses' = [misses EXCEPT ![p] = @ + 1]
Succeeded(p) == misses' = [misses EXCEPT ![p] = 0]

Step == steps < MaxSteps /\ steps' = steps + 1 /\ UNCHANGED <<knobs, wasReset>>

------------------------------------------------------------------------------
\* A call that never reaches the guard: no such tool argument, a path outside.
Fails(op, p) ==
  /\ Step /\ Logged(op, p, "failed", 0, 0, 0, op = "edit" /\ misses[p] + 1 >= Escalation)
  /\ IF op = "edit" THEN Missed(p) ELSE UNCHANGED misses
  /\ UNCHANGED <<disk, reads, partReads>>

\* Mutant: the cut of the output is not a part read.
PartOfCut(f, part, cut) == IF part THEN partReads \cup {f} ELSE partReads \ {f}
\* Part of the file: the range, the cap, or the cut of the output hides lines.
PartRead(f, part, cut) == IF part \/ cut THEN partReads \cup {f} ELSE partReads \ {f}

\* read_file: the head of the file, of that the range.  Without the knob the model
\* sees a head too, and the guard does not tell.
ReadFile(p, start, end) ==
  LET f     == FileOf[p]
      total == Least(disk[f], knobs.cap)
      last  == Least(end, total)
      shown == IF start > total THEN 0 ELSE last - start + 1
      cut   == shown > knobs.cut
      part  == start > 1 \/ end < total \/ disk[f] > knobs.cap
      to    == IF cut THEN start + knobs.cut - 1 ELSE last
  IN
  /\ Step /\ disk[f] # Absent
  /\ IF knobs.ranges THEN end >= start ELSE start = 1 /\ end = MaxLines
  /\ reads' = (IF knobs.guard THEN reads \cup {f} ELSE reads)
  /\ partReads' = IF knobs.guard /\ knobs.ranges THEN PartRead(f, part, cut) ELSE partReads
  /\ Succeeded(p) /\ Logged("read", p, "done", start, to, disk[f], FALSE)
  /\ UNCHANGED disk

\* write_file: a new file freely, one that is there when it was read, and whole.
WriteFile(p, n) ==
  LET f == FileOf[p]
      old == disk[f] # Absent
      blocked == knobs.guard /\ old /\ (f \notin reads \/ f \in partReads)
  IN
  /\ Step
  /\ IF blocked
     THEN /\ Logged("write", p, "refused", 0, 0, disk[f], FALSE)
          /\ UNCHANGED <<disk, reads, partReads, misses>>
     ELSE /\ disk' = [disk EXCEPT ![f] = n]
          /\ reads' = (IF knobs.guard THEN reads \cup {f} ELSE reads)
          /\ partReads' = partReads \ {f}
          /\ Succeeded(p) /\ Logged("write", p, IF old THEN "over" ELSE "new", 1, n, n, FALSE)

\* edit_file: only what was read, in whole or in part; then `old` has to occur once.
EditFile(p, n) ==
  LET f == FileOf[p]
  IN
  /\ Step /\ UNCHANGED partReads
  /\ IF knobs.guard /\ f \notin reads
     THEN Logged("edit", p, "refused", 0, 0, disk[f], FALSE) /\ UNCHANGED <<disk, reads, misses>>
     ELSE IF n = Absent \/ disk[f] = Absent
     THEN /\ Logged("edit", p, "failed", 0, 0, disk[f], misses[p] + 1 >= Escalation)
          /\ Missed(p) /\ UNCHANGED <<disk, reads>>
     ELSE /\ disk' = [disk EXCEPT ![f] = n] /\ Succeeded(p)
          /\ reads' = (IF knobs.guard THEN reads \cup {f} ELSE reads)
          /\ Logged("edit", p, "done", 0, 0, n, FALSE)

\* A command of the model changes a file behind the guard.
BashChanges(f) ==
  /\ Step /\ \E n \in {Absent, MaxLines} : n # disk[f] /\ disk' = [disk EXCEPT ![f] = n]
  /\ UNCHANGED <<reads, partReads, misses, log>>

\* loop.freshContext: the model has forgotten what it read.
FreshContext ==
  /\ ~wasReset /\ wasReset' = TRUE /\ log' = <<>>
  /\ reads' = {} /\ partReads' = {} /\ misses' = [p \in Paths |-> 0]
  /\ UNCHANGED <<knobs, disk, steps>>

GuardNext ==
  \/ \E p \in Paths :
       \/ \E op \in {"read", "write", "edit"} : Fails(op, p)
       \/ \E start \in 1 .. MaxLines + 1, end \in 0 .. MaxLines : ReadFile(p, start, end)
       \/ \E n \in {0, MaxLines} : WriteFile(p, n)
       \/ \E n \in {Absent, MaxLines} : EditFile(p, n)
  \/ \E f \in Files : BashChanges(f)
  \/ FreshContext

GuardSpec == GuardInit /\ [][GuardNext]_guardVars

------------------------------------------------------------------------------
GuardTypeOK ==
  /\ reads \cup partReads \subseteq Files /\ partReads \subseteq reads
  /\ ~knobs.guard => reads = {}
  /\ misses \in [Paths -> 0 .. MaxSteps] /\ disk \in [Files -> {Absent} \cup 0 .. MaxLines]

Of(f, J)   == {j \in J : FileOf[log[j].path] = f /\ log[j].how \in {"done", "over", "new"}}
Before(i)  == 1 .. i - 1
\* Of the reads and writes of a file before call i, the last.
Latest(f, i, j) ==
  /\ j \in Of(f, Before(i)) /\ log[j].op # "edit"
  /\ \A k \in Of(f, Before(i)) : log[k].op # "edit" => k <= j
\* The model saw or wrote all its lines as they were then.
Whole(j) == log[j].op = "write" \/ (log[j].from = 1 /\ log[j].to = log[j].of)

\* The failed edits of a name since its last success, up to call i.
MissesBefore(i) ==
  {j \in 1 .. i : /\ log[j].path = log[i].path /\ log[j].op = "edit" /\ log[j].how = "failed"
                  /\ \A k \in j .. i : log[k].path = log[i].path => log[k].how \in {"failed", "refused"}}

\* With the guard and ranges, a file that is there is overwritten only if the model
\* last saw it whole or wrote it itself, and is refused only if it did not; it is
\* edited only if something of it was read or written; all of that since the reset,
\* under whatever name.  A miss is noted exactly from the Nth one in a row on
\* (fs.ts:48-107, 125-145, run.ts:297-303, 320-328, 343).
GuardSafe ==
  /\ GuardTypeOK
  /\ \A i \in DOMAIN log :
       LET c == log[i]  f == FileOf[c.path]
       IN
       /\ knobs.guard /\ knobs.ranges /\ c.how = "over" => \E j \in Before(i) : Latest(f, i, j) /\ Whole(j)
       /\ c.op = "write" /\ c.how = "refused" => ~\E j \in Before(i) : Latest(f, i, j) /\ Whole(j)
       /\ knobs.guard /\ (c.how = "over" \/ (c.op = "edit" /\ c.how = "done")) => Of(f, Before(i)) # {}
       /\ c.noted <=> c.op = "edit" /\ c.how = "failed" /\ Cardinality(MissesBefore(i)) >= Escalation
=============================================================================
