-------------------------------- MODULE Bench --------------------------------
(****************************************************************************)
(* A bench on a repo's tasks: cmdBench and benchOnce of cli.ts, the clones  *)
(* of core/repo-clone.ts.                                                   *)
(*                                                                          *)
(* Every run has a clone of its own and shares the installed packages (the  *)
(* model may change both), its check runs in that clone, and each row is    *)
(* saved.  What a run or a check leaves in the background writes until it   *)
(* is killed (Children has what cannot be).  Signals, kill -9 and failing   *)
(* saves come at any step; a handler of SIGINT exits only when the table is *)
(* written, and until then the loop goes on.                                *)
(****************************************************************************)
EXTENDS Naturals, Sequences, FiniteSets

CONSTANTS
  Runs,      \* runs of the bench: rounds x tasks x harnesses
  Changes    \* what a model's command may change: of its clone, and of the packages

\* Of the packages all runs share: "modules" is what the fingerprint shows (the
\* .bin entries, a package's package.json and top-level code, by size and mtime),
\* "unseen" what it does not, such as a file deeper in a package.
Packages == {"modules", "unseen"}

ASSUME BenchAssumption ==
  Runs \in Nat /\ Changes \subseteq {"protected", "link"} \cup Packages

VARIABLES
  setup,      \* chosen at the start: the tasks have a setup command
  at,         \* where the bench is
  run,        \* the run it is at, 0 before the first; clone 0 is the setup's
  row,        \* the row of that run so far
  rows,       \* rows pushed
  flags,      \* result.complete, result.stopped
  json,       \* the file: rows saved and flags; NoJson before the first save
  dirs,       \* clones on disk
  LIVE,       \* clones the exit hook knows
  left,       \* clones whose removal failed, or that git was making when we stopped
  changed,    \* what is not as the harness made it: in the clone, or the packages
  strays,     \* a background child of a run, a check or the setup is alive
  hooked,     \* the registry has its signal handlers
  watching,   \* bench has its own
  exited       \* "" while it runs, "leaving" after its handler, then how it went

benchVars == <<setup, at, run, row, rows, flags, json, dirs, LIVE, left, changed,
               strays, hooked, watching, exited>>

NoJson == [rows |-> 0, complete |-> FALSE, stopped |-> FALSE, there |-> FALSE]
\* began: how the packages differed from the installed ones when its run began;
\* fair: when its check ran, its clone was as made.
NewRow == [verdict |-> "FAIL", began |-> changed \cap Packages, fair |-> FALSE]

BenchInit ==
  /\ setup \in BOOLEAN /\ at = "preflight" /\ run = 0
  /\ row = [verdict |-> "FAIL", began |-> {}, fair |-> FALSE] /\ rows = <<>>
  /\ flags = [complete |-> FALSE, stopped |-> FALSE] /\ json = NoJson
  /\ dirs = {} /\ LIVE = {} /\ left = {} /\ changed = {} /\ strays = FALSE
  /\ hooked = FALSE /\ watching = FALSE /\ exited = ""

Alive     == exited \in {"", "leaving"}
BenchAt(place) == Alive /\ at = place
Cloning   == at \in {"cloning", "preparing"}

files == <<json, flags>>
clones  == <<dirs, LIVE, left>>
model == <<changed, strays>>
proc  == <<hooked, watching, exited>>

\* removeAllClonesSync, in dropWork and at an exit.  What git is cloning right
\* now it may write again.
removeAllClones ==
  /\ dirs' = dirs \ LIVE /\ LIVE' = {}
  /\ left' = IF Cloning THEN left \cup {run} ELSE left

\* One clone is removed; a removal that fails is said, and is not tried again.
removeClone ==
  /\ LIVE' = LIVE \ {run}
  /\ \/ dirs' = dirs \ {run} /\ left' = left
     \/ run \in dirs /\ dirs' = dirs /\ left' = left \cup {run}

\* An exit of any code runs the hooks: no clone and no child stays.
exits(code) ==
  /\ exited' = code /\ removeAllClones /\ strays' = FALSE
  /\ UNCHANGED <<setup, at, run, row, rows, flags, json, changed, hooked, watching>>

Saved(r, f) == [rows |-> Len(r), complete |-> f.complete, stopped |-> f.stopped, there |-> TRUE]

------------------------------------------------------------------------------
\* Before the first run.

preflight ==
  /\ BenchAt("preflight")
  /\ \/ exits("refused")
     \/ /\ at' = IF setup THEN "cloning" ELSE "opening"
        /\ IF setup THEN dirs' = {0} /\ LIVE' = {0} ELSE UNCHANGED <<dirs, LIVE>>
        /\ UNCHANGED <<setup, run, row, rows, files, left, model, proc>>

\* prepareModules: a clone of its own, then the command; either may fail.
SetupCloned ==
  /\ BenchAt("cloning")
  /\ \/ at' = "setup" /\ hooked' = TRUE
        /\ UNCHANGED <<setup, run, row, rows, files, clones, model, watching, exited>>
     \/ exits("refused")
SetupRan ==
  /\ BenchAt("setup")
  /\ \/ at' = "setup done" /\ strays' \in BOOLEAN
        /\ UNCHANGED <<setup, run, row, rows, files, clones, changed, proc>>
     \/ exits("refused")
KillSetup ==
  /\ BenchAt("setup done") /\ at' = "opening" /\ strays' = FALSE
  /\ UNCHANGED <<setup, run, row, rows, files, clones, changed, proc>>

\* The first save, then the handler, then the fingerprint of the modules.
FirstSave ==
  /\ BenchAt("opening")
  /\ \/ exits("refused")
     \/ /\ json' = Saved(rows, flags) /\ watching' = TRUE /\ at' = "fingerprint"
        /\ UNCHANGED <<setup, run, row, rows, flags, clones, model, hooked, exited>>
modulesManifest ==
  /\ BenchAt("fingerprint") /\ at' = "next"
  /\ changed' = {}
  /\ UNCHANGED <<setup, run, row, rows, files, clones, strays, proc>>

------------------------------------------------------------------------------
\* benchOnce.

\* prepare: cloneAt, and the link to the modules.
Prepare ==
  /\ BenchAt("next") /\ run < Runs /\ at' = "preparing"
  /\ run' = run + 1 /\ row' = NewRow
  /\ dirs' = dirs \cup {run + 1} /\ LIVE' = LIVE \cup {run + 1}
  /\ changed' = changed \cap Packages
  /\ UNCHANGED <<setup, rows, files, left, strays, proc>>
\* A clone that fails is removed at once; one whose link fails stays until the
\* end, for benchOnce was never told its directory.
Prepared ==
  /\ BenchAt("preparing")
  /\ \/ at' \in {"agent", "unprepared"} /\ UNCHANGED clones
     \/ at' = "unprepared" /\ removeClone
  /\ UNCHANGED <<setup, run, row, rows, files, model, proc>>

\* What a command of the model does, while its clone is there.
Works ==
  /\ changed' \in {changed \cup c : c \in SUBSET (IF run \in dirs THEN Changes ELSE {})}
  /\ strays' \in BOOLEAN /\ hooked' = TRUE

\* execRun: the agent is done, was stopped by the server (a run with nothing to
\* check), or its trace could not be written.
execRun ==
  /\ BenchAt("agent") /\ at' \in {"ran", "stopped", "tidy"} /\ Works
  /\ UNCHANGED <<setup, run, row, rows, files, clones, watching, exited>>

\* Mutant: the check does not wait for what the run left.
KillNothing ==
  /\ BenchAt("ran") \/ BenchAt("stopped")
  /\ at' = (IF at = "ran" THEN "protected" ELSE "tidy") /\ strays' = strays
  /\ UNCHANGED <<setup, run, row, rows, files, clones, changed, proc>>
\* What the run left in the background dies before the check looks at the files.
KillLeftovers ==
  /\ BenchAt("ran") \/ BenchAt("stopped")
  /\ at' = (IF at = "ran" THEN "protected" ELSE "tidy") /\ strays' = FALSE
  /\ UNCHANGED <<setup, run, row, rows, files, clones, changed, proc>>

\* The check: protected files, the link, then the command.  A clone that is gone
\* is an error, and a FAIL.
protectedChanged ==
  /\ BenchAt("protected")
  /\ at' = IF run \in dirs /\ "protected" \notin changed THEN "link" ELSE "tidy"
  /\ UNCHANGED <<setup, run, row, rows, files, clones, model, proc>>
modulesTampered ==
  /\ BenchAt("link")
  /\ at' = IF run \in dirs /\ "link" \notin changed THEN "command" ELSE "tidy"
  /\ UNCHANGED <<setup, run, row, rows, files, clones, model, proc>>
runCheck ==
  /\ BenchAt("command") /\ at' = "tidy" /\ Works
  /\ \E v \in {"FAIL"} \cup (IF run \in dirs THEN {"PASS"} ELSE {}) :
       row' = [row EXCEPT !.verdict = v, !.fair = changed \cap {"protected", "link"} = {}]
  /\ UNCHANGED <<setup, run, rows, files, clones, watching, exited>>

\* finally: the check's leftovers die, then the clone goes, when there is one to
\* dispose of.
Tidy ==
  /\ \/ BenchAt("tidy") /\ at' = "dispose"
     \/ BenchAt("unprepared") /\ at' = "record"
  /\ strays' = FALSE
  /\ UNCHANGED <<setup, run, row, rows, files, clones, changed, proc>>
finishRun ==
  /\ BenchAt("dispose") /\ at' = "record" /\ removeClone
  /\ UNCHANGED <<setup, run, row, rows, files, model, proc>>

------------------------------------------------------------------------------
\* The loop of cmdBench.

\* A save that fails throws out of the loop.
Record ==
  /\ BenchAt("record") /\ rows' = Append(rows, row)
  /\ \/ /\ json' = Saved(rows', flags) /\ at' = "modules"
        /\ UNCHANGED <<setup, run, row, flags, clones, model, proc>>
     \/ /\ exited' = "thrown" /\ removeAllClones /\ strays' = FALSE
        /\ UNCHANGED <<setup, at, run, row, files, changed, hooked, watching>>

\* The run changed the packages where the fingerprint shows it: nothing after it
\* would be measured right.
ModulesChecked ==
  /\ BenchAt("modules")
  /\ IF "modules" \in changed
     THEN at' = "finish" /\ removeAllClones
     ELSE at' = "next" /\ UNCHANGED clones
  /\ UNCHANGED <<setup, run, row, rows, files, model, proc>>

Complete ==
  /\ BenchAt("next") /\ run = Runs
  /\ removeAllClones /\ flags' = [flags EXCEPT !.complete = TRUE]
  /\ \/ json' = Saved(rows, flags') /\ at' = "finish" /\ UNCHANGED <<strays, exited>>
     \/ json' = json /\ at' = at /\ strays' = FALSE /\ exited' = "thrown"
  /\ UNCHANGED <<setup, run, row, rows, changed, hooked, watching>>
finish == BenchAt("finish") /\ exits("done")

\* SIGINT: dropWork, stopped, save; the exit comes with the end of the table.
\* Before that handler the registry's own exits, and before that nothing does.
CtrlC ==
  /\ exited = ""
  /\ \/ /\ watching /\ exited' = "leaving" /\ removeAllClones /\ strays' = FALSE
        /\ flags' = [flags EXCEPT !.stopped = TRUE]
        /\ json' \in {json, Saved(rows, flags')}
        /\ UNCHANGED <<setup, at, run, row, rows, changed, hooked, watching>>
     \/ ~watching /\ hooked /\ exits("signal")
     \/ /\ ~watching /\ ~hooked /\ exited' = "default"
        /\ UNCHANGED <<setup, at, run, row, rows, files, clones, model, hooked, watching>>
LeaveBench  == exited = "leaving" /\ exits("signal")
Kill9  == Alive /\ exited' = "killed"
          /\ UNCHANGED <<setup, at, run, row, rows, files, clones, model, hooked, watching>>

\* What is left in the background goes on until it is killed.
StrayWrites ==
  /\ Alive /\ strays
  /\ \E c \in Changes : (run \in dirs \/ c \in Packages) /\ changed' = changed \cup {c}
  /\ UNCHANGED <<setup, at, run, row, rows, files, clones, strays, proc>>

BenchNext ==
  \/ preflight \/ SetupCloned \/ SetupRan \/ KillSetup \/ FirstSave \/ modulesManifest
  \/ Prepare \/ Prepared \/ execRun \/ KillLeftovers \/ protectedChanged \/ modulesTampered
  \/ runCheck \/ Tidy \/ finishRun \/ Record \/ ModulesChecked \/ Complete \/ finish
  \/ CtrlC \/ LeaveBench \/ Kill9 \/ StrayWrites

BenchSpec == BenchInit /\ [][BenchNext]_benchVars

------------------------------------------------------------------------------
BenchTypeOK ==
  /\ run \in 0 .. Runs /\ Len(rows) <= run /\ json.rows <= Len(rows)
  /\ dirs \cup LIVE \cup left \subseteq 0 .. Runs /\ changed \subseteq Changes
  /\ exited \in {"", "leaving", "refused", "thrown", "done", "signal", "default", "killed"}

\* Every row, PASS or FAIL, is of a run that began with the packages as installed
\* in all that the fingerprint shows, and a PASS is of a check that ran on
\* protected files and a link as made, though the model, its background children
\* and earlier runs may write to all of them (cli.ts:335-342, 386-390, 543-544,
\* 581-586).  A file deeper in a package is not watched, and a run may begin with
\* it changed (repo-clone.ts:164-186, README.md:399-401).
RowsFair ==
  \A i \in DOMAIN rows :
    rows[i].began \subseteq {"unseen"} /\ (rows[i].verdict = "PASS" => rows[i].fair)

\* Wherever the bench is stopped, its file has all rows but the last, says it is
\* complete only with all of them, and a done bench says so or was refused by a
\* run that was seen to change the packages (cli.ts:548-552, 580-592).
FileFollows ==
  /\ json.there => json.rows + 1 >= Len(rows)
  /\ json.complete => json.rows = Runs
  /\ exited = "done" => json.rows = Len(rows) /\ (json.complete \/ "modules" \in changed)

\* However it ends, but for kill -9, no clone and no background child stays: a
\* removal that failed was said, and what git is cloning in that moment may stay
\* (repo-clone.ts:18-29, cli.ts:402-408).  A SIGINT that comes before the first
\* child was started meets no handler, and no 'exit' is emitted.
NothingLeft ==
  exited \in {"refused", "thrown", "done", "signal"} => dirs \subseteq left /\ ~strays

BenchSound == BenchTypeOK /\ RowsFair /\ FileFollows /\ NothingLeft
=============================================================================
