--------------------------- MODULE MCEvolveClosed ---------------------------
(* The evolve of MCEvolve with the verdicts of the built-in tasks and the    *)
(* arithmetic it decides by: three tasks, one of the gate, five levels of    *)
(* cost, the edits of a short journal, and the traces of short runs.         *)
EXTENDS MCEvolve, Decisions, Edits, Checks, Failures, Consent

Fraction == [num |-> 3, den |-> 10]

Level(tokens, turns, ms, first, silent) ==
  [tokens |-> tokens, turns |-> turns, ms |-> ms, first |-> first, silent |-> silent]
\* The original's; quicker, with no reply on what failed; past every cost; with
\* a heavy prompt; of a server that gave no usage.
FiveLevels ==
  {Level(10, 2, 10, 4, FALSE), Level(10, 2, 8, 4, TRUE), Level(12, 3, 8, 5, FALSE),
   Level(11, 2, 10, 6, FALSE), Level(0, 0, 10, NoNumber, TRUE)}

Proposed ==
  [field : {"systemPrompt"}, value : {Text("plain"), Text("tied"), Text("hidden"), Text("command")}]
    \cup [field : {"maxTurns"}, value : {Number(5), Number(6), Number(8), Number(12)}]
    \cup [field : {"maxRepeats"}, value : {Number(0), Number(2), Number(4)}]
    \cup [field : {"freshContext"}, value : {Number(2), Number(4)}]
    \cup [field : {"tools"}, value : {Text("tied")}]

\* Where a round is decided, each run counted has the verdict its work deserves;
\* what is kept is a real gain within its costs, by a test that is exact; the
\* edits kept so far add up to a harness a run accepts; the next proposer hears
\* of failures in fixed words; and the commands that ran are those the user said
\* yes to (core/evolve.ts:28-257, core/analyze.ts, core/tasks.ts,
\* core/polyglot.ts, core/repo-tasks.ts).
VerdictsSound ==
  pc = "decide" =>
    /\ PristineTests /\ JudgementsAgree /\ ScoreExact
    /\ PermutationExact /\ GainIsReal /\ OneWinner /\ CostsTold /\ EditsContained
    /\ TracesTold /\ WordsAreOurs /\ SetsStay /\ LabelTellsWhy
    /\ ConsentMeansCommands
=============================================================================
