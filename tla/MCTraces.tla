------------------------------- MODULE MCTraces -------------------------------
(* The runs of MCRunStore, with what the page tells of a trace that ended.    *)
EXTENDS MCRunStore, Requests, Sources, Redact

\* Of a run that has ended, what is shown of its requests and turns is what they
\* were: each part from where it came, each change of the text that is shown of
\* two of them (of a thought, a call's id, is_error or metadata no change is), and
\* of groups of runs what is stable, however often it was read before; and nothing
\* in it is of the key
\* (core/diff.ts, core/sources.ts, core/redact.ts,
\* web/src/reqDiffs.ts).
TraceTold ==
  (\E r \in Runs : HasDone(file[r])) =>
    DiffsTell /\ DiffsFresh /\ TurnsLineUp /\ NothingLost /\ OriginsTold /\ GroupsFresh
    /\ NothingOfTheKey
=============================================================================
