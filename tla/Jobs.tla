-------------------------------- MODULE Jobs --------------------------------
(****************************************************************************)
(* The bench or evolve serve runs for the page: the job slot of             *)
(* server/index.ts, and the consent of core/repo-tasks.ts that stands       *)
(* between a repo and the commands in it.                                   *)
(*                                                                          *)
(* A start is a request handler with awaits between its checks; starts      *)
(* overlap, the user commits other tasks to the repo, accepts a text the    *)
(* page showed some time ago, presses Stop.  A version of the tasks stands  *)
(* for all a consent text says; 0 is none.                                  *)
(****************************************************************************)
EXTENDS Naturals, Sequences, FiniteSets

CONSTANTS
  Versions,   \* the tasks the repo has, one after the other: 1, 2, ...
  MaxAsks,    \* bound: starts the page asks for
  BenchKinds  \* the bench starts: {"new", "again"}

ASSUME JobsAssumption == MaxAsks \in Nat /\ 1 \in Versions /\ Versions \subseteq Nat \ {0}

VARIABLES
  \* serve, in memory
  asks,         \* the start requests, in the order they came
  job,          \* the child in the slot, 0 for none
  stopping,     \* a bench was stopped since the last one started
  lastEvolve,   \* the evolve that ended last, 0 for none
  \* the children it spawned
  spawned,
  \* the repo, the consent file, and what the user accepted
  head,
  consent,
  shown,        \* versions whose text the page has
  accepted      \* history: versions the user said yes to

jobsVars == <<asks, job, stopping, lastEvolve, spawned, head, consent, shown, accepted>>

\* A request: dir is the directory of its harnesses, which the start removes
\* when it spawns nothing, else the child's exit.
Ask(kind, at, accept) ==
  [kind |-> kind, at |-> at, accept |-> accept, tasks |-> 0, child |-> 0, status |-> 0,
   dir |-> kind = "again"]
Answered(status) == [Ask("", "answered", 0) EXCEPT !.status = status]
NewChild(kind, dir) ==
  [kind |-> kind, proc |-> "loading", exit |-> FALSE, json |-> FALSE, sigint |-> FALSE,
   tasks |-> 0, dir |-> dir]

JobsInit ==
  /\ asks = <<>> /\ job = 0 /\ stopping = FALSE /\ lastEvolve = 0 /\ spawned = <<>>
  /\ head = 1 /\ consent = 0 /\ shown = {} /\ accepted = {}

\* serve takes a child as running until it sees its exit.
runningKind == IF job # 0 /\ ~spawned[job].exit THEN spawned[job].kind ELSE "none"
busy        == runningKind # "none"

AskAt(a, where)     == a \in DOMAIN asks /\ asks[a].at = where
Moved(a, where)  == [asks EXCEPT ![a].at = where]
Answer(a, status) == [asks EXCEPT ![a] = Answered(status)]

------------------------------------------------------------------------------
\* Bench: bench/new and bench/again come to startBench.

\* The body is checked, and for "again" its harnesses are written to a directory
\* of their own; startBench looks at the slot.
AskBench(kind) ==
  /\ Len(asks) < MaxAsks
  /\ asks' = Append(asks, IF busy THEN Answered(409) ELSE Ask(kind, "naming", 0))
  /\ UNCHANGED <<job, stopping, lastEvolve, spawned, head, consent, shown, accepted>>

\* Mutant: the slot is not looked at again.
StartUnchecked(a) ==
  /\ AskAt(a, "naming")
  /\ spawned' = Append(spawned, NewChild("bench", asks[a].dir))
  /\ job' = Len(spawned) + 1 /\ stopping' = FALSE
  /\ asks' = [Moved(a, "waiting") EXCEPT ![a].child = Len(spawned) + 1, ![a].dir = FALSE]
  /\ UNCHANGED <<lastEvolve, head, consent, shown, accepted>>

\* The awaits let another start in: the slot is looked at again, then taken.
StartBench(a) ==
  /\ AskAt(a, "naming")
  /\ IF busy THEN asks' = Answer(a, 409) /\ UNCHANGED <<spawned, job, stopping>>
     ELSE /\ spawned' = Append(spawned, NewChild("bench", asks[a].dir))
          /\ job' = Len(spawned) + 1 /\ stopping' = FALSE
          /\ asks' = [Moved(a, "waiting") EXCEPT ![a].child = Len(spawned) + 1, ![a].dir = FALSE]
  /\ UNCHANGED <<lastEvolve, head, consent, shown, accepted>>

\* It waits for the bench's JSON, which is there once it is past preflight; the
\* exit ends the wait too.
AnswerBench(a) ==
  LET c == spawned[asks[a].child] IN
  /\ AskAt(a, "waiting") /\ (c.json \/ c.exit)
  /\ asks' = Answer(a, IF c.json THEN 201 ELSE 502)
  /\ UNCHANGED <<job, stopping, lastEvolve, spawned, head, consent, shown, accepted>>

------------------------------------------------------------------------------
\* Evolve: evolve/start.

\* An accept is the hash of a text the page showed, or none.
AskEvolve(accept) ==
  /\ Len(asks) < MaxAsks /\ accept \in {0} \cup accepted
  /\ asks' = Append(asks, IF busy THEN Answered(409) ELSE Ask("evolve", "loading", accept))
  /\ UNCHANGED <<job, stopping, lastEvolve, spawned, head, consent, shown, accepted>>

\* The tasks are read at HEAD.
LoadTasks(a) ==
  /\ AskAt(a, "loading")
  /\ asks' = [Moved(a, "consent") EXCEPT ![a].tasks = head]
  /\ UNCHANGED <<job, stopping, lastEvolve, spawned, head, consent, shown, accepted>>

\* Accepted before, accepted now, or 409 with the text.
CheckConsent(a) ==
  LET t == asks[a].tasks IN
  /\ AskAt(a, "consent")
  /\ \/ consent = t /\ asks' = Moved(a, "spawning") /\ UNCHANGED shown
     \/ consent # t /\ asks[a].accept = t /\ asks' = Moved(a, "saving") /\ UNCHANGED shown
     \/ consent # t /\ asks[a].accept # t /\ asks' = Answer(a, 409) /\ shown' = shown \cup {t}
  /\ UNCHANGED <<job, stopping, lastEvolve, spawned, head, consent, accepted>>

SaveConsent(a) ==
  /\ AskAt(a, "saving") /\ consent' = asks[a].tasks /\ asks' = Moved(a, "spawning")
  /\ UNCHANGED <<job, stopping, lastEvolve, spawned, head, shown, accepted>>

StartEvolve(a) ==
  /\ AskAt(a, "spawning")
  /\ IF busy THEN asks' = Answer(a, 409) /\ UNCHANGED <<spawned, job>>
     ELSE /\ spawned' = Append(spawned, NewChild("evolve", FALSE))
          /\ job' = Len(spawned) + 1
          /\ asks' = Answer(a, 201)
  /\ UNCHANGED <<stopping, lastEvolve, head, consent, shown, accepted>>

------------------------------------------------------------------------------
\* Stop, of the kind that runs: SIGINT to the child of the slot.
StopJob(kind) ==
  /\ runningKind = kind
  /\ stopping' = (stopping \/ kind = "bench")
  /\ spawned' = [spawned EXCEPT ![job].sigint = TRUE]
  /\ UNCHANGED <<asks, job, lastEvolve, head, consent, shown, accepted>>

\* The user reads a text and says yes; and commits other tasks.
Accept(v) ==
  /\ v \in shown \ accepted /\ accepted' = accepted \cup {v}
  /\ UNCHANGED <<asks, job, stopping, lastEvolve, spawned, head, consent, shown>>
Commit ==
  /\ head + 1 \in Versions /\ head' = head + 1
  /\ UNCHANGED <<asks, job, stopping, lastEvolve, spawned, consent, shown, accepted>>

------------------------------------------------------------------------------
\* The children.

JobChild(c, p) == spawned' = [spawned EXCEPT ![c] = p]
                /\ UNCHANGED <<asks, job, stopping, lastEvolve, head, consent, shown, accepted>>

\* A bench is past preflight and saves its JSON before the first run.
BenchRuns(c) ==
  /\ spawned[c].kind = "bench" /\ spawned[c].proc = "loading"
  /\ JobChild(c, [spawned[c] EXCEPT !.proc = "running", !.json = TRUE])

\* An evolve reads the tasks itself, at the HEAD of now, and asks for consent:
\* without a terminal it goes on only under the one that is saved.
EvolveLoads(c) ==
  /\ spawned[c].kind = "evolve" /\ spawned[c].proc = "loading" /\ spawned[c].tasks = 0
  /\ JobChild(c, [spawned[c] EXCEPT !.tasks = head])
EvolveAsks(c) ==
  /\ spawned[c].kind = "evolve" /\ spawned[c].proc = "loading" /\ spawned[c].tasks # 0
  /\ JobChild(c, [spawned[c] EXCEPT !.proc = IF consent = spawned[c].tasks THEN "running" ELSE "dead"])

\* It ends: done, failed, stopped.  serve sees the exit later.
JobEnds(c)  == spawned[c].proc # "dead" /\ JobChild(c, [spawned[c] EXCEPT !.proc = "dead"])
SeeJobExit(c) ==
  /\ spawned[c].proc = "dead" /\ ~spawned[c].exit
  /\ spawned' = [spawned EXCEPT ![c].exit = TRUE, ![c].dir = FALSE]
  /\ lastEvolve' = IF spawned[c].kind = "evolve" THEN c ELSE lastEvolve
  /\ UNCHANGED <<asks, job, stopping, head, consent, shown, accepted>>

JobsNext ==
  \/ \E kind \in BenchKinds : AskBench(kind)
  \/ \E accept \in {0} \cup Versions : AskEvolve(accept)
  \/ \E a \in DOMAIN asks :
       StartBench(a) \/ AnswerBench(a) \/ LoadTasks(a) \/ CheckConsent(a) \/ SaveConsent(a) \/ StartEvolve(a)
  \/ \E kind \in {"bench", "evolve"} : StopJob(kind)
  \/ \E v \in Versions : Accept(v)
  \/ Commit
  \/ \E c \in DOMAIN spawned :
       BenchRuns(c) \/ EvolveLoads(c) \/ EvolveAsks(c) \/ JobEnds(c) \/ SeeJobExit(c)

JobsSpec == JobsInit /\ [][JobsNext]_jobsVars

------------------------------------------------------------------------------
JobsTypeOK ==
  /\ job \in {0} \cup DOMAIN spawned /\ lastEvolve \in {0} \cup DOMAIN spawned
  /\ stopping \in BOOLEAN /\ head \in Versions /\ consent \in {0} \cup Versions
  /\ \A a \in DOMAIN asks : asks[a].status \in {0, 201, 409, 502}
                            /\ asks[a].child \in {0} \cup DOMAIN spawned

\* One bench or evolve at a time, whatever starts overlap: both would share one
\* model server (server/index.ts:65-66, 83-88, 251, 285).
OneJob == Cardinality({c \in DOMAIN spawned : spawned[c].proc # "dead"}) <= 1

\* No evolve runs tasks the user has not accepted, though the repo changes
\* between the text the page showed, the start, the spawn and the child's own
\* read (server/index.ts:245-286, repo-tasks.ts:123-138, cli.ts:469-482).
AcceptedOnly ==
  \A c \in DOMAIN spawned :
    spawned[c].kind = "evolve" /\ spawned[c].proc = "running" => spawned[c].tasks \in accepted

\* Both: the slot and the consent (server/index.ts:65-104, 245-297).
JobsSafe == JobsTypeOK /\ OneJob /\ AcceptedOnly
=============================================================================
