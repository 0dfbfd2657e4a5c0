------------------------------- MODULE MCParts -------------------------------
(****************************************************************************)
(* Parts that keep something, side by side.  Of serve: the recording proxy  *)
(* with its transcripts, the proxies serve runs, the job slot with the      *)
(* tasks a user accepted, the notes file.  Of the commands: the bench with  *)
(* its rows and clones.  Of a run: the guard of the files its tools write,  *)
(* the history budget and the reader of its stubs.  They share no state, so *)
(* a step of one neither enables nor changes a step of another, and each    *)
(* behaviour of the whole is one of each part.  `part` says which one       *)
(* moves; one that does not has one initial state, in which nothing that is *)
(* fair is enabled.                                                         *)
(****************************************************************************)
EXTENDS Recorder, Proxies, Notes, Jobs, Bench, Guard, Stubs

CONSTANTS a, b, p1, p2, f1
VARIABLE part

vars == <<part, recorderVars, proxiesVars, notesVars, jobsVars, benchVars, guardVars, stubsVars>>

\* Two agents of one prompt.  With a session header and the dialect whose
\* results name their call, b only counts tokens or makes titles; without a
\* header and with results that go by their place, both hold a conversation.
Speaking(dialect, hinted, ofA, ofB) ==
  [dialect |-> dialect, hinted |-> hinted, name |-> [x \in Agents |-> "main"],
   sends |-> [x \in Agents |-> IF x = a THEN ofA ELSE ofB]]
TheClients ==
  {Speaking("anthropic", TRUE, {"main", "compaction"}, {"auxiliary"}),
   Speaking("openai-chat", FALSE, {"main", "compaction"}, {"main"})}

\* Two names of one file.
OneFile == [p \in {p1, p2} |-> f1]
\* With the guard: all is seen, the cap hides lines, the cut does, or ranges are off.
Setting(guarded, ranged, cap, cut) == [guard |-> guarded, ranges |-> ranged, cap |-> cap, cut |-> cut]
TheSettings ==
  {Setting(TRUE, TRUE, 2, 2), Setting(TRUE, TRUE, 1, 2), Setting(TRUE, TRUE, 2, 1),
   Setting(TRUE, FALSE, 2, 1), Setting(FALSE, TRUE, 2, 2)}

Init ==
  /\ part \in {"recorder", "proxies", "notes", "jobs", "bench", "guard", "stubs"}
  /\ RecorderInit /\ (part # "recorder" => client.hinted)
  /\ ProxiesInit /\ (part # "proxies" => MAX = 1)
  /\ NotesInit /\ JobsInit
  /\ BenchInit /\ (part # "bench" => setup)
  /\ GuardInit
  /\ part # "guard" => knobs.guard /\ knobs.cap = 1 /\ disk = [f \in Files |-> Absent]
  /\ StubsInit /\ (part # "stubs" => native /\ budget = 3)

Only(p) == part = p /\ part' = p

Next ==
  \/ Only("recorder") /\ RecorderNext /\ UNCHANGED <<proxiesVars, notesVars, jobsVars, benchVars, guardVars, stubsVars>>
  \/ Only("proxies") /\ ProxiesNext /\ UNCHANGED <<recorderVars, notesVars, jobsVars, benchVars, guardVars, stubsVars>>
  \/ Only("notes") /\ NotesNext /\ UNCHANGED <<recorderVars, proxiesVars, jobsVars, benchVars, guardVars, stubsVars>>
  \/ Only("jobs") /\ JobsNext /\ UNCHANGED <<recorderVars, proxiesVars, notesVars, benchVars, guardVars, stubsVars>>
  \/ Only("bench") /\ BenchNext /\ UNCHANGED <<recorderVars, proxiesVars, notesVars, jobsVars, guardVars, stubsVars>>
  \/ Only("guard") /\ GuardNext /\ UNCHANGED <<recorderVars, proxiesVars, notesVars, jobsVars, benchVars, stubsVars>>
  \/ Only("stubs") /\ StubsNext /\ UNCHANGED <<recorderVars, proxiesVars, notesVars, jobsVars, benchVars, guardVars>>

Spec == Init /\ [][Next]_vars /\ RecorderFairness /\ ProxiesFairness

\* What is told to stop does, and leaves all in order.  A stop of the recording
\* proxy comes back, whatever is in flight, with every outcome and every done in
\* the files (server.ts:233-241); once serve closes or dies, every proxy ends
\* (proxies.ts:112-117).  One statement, of which each part meets its own half:
\* the other's serve is up, and the other's stop is never asked for.
StopsEnd ==
  (stop = "aborted" \/ serve # "up") ~>
    (stop = "stopped" /\ AllRecorded) \/ (serve # "up" /\ NoOrphans)
=============================================================================
