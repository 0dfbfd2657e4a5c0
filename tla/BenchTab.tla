------------------------------- MODULE BenchTab -------------------------------
(****************************************************************************)
(* The Bench tab of the page (web/src/Bench.vue): a chain of polls that     *)
(* reads the opened bench and its running trace, a panel that follows that  *)
(* trace or is pinned to one run's event stream, and a user who opens files *)
(* and runs while polls and streams are under way.                          *)
(*                                                                          *)
(* A bench is the run it is at and how many events that run's trace has;    *)
(* runs of a bench go one after another.  Answers come in any order, or     *)
(* fail.  A poll is overtaken when `gen` has moved on since it was asked:   *)
(* the one that was not is `ask`, the overtaken are `late`.                 *)
(****************************************************************************)
EXTENDS Naturals, FiniteSets

CONSTANTS
  Benches,   \* bench files
  Going,     \* the one that runs; the runs of the others are over
  NoBench,
  MaxRuns,   \* bound: runs of a bench
  MaxLen,    \* bound: events of a run
  MaxClicks  \* bound: what the user does

ASSUME BenchTabAssumption ==
  NoBench \notin Benches /\ Going \in Benches /\ {MaxRuns, MaxLen, MaxClicks} \subseteq Nat

VARIABLES
  bench,        \* in serve: for each file the run it is at, its events, whether it is live
  mounted,      \* the tab is on screen
  opened,       \* the opened file
  sel,          \* "live" (0) or the run the panel is pinned to
  active,       \* the running trace as the last poll told it
  events,       \* what the panel shows: of which file and run, how much
  stream,       \* the event stream of the pinned run is open
  ask,          \* the poll under way: its file, its answer once serve has read it
  late,         \* overtaken polls still under way
  timer,        \* the next poll is set
  error,        \* the line on screen: "", "fetch", "stream"
  fetchFailed,
  clicks,
  tabs          \* bound: how often the tab may still be opened

benchTabVars == <<bench, mounted, opened, sel, active, events, stream, ask, late, timer, error,
                  fetchFailed, clicks, tabs>>
panel == <<sel, active, events, stream>>
errorLine == <<error, fetchFailed>>

Live    == 0
NoTrace == [file |-> NoBench, run |-> 0, len |-> 0]
NoAsk   == [file |-> NoBench, got |-> NoTrace, state |-> "none"]

Trace(f) == IF bench[f].live THEN [file |-> f, run |-> bench[f].run, len |-> bench[f].len] ELSE NoTrace
Full(f, k) == IF k < bench[f].run \/ ~bench[f].live THEN MaxLen ELSE bench[f].len

BenchTabInit ==
  /\ bench = [f \in Benches |-> IF f = Going THEN [run |-> 1, len |-> 0, live |-> TRUE]
                              ELSE [run |-> MaxRuns, len |-> MaxLen, live |-> FALSE]]
  /\ mounted = FALSE /\ opened = NoBench
  /\ sel = Live /\ active = NoTrace /\ events = NoTrace /\ stream = FALSE
  /\ ask = NoAsk /\ late = {} /\ timer = FALSE
  /\ error = "" /\ fetchFailed = FALSE /\ clicks = 0 /\ tabs = 1

------------------------------------------------------------------------------
\* In serve: a run's trace grows, is renamed when the run ends, the next one begins.
BenchGoes(f) ==
  /\ \/ bench[f].live /\ bench[f].len < MaxLen /\ bench' = [bench EXCEPT ![f].len = @ + 1]
     \/ bench[f].live /\ bench[f].len = MaxLen /\ bench' = [bench EXCEPT ![f].live = FALSE]
     \/ /\ ~bench[f].live /\ bench[f].run < MaxRuns
        /\ bench' = [bench EXCEPT ![f] = [run |-> @.run + 1, len |-> 0, live |-> TRUE]]
  /\ UNCHANGED <<mounted, opened, panel, ask, late, timer, errorLine, clicks, tabs>>

Read(a) == [a EXCEPT !.state = "read", !.got = IF a.file = NoBench THEN NoTrace ELSE Trace(a.file)]
\* Serve reads for a poll.
Serve ==
  /\ \/ ask.state = "asked" /\ ask' = Read(ask) /\ late' = late
     \/ \E l \in late : l.state = "asked" /\ late' = (late \ {l}) \cup {Read(l)} /\ ask' = ask
  /\ UNCHANGED <<bench, mounted, opened, panel, timer, errorLine, clicks, tabs>>

------------------------------------------------------------------------------
\* tick: asked with the file of that moment; restart overtakes the one under way.
Asks(f) ==
  /\ ask' = [file |-> f, got |-> NoTrace, state |-> "asked"] /\ timer' = FALSE
  /\ late' = IF ask.state = "none" THEN late ELSE late \cup {ask}

\* Opened with no file: the poll asks for the list alone.
OpenTab ==
  /\ tabs > 0 /\ tabs' = tabs - 1 /\ mounted' = TRUE /\ Asks(opened)
  /\ UNCHANGED <<bench, opened, panel, errorLine, clicks>>

NextTick ==
  /\ mounted /\ timer /\ Asks(opened)
  /\ UNCHANGED <<bench, mounted, opened, panel, errorLine, clicks, tabs>>

\* watch(sel): the old stream is closed, the panel begins anew.
Pinned(k) ==
  /\ sel' = k /\ stream' = (k # Live)
  /\ events' = IF k = Live THEN active' ELSE [file |-> opened, run |-> k, len |-> 0]

\* What an answer that is applied does: the trace it followed is over, and the panel
\* is pinned to it; or the panel goes on with the running one.
Followed(now) ==
  /\ active' = now
  /\ IF sel = Live /\ active.run # 0 /\ now.run # active.run THEN Pinned(active.run)
     ELSE /\ events' = (IF sel = Live /\ now.run # 0 THEN now ELSE events)
          /\ UNCHANGED <<sel, stream>>
PinsNow(now) == sel = Live /\ active.run # 0 /\ now.run # active.run

Applied(a) ==
  /\ IF opened = NoBench THEN UNCHANGED panel ELSE Followed(a.got)
  /\ error' = (IF fetchFailed \/ (opened # NoBench /\ PinsNow(a.got)) THEN "" ELSE error)
  /\ fetchFailed' = FALSE

\* Mutant: an overtaken answer is taken for the news it once was.
OvertakenShown(l) ==
  /\ late' = late \ {l} /\ (IF mounted THEN Applied(l) ELSE UNCHANGED <<panel, errorLine>>)
\* An overtaken answer changes nothing.
Overtaken(l) == late' = late \ {l} /\ UNCHANGED <<panel, errorLine>>

PollAnswered ==
  /\ ask.state = "read" /\ ask' = NoAsk /\ timer' = mounted
  /\ IF mounted THEN Applied(ask) ELSE UNCHANGED <<panel, errorLine>>
  /\ UNCHANGED <<bench, mounted, opened, late, clicks, tabs>>
\* (Lost before serve read it or after is the same to the page.)
Failed ==
  /\ ask.state = "read" /\ ask' = NoAsk /\ timer' = mounted
  /\ error' = "fetch" /\ fetchFailed' = TRUE
  /\ UNCHANGED <<bench, mounted, opened, panel, late, clicks, tabs>>
AnsweredLate ==
  /\ \E l \in late : l.state = "read" /\ Overtaken(l)
  /\ UNCHANGED <<bench, mounted, opened, ask, timer, clicks, tabs>>

------------------------------------------------------------------------------
\* The event stream of the pinned run: event by event, closed by `done` or given up.
StreamEvent ==
  /\ mounted /\ stream /\ events.len < Full(opened, sel)
  /\ events' = [events EXCEPT !.len = @ + 1]
  /\ stream' = (events.len + 1 < MaxLen)
  /\ UNCHANGED <<bench, mounted, opened, sel, active, ask, late, timer, errorLine, clicks, tabs>>
StreamGone ==
  /\ mounted /\ stream /\ stream' = FALSE /\ error' = "stream"
  /\ UNCHANGED <<bench, mounted, opened, sel, active, events, ask, late, timer, fetchFailed, clicks, tabs>>

------------------------------------------------------------------------------
\* The user.

Click == mounted /\ clicks < MaxClicks /\ clicks' = clicks + 1 /\ UNCHANGED tabs

openFile(f) ==
  /\ Click /\ opened' = f
  /\ sel' = Live /\ active' = NoTrace /\ events' = NoTrace /\ stream' = FALSE
  /\ Asks(f)
  /\ error' = (IF sel = Live THEN error ELSE "") /\ UNCHANGED fetchFailed
  /\ UNCHANGED <<bench, mounted>>

Pick(k) ==
  /\ Click /\ opened # NoBench /\ k # sel
  /\ k # Live => k < bench[opened].run \/ (k = bench[opened].run /\ ~bench[opened].live)
  /\ k = Live => active.run # 0
  /\ active' = active /\ Pinned(k) /\ error' = "" /\ UNCHANGED fetchFailed
  /\ UNCHANGED <<bench, mounted, opened, ask, late, timer>>

\* The window is seen again, or Stop bench: the next poll is now.
Restart ==
  /\ Click /\ Asks(opened)
  /\ UNCHANGED <<bench, mounted, opened, panel, errorLine>>

Unmount ==
  /\ Click /\ mounted' = FALSE /\ timer' = FALSE /\ stream' = FALSE
  /\ UNCHANGED <<bench, opened, sel, active, events, ask, late, errorLine>>

BenchTabNext ==
  \/ \E f \in Benches : BenchGoes(f) \/ openFile(f)
  \/ \E k \in 0 .. MaxRuns : Pick(k)
  \/ OpenTab \/ Serve \/ NextTick \/ PollAnswered \/ Failed \/ AnsweredLate \/ StreamEvent \/ StreamGone
  \/ Restart \/ Unmount

\* Timers fire, serve answers, streams deliver.  A poll may fail, but not each one.
BenchTabFairness ==
  /\ WF_benchTabVars(NextTick) /\ WF_benchTabVars(Serve) /\ SF_benchTabVars(PollAnswered)
  /\ WF_benchTabVars(StreamEvent)

BenchTabSpec == BenchTabInit /\ [][BenchTabNext]_benchTabVars /\ BenchTabFairness

------------------------------------------------------------------------------
BenchTabTypeOK ==
  /\ opened \in Benches \cup {NoBench} /\ tabs \in {0, 1} /\ sel \in 0 .. MaxRuns
  /\ events.len <= MaxLen /\ error \in {"", "fetch", "stream"}
  /\ stream => sel # Live

\* While the tab is on screen one poll is under way or set, and never two; what is
\* shown is of the opened file, and of the pinned run.
OneChain   == mounted => (ask.state # "none" <=> ~timer)
ShowsPick  ==
  /\ {active.file, events.file} \subseteq {NoBench, opened}
  /\ sel # Live => events.run = sel

\* But for a click, what the panel shows never goes back.
NeverBack ==
  clicks' # clicks \/ events'.run > events.run \/ (events'.run = events.run /\ events'.len >= events.len)
  \/ sel' # sel

\* Polls and streams in any order keep one chain, show what was picked and never
\* rewind it; a run that ended is pinned, and read to its end unless its stream was
\* given up (Bench.vue:152-188, 198-206).
BenchTabFollows ==
  /\ [](BenchTabTypeOK /\ OneChain /\ ShowsPick) /\ [][NeverBack]_benchTabVars
  /\ \A f \in Benches :
       /\ (opened = f /\ sel = Live /\ active.run = MaxRuns /\ ~bench[f].live)
            ~> (opened # f \/ sel # Live \/ active.run # MaxRuns \/ ~mounted)
       /\ (opened = f /\ stream) ~> (opened # f \/ ~stream)

=============================================================================
