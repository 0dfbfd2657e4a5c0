------------------------------- MODULE Proxies -------------------------------
(****************************************************************************)
(* The recording proxies serve runs for the page: server/proxies.ts, and    *)
(* the process each of them is, cmdProxy of cli.ts.                         *)
(*                                                                          *)
(* A child is a process and what serve knows of it; the two differ while a  *)
(* line of its stderr, a signal or its exit is on the way.  serve may close *)
(* its proxies or just die.  What a proxy records is the module Recorder:   *)
(* here a process ends well when its stop() came back.                      *)
(****************************************************************************)
EXTENDS Naturals, FiniteSets, Sequences

CONSTANTS
  Names,      \* names the page asks for
  Caps,       \* what MAX, the number of proxies that may run at once, may be
  MaxStarts,  \* bound: starts that spawn
  MaxFaults   \* bound: children that crash, hang or fail their ready line

ASSUME ProxiesAssumption == Caps \subseteq Nat /\ MaxStarts \in Nat /\ MaxFaults \in Nat

VARIABLES
  MAX,        \* chosen at the start
  serve,      \* "up", "closing" once close() ran, "dead"
  children    \* every child serve spawned, in order

proxiesVars == <<MAX, serve, children>>

(* The process: proc is where it is, said what its first line of stderr was, *)
(* sigints how many wait for it, stuck that its event loop is, ended how it  *)
(* went.  serve's view: place, phase of its stderr, whether its exit was     *)
(* seen, whether halt was called, and a SIGKILL timer.                       *)
Child(n) ==
  [name |-> n, proc |-> "booting", said |-> "nothing", sigints |-> 0, stuck |-> FALSE, ended |-> "",
   place |-> "starting", phase |-> "wait", exit |-> FALSE, stopping |-> FALSE, timer |-> FALSE]

ProxiesInit == MAX \in Caps /\ serve = "up" /\ children = <<>>

Ids         == DOMAIN children
starting    == {c \in Ids : children[c].place = "starting"}
listed      == {c \in Ids : children[c].place = "listed"}
live        == {c \in listed : ~children[c].exit}
Running(c)  == children[c].proc # "dead"

\* SIGINT, and SIGKILL after killMs.
kill(p) == [p EXCEPT !.sigints = @ + 1, !.timer = TRUE]
\* Mutant: each stop signals.
EachStopSignals(p) == kill(p)
\* One stop per proxy.
halt(p) == IF p.stopping THEN p ELSE [kill(p) EXCEPT !.stopping = TRUE]

\* An entry serve drops; how its process ended is kept for the properties.
Gone(p) == [Child(p.name) EXCEPT !.place = "gone", !.proc = "dead", !.exit = TRUE,
                                 !.ended = p.ended, !.phase = p.phase]

Becomes(c, p) == children' = [children EXCEPT ![c] = p] /\ UNCHANGED <<MAX, serve>>

------------------------------------------------------------------------------
\* serve.

\* start, up to the spawn: the cap and the name count what starts and what lives.
StartProxy(n) ==
  /\ serve = "up" /\ Len(children) < MaxStarts
  /\ Cardinality(live) + Cardinality(starting) < MAX
  /\ n \notin {children[c].name : c \in starting \cup live}
  /\ children' = Append(children, Child(n)) /\ UNCHANGED <<MAX, serve>>

\* Its first line: the ready line, or one that fails the start, which stops it.
ReadFirstLine(c) ==
  LET p == children[c]
      failed == [p EXCEPT !.phase = "failed"]
  IN /\ serve # "dead" /\ p.place = "starting" /\ p.phase = "wait" /\ p.said # "nothing"
     /\ Becomes(c, IF p.said = "ready" THEN [p EXCEPT !.phase = "settle"]
                   ELSE IF ~p.exit /\ serve = "up" THEN kill(failed) ELSE failed)

\* After SETTLE_MS it is listed, unless serve closes: then its end is awaited.
Settled(c) ==
  LET p == children[c] IN
  /\ serve # "dead" /\ p.place = "starting" /\ p.phase = "settle"
  /\ Becomes(c, [p EXCEPT !.phase = "run", !.place = IF serve = "up" THEN "listed" ELSE @])

\* 'exit' of the child: the SIGKILL is off, and who waits in stop() goes on.
SeeExit(c) ==
  LET p == children[c] IN
  /\ serve # "dead" /\ p.proc = "dead" /\ ~p.exit
  /\ Becomes(c, IF p.place = "listed" /\ p.stopping THEN Gone(p)
                ELSE [p EXCEPT !.exit = TRUE, !.timer = FALSE])

\* 'close' of the child, after the last of its stderr: a start that failed ends.
SeeClose(c) ==
  LET p == children[c] IN
  /\ serve # "dead" /\ p.exit /\ p.place = "starting"
  /\ \/ p.phase = "wait" /\ p.said = "nothing"
     \/ p.phase = "failed"
     \/ p.phase = "run"
  /\ Becomes(c, Gone(IF p.phase = "wait" THEN [p EXCEPT !.phase = "failed"] ELSE p))

\* stop: a live one is stopped, a dead one is removed.
StopProxy(c) ==
  LET p == children[c] IN
  /\ serve = "up" /\ p.place = "listed"
  /\ Becomes(c, IF p.exit THEN Gone(p) ELSE halt(p))

KillTimer(c) ==
  LET p == children[c] IN
  /\ serve # "dead" /\ p.timer
  /\ Becomes(c, [p EXCEPT !.timer = FALSE, !.proc = "dead",
                          !.ended = IF p.proc = "dead" THEN @ ELSE "killed"])

\* close: every proxy is stopped, those that start too.
CloseProxies ==
  /\ serve = "up" /\ serve' = "closing" /\ UNCHANGED MAX
  /\ children' = [c \in Ids |->
       CASE c \in live -> halt(children[c])
         [] c \in starting /\ ~children[c].exit -> kill(children[c])
         [] OTHER -> children[c]]

\* serve dies, with its timers: after close(), or killed at any moment.
ServeDies ==
  /\ serve # "dead" /\ serve' = "dead" /\ UNCHANGED MAX
  /\ children' = [c \in Ids |-> [children[c] EXCEPT !.timer = FALSE]]

------------------------------------------------------------------------------
\* The child.

Faulty(c) == children[c].ended = "crashed" \/ children[c].stuck \/ children[c].said = "other"
MayFail   == Cardinality({c \in Ids : Faulty(c)}) < MaxFaults

Dies(c, how) == Becomes(c, [children[c] EXCEPT !.proc = "dead", !.ended = how])

\* It listens, its handlers are set, and its first line is the ready line unless
\* an own file wrote one before it.
Boots(c) ==
  /\ children[c].proc = "booting" /\ children[c].sigints = 0
  /\ \E said \in {"ready"} \cup (IF MayFail THEN {"other"} ELSE {}) :
       Becomes(c, [children[c] EXCEPT !.proc = "up", !.said = said])
Crashes(c) == MayFail /\ children[c].proc \in {"booting", "up"} /\ Dies(c, "crashed")
\* A loop in an own dialect: no handler runs any more.
GetsStuck(c) ==
  /\ children[c].proc = "up" /\ ~children[c].stuck /\ MayFail
  /\ Becomes(c, [children[c] EXCEPT !.stuck = TRUE])

\* A signal: the default before the handlers are set, then the graceful stop,
\* then an exit with 130 and no done.
Sigint(c) ==
  LET p == [children[c] EXCEPT !.sigints = @ - 1] IN
  /\ children[c].sigints > 0 /\ ~p.stuck /\ p.proc # "dead"
  /\ Becomes(c, CASE p.proc = "booting" -> [p EXCEPT !.proc = "dead", !.ended = "unready"]
                  [] p.proc = "up"      -> [p EXCEPT !.proc = "stopping"]
                  [] OTHER              -> [p EXCEPT !.proc = "dead", !.ended = "forced"])
StopEnds(c) == children[c].proc = "stopping" /\ Dies(c, "graceful")
\* Every second it looks whether serve is there, unless it stops already.
ParentGone(c) ==
  /\ serve = "dead" /\ children[c].proc = "up" /\ ~children[c].stuck
  /\ Becomes(c, [children[c] EXCEPT !.proc = "stopping"])

ProxiesNext ==
  \/ \E n \in Names : StartProxy(n)
  \/ \E c \in Ids :
       \/ ReadFirstLine(c) \/ Settled(c) \/ SeeExit(c) \/ SeeClose(c) \/ StopProxy(c) \/ KillTimer(c)
       \/ Boots(c) \/ Crashes(c) \/ GetsStuck(c) \/ Sigint(c) \/ StopEnds(c) \/ ParentGone(c)
  \/ CloseProxies \/ ServeDies

\* Events of serve's loop, timers and signals come; a process boots, and its
\* stop() comes back.  Nobody has to start or to stop a proxy.
ProxiesFairness ==
  \A c \in 1 .. MaxStarts :
    /\ WF_proxiesVars(c \in Ids /\ (ReadFirstLine(c) \/ Settled(c) \/ SeeExit(c) \/ SeeClose(c)))
    /\ WF_proxiesVars(c \in Ids /\ KillTimer(c))
    /\ WF_proxiesVars(c \in Ids /\ Sigint(c))
    /\ WF_proxiesVars(c \in Ids /\ (Boots(c) \/ StopEnds(c) \/ ParentGone(c)))

ProxiesSpec == ProxiesInit /\ [][ProxiesNext]_proxiesVars /\ ProxiesFairness

------------------------------------------------------------------------------
ProxiesTypeOK ==
  /\ serve \in {"up", "closing", "dead"}
  /\ \A c \in Ids :
       /\ children[c].name \in Names /\ children[c].sigints \in 0 .. 2
       /\ children[c].proc \in {"booting", "up", "stopping", "dead"}
       /\ children[c].place \in {"starting", "listed", "gone"}
       /\ children[c].phase \in {"wait", "settle", "run", "failed"}

\* However starts, failures, stops and exits interleave, at most MAX proxy
\* processes run, no two of one name (proxies.ts:30-35, 53-56, 97).
ProxiesBounded ==
  LET processes == {c \in Ids : Running(c)} IN
  /\ Cardinality(processes) <= MAX
  /\ \A c, d \in processes : children[c].name = children[d].name => c = d

\* A proxy that was listed is never made to exit without its done by a second
\* signal of serve, though Stop is pressed again and serve closes
\* (proxies.ts:43-44).  A start that failed is stopped by the start and again by
\* close(); and a child may see that serve is gone before the signal serve left.
NeverForced ==
  \A c \in Ids : children[c].ended = "forced" => children[c].phase = "failed" \/ serve = "dead"

\* Of names and slots, and of signals (proxies.ts:35-117).
ProxiesSafe == ProxiesTypeOK /\ ProxiesBounded /\ NeverForced

\* No proxy runs without serve: those that start are signalled too, and one whose
\* parent is gone stops by itself (proxies.ts:112-117, cli.ts:1099-1103).  Only one
\* that is stuck when no SIGKILL is left stays.
NoOrphans == \A c \in Ids : ~Running(c) \/ children[c].stuck
=============================================================================
