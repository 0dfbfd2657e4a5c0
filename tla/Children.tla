------------------------------- MODULE Children -------------------------------
(****************************************************************************)
(* The processes a run starts: mcp servers (core/mcp.ts), shell commands    *)
(* (core/tools/bash.ts) and the registry of their groups (core/procs.ts).   *)
(*                                                                          *)
(* Each child leads a process group and may leave a stray: a background     *)
(* process of its group that has the child's pipes ("holds") or not         *)
(* ("quiet"), or one that left the group with the pipes ("own").  Node sees *)
(* the 'close' of a child when it has exited and nobody holds its pipes.    *)
(* The number of a group is never used for another one here.                *)
(****************************************************************************)
EXTENDS Naturals, Sequences, FiniteSets

CONSTANTS
  Servers,    \* how many mcp servers a harness may have
  MaxToolCalls,   \* bound: calls of the run, of a server or a command
  MaxStrays   \* bound: strays that are left

ASSUME ChildrenAssumption == Servers \subseteq Nat /\ {MaxToolCalls, MaxStrays} \subseteq Nat

VARIABLES
  servers,   \* chosen at the start: the servers of the harness
  harness,   \* our process: "up", "leaving" after a signal, "gone"
  runAborted,   \* the run's abort signal
  doing,       \* "starting", "running", "calling" a server, in "bash", "ended"
  conns,     \* the connections, in order: their group, dead, the request they wait for
  shell,     \* the command that runs: its group, and whether its time was up
  groups,    \* every group started: its leader, its stray, whether its conn forgot it
  tracked,      \* the registry
  calls      \* calls so far

childrenVars == <<servers, harness, runAborted, doing, conns, shell, groups, tracked, calls>>

NoShell == [group |-> 0, killed |-> FALSE]
Group   == [leader |-> "up", stray |-> "none", forgot |-> FALSE]

ChildrenInit ==
  /\ servers \in Servers /\ harness = "up" /\ runAborted = FALSE
  /\ doing = IF servers = 0 THEN "running" ELSE "starting"
  /\ conns = <<>> /\ shell = NoShell /\ groups = <<>> /\ tracked = {} /\ calls = 0

groupAlive(g) == groups[g].leader = "up" \/ groups[g].stray \in {"holds", "quiet"}
Closed(g)     == groups[g].leader = "dead" /\ groups[g].stray \notin {"holds", "own"}
Up            == harness # "gone"

\* SIGKILL to the groups G.
Killed(G) ==
  [g \in DOMAIN groups |->
     IF g \in G THEN [groups[g] EXCEPT !.leader = "dead", !.stray = IF @ = "own" THEN @ ELSE "none"]
     ELSE groups[g]]

\* A spawn that works: the group is tracked at once.
track == groups' = Append(groups, Group) /\ tracked' = tracked \cup {Len(groups) + 1}

------------------------------------------------------------------------------
\* The servers.

GroupsOf(C) == {conns[c].group : c \in {d \in C : ~conns[d].dead}} \ {0}

\* die: connections K are killed with their groups, of connections F the server
\* ended by itself, and what both wait for is rejected.
die(K, F) ==
  /\ conns' = [c \in DOMAIN conns |->
                 IF c \in K \cup F THEN [conns[c] EXCEPT !.dead = TRUE, !.pending = "none"] ELSE conns[c]]
  /\ tracked' = tracked \ GroupsOf(K \cup F)
  /\ groups' = [g \in DOMAIN groups |-> [Killed(GroupsOf(K))[g] EXCEPT !.forgot = @ \/ g \in GroupsOf(F)]]

Awaits(C) == \E c \in C : conns[c].pending # "none"

\* Mutant: a failed start leaves the servers started before.
DieAlone(K, F) ==
  /\ doing' = IF Awaits(K \cup F) THEN IF doing = "starting" THEN "ended" ELSE "running" ELSE doing
  /\ die(K, F)

\* What waits for a connection that dies goes on: a start fails and closes every
\* server, a call is an error for the model.
DieAwaited(K, F) ==
  IF doing = "starting" /\ Awaits(K \cup F)
  THEN doing' = "ended" /\ die(DOMAIN conns \ F, F)
  ELSE doing' = (IF Awaits(K \cup F) THEN "running" ELSE doing) /\ die(K, F)

\* startServers: the next server, unless the run was aborted between two.
StartServer ==
  /\ Up /\ doing = "starting" /\ ~Awaits(DOMAIN conns)
  /\ IF runAborted
     THEN doing' = "ended" /\ die(DOMAIN conns, {})
     ELSE \E spawns \in BOOLEAN :
            /\ conns' = Append(conns, [group |-> IF spawns THEN Len(groups) + 1 ELSE 0,
                                       dead |-> FALSE, pending |-> "initialize"])
            /\ IF spawns THEN track ELSE UNCHANGED <<groups, tracked>>
            /\ doing' = doing
  /\ UNCHANGED <<servers, harness, runAborted, shell, calls>>

\* An answer to what is pending; any other line is skipped.  The tools of the last
\* server end the start, a name that is taken fails it.
ServerAnswers(c) ==
  /\ Up /\ conns[c].pending # "none" /\ conns[c].group # 0 /\ groups[conns[c].group].leader = "up"
  /\ \/ /\ conns' = [conns EXCEPT ![c].pending = IF @ = "initialize" THEN "tools/list" ELSE "none"]
        /\ doing' = CASE conns[c].pending = "tools/call" -> "running"
                    [] conns[c].pending = "tools/list" /\ c = servers -> "running"
                    [] OTHER -> doing
        /\ UNCHANGED <<groups, tracked>>
     \/ /\ conns[c].pending = "tools/list"
        /\ doing' = "ended" /\ die(DOMAIN conns, {})
  /\ UNCHANGED <<servers, harness, runAborted, shell, calls>>

Rest == UNCHANGED <<servers, harness, runAborted, shell, calls>>

\* A line over 1 MB, a request without an answer in its time.
LineTooLong(c) ==
  /\ Up /\ ~conns[c].dead /\ conns[c].group # 0 /\ groups[conns[c].group].leader = "up"
  /\ DieAwaited({c}, {}) /\ Rest
RequestTimesOut(c) == Up /\ conns[c].pending # "none" /\ DieAwaited({c}, {}) /\ Rest

\* 'error' of a spawn, 'close' of a server that exited.
ServerGone(c) ==
  /\ Up /\ ~conns[c].dead
  /\ conns[c].group # 0 => Closed(conns[c].group)
  /\ DieAwaited({}, {c}) /\ Rest

\* A call: on a dead connection it is an error at once.
CallServer(c) ==
  /\ Up /\ doing = "running" /\ calls < MaxToolCalls /\ calls' = calls + 1
  /\ IF conns[c].dead THEN UNCHANGED <<doing, conns>>
     ELSE doing' = "calling" /\ conns' = [conns EXCEPT ![c].pending = "tools/call"]
  /\ UNCHANGED <<servers, harness, runAborted, shell, groups, tracked>>

\* The signal closes each connection.
AbortRun ==
  /\ Up /\ ~runAborted /\ runAborted' = TRUE /\ DieAwaited(DOMAIN conns, {})
  /\ UNCHANGED <<servers, harness, shell, calls>>

\* The run is over: close.
EndRun ==
  /\ Up /\ doing = "running" /\ doing' = "ended" /\ die(DOMAIN conns, {})
  /\ UNCHANGED <<servers, harness, runAborted, shell, calls>>

------------------------------------------------------------------------------
\* Commands.  The abort does not reach them: they end, or their time is up.

runShell ==
  /\ Up /\ doing = "running" /\ calls < MaxToolCalls /\ calls' = calls + 1
  /\ track /\ doing' = "bash" /\ shell' = [group |-> Len(groups) + 1, killed |-> FALSE]
  /\ UNCHANGED <<servers, harness, runAborted, conns>>
ShellTimesOut ==
  /\ Up /\ doing = "bash" /\ ~shell.killed
  /\ shell' = [shell EXCEPT !.killed = TRUE] /\ groups' = Killed({shell.group})
  /\ UNCHANGED <<servers, harness, runAborted, doing, conns, tracked, calls>>

untrack(g, keepIfAlive) == IF keepIfAlive /\ groupAlive(g) THEN tracked ELSE tracked \ {g}

\* 'close': a group with a background child in it stays tracked, a killed one does not.
ShellCloses ==
  /\ Up /\ doing = "bash" /\ Closed(shell.group)
  /\ tracked' = untrack(shell.group, ~shell.killed)
  /\ doing' = "running" /\ shell' = NoShell
  /\ UNCHANGED <<servers, harness, runAborted, conns, groups, calls>>

------------------------------------------------------------------------------
\* The registry.

\* Each second groups that are gone are dropped.
prune ==
  /\ Up /\ \E g \in tracked : ~groupAlive(g)
  /\ tracked' = {g \in tracked : groupAlive(g)}
  /\ UNCHANGED <<servers, harness, runAborted, doing, conns, shell, groups, calls>>

\* After a run, and after its check: every tracked group is killed and forgotten.
killTracked ==
  /\ Up /\ doing = "ended" /\ tracked # {}
  /\ groups' = Killed(tracked) /\ tracked' = {}
  /\ UNCHANGED <<servers, harness, runAborted, doing, conns, shell, calls>>

\* A signal: kill all; who owns the exit may go on for a while before it exits.
killAll == groups' = Killed(tracked)
Signal ==
  /\ harness = "up" /\ harness' = "leaving" /\ killAll
  /\ UNCHANGED <<servers, runAborted, doing, conns, shell, tracked, calls>>
Exit ==
  /\ harness = "leaving" \/ (harness = "up" /\ doing = "ended")
  /\ harness' = "gone" /\ killAll
  /\ UNCHANGED <<servers, runAborted, doing, conns, shell, tracked, calls>>

------------------------------------------------------------------------------
\* What the children do.

Strays == Cardinality({g \in DOMAIN groups : groups[g].stray # "none"})
LeavesStray(g) ==
  /\ groups[g].leader = "up" /\ groups[g].stray = "none" /\ Strays < MaxStrays
  /\ \E stray \in {"holds", "quiet", "own"} : groups' = [groups EXCEPT ![g].stray = stray]
  /\ UNCHANGED <<servers, harness, runAborted, doing, conns, shell, tracked, calls>>
LeaderExits(g) ==
  /\ groups[g].leader = "up" /\ groups' = [groups EXCEPT ![g].leader = "dead"]
  /\ UNCHANGED <<servers, harness, runAborted, doing, conns, shell, tracked, calls>>
StrayExits(g) ==
  /\ groups[g].stray # "none" /\ groups' = [groups EXCEPT ![g].stray = "none"]
  /\ UNCHANGED <<servers, harness, runAborted, doing, conns, shell, tracked, calls>>

ChildrenNext ==
  \/ StartServer \/ AbortRun \/ EndRun
  \/ \E c \in DOMAIN conns :
       ServerAnswers(c) \/ LineTooLong(c) \/ RequestTimesOut(c) \/ ServerGone(c) \/ CallServer(c)
  \/ runShell \/ ShellTimesOut \/ ShellCloses
  \/ prune \/ killTracked \/ Signal \/ Exit
  \/ \E g \in DOMAIN groups : LeavesStray(g) \/ LeaderExits(g) \/ StrayExits(g)

\* Timers fire, node tells of exits, an aborted run ends at the next look at its
\* signal, and a process that got a signal exits; one whose run is over may go on
\* (serve does).  No child has to answer or to exit.
ChildrenFairness ==
  /\ WF_childrenVars(StartServer)
  /\ WF_childrenVars(\E c \in DOMAIN conns : RequestTimesOut(c) \/ ServerGone(c))
  /\ WF_childrenVars(ShellTimesOut) /\ WF_childrenVars(ShellCloses)
  /\ WF_childrenVars(runAborted /\ EndRun) /\ WF_childrenVars(harness = "leaving" /\ Exit)

ChildrenSpec == ChildrenInit /\ [][ChildrenNext]_childrenVars /\ ChildrenFairness

------------------------------------------------------------------------------
ChildrenTypeOK ==
  /\ harness \in {"up", "leaving", "gone"} /\ runAborted \in BOOLEAN
  /\ doing \in {"starting", "running", "calling", "bash", "ended"}
  /\ tracked \subseteq DOMAIN groups /\ Len(conns) <= servers
  /\ \A c \in DOMAIN conns :
       /\ conns[c].group \in {0} \cup DOMAIN groups
       /\ conns[c].pending \in {"none", "initialize", "tools/list", "tools/call"}
       /\ conns[c].dead => conns[c].pending = "none"
  /\ doing = "calling" <=> \E c \in DOMAIN conns : conns[c].pending = "tools/call"

\* Nothing of the group is left but what the code lets go: a background child of a
\* server that ended by itself (mcp.ts:71-74), a process that left its group.
GroupOver(g) ==
  /\ groups[g].leader = "dead"
  /\ groups[g].stray \in {"none", "own"} \/ groups[g].forgot
\* A command whose pipes are held by a process outside its group.
Held == doing = "bash" /\ groups[shell.group].stray = "own"

ServersOver == \A c \in DOMAIN conns : conns[c].group # 0 => GroupOver(conns[c].group)

\* However servers and commands start, fail, stall, exit and leave background
\* children, a run that is over has no server left, its start having failed half
\* way or not; an aborted run gets over; after a signal nothing that can be found
\* outlives the process (mcp.ts:179, procs.ts:1-8, bash.ts:20); and a request
\* settles (mcp.ts:93-105).
ChildrenEnd ==
  /\ [](ChildrenTypeOK /\ (doing = "ended" => ServersOver))
  /\ runAborted ~> Held \/ harness = "gone" \/ doing = "ended"
  /\ harness = "leaving" ~> [](\A g \in DOMAIN groups : GroupOver(g))
  /\ Awaits(DOMAIN conns) ~> (harness = "gone" \/ ~Awaits(DOMAIN conns))
=============================================================================
