----------------------------- MODULE MCAgentLoop -----------------------------
(* Small harnesses for AgentLoop. *)
EXTENDS AgentLoop

CONSTANTS e1, e2, b1, r1, check, none

Harness(servers, until, ask, answer, native, turns) ==
  [servers |-> servers, untilBash |-> until, approveBash |-> ask, canApprove |-> answer,
   native |-> native, heat |-> FALSE, maxTurns |-> turns,
   counting |-> FALSE, maxRepeats |-> 0, refreshing |-> FALSE, fresh |-> 0]

Counting(h, max, heat) == [h EXCEPT !.counting = TRUE, !.maxRepeats = max, !.heat = heat]
Fresh(h, n)            == [h EXCEPT !.refreshing = TRUE, !.fresh = n]

\* Repeat detection: no approvals, three turns, with and without a fresh context.
LoopConfigs ==
  {Counting(Harness(0, u, FALSE, FALSE, n, 3), max, TRUE) : u, n \in BOOLEAN, max \in {0, 1}}
  \cup {Fresh(Counting(Harness(0, u, FALSE, FALSE, TRUE, 3), 1, heat), 1) : u, heat \in BOOLEAN}

\* Approvals, servers, checks and aborts: every combination, two turns.
AskConfigs ==
  {Harness(s, u, a, c, n, 2) : s \in 0 .. 2, u, a, c, n \in BOOLEAN}
  \cup {Counting(Harness(1, TRUE, TRUE, TRUE, TRUE, 2), 0, TRUE),
        Fresh(Counting(Harness(1, TRUE, TRUE, TRUE, FALSE, 2), 1, TRUE), 1)}
==============================================================================
