------------------------------- MODULE MCPeers -------------------------------
(****************************************************************************)
(* Parts that ask and wait, side by side: the child processes of a run, a   *)
(* model's reply, the page's Bench tab and what serve keeps of the files it *)
(* polls, and the page's two other chains of asks, those of the form and    *)
(* the poll of the evolve job.  They share no state, so each behaviour of   *)
(* the whole is one of each part.  `part` says which one moves; one that    *)
(* does not has one initial state, in which nothing that is fair is         *)
(* enabled.                                                                 *)
(****************************************************************************)
EXTENDS Children, Replies, BenchTab, AppAsks, Shelf

CONSTANT g
VARIABLE part

vars == <<part, childrenVars, repliesVars, benchTabVars, appVars, shelfVars>>

Init ==
  /\ part \in {"children", "reply", "bench tab", "form", "polls", "shelf"}
  /\ ChildrenInit /\ (part # "children" => servers = 0)
  /\ RepliesInit /\ (part # "reply" => api = "openai")
  /\ BenchTabInit
  /\ AppInit /\ (part # "form" => form.host = g)
  /\ ShelfInit /\ (part # "shelf" => shelved = "bench")

Only(p) == part = p /\ part' = p

Next ==
  \/ Only("children") /\ ChildrenNext /\ UNCHANGED <<repliesVars, benchTabVars, appVars, shelfVars>>
  \/ Only("reply") /\ RepliesNext /\ UNCHANGED <<childrenVars, benchTabVars, appVars, shelfVars>>
  \/ Only("bench tab") /\ BenchTabNext /\ UNCHANGED <<childrenVars, repliesVars, appVars, shelfVars>>
  \/ Only("form") /\ FormNext /\ UNCHANGED <<childrenVars, repliesVars, benchTabVars, shelfVars>>
  \/ Only("polls") /\ PollNext /\ UNCHANGED <<childrenVars, repliesVars, benchTabVars, shelfVars>>
  \/ Only("shelf") /\ ShelfNext /\ UNCHANGED <<childrenVars, repliesVars, benchTabVars, appVars>>

Spec ==
  /\ Init /\ [][Next]_vars
  /\ ChildrenFairness /\ RepliesFairness /\ BenchTabFairness /\ AppFairness

\* The tab follows its benches (Bench.vue:152-206), by answers of serve that are
\* never older than what was asked of, and show as running a run of that bench
\* (server/runs.ts:245-339).
BenchShown == BenchTabFollows /\ [](ShelfFresh /\ LiveIsOwn)
=============================================================================
