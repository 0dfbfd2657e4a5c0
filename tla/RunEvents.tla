------------------------------ MODULE RunEvents ------------------------------
(****************************************************************************)
(* The promise a run makes to everything that reads its trace: the SSE      *)
(* route, the stored trace, the timeline, the diff and the note writer all  *)
(* fold over the stream of events and rely on its order.                    *)
(*                                                                          *)
(* A run may ask first, then sends at most maxTurns requests.  A request is *)
(* answered or ends the run, a tool call is always answered by its result   *)
(* before anything else is said, an error is the last word before done, the *)
(* context is cleared at most once, and nothing follows done.               *)
(* An approval_required event is named by what it asks for.                 *)
(****************************************************************************)
EXTENDS Naturals

CONSTANT TurnLimits      \* the values loop.maxTurns may take

VARIABLES
  event,      \* the type of the newest event of the stream, "none" before the first
  requests,   \* how many llm_request events the stream holds
  cleared,    \* whether a context_reset is among them
  limit       \* loop.maxTurns of this run

vars == <<event, requests, cleared, limit>>

EventTypes ==
  {"none", "ask_server", "ask_check", "ask_tool", "mcp_server_start",
   "knobs_off", "notes_loaded", "context_stats", "llm_request",
   "llm_response", "parse_error", "final_check", "tool_call", "tool_result",
   "context_reset", "error", "done"}

\* What may come before the first request, once nothing is left to ask.
Opening == {"knobs_off", "notes_loaded", "context_stats", "error", "done"}

Follows(e) ==
  CASE e = "none"             -> Opening \cup {"ask_server", "ask_check"}
    [] e = "ask_server"       -> Opening \cup {"ask_server", "ask_check", "mcp_server_start"}
    [] e = "ask_check"        -> Opening \cup {"mcp_server_start", "final_check"}
    [] e = "mcp_server_start" -> Opening \cup {"mcp_server_start"}
    [] e = "knobs_off"        -> {"notes_loaded", "context_stats", "done"}
    [] e = "notes_loaded"     -> {"context_stats", "done"}
    [] e = "context_stats"    -> {"llm_request"}
    [] e = "llm_request"      -> {"llm_response", "error", "done"}
    [] e = "llm_response"     -> {"parse_error", "tool_call", "ask_check", "final_check", "done"}
    [] e = "parse_error"      -> {"context_stats", "done"}
    [] e = "final_check"      -> {"context_stats", "done"}
    [] e = "tool_call"        -> {"ask_tool", "tool_result"}
    [] e = "ask_tool"         -> {"tool_result"}
    [] e = "tool_result"      -> {"tool_call", "context_reset", "context_stats", "done"}
    [] e = "context_reset"    -> {"context_stats", "done"}
    [] e = "error"            -> {"done"}
    [] e = "done"             -> {}

Init ==
  /\ event = "none"
  /\ requests = 0
  /\ cleared = FALSE
  /\ limit \in TurnLimits

Emit(e) ==
  /\ e \in Follows(event)
  /\ e = "llm_request" => requests < limit
  /\ e = "context_reset" => ~cleared
  /\ event' = e
  /\ requests' = IF e = "llm_request" THEN requests + 1 ELSE requests
  /\ cleared' = (cleared \/ e = "context_reset")
  /\ UNCHANGED limit

Next == \E e \in EventTypes : Emit(e)

Spec == Init /\ [][Next]_vars
==============================================================================
