------------------------------- MODULE Replies -------------------------------
(****************************************************************************)
(* One reply of a model: sendRetrying of core/backends/types.ts, the three  *)
(* adapters' send with the readers of their streams, and what run.ts makes  *)
(* of the outcome.  A server answers with a status, a body of chunks that   *)
(* may break off anywhere, or nothing at all; the run may be aborted at any *)
(* moment; a 429 is waited out.                                             *)
(*                                                                          *)
(* A reply is the number of pieces of text in it; time is counted in ticks  *)
(* of waiting for the server and ticks of pause.                            *)
(****************************************************************************)
EXTENDS Naturals

CONSTANTS
  Apis,       \* the adapters: "openai", "anthropic", "ollama"
  MaxPieces,  \* bound: pieces of text an attempt streams
  MaxTicks    \* bound: ticks of waiting, and of pause

ASSUME RepliesAssumption ==
  Apis \subseteq {"openai", "anthropic", "ollama"} /\ {MaxPieces, MaxTicks} \subseteq Nat

VARIABLES
  api,
  stage,        \* "new", "sent", "body", "pause", or the end: "reply", "failed", "aborted"
  retries,   \* as in sendRetrying
  body,      \* the body so far: pieces, any chunk, finish reason, message_stop
  streamed,  \* a delta of this attempt was passed on
  display,   \* the pieces the caller was shown, of all attempts
  thrown,    \* the last error: its status, whether a BackendError, whether mid-reply
  signalled,   \* the signal fired
  ticks,     \* time: for the server, in pauses, of that what onWait reported
  latency    \* what the llm_response event says

repliesVars == <<api, stage, retries, body, streamed, display, thrown, signalled, ticks, latency>>

NoStatus == 0
NoBody   == [pieces |-> 0, any |-> FALSE, finish |-> "none", stop |-> FALSE]
NoError  == [status |-> NoStatus, backend |-> FALSE, moderated |-> FALSE, midReply |-> FALSE]
ReplyOver     == {"reply", "failed", "aborted"}

RepliesInit ==
  /\ api \in Apis /\ stage = "new" /\ retries = 0 /\ body = NoBody /\ streamed = FALSE
  /\ display = 0 /\ thrown = NoError /\ signalled = FALSE
  /\ ticks = [server |-> 0, pause |-> 0, told |-> 0] /\ latency = 0

\* 401, 402, 429, and 403 but for moderation.
isStop(e) == e.backend /\ (e.status \in {401, 402, 429} \/ (e.status = 403 /\ ~e.moderated))

Begin ==
  /\ stage = "new" /\ stage' = "sent"
  /\ UNCHANGED <<api, retries, body, streamed, display, thrown, signalled, ticks, latency>>

\* run.ts: an abort ends the run as aborted, but a stop is that stop.
Ends(e) == stage' = IF signalled' /\ ~isStop(e) THEN "aborted" ELSE "failed"

\* Mutant: a 429 is tried again whatever was shown.
RetriesShown(e) == e.backend /\ e.status = 429 /\ retries < 3 /\ ~signalled
\* Only a 429, only before a delta, only three times, and not once aborted.
Retries(e) == e.backend /\ e.status = 429 /\ ~streamed /\ retries < 3 /\ ~signalled

\* What sendRetrying does with a throw of send.
Throws(e) ==
  LET t == [e EXCEPT !.midReply = e.backend /\ streamed]
  IN
  /\ thrown' = t /\ UNCHANGED <<api, retries, streamed, display, signalled, ticks, latency>>
  /\ body' = body
  /\ IF Retries(e) THEN stage' = "pause" ELSE Ends(t)

Backend(status, moderated) ==
  [status |-> status, backend |-> TRUE, moderated |-> moderated, midReply |-> FALSE]

\* A reply that came whole; the pauses are not the model's time.
Returns ==
  /\ stage' = "reply" /\ latency' = ticks.server + ticks.pause - ticks.told
  /\ UNCHANGED <<api, retries, streamed, thrown, signalled, ticks>>

------------------------------------------------------------------------------
\* The server answers the request.

Non2xx ==
  /\ stage = "sent"
  /\ \E s \in {400, 401, 403, 429, 500}, m \in BOOLEAN : (m => s = 403) /\ Throws(Backend(s, m))
Ok ==
  /\ stage = "sent" /\ stage' = "body" /\ body' = NoBody
  /\ UNCHANGED <<api, retries, streamed, display, thrown, signalled, ticks, latency>>

\* openai, `stream: false`: one body of JSON, which has no deltas.
Json ==
  /\ stage = "sent" /\ api = "openai"
  /\ \/ \E s \in {NoStatus, 429} : Throws(Backend(s, FALSE))
     \/ /\ \E n \in 0 .. MaxPieces :
             body' = [pieces |-> n, any |-> TRUE, finish |-> "stop", stop |-> FALSE]
        /\ UNCHANGED display /\ Returns

\* The connection breaks, or the abort reaches the fetch: no BackendError.
Breaks ==
  /\ stage \in {"sent", "body"} /\ Throws(NoError)
AbortThrown == signalled /\ Breaks

------------------------------------------------------------------------------
\* A body, chunk by chunk.

Delta ==
  /\ stage = "body" /\ body.pieces < MaxPieces
  /\ body' = [body EXCEPT !.pieces = @ + 1, !.any = TRUE]
  /\ streamed' = TRUE /\ display' = display + 1
  /\ UNCHANGED <<api, stage, retries, thrown, signalled, ticks, latency>>
\* No text in it: a role, a part of a tool call, the end of the message.
Chunk ==
  /\ stage = "body"
  /\ \/ body' = [body EXCEPT !.any = TRUE]
     \/ \E f \in {"stop", "length"} : body' = [body EXCEPT !.any = TRUE, !.finish = f]
     \/ api = "anthropic" /\ body' = [body EXCEPT !.any = TRUE, !.finish = "refusal"]
     \/ api = "anthropic" /\ body' = [body EXCEPT !.any = TRUE, !.stop = TRUE]
  /\ UNCHANGED <<api, stage, retries, streamed, display, thrown, signalled, ticks, latency>>
\* A chunk that is only an error; with openai also one whose finish_reason is "error".
ErrorChunk ==
  /\ stage = "body" /\ \E s \in {NoStatus, 429, 402} : Throws(Backend(s, FALSE))

\* What the adapter refuses at the end of a body.
CutShort ==
  \/ ~body.any
  \/ api = "anthropic" /\ (~body.stop \/ body.finish = "refusal")
BodyEnds ==
  /\ stage = "body"
  /\ IF CutShort THEN Throws(Backend(NoStatus, FALSE))
     ELSE UNCHANGED <<body, display>> /\ Returns

------------------------------------------------------------------------------
PauseOver ==
  /\ stage = "pause" /\ retries' = retries + 1 /\ stage' = "sent" /\ streamed' = FALSE
  /\ ticks' = [ticks EXCEPT !.told = ticks.pause]
  /\ UNCHANGED <<api, body, display, thrown, signalled, latency>>

\* An abort in a pause ends it there and then, with the error that began it.
AbortSignal ==
  /\ stage \in {"sent", "body", "pause"} /\ ~signalled /\ signalled' = TRUE
  /\ IF stage = "pause" THEN Ends(thrown) /\ ticks' = [ticks EXCEPT !.told = ticks.pause]
     ELSE UNCHANGED <<stage, ticks>>
  /\ UNCHANGED <<api, retries, body, streamed, display, thrown, latency>>

Clock ==
  /\ \/ stage \in {"sent", "body"} /\ ticks.server < MaxTicks /\ ticks' = [ticks EXCEPT !.server = @ + 1]
     \/ stage = "pause" /\ ticks.pause < MaxTicks /\ ticks' = [ticks EXCEPT !.pause = @ + 1]
  /\ UNCHANGED <<api, stage, retries, body, streamed, display, thrown, signalled, latency>>

RepliesNext ==
  \/ Begin \/ Non2xx \/ Ok \/ Json \/ Breaks \/ Delta \/ Chunk \/ ErrorChunk \/ BodyEnds
  \/ PauseOver \/ AbortSignal \/ Clock

\* A server owes nothing; the abort reaches a fetch, and timers fire.
RepliesFairness == WF_repliesVars(AbortThrown) /\ WF_repliesVars(PauseOver)

RepliesSpec == RepliesInit /\ [][RepliesNext]_repliesVars /\ RepliesFairness

------------------------------------------------------------------------------
RepliesTypeOK ==
  /\ stage \in {"new", "sent", "body", "pause"} \cup ReplyOver /\ retries \in 0 .. 3
  /\ body.pieces \in 0 .. MaxPieces /\ ticks.told <= ticks.pause

\* What the caller was shown is of one attempt, all of it; a reply lacks no end.
ShownOnce  == display = IF streamed THEN body.pieces ELSE 0
WholeReply == stage = "reply" /\ api = "anthropic" => body.stop /\ body.finish # "refusal"
\* The latency is the server's time alone.
PausesOut  == stage = "reply" => latency = ticks.server
\* A run is aborted only by its signal, and a stop is never hidden behind it.
StopShows  == stage = "aborted" => signalled /\ ~isStop(thrown)
\* An error is mid-reply exactly when something of it was shown.
MidReply   == stage = "failed" => (thrown.midReply <=> thrown.backend /\ display > 0)

\* A retry is never seen: no piece of text is shown twice or is lost, no pause is
\* charged, and an abort ends the wait whatever the server does (types.ts:207-223,
\* run.ts:182-199).
RepliesHonest ==
  /\ [](RepliesTypeOK /\ ShownOnce /\ WholeReply /\ PausesOut /\ StopShows /\ MidReply)
  /\ stage = "pause" ~> stage # "pause"
  /\ signalled ~> stage \in ReplyOver
=============================================================================
