------------------------------ MODULE Recorder ------------------------------
(****************************************************************************)
(* The recording proxy: Sessions of core/proxy/sessions.ts turns requests   *)
(* and replies into events, startProxy of core/proxy/server.ts forwards     *)
(* them and appends the events to one file per run.                         *)
(*                                                                          *)
(* An agent is a thread of one conversation: it sends its history, gets a   *)
(* reply, sends the longer history with the results of the calls, leaves    *)
(* and tries again, or has its history compacted and goes on with a short   *)
(* one.  Two agents may have the same prompt, which is all the proxy knows  *)
(* them by without a session header.                                        *)
(* A history is its length and the calls of its last assistant message.     *)
(* One action is the code between two awaits on a socket or a file.  A kill *)
(* of the proxy leaves the files of some reachable state, and has no action *)
(* of its own.  A request the proxy does not record is only forwarded and   *)
(* has no state here.                                                       *)
(****************************************************************************)
EXTENDS Naturals, Sequences, FiniteSets, SequencesExt, Picks

CONSTANTS
  Agents,
  Clients,      \* what may connect: [dialect, hinted, name, sends]
  MaxRequests,  \* bound: requests the proxy gets, and runs of which an append fails
  MaxCalls,     \* bound: tool calls of one reply
  MaxWaiting    \* bound: appends that wait when the next is recorded

Classes == {"main", "auxiliary", "compaction"}

ASSUME RecorderAssumption ==
  /\ \A c \in Clients : c.dialect \in {"anthropic", "openai-chat"} /\ c.hinted \in BOOLEAN
                        /\ DOMAIN c.name = Agents /\ c.sends \in [Agents -> SUBSET Classes]
  /\ MaxRequests \in Nat /\ MaxCalls \in Nat /\ MaxWaiting \in Nat

VARIABLES
  \* The agents.
  client,       \* chosen at the start: the dialect they speak, whether they send a
                \* session header, what each is known by (its prompt, or a header) and sends
  history,      \* what an agent would send: its length and the calls it answers
  asking,       \* the request an agent waits for, 0 for none
  \* The proxy.
  runs,         \* Sessions.runs
  tick,         \* Sessions.tick
  requests,     \* the handlers, in the order they came
  writers,      \* runs with a file
  chain,        \* appends of each run that wait for their turn
  stop,         \* how far stop() is
  \* On disk.
  file,         \* the lines of each run's file
  lossy         \* history: runs of which an append failed

agents       == <<client, history, asking>>
sessions     == <<runs, tick>>
recorderVars == <<agents, sessions, requests, writers, chain, stop, file, lossy>>

RunIds     == 1 .. MaxRequests
MetaLine   == [seq |-> 0, turn |-> 0, type |-> "meta", call |-> 0]
Open       == <<MetaLine>>

gone(q)    == [q EXCEPT !.st = "gone", !.run = 0, !.turn = 0, !.calls = <<>>]

\* An event of a run without its seq; "call" is the callId, 0 when it has none.
Event(turn, type, call) == [turn |-> turn, type |-> type, call |-> call]

\* What `ev` makes of events: they take the run's next seqs.
Numbered(run, es) ==
  [i \in DOMAIN es |->
     [seq |-> run.seq + i - 1, turn |-> es[i].turn, type |-> es[i].type, call |-> es[i].call]]
Advanced(run, es) == [run EXCEPT !.seq = @ + Len(es)]

NewRun(key) ==
  [key |-> key, len |-> 0, active |-> 0, seq |-> 0, turn |-> 0, callSeq |-> 0,
   replied |-> [turn |-> 0, calls |-> <<>>], resulted |-> {}, open |-> TRUE,
   pending |-> FALSE, notes |-> 0]

RecorderInit ==
  /\ client \in Clients
  /\ history = [a \in Agents |-> [len |-> 1, echoed |-> <<>>]]
  /\ asking = [a \in Agents |-> 0]
  /\ runs = <<>> /\ tick = 0 /\ requests = <<>> /\ writers = {}
  /\ chain = [r \in RunIds |-> <<>>] /\ stop = "no"
  /\ file = [r \in RunIds |-> <<>>] /\ lossy = {}

------------------------------------------------------------------------------
\* Sessions.

\* The run a request continues: of the open ones with its key, and without a
\* session hint no longer than it, the one joined last.
Candidates(key, len) ==
  {r \in DOMAIN runs : runs[r].open /\ runs[r].key = key /\ (client.hinted \/ runs[r].len <= len)}
Joined(key, len) ==
  IF Candidates(key, len) = {} THEN Len(runs) + 1
  ELSE CHOOSE r \in Candidates(key, len) :
         \A s \in Candidates(key, len) : runs[s].active <= runs[r].active

\* The calls a request's results answer: by the id on the wire, or by the place
\* of the call in the echoed message.
toolResults(echoed, calls) ==
  IF client.dialect = "anthropic"
  THEN Pick(calls, {i \in DOMAIN calls : \E j \in DOMAIN echoed : echoed[j] = calls[i].wire})
  ELSE SubSeq(calls, 1, IF Len(echoed) < Len(calls) THEN Len(echoed) ELSE Len(calls))

\* Mutant: a result is recorded each time it is sent.
EveryResult(run, seen) == seen

\* One result for each call that has none yet; a retry repeats them.
results(run, seen) == Pick(seen, {i \in DOMAIN seen : seen[i].id \notin run.resulted})

flush(run) == [i \in 1 .. run.notes |-> Event(0, "note", 0)]

\* The run after a request of class cls, and the events it records.
onRequest(run, cls, hist) ==
  LET new   == results(run, toolResults(hist.echoed, run.replied.calls))
      turn  == run.turn + 1
      es    == flush(run)
               \o [i \in DOMAIN new |-> Event(run.replied.turn, "tool_result", new[i].id)]
               \o (IF client.hinted /\ cls = "compaction" THEN <<Event(turn, "note", 0)>> ELSE <<>>)
               \o <<Event(turn, "llm_request", 0)>>
  IN [run |-> [Advanced(run, es) EXCEPT
                 !.len = hist.len, !.active = tick + 1, !.turn = turn,
                 !.pending = FALSE, !.notes = 0,
                 !.resulted = @ \cup {new[i].id : i \in DOMAIN new}],
      events |-> Numbered(run, es)]

\* The run after the reply to the request of a turn, and the events it records.
onReply(run, q, ok) ==
  LET calls == [i \in DOMAIN q.calls |-> [id |-> run.callSeq + i, wire |-> q.calls[i]]]
      reads == ok /\ q.cls # "auxiliary"
      es    == CASE reads -> <<Event(q.turn, "llm_response", 0)>>
                             \o [i \in DOMAIN calls |-> Event(q.turn, "tool_call", calls[i].id)]
                 [] q.cls = "auxiliary" -> <<Event(run.turn, "note", 0)>>
                 [] OTHER -> <<Event(q.turn, "error", 0)>>
      after == IF reads
               THEN [run EXCEPT !.callSeq = @ + Len(calls),
                                !.replied = [turn |-> q.turn, calls |-> calls]]
               ELSE run
  IN CASE ~run.open -> [run |-> run, events |-> <<>>]
       [] run.open /\ q.cls = "auxiliary" /\ run.pending ->
            [run |-> [run EXCEPT !.notes = @ + 1], events |-> <<>>]
       [] OTHER -> [run |-> Advanced(after, es), events |-> Numbered(run, es)]

\* What close() records of an open run.
closing(run) == Numbered(run, Append(flush(run), Event(run.turn, "done", 0)))

------------------------------------------------------------------------------
\* The server.

Unspent == Len(requests) + Cardinality(lossy) < MaxRequests
Waiting == FoldFunction(LAMBDA jobs, n : Len(jobs) + n, 0, chain)

\* Append in call order: the first call with a meta opens the file.
record(r, es, meta) ==
  IF r \notin writers /\ ~meta THEN UNCHANGED <<writers, chain>>
  ELSE /\ Waiting <= MaxWaiting
       /\ writers' = writers \cup {r}
       /\ chain' = [chain EXCEPT ![r] = @ \o (IF r \in writers THEN <<es>> ELSE <<Open, es>>)]

\* handle, up to the request to the upstream: a request of an agent is read,
\* recorded and sent on.
Arrive(a, cls) ==
  LET aux == cls = "auxiliary"
      key == IF client.hinted /\ aux THEN "main" ELSE client.name[a]
      r   == Joined(key, history[a].len)
      run == IF r \in DOMAIN runs THEN runs[r] ELSE [NewRun(key) EXCEPT !.pending = aux]
      out == IF aux THEN [run |-> run, events |-> <<>>] ELSE onRequest(run, cls, history[a])
      q   == [agent |-> a, cls |-> cls, run |-> r, turn |-> out.run.turn, st |-> "sent",
              calls |-> <<>>]
  IN /\ stop = "no" /\ Unspent /\ asking[a] = 0
     /\ cls \in client.sends[a]
     /\ cls = "compaction" => history[a].len > 1
     /\ requests' = Append(requests, q)
     /\ asking' = [asking EXCEPT ![a] = Len(requests) + 1]
     /\ runs' = IF r \in DOMAIN runs THEN [runs EXCEPT ![r] = out.run] ELSE Append(runs, out.run)
     /\ tick' = IF aux THEN tick ELSE tick + 1
     /\ record(r, out.events, ~aux /\ (r \notin DOMAIN runs \/ run.pending))
     /\ UNCHANGED <<client, history, stop, file, lossy>>

\* The agent has all of a reply, with n calls, though the upstream has not
\* ended it: it goes on at once.  Forwarding never waits on recording.
Forward(k, n) ==
  LET q == requests[k]
      calls == [i \in 1 .. n |-> <<k, i>>]
  IN /\ q.st = "sent" /\ (q.cls # "main" => n = 0)
     /\ requests' = [requests EXCEPT ![k].st = "forwarded", ![k].calls = calls]
     /\ asking' = [asking EXCEPT ![q.agent] = 0]
     /\ history' = [history EXCEPT ![q.agent] =
          CASE q.cls = "main"       -> [len |-> @.len + 2, echoed |-> calls]
            [] q.cls = "compaction" -> [len |-> 1, echoed |-> <<>>]
            [] OTHER                -> @]
     /\ UNCHANGED <<client, sessions, writers, chain, stop, file, lossy>>

\* The agent leaves; it may send the same again.
Leave(k) ==
  /\ requests[k].st = "sent"
  /\ requests' = [requests EXCEPT ![k].st = "aborted"]
  /\ asking' = [asking EXCEPT ![requests[k].agent] = 0]
  /\ UNCHANGED <<client, history, sessions, writers, chain, stop, file, lossy>>

\* The exchange with the upstream ends, and the rest of handle records the
\* outcome: a reply, or an error when the upstream cut it or it does not read,
\* when the agent left, and when the proxy stops.
ends(k, ok) ==
  LET q   == requests[k]
      out == onReply(runs[q.run], q, ok)
  IN /\ requests' = [requests EXCEPT ![k] = gone(@)]
     /\ asking' = [asking EXCEPT ![q.agent] = IF @ = k THEN 0 ELSE @]
     /\ runs' = [runs EXCEPT ![q.run] = out.run]
     /\ record(q.run, out.events, FALSE)
     /\ UNCHANGED <<client, history, tick, stop, file, lossy>>
UpstreamEnds(k) ==
  \/ requests[k].st \in {"sent", "forwarded"} /\ ends(k, FALSE)
  \/ requests[k].st = "forwarded" /\ ends(k, TRUE)
AbortEnds(k) == requests[k].st = "aborted" /\ ends(k, FALSE)

\* The head of a run's chain is written, or fails and is logged.  When the file
\* cannot be opened the first append fails with it; a later one makes a file
\* without a meta line.
Write(r) ==
  /\ chain[r] # <<>>
  /\ file' = [file EXCEPT ![r] = @ \o Head(chain[r])]
  /\ chain' = [chain EXCEPT ![r] = Tail(@)]
  /\ UNCHANGED <<agents, sessions, requests, writers, stop, lossy>>
WriteFails(r) ==
  /\ chain[r] # <<>> /\ Unspent
  /\ chain' = [chain EXCEPT ![r] = IF Head(@) = Open THEN Tail(Tail(@)) ELSE Tail(@)]
  /\ lossy' = lossy \cup {r}
  /\ UNCHANGED <<agents, sessions, requests, writers, stop, file>>

\* stop(): abort what is in flight, wait for its recording, end every open run,
\* wait for the files.
Stop ==
  /\ stop = "no" /\ stop' = "aborted"
  /\ requests' = [k \in DOMAIN requests |->
       IF requests[k].st = "gone" THEN requests[k] ELSE [requests[k] EXCEPT !.st = "aborted"]]
  /\ UNCHANGED <<agents, sessions, writers, chain, file, lossy>>
\* Mutant: stop ends the runs while handlers still record.
HandlersIgnored == TRUE
HandlersGone == \A k \in DOMAIN requests : requests[k].st = "gone"
StopCloses ==
  LET done(r) == IF r \in writers THEN <<closing(runs[r])>> ELSE <<Open, closing(runs[r])>> IN
  /\ stop = "aborted" /\ HandlersGone /\ stop' = "closed"
  /\ runs' = [r \in DOMAIN runs |-> [runs[r] EXCEPT !.open = FALSE, !.pending = FALSE, !.notes = 0]]
  /\ chain' = [r \in RunIds |-> IF r \in DOMAIN runs THEN chain[r] \o done(r) ELSE chain[r]]
  /\ writers' = DOMAIN runs
  /\ UNCHANGED <<agents, tick, requests, file, lossy>>
ChainsDone == \A r \in RunIds : chain[r] = <<>>
StopReturns ==
  /\ stop = "closed" /\ ChainsDone /\ stop' = "stopped"
  /\ UNCHANGED <<agents, sessions, requests, writers, chain, file, lossy>>

RecorderNext ==
  \/ \E a \in Agents, cls \in Classes : Arrive(a, cls)
  \/ \E k \in DOMAIN requests :
       \/ Leave(k) \/ UpstreamEnds(k) \/ AbortEnds(k)
       \/ \E n \in 0 .. MaxCalls : Forward(k, n)
  \/ \E r \in RunIds : Write(r) \/ WriteFails(r)
  \/ Stop \/ StopCloses \/ StopReturns

\* An abort ends a request and an append returns; the upstream, the agents and
\* who stops the proxy owe nothing.
RecorderFairness ==
  /\ \A k \in 1 .. MaxRequests :
       WF_recorderVars(k \in DOMAIN requests /\ AbortEnds(k))
  /\ \A r \in RunIds : WF_recorderVars(Write(r) \/ WriteFails(r))
  /\ WF_recorderVars(StopCloses \/ StopReturns)

RecorderSpec == RecorderInit /\ [][RecorderNext]_recorderVars /\ RecorderFairness

------------------------------------------------------------------------------
\* The lines of type t in run r's file, and of a turn.
At(r, t)         == {i \in DOMAIN file[r] : file[r][i].type = t}
AtTurn(r, ts, n) == {i \in DOMAIN file[r] : file[r][i].type \in ts /\ file[r][i].turn = n}

RecorderTypeOK ==
  /\ \A r \in DOMAIN runs : runs[r].resulted \subseteq 1 .. runs[r].callSeq
  /\ writers \subseteq DOMAIN runs
  /\ \A k \in DOMAIN requests : requests[k].run \in {0} \cup DOMAIN runs
  /\ \A a \in Agents : asking[a] \in {0} \cup DOMAIN requests
  /\ stop \in {"no", "aborted", "closed", "stopped"}

\* A file is the meta line and then the events with the seqs 0, 1, 2, ...
InOrder(r) ==
  /\ \A i \in DOMAIN file[r] :
       IF i = 1 THEN file[r][i] = MetaLine
       ELSE file[r][i].type # "meta" /\ file[r][i].seq = i - 2
  /\ \A i \in At(r, "done") : i = Len(file[r])
\* A turn has one request, and after it at most one outcome.
OneOutcome(r) ==
  /\ \A i \in At(r, "llm_request") : AtTurn(r, {"llm_request"}, file[r][i].turn) = {i}
  /\ \A i \in At(r, "llm_response") \cup At(r, "error") :
       LET n == file[r][i].turn IN
       /\ AtTurn(r, {"llm_response", "error"}, n) = {i}
       /\ \E j \in AtTurn(r, {"llm_request"}, n) : j < i
\* A call has at most one result, after it and under its turn.
OneResult(r) ==
  \A i \in At(r, "tool_result") :
    /\ \A j \in At(r, "tool_result") : file[r][j].call = file[r][i].call => j = i
    /\ \E j \in At(r, "tool_call") : j < i /\ file[r][j].call = file[r][i].call
                                     /\ file[r][j].turn = file[r][i].turn

\* Whatever requests overlap, are retried or share a run, each file reads as one
\* run: meta first, seqs without a gap, one outcome for a request, one result for
\* a call, nothing after done (sessions.ts:38-152, server.ts:108-121).
TranscriptSound ==
  /\ RecorderTypeOK
  /\ \A r \in RunIds \ lossy : InOrder(r) /\ OneOutcome(r) /\ OneResult(r)

\* Every request that was recorded has its outcome and every run its done, as
\* stop() has to leave them (server.ts:233-241).
AllRecorded ==
  \A r \in DOMAIN runs \ lossy :
    /\ file[r] # <<>> /\ Last(file[r]).type = "done"
    /\ \A n \in 1 .. runs[r].turn : AtTurn(r, {"llm_response", "error"}, n) # {}
=============================================================================
