------------------------------ MODULE AgentLoop ------------------------------
(****************************************************************************)
(* runAgent of core/run.ts: one run of a harness, from the approvals that   *)
(* precede it to the done event and the release of its mcp servers.         *)
(*                                                                          *)
(* The function is an async generator.  It runs to completion between two   *)
(* points where it is suspended, a yield or an await, so an abort can come  *)
(* only there: pc names the point, and the few values of pc in Running are  *)
(* steps inside one stretch of code, where nothing else can happen.         *)
(*                                                                          *)
(* A tool call is a model value: the tool's name with its arguments, which  *)
(* is what the repeat detector compares.  The text of messages is left out, *)
(* their roles and the calls an assistant message carries are kept.         *)
(****************************************************************************)
EXTENDS Naturals, Sequences

CONSTANTS
  EditCalls,    \* calls of edit_file and write_file
  BashCalls,    \* calls of bash; none if the harness does not enable it
  OtherCalls,   \* read_file, list_dir and the tools of mcp servers
  Check,        \* the key of loop.untilBash in the repeat detector
  NoCall,
  Configs,      \* the harnesses to run
  MaxBatch      \* most calls of one reply

Calls == EditCalls \cup BashCalls \cup OtherCalls
Keys  == Calls \cup {Check}

\* The fields of HarnessConfig the loop branches on.  An optional number is a
\* flag and a value; maxRepeats bounds freshContext as validateConfig demands.
ConfigType ==
  [ servers     : Nat,       \* number of mcpServers
    untilBash   : BOOLEAN,   \* loop.untilBash is set
    approveBash : BOOLEAN,   \* tools.approveBash
    canApprove  : BOOLEAN,   \* opts.approve was given
    native      : BOOLEAN,   \* toolCalls.mode is "native"
    heat        : BOOLEAN,   \* loop.repeatTemperature or repeatThinkTokens
    maxTurns    : Nat,
    counting    : BOOLEAN,   \* loop.maxRepeats is set ...
    maxRepeats  : Nat,       \* ... to this
    refreshing  : BOOLEAN,   \* loop.freshContext is set ...
    fresh       : Nat ]      \* ... to this

ASSUME CallsAssumption ==
  /\ EditCalls \cap BashCalls = {}
  /\ (EditCalls \cup BashCalls) \cap OtherCalls = {}
  /\ Check \notin Calls /\ NoCall \notin Keys

ASSUME ConfigsAssumption ==
  /\ Configs \subseteq ConfigType
  /\ \A c \in Configs : c.refreshing => c.counting /\ c.fresh \in 1 .. c.maxRepeats
  /\ MaxBatch \in Nat

VARIABLES
  config,      \* the harness of this run
  pc,          \* where the generator stands
  aborted,     \* opts.signal.aborted
  left,        \* mcp servers still to ask about, then still to announce
  mcp,         \* "none", "live" or "closed"
  turn,
  parseFails,
  hot,
  wasReset,
  seen,        \* calls made, per key, since the files last changed
  applied,     \* edits that have succeeded
  messages,    \* the history: role and number of tool calls of each message
  batch,       \* calls of the current reply that have not been answered
  repeats,     \* of the call answered last
  result,      \* of the call answered last
  event,       \* type of the newest event
  reason       \* of the done event, "none" until one is certain

\* History variables, read by properties only.
VARIABLES
  made,        \* recorded calls per key since any edit succeeded
  whole,       \* recorded calls per key since the context was fresh
  consent,     \* the bash command whose approval is being acted on
  untilOk,     \* loop.untilBash was approved before the run
  late         \* requests, tools and checks begun after the abort

control == <<pc, event, reason>>
detector == <<hot, seen, applied, made, whole>>
asking == <<consent, untilOk>>
vars == <<config, aborted, left, mcp, turn, parseFails, wasReset, messages, batch,
          repeats, result, late, control, detector, asking>>

------------------------------------------------------------------------------
\* Points of the generator.

Running == {"mcp", "until", "servers", "closed"}
AtYield == {"mcpAsk", "untilAsk", "callAsk", "failing", "announce", "notes",
            "top", "request", "send", "parse", "checked", "call", "called",
            "resulted", "ended"}
AtAwait == {"starting", "info", "count", "waiting", "doomed", "check", "running"}
Points  == Running \cup AtYield \cup AtAwait

Goto(p) == pc' = p /\ UNCHANGED <<event, reason>>

\* yield ev({type: e}); the code goes on at p.
Yield(e, p) == pc' = p /\ event' = e /\ UNCHANGED reason

\* yield done(r); return
Done(r) == pc' = "ended" /\ event' = "done" /\ reason' = r

\* Mutant: the return after the error is missing.
FailNoReturn(r) == pc' = "top" /\ event' = "error" /\ reason' = r

\* yield an error, then done(r)
Fail(r) == pc' = "failing" /\ event' = "error" /\ reason' = r

Msg(role, calls) == [role |-> role, calls |-> calls]
System    == Msg("system", 0)
User      == Msg("user", 0)
Tool      == Msg("tool", 0)
Opening   == <<System, User>>
Histories == Seq([role : {"system", "user", "assistant", "tool"}, calls : Nat])

\* Mutant: the check has no place in the detector's map.
ZeroNoCheck == [k \in Calls |-> 0]

Zero == [k \in Keys |-> 0]

Begin(n) == late' = IF aborted THEN late + n ELSE late

Init ==
  /\ config \in Configs
  /\ pc = "mcp" /\ aborted = FALSE /\ left = config.servers /\ mcp = "none"
  /\ turn = 0 /\ parseFails = 0 /\ hot = FALSE /\ wasReset = FALSE
  /\ seen = Zero /\ applied = {} /\ messages = Opening /\ batch = <<>>
  /\ repeats = 0 /\ result = "none" /\ event = "none" /\ reason = "none"
  /\ made = Zero /\ whole = Zero /\ consent = NoCall /\ untilOk = FALSE /\ late = 0

------------------------------------------------------------------------------
\* Before the first request: every mcp server and loop.untilBash are asked
\* about, then the servers are started.

unchangedLoop == UNCHANGED <<config, aborted, turn, parseFails, wasReset, messages,
                             batch, repeats, result, late, detector>>

AskServer ==
  /\ pc = "mcp" /\ left > 0
  /\ IF aborted THEN Done("aborted") ELSE Yield("ask_server", "mcpAsk")
  /\ UNCHANGED <<left, mcp, asking>> /\ unchangedLoop

AnswerServer(ok) ==
  /\ pc = "mcpAsk"
  /\ \/ ~config.canApprove /\ Fail("mcp_error") /\ UNCHANGED left
     \/ config.canApprove /\ aborted /\ Done("aborted") /\ UNCHANGED left
     \/ config.canApprove /\ ~aborted /\ ~ok /\ Done("mcp_error") /\ UNCHANGED left
     \/ config.canApprove /\ ~aborted /\ ok /\ Goto("mcp") /\ left' = left - 1
  /\ UNCHANGED <<mcp, asking>> /\ unchangedLoop

ServersAsked ==
  /\ pc = "mcp" /\ left = 0
  /\ Goto(IF config.untilBash THEN "until" ELSE "servers")
  /\ UNCHANGED <<left, mcp, asking>> /\ unchangedLoop

\* approveUntil: before the run (turn 0) and, under approveBash, before a check.
AskUntil ==
  /\ pc = "until"
  /\ IF aborted THEN Done("aborted") ELSE Yield("ask_check", "untilAsk")
  /\ UNCHANGED <<left, mcp, asking>> /\ unchangedLoop

AnswerUntil(ok) ==
  /\ pc = "untilAsk"
  /\ \/ aborted /\ Done("aborted") /\ UNCHANGED asking
     \/ ~aborted /\ ~(ok /\ config.canApprove) /\ Fail("aborted") /\ UNCHANGED asking
     \/ /\ ~aborted /\ ok /\ config.canApprove
        /\ Goto(IF turn = 0 THEN "servers" ELSE "check")
        /\ untilOk' = TRUE
        /\ consent' = IF turn = 0 THEN NoCall ELSE Check
  /\ UNCHANGED <<left, mcp>> /\ unchangedLoop

StartServers ==
  /\ pc = "servers"
  /\ Goto(IF config.servers > 0 THEN "starting" ELSE "info")
  /\ UNCHANGED <<left, mcp, asking>> /\ unchangedLoop

\* startServers closes what it had started when one of them fails.
ServersStarted(ok) ==
  /\ pc = "starting"
  /\ \/ ok /\ Goto("announce") /\ mcp' = "live" /\ left' = config.servers
     \/ ~ok /\ aborted /\ Done("aborted") /\ UNCHANGED <<mcp, left>>
     \/ ~ok /\ ~aborted /\ Fail("mcp_error") /\ UNCHANGED <<mcp, left>>
  /\ UNCHANGED asking /\ unchangedLoop

Announce ==
  /\ pc = "announce"
  /\ IF left > 0
       THEN Yield("mcp_server_start", "announce") /\ left' = left - 1
       ELSE Goto("info") /\ UNCHANGED left
  /\ UNCHANGED <<mcp, asking>> /\ unchangedLoop

\* serverInfo answers: the model lacks a knob the harness needs, or some it
\* can do without, or none.
KnobsKnown ==
  /\ pc = "info"
  /\ Fail("backend_error") \/ Yield("knobs_off", "notes") \/ Goto("notes")
  /\ UNCHANGED <<left, mcp, asking>> /\ unchangedLoop

LoadNotes ==
  /\ pc = "notes"
  /\ Yield("notes_loaded", "top") \/ Goto("top")
  /\ UNCHANGED <<left, mcp, asking>> /\ unchangedLoop

------------------------------------------------------------------------------
\* One turn: the request and what comes back.

TopOfLoop ==
  /\ pc = "top"
  /\ \/ aborted /\ Done("aborted") /\ UNCHANGED turn
     \/ ~aborted /\ turn >= config.maxTurns /\ Done("max_turns") /\ UNCHANGED turn
     \/ ~aborted /\ turn < config.maxTurns /\ Goto("count") /\ turn' = turn + 1
  /\ UNCHANGED <<config, aborted, left, mcp, parseFails, wasReset, messages, batch,
                 repeats, result, late, detector, asking>>

unchangedTurn == UNCHANGED <<config, aborted, left, mcp, turn, wasReset, repeats, result>>

ContextStats ==
  /\ pc = "count"
  /\ Yield("context_stats", "request")
  /\ UNCHANGED <<messages, batch, parseFails, late, detector, asking>> /\ unchangedTurn

LlmRequest ==
  /\ pc = "request"
  /\ Yield("llm_request", "send")
  /\ Begin(1)
  /\ UNCHANGED <<messages, batch, parseFails, detector, asking>> /\ unchangedTurn

\* A send whose signal has fired already can only be refused.
Send ==
  /\ pc = "send"
  /\ Goto(IF aborted THEN "doomed" ELSE "waiting")
  /\ UNCHANGED <<messages, batch, parseFails, late, detector, asking>> /\ unchangedTurn

\* Mutant: the signal is not handed to the backend.
SendFailsDeaf(stop) ==
  /\ pc = "waiting" /\ ~aborted
  /\ Fail("backend_error")
  /\ UNCHANGED <<messages, batch, parseFails, late, detector, asking>> /\ unchangedTurn

\* A stop (a refused key, no credits, a rate limit that a cut wait gave up on)
\* is reported as itself even when the run was aborted meanwhile.
SendFails(stop) ==
  /\ pc = "waiting" \/ (pc = "doomed" /\ ~stop)
  /\ IF aborted /\ ~stop THEN Done("aborted") ELSE Fail("backend_error")
  /\ UNCHANGED <<messages, batch, parseFails, late, detector, asking>> /\ unchangedTurn

LlmResponse ==
  /\ pc = "waiting"
  /\ Yield("llm_response", "parse")
  /\ UNCHANGED <<messages, batch, parseFails, late, detector, asking>> /\ unchangedTurn

\* A reply that was cut off, does not parse or is empty.
ParseError ==
  /\ pc = "parse"
  /\ parseFails' = parseFails + 1
  /\ hot' = FALSE
  /\ messages' = messages \o <<Msg("assistant", 0), User>>
  /\ pc' = IF parseFails' >= 2 THEN "failing" ELSE "top"
  /\ event' = "parse_error"
  /\ reason' = IF parseFails' >= 2 THEN "parse_failed" ELSE reason
  /\ UNCHANGED <<batch, late, seen, applied, made, whole, asking>> /\ unchangedTurn

FinalAnswer ==
  /\ pc = "parse"
  /\ parseFails' = 0
  /\ messages' = Append(messages, Msg("assistant", 0))
  /\ \/ ~config.untilBash /\ Done("final") /\ UNCHANGED late
     \/ config.untilBash /\ config.approveBash /\ Goto("until") /\ UNCHANGED late
     \/ config.untilBash /\ ~config.approveBash /\ Goto("check") /\ Begin(1)
  /\ UNCHANGED <<batch, detector, asking>> /\ unchangedTurn

Batches == UNION {[1 .. n -> Calls] : n \in 1 .. MaxBatch}

ToolCalls(calls) ==
  /\ pc = "parse"
  /\ parseFails' = 0
  /\ messages' = Append(messages, Msg("assistant", IF config.native THEN Len(calls) ELSE 0))
  /\ batch' = calls
  /\ hot' = FALSE
  /\ Goto("call")
  /\ UNCHANGED <<late, seen, applied, made, whole, asking>> /\ unchangedTurn

------------------------------------------------------------------------------
\* A claim to be done under loop.untilBash: the check decides.

CheckReturns(passed) ==
  /\ pc = "check"
  /\ \/ aborted /\ Done("aborted") /\ UNCHANGED result
     \/ ~aborted /\ Yield("final_check", "checked")
        /\ result' = IF passed THEN "passed" ELSE "failed"
  /\ consent' = NoCall
  /\ UNCHANGED <<config, aborted, left, mcp, turn, parseFails, wasReset, messages,
                 batch, repeats, late, detector, untilOk>>

\* Mutant: the outcome of the check is not looked at.
CheckPassedAnyway ==
  /\ pc = "checked"
  /\ Done("final")
  /\ UNCHANGED <<config, aborted, left, mcp, turn, parseFails, wasReset, messages,
                 batch, repeats, result, late, detector, asking>>

CheckPassed ==
  /\ pc = "checked" /\ result = "passed"
  /\ Done("final")
  /\ UNCHANGED <<config, aborted, left, mcp, turn, parseFails, wasReset, messages,
                 batch, repeats, result, late, detector, asking>>

\* A failed check is counted like a call, under a key of its own.
CheckFailed ==
  LET n == IF config.counting THEN seen[Check] + 1 ELSE 1 IN
  /\ pc = "checked" /\ result = "failed"
  /\ seen' = [seen EXCEPT ![Check] = n]
  /\ hot' = (n > 1 /\ config.heat)
  /\ messages' = Append(messages, User)
  /\ IF config.counting /\ n - 1 > config.maxRepeats THEN Done("repeat_loop") ELSE Goto("top")
  /\ made' = [made EXCEPT ![Check] = IF config.counting THEN @ + 1 ELSE 1]
  /\ whole' = [whole EXCEPT ![Check] = @ + 1]
  /\ result' = "none"
  /\ UNCHANGED <<config, aborted, left, mcp, turn, parseFails, wasReset, batch,
                 repeats, applied, late, asking>>

------------------------------------------------------------------------------
\* The calls of one reply, in order.

unchangedCall == UNCHANGED <<config, aborted, left, mcp, turn, parseFails, wasReset>>

\* Mutant: the abort is looked at between turns only.
NextCallUnaborted ==
  /\ pc = "call" /\ batch # <<>>
  /\ Yield("tool_call", "called")
  /\ UNCHANGED <<messages, batch, repeats, result, late, detector, asking>> /\ unchangedCall

NextCall ==
  /\ pc = "call" /\ batch # <<>>
  /\ IF aborted THEN Done("aborted") ELSE Yield("tool_call", "called")
  /\ UNCHANGED <<messages, batch, repeats, result, late, detector, asking>> /\ unchangedCall

\* Mutant: the results of a prompted reply are never sent back.
LastCallSilent ==
  /\ pc = "call" /\ batch = <<>>
  /\ Goto("top")
  /\ UNCHANGED <<messages, batch, repeats, result, late, detector, asking>> /\ unchangedCall

\* Prompted mode sends all results of a reply back as one user message.
LastCall ==
  /\ pc = "call" /\ batch = <<>>
  /\ messages' = IF config.native THEN messages ELSE Append(messages, User)
  /\ Goto("top")
  /\ UNCHANGED <<batch, repeats, result, late, detector, asking>> /\ unchangedCall

\* Mutant: an edit that succeeded clears nothing.
AfterEditAll(done) == seen

\* A successful edit forgets every call but the edits that ever succeeded.
AfterEdit(done) == [j \in Keys |-> IF j \in done THEN seen[j] ELSE 0]

\* The detector sees the call k with result r; then tool_result goes out.
Record(k, r) ==
  LET n       == seen[k] + 1
      changes == r = "ok" /\ k \in EditCalls
      done    == IF changes THEN applied \cup {k} ELSE applied
      kept    == IF changes THEN AfterEdit(done) ELSE seen
  IN /\ Yield("tool_result", "resulted")
     /\ result' = r
     /\ consent' = NoCall
     /\ IF config.counting
          THEN /\ repeats' = n - 1
               /\ applied' = done
               /\ seen' = IF r = "blocked" THEN kept ELSE [kept EXCEPT ![k] = n]
               /\ hot' = (hot \/ (n > 1 /\ config.heat))
               /\ made' = IF changes THEN [Zero EXCEPT ![k] = 1]
                          ELSE IF r = "blocked" THEN made ELSE [made EXCEPT ![k] = @ + 1]
               /\ whole' = IF r = "blocked" THEN whole ELSE [whole EXCEPT ![k] = @ + 1]
          ELSE repeats' = 0 /\ UNCHANGED detector
     /\ UNCHANGED <<messages, batch, untilOk>> /\ unchangedCall

\* Arguments that did not parse: the call is answered without being run.
BadArguments ==
  /\ pc = "called"
  /\ Record(Head(batch), "error")
  /\ UNCHANGED late

\* Mutant: one yes is taken for every later call.
MustAskOnce(k) == k \in BashCalls /\ config.approveBash /\ turn = 1

MustAsk(k) == k \in BashCalls /\ config.approveBash

AskTool ==
  /\ pc = "called" /\ MustAsk(Head(batch))
  /\ Yield("ask_tool", "callAsk")
  /\ UNCHANGED <<messages, batch, repeats, result, late, detector, asking>> /\ unchangedCall

RunTool ==
  /\ pc = "called" /\ ~MustAsk(Head(batch))
  /\ Goto("running")
  /\ Begin(1)
  /\ UNCHANGED <<messages, batch, repeats, result, detector, asking>> /\ unchangedCall

ApproveTool ==
  /\ pc = "callAsk" /\ config.canApprove
  /\ Goto("running")
  /\ consent' = Head(batch)
  /\ Begin(1)
  /\ UNCHANGED <<messages, batch, repeats, result, detector, untilOk>> /\ unchangedCall

DenyTool ==
  /\ pc = "callAsk"
  /\ Record(Head(batch), "error")
  /\ UNCHANGED late

\* Only a change of a file can be refused by the read-before-edit guard.
Results(k) == {"ok", "error"} \cup (IF k \in EditCalls THEN {"blocked"} ELSE {})

ToolReturns(r) ==
  /\ pc = "running" /\ r \in Results(Head(batch))
  /\ Record(Head(batch), r)
  /\ UNCHANGED late

\* Mutants: the comparison with maxRepeats, off by one either way.
TooManyEarly == config.counting /\ repeats >= config.maxRepeats
TooManyLate  == config.counting /\ repeats > config.maxRepeats + 1

\* Mutant: the comparison with freshContext, off by one.
WantsResetLate == ~wasReset /\ config.refreshing /\ repeats > config.fresh

TooManyRepeats == config.counting /\ repeats > config.maxRepeats
WantsReset     == ~wasReset /\ config.refreshing /\ repeats >= config.fresh

EndLoop ==
  /\ pc = "resulted" /\ TooManyRepeats
  /\ Done("repeat_loop")
  /\ UNCHANGED <<messages, batch, repeats, result, late, detector, asking>> /\ unchangedCall

\* loop.freshContext: the rest of the reply is dropped and the history starts
\* again from the task, with nothing remembered of the calls so far.
ContextReset ==
  /\ pc = "resulted" /\ ~TooManyRepeats /\ WantsReset
  /\ Yield("context_reset", "top")
  /\ wasReset' = TRUE
  /\ messages' = Opening
  /\ seen' = Zero /\ applied' = {} /\ hot' = FALSE
  /\ made' = Zero /\ whole' = Zero
  /\ batch' = <<>> /\ repeats' = 0 /\ result' = "none"
  /\ UNCHANGED <<config, aborted, left, mcp, turn, parseFails, late, asking>>

KeepResult ==
  /\ pc = "resulted" /\ ~TooManyRepeats /\ ~WantsReset
  /\ messages' = IF config.native THEN Append(messages, Tool) ELSE messages
  /\ batch' = Tail(batch)
  /\ repeats' = 0 /\ result' = "none"
  /\ Goto("call")
  /\ UNCHANGED <<late, detector, asking>> /\ unchangedCall

------------------------------------------------------------------------------
\* The end of the run, and what may end it from outside.

unchangedEnd == UNCHANGED <<config, left, turn, parseFails, wasReset, messages, batch,
                            repeats, result, late, detector, asking>>

ReportDone ==
  /\ pc = "failing"
  /\ Done(reason)
  /\ UNCHANGED <<aborted, mcp>> /\ unchangedEnd

\* finally: mcp?.close().  The consumer may also leave at any yield, which
\* runs the same block.
Close ==
  /\ pc \in AtYield
  /\ Goto("closed")
  /\ mcp' = IF mcp = "live" THEN "closed" ELSE mcp
  /\ UNCHANGED aborted /\ unchangedEnd

Abort ==
  /\ pc \in (AtYield \cup AtAwait) \ {"ended"} /\ ~aborted
  /\ aborted' = TRUE
  /\ UNCHANGED <<mcp, control>> /\ unchangedEnd

------------------------------------------------------------------------------

BeforeLoop ==
  \/ AskServer \/ ServersAsked \/ AskUntil \/ StartServers
  \/ Announce \/ KnobsKnown \/ LoadNotes
  \/ \E ok \in BOOLEAN : AnswerServer(ok) \/ AnswerUntil(ok) \/ ServersStarted(ok)

Turn ==
  \/ TopOfLoop \/ ContextStats \/ LlmRequest \/ Send \/ LlmResponse
  \/ ParseError \/ FinalAnswer
  \/ \E stop \in BOOLEAN : SendFails(stop)
  \/ \E calls \in Batches : ToolCalls(calls)

Checking ==
  \/ \E passed \in BOOLEAN : CheckReturns(passed)
  \/ CheckPassed \/ CheckFailed

Tools ==
  \/ NextCall \/ LastCall \/ BadArguments \/ AskTool \/ RunTool
  \/ ApproveTool \/ DenyTool
  \/ \E r \in {"ok", "error", "blocked"} : ToolReturns(r)
  \/ EndLoop \/ ContextReset \/ KeepResult

\* What the generator itself does next, whoever it has to wait for.
Step == BeforeLoop \/ Turn \/ Checking \/ Tools \/ ReportDone

Next == Step \/ Close \/ Abort

Spec == Init /\ [][Next]_vars

------------------------------------------------------------------------------
TypeOK ==
  /\ config \in Configs
  /\ pc \in Points
  /\ aborted \in BOOLEAN /\ hot \in BOOLEAN /\ wasReset \in BOOLEAN /\ untilOk \in BOOLEAN
  /\ left \in Nat /\ turn \in Nat /\ parseFails \in Nat /\ repeats \in Nat /\ late \in Nat
  /\ mcp \in {"none", "live", "closed"}
  /\ seen \in [Keys -> Nat] /\ made \in [Keys -> Nat] /\ whole \in [Keys -> Nat]
  /\ applied \subseteq EditCalls
  /\ messages \in Histories
  /\ batch \in Seq(Calls)
  /\ result \in {"none", "ok", "error", "blocked", "passed", "failed"}
  /\ consent \in Keys \cup {NoCall}

\* What a provider accepts: each tool call of the history is answered by its
\* own tool message right after it, no tool message stands alone, and neither
\* the user nor the assistant speaks twice in a row (run.ts:29).
RequestHistory ==
  LET role(i) == messages[i].role IN
  pc = "request" =>
    /\ messages[1] = System /\ messages[2] = User
    /\ messages[Len(messages)].role # "assistant"
    /\ \A i \in 3 .. Len(messages) :
         /\ role(i) = "assistant" =>
              \A j \in 1 .. messages[i].calls : i + j <= Len(messages) /\ role(i + j) = "tool"
         /\ role(i) = "tool" =>
              \E j \in 3 .. i - 1 : role(j) = "assistant" /\ i - j <= messages[j].calls
         /\ role(i) # "tool" => role(i) # role(i - 1)

\* The repeat detector (run.ts:305-318) against plain counting: a call that has
\* never succeeded as an edit is counted exactly as often as it was made since
\* the last edit, any other at least that often, and none is counted that was
\* not made since the context was fresh.
RepeatsCounted ==
  config.counting => \A k \in Keys :
    /\ made[k] <= seen[k] /\ seen[k] <= whole[k]
    /\ k \notin applied => seen[k] = made[k]

\* repeat_loop is never a false alarm (run.ts:269, 331): the call it ended on
\* was made more than maxRepeats + 1 times with no edit in between, or it is an
\* edit that succeeded and was made that often in this context.
LoopVerdictReal ==
  reason = "repeat_loop" =>
    \E k \in Keys :
      (IF k \in applied THEN whole[k] ELSE made[k])
        + (IF result = "blocked" THEN 1 ELSE 0) >= config.maxRepeats + 2

\* ... and never late: no call is made again once it has been made
\* maxRepeats + 2 times with no edit in between (run.ts:331).
LoopCaught ==
  config.counting /\ pc \in {"top", "call"} =>
    \A k \in Keys : made[k] <= config.maxRepeats + 1

\* loop.freshContext comes before the loop is called one (run.ts:333): until it
\* has fired, no tool call was made more often than it allows.
FreshContextInTime ==
  config.refreshing /\ ~wasReset /\ pc \in {"top", "call"} =>
    \A k \in Calls : made[k] <= config.fresh

\* Under loop.untilBash a run is final only when the check passed and nothing
\* has run since (run.ts:250-261).
FinalMeansPassed ==
  reason = "final" /\ config.untilBash => result = "passed"

\* A call whose abort has come begins no second thing (run.ts:159, 190, 256,
\* 278): at most what was about to start when it came.
AbortCostsOneStep == late <= 1

\* Nothing of the model's runs unasked (run.ts:253, 287): the check starts only
\* if it was approved before the run and, under approveBash, for this claim; a
\* bash call under approveBash starts only on a yes to that call.
NothingRunsUnasked ==
  [][ /\ pc # "check" /\ pc' = "check" =>
           untilOk' /\ (config.approveBash => consent' = Check)
      /\ pc # "running" /\ pc' = "running" /\ config.approveBash /\ Head(batch) \in BashCalls =>
           consent' = Head(batch) ]_vars

\* Requests sent: a turn is counted before its request goes out.
Requests == IF pc = "count" \/ event = "context_stats" THEN turn - 1 ELSE turn

\* The stream of events is one that RunEvents allows.
Events == INSTANCE RunEvents WITH
  TurnLimits <- {c.maxTurns : c \in Configs},
  requests   <- Requests,
  cleared    <- wasReset,
  limit      <- config.maxTurns

EventGrammar == Events!Spec

\* What is sure to go on when neither the model nor the person who approves
\* ever answers: the run's own steps, and after an abort the request, which
\* rejects, and the approval, which the abort answers no.
AbortFairSpec ==
  /\ Spec
  /\ WF_vars(pc \notin {"waiting", "mcpAsk", "untilAsk", "callAsk"} /\ Step)
  /\ WF_vars(aborted /\ pc = "waiting" /\ SendFails(FALSE))
  /\ WF_vars(aborted /\ (AnswerServer(FALSE) \/ AnswerUntil(FALSE) \/ DenyTool))
  /\ WF_vars(pc = "ended" /\ Close)

\* An abort ends the run even if the model has gone silent, and the mcp servers
\* are released by then (run.ts:107-109, 349-351).
AbortEnds == aborted ~> (pc = "closed" /\ mcp # "live")
==============================================================================
