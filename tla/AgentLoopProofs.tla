--------------------------- MODULE AgentLoopProofs ---------------------------
(* What is proved of AgentLoop for every harness, every set of calls and    *)
(* every bound on a reply.                                                  *)
EXTENDS AgentLoop, TLAPS

\* The effects of an action on the history, as one fact per action that
\* touches it.
LEMMA BatchesAreSequences == Batches \subseteq Seq(Calls)
BY ConfigsAssumption DEF Batches

LEMMA HistoryType ==
  ASSUME NEW h \in Histories, NEW role \in {"system", "user", "assistant", "tool"}, NEW n \in Nat
  PROVE  Append(h, Msg(role, n)) \in Histories
BY DEF Histories, Msg

LEMMA ZeroType == Zero \in [Keys -> Nat]
BY DEF Zero

\* TypeOK is not inductive alone: an approval is awaited only for a server
\* still to be asked about, and a call is run only from a reply not yet empty.
Placed ==
  /\ pc = "mcpAsk" => left > 0
  /\ pc \in {"called", "callAsk", "running", "resulted"} => batch # <<>>

Typed == TypeOK /\ Placed

LEMMA InitType == Init => Typed
<1> SUFFICES ASSUME Init PROVE Typed
  OBVIOUS
<1>1. config \in ConfigType /\ config.servers \in Nat
  BY ConfigsAssumption DEF Init, ConfigType
<1>2. messages \in Histories
  BY DEF Init, Histories, Opening, System, User, Msg
<1>3. seen \in [Keys -> Nat] /\ made \in [Keys -> Nat] /\ whole \in [Keys -> Nat]
  BY ZeroType DEF Init
<1>4. batch \in Seq(Calls) /\ consent \in Keys \cup {NoCall}
  BY DEF Init
<1> QED
  BY <1>1, <1>2, <1>3, <1>4 DEF Init, Typed, Placed, TypeOK, Points, Running

LEMMA BeforeLoopType == Typed /\ BeforeLoop => Typed'
<1> SUFFICES ASSUME Typed, BeforeLoop PROVE Typed'
  OBVIOUS
<1> USE DEF Typed, TypeOK, Placed, unchangedLoop, detector, asking, Goto, Yield, Done, Fail, Points, Running, AtYield, AtAwait
<1>1. CASE AskServer
  BY <1>1 DEF AskServer
<1>2. CASE ServersAsked
  BY <1>2 DEF ServersAsked
<1>3. CASE AskUntil
  BY <1>3 DEF AskUntil
<1>4. CASE StartServers
  BY <1>4 DEF StartServers
<1>5. CASE Announce
  BY <1>5 DEF Announce
<1>6. CASE KnobsKnown
  BY <1>6 DEF KnobsKnown
<1>7. CASE LoadNotes
  BY <1>7 DEF LoadNotes
<1>8. ASSUME NEW ok \in BOOLEAN, AnswerServer(ok) PROVE Typed'
  BY <1>8 DEF AnswerServer
<1>9. ASSUME NEW ok \in BOOLEAN, AnswerUntil(ok) PROVE Typed'
  BY <1>9 DEF AnswerUntil, Keys
<1>10. ASSUME NEW ok \in BOOLEAN, ServersStarted(ok) PROVE Typed'
  BY <1>10, ConfigsAssumption DEF ServersStarted, ConfigType
<1> QED
  BY <1>1, <1>2, <1>3, <1>4, <1>5, <1>6, <1>7, <1>8, <1>9, <1>10 DEF BeforeLoop

LEMMA TurnType == Typed /\ Turn => Typed'
<1> SUFFICES ASSUME Typed, Turn PROVE Typed'
  OBVIOUS
<1> USE DEF Typed, TypeOK, Placed, unchangedTurn, detector, asking, Goto, Yield, Done,
            Fail, Begin, Points, Running, AtYield, AtAwait
<1>1. CASE TopOfLoop
  BY <1>1 DEF TopOfLoop
<1>2. CASE ContextStats
  BY <1>2 DEF ContextStats
<1>3. CASE LlmRequest
  BY <1>3 DEF LlmRequest
<1>4. CASE Send
  BY <1>4 DEF Send
<1>5. CASE LlmResponse
  BY <1>5 DEF LlmResponse
<1>6. CASE ParseError
  <2>1. messages' \in Histories
    <3>1. messages' = Append(Append(messages, Msg("assistant", 0)), Msg("user", 0))
      BY <1>6 DEF ParseError, User, Histories
    <3> QED
      BY <3>1, HistoryType
  <2>2. pc' \in {"failing", "top"}
    BY <1>6 DEF ParseError
  <2>3. parseFails' \in Nat
    BY <1>6 DEF ParseError
  <2>4. hot' \in BOOLEAN /\ UNCHANGED <<batch, late, seen, applied, made, whole, consent, untilOk>>
    BY <1>6 DEF ParseError
  <2>5. UNCHANGED <<config, aborted, left, mcp, turn, wasReset, repeats, result>>
    BY <1>6 DEF ParseError
  <2> QED
    BY <2>1, <2>2, <2>3, <2>4, <2>5
<1>7. CASE FinalAnswer
  <2>1. messages' \in Histories
    BY <1>7, HistoryType DEF FinalAnswer
  <2> QED
    BY <1>7, <2>1 DEF FinalAnswer
<1>8. ASSUME NEW stop \in BOOLEAN, SendFails(stop) PROVE Typed'
  BY <1>8 DEF SendFails
<1>9. ASSUME NEW calls \in Batches, ToolCalls(calls) PROVE Typed'
  <2>1. calls \in Seq(Calls)
    BY BatchesAreSequences
  <2>2. PICK n \in Nat : messages' = Append(messages, Msg("assistant", n))
    <3>1. Len(calls) \in Nat
      BY <2>1
    <3> QED
      BY <1>9, <3>1 DEF ToolCalls
  <2> QED
    BY <1>9, <2>1, <2>2, HistoryType DEF ToolCalls
<1> QED
  BY <1>1, <1>2, <1>3, <1>4, <1>5, <1>6, <1>7, <1>8, <1>9 DEF Turn

LEMMA CheckingType == Typed /\ Checking => Typed'
<1> SUFFICES ASSUME Typed, Checking PROVE Typed'
  OBVIOUS
<1> USE DEF Typed, TypeOK, Placed, detector, asking, Goto, Yield, Done,
            Points, Running, AtYield, AtAwait
<1>1. ASSUME NEW passed \in BOOLEAN, CheckReturns(passed) PROVE Typed'
  BY <1>1 DEF CheckReturns
<1>2. CASE CheckPassed
  BY <1>2 DEF CheckPassed
<1>3. CASE CheckFailed
  <2>1. Check \in Keys
    BY DEF Keys
  <2>2. messages' \in Histories
    BY <1>3, HistoryType DEF CheckFailed, User
  <2>3. seen' \in [Keys -> Nat] /\ made' \in [Keys -> Nat] /\ whole' \in [Keys -> Nat]
    BY SMTT(20), <1>3, <2>1 DEF CheckFailed
  <2> QED
    BY <1>3, <2>2, <2>3 DEF CheckFailed
<1> QED
  BY <1>1, <1>2, <1>3 DEF Checking

\* What Record leaves behind, whatever the call and its result.
LEMMA RecordType ==
  ASSUME Typed, NEW k \in Calls, NEW r \in {"ok", "error", "blocked"},
         Record(k, r), UNCHANGED late, batch # <<>>
  PROVE  Typed'
<1>1. k \in Keys
  BY DEF Keys
<1> DEFINE changes == r = "ok" /\ k \in EditCalls
           done    == IF changes THEN applied \cup {k} ELSE applied
           kept    == IF changes THEN [j \in Keys |-> IF j \in done THEN seen[j] ELSE 0] ELSE seen
<1>2. kept \in [Keys -> Nat] /\ done \subseteq EditCalls /\ seen[k] + 1 \in Nat
  BY <1>1 DEF Typed, TypeOK
<1>3. seen' \in [Keys -> Nat] /\ applied' \subseteq EditCalls /\ hot' \in BOOLEAN
  BY <1>1, <1>2 DEF Record, AfterEdit, Typed, TypeOK, detector
<1>4. made' \in [Keys -> Nat] /\ whole' \in [Keys -> Nat]
  <2>1. made[k] + 1 \in Nat /\ whole[k] + 1 \in Nat
    BY <1>1 DEF Typed, TypeOK
  <2>2. made' \in {made, [Zero EXCEPT ![k] = 1], [made EXCEPT ![k] = made[k] + 1]}
    BY DEF Record, detector
  <2>3. whole' \in {whole, [whole EXCEPT ![k] = whole[k] + 1]}
    BY DEF Record, detector
  <2>4. made' \in [Keys -> Nat]
    <3>1. made \in [Keys -> Nat] /\ [made EXCEPT ![k] = made[k] + 1] \in [Keys -> Nat]
      BY <1>1, <2>1 DEF Typed, TypeOK
    <3>2. [Zero EXCEPT ![k] = 1] \in [Keys -> Nat]
      BY <1>1, ZeroType
    <3> QED
      BY <2>2, <3>1, <3>2
  <2>5. whole' \in [Keys -> Nat]
    BY <1>1, <2>1, <2>3 DEF Typed, TypeOK
  <2> QED
    BY <2>4, <2>5
<1>5. repeats' \in Nat
  BY <1>1, <1>2 DEF Record, Typed, TypeOK
<1> QED
  BY <1>3, <1>4, <1>5 DEF Record, Typed, TypeOK, Placed, Yield, unchangedCall, Points, AtYield

LEMMA ToolsType == Typed /\ Tools => Typed'
<1> SUFFICES ASSUME Typed, Tools PROVE Typed'
  OBVIOUS
<1>0. batch # <<>> => Head(batch) \in Calls /\ Tail(batch) \in Seq(Calls)
  BY DEF Typed, TypeOK
<1> USE DEF Typed, TypeOK, Placed, unchangedCall, detector, asking, Goto, Yield, Done,
            Begin, Points, Running, AtYield, AtAwait
<1>1. CASE NextCall
  BY <1>1 DEF NextCall
<1>2. CASE LastCall
  <2>1. messages' \in Histories
    BY <1>2, HistoryType DEF LastCall, User
  <2> QED
    BY <1>2, <2>1 DEF LastCall
<1>3. CASE BadArguments
  BY <1>0, <1>3, RecordType DEF BadArguments
<1>4. CASE AskTool
  BY <1>4 DEF AskTool
<1>5. CASE RunTool
  BY <1>5 DEF RunTool
<1>6. CASE ApproveTool
  BY <1>0, <1>6 DEF ApproveTool, Keys
<1>7. CASE DenyTool
  BY <1>0, <1>7, RecordType DEF DenyTool
<1>8. ASSUME NEW r \in {"ok", "error", "blocked"}, ToolReturns(r) PROVE Typed'
  BY <1>0, <1>8, RecordType DEF ToolReturns
<1>9. CASE EndLoop
  BY <1>9 DEF EndLoop
<1>10. CASE ContextReset
  <2>1. messages' \in Histories
    BY <1>10 DEF ContextReset, Histories, Opening, System, User, Msg
  <2>2. Zero \in [Keys -> Nat] /\ <<>> \in Seq(Calls)
    BY ZeroType
  <2> QED
    BY <1>10, <2>1, <2>2 DEF ContextReset
<1>11. CASE KeepResult
  <2>1. messages' \in Histories
    BY <1>11, HistoryType DEF KeepResult, Tool
  <2> QED
    BY <1>0, <1>11, <2>1 DEF KeepResult
<1> QED
  BY <1>1, <1>2, <1>3, <1>4, <1>5, <1>6, <1>7, <1>8, <1>9, <1>10, <1>11 DEF Tools

LEMMA StepType == Typed /\ [Next]_vars => Typed'
<1> SUFFICES ASSUME Typed, [Next]_vars PROVE Typed'
  OBVIOUS
<1> USE DEF Typed, TypeOK, Placed, unchangedEnd, detector, asking, control, Goto, Done,
            Points, Running, AtYield, AtAwait
<1>1. CASE Step
  <2>1. CASE ReportDone
    BY <2>1 DEF ReportDone
  <2> QED
    BY <1>1, <2>1, BeforeLoopType, TurnType, CheckingType, ToolsType DEF Step
<1>2. CASE Close
  BY <1>2 DEF Close
<1>3. CASE Abort
  BY <1>3 DEF Abort
<1>4. CASE UNCHANGED vars
  BY <1>4 DEF vars
<1> QED
  BY <1>1, <1>2, <1>3, <1>4 DEF Next

\* Every variable keeps its type in every run of every harness.
THEOREM TypeCorrect == Spec => []TypeOK
<1>1. Spec => []Typed
  BY InitType, StepType, PTL DEF Spec
<1> QED
  BY <1>1, PTL DEF Typed

------------------------------------------------------------------------------
\* The repeat detector.

Verdict(k) ==
  (IF k \in applied THEN whole[k] ELSE made[k])
    + (IF result = "blocked" THEN 1 ELSE 0) >= config.maxRepeats + 2

\* Inductive: how repeats follows from the counts while the newest result is
\* looked at, the bound every other key keeps, and that a verdict is final.
DetectorInv ==
  /\ RepeatsCounted
  /\ config.counting /\ pc = "resulted" =>
       repeats + 1 = seen[Head(batch)] + (IF result = "blocked" THEN 1 ELSE 0)
  /\ config.counting /\ pc \notin {"ended", "closed"} =>
       \A k \in Keys : seen[k] <= config.maxRepeats + 1 \/ (pc = "resulted" /\ k = Head(batch))
  /\ reason = "repeat_loop" => /\ pc \in {"ended", "closed"} /\ config.counting
                               /\ \E k \in Keys : Verdict(k)

LEMMA ConfigNumbers ==
  ASSUME TypeOK
  PROVE  /\ config.maxRepeats \in Nat /\ config.counting \in BOOLEAN /\ config.refreshing \in BOOLEAN
         /\ config.maxTurns \in Nat /\ config.servers \in Nat
BY ConfigsAssumption DEF TypeOK, ConfigType

LEMMA InitDetector == Init => DetectorInv
<1> SUFFICES ASSUME Init PROVE DetectorInv
  OBVIOUS
<1>1. config.maxRepeats \in Nat
  BY InitType, ConfigNumbers DEF Typed
<1> QED
  BY <1>1 DEF Init, DetectorInv, RepeatsCounted, Zero

\* A step that leaves the detector alone and does not land on a new result.
LEMMA QuietStep ==
  ASSUME DetectorInv, UNCHANGED <<config, detector>>, pc' # "resulted",
         pc \in {"resulted", "ended", "closed"} => pc' \in {"ended", "closed"},
         reason' = "repeat_loop" => reason = "repeat_loop" /\ result' = result
  PROVE  DetectorInv'
<1>1. RepeatsCounted'
  BY DEF DetectorInv, RepeatsCounted, detector
<1>2. config.counting /\ pc' \notin {"ended", "closed"} => \A k \in Keys : seen'[k] <= config.maxRepeats + 1
  BY DEF DetectorInv, detector
<1>3. reason' = "repeat_loop" =>
        /\ pc' \in {"ended", "closed"} /\ config'.counting
        /\ \E k \in Keys : Verdict(k)'
  BY DEF DetectorInv, detector, Verdict
<1> QED
  BY <1>1, <1>2, <1>3 DEF DetectorInv

LEMMA StillStep ==
  ASSUME DetectorInv, UNCHANGED <<config, detector, pc, reason, batch, repeats, result>>
  PROVE  DetectorInv'
BY DEF DetectorInv, RepeatsCounted, Verdict, detector

LEMMA RecordDetector ==
  ASSUME Typed, DetectorInv, pc \notin {"resulted", "ended", "closed"}, NEW r \in {"ok", "error", "blocked"},
         batch # <<>>, Record(Head(batch), r)
  PROVE  DetectorInv'
<1> DEFINE k == Head(batch)
<1>1. k \in Keys /\ batch' = batch /\ config' = config /\ reason' = reason /\ pc' = "resulted" /\ result' = r
  BY DEF Typed, TypeOK, Keys, Record, unchangedCall, Yield
<1>2. reason' # "repeat_loop"
  BY <1>1 DEF DetectorInv
<1>3. CASE ~config.counting
  BY <1>1, <1>2, <1>3 DEF DetectorInv, RepeatsCounted
<1>4. CASE config.counting
  <2>1. /\ seen \in [Keys -> Nat] /\ made \in [Keys -> Nat] /\ whole \in [Keys -> Nat]
        /\ config.maxRepeats \in Nat
    BY ConfigNumbers DEF Typed, TypeOK
  <2>2. /\ \A j \in Keys : made[j] <= seen[j] /\ seen[j] <= whole[j] /\ (j \notin applied => seen[j] = made[j])
        /\ \A j \in Keys : seen[j] <= config.maxRepeats + 1
    BY <1>4 DEF DetectorInv, RepeatsCounted
  <2>3. repeats' = seen[k] /\ (r # "blocked" => whole' = [whole EXCEPT ![k] = whole[k] + 1])
    <3>1. repeats' = (seen[k] + 1) - 1
      BY <1>1, <1>4, <2>1 DEF Record
    <3>2. r # "blocked" => whole' = [whole EXCEPT ![k] = whole[k] + 1]
      BY <1>4 DEF Record
    <3> QED
      BY <1>1, <2>1, <3>1, <3>2
  <2>7. ASSUME \A j \in Keys : made'[j] <= seen'[j] /\ seen'[j] <= whole'[j] /\ (j \notin applied' => seen'[j] = made'[j]),
               \A j \in Keys : seen'[j] <= config.maxRepeats + 1 \/ j = k,
               repeats' + 1 = seen'[k] + (IF r = "blocked" THEN 1 ELSE 0)
        PROVE  DetectorInv'
    <3>1. RepeatsCounted'
      BY <1>1, <2>7 DEF RepeatsCounted
    <3>2. \A j \in Keys : seen'[j] <= config'.maxRepeats + 1 \/ (pc' = "resulted" /\ j = Head(batch'))
      BY <1>1, <2>7
    <3>3. repeats' + 1 = seen'[Head(batch')] + (IF result' = "blocked" THEN 1 ELSE 0)
      BY <1>1, <2>7
    <3> QED
      BY <1>2, <3>1, <3>2, <3>3 DEF DetectorInv
  <2>4. CASE r = "ok" /\ k \in EditCalls
    <3>1. applied' = applied \cup {k} /\ made' = [Zero EXCEPT ![k] = 1]
      BY <1>4, <2>4 DEF Record
    <3>2. seen' = [[j \in Keys |-> IF j \in applied \cup {k} THEN seen[j] ELSE 0] EXCEPT ![k] = seen[k] + 1]
      BY <1>4, <2>4 DEF Record, AfterEdit
    <3>3. \A j \in Keys : /\ seen'[j] = (IF j = k THEN seen[j] + 1 ELSE IF j \in applied THEN seen[j] ELSE 0)
                          /\ made'[j] = (IF j = k THEN 1 ELSE 0)
                          /\ whole'[j] = (IF j = k THEN whole[j] + 1 ELSE whole[j])
      BY <1>1, <2>1, <2>3, <2>4, <3>1, <3>2 DEF Zero
    <3>4. \A j \in Keys : made'[j] <= seen'[j] /\ seen'[j] <= whole'[j] /\ (j \notin applied' => seen'[j] = made'[j])
      BY <2>1, <2>2, <3>1, <3>3
    <3>5. \A j \in Keys : seen'[j] <= config.maxRepeats + 1 \/ j = k
      <4> TAKE j \in Keys
      <4>1. seen[j] \in Nat /\ seen[j] <= config.maxRepeats + 1 /\ 0 <= config.maxRepeats + 1
        BY <2>1, <2>2
      <4> QED
        BY <3>3, <4>1
    <3>6. repeats' + 1 = seen'[k] + 0
      BY <1>1, <2>1, <2>3, <3>3
    <3> QED
      BY <1>1, <1>2, <2>7, <3>4, <3>5, <3>6, <2>4
  <2>5. CASE r = "blocked"
    <3>1. seen' = seen /\ made' = made /\ whole' = whole /\ applied' = applied
      BY <1>4, <2>5 DEF Record
    <3> QED
      BY <1>1, <1>2, <2>1, <2>2, <2>3, <2>5, <2>7, <3>1
  <2>6. CASE r # "blocked" /\ ~(r = "ok" /\ k \in EditCalls)
    <3>1. /\ seen' = [seen EXCEPT ![k] = seen[k] + 1] /\ made' = [made EXCEPT ![k] = made[k] + 1]
          /\ applied' = applied
      BY <1>4, <2>6 DEF Record
    <3>2. \A j \in Keys : /\ seen'[j] = (IF j = k THEN seen[j] + 1 ELSE seen[j])
                          /\ made'[j] = (IF j = k THEN made[j] + 1 ELSE made[j])
                          /\ whole'[j] = (IF j = k THEN whole[j] + 1 ELSE whole[j])
      BY <1>1, <2>1, <2>3, <2>6, <3>1
    <3>3. \A j \in Keys : made'[j] <= seen'[j] /\ seen'[j] <= whole'[j] /\ (j \notin applied' => seen'[j] = made'[j])
      BY <2>1, <2>2, <3>1, <3>2
    <3>4. \A j \in Keys : seen'[j] <= config.maxRepeats + 1 \/ j = k
      BY <2>1, <2>2, <3>2
    <3>5. repeats' + 1 = seen'[k] + 0
      BY <1>1, <2>1, <2>3, <3>2
    <3> QED
      BY <1>1, <1>2, <2>7, <3>3, <3>4, <3>5, <2>6
  <2> QED
    BY <2>4, <2>5, <2>6
<1> QED
  BY <1>3, <1>4

LEMMA CheckFailedDetector ==
  ASSUME Typed, DetectorInv, CheckFailed
  PROVE  DetectorInv'
<1>1. /\ seen \in [Keys -> Nat] /\ made \in [Keys -> Nat] /\ whole \in [Keys -> Nat]
      /\ config.maxRepeats \in Nat /\ Check \in Keys /\ config' = config
      /\ pc' \in {"ended", "top"} /\ result' = "none" /\ applied' = applied
  BY ConfigNumbers DEF Typed, TypeOK, Keys, CheckFailed, Done, Goto
<1>2. Check \notin applied
  BY CallsAssumption DEF Typed, TypeOK, Calls
<1>3. pc = "checked" /\ reason # "repeat_loop"
  BY DEF CheckFailed, DetectorInv
<1>4. CASE ~config.counting
  <2>1. reason' = reason
    BY <1>4 DEF CheckFailed, Goto
  <2> QED
    BY <1>1, <1>3, <1>4, <2>1 DEF DetectorInv, RepeatsCounted
<1>5. CASE config.counting
  <2>1. /\ \A j \in Keys : made[j] <= seen[j] /\ seen[j] <= whole[j] /\ (j \notin applied => seen[j] = made[j])
        /\ \A j \in Keys : seen[j] <= config.maxRepeats + 1
    BY <1>3, <1>5 DEF DetectorInv, RepeatsCounted
  <2>2. /\ seen' = [seen EXCEPT ![Check] = seen[Check] + 1]
        /\ made' = [made EXCEPT ![Check] = made[Check] + 1]
        /\ whole' = [whole EXCEPT ![Check] = whole[Check] + 1]
    BY <1>5 DEF CheckFailed
  <2>3. \A j \in Keys : /\ seen'[j] = (IF j = Check THEN seen[j] + 1 ELSE seen[j])
                        /\ made'[j] = (IF j = Check THEN made[j] + 1 ELSE made[j])
                        /\ whole'[j] = (IF j = Check THEN whole[j] + 1 ELSE whole[j])
    BY <1>1, <2>2
  <2>4. RepeatsCounted'
    BY <1>1, <2>1, <2>3 DEF RepeatsCounted
  <2>0. IF seen[Check] > config.maxRepeats THEN Done("repeat_loop") ELSE Goto("top")
    <3>1. (seen[Check] + 1) - 1 > config.maxRepeats <=> seen[Check] > config.maxRepeats
      BY <1>1
    <3> QED
      BY <1>1, <1>5, <3>1 DEF CheckFailed
  <2>5. CASE seen[Check] > config.maxRepeats
    <3>1. pc' = "ended"
      BY <2>0, <2>5 DEF Done
    <3>2. made'[Check] >= config.maxRepeats + 2
      <4>1. made'[Check] = made[Check] + 1 /\ made[Check] = seen[Check]
        BY <1>1, <1>2, <2>1, <2>3
      <4> QED
        BY <1>1, <2>5, <4>1
    <3>3. Verdict(Check)'
      <4>1. made'[Check] \in Nat /\ Check \notin applied' /\ result' # "blocked" /\ config'.maxRepeats = config.maxRepeats
        BY <1>1, <1>2, <2>3
      <4> QED
        BY <1>1, <3>2, <4>1 DEF Verdict
    <3> QED
      BY <1>1, <1>5, <2>4, <3>1, <3>3 DEF DetectorInv
  <2>6. CASE ~(seen[Check] > config.maxRepeats)
    <3>1. pc' = "top" /\ reason' = reason
      BY <2>0, <2>6 DEF Goto
    <3>2. \A j \in Keys : seen'[j] <= config.maxRepeats + 1
      <4> TAKE j \in Keys
      <4>1. seen[j] \in Nat /\ seen[j] <= config.maxRepeats + 1 /\ seen[Check] <= config.maxRepeats
        BY <1>1, <2>1, <2>6
      <4> QED
        BY <1>1, <2>3, <4>1
    <3> QED
      BY <1>1, <1>3, <2>4, <3>1, <3>2 DEF DetectorInv
  <2> QED
    BY <2>5, <2>6
<1> QED
  BY <1>4, <1>5

LEMMA EndLoopDetector ==
  ASSUME Typed, DetectorInv, EndLoop
  PROVE  DetectorInv'
<1>1. /\ seen \in [Keys -> Nat] /\ made \in [Keys -> Nat] /\ whole \in [Keys -> Nat]
      /\ config.maxRepeats \in Nat /\ Head(batch) \in Keys /\ repeats \in Nat
  BY ConfigNumbers DEF Typed, TypeOK, Placed, EndLoop, Keys
<1>2. /\ config.counting /\ repeats > config.maxRepeats /\ pc = "resulted" /\ pc' = "ended"
      /\ UNCHANGED <<config, seen, made, whole, applied, result>>
  BY DEF EndLoop, TooManyRepeats, Done, detector, unchangedCall
<1>3. repeats + 1 = seen[Head(batch)] + (IF result = "blocked" THEN 1 ELSE 0)
  BY <1>2 DEF DetectorInv
<1>4. seen[Head(batch)] + (IF result = "blocked" THEN 1 ELSE 0) >= config.maxRepeats + 2
  BY <1>1, <1>2, <1>3
<1>5. seen[Head(batch)] <= (IF Head(batch) \in applied THEN whole[Head(batch)] ELSE made[Head(batch)])
  BY <1>1, <1>2 DEF DetectorInv, RepeatsCounted
<1>6. Verdict(Head(batch))
  BY <1>1, <1>4, <1>5 DEF Verdict
<1>7. Verdict(Head(batch))'
  <2> DEFINE k == Head(batch)
  <2>1. (IF k \in applied' THEN whole'[k] ELSE made'[k])
          + (IF result' = "blocked" THEN 1 ELSE 0) >= config'.maxRepeats + 2
    BY <1>2, <1>6 DEF Verdict
  <2>2. batch' = batch
    BY DEF EndLoop
  <2> QED
    BY <2>1, <2>2 DEF Verdict
<1>8. RepeatsCounted'
  BY <1>2 DEF DetectorInv, RepeatsCounted
<1>9. \E k \in Keys : Verdict(k)'
  <2>1. Head(batch)' \in Keys
    BY <1>1 DEF EndLoop
  <2> QED
    BY <1>1, <1>2, <1>6 DEF Verdict
<1> QED
  BY <1>2, <1>8, <1>9 DEF DetectorInv

LEMMA StepDetector == Typed /\ DetectorInv /\ [Next]_vars => DetectorInv'
<1> SUFFICES ASSUME Typed, DetectorInv, [Next]_vars PROVE DetectorInv'
  OBVIOUS
<1> USE DEF Goto, Yield, Done, Fail
<1>1. CASE BeforeLoop
  <2> USE DEF unchangedLoop
  <2>1. ASSUME NEW ok \in BOOLEAN, AnswerServer(ok) \/ AnswerUntil(ok) \/ ServersStarted(ok)
        PROVE  DetectorInv'
    BY <2>1, QuietStep DEF AnswerServer, AnswerUntil, ServersStarted
  <2>2. CASE AskServer \/ ServersAsked \/ AskUntil \/ StartServers
    BY <2>2, QuietStep DEF AskServer, ServersAsked, AskUntil, StartServers
  <2>3. CASE Announce \/ KnobsKnown \/ LoadNotes
    BY <2>3, QuietStep DEF Announce, KnobsKnown, LoadNotes
  <2> QED
    BY <1>1, <2>1, <2>2, <2>3 DEF BeforeLoop
<1>2. CASE Turn
  <2> USE DEF unchangedTurn
  <2>1. CASE TopOfLoop
    BY <2>1, QuietStep DEF TopOfLoop
  <2>2. CASE ContextStats \/ LlmRequest \/ Send \/ LlmResponse
    BY <2>2, QuietStep DEF ContextStats, LlmRequest, Send, LlmResponse
  <2>3. CASE ParseError \/ \E calls \in Batches : ToolCalls(calls)
    <3>1. /\ UNCHANGED <<config, seen, applied, made, whole>> /\ pc = "parse"
          /\ pc' \in {"failing", "top", "call"} /\ (reason' = "repeat_loop" => reason = "repeat_loop")
      BY <2>3 DEF ParseError, ToolCalls
    <3> QED
      BY <3>1 DEF DetectorInv, RepeatsCounted, Verdict
  <2>4. CASE FinalAnswer
    BY <2>4, QuietStep DEF FinalAnswer
  <2>5. ASSUME NEW stop \in BOOLEAN, SendFails(stop) PROVE DetectorInv'
    BY <2>5, QuietStep DEF SendFails
  <2> QED
    BY <1>2, <2>1, <2>2, <2>3, <2>4, <2>5 DEF Turn
<1>3. CASE Checking
  <2>1. ASSUME NEW passed \in BOOLEAN, CheckReturns(passed) PROVE DetectorInv'
    <3>1. UNCHANGED <<config, detector>> /\ pc = "check" /\ pc' \in {"ended", "checked"}
          /\ (reason' = "repeat_loop" => reason = "repeat_loop")
      BY <2>1 DEF CheckReturns
    <3>2. reason # "repeat_loop"
      BY <3>1 DEF DetectorInv
    <3> QED
      BY <3>1, <3>2, QuietStep
  <2>2. CASE CheckPassed
    BY <2>2, QuietStep DEF CheckPassed
  <2> QED
    BY <1>3, <2>1, <2>2, CheckFailedDetector DEF Checking
<1>4. CASE Tools
  <2> USE DEF unchangedCall
  <2>1. CASE NextCall \/ LastCall \/ AskTool \/ RunTool \/ ApproveTool
    BY <2>1, QuietStep DEF NextCall, LastCall, AskTool, RunTool, ApproveTool
  <2>2. CASE BadArguments \/ DenyTool
    BY <2>2, RecordDetector DEF BadArguments, DenyTool, Typed, Placed
  <2>3. ASSUME NEW r \in {"ok", "error", "blocked"}, ToolReturns(r) PROVE DetectorInv'
    BY <2>3, RecordDetector DEF ToolReturns, Typed, Placed
  <2>4. CASE ContextReset
    <3>1. /\ seen' = Zero /\ made' = Zero /\ whole' = Zero /\ config' = config
          /\ pc' = "top" /\ reason' = reason /\ pc = "resulted"
      BY <2>4 DEF ContextReset
    <3>2. \A k \in Keys : seen'[k] = 0 /\ made'[k] = 0 /\ whole'[k] = 0
      BY <3>1 DEF Zero
    <3>3. config.maxRepeats \in Nat
      BY ConfigNumbers DEF Typed
    <3> QED
      BY <3>1, <3>2, <3>3 DEF DetectorInv, RepeatsCounted
  <2>5. CASE KeepResult
    <3>1. /\ UNCHANGED <<config, seen, applied, made, whole, reason>> /\ pc = "resulted" /\ pc' = "call"
          /\ ~(config.counting /\ repeats > config.maxRepeats)
      BY <2>5 DEF KeepResult, TooManyRepeats, detector
    <3>2. /\ seen \in [Keys -> Nat] /\ config.maxRepeats \in Nat /\ repeats \in Nat /\ Head(batch) \in Keys
      BY SMTT(20), <3>1, ConfigNumbers DEF Typed, TypeOK, Placed, Keys
    <3>3. config.counting => seen[Head(batch)] <= config.maxRepeats + 1
      BY <3>1, <3>2 DEF DetectorInv
    <3>4. config.counting => \A k \in Keys : seen[k] <= config.maxRepeats + 1
      BY <3>1, <3>3 DEF DetectorInv
    <3> QED
      BY <3>1, <3>4 DEF DetectorInv, RepeatsCounted
  <2> QED
    BY <1>4, <2>1, <2>2, <2>3, <2>4, <2>5, EndLoopDetector DEF Tools
<1>5. CASE ReportDone \/ Close
  BY <1>5, QuietStep DEF ReportDone, Close, unchangedEnd, AtYield, DetectorInv
<1>6. CASE Abort \/ UNCHANGED vars
  BY <1>6, StillStep DEF Abort, vars, unchangedEnd, control
<1> QED
  BY <1>1, <1>2, <1>3, <1>4, <1>5, <1>6 DEF Next, Step

\* The detector's counts are the plain counts of the calls.
THEOREM DetectorCounts == Spec => []RepeatsCounted
<1>1. Spec => []Typed
  BY InitType, StepType, PTL DEF Spec
<1>2. Spec => []DetectorInv
  BY <1>1, InitDetector, StepDetector, PTL DEF Spec
<1>3. DetectorInv => RepeatsCounted
  BY DEF DetectorInv
<1> QED
  BY <1>2, <1>3, PTL

\* No run is ended as a loop that is none, and no loop is let through.
THEOREM DetectorDecides == Spec => [](LoopVerdictReal /\ LoopCaught)
<1>1. Spec => []Typed
  BY InitType, StepType, PTL DEF Spec
<1>2. Spec => []DetectorInv
  BY <1>1, InitDetector, StepDetector, PTL DEF Spec
<1>3. Typed /\ DetectorInv => LoopVerdictReal
  BY DEF DetectorInv, LoopVerdictReal, Verdict
<1>4. Typed /\ DetectorInv => LoopCaught
  <2> SUFFICES ASSUME Typed, DetectorInv, config.counting, pc \in {"top", "call"}, NEW k \in Keys
               PROVE  made[k] <= config.maxRepeats + 1
    BY DEF LoopCaught
  <2>1. made[k] <= seen[k] /\ seen[k] <= config.maxRepeats + 1
    BY DEF DetectorInv, RepeatsCounted
  <2> QED
    BY <2>1, ConfigNumbers DEF Typed, TypeOK
<1> QED
  BY <1>1, <1>2, <1>3, <1>4, PTL

------------------------------------------------------------------------------
\* The stream of events.

\* Inductive: which event is the newest at each point of the generator.
FirstEvents == {"none", "ask_server", "ask_check"}
TurnEvents  == FirstEvents \cup {"mcp_server_start", "knobs_off", "notes_loaded",
                 "parse_error", "final_check", "tool_result", "context_reset"}

StreamInv ==
  /\ turn <= config.maxTurns
  /\ pc = "mcp" => event \in {"none", "ask_server"}
  /\ pc = "mcpAsk" => event = "ask_server"
  /\ pc = "until" => event \in {"none", "ask_server", "llm_response"}
  /\ pc = "untilAsk" => event = "ask_check"
  /\ pc = "servers" => event \in FirstEvents
  /\ pc = "mcp" /\ event = "none" => left = config.servers
  /\ pc \in {"until", "servers"} /\ event = "none" => config.servers = 0
  /\ pc = "starting" => event \in {"ask_server", "ask_check"}
  /\ pc = "announce" => event \in {"ask_server", "ask_check", "mcp_server_start"}
  /\ pc = "info" => event \in FirstEvents \cup {"mcp_server_start"}
  /\ pc = "notes" => event \in FirstEvents \cup {"mcp_server_start", "knobs_off"}
  /\ pc \in {"top", "count"} => event \in TurnEvents
  /\ pc = "request" => event = "context_stats"
  /\ pc \in {"send", "waiting", "doomed"} => event = "llm_request"
  /\ pc = "parse" => event = "llm_response"
  /\ pc = "check" => event \in {"llm_response", "ask_check"}
  /\ pc = "checked" => event = "final_check"
  /\ pc = "call" => event = "tool_result" \/ (event = "llm_response" /\ batch # <<>>)
  /\ pc = "called" => event = "tool_call"
  /\ pc = "callAsk" => event = "ask_tool"
  /\ pc = "running" => event \in {"tool_call", "ask_tool"}
  /\ pc = "resulted" => event = "tool_result"
  /\ pc = "failing" => event \in {"error", "parse_error"}
  /\ pc = "ended" => event = "done"

\* An ordinary event, one that is neither a request nor a reset.
LEMMA PlainEvent ==
  ASSUME event' \in Events!Follows(event), event' \in Events!EventTypes,
         event' \notin {"llm_request", "context_reset"},
         Requests' = Requests, UNCHANGED <<config, wasReset>>, wasReset \in BOOLEAN
  PROVE  Events!Next
<1>1. config'.maxTurns = config.maxTurns
  OBVIOUS
<1>2. wasReset' = (wasReset \/ event' = "context_reset")
  OBVIOUS
<1>3. Events!Emit(event')
  BY <1>1, <1>2 DEF Events!Emit
<1> QED
  BY <1>3 DEF Events!Next

\* A step that emits nothing.
LEMMA NoEvent ==
  ASSUME event' = event, Requests' = Requests, UNCHANGED <<config, wasReset>>
  PROVE  UNCHANGED Events!vars
BY DEF Events!vars

LEMMA StreamInit == Init => StreamInv /\ Events!Init
<1> SUFFICES ASSUME Init PROVE StreamInv /\ Events!Init
  OBVIOUS
<1>1. config.maxTurns \in Nat /\ config.maxTurns \in {c.maxTurns : c \in Configs}
  BY InitType, ConfigNumbers DEF Typed, Init
<1> QED
  BY <1>1 DEF Init, StreamInv, FirstEvents, Events!Init, Requests

Follow == StreamInv' /\ [Events!Next]_(Events!vars)

LEMMA BeforeLoopStream == Typed /\ StreamInv /\ BeforeLoop => Follow
<1> SUFFICES ASSUME Typed, StreamInv, BeforeLoop PROVE Follow
  OBVIOUS
<1>0. wasReset \in BOOLEAN /\ left \in Nat /\ config.servers \in Nat
  BY ConfigNumbers DEF Typed, TypeOK
<1> USE DEF unchangedLoop, Goto, Yield, Done, Fail
<1>1. StreamInv' /\ UNCHANGED <<config, wasReset, turn>> /\ pc # "count" /\ pc' # "count"
      /\ event # "context_stats" /\ event' # "context_stats"
  <2> USE DEF StreamInv, FirstEvents, TurnEvents
  <2>1. CASE AskServer \/ ServersAsked
    BY <1>0, <2>1 DEF AskServer, ServersAsked
  <2>2. CASE AskUntil \/ StartServers
    BY <1>0, <2>2 DEF AskUntil, StartServers
  <2>3. CASE Announce
    BY <1>0, <2>3 DEF Announce
  <2>4. CASE KnobsKnown \/ LoadNotes
    BY <1>0, <2>4 DEF KnobsKnown, LoadNotes
  <2>5. ASSUME NEW ok \in BOOLEAN, AnswerServer(ok) \/ AnswerUntil(ok) \/ ServersStarted(ok)
        PROVE  StreamInv' /\ UNCHANGED <<config, wasReset, turn>> /\ pc # "count" /\ pc' # "count"
               /\ event # "context_stats" /\ event' # "context_stats"
    <3>1. CASE AnswerServer(ok)
      BY <1>0, <3>1 DEF AnswerServer
    <3>2. CASE AnswerUntil(ok)
      BY <1>0, <3>2 DEF AnswerUntil
    <3>3. CASE ServersStarted(ok)
      BY <1>0, <3>3 DEF ServersStarted
    <3> QED
      BY <2>5, <3>1, <3>2, <3>3
  <2> QED
    BY <2>1, <2>2, <2>3, <2>4, <2>5 DEF BeforeLoop
<1>2. Requests' = Requests
  BY <1>1 DEF Requests
<1>3. \/ event' = event
      \/ /\ event' \in Events!Follows(event) /\ event' \in Events!EventTypes
         /\ event' \notin {"llm_request", "context_reset"}
  <2> USE DEF StreamInv, FirstEvents, TurnEvents, Events!Follows, Events!Opening, Events!EventTypes
  <2>1. CASE AskServer \/ ServersAsked \/ AskUntil \/ StartServers
    BY <1>0, <2>1 DEF AskServer, ServersAsked, AskUntil, StartServers
  <2>2. CASE Announce
    BY <1>0, <2>2 DEF Announce
  <2>4. CASE KnobsKnown
    BY <1>0, <2>4 DEF KnobsKnown
  <2>5. CASE LoadNotes
    BY <1>0, <2>5 DEF LoadNotes
  <2>3. ASSUME NEW ok \in BOOLEAN, AnswerServer(ok) \/ AnswerUntil(ok) \/ ServersStarted(ok)
        PROVE  \/ event' = event
               \/ /\ event' \in Events!Follows(event) /\ event' \in Events!EventTypes
                  /\ event' \notin {"llm_request", "context_reset"}
    <3>1. CASE AnswerServer(ok)
      BY <1>0, <3>1 DEF AnswerServer
    <3>2. CASE AnswerUntil(ok)
      BY <1>0, <3>2 DEF AnswerUntil
    <3>3. CASE ServersStarted(ok)
      BY <1>0, <3>3 DEF ServersStarted
    <3> QED
      BY <2>3, <3>1, <3>2, <3>3
  <2> QED
    BY <2>1, <2>2, <2>3, <2>4, <2>5 DEF BeforeLoop
<1> QED
  BY <1>0, <1>1, <1>2, <1>3, PlainEvent, NoEvent DEF Follow

\* The conclusion of PlainEvent and NoEvent, as one goal for an action.
Plain ==
  \/ event' = event
  \/ /\ event' \in Events!Follows(event) /\ event' \in Events!EventTypes
     /\ event' \notin {"llm_request", "context_reset"}

LEMMA PlainStep ==
  ASSUME Typed, StreamInv', Plain, Requests' = Requests, UNCHANGED <<config, wasReset>>
  PROVE  Follow
BY PlainEvent, NoEvent DEF Typed, TypeOK, Plain, Follow

LEMMA TurnStream == Typed /\ StreamInv /\ Turn => Follow
<1> SUFFICES ASSUME Typed, StreamInv, Turn PROVE Follow
  OBVIOUS
<1>0. turn \in Nat /\ config.maxTurns \in Nat /\ wasReset \in BOOLEAN
  BY ConfigNumbers DEF Typed, TypeOK
<1> USE DEF unchangedTurn, Goto, Yield, Done, Fail, StreamInv, FirstEvents, TurnEvents, Plain,
            Requests, Events!Follows, Events!Opening, Events!EventTypes
<1>1. CASE TopOfLoop
  <2>1. StreamInv'
    BY <1>0, <1>1 DEF TopOfLoop
  <2>2. Plain /\ Requests' = Requests /\ UNCHANGED <<config, wasReset>>
    BY <1>0, <1>1 DEF TopOfLoop
  <2> QED
    BY <2>1, <2>2, PlainStep
<1>2. CASE ContextStats
  <2>1. StreamInv' /\ Plain /\ Requests' = Requests /\ UNCHANGED <<config, wasReset>>
    BY <1>0, <1>2 DEF ContextStats
  <2> QED
    BY <2>1, PlainStep
<1>3. CASE LlmRequest
  <2>1. StreamInv' /\ Requests = turn - 1 /\ Requests' = turn /\ UNCHANGED <<config, wasReset>>
        /\ event' = "llm_request" /\ event = "context_stats"
    BY <1>0, <1>3 DEF LlmRequest
  <2>2. Requests < config.maxTurns /\ Requests' = Requests + 1
    BY <1>0, <2>1
  <2>3. Events!Emit("llm_request")
    BY <1>0, <2>1, <2>2 DEF Events!Emit
  <2> QED
    BY <2>1, <2>3 DEF Events!Next, Follow
<1>4. CASE Send
  <2>1. StreamInv' /\ Plain /\ Requests' = Requests /\ UNCHANGED <<config, wasReset>>
    BY <1>0, <1>4 DEF Send
  <2> QED
    BY <2>1, PlainStep
<1>5. CASE LlmResponse
  <2>1. StreamInv' /\ Plain /\ Requests' = Requests /\ UNCHANGED <<config, wasReset>>
    BY <1>0, <1>5 DEF LlmResponse
  <2> QED
    BY <2>1, PlainStep
<1>6. CASE ParseError
  <2>1. StreamInv' /\ Plain /\ Requests' = Requests /\ UNCHANGED <<config, wasReset>>
    BY <1>0, <1>6 DEF ParseError
  <2> QED
    BY <2>1, PlainStep
<1>7. CASE FinalAnswer
  <2>1. StreamInv' /\ Plain /\ Requests' = Requests /\ UNCHANGED <<config, wasReset>>
    BY <1>0, <1>7 DEF FinalAnswer
  <2> QED
    BY <2>1, PlainStep
<1>8. ASSUME NEW stop \in BOOLEAN, SendFails(stop) PROVE Follow
  <2>1. StreamInv' /\ Plain /\ Requests' = Requests /\ UNCHANGED <<config, wasReset>>
    BY <1>0, <1>8 DEF SendFails
  <2> QED
    BY <2>1, PlainStep
<1>9. ASSUME NEW calls \in Batches, ToolCalls(calls) PROVE Follow
  <2>1. calls # <<>>
    BY ConfigsAssumption DEF Batches
  <2>2. StreamInv' /\ Plain /\ Requests' = Requests /\ UNCHANGED <<config, wasReset>>
    BY <1>0, <1>9, <2>1 DEF ToolCalls
  <2> QED
    BY <2>2, PlainStep
<1> QED
  BY <1>1, <1>2, <1>3, <1>4, <1>5, <1>6, <1>7, <1>8, <1>9 DEF Turn

LEMMA CheckFailedGoes ==
  CheckFailed => /\ pc = "checked" /\ UNCHANGED <<config, wasReset, turn>>
                 /\ (Done("repeat_loop") \/ Goto("top"))
<1> SUFFICES ASSUME CheckFailed PROVE UNCHANGED <<config, wasReset, turn>> /\ pc = "checked"
                                      /\ (Done("repeat_loop") \/ Goto("top"))
  OBVIOUS
<1> DEFINE n == IF config.counting THEN seen[Check] + 1 ELSE 1
<1>1. IF config.counting /\ n - 1 > config.maxRepeats THEN Done("repeat_loop") ELSE Goto("top")
  BY DEF CheckFailed
<1> HIDE DEF n
<1>2. Done("repeat_loop") \/ Goto("top")
  BY <1>1
<1> QED
  BY <1>2 DEF CheckFailed

LEMMA CheckingStream == Typed /\ StreamInv /\ Checking => Follow
<1> SUFFICES ASSUME Typed, StreamInv, Checking PROVE Follow
  OBVIOUS
<1>0. CheckFailed => /\ pc = "checked" /\ UNCHANGED <<config, wasReset, turn>>
                     /\ \/ pc' = "ended" /\ event' = "done"
                        \/ pc' = "top" /\ event' = event
  BY CheckFailedGoes DEF Done, Goto
<1> USE DEF Goto, Yield, Done, StreamInv, TurnEvents, Plain,
            Requests, Events!Follows, Events!Opening, Events!EventTypes
<1>1. ASSUME NEW passed \in BOOLEAN, CheckReturns(passed) PROVE Follow
  <2>1. StreamInv' /\ Plain /\ Requests' = Requests /\ UNCHANGED <<config, wasReset>>
    BY <1>1 DEF CheckReturns
  <2> QED
    BY <2>1, PlainStep
<1>2. CASE CheckPassed
  <2>1. StreamInv' /\ Plain /\ Requests' = Requests /\ UNCHANGED <<config, wasReset>>
    BY <1>2 DEF CheckPassed
  <2> QED
    BY <2>1, PlainStep
<1>3. CASE CheckFailed
  <2>2. StreamInv' /\ Plain /\ Requests' = Requests /\ UNCHANGED <<config, wasReset>>
    BY <1>0, <1>3
  <2> QED
    BY <2>2, PlainStep
<1> QED
  BY <1>1, <1>2, <1>3 DEF Checking

LEMMA ToolsStream == Typed /\ StreamInv /\ Tools => Follow
<1> SUFFICES ASSUME Typed, StreamInv, Tools PROVE Follow
  OBVIOUS
<1> USE DEF unchangedCall, Goto, Yield, Done, StreamInv, TurnEvents, Plain,
            Requests, Events!Follows, Events!Opening, Events!EventTypes
<1>1. CASE NextCall \/ LastCall \/ AskTool \/ RunTool \/ ApproveTool \/ EndLoop \/ KeepResult
  <2>1. StreamInv'
    <3>1. CASE NextCall \/ AskTool \/ RunTool \/ ApproveTool
      BY <3>1 DEF NextCall, AskTool, RunTool, ApproveTool
    <3>2. CASE LastCall
      BY <3>2 DEF LastCall
    <3>3. CASE EndLoop \/ KeepResult
      BY <3>3 DEF EndLoop, KeepResult
    <3> QED
      BY <1>1, <3>1, <3>2, <3>3
  <2>2. Plain /\ Requests' = Requests /\ UNCHANGED <<config, wasReset>>
    BY <1>1 DEF NextCall, LastCall, AskTool, RunTool, ApproveTool, EndLoop, KeepResult
  <2> QED
    BY <2>1, <2>2, PlainStep
<1>2. ASSUME NEW r \in {"ok", "error", "blocked"}, BadArguments \/ DenyTool \/ ToolReturns(r) PROVE Follow
  <2>1. pc \in {"called", "callAsk", "running"} /\ pc' = "resulted" /\ event' = "tool_result"
        /\ UNCHANGED <<config, wasReset, turn>>
    BY <1>2 DEF BadArguments, DenyTool, ToolReturns, Record
  <2>2. StreamInv' /\ Plain /\ Requests' = Requests /\ UNCHANGED <<config, wasReset>>
    BY <2>1
  <2> QED
    BY <2>2, PlainStep
<1>3. CASE ContextReset
  <2>1. StreamInv' /\ Requests' = Requests /\ UNCHANGED config /\ wasReset' = TRUE /\ ~wasReset
        /\ event' = "context_reset" /\ event = "tool_result"
    BY <1>3 DEF ContextReset, WantsReset
  <2>2. Events!Emit("context_reset")
    BY <2>1 DEF Events!Emit
  <2> QED
    BY <2>1, <2>2 DEF Events!Next, Follow
<1> QED
  BY <1>1, <1>2, <1>3 DEF Tools

LEMMA StepStream == Typed /\ StreamInv /\ [Next]_vars => Follow
<1> SUFFICES ASSUME Typed, StreamInv, [Next]_vars PROVE Follow
  OBVIOUS
<1> USE DEF Goto, Done, StreamInv, Plain, Requests, Events!Follows, Events!EventTypes
<1>1. CASE ReportDone
  <2>1. StreamInv' /\ Plain /\ Requests' = Requests /\ UNCHANGED <<config, wasReset>>
    BY <1>1 DEF ReportDone, unchangedEnd
  <2> QED
    BY <2>1, PlainStep
<1>2. CASE Close
  <2>1. StreamInv' /\ Plain /\ Requests' = Requests /\ UNCHANGED <<config, wasReset>>
    BY <1>2 DEF Close, unchangedEnd, AtYield
  <2> QED
    BY <2>1, PlainStep
<1>3. CASE Abort \/ UNCHANGED vars
  <2>1. StreamInv' /\ Plain /\ Requests' = Requests /\ UNCHANGED <<config, wasReset>>
    BY <1>3 DEF Abort, unchangedEnd, control, vars
  <2> QED
    BY <2>1, PlainStep
<1> QED
  BY <1>1, <1>2, <1>3, BeforeLoopStream, TurnStream, CheckingStream, ToolsStream DEF Next, Step

\* A run implements RunEvents: its stream is one every reader can fold over.
THEOREM StreamImplemented == Spec => EventGrammar
<1>1. Spec => []Typed
  BY InitType, StepType, PTL DEF Spec
<1>2. Typed /\ StreamInv /\ [Next]_vars => StreamInv' /\ [Events!Next]_(Events!vars)
  BY StepStream DEF Follow
<1> QED
  BY <1>1, <1>2, StreamInit, PTL DEF Spec, EventGrammar, Events!Spec

------------------------------------------------------------------------------
\* The decisions of a run beyond its detector: the end of an abort, approvals,
\* the final check, the fresh context, and the history every request carries.

BeforeFirst == {"mcp", "mcpAsk", "until", "untilAsk"}
Ends        == {"failing", "ended", "closed"}
InReply     == {"call", "called", "callAsk", "running", "resulted"}

------------------------------------------------------------------------------
\* The end of an abort.

\* Inductive: nothing is late before the abort, and a run that has begun one
\* thing after it stands where the next look at the signal comes first.
AbortInv ==
  /\ late \in {0, 1}
  /\ ~aborted => late = 0
  /\ late = 1 => pc \in {"send", "doomed", "check", "running", "resulted", "call", "top"} \cup Ends

LEMMA StepAbort == Typed /\ AbortInv /\ [Next]_vars => AbortInv'
<1> SUFFICES ASSUME Typed, AbortInv, [Next]_vars PROVE AbortInv'
  OBVIOUS
<1>0. aborted \in BOOLEAN
  BY DEF Typed, TypeOK
<1> USE DEF AbortInv, Ends, Goto, Yield, Done, Fail, Begin
<1>1. CASE BeforeLoop
  BY <1>1 DEF BeforeLoop, AskServer, AnswerServer, ServersAsked, AskUntil, AnswerUntil,
       StartServers, ServersStarted, Announce, KnobsKnown, LoadNotes, unchangedLoop
<1>2. CASE Turn
  <2> USE DEF unchangedTurn
  <2>1. CASE TopOfLoop \/ ContextStats \/ Send \/ LlmResponse
    BY <1>0, <2>1 DEF TopOfLoop, ContextStats, Send, LlmResponse
  <2>2. CASE LlmRequest
    BY <1>0, <2>2 DEF LlmRequest
  <2>3. CASE ParseError
    BY <1>0, <2>3 DEF ParseError
  <2>4. CASE FinalAnswer
    BY <1>0, <2>4 DEF FinalAnswer
  <2>5. ASSUME NEW stop \in BOOLEAN, SendFails(stop) PROVE AbortInv'
    BY <1>0, <2>5 DEF SendFails
  <2>6. ASSUME NEW calls \in Batches, ToolCalls(calls) PROVE AbortInv'
    BY <1>0, <2>6 DEF ToolCalls
  <2> QED
    BY <1>2, <2>1, <2>2, <2>3, <2>4, <2>5, <2>6 DEF Turn
<1>3. CASE Checking
  <2>1. ASSUME NEW passed \in BOOLEAN, CheckReturns(passed) PROVE AbortInv'
    BY <1>0, <2>1 DEF CheckReturns
  <2>2. CASE CheckPassed
    BY <2>2 DEF CheckPassed
  <2>3. CASE CheckFailed
    BY <2>3, CheckFailedGoes DEF CheckFailed
  <2> QED
    BY <1>3, <2>1, <2>2, <2>3 DEF Checking
<1>4. CASE Tools
  <2> USE DEF unchangedCall
  <2>1. CASE NextCall \/ LastCall \/ AskTool \/ EndLoop \/ ContextReset \/ KeepResult
    BY <1>0, <2>1 DEF NextCall, LastCall, AskTool, EndLoop, ContextReset, KeepResult
  <2>2. CASE RunTool \/ ApproveTool
    BY <1>0, <2>2 DEF RunTool, ApproveTool
  <2>3. ASSUME NEW r \in {"ok", "error", "blocked"}, BadArguments \/ DenyTool \/ ToolReturns(r)
        PROVE  AbortInv'
    BY <2>3 DEF BadArguments, DenyTool, ToolReturns, Record
  <2> QED
    BY <1>4, <2>1, <2>2, <2>3 DEF Tools
<1>5. CASE ReportDone \/ Close \/ Abort \/ UNCHANGED vars
  BY <1>5 DEF ReportDone, Close, Abort, unchangedEnd, control, vars, AtYield, AtAwait
<1> QED
  BY <1>1, <1>2, <1>3, <1>4, <1>5 DEF Next, Step

\* After an abort a run begins at most the one thing that was about to start:
\* no second request, tool or check goes out.
THEOREM AbortsCostOneStep == Spec => []AbortCostsOneStep
<1>1. Spec => []Typed
  BY InitType, StepType, PTL DEF Spec
<1>2. Init => AbortInv
  BY DEF Init, AbortInv
<1>3. AbortInv => AbortCostsOneStep
  BY DEF AbortInv, AbortCostsOneStep
<1> QED
  BY <1>1, <1>2, <1>3, StepAbort, PTL DEF Spec

------------------------------------------------------------------------------
\* Approvals.

\* Inductive: past the questions asked before the run, loop.untilBash has had
\* its yes.
ApprovedInv ==
  /\ config.untilBash /\ pc \notin BeforeFirst \cup Ends => untilOk
  /\ config.untilBash /\ turn > 0 => untilOk
  /\ pc \in {"until", "untilAsk", "check"} => config.untilBash

\* What a step into a check or into a tool call leaves behind, on the new values.
RunsAsked ==
  /\ pc # "check" /\ pc' = "check" => untilOk' /\ (config.approveBash => consent' = Check)
  /\ pc # "running" /\ pc' = "running" /\ config.approveBash /\ Head(batch) \in BashCalls =>
       consent' = Head(batch)

LEMMA StepApproved == Typed /\ ApprovedInv /\ [Next]_vars => ApprovedInv' /\ RunsAsked
<1> SUFFICES ASSUME Typed, ApprovedInv, [Next]_vars PROVE ApprovedInv' /\ RunsAsked
  OBVIOUS
<1>0. turn \in Nat /\ untilOk \in BOOLEAN /\ config.untilBash \in BOOLEAN /\ config.approveBash \in BOOLEAN
  BY ConfigsAssumption DEF Typed, TypeOK, ConfigType
<1> USE DEF ApprovedInv, RunsAsked, BeforeFirst, Ends, Goto, Yield, Done, Fail, asking
<1>1. CASE BeforeLoop
  <2> USE DEF unchangedLoop
  <2>1. CASE AskServer \/ ServersAsked \/ AskUntil \/ StartServers \/ Announce \/ KnobsKnown \/ LoadNotes
    BY <1>0, <2>1 DEF AskServer, ServersAsked, AskUntil, StartServers, Announce, KnobsKnown, LoadNotes
  <2>2. ASSUME NEW ok \in BOOLEAN, AnswerServer(ok) \/ ServersStarted(ok)
        PROVE  ApprovedInv' /\ RunsAsked
    BY <1>0, <2>2 DEF AnswerServer, ServersStarted
  <2>3. ASSUME NEW ok \in BOOLEAN, AnswerUntil(ok) PROVE ApprovedInv' /\ RunsAsked
    BY <1>0, <2>3 DEF AnswerUntil
  <2> QED
    BY <1>1, <2>1, <2>2, <2>3 DEF BeforeLoop
<1>2. CASE Turn
  <2> USE DEF unchangedTurn
  <2>1. CASE TopOfLoop
    BY <1>0, <2>1 DEF TopOfLoop
  <2>2. CASE ContextStats \/ LlmRequest \/ Send \/ LlmResponse
    BY <1>0, <2>2 DEF ContextStats, LlmRequest, Send, LlmResponse
  <2>3. CASE ParseError
    BY <1>0, <2>3 DEF ParseError
  <2>4. CASE FinalAnswer
    BY <1>0, <2>4 DEF FinalAnswer
  <2>5. ASSUME NEW stop \in BOOLEAN, SendFails(stop) PROVE ApprovedInv' /\ RunsAsked
    BY <1>0, <2>5 DEF SendFails
  <2>6. ASSUME NEW calls \in Batches, ToolCalls(calls) PROVE ApprovedInv' /\ RunsAsked
    BY <1>0, <2>6 DEF ToolCalls
  <2> QED
    BY <1>2, <2>1, <2>2, <2>3, <2>4, <2>5, <2>6 DEF Turn
<1>3. CASE Checking
  <2>1. ASSUME NEW passed \in BOOLEAN, CheckReturns(passed) PROVE ApprovedInv' /\ RunsAsked
    BY <1>0, <2>1 DEF CheckReturns
  <2>2. CASE CheckPassed
    BY <1>0, <2>2 DEF CheckPassed
  <2>3. CASE CheckFailed
    BY <1>0, <2>3, CheckFailedGoes DEF CheckFailed
  <2> QED
    BY <1>3, <2>1, <2>2, <2>3 DEF Checking
<1>4. CASE Tools
  <2> USE DEF unchangedCall
  <2>1. CASE NextCall \/ LastCall \/ AskTool \/ EndLoop \/ ContextReset \/ KeepResult
    BY <1>0, <2>1 DEF NextCall, LastCall, AskTool, EndLoop, ContextReset, KeepResult
  <2>2. CASE RunTool
    BY <1>0, <2>2 DEF RunTool, MustAsk
  <2>3. CASE ApproveTool
    BY <1>0, <2>3 DEF ApproveTool
  <2>4. ASSUME NEW r \in {"ok", "error", "blocked"}, BadArguments \/ DenyTool \/ ToolReturns(r)
        PROVE  ApprovedInv' /\ RunsAsked
    BY <1>0, <2>4 DEF BadArguments, DenyTool, ToolReturns, Record
  <2> QED
    BY <1>4, <2>1, <2>2, <2>3, <2>4 DEF Tools
<1>5. CASE ReportDone \/ Close \/ Abort \/ UNCHANGED vars
  BY <1>0, <1>5 DEF ReportDone, Close, Abort, unchangedEnd, control, vars, AtYield, AtAwait
<1> QED
  BY <1>1, <1>2, <1>3, <1>4, <1>5 DEF Next, Step

\* No check and no bash command of the model starts on a yes to something
\* else: every step into one acts on the approval of that very one.
THEOREM NothingRunsWithoutYes == Spec => NothingRunsUnasked
<1>1. Spec => []Typed
  BY InitType, StepType, PTL DEF Spec
<1>2. Init => ApprovedInv
  BY DEF Init, ApprovedInv, BeforeFirst
<1>3. RunsAsked =>
        /\ pc # "check" /\ pc' = "check" => untilOk' /\ (config.approveBash => consent' = Check)
        /\ pc # "running" /\ pc' = "running" /\ config.approveBash /\ Head(batch) \in BashCalls =>
             consent' = Head(batch)
  BY DEF RunsAsked
<1> QED
  BY <1>1, <1>2, <1>3, StepApproved, PTL DEF Spec, NothingRunsUnasked

------------------------------------------------------------------------------
\* The final check.

\* Inductive: "final" is said only where the run ends, and nothing that could
\* change the outcome of the check comes after.
FinalInv ==
  reason = "final" => /\ pc \in {"ended", "closed"}
                      /\ config.untilBash => result = "passed"

LEMMA StepFinal == FinalInv /\ [Next]_vars => FinalInv'
<1> SUFFICES ASSUME FinalInv, [Next]_vars PROVE FinalInv'
  OBVIOUS
<1> USE DEF FinalInv, Goto, Yield, Done, Fail
<1>1. CASE BeforeLoop
  BY <1>1 DEF BeforeLoop, AskServer, AnswerServer, ServersAsked, AskUntil, AnswerUntil,
       StartServers, ServersStarted, Announce, KnobsKnown, LoadNotes, unchangedLoop
<1>2. CASE Turn
  BY <1>2 DEF Turn, TopOfLoop, ContextStats, LlmRequest, Send, LlmResponse, ParseError,
       FinalAnswer, SendFails, ToolCalls, unchangedTurn
<1>3. CASE Checking
  BY <1>3, CheckFailedGoes DEF Checking, CheckReturns, CheckPassed
<1>4. CASE Tools
  BY <1>4 DEF Tools, NextCall, LastCall, AskTool, RunTool, ApproveTool, BadArguments, DenyTool,
       ToolReturns, Record, EndLoop, ContextReset, KeepResult, unchangedCall
<1>5. CASE ReportDone \/ Close \/ Abort \/ UNCHANGED vars
  BY <1>5 DEF ReportDone, Close, Abort, unchangedEnd, control, vars, AtYield
<1> QED
  BY <1>1, <1>2, <1>3, <1>4, <1>5 DEF Next, Step

\* Under loop.untilBash a run is called final only on a check that passed.
THEOREM FinalIsChecked == Spec => []FinalMeansPassed
<1>1. Init => FinalInv
  BY DEF Init, FinalInv
<1>2. FinalInv => FinalMeansPassed
  BY DEF FinalInv, FinalMeansPassed
<1> QED
  BY <1>1, <1>2, StepFinal, PTL DEF Spec

------------------------------------------------------------------------------
\* The verdict of the detector, and the fresh context that comes before it.

\* repeat_loop ends no run that is not in a loop.
THEOREM VerdictsAreReal == Spec => []LoopVerdictReal
BY DetectorDecides, PTL

\* Inductive: until the context was refreshed no call but the one answered
\* last is above freshContext.
FreshInv ==
  config.refreshing /\ ~wasReset /\ pc \notin {"ended", "closed"} =>
    \A k \in Calls : seen[k] <= config.fresh \/ (pc = "resulted" /\ k = Head(batch))

LEMMA FreshNumbers ==
  ASSUME TypeOK
  PROVE  config.fresh \in Nat /\ config.refreshing \in BOOLEAN
         /\ (config.refreshing => config.counting) /\ config.maxRepeats \in Nat
BY ConfigsAssumption DEF TypeOK, ConfigType

LEMMA QuietFresh ==
  ASSUME FreshInv, UNCHANGED <<config, seen, wasReset>>, pc \notin {"resulted", "ended", "closed"}
  PROVE  FreshInv'
BY DEF FreshInv

LEMMA RecordFresh ==
  ASSUME Typed, FreshInv, pc \notin {"resulted", "ended", "closed"}, NEW r \in {"ok", "error", "blocked"},
         batch # <<>>, Record(Head(batch), r)
  PROVE  FreshInv'
<1> DEFINE k == Head(batch)
<1>1. k \in Keys /\ batch' = batch /\ config' = config /\ pc' = "resulted" /\ wasReset' = wasReset
  BY DEF Typed, TypeOK, Keys, Record, unchangedCall, Yield
<1>2. SUFFICES ASSUME config.refreshing, ~wasReset PROVE \A j \in Calls : seen'[j] <= config.fresh \/ j = k
  BY <1>1 DEF FreshInv
<1>3. config.counting /\ seen \in [Keys -> Nat] /\ Calls \subseteq Keys /\ config.fresh \in Nat
  BY <1>2, FreshNumbers DEF Typed, TypeOK, Keys
<1>4. \A j \in Calls : seen[j] <= config.fresh
  BY <1>2 DEF FreshInv
<1>5. \A j \in Keys : j # k => seen'[j] \in {seen[j], 0}
  <2> DEFINE done == IF r = "ok" /\ k \in EditCalls THEN applied \cup {k} ELSE applied
             kept == IF r = "ok" /\ k \in EditCalls THEN AfterEdit(done) ELSE seen
  <2>1. \A j \in Keys : kept[j] \in {seen[j], 0}
    BY DEF AfterEdit
  <2>2. kept \in [Keys -> Nat]
    BY <1>3 DEF AfterEdit
  <2>3. seen' = IF r = "blocked" THEN kept ELSE [kept EXCEPT ![k] = seen[k] + 1]
    BY <1>3 DEF Record
  <2> HIDE DEF kept
  <2> QED
    BY <1>1, <2>1, <2>2, <2>3
<1> QED
  BY <1>3, <1>4, <1>5

LEMMA StepFresh == Typed /\ DetectorInv /\ FreshInv /\ [Next]_vars => FreshInv'
<1> SUFFICES ASSUME Typed, DetectorInv, FreshInv, [Next]_vars PROVE FreshInv'
  OBVIOUS
<1> USE DEF Goto, Yield, Done, Fail
<1>1. CASE BeforeLoop
  <2>1. UNCHANGED <<config, seen, wasReset>> /\ pc \notin {"resulted", "ended", "closed"}
    BY <1>1 DEF BeforeLoop, AskServer, AnswerServer, ServersAsked, AskUntil, AnswerUntil,
         StartServers, ServersStarted, Announce, KnobsKnown, LoadNotes, unchangedLoop, detector
  <2> QED
    BY <2>1, QuietFresh
<1>2. CASE Turn
  <2>1. UNCHANGED <<config, seen, wasReset>> /\ pc \notin {"resulted", "ended", "closed"}
    BY <1>2 DEF Turn, TopOfLoop, ContextStats, LlmRequest, Send, LlmResponse, ParseError,
         FinalAnswer, SendFails, ToolCalls, unchangedTurn, detector
  <2> QED
    BY <2>1, QuietFresh
<1>3. CASE Checking
  <2>1. ASSUME NEW passed \in BOOLEAN, CheckReturns(passed) PROVE FreshInv'
    <3>1. UNCHANGED <<config, seen, wasReset>> /\ pc = "check"
      BY <2>1 DEF CheckReturns, detector
    <3> QED
      BY <3>1, QuietFresh
  <2>2. CASE CheckPassed
    BY <2>2 DEF CheckPassed, FreshInv
  <2>3. CASE CheckFailed
    <3>1. UNCHANGED <<config, wasReset>> /\ pc = "checked"
      BY <2>3 DEF CheckFailed
    <3>2. \A k \in Calls : seen'[k] = seen[k]
      BY <2>3, CallsAssumption DEF CheckFailed, Typed, TypeOK, Keys
    <3> QED
      BY <3>1, <3>2 DEF FreshInv
  <2> QED
    BY <1>3, <2>1, <2>2, <2>3 DEF Checking
<1>4. CASE Tools
  <2>1. CASE NextCall \/ LastCall \/ AskTool \/ RunTool \/ ApproveTool
    <3>1. UNCHANGED <<config, seen, wasReset>> /\ pc \notin {"resulted", "ended", "closed"}
      BY <2>1 DEF NextCall, LastCall, AskTool, RunTool, ApproveTool, unchangedCall, detector
    <3> QED
      BY <3>1, QuietFresh
  <2>2. ASSUME NEW r \in {"ok", "error", "blocked"}, BadArguments \/ DenyTool \/ ToolReturns(r)
        PROVE  FreshInv'
    BY <2>2, RecordFresh DEF BadArguments, DenyTool, ToolReturns, Typed, Placed
  <2>3. CASE EndLoop
    BY <2>3 DEF EndLoop, FreshInv
  <2>4. CASE ContextReset
    BY <2>4 DEF ContextReset, FreshInv
  <2>5. CASE KeepResult
    <3>1. /\ UNCHANGED <<config, seen, wasReset>> /\ pc = "resulted" /\ pc' = "call"
          /\ ~wasReset /\ config.refreshing => ~(repeats >= config.fresh)
      BY <2>5 DEF KeepResult, WantsReset, unchangedCall, detector
    <3>2. SUFFICES ASSUME config.refreshing, ~wasReset PROVE \A k \in Calls : seen[k] <= config.fresh
      BY <3>1 DEF FreshInv
    <3>3. /\ seen \in [Keys -> Nat] /\ repeats \in Nat /\ Head(batch) \in Keys
          /\ config.fresh \in Nat /\ config.counting
      BY <3>1, <3>2, FreshNumbers DEF Typed, TypeOK, Placed, Keys
    <3>4. seen[Head(batch)] <= repeats + 1
      BY <3>1, <3>3 DEF DetectorInv
    <3>5. seen[Head(batch)] <= config.fresh
      BY <3>1, <3>2, <3>3, <3>4
    <3> QED
      BY <3>1, <3>2, <3>5 DEF FreshInv
  <2> QED
    BY <1>4, <2>1, <2>2, <2>3, <2>4, <2>5 DEF Tools
<1>5. CASE ReportDone \/ Close \/ Abort \/ UNCHANGED vars
  BY <1>5 DEF ReportDone, Close, Abort, unchangedEnd, control, vars, AtYield, AtAwait, detector, FreshInv
<1> QED
  BY <1>1, <1>2, <1>3, <1>4, <1>5 DEF Next, Step

\* loop.freshContext is never late: no tool call is made more often than it
\* allows before the context has been refreshed.
THEOREM FreshContextComes == Spec => []FreshContextInTime
<1>1. Spec => []Typed
  BY InitType, StepType, PTL DEF Spec
<1>2. Spec => []DetectorInv
  BY <1>1, InitDetector, StepDetector, PTL DEF Spec
<1>3. Init => FreshInv
  <2> SUFFICES ASSUME Init PROVE FreshInv
    OBVIOUS
  <2>1. config.fresh \in Nat
    BY InitType, FreshNumbers DEF Typed
  <2> QED
    BY <2>1 DEF Init, FreshInv, Zero, Keys
<1>4. Typed /\ DetectorInv /\ FreshInv => FreshContextInTime
  <2> SUFFICES ASSUME Typed, DetectorInv, FreshInv, config.refreshing, ~wasReset,
                      pc \in {"top", "call"}, NEW k \in Calls
               PROVE  made[k] <= config.fresh
    BY DEF FreshContextInTime
  <2>1. config.counting /\ config.fresh \in Nat /\ k \in Keys
    BY FreshNumbers DEF Typed, Keys
  <2>2. made[k] <= seen[k] /\ seen[k] <= config.fresh
    BY <2>1 DEF DetectorInv, RepeatsCounted, FreshInv
  <2> QED
    BY <2>1, <2>2 DEF Typed, TypeOK
<1> QED
  BY <1>1, <1>2, <1>3, <1>4, StepFresh, PTL DEF Spec

------------------------------------------------------------------------------
\* The history a request carries.

\* A history that owes n answers to its last assistant message and is sound
\* otherwise.
Sound(m, n) ==
  /\ Len(m) >= 2 /\ m[1] = System /\ m[2] = User
  /\ \A i \in 3 .. Len(m) :
       /\ m[i].role = "assistant" =>
            /\ i + m[i].calls <= Len(m) + n
            /\ \A j \in 1 .. m[i].calls : i + j <= Len(m) => m[i + j].role = "tool"
       /\ m[i].role = "tool" =>
            \E j \in 3 .. i - 1 : m[j].role = "assistant" /\ i - j <= m[j].calls
       /\ m[i].role # "tool" => m[i].role # m[i - 1].role
  /\ n > 0 => \E j \in 3 .. Len(m) : m[j].role = "assistant" /\ j + m[j].calls = Len(m) + n

LastRole(m) == m[Len(m)].role

Message == [role : {"system", "user", "assistant", "tool"}, calls : Nat]

\* Element by element, what Append does to a history of at least two messages.
LEMMA AppendMessage ==
  ASSUME NEW m \in Histories, NEW x \in Message, Len(m) >= 2
  PROVE  /\ Append(m, x) \in Histories
         /\ Len(Append(m, x)) = Len(m) + 1 /\ Len(m) \in Nat
         /\ \A i \in 1 .. Len(m) : Append(m, x)[i] = m[i] /\ m[i] \in Message
         /\ Append(m, x)[Len(m) + 1] = x
         /\ LastRole(Append(m, x)) = x.role
<1>1. m \in Seq(Message)
  BY DEF Histories, Message
<1> DEFINE h == Append(m, x)
<1>2. /\ h \in Seq(Message) /\ Len(h) = Len(m) + 1 /\ Len(m) \in Nat
      /\ \A i \in 1 .. Len(m) : h[i] = m[i] /\ m[i] \in Message
      /\ h[Len(m) + 1] = x
  BY <1>1
<1> HIDE DEF h
<1>3. LastRole(h) = x.role
  BY <1>2 DEF LastRole
<1> QED
  BY <1>2, <1>3 DEF h, Histories, Message

\* Where nothing is owed, a user or an assistant may speak, not twice in a row.
LEMMA SoundSpeak ==
  ASSUME NEW m \in Histories, Sound(m, 0), NEW n \in Nat, NEW role \in {"user", "assistant"},
         role # LastRole(m), role = "user" => n = 0
  PROVE  /\ Sound(Append(m, Msg(role, n)), n)
         /\ Append(m, Msg(role, n)) \in Histories /\ LastRole(Append(m, Msg(role, n))) = role
<1> DEFINE x == Msg(role, n)
           h == Append(m, x)
<1>1. x \in Message /\ x.role = role /\ x.calls = n
  BY DEF Msg, Message
<1>2. Len(m) >= 2
  BY DEF Sound
<1>3. /\ Len(h) = Len(m) + 1 /\ Len(m) \in Nat /\ h[Len(m) + 1] = x
      /\ \A i \in 1 .. Len(m) : h[i] = m[i] /\ m[i] \in Message
  BY <1>1, <1>2, AppendMessage
<1>0. h \in Histories /\ LastRole(h) = role
  BY <1>1, <1>2, AppendMessage
<1> HIDE DEF h, x
<1>4. h[1] = System /\ h[2] = User
  BY <1>2, <1>3 DEF Sound
<1>5. \A i \in 3 .. Len(m) : m[i].calls \in Nat
  BY <1>3 DEF Message
<1>6. ASSUME NEW i \in 3 .. Len(m)
      PROVE  /\ h[i].role = "assistant" =>
                  /\ i + h[i].calls <= Len(h) + n
                  /\ \A j \in 1 .. h[i].calls : i + j <= Len(h) => h[i + j].role = "tool"
             /\ h[i].role = "tool" =>
                  \E j \in 3 .. i - 1 : h[j].role = "assistant" /\ i - j <= h[j].calls
             /\ h[i].role # "tool" => h[i].role # h[i - 1].role
  <2>1. h[i] = m[i] /\ h[i - 1] = m[i - 1] /\ m[i].calls \in Nat /\ i \in Nat
    BY <1>3, <1>5
  <2>2. m[i].role = "assistant" => i + m[i].calls <= Len(m)
    BY <1>3, <1>5, <2>1 DEF Sound
  <2>3. m[i].role = "assistant" => \A j \in 1 .. m[i].calls : i + j <= Len(h) => h[i + j].role = "tool"
    <3> SUFFICES ASSUME m[i].role = "assistant", NEW j \in 1 .. m[i].calls PROVE h[i + j].role = "tool"
      OBVIOUS
    <3>1. i + j <= Len(m) /\ i + j \in 1 .. Len(m)
      BY <1>3, <2>1, <2>2
    <3>2. m[i + j].role = "tool"
      BY <3>1 DEF Sound
    <3> QED
      BY <1>3, <3>1, <3>2
  <2>4. m[i].role = "tool" => \E j \in 3 .. i - 1 : h[j].role = "assistant" /\ i - j <= h[j].calls
    <3> SUFFICES ASSUME m[i].role = "tool" PROVE \E j \in 3 .. i - 1 : h[j].role = "assistant" /\ i - j <= h[j].calls
      OBVIOUS
    <3>1. PICK j \in 3 .. i - 1 : m[j].role = "assistant" /\ i - j <= m[j].calls
      BY DEF Sound
    <3>2. j \in 1 .. Len(m)
      BY <1>3, <2>1, <3>1
    <3>3. h[j] = m[j]
      BY <1>3, <3>2
    <3> QED
      BY <3>1, <3>3
  <2>5. m[i].role # "tool" => m[i].role # m[i - 1].role
    BY DEF Sound
  <2> QED
    BY <1>3, <2>1, <2>2, <2>3, <2>4, <2>5
<1>7. /\ h[Len(m) + 1].role = role /\ h[Len(m) + 1].calls = n
      /\ h[(Len(m) + 1) - 1].role # role
  BY <1>1, <1>2, <1>3 DEF LastRole
<1>8. \A i \in 3 .. Len(h) : i \in 3 .. Len(m) \/ i = Len(m) + 1
  BY <1>3
<1>9. ASSUME n > 0
      PROVE  \E j \in 3 .. Len(h) : h[j].role = "assistant" /\ j + h[j].calls = Len(h) + n
  <2>1. role = "assistant" /\ Len(m) + 1 \in 3 .. Len(h)
    BY <1>2, <1>3, <1>9
  <2> QED
    BY <1>3, <1>7, <2>1
<1>10. ASSUME NEW i \in 3 .. Len(h)
       PROVE  /\ h[i].role = "assistant" =>
                   /\ i + h[i].calls <= Len(h) + n
                   /\ \A j \in 1 .. h[i].calls : i + j <= Len(h) => h[i + j].role = "tool"
              /\ h[i].role = "tool" =>
                   \E j \in 3 .. i - 1 : h[j].role = "assistant" /\ i - j <= h[j].calls
              /\ h[i].role # "tool" => h[i].role # h[i - 1].role
  <2>1. CASE i \in 3 .. Len(m)
    BY <1>6, <2>1
  <2>2. CASE i = Len(m) + 1
    BY <1>3, <1>7, <2>2
  <2> QED
    BY <1>8, <2>1, <2>2
<1>11. Sound(h, n)
  BY <1>2, <1>3, <1>4, <1>9, <1>10 DEF Sound
<1> QED
  BY <1>0, <1>11 DEF h, x

\* A tool message pays one of the answers that are owed.
LEMMA SoundAnswer ==
  ASSUME NEW m \in Histories, NEW n \in Nat, Sound(m, n + 1)
  PROVE  Sound(Append(m, Tool), n)
<1> DEFINE h == Append(m, Tool)
<1>1. Tool \in Message /\ Tool.role = "tool"
  BY DEF Tool, Msg, Message
<1>2. Len(m) >= 2
  BY DEF Sound
<1>3. /\ Len(h) = Len(m) + 1 /\ Len(m) \in Nat /\ h[Len(m) + 1] = Tool
      /\ \A i \in 1 .. Len(m) : h[i] = m[i] /\ m[i] \in Message
  BY <1>1, <1>2, AppendMessage
<1> HIDE DEF h
<1>4. h[1] = System /\ h[2] = User
  BY <1>2, <1>3 DEF Sound
<1>5. \A i \in 3 .. Len(m) : h[i] = m[i] /\ m[i].calls \in Nat
  BY <1>3 DEF Message
<1>6. PICK a \in 3 .. Len(m) : m[a].role = "assistant" /\ a + m[a].calls = Len(m) + n + 1
  <2>1. n + 1 > 0
    OBVIOUS
  <2>2. \E a \in 3 .. Len(m) : m[a].role = "assistant" /\ a + m[a].calls = Len(m) + (n + 1)
    BY <2>1 DEF Sound
  <2> QED
    BY <1>3, <2>2
<1>7. ASSUME NEW i \in 3 .. Len(m)
      PROVE  /\ h[i].role = "assistant" =>
                  /\ i + h[i].calls <= Len(h) + n
                  /\ \A j \in 1 .. h[i].calls : i + j <= Len(h) => h[i + j].role = "tool"
             /\ h[i].role = "tool" =>
                  \E j \in 3 .. i - 1 : h[j].role = "assistant" /\ i - j <= h[j].calls
             /\ h[i].role # "tool" => h[i].role # h[i - 1].role
  <2>1. h[i] = m[i] /\ h[i - 1] = m[i - 1] /\ m[i].calls \in Nat /\ i \in Nat
    BY <1>3, <1>5
  <2>2. m[i].role = "assistant" => i + m[i].calls <= Len(h) + n
    <3>1. m[i].role = "assistant" => i + m[i].calls <= Len(m) + (n + 1)
      BY DEF Sound
    <3> QED
      BY <1>3, <2>1, <3>1
  <2>3. m[i].role = "assistant" => \A j \in 1 .. m[i].calls : i + j <= Len(h) => h[i + j].role = "tool"
    <3> SUFFICES ASSUME m[i].role = "assistant", NEW j \in 1 .. m[i].calls, i + j <= Len(h)
                 PROVE  h[i + j].role = "tool"
      OBVIOUS
    <3>1. CASE i + j <= Len(m)
      <4>1. m[i + j].role = "tool" /\ i + j \in 1 .. Len(m)
        BY <1>3, <2>1, <3>1 DEF Sound
      <4> QED
        BY <1>3, <4>1
    <3>2. CASE i + j = Len(m) + 1
      BY <1>1, <1>3, <3>2
    <3> QED
      BY SMTT(20), <1>3, <2>1, <3>1, <3>2
  <2>4. m[i].role = "tool" => \E j \in 3 .. i - 1 : h[j].role = "assistant" /\ i - j <= h[j].calls
    <3> SUFFICES ASSUME m[i].role = "tool" PROVE \E j \in 3 .. i - 1 : h[j].role = "assistant" /\ i - j <= h[j].calls
      OBVIOUS
    <3>1. PICK j \in 3 .. i - 1 : m[j].role = "assistant" /\ i - j <= m[j].calls
      BY DEF Sound
    <3>2. j \in 1 .. Len(m)
      BY <1>3, <2>1, <3>1
    <3>3. h[j] = m[j]
      BY <1>3, <3>2
    <3> QED
      BY <3>1, <3>3
  <2>5. m[i].role # "tool" => m[i].role # m[i - 1].role
    BY DEF Sound
  <2> QED
    BY <2>1, <2>2, <2>3, <2>4, <2>5
<1>8. h[a] = m[a] /\ m[a].calls \in Nat /\ a \in 3 .. Len(h) /\ a \in 3 .. (Len(m) + 1) - 1
  BY <1>3, <1>5, <1>6
<1>9. h[a].role = "assistant" /\ (Len(m) + 1) - a <= h[a].calls /\ a + h[a].calls = Len(h) + n
  BY <1>3, <1>6, <1>8
<1>10. ASSUME NEW i \in 3 .. Len(h)
       PROVE  /\ h[i].role = "assistant" =>
                   /\ i + h[i].calls <= Len(h) + n
                   /\ \A j \in 1 .. h[i].calls : i + j <= Len(h) => h[i + j].role = "tool"
              /\ h[i].role = "tool" =>
                   \E j \in 3 .. i - 1 : h[j].role = "assistant" /\ i - j <= h[j].calls
              /\ h[i].role # "tool" => h[i].role # h[i - 1].role
  <2>1. CASE i \in 3 .. Len(m)
    BY <1>7, <2>1
  <2>2. CASE i = Len(m) + 1
    BY <1>1, <1>3, <1>8, <1>9, <2>2
  <2> QED
    BY <1>3, <2>1, <2>2
<1>11. Sound(h, n)
  BY <1>2, <1>3, <1>4, <1>8, <1>9, <1>10 DEF Sound
<1> QED
  BY <1>11 DEF h

LEMMA OpeningSound == Opening \in Histories /\ Sound(Opening, 0) /\ LastRole(Opening) = "user"
BY DEF Opening, Sound, LastRole, Histories, System, User, Msg

\* The answers owed: in native mode one per call of the reply still to come.
Owed == IF config.native /\ pc \in InReply THEN Len(batch) ELSE 0

\* Inductive: the history is sound up to what is owed, and who spoke last is
\* known at every point.
HistoryInv ==
  /\ pc \notin Ends => Sound(messages, Owed)
  /\ pc \in {"mcp", "mcpAsk"} => turn = 0
  /\ pc \in {"count", "request", "send", "waiting", "doomed", "parse"} => turn > 0
  /\ pc \notin Ends \cup InReply \cup {"until", "untilAsk", "check", "checked"} =>
       LastRole(messages) # "assistant"
  /\ pc \in {"until", "untilAsk"} => (LastRole(messages) = "assistant" <=> turn > 0)
  /\ pc \in {"check", "checked"} => LastRole(messages) = "assistant"
  /\ pc \in InReply /\ ~config.native => LastRole(messages) = "assistant"
  /\ pc \in InReply /\ config.native /\ batch = <<>> => LastRole(messages) # "assistant"

LEMMA InitHistory == Init => HistoryInv
BY OpeningSound DEF Init, HistoryInv, Owed, InReply

LEMMA BeforeLoopHistory == Typed /\ HistoryInv /\ BeforeLoop => HistoryInv'
<1> SUFFICES ASSUME Typed, HistoryInv, BeforeLoop PROVE HistoryInv'
  OBVIOUS
<1>0. turn \in Nat
  BY DEF Typed, TypeOK
<1> USE DEF HistoryInv, Owed, InReply, Ends, unchangedLoop, Goto, Yield, Done, Fail
<1>1. CASE AskServer \/ ServersAsked \/ AskUntil
  BY <1>0, <1>1 DEF AskServer, ServersAsked, AskUntil
<1>2. CASE StartServers \/ Announce \/ KnobsKnown \/ LoadNotes
  BY <1>0, <1>2 DEF StartServers, Announce, KnobsKnown, LoadNotes
<1>3. ASSUME NEW ok \in BOOLEAN, AnswerServer(ok) PROVE HistoryInv'
  BY <1>0, <1>3 DEF AnswerServer
<1>4. ASSUME NEW ok \in BOOLEAN, AnswerUntil(ok) PROVE HistoryInv'
  BY <1>0, <1>4 DEF AnswerUntil
<1>5. ASSUME NEW ok \in BOOLEAN, ServersStarted(ok) PROVE HistoryInv'
  BY <1>0, <1>5 DEF ServersStarted
<1> QED
  BY <1>1, <1>2, <1>3, <1>4, <1>5 DEF BeforeLoop

LEMMA TurnHistory == Typed /\ HistoryInv /\ Turn => HistoryInv'
<1> SUFFICES ASSUME Typed, HistoryInv, Turn PROVE HistoryInv'
  OBVIOUS
<1>0. turn \in Nat /\ messages \in Histories /\ config.native \in BOOLEAN
  BY ConfigsAssumption DEF Typed, TypeOK, ConfigType
<1> USE DEF HistoryInv, Owed, InReply, Ends, unchangedTurn, Goto, Yield, Done, Fail
<1>1. CASE TopOfLoop
  BY <1>0, <1>1 DEF TopOfLoop
<1>2. CASE ContextStats \/ LlmRequest \/ Send \/ LlmResponse
  BY <1>0, <1>2 DEF ContextStats, LlmRequest, Send, LlmResponse
<1>3. ASSUME NEW stop \in BOOLEAN, SendFails(stop) PROVE HistoryInv'
  BY <1>0, <1>3 DEF SendFails
<1>4. ASSUME pc = "parse", NEW n \in Nat
      PROVE  /\ Append(messages, Msg("assistant", n)) \in Histories
             /\ Sound(Append(messages, Msg("assistant", n)), n)
             /\ LastRole(Append(messages, Msg("assistant", n))) = "assistant"
  <2>1. Sound(messages, 0) /\ LastRole(messages) # "assistant"
    BY <1>4
  <2> QED
    BY <1>0, <2>1, SoundSpeak
<1>5. CASE ParseError
  <2> DEFINE h == Append(messages, Msg("assistant", 0))
  <2>1. h \in Histories /\ Sound(h, 0) /\ LastRole(h) = "assistant"
    BY <1>4, <1>5 DEF ParseError
  <2>2. messages' = Append(h, Msg("user", 0))
    BY <1>0, <1>5 DEF ParseError, User, Histories
  <2> HIDE DEF h
  <2>5. Sound(messages', 0) /\ LastRole(messages') = "user"
    BY <2>1, <2>2, SoundSpeak
  <2>6. pc' \in {"failing", "top"} /\ config' = config
    BY <1>5 DEF ParseError
  <2> QED
    BY <2>5, <2>6
<1>6. CASE FinalAnswer
  <2>1. Sound(messages', 0) /\ LastRole(messages') = "assistant"
    BY <1>4, <1>6 DEF FinalAnswer
  <2>2. pc' \in {"ended", "until", "check"} /\ turn' = turn /\ turn > 0
    BY <1>6 DEF FinalAnswer
  <2> QED
    BY <2>1, <2>2
<1>7. ASSUME NEW calls \in Batches, ToolCalls(calls) PROVE HistoryInv'
  <2>1. calls \in Seq(Calls) /\ calls # <<>> /\ Len(calls) \in Nat
    BY ConfigsAssumption DEF Batches
  <2> DEFINE n == IF config.native THEN Len(calls) ELSE 0
  <2>2. messages' = Append(messages, Msg("assistant", n)) /\ n \in Nat
    BY <1>7, <2>1 DEF ToolCalls
  <2>3. Sound(messages', n) /\ LastRole(messages') = "assistant"
    BY <1>4, <1>7, <2>2 DEF ToolCalls
  <2>4. pc' = "call" /\ batch' = calls /\ UNCHANGED <<config, turn>>
    BY <1>7 DEF ToolCalls
  <2>5. Owed' = n
    BY <2>4
  <2> QED
    BY <2>1, <2>3, <2>4, <2>5
<1> QED
  BY <1>1, <1>2, <1>3, <1>5, <1>6, <1>7 DEF Turn

LEMMA CheckingHistory == Typed /\ HistoryInv /\ Checking => HistoryInv'
<1> SUFFICES ASSUME Typed, HistoryInv, Checking PROVE HistoryInv'
  OBVIOUS
<1> USE DEF HistoryInv, Owed, InReply, Ends, Goto, Yield, Done
<1>1. ASSUME NEW passed \in BOOLEAN, CheckReturns(passed) PROVE HistoryInv'
  BY <1>1 DEF CheckReturns
<1>2. CASE CheckPassed
  BY <1>2 DEF CheckPassed
<1>3. CASE CheckFailed
  <2>1. pc = "checked" /\ pc' \in {"ended", "top"} /\ UNCHANGED <<config, turn>>
    BY <1>3, CheckFailedGoes
  <2>2. messages \in Histories /\ messages' = Append(messages, Msg("user", 0))
    BY <1>3 DEF CheckFailed, User, Typed, TypeOK
  <2>3. Sound(messages, 0) /\ LastRole(messages) = "assistant"
    BY <2>1
  <2>4. Sound(messages', 0) /\ LastRole(messages') = "user"
    BY <2>2, <2>3, SoundSpeak
  <2> QED
    BY <2>1, <2>4
<1> QED
  BY <1>1, <1>2, <1>3 DEF Checking

LEMMA ToolsHistory == Typed /\ HistoryInv /\ Tools => HistoryInv'
<1> SUFFICES ASSUME Typed, HistoryInv, Tools PROVE HistoryInv'
  OBVIOUS
<1>0. messages \in Histories /\ batch \in Seq(Calls) /\ config.native \in BOOLEAN
  BY ConfigsAssumption DEF Typed, TypeOK, ConfigType
<1> USE DEF HistoryInv, Owed, InReply, Ends, unchangedCall, Goto, Yield, Done
<1>1. CASE NextCall \/ AskTool \/ RunTool \/ ApproveTool \/ EndLoop
  BY <1>1 DEF NextCall, AskTool, RunTool, ApproveTool, EndLoop
<1>2. CASE LastCall
  <2>1. pc = "call" /\ batch = <<>> /\ pc' = "top" /\ UNCHANGED <<config, turn>> /\ Sound(messages, 0)
    BY <1>2 DEF LastCall
  <2>2. CASE config.native
    BY <1>2, <2>1, <2>2 DEF LastCall
  <2>3. CASE ~config.native
    <3>1. messages' = Append(messages, Msg("user", 0)) /\ LastRole(messages) = "assistant"
      BY <1>2, <2>1, <2>3 DEF LastCall, User
    <3>2. Sound(messages', 0) /\ LastRole(messages') = "user"
      BY <1>0, <2>1, <3>1, SoundSpeak
    <3> QED
      BY <2>1, <2>3, <3>2
  <2> QED
    BY <2>2, <2>3
<1>3. ASSUME NEW r \in {"ok", "error", "blocked"}, BadArguments \/ DenyTool \/ ToolReturns(r)
      PROVE  HistoryInv'
  <2>1. pc \in {"called", "callAsk", "running"} /\ pc' = "resulted"
        /\ UNCHANGED <<config, turn, messages, batch>>
    BY <1>3 DEF BadArguments, DenyTool, ToolReturns, Record
  <2> QED
    BY <2>1
<1>4. CASE ContextReset
  <2>1. pc' = "top" /\ messages' = Opening /\ config' = config
    BY <1>4 DEF ContextReset
  <2> QED
    BY <2>1, OpeningSound
<1>5. CASE KeepResult
  <2>1. pc = "resulted" /\ pc' = "call" /\ UNCHANGED <<config, turn>> /\ batch' = Tail(batch)
    BY <1>5 DEF KeepResult
  <2>2. batch # <<>> /\ Tail(batch) \in Seq(Calls) /\ Len(batch) = Len(Tail(batch)) + 1
        /\ Len(Tail(batch)) \in Nat
    BY <1>0, <2>1 DEF Typed, Placed
  <2>3. CASE config.native
    <3>1. Sound(messages, Len(Tail(batch)) + 1) /\ messages' = Append(messages, Tool)
      BY <1>5, <2>1, <2>2, <2>3 DEF KeepResult
    <3>2. Sound(messages', Len(Tail(batch)))
      BY <1>0, <2>2, <3>1, SoundAnswer
    <3>3. LastRole(messages') = "tool"
      <4>1. Len(messages) >= 2
        BY <3>1 DEF Sound
      <4> QED
        BY <1>0, <3>1, <4>1, AppendMessage DEF Tool, Msg, Message
    <3>4. Owed' = Len(Tail(batch))
      BY <2>1, <2>3
    <3> QED
      BY <2>1, <2>3, <3>2, <3>3, <3>4
  <2>4. CASE ~config.native
    BY <1>5, <2>1, <2>4 DEF KeepResult
  <2> QED
    BY <2>3, <2>4
<1> QED
  BY <1>1, <1>2, <1>3, <1>4, <1>5 DEF Tools

LEMMA StepHistory == Typed /\ HistoryInv /\ [Next]_vars => HistoryInv'
<1> SUFFICES ASSUME Typed, HistoryInv, [Next]_vars PROVE HistoryInv'
  OBVIOUS
<1>1. CASE ReportDone \/ Close
  BY <1>1 DEF ReportDone, Close, HistoryInv, Owed, InReply, Ends, Done, Goto, unchangedEnd
<1>2. CASE Abort \/ UNCHANGED vars
  <2>1. UNCHANGED <<config, pc, turn, messages, batch>>
    BY <1>2 DEF Abort, unchangedEnd, control, vars
  <2> QED
    BY <2>1 DEF HistoryInv, Owed
<1> QED
  BY <1>1, <1>2, BeforeLoopHistory, TurnHistory, CheckingHistory, ToolsHistory DEF Next, Step

\* Every request of every run carries a history a provider accepts: each tool
\* call is answered right after it, no answer stands alone, nobody speaks twice.
THEOREM RequestsAccepted == Spec => []RequestHistory
<1>1. Spec => []Typed
  BY InitType, StepType, PTL DEF Spec
<1>2. Spec => []HistoryInv
  BY <1>1, InitHistory, StepHistory, PTL DEF Spec
<1>3. Typed /\ HistoryInv => RequestHistory
  <2> SUFFICES ASSUME Typed, HistoryInv, pc = "request" PROVE RequestHistory
    BY DEF RequestHistory
  <2>1. Sound(messages, 0) /\ LastRole(messages) # "assistant"
    BY DEF HistoryInv, Owed, InReply, Ends
  <2>2. ASSUME NEW i \in 3 .. Len(messages), messages[i].role = "assistant",
               NEW j \in 1 .. messages[i].calls
        PROVE  i + j <= Len(messages) /\ messages[i + j].role = "tool"
    <3>1. messages[i].calls \in Nat /\ Len(messages) \in Nat
      <4>1. messages \in Seq(Message)
        BY DEF Typed, TypeOK, Histories, Message
      <4>2. messages[i] \in Message
        BY <4>1
      <4> QED
        BY <4>1, <4>2 DEF Message
    <3>2. i + messages[i].calls <= Len(messages) + 0
      BY <2>1, <2>2 DEF Sound
    <3>3. i + j <= Len(messages)
      BY <3>1, <3>2
    <3> QED
      BY <2>1, <2>2, <3>3 DEF Sound
  <2>3. messages[1] = System /\ messages[2] = User /\ messages[Len(messages)].role # "assistant"
    BY <2>1 DEF Sound, LastRole
  <2>4. ASSUME NEW i \in 3 .. Len(messages)
        PROVE  /\ messages[i].role = "tool" =>
                    \E j \in 3 .. i - 1 : messages[j].role = "assistant" /\ i - j <= messages[j].calls
               /\ messages[i].role # "tool" => messages[i].role # messages[i - 1].role
    BY <2>1 DEF Sound
  <2> QED
    BY <2>2, <2>3, <2>4 DEF RequestHistory
<1> QED
  BY <1>1, <1>2, <1>3, PTL
==============================================================================
