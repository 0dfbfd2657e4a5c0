-------------------------------- MODULE Stubs --------------------------------
(****************************************************************************)
(* The history budget (applyBudget of core/tokens.ts, with the messages     *)
(* run.ts builds) and the reader that finds its work again in a trace       *)
(* (rebuildStubs of core/analyze.ts).  The reader goes request by request   *)
(* and looks back only, so each request is read as it is sent.              *)
(*                                                                          *)
(* Outputs are beginnings of one text: an output is its length, equal       *)
(* lengths are equal texts, and a longer one includes a shorter one.  A     *)
(* message's text is the outputs in it; one that is an output and nothing   *)
(* else is `plain`.                                                         *)
(****************************************************************************)
EXTENDS Integers, Sequences, FiniteSets

CONSTANTS
  Outputs,  \* lengths of the outputs of tools
  StubLen,  \* length of "[dropped: K chars]"
  Budgets,  \* context.budgetTokens; 0: none
  MaxTurns  \* bound: turns of a run

ASSUME StubsAssumption ==
  Outputs \subseteq Nat /\ StubLen \in Nat \ {0} /\ Budgets \subseteq Nat /\ MaxTurns \in Nat \ {0}

VARIABLES
  native,    \* toolCalls.mode: a message for each result, or one for a turn's results
  budget,
  messages,  \* the history: role, whether a tool result, text; `ids`: the results it carries
  resultEvents,   \* tool_result and final_check events: turn and output
  turn,      \* requests so far
  fresh,     \* the context was reset
  reader,    \* the reader: the request before, when each message was first seen, credited results
  now        \* the last request: what was stubbed, what the reader says, the size it had and has

stubsVars == <<native, budget, messages, resultEvents, turn, fresh, reader, now>>

Text(len, plain, outs) == [len |-> len, plain |-> plain, outs |-> outs, stub |-> FALSE, was |-> 0]
StubOf(text) == [len |-> StubLen, plain |-> FALSE, outs |-> <<>>, stub |-> TRUE, was |-> text.len]
Message(role, isResult, text, ids) ==
  [role |-> role, isToolResult |-> isResult, text |-> text, ids |-> ids]
Said(role) == Message(role, FALSE, Text(2, FALSE, <<>>), {})
Opening    == <<Said("system"), Said("user")>>

StubsInit ==
  /\ native \in BOOLEAN /\ budget \in Budgets /\ messages = Opening
  /\ resultEvents = <<>> /\ turn = 0 /\ fresh = FALSE
  /\ reader = [prev |-> <<>>, firstSeen |-> <<>>, credited |-> {}]
  /\ now = [stubbed |-> <<>>, told |-> <<>>, before |-> 0, after |-> 0, sent |-> FALSE]

------------------------------------------------------------------------------
\* applyBudget.

\* The numbers of a sequence, added up.
total(s) ==
  LET sum[i \in 0 .. Len(s)] == IF i = 0 THEN 0 ELSE sum[i - 1] + s[i]
  IN  sum[Len(s)]

CeilTokens(chars) == (chars + 3) \div 4
charsOf(ms) == total([i \in DOMAIN ms |-> ms[i].text.len])
LastAssistant(ms) ==
  LET S == {i \in DOMAIN ms : ms[i].role = "assistant"}
  IN  IF S = {} THEN 0 ELSE CHOOSE i \in S : \A j \in S : j <= i

\* Message by message: the size so far and which were stubbed, oldest first.
Stubbable(ms, i) == i < LastAssistant(ms) /\ ms[i].isToolResult /\ ~ms[i].text.stub
StubOne(ms, mark, p, i) ==
  IF CeilTokens(p.chars) <= mark \/ ~Stubbable(ms, i) THEN p
  ELSE [chars |-> p.chars + StubLen - ms[i].text.len, at |-> Append(p.at, i)]
Stubbing(ms, mark) ==
  LET f[i \in 0 .. Len(ms)] ==
        IF i = 0 THEN [chars |-> charsOf(ms), at |-> <<>>] ELSE StubOne(ms, mark, f[i - 1], i)
  IN f[Len(ms)]

InSeq(x, s) == \E i \in DOMAIN s : s[i] = x
applyBudget(ms) ==
  IF budget = 0 \/ CeilTokens(charsOf(ms)) <= budget THEN [chars |-> charsOf(ms), at |-> <<>>]
  ELSE Stubbing(ms, (budget * 3) \div 4)

------------------------------------------------------------------------------
\* rebuildStubs, for one request.

Result(e) == resultEvents[e]
Includes(text, out) == \E i \in DOMAIN text.outs : out <= text.outs[i]

\* Mutant: a result goes to any number of stubs.
AnyResults(i, credited) == {e \in DOMAIN resultEvents : Result(e).turn = reader.firstSeen[i] - 1}
\* The results of the turn before the message was first sent, that no stub has yet.
OpenResults(i, credited) ==
  {e \in DOMAIN resultEvents : Result(e).turn = reader.firstSeen[i] - 1 /\ e \notin credited}
\* An exact match, the first; else all that the text includes.
Hits(i, credited) ==
  LET was   == reader.prev[i]
      open  == OpenResults(i, credited)
      exact == {e \in open : was.plain /\ was.outs[1] = Result(e).output}
  IN  IF exact # {} THEN {CHOOSE e \in exact : \A d \in exact : e <= d}
      ELSE {e \in open : Result(e).output # 0 /\ Includes(was, Result(e).output)}

NewStub(i, c) == c[i].stub /\ i \in DOMAIN reader.prev /\ ~reader.prev[i].stub

\* The stubs of a request, each with its items: none when the lengths do not agree.
ReadOne(c, p, i) ==
  LET hit == IF reader.prev[i].len = c[i].was THEN Hits(i, p.credited) ELSE {}
  IN  IF ~NewStub(i, c) THEN p
      ELSE [credited |-> p.credited \cup hit,
            told |-> Append(p.told, [chars |-> c[i].was, items |-> hit])]
ReadStubs(c) ==
  LET f[i \in 0 .. Len(c)] ==
        IF i = 0 THEN [credited |-> reader.credited, told |-> <<>>] ELSE ReadOne(c, f[i - 1], i)
  IN f[Len(c)]

FirstSeen(c, t) ==
  [i \in DOMAIN c |->
     IF NewStub(i, c) \/ (i \in DOMAIN reader.prev /\ reader.prev[i] = c[i])
     THEN reader.firstSeen[i] ELSE t]

------------------------------------------------------------------------------
\* A turn: the request, then what the model's reply leads to.

\* When the chars the run says it dropped are not those of the stubs, none is told;
\* chars that no stub shows are a stub tied to nothing.
Settle(told, dropped) ==
  IF told = <<>> THEN IF dropped = 0 THEN told ELSE <<[chars |-> dropped, items |-> {}]>>
  ELSE IF total([i \in DOMAIN told |-> told[i].chars]) = dropped THEN told
  ELSE [i \in DOMAIN told |-> [told[i] EXCEPT !.items = {}]]

Request ==
  /\ ~now.sent /\ turn' = turn + 1
  /\ \E b \in {applyBudget(messages)} :
       /\ messages' = [i \in DOMAIN messages |->
                        IF InSeq(i, b.at) THEN [messages[i] EXCEPT !.text = StubOf(@)] ELSE messages[i]]
       /\ \E c \in {[i \in DOMAIN messages |-> messages'[i].text]} : \E r \in {ReadStubs(c)} :
            /\ reader' = [prev |-> c, firstSeen |-> FirstSeen(c, turn + 1), credited |-> r.credited]
            /\ now' = [stubbed |-> [k \in DOMAIN b.at |-> messages[b.at[k]]],
                       told |-> Settle(r.told, total([k \in DOMAIN b.at |-> messages[b.at[k]].text.len])),
                       before |-> charsOf(messages), after |-> b.chars, sent |-> TRUE]
  /\ UNCHANGED <<native, budget, resultEvents, fresh>>

Replied ==
  /\ now.sent /\ turn < MaxTurns
  /\ now' = [now EXCEPT !.sent = FALSE] /\ UNCHANGED <<native, budget, turn, reader>>

NextIds(n) == Len(resultEvents) + 1 .. Len(resultEvents) + n
Recorded(outs) ==
  resultEvents' = resultEvents \o [k \in DOMAIN outs |-> [turn |-> turn, output |-> outs[k]]]

\* Calls: a native message is one output, a prompted one wraps all of the turn.
Calls(outs) ==
  LET each == [k \in DOMAIN outs |->
                 Message("tool", TRUE, Text(outs[k], TRUE, <<outs[k]>>), {Len(resultEvents) + k})]
      one  == <<Message("user", TRUE, Text(total(outs) + Len(outs), FALSE, outs), NextIds(Len(outs)))>>
  IN
  /\ Replied /\ Recorded(outs) /\ fresh' = fresh
  /\ messages' = messages \o <<Said("assistant")>> \o (IF native THEN each ELSE one)

\* An until check that failed.
Check(out) ==
  /\ Replied /\ Recorded(<<out>>) /\ fresh' = fresh
  /\ messages' = messages \o <<Said("assistant"), Message("user", TRUE, Text(out + 2, FALSE, <<out>>), NextIds(1))>>

\* A reply that did not parse.
Hint ==
  /\ Replied /\ UNCHANGED <<resultEvents, fresh>>
  /\ messages' = messages \o <<Said("assistant"), Said("user")>>

\* A fresh context: the result is recorded, no message ever carries it.
FreshHistory(out) ==
  /\ Replied /\ ~fresh /\ fresh' = TRUE /\ Recorded(<<out>>) /\ messages' = Opening

StubsNext ==
  \/ Request \/ Hint
  \/ \E o \in Outputs : Check(o) \/ FreshHistory(o) \/ Calls(<<o>>) \/ \E p \in Outputs : Calls(<<o, p>>)

StubsSpec == StubsInit /\ [][StubsNext]_stubsVars

------------------------------------------------------------------------------
StubsTypeOK ==
  /\ turn \in 0 .. MaxTurns /\ reader.credited \subseteq DOMAIN resultEvents
  /\ DOMAIN reader.firstSeen = DOMAIN reader.prev

\* The reader finds each stub, ties it to the calls whose results it took away, and to
\* no others; empty outputs of a wrapped message cannot be told.
Owed(m) == [chars |-> m.text.len,
               items |-> IF native /\ m.role = "tool" THEN m.ids ELSE {e \in m.ids : Result(e).output # 0}]
Rebuilt == now.told = [k \in DOMAIN now.stubbed |-> Owed(now.stubbed[k])]

\* Over budget, the history ends at the mark or with every seen result a stub; under
\* it nothing is touched, and what the model has not seen never is.
BudgetKept ==
  now.sent /\ budget > 0 =>
    /\ CeilTokens(now.before) <= budget => now.stubbed = <<>>
    /\ CeilTokens(now.before) > budget =>
         \/ CeilTokens(now.after) <= (budget * 3) \div 4
         \/ \A i \in 1 .. LastAssistant(messages) : messages[i].isToolResult => messages[i].text.stub
    /\ \A i \in DOMAIN messages : i > LastAssistant(messages) => ~messages[i].text.stub
    /\ now.after = charsOf(messages)

\* (tokens.ts:14-33, analyze.ts:55-99, run.ts:163, 268, 331-347)
StubsRebuilt == StubsTypeOK /\ Rebuilt /\ BudgetKept
=============================================================================
