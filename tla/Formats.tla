------------------------------- MODULE Formats -------------------------------
(****************************************************************************)
(* One history in the two formats of an API: how the adapters write it      *)
(* (buildPayload of core/backends), how a recorded body is read back        *)
(* (core/normalize.ts) and weighed (core/anatomy.ts), how the recording     *)
(* proxy finds the run and the results in it (core/proxy/dialects), and     *)
(* which agent it takes for the sender (core/proxy/own.ts, connections.ts). *)
(*                                                                          *)
(* A text is a value, "" a blank one; the ids of calls are the server's.    *)
(****************************************************************************)
EXTENDS Integers, Sequences, FiniteSets
LOCAL INSTANCE SequencesExt
LOCAL INSTANCE Functions

CONSTANT MaxHistory    \* bound: turns of a history that is sent

NoText == "no text"
Marker == "(empty reply)"
ToolTag == "<tool_result>"    \* a prompted run's results, as the user's text

(* ---- the adapters ---- *)

\* A history's message: an assistant's has calls and may have thought.
Message(role, text, calls, id, thought) ==
  [role |-> role, text |-> text, calls |-> calls, id |-> id, thought |-> thought]

openaiBody(history) == [i \in DOMAIN history |-> [history[i] EXCEPT !.thought = FALSE]]

ApiBlock(type, text, id) == [type |-> type, text |-> text, id |-> id]
\* What an assistant said, as blocks; a blank text block is refused by the API,
\* and so is a message with no block.
SaidBlocks(m) ==
  LET said == IF m.text # "" THEN <<ApiBlock("text", m.text, "")>>
              ELSE IF m.calls # <<>> \/ m.thought THEN <<>> ELSE <<ApiBlock("text", Marker, "")>>
  IN (IF m.thought THEN <<ApiBlock("thinking", "", "")>> ELSE <<>>)
       \o said \o [i \in DOMAIN m.calls |-> ApiBlock("tool_use", "", m.calls[i])]
Holds(message, type) == message.blocks # <<>> /\ message.blocks[1].type = type

\* The results of one turn go into one user message.
AddMessage(before, m) ==
  IF m.role = "tool"
  THEN LET told == ApiBlock("tool_result", m.text, m.id)
       IN IF before # <<>> /\ Last(before).role = "user" /\ Holds(Last(before), "tool_result")
          THEN Append(Front(before), [Last(before) EXCEPT !.blocks = Append(@, told)])
          ELSE Append(before, [role |-> "user", blocks |-> <<told>>])
  ELSE Append(before, [role |-> IF m.role = "assistant" THEN "assistant" ELSE "user",
                       blocks |-> IF m.role = "assistant" THEN SaidBlocks(m) ELSE <<ApiBlock("text", m.text, "")>>])

\* The first system message goes apart.
anthropicBody(history) ==
  LET systems == {i \in DOMAIN history : history[i].role = "system"}
      first == IF systems = {} THEN 0 ELSE CHOOSE i \in systems : \A j \in systems : i <= j
      added[n \in 0..Len(history)] ==
        IF n = 0 THEN <<>> ELSE IF n = first THEN added[n - 1] ELSE AddMessage(added[n - 1], history[n])
  IN [system |-> IF first = 0 THEN NoText ELSE history[first].text, messages |-> added[Len(history)]]

(* ---- core/normalize.ts ---- *)

NormMessage(role, text, calls) == [role |-> role, text |-> text, calls |-> calls]
normalizeOpenai(body) == [i \in DOMAIN body |-> NormMessage(body[i].role, body[i].text, Len(body[i].calls))]

OfType(blocks, types) == SelectSeq(blocks, LAMBDA b : b.type \in types)
\* The text of the text blocks; here there is at most one.
texts(blocks) == LET said == OfType(blocks, {"text"}) IN IF said = <<>> THEN "" ELSE said[1].text
\* One message for each block of a user's.
normalizeAnthropic(body) ==
  LET read(m) ==
        IF m.role = "assistant"
        THEN <<NormMessage("assistant", texts(m.blocks), Len(OfType(m.blocks, {"tool_use"})))>>
        ELSE LET told == OfType(m.blocks, {"tool_result", "text"})
             IN [i \in DOMAIN told |-> NormMessage(IF told[i].type = "text" THEN m.role ELSE "tool", told[i].text, 0)]
  IN (IF body.system # NoText THEN <<NormMessage("system", body.system, 0)>> ELSE <<>>)
       \o FlattenSeq([i \in DOMAIN body.messages |-> read(body.messages[i])])

(* ---- core/anatomy.ts ---- *)

LAYERS == {"system", "tools", "history", "results"}
Size(text) == IF text = "" THEN 0 ELSE 1
SumOver(f) == FoldFunction(LAMBDA x, y : x + y, 0, f)

layerOf(m) ==
  IF m.role \in {"system", "developer"} THEN "system"
  ELSE IF m.role = "tool" \/ (m.role = "user" /\ m.text = ToolTag) THEN "results"
  ELSE IF m.role \in {"user", "assistant"} THEN "history" ELSE "none"
\* tools: how long the list of tools is.
chars(msgs, tools) ==
  [l \in LAYERS |->
    IF l = "tools" THEN tools
    ELSE SumOver([i \in {j \in DOMAIN msgs : layerOf(msgs[j]) = l} |-> Size(msgs[i].text) + msgs[i].calls])]

round(n, d) == (2 * n + d) \div (2 * d)
\* prompt: the server's count, 0 for none.
anatomy(size, prompt) ==
  LET sum == SumOver([l \in LAYERS |-> size[l]])
      total == IF prompt > 0 THEN prompt ELSE (sum + 3) \div 4
  IN [total |-> total, exact |-> prompt > 0, shown |-> prompt > 0 \/ sum > 0,
      tokens |-> [l \in LAYERS |-> IF sum = 0 THEN 0 ELSE round(total * size[l], sum)]]

\* The response whose count a request gets: the first of its turn before the next
\* request; 0 for none.
usageOf(events, at) ==
  LET ends == {j \in at + 1 .. Len(events) :
                 events[j].type = "llm_request" \/ (events[j].type = "llm_response" /\ events[j].turn = events[at].turn)}
      first == CHOOSE j \in ends : \A k \in ends : j <= k
  IN IF ends = {} \/ events[first].type = "llm_request" THEN 0 ELSE first

(* ---- core/proxy/dialects ---- *)

lastTurn(msgs) ==
  LET said == {i \in DOMAIN msgs : msgs[i].role = "assistant"}
  IN IF said = {} THEN 0 ELSE CHOOSE i \in said : \A j \in said : j <= i
AfterTurn(msgs) == SubSeq(msgs, lastTurn(msgs) + 1, Len(msgs))

FirstOf(msgs, roles) ==
  LET at == {i \in DOMAIN msgs : msgs[i].role \in roles}
  IN IF at = {} THEN 0 ELSE CHOOSE i \in at : \A j \in at : i <= j
\* OpenAI: the first msgs of the system and of the user, whole.
openaiKey(msgs) ==
  [i \in 1..2 |-> LET at == FirstOf(msgs, IF i = 1 THEN {"system", "developer"} ELSE {"user"})
                  IN IF at = 0 THEN <<>> ELSE <<msgs[at]>>]
\* Anthropic: texts only, of the system without its first block where it is a list.
anthropicKey(system, msgs) ==
  LET at == FirstOf(msgs, {"user"})
  IN <<IF system.list THEN Tail(system.texts) ELSE system.texts,
       IF at = 0 THEN <<>> ELSE [i \in DOMAIN OfType(msgs[at].blocks, {"text"}) |-> OfType(msgs[at].blocks, {"text"})[i].text]>>

Seen(call, output) == [call |-> call, output |-> output]
PositionOf(ids, id) == LET at == {i \in DOMAIN ids : ids[i] = id} IN IF at = {} THEN 0 ELSE CHOOSE i \in at : \A j \in at : i <= j
\* calls: the ids the server gave the recorded calls.  By position: the agent
\* may have made up the ids it echoes.
openaiResults(msgs, calls) ==
  IF lastTurn(msgs) = 0 THEN <<>>
  ELSE LET echoed == msgs[lastTurn(msgs)].calls
           told == SelectSeq(AfterTurn(msgs), LAMBDA m : m.role = "tool" /\ PositionOf(echoed, m.id) \in DOMAIN calls)
       IN [i \in DOMAIN told |-> Seen(PositionOf(echoed, told[i].id), told[i].text)]
\* By the id of the block.
anthropicResults(msgs, calls) ==
  IF lastTurn(msgs) = 0 THEN <<>>
  ELSE LET users == SelectSeq(AfterTurn(msgs), LAMBDA m : m.role = "user")
           all == FlattenSeq([i \in DOMAIN users |-> users[i].blocks])
           told == SelectSeq(all, LAMBDA b : b.type = "tool_result" /\ PositionOf(calls, b.id) # 0)
       IN [i \in DOMAIN told |-> Seen(PositionOf(calls, told[i].id), told[i].text)]

(* ---- core/proxy/own.ts, connections.ts ---- *)

Refused(culprit) == [list |-> <<>>, culprit |-> culprit]
Merged(list) == [list |-> list, culprit |-> 0]
Names(conns) == {conns[i].name : i \in DOMAIN conns}

\* The user's own in their order, then the built-ins none of them replaces; of two
\* of one name the second is refused.
mergeOwn(own, builtIn) ==
  LET again == {j \in DOMAIN own : \E i \in 1..(j - 1) : own[i].name = own[j].name}
  IN IF again # {} THEN Refused(CHOOSE j \in again : \A i \in again : j <= i)
     ELSE Merged(own \o SelectSeq(builtIn, LAMBDA b : b.name \notin Names(own)))

hinted(c) == c.hints # {}
\* The hinted ones, then the one fallback; with none or two, an own file is named.
mergeConnections(own, builtIn) ==
  LET merged == mergeOwn(own, builtIn)
      fallbacks == SelectSeq(merged.list, LAMBDA c : ~hinted(c))
      blamed == {i \in DOMAIN own : \/ ~hinted(own[i])
                                    \/ \E b \in ToSet(builtIn) : ~hinted(b) /\ b.name = own[i].name}
  IN IF merged.culprit # 0 THEN merged
     ELSE IF Len(fallbacks) # 1 THEN Refused(CHOOSE i \in blamed : \A j \in blamed : i <= j)
     ELSE Merged(SelectSeq(merged.list, hinted) \o fallbacks)

\* headers: those of the request with a value a hint may have.
pickConnection(conns, headers) ==
  LET some == {i \in DOMAIN conns : conns[i].hints \cap headers # {}}
  IN IF some = {} THEN Len(conns) ELSE CHOOSE i \in some : \A j \in some : i <= j

(* ---- what must hold ---- *)

\* What a loop, or an agent, adds in a turn: a reply with results of its calls, or
\* one with no call and what the user says to it.
Said(text, calls, thought) == Message("assistant", text, calls, "", thought)
Told(role, text, id) == Message(role, text, <<>>, id, FALSE)
Turns ==
  {<<Said(t, calls, thought)>> \o [i \in DOMAIN calls |-> Told("tool", "out", calls[i])] :
     t \in {"", "a"}, calls \in {<<"i1">>, <<"i1", "i2">>}, thought \in BOOLEAN}
  \cup {<<Said(t, <<>>, FALSE), Told("user", u, "")>> : t \in {"", "a"}, u \in {"hint", ToolTag}}
Openers(task) == <<Told("system", "sys", ""), Told("user", task, "")>>
SentHistories ==
  {Openers("task") \o FlattenSeq(ts) : ts \in UNION {[1..n -> Turns] : n \in 0..MaxHistory}}

\* In an Anthropic request the results of a turn are one message right after its
\* calls, the two sides take turns, and no message is empty: each of them would be
\* a 400 (anthropic.ts:129, 136).
ResultsTogether ==
  \A history \in SentHistories :
    LET msgs == anthropicBody(history).messages
        ids(i, type) == LET of == OfType(msgs[i].blocks, {type}) IN [k \in DOMAIN of |-> of[k].id]
    IN /\ \A i \in DOMAIN msgs : msgs[i].role = IF i % 2 = 1 THEN "user" ELSE "assistant"
       /\ \A i \in DOMAIN msgs : msgs[i].blocks # <<>>
       /\ \A i \in DOMAIN msgs :
            ids(i, "tool_use") # <<>> => i < Len(msgs) /\ ids(i + 1, "tool_result") = ids(i, "tool_use")
       /\ \A i \in DOMAIN msgs :
            ids(i, "tool_result") # <<>> => i > 1 /\ ids(i - 1, "tool_use") = ids(i, "tool_result")

\* Read back from either format, a history is the same msgs at the same index,
\* the marker of an empty reply apart, and weighs the same in each layer
\* (normalize.ts:3-7, anatomy.ts:5-8).
IndexMeansSame ==
  \A history \in SentHistories :
    LET a == normalizeOpenai(openaiBody(history))
        b == normalizeAnthropic(anthropicBody(history))
        unmarked == [i \in DOMAIN b |-> IF b[i].text = Marker THEN [b[i] EXCEPT !.text = ""] ELSE b[i]]
    IN a = unmarked /\ chars(a, 1) = chars(unmarked, 1)

\* What is shown of the layers is the whole prompt but for what rounding moves, and
\* one response's count goes to one request, whatever requests overlap
\* (anatomy.ts:45-49, 57-70).
PromptAddsUp ==
  /\ \A size \in [LAYERS -> {0, 1, 2, 7}], prompt \in {0, 1, 5, 12} :
       LET a == anatomy(size, prompt)
           sum == SumOver([l \in LAYERS |-> a.tokens[l]])
       IN SumOver([l \in LAYERS |-> size[l]]) > 0 => sum - a.total \in -2..2
  /\ \A events \in [1..5 -> [type : {"llm_request", "llm_response"}, turn : 1..2]] :
       \A i, j \in {k \in DOMAIN events : events[k].type = "llm_request"} :
         usageOf(events, i) # 0 /\ usageOf(events, i) = usageOf(events, j) => i = j

\* The results an agent sends, in any order and any of them, go to the calls they
\* are of, whatever ids were used before in the run; OpenAI's also where the server
\* gave no ids; and all requests of a run, which grow, have one key, which another
\* task does not have (openai-chat.ts:11-36, dialects/anthropic.ts:18-41).
ResultsMatched ==
  \A history \in SentHistories, order \in {<<>>, <<1>>, <<2>>, <<1, 2>>, <<2, 1>>} :
    LET ids == <<"i1", "i2">>
        outs == <<"r1", "r2">>
        now == history \o <<Said("a", ids, FALSE)>> \o [k \in DOMAIN order |-> Told("tool", outs[order[k]], ids[order[k]])]
        due == [k \in DOMAIN order |-> Seen(order[k], outs[order[k]])]
        system(stamp) == [list |-> TRUE, texts |-> <<stamp, "sys">>]
        other == Openers("other task")
    IN /\ openaiResults(openaiBody(now), <<NoText, NoText>>) = due
       /\ anthropicResults(anthropicBody(now).messages, ids) = due
       /\ Len(now) > Len(history) /\ openaiKey(now) = openaiKey(history)
       /\ anthropicKey(system("v2"), anthropicBody(now).messages) = anthropicKey(system("v1"), anthropicBody(history).messages)
       /\ openaiKey(now) # openaiKey(other)
       /\ anthropicKey(system("v1"), anthropicBody(now).messages) # anthropicKey(system("v1"), anthropicBody(other).messages)

Conn(name, hints) == [name |-> name, hints |-> hints]
BuiltIn == <<Conn("agent", {"x"}), Conn("generic", {})>>
OwnFiles == UNION {[1..n -> [name : {"agent", "generic", "mine"}, hints : SUBSET {"x", "y"}]] : n \in 0..2}

\* Connections that were merged have one fallback, the last, so that every request
\* has a sender; each own file is one of them and goes before a built-in that the
\* same headers name; and a merge refused names an own file (own.ts:107-138).
SenderIsKnown ==
  \A own \in OwnFiles :
    LET m == mergeConnections(own, BuiltIn)
        at(c) == PositionOf(m.list, c)
    IN IF m.culprit # 0 THEN m.culprit \in DOMAIN own
       ELSE /\ \A i \in DOMAIN m.list : hinted(m.list[i]) <=> i < Len(m.list)
            /\ Cardinality(Names(m.list)) = Len(m.list) /\ ToSet(own) \subseteq ToSet(m.list)
            /\ \A headers \in SUBSET {"x", "y"}, i \in DOMAIN own :
                 own[i].hints \cap headers # {} => pickConnection(m.list, headers) <= at(own[i])
=============================================================================
