------------------------------ MODULE Adapters ------------------------------
(****************************************************************************)
(* How a reply is read.  First what the adapters of core/backends make of a *)
(* stream: the line reader of types.ts, the folds `collect` (OpenAI) and    *)
(* `collectAnthropic`, and their readers of a whole body.  Then the tool    *)
(* calls read out of a model's text: core/parse.ts, for the prompted mode   *)
(* and the Hermes format, and parseProposal of core/evolve.ts.              *)
(*                                                                          *)
(* Pure readers of what a server sent, so operators, checked over every cut *)
(* of small bodies and texts.  A body is a sequence of bytes: "a" stands    *)
(* for itself, "lf" ends a line, and "h" then "t" are the two bytes of one  *)
(* character.  A piece of text or of arguments is a value, and what an      *)
(* adapter hands on is the sequence of pieces.  For the parser a text is a  *)
(* sequence of tokens: the tags, a fence, prose, an open brace that no      *)
(* brace closes, and whole JSON objects, which are a call or not.           *)
(****************************************************************************)
EXTENDS Integers, Sequences, FiniteSets
LOCAL INSTANCE SequencesExt

CONSTANTS
  MaxBytes,      \* bound: bytes of a body
  CallObjects,   \* JSON objects of the shape a reply should have
  MaxAnswer      \* bound: tokens of an answer, and of what is thought before it

(* ---- types.ts: lines of a body ---- *)

\* A byte of a character whose other byte is missing decodes to "?".
decode(bytes) ==
  [i \in DOMAIN bytes |->
    IF \/ bytes[i] = "h" /\ (i = Len(bytes) \/ bytes[i + 1] # "t")
       \/ bytes[i] = "t" /\ (i = 1 \/ bytes[i - 1] # "h")
    THEN "?" ELSE bytes[i]]

\* The bytes that may still become a character wait for the next chunk.
Held(bytes) == IF bytes # <<>> /\ Last(bytes) = "h" THEN <<"h">> ELSE <<>>
Cut(bytes) == SubSeq(bytes, 1, Len(bytes) - Len(Held(bytes)))

Breaks(text) == {i \in DOMAIN text : text[i] = "lf"}
\* The n-th piece of a text between line breaks.
Piece(text, n) ==
  LET after(k) == IF k = 0 THEN 0 ELSE CHOOSE i \in Breaks(text) : Cardinality({j \in Breaks(text) : j <= i}) = k
      to == IF n > Cardinality(Breaks(text)) THEN Len(text) ELSE after(n) - 1
  IN SubSeq(text, after(n - 1) + 1, to)

\* One network chunk: whole lines go out, the rest stays in buf.
Take(st, chunk) ==
  LET bytes == st.held \o chunk
      buf == st.buf \o decode(Cut(bytes))
      n == Cardinality(Breaks(buf))
  IN [held |-> Held(bytes), buf |-> Piece(buf, n + 1), out |-> st.out \o [i \in 1..n |-> Piece(buf, i)]]

lines(chunks) ==
  LET end == FoldLeft(Take, [held |-> <<>>, buf |-> <<>>, out |-> <<>>], chunks)
      rest == end.buf \o decode(end.held)
  IN IF rest = <<>> THEN end.out ELSE Append(end.out, rest)

\* A line is an event, or [skip] (blank, a comment, not JSON), "[DONE]", an error.
jsonChunks(read) ==
  LET stops == {i \in DOMAIN read : read[i].kind \in {"done", "error"}}
      end == IF stops = {} THEN Len(read) + 1 ELSE CHOOSE i \in stops : \A j \in stops : i <= j
      events == SelectSeq(SubSeq(read, 1, end - 1), LAMBDA l : l.kind = "event")
  IN [events |-> [i \in DOMAIN events |-> events[i].chunk],
      thrown |-> IF end <= Len(read) /\ read[end].kind = "error" THEN "error"
                 ELSE IF events = <<>> THEN "not a stream" ELSE "none"]

(* ---- openai.ts ---- *)

NoPiece == ""
EmptySlot == [id |-> NoPiece, name |-> NoPiece, args |-> <<>>]
MaxSlot == 127

\* One tool_calls entry of a chunk, into the slot its index picks.
AddCall(slots, tc) ==
  LET i == IF tc.index \in 0..MaxSlot THEN tc.index ELSE 0
      t == IF i \in DOMAIN slots THEN slots[i] ELSE EmptySlot
  IN [j \in DOMAIN slots \cup {i} |->
       IF j # i THEN slots[j]
       ELSE [id |-> IF tc.id # NoPiece THEN tc.id ELSE t.id,
             name |-> IF tc.name # NoPiece THEN tc.name ELSE t.name,
             args |-> IF tc.args # NoPiece THEN Append(t.args, tc.args) ELSE t.args]]

AddChunk(st, c) ==
  [content |-> IF c.content # NoPiece THEN Append(st.content, c.content) ELSE st.content,
   calls |-> FoldLeft(AddCall, st.calls, c.calls),
   finish |-> IF c.finish # NoPiece THEN c.finish ELSE st.finish]

\* What was begun is JSON, and an object, when its last brace closes the first.
Depth(args, n) ==
  Cardinality({i \in 1..n : args[i] = "{"}) - Cardinality({i \in 1..n : args[i] = "}"})
IsObject(args) ==
  /\ args # <<>> /\ args[1] = "{"
  /\ \A n \in 1..Len(args) : Depth(args, n) = 0 <=> n = Len(args)
\* Arguments that are no JSON object are an error of the call, which is not run.
parseCalls(calls) ==
  [i \in DOMAIN calls |->
    [id |-> calls[i].id, name |-> calls[i].name, args |-> calls[i].args, argsError |-> ~IsObject(calls[i].args)]]

\* A chunk whose finish_reason is "error" is thrown, and so is a body that is an
\* error alone; what was read by then is not used.
streamFailed(finishes) == IF "error" \in finishes THEN "error" ELSE "none"

\* Slots may start above 0 and leave holes; the calls go by their slot.  That a
\* finish reason came is not asked.
collect(chunks) ==
  LET end == FoldLeft(AddChunk, [content |-> <<>>, calls |-> [i \in {} |-> EmptySlot], finish |-> NoPiece], chunks)
  IN [content |-> end.content,
      calls |-> parseCalls([n \in 1..Cardinality(DOMAIN end.calls) |->
                  end.calls[CHOOSE i \in DOMAIN end.calls : Cardinality({j \in DOMAIN end.calls : j <= i}) = n]]),
      truncated |-> end.finish = "length",
      thrown |-> streamFailed({chunks[i].finish : i \in DOMAIN chunks})]

fromJson(m) ==
  [content |-> m.content, calls |-> parseCalls(m.calls), truncated |-> m.finish = "length",
   thrown |-> streamFailed({m.kind, m.finish})]

(* ---- anthropic.ts ---- *)

\* A delta goes to the block its index names, if that block was started.
AddEvent(st, c) ==
  CASE c.index \notin 0..MaxSlot /\ c.type \in {"start", "delta"} -> st
    [] c.type = "start" /\ c.index \in 0..MaxSlot ->
         [st EXCEPT !.blocks = [j \in DOMAIN @ \cup {c.index} |-> IF j = c.index THEN c.block ELSE @[j]]]
    [] c.type = "delta" /\ c.index \in DOMAIN st.blocks ->
         [st EXCEPT !.blocks[c.index].text = Append(@, c.piece),
                    !.content = IF st.blocks[c.index].kind = "text" THEN Append(@, c.piece) ELSE @]
    [] c.type = "message_delta" -> [st EXCEPT !.stop = c.piece]
    [] c.type = "message_stop" -> [st EXCEPT !.done = TRUE]
    [] OTHER -> st

\* The blocks that go back verbatim: an empty text is left out.
collectAnthropic(events) ==
  LET end == FoldLeft(AddEvent, [blocks |-> [i \in {} |-> 0], content |-> <<>>, stop |-> NoPiece, done |-> FALSE], events)
      held == {i \in DOMAIN end.blocks : ~(end.blocks[i].kind = "text" /\ end.blocks[i].text = <<>>)}
      native == [n \in 1..Cardinality(held) |->
                  end.blocks[CHOOSE i \in held : Cardinality({j \in held : j <= i}) = n]]
  IN [content |-> end.content, native |-> native,
      calls |-> SelectSeq(native, LAMBDA b : b.kind = "tool_use"),
      truncated |-> end.stop = "max_tokens",
      thrown |-> IF ~end.done THEN "ended" ELSE IF end.stop = "refusal" THEN "refused" ELSE "none"]

Event(type, index, block, piece) == [type |-> type, index |-> index, block |-> block, piece |-> piece]
Started(b) == [b EXCEPT !.text = <<>>]

\* A whole body, read as the events of a stream: a start and one delta a block.
fromAnthropicJson(m) ==
  LET ofBlock(i) == <<Event("start", i - 1, Started(m.blocks[i]), NoPiece)>>
                      \o [k \in DOMAIN m.blocks[i].text |-> Event("delta", i - 1, EmptySlot, m.blocks[i].text[k])]
  IN collectAnthropic(FlattenSeq([i \in DOMAIN m.blocks |-> ofBlock(i)])
                        \o <<Event("message_delta", 0, EmptySlot, m.stop), Event("message_stop", 0, EmptySlot, NoPiece)>>)

(* ---- of streams: what must hold ---- *)

Bodies == UNION {[1..n -> {"a", "lf", "h", "t"}] : n \in 0..MaxBytes}
\* Every way the network may cut a body: the cuts are places between bytes.
Cuts(body) ==
  LET places(S) == S \cup {0, Len(body)}
      chunk(S, n) == LET ends == places(S)
                         at(k) == CHOOSE i \in ends : Cardinality({j \in ends : j <= i}) = k
                     IN SubSeq(body, at(n) + 1, at(n + 1))
  IN {[n \in 1..(Cardinality(places(S)) - 1) |-> chunk(S, n)] : S \in SUBSET (1..(Len(body) - 1))}

\* The lines read are those of the whole body, however the network cut it, a
\* character's bytes included (types.ts:168-178).
LinesWhole ==
  \A body \in Bodies : \A chunks \in Cuts(body) :
    LET text == decode(body)
        all == [n \in 1..(Cardinality(Breaks(text)) + 1) |-> Piece(text, n)]
    IN lines(chunks) = IF Last(all) = <<>> THEN Front(all) ELSE all

\* Orders in which the deltas of several parts of one reply may arrive, each
\* part's own in order: sizes[p] of part p.
Orders(sizes) ==
  LET total == FoldLeft(LAMBDA x, y : x + y, 0, sizes)
  IN {f \in [1..total -> DOMAIN sizes] : \A p \in DOMAIN sizes : Cardinality({k \in 1..total : f[k] = p}) = sizes[p]}
Nth(f, k) == Cardinality({j \in 1..k : f[j] = f[k]})

TwoCalls == <<[id |-> "i1", name |-> "n1", args |-> <<"{", "x", "}">>],
              [id |-> "i2", name |-> "n2", args |-> <<"{", "}">>]>>
\* The chunks of a reply of two pieces of text and two calls: a text first, then
\* the deltas in an order, the slots from some number on.
TextChunk(piece) == [content |-> piece, calls |-> <<>>, finish |-> NoPiece]
Streamed(f, first) ==
  <<TextChunk("p")>> \o [k \in DOMAIN f |->
    LET n == Nth(f, k)
        c == TwoCalls[f[k] - 1]
    IN IF f[k] = 1 THEN TextChunk("q")
       ELSE [content |-> NoPiece, finish |-> NoPiece,
             calls |-> <<[index |-> first + f[k] - 2, id |-> IF n = 1 THEN c.id ELSE NoPiece,
                          name |-> IF n = 1 THEN c.name ELSE NoPiece,
                          args |-> IF n = 1 THEN NoPiece ELSE c.args[n - 1]]>>]]
DeltaOrders == Orders(<<1, 4, 3>>)

\* A reply is the same whether it was streamed, its deltas in any order the parts
\* allow, blanks between them and its slots starting anywhere, or sent whole; and
\* no error, as a line, as a finish reason or as the whole body, passes for its
\* end (types.ts:168-193, openai.ts:26-66; the proxy reads recorded replies with
\* the same folds).
StreamIsWhole ==
  \A f \in DeltaOrders, first \in {0, 3} :
    LET finish == IF first = 0 THEN "error" ELSE "length"
        last == [content |-> NoPiece, calls |-> <<>>, finish |-> finish]
        chunks == Streamed(f, first)
        lineOf(c) == [kind |-> "event", chunk |-> c]
        other(kind) == [kind |-> kind, chunk |-> 0]
        whole(kind) == [kind |-> kind, content |-> <<"p", "q">>, calls |-> TwoCalls, finish |-> finish]
        sent == FlattenSeq([k \in DOMAIN chunks |-> <<lineOf(chunks[k]), other("skip")>>]) \o <<lineOf(last)>>
        got == jsonChunks(sent \o <<other("done"), lineOf(last)>>)
        reply == collect(got.events)
    IN /\ got.thrown = "none" /\ reply = fromJson(whole("event"))
       /\ (reply.thrown = "error") = (finish = "error") /\ fromJson(whole("error")).thrown = "error"
       /\ jsonChunks(sent \o <<other("error"), other("done")>>).thrown = "error"

\* Of a stream that ends too early each call is the one the model made or an
\* error, never one with a part of its arguments (openai.ts:6-13, 55); that the
\* call is one of fewer is not seen.
HalfCallFails ==
  \A f \in DeltaOrders :
    LET chunks == Streamed(f, 0)
    IN \A n \in DOMAIN chunks :
         \A call \in ToSet(collect(SubSeq(chunks, 1, n)).calls) :
           call.argsError \/ call \in ToSet(parseCalls(TwoCalls))

Block(kind, text) == [kind |-> kind, text |-> text]
ThreeBlocks == {<<Block("thinking", <<"r">>), Block("text", t), Block("tool_use", <<"x", "y">>)>> : t \in {<<>>, <<"p">>}}

\* An Anthropic reply is the same blocks streamed, in any order the blocks allow,
\* or whole, none of them a blank text; and a stream that does not say it ended is
\* no reply (anthropic.ts:13-55, 57-75).
BlocksAreWhole ==
  \A blocks \in ThreeBlocks, ends \in BOOLEAN :
    \A f \in Orders([i \in 1..3 |-> 1 + Len(blocks[i].text)]) :
      LET event(k) == IF Nth(f, k) = 1 THEN Event("start", f[k] - 1, Started(blocks[f[k]]), NoPiece)
                      ELSE Event("delta", f[k] - 1, EmptySlot, blocks[f[k]].text[Nth(f, k) - 1])
          stop == <<Event("message_delta", 0, EmptySlot, "tool_use")>>
                    \o IF ends THEN <<Event("message_stop", 0, EmptySlot, NoPiece)>> ELSE <<>>
          got == collectAnthropic([k \in DOMAIN f |-> event(k)] \o stop)
      IN IF ends THEN got = fromAnthropicJson([blocks |-> blocks, stop |-> "tool_use"])
                      /\ \A i \in DOMAIN got.native : got.native[i].kind = "text" => got.native[i].text # <<>>
         ELSE got.thrown = "ended"

(* ---- parse.ts ---- *)

\* Tokens that are not call objects.
Opens == "<think>"
Closes == "</think>"
Fence == "fence"
Word == "word"
Brace == "{"
OtherObject == "{}"
CallOpens == "<tool_call>"
CallCloses == "</tool_call>"
Objects == CallObjects \cup {OtherObject}

NotFound == 0
From(text, token, at) == SelectInSubSeq(text, at, Len(text), LAMBDA t : t = token)

\* Where what was opened at "open" is closed.
CloseOf(text, open, closes) == IF open = NotFound THEN NotFound ELSE From(text, closes, open + 1)
\* The first closed block from a place on: where it opens and closes, or nothing.
Span(text, opens, closes, at) ==
  LET o == From(text, opens, at) IN <<o, CloseOf(text, o, closes)>>
\* A text without its closed blocks.
Unblocked(text, opens, closes) ==
  LET kept[at \in 1..(Len(text) + 1)] ==
        LET b == Span(text, opens, closes, at)
        IN IF b[2] = NotFound THEN SubSeq(text, at, Len(text)) ELSE SubSeq(text, at, b[1] - 1) \o kept[b[2] + 1]
  IN kept[1]
\* Closed blocks go, then all up to a closing tag that nothing opened.
AfterClose(kept) == SubSeq(kept, From(kept, Closes, 1) + 1, Len(kept))
stripThink(text) == AfterClose(Unblocked(text, Opens, Closes))

\* JSON.parse: a text that is one object and nothing else, or nothing.
tryParse(text) == IF Len(text) = 1 /\ text[1] \in Objects THEN text ELSE <<>>

Fenced(text, block) ==
  IF block[2] = NotFound THEN <<>> ELSE <<tryParse(SubSeq(text, block[1] + 1, block[2] - 1))>>
Braced(text, first, last) ==
  IF first = NotFound \/ last < first THEN <<>> ELSE <<tryParse(SubSeq(text, first, last))>>
CandidatesIn(text) ==
  <<tryParse(text)>> \o Fenced(text, Span(text, Fence, Fence, 1))
    \o Braced(text, SelectInSeq(text, LAMBDA t : t \in Objects \cup {Brace}),
                    SelectLastInSeq(text, LAMBDA t : t \in Objects))
jsonCandidates(raw) == CandidatesIn(stripThink(raw))

NotOk == [ok |-> FALSE, calls |-> <<>>, final |-> FALSE]

\* The first candidate that is a call object; an edit is found the same way.
FirstCall(found) == IF found = <<>> THEN NotOk ELSE [ok |-> TRUE, calls |-> found[1], final |-> FALSE]
parsePrompted(text) == FirstCall(SelectSeq(jsonCandidates(text), LAMBDA v : v # <<>> /\ v[1] \in CallObjects))
parseProposal(text) == parsePrompted(text)

\* Every <tool_call> block is a call; a text without one is the final answer.
CallTexts(text) ==
  LET blocks[at \in 1..(Len(text) + 1)] ==
        LET b == Span(text, CallOpens, CallCloses, at)
        IN IF b[2] = NotFound THEN <<>> ELSE <<SubSeq(text, b[1] + 1, b[2] - 1)>> \o blocks[b[2] + 1]
  IN blocks[1]
HermesOf(raw, bodies, rest) ==
  CASE Contains(raw, Opens) /\ ~Contains(raw, Closes) -> NotOk
    [] \E i \in DOMAIN bodies : tryParse(bodies[i]) = <<>> \/ bodies[i][1] \notin CallObjects -> NotOk
    [] Contains(rest, CallOpens) -> NotOk
    [] bodies # <<>> -> [ok |-> TRUE, calls |-> FlattenSeq(bodies), final |-> FALSE]
    [] OTHER -> [ok |-> rest # <<>>, calls |-> <<>>, final |-> rest # <<>>]
HermesIn(raw, text) == HermesOf(raw, CallTexts(text), Unblocked(text, CallOpens, CallCloses))
parseHermes(raw) == HermesIn(raw, stripThink(raw))

(* ---- of texts: what must hold ---- *)

TextsOf(tokens) == UNION {[1..n -> tokens] : n \in 0..MaxAnswer}
\* What a reasoning model writes before its answer: nothing, a block, or, when
\* the template opened the block in the prompt, the rest of one.
Thoughts(tokens) ==
  {<<>>} \cup {<<Opens>> \o t \o <<Closes>> : t \in TextsOf(tokens)} \cup {t \o <<Closes>> : t \in TextsOf(tokens)}

\* What was thought decides nothing: a reply is read as its answer alone, and an
\* answer with one object in it, a call, is that call wherever it stands
\* (parse.ts:11-16, 18).
ThoughtIsDropped ==
  LET said == TextsOf({Fence, Word, Brace, OtherObject} \cup CallObjects)
      hermes == TextsOf({CallOpens, CallCloses, Word} \cup CallObjects)
  IN /\ \A t \in Thoughts({Word} \cup CallObjects), a \in said : parsePrompted(t \o a) = parsePrompted(a)
     /\ \A t \in Thoughts({Word, CallOpens, CallCloses} \cup CallObjects), a \in hermes : parseHermes(t \o a) = parseHermes(a)
     /\ \A a \in said :
          LET objects == {i \in DOMAIN a : a[i] \in Objects}
          IN Cardinality(objects) = 1 /\ ~Contains(a, Brace) =>
               LET i == CHOOSE i \in objects : TRUE
               IN parsePrompted(a) = IF a[i] \in CallObjects THEN [ok |-> TRUE, calls |-> <<a[i]>>, final |-> FALSE] ELSE NotOk

\* A Hermes reply cut off anywhere runs none but its own first calls, and is no
\* answer while a thought or a call is open (parse.ts:54, 66).  It is of Hermes
\* alone: parsePrompted has no such check, and a call in a thought that is cut
\* before its end is read as the answer (parse.ts:19-44).
CutRunsNoMore ==
  LET part == {<<Word>>} \cup {<<CallOpens, c, CallCloses>> : c \in CallObjects}
      answers == {FlattenSeq(s) : s \in UNION {[1..n -> part] : n \in 1..MaxAnswer}}
      thoughts == {<<>>} \cup {<<Opens>> \o t \o <<Closes>> : t \in TextsOf({Word} \cup CallObjects)}
      open(text, o, c) == \E i \in DOMAIN text : text[i] = o /\ From(text, c, i) = NotFound
  IN \A t \in thoughts, a \in answers : \A n \in 0..Len(t \o a) :
       LET cut == SubSeq(t \o a, 1, n)
           got == parseHermes(cut)
       IN /\ got.ok => IsPrefix(got.calls, parseHermes(t \o a).calls)
          /\ open(cut, Opens, Closes) \/ open(cut, CallOpens, CallCloses) => ~got.ok
=============================================================================
