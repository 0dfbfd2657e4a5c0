------------------------------- MODULE Sources -------------------------------
(****************************************************************************)
(* Where each part of a recorded request came from, and what stably differs *)
(* between two groups of runs (core/sources.ts).                            *)
(*                                                                          *)
(* A text is a sequence of tokens: the marks sources.ts looks for, each a   *)
(* line or a tag, and "x" for all else.  A part is [kind, label, text].     *)
(****************************************************************************)
EXTENDS Integers, Sequences, SequencesExt, FiniteSets, Functions

CONSTANT MaxTokens   \* of the texts below, after their first

(* ---- one text ---- *)

\* The place of the first or the last such token in from..to, or 0.
First(t, token, from, to) ==
  LET at == {i \in from..to : t[i] = token} IN IF at = {} THEN 0 ELSE CHOOSE i \in at : \A j \in at : i <= j
Latest(t, token, from, to) ==
  LET at == {i \in from..to : t[i] = token} IN IF at = {} THEN 0 ELSE CHOOSE i \in at : \A j \in at : j <= i
Part(kind, label, text) == [kind |-> kind, label |-> label, text |-> text]
\* The tokens from i up to, and without, j.
Slice(t, i, j) == SubSeq(t, i, j - 1)

\* A reminder: each file it quotes runs to the next one, or to the last closing tag.
reminder(t) ==
  LET close == Latest(t, "</reminder>", 1, Len(t))
      end == IF close = 0 THEN Len(t) + 1 ELSE close
      cuts == SelectSeq([i \in 1 .. end - 1 |-> i], LAMBDA i : t[i] = "Contents of")
      to(k) == IF k < Len(cuts) THEN cuts[k + 1] ELSE end
  IN IF cuts = <<>> THEN <<Part("harness", "reminder", t)>>
     ELSE <<Part("harness", "reminder", Slice(t, 1, cuts[1]))>>
            \o [k \in DOMAIN cuts |-> Part("file", "file", Slice(t, cuts[k], to(k)))]
            \o <<Part("harness", "reminder", Slice(t, end, Len(t) + 1))>>

MarkOf(label) ==
  CASE label = "environment" -> "# Environment" [] label = "MCP" -> "# MCP" [] label = "skills list" -> "Skills"
\* What follows a hook's output: up to three named sections, each to the next
\* one's mark, the skills list only to the end of its last item.
attachments(t) ==
  LET at(label) == First(t, MarkOf(label), 1, Len(t))
      marks == SetToSortSeq({l \in {"environment", "MCP", "skills list"} : at(l) > 0}, LAMBDA l, m : at(l) < at(m))
      upTo(k) == IF k < Len(marks) THEN at(marks[k + 1]) ELSE Len(t) + 1
      item(k) == Latest(t, "- ", at(marks[k]) + 1, upTo(k) - 1)
      end[k \in 0 .. Len(marks)] ==
        IF k = 0 THEN 1 ELSE IF marks[k] = "skills list" /\ item(k) > 0 THEN item(k) + 1 ELSE upTo(k)
  IN FlattenSeq([k \in DOMAIN marks |->
                   <<Part("harness", "reminder", Slice(t, end[k - 1], at(marks[k]))),
                     Part("harness", marks[k], Slice(t, at(marks[k]), end[k]))>>])
       \o <<Part("harness", "reminder", Slice(t, end[Len(marks)], Len(t) + 1))>>

\* A hook's output: the skill it inlines, the rest of its own block, what follows.
hook(t) ==
  LET open == First(t, "<important>", 1, Len(t))
      end == IF open = 0 THEN 0 ELSE First(t, "</important>", open, Len(t))
      skill == IF end = 0 THEN 0 ELSE First(t, "skill '", open, end)
      quote == IF skill = 0 THEN 0 ELSE First(t, "'", skill + 1, end)
  IN IF end = 0 THEN <<Part("harness", "hook", t)>>
     ELSE <<Part("harness", "hook", Slice(t, 1, open))>>
            \o (IF quote = 0 THEN <<Part("hook", "hook", Slice(t, open, end + 1))>>
                ELSE <<Part("hook", "hook", Slice(t, open, skill)), Part("skill", "skill", Slice(t, skill, end)),
                       Part("hook", "hook", Slice(t, end, end + 1))>>)
            \o attachments(Slice(t, end + 1, Len(t) + 1))

Tags == {"<reminder>", "</reminder>", "<important>", "</important>", "<tag>"}
Wrapped == Tags \cup {"SessionStart hook", "# Environment"}
Begins(t, tokens) == t # <<>> /\ t[1] \in tokens
\* A text the harness wrapped, by its first token.
tagged(t) ==
  CASE t[1] = "<reminder>" -> reminder(t)
    [] t[1] = "SessionStart hook" -> hook(t)
    [] t[1] = "# Environment" -> attachments(t)
    [] OTHER -> <<Part("harness", "reminder", t)>>

(* ---- one request ---- *)

\* A text block's parts; `skill` is the one a result of this message told.
TextParts(m, skill, t) ==
  IF skill # "" /\ ~Begins(t, {"<reminder>"}) THEN <<Part("skill", skill, t)>>
  ELSE IF Begins(t, Wrapped) THEN tagged(t)
  ELSE IF m.role # "user" THEN <<Part("harness", "system prompt", t)>>
  ELSE IF \E i \in DOMAIN m.blocks : m.blocks[i].type = "tool_result" THEN <<Part("history", "history", t)>>
  ELSE <<Part("you", "you", t)>>

\* The label of a result: of a Skill call that succeeded, the skill's.  `calls`
\* has the skill of each call so far, "" for any other tool's.
ResultPart(calls, b) ==
  IF b.id \notin DOMAIN calls THEN Part("history", "history", b.text)
  ELSE IF calls[b.id] = "" \/ b.err THEN Part("history", "result", b.text)
  ELSE Part("skill", calls[b.id], b.text)

PartsOf(m, st, b) ==
  CASE m.role = "assistant" -> <<Part("history", "history", b.text)>>
    [] m.role # "assistant" /\ b.type = "tool_result" -> <<ResultPart(st.calls, b)>>
    [] m.role # "assistant" /\ b.type = "image" -> <<Part("history", "history", b.text)>>
    [] OTHER -> TextParts(m, st.skill, b.text)
\* The skill a result told goes with the next text of its message that is no reminder.
SkillNow(m, st, b) ==
  IF m.role = "assistant" THEN st.skill
  ELSE IF b.type = "tool_result"
  THEN IF ResultPart(st.calls, b).kind = "skill" THEN ResultPart(st.calls, b).label ELSE st.skill
  ELSE IF b.type = "text" /\ ~Begins(b.text, {"<reminder>"}) THEN "" ELSE st.skill
AddBlock(m, st, b) ==
  [out |-> st.out \o PartsOf(m, st, b), skill |-> SkillNow(m, st, b),
   calls |-> IF b.type # "tool_use" THEN st.calls
             ELSE [id \in DOMAIN st.calls \cup {b.id} |-> IF id = b.id THEN b.skill ELSE st.calls[id]]]

AddMessage(st, m) ==
  LET upTo[n \in 0 .. Len(m.blocks)] ==
        IF n = 0 THEN [st EXCEPT !.skill = ""] ELSE AddBlock(m, upTo[n - 1], m.blocks[n])
  IN upTo[Len(m.blocks)]

\* The parts of all messages, the system's first, an empty one left out.
requestSources(msgs) ==
  LET after[n \in 0 .. Len(msgs)] ==
        IF n = 0 THEN [out |-> <<>>, calls |-> [id \in {} |-> ""], skill |-> ""] ELSE AddMessage(after[n - 1], msgs[n])
  IN SelectSeq(after[Len(msgs)].out, LAMBDA p : p.text # <<>>)

\* A line's label, if all the parts it is in have the same.
lineLabels(parts) ==
  LET of(l) == {parts[i].label : i \in {j \in DOMAIN parts : l \in ToSet(parts[j].text)}}
  IN [l \in UNION {ToSet(parts[i].text) : i \in DOMAIN parts} |->
       IF Cardinality(of(l)) = 1 THEN CHOOSE x \in of(l) : TRUE ELSE ""]

(* ---- groups of runs ---- *)

\* A payload is an object of its own, [id, readable, parts, tools, params].  What
\* is remembered of a run: how many payloads are folded, the last of them, its
\* lines with their labels, the parameters of the first readable one.
NoRun == [n |-> 0, last |-> 0, lines |-> [l \in {} |-> ""], params |-> <<>>]
fold(acc, p) ==
  LET labels == lineLabels(p.parts)
      new == (DOMAIN labels \cup p.tools) \ DOMAIN acc.lines
  IN IF ~p.readable THEN acc
     ELSE [acc EXCEPT !.lines = [l \in DOMAIN @ \cup new |->
                                   IF l \in DOMAIN acc.lines THEN acc.lines[l]
                                   ELSE IF l \in DOMAIN labels THEN labels[l] ELSE ""],
                      !.params = IF @ = <<>> THEN <<p.params>> ELSE @]

\* Mutant: what is remembered of a run is gone on with whatever has come since.
StartOverNever(acc, payloads) == FALSE
\* A run only grows; anything else is another run with the same beginning.
StartOver(acc, payloads) == acc.n > Len(payloads) \/ (acc.n > 0 /\ payloads[acc.n] # acc.last)

\* `cache` is per first payload.
runLines(cache, payloads) ==
  LET key == payloads[1]
      had == IF key \in DOMAIN cache /\ ~StartOver(cache[key], payloads) THEN cache[key] ELSE NoRun
      upTo[n \in had.n .. Len(payloads)] == IF n = had.n THEN had ELSE fold(upTo[n - 1], payloads[n])
      acc == [(IF had.n >= Len(payloads) THEN had ELSE upTo[Len(payloads)]) EXCEPT !.n = Len(payloads), !.last = Last(payloads)]
  IN [k \in DOMAIN cache \cup {key} |-> IF k = key THEN acc ELSE cache[k]]

\* Of two groups of runs' lines: what each run of the one has and none of the
\* other; and the parameters each agrees on, with different values.
groupDiff(x, y) ==
  LET only(side, other) ==
        {l \in DOMAIN side[1].lines : /\ \A i \in DOMAIN side : l \in DOMAIN side[i].lines
                                      /\ \A i \in DOMAIN other : l \notin DOMAIN other[i].lines}
      agreed(side) == {i \in DOMAIN side : \A j \in DOMAIN side : side[i].params = side[j].params} = DOMAIN side
      readable(side) == \E i \in DOMAIN side : side[i].params # <<>>
  IN IF ~readable(x) \/ ~readable(y) THEN [onlyA |-> {}, onlyB |-> {}, params |-> {}]
     ELSE [onlyA |-> only(x, y), onlyB |-> only(y, x),
           params |-> IF agreed(x) /\ agreed(y) /\ x[1].params # y[1].params THEN {<<x[1].params, y[1].params>>} ELSE {}]

(* ---- what must hold ---- *)

Texts(begin, tokens) == {<<begin>> \o t : t \in UNION {[1..n -> tokens] : n \in 0..MaxTokens}}
Together(parts) == FlattenSeq([i \in DOMAIN parts |-> parts[i].text])

\* However a wrapped text is cut into parts, together they are that text: no
\* character of a request is lost or told twice.  A skill's text is the hook's
\* own, and a file's begins with its mark (sources.ts:34-104).
NothingLost ==
  /\ \A t \in Texts("<reminder>", {"Contents of", "</reminder>", "x"}) :
       /\ Together(tagged(t)) = t
       /\ \A i \in DOMAIN tagged(t) : tagged(t)[i].kind = "file" => Begins(tagged(t)[i].text, {"Contents of"})
  /\ \A t \in Texts("SessionStart hook", {"<important>", "</important>", "skill '", "'", "Skills"}) :
       /\ Together(tagged(t)) = t
       /\ \A i \in DOMAIN tagged(t) : tagged(t)[i].kind = "skill" => "</important>" \notin ToSet(tagged(t)[i].text)
  /\ \A t \in Texts("# Environment", {"# MCP", "Skills", "- ", "x"}) :
       /\ Together(tagged(t)) = t
       /\ \A i \in DOMAIN tagged(t) : tagged(t)[i].label = "skills list" => Begins(tagged(t)[i].text, {"Skills"})

\* What an agent sends in a turn, each block with where it is from: the user
\* speaks, perhaps reminded first; a tool is called; a skill is, and its text
\* follows, or the call fails.
Said(type, text, id, skill, err, from) ==
  [type |-> type, text |-> text, id |-> id, skill |-> skill, err |-> err, from |-> from]
Reminded == Said("text", <<"<reminder>", "x">>, "", "", FALSE, "harness")
Spoken(reminded, id, skill, err) ==
  LET before == IF reminded THEN <<Reminded>> ELSE <<>>
      call == Said("tool_use", <<"x">>, id, skill, FALSE, "history")
      told == skill # "" /\ ~err
      result == Said("tool_result", <<"x">>, id, "", err, IF told THEN "skill" ELSE "history")
      text == Said("text", <<"x">>, "", "", FALSE, "skill")
  IN <<[role |-> "user", blocks |-> before \o <<Said("text", <<"x">>, "", "", FALSE, "you")>>],
       [role |-> "assistant", blocks |-> <<Said("text", <<"x">>, "", "", FALSE, "history"), call>>],
       [role |-> "user", blocks |-> <<result>> \o before \o IF told THEN <<text>> ELSE <<>>]>>

\* Two turns of a session: each block is told to be from where it is, and only
\* what the user typed is theirs (sources.ts:110-168).
OriginsTold ==
  \A reminded \in BOOLEAN, s1, s2 \in {"", "debug", "plan"}, e1, e2 \in BOOLEAN :
    LET system == [role |-> "system", blocks |-> <<Said("text", <<"x">>, "", "", FALSE, "harness")>>]
        spoken == <<system>> \o Spoken(reminded, "c1", s1, e1) \o Spoken(~reminded, "c2", s2, e2)
        blocks == FlattenSeq([i \in DOMAIN spoken |-> spoken[i].blocks])
    IN [i \in DOMAIN requestSources(spoken) |-> requestSources(spoken)[i].kind] = [i \in DOMAIN blocks |-> blocks[i].from]

Payload(id, readable, lines, params) ==
  [id |-> id, readable |-> readable, tools |-> {}, params |-> params,
   parts |-> <<Part("you", "you", lines), Part("history", "history", <<"again">>)>>]
\* A run, and one that is another from its second request on.
Ones(readable) == <<Payload("p1", readable, <<"date 1", "again">>, 1), Payload("p2", TRUE, <<"b">>, 2), Payload("p3", TRUE, <<"c">>, 3)>>
Others(readable) == <<Payload("p1", readable, <<"date 1", "again">>, 1), Payload("q2", TRUE, <<"d">>, 4)>>
Reads(readable) ==
  {SubSeq(Ones(readable), 1, n) : n \in 1..3} \cup {SubSeq(Others(readable), 1, n) : n \in 1..2}
NoCache == [k \in {} |-> NoRun]
Fresh(payloads) == runLines(NoCache, payloads)[payloads[1]]

\* A comparison that is read again as its runs grow, are read from their start
\* or are others by now, is the one of the runs as they are (sources.ts:190-218);
\* what varies in a group never counts, and B against A is the mirror.
GroupsFresh ==
  /\ \A readable \in BOOLEAN : \A r, s, t \in Reads(readable) :
       LET twice == runLines(runLines(NoCache, r), s)
       IN runLines(twice, t)[t[1]] = Fresh(t)
  /\ \A r, s, t \in Reads(TRUE) \cup Reads(FALSE) :
       LET d == groupDiff(<<Fresh(r), Fresh(s)>>, <<Fresh(t)>>)
           e == groupDiff(<<Fresh(t)>>, <<Fresh(s), Fresh(r)>>)
       IN /\ d.onlyA = e.onlyB /\ d.onlyB = e.onlyA
          /\ d.onlyA \cap DOMAIN Fresh(t).lines = {}
          /\ d.onlyA \subseteq DOMAIN Fresh(r).lines \cap DOMAIN Fresh(s).lines
          /\ Fresh(r).params # Fresh(s).params => d.params = {}
          /\ r = t \/ s = t => d.onlyA = {} /\ d.onlyB \cap DOMAIN Fresh(t).lines \cap DOMAIN Fresh(r).lines = {}
=============================================================================
