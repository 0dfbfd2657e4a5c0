------------------------------- MODULE Requests -------------------------------
(****************************************************************************)
(* What the page tells apart: one recorded request from another, and the    *)
(* turns of one trace from those of another (core/diff.ts), with what it    *)
(* remembers of a comparison (web/src/reqDiffs.ts).                         *)
(*                                                                          *)
(* A request is its system lines (at the top or in leading messages), its   *)
(* messages, its tools and its parameters, some of them marked as a cache's *)
(* breakpoint.  A message has parts, each of a type, with its lines and     *)
(* with what else is in it (`rest`: a call's id, is_error).  A line is a    *)
(* value of a small set, "" a blank one; a value of a leaf is a number      *)
(* above 0.                                                                 *)
(****************************************************************************)
EXTENDS Integers, Sequences, SequencesExt, FiniteSets, Functions, TLC

None == "none"

(* ---- one request against another ---- *)

\* cache_control goes, at any depth.
cleanItem(x) == [x EXCEPT !.mark = FALSE]
clean(b) == [b EXCEPT !.messages = [i \in DOMAIN @ |-> cleanItem(@[i])],
                      !.tools = [i \in DOMAIN @ |-> cleanItem(@[i])]]

\* A part as the page shows it: the text of a text, a call or a result; of any
\* other (a thought, a picture) no more than its type.
partLine(part) == IF part.type \in {"text", "tool_use", "tool_result"} THEN part.lines ELSE <<part.type>>
messageText(m) == FlattenSeq([i \in DOMAIN m.parts |-> partLine(m.parts[i])])

leadingSystem(msgs) ==
  CHOOSE n \in 0..Len(msgs) :
    /\ \A i \in 1..n : msgs[i].role \in {"system", "developer"}
    /\ n < Len(msgs) => msgs[n + 1].role \notin {"system", "developer"}

\* A set difference; a blank line carries nothing.
linesIn(text) == ToSet(text) \ {""}
lineDiff(x, y) == [onlyA |-> linesIn(x) \ linesIn(y), onlyB |-> linesIn(y) \ linesIn(x)]

systemOf(b) == b.system \o FlattenSeq([i \in 1..leadingSystem(b.messages) |-> messageText(b.messages[i])])
\* Two messages are compared by this alone: who speaks, and the text as shown.
restOf(b) ==
  [i \in 1 .. Len(b.messages) - leadingSystem(b.messages) |->
     LET m == b.messages[leadingSystem(b.messages) + i] IN [role |-> m.role, text |-> messageText(m)]]
requestParams(b) == Restrict(b.params, DOMAIN b.params \ {"metadata"})
toolsOf(b) == [n \in {t.name : t \in ToSet(b.tools)} |-> Last(SelectSeq(b.tools, LAMBDA t : t.name = n))]

\* Of the leaves of two maps, those that differ, each with both values.
leaf(x, p) == IF p \in DOMAIN x THEN x[p] ELSE 0
LeafDiff(x, y) ==
  {[path |-> p, a |-> leaf(x, p), b |-> leaf(y, p)] : p \in {q \in DOMAIN x \cup DOMAIN y : leaf(x, q) # leaf(y, q)}}
\* A harness's labels are no knobs.
configDiff(x, y) == {d \in LeafDiff(x, y) : d.path \notin {"name", "description"}}

Least(n, m) == IF n <= m THEN n ELSE m
\* How many messages the two begin with in common.
Common(x, y) ==
  CHOOSE n \in 0..Least(Len(x), Len(y)) :
    /\ \A i \in 1..n : x[i] = y[i]
    /\ n < Least(Len(x), Len(y)) => x[n + 1] # y[n + 1]
Messages(x, y) ==
  LET n == Common(x, y)
      base == [appended |-> -1, from |-> 0, changed |-> {}, added |-> 0, removed |-> 0]
      changed == {i \in n + 1 .. Least(Len(x), Len(y)) : x[i] # y[i]}
      over(l, m) == IF l > m THEN l - m ELSE 0
  IN IF n = Len(x) THEN [base EXCEPT !.appended = Len(y) - Len(x)]
     ELSE [base EXCEPT !.from = n + 1, !.added = over(Len(y), Len(x)), !.removed = over(Len(x), Len(y)),
             !.changed = {[n |-> i, added |-> lineDiff(x[i].text, y[i].text).onlyB,
                                    removed |-> lineDiff(x[i].text, y[i].text).onlyA] : i \in changed}]

requestDiff(dirtyA, dirtyB) ==
  LET a == clean(dirtyA)  b == clean(dirtyB)
      system == lineDiff(systemOf(a), systemOf(b))
      ta == toolsOf(a)  tb == toolsOf(b)
  IN [system |-> [added |-> system.onlyB, removed |-> system.onlyA],
      tools |-> [added |-> DOMAIN tb \ DOMAIN ta, removed |-> DOMAIN ta \ DOMAIN tb,
                 changed |-> {n \in DOMAIN ta \cap DOMAIN tb : ta[n] # tb[n]}],
      messages |-> Messages(restOf(a), restOf(b)),
      params |-> LeafDiff(requestParams(a), requestParams(b))]

isNoChange(d) ==
  /\ d.messages.appended >= 0
  /\ d.system.added = {} /\ d.system.removed = {} /\ d.params = {}
  /\ d.tools.added = {} /\ d.tools.removed = {} /\ d.tools.changed = {}

(* ---- what reqDiffs.ts remembers ---- *)

\* Each request of a list against the one before; `cache` holds, per event, the
\* payload it was last set against and the outcome.
DiffStep(body, st, e) ==
  LET fresh == [prev |-> st.prev, diff |-> requestDiff(body[st.prev], body[e])]
      c == IF e \in DOMAIN st.cache /\ st.cache[e].prev = st.prev THEN st.cache[e] ELSE fresh
  IN IF st.prev = None THEN [st EXCEPT !.prev = e]
     ELSE [prev |-> e, out |-> Append(st.out, c.diff),
           cache |-> [x \in DOMAIN st.cache \cup {e} |-> IF x = e THEN c ELSE st.cache[x]]]
diffsBySeq(body, cache, events) ==
  LET upTo[n \in 0 .. Len(events)] ==
        IF n = 0 THEN [prev |-> None, out |-> <<>>, cache |-> cache] ELSE DiffStep(body, upTo[n - 1], events[n])
  IN upTo[Len(events)]

\* Each against the same-numbered one of another run, where it has one.
versusBySeq(body, events, other) ==
  [k \in DOMAIN events |->
     IF k > Len(other) THEN [k |-> k, missing |-> TRUE]
     ELSE [k |-> k, missing |-> FALSE, diff |-> requestDiff(body[other[k]], body[events[k]])]]

(* ---- the turns of a trace ---- *)

\* Turn 0 is the setup, and counts only if the run ended there.
turnsOf(events) ==
  LET ended == \E i \in DOMAIN events : events[i].turn = 0 /\ events[i].type = "done"
      kept == SelectSeq(events, LAMBDA e : e.turn # 0 \/ ended)
      firsts == SelectSeq([i \in DOMAIN kept |-> i], LAMBDA i : \A j \in 1 .. i - 1 : kept[j].turn # kept[i].turn)
  IN [n \in DOMAIN firsts |-> SelectSeq(kept, LAMBDA e : e.turn = kept[firsts[n]].turn)]

Silent == {"llm_request", "llm_response", "context_stats", "approval_required"}
\* A chip an event makes, or the mark a result puts on the chip of its own call.
AddChip(chips, e) ==
  CASE e.type \in Silent -> chips
    [] e.type = "tool_result" ->
         LET own == {i \in DOMAIN chips : chips[i].call = e.call}
         IN IF own = {} THEN chips
            ELSE [chips EXCEPT ![CHOOSE i \in own : \A j \in own : j <= i].bad = @ \/ e.bad]
    [] OTHER -> Append(chips, [label |-> e.type, bad |-> e.bad, call |-> e.call])
skeleton(events) ==
  LET turns == turnsOf(events)
      sig(turn) == LET chips[k \in 0 .. Len(turn)] == IF k = 0 THEN <<>> ELSE AddChip(chips[k - 1], turn[k])
                       made == chips[Len(turn)]
                   IN [i \in DOMAIN made |-> [label |-> made[i].label, bad |-> made[i].bad]]
  IN [n \in DOMAIN turns |-> sig(turns[n])]

(* ---- what must hold ---- *)

ContentPart(type, lines, rest) == [type |-> type, lines |-> lines, rest |-> rest]
Message(role, parts) == [role |-> role, parts |-> parts, mark |-> FALSE]
Says(role, lines) == Message(role, <<ContentPart("text", lines, 0)>>)
Tool(name, body) == [name |-> name, body |-> body, mark |-> FALSE]
Body(system, messages, tools, params) ==
  [system |-> system, messages |-> messages, tools |-> tools, params |-> params]
Thought == ContentPart("thinking", <<"t">>, 0)
Turns == {Says("user", <<"p">>), Says("assistant", <<"q", "">>)}
Rich  == {Message("assistant", <<Thought, ContentPart("tool_use", <<"q">>, 1)>>),
          Message("assistant", <<ContentPart("tool_use", <<"q">>, 1)>>),
          Message("user", <<ContentPart("tool_result", <<"p">>, 1)>>)}
Talks == UNION {[1..n -> Turns] : n \in 0..3} \cup {<<m, k>> : m \in Rich, k \in Turns \cup Rich}
NoTools == <<>>
SomeBodies ==
  {Body(<<"s">>, m, NoTools, [x \in {} |-> 0]) : m \in Talks}
    \cup {Body(s, <<Says("user", <<"p">>)>>, t, p) :
            s \in {<<>>, <<"s">>, <<"s", "", "r">>},
            t \in {NoTools, <<Tool("f", 1)>>, <<Tool("g", 1), Tool("f", 2)>>},
            p \in {[x \in {} |-> 0], [x \in {"model"} |-> 1], [x \in {"model", "max"} |-> 2]}}

\* The same request, marked for a cache, and with its system text as messages.
Marked(b) == [b EXCEPT !.messages = [i \in DOMAIN @ |-> [@[i] EXCEPT !.mark = TRUE]],
                       !.tools = [i \in DOMAIN @ |-> [@[i] EXCEPT !.mark = TRUE]]]
Moved(b) == [b EXCEPT !.system = <<>>,
                      !.messages = [i \in DOMAIN b.system |-> Says("developer", <<b.system[i]>>)] \o @]
\* What no diff shows: other thoughts, other call ids, another is_error, other
\* metadata.
Unshown(b) ==
  LET other(part) == IF part.type = "thinking" THEN [part EXCEPT !.lines = <<"u">>] ELSE [part EXCEPT !.rest = @ + 1]
  IN [b EXCEPT !.messages = [i \in DOMAIN @ |-> [@[i] EXCEPT !.parts = [k \in DOMAIN @ |-> other(@[k])]]],
               !.params = ("metadata" :> 1) @@ @]

\* A diff tells every change of the text it shows, and none else.  Nothing but
\* appended messages means that the one request goes on where the other ended,
\* with the system lines, tools and parameters it had, and two such steps are
\* one; a message is named exactly when its role or its text as shown changed;
\* the diff back is the mirror.  No change is told of a breakpoint, of the place
\* of the system text, or of what is not shown: what a thought says, the id of a
\* call, is_error, metadata; but a part more or less is (diff.ts:125-231).
DiffsTell ==
  /\ \A a, b \in SomeBodies :
       LET d == requestDiff(a, b)  e == requestDiff(b, a)  x == restOf(a)  y == restOf(b) IN
       /\ d = requestDiff(Marked(a), Moved(b)) /\ d = requestDiff(a, Unshown(b))
       /\ isNoChange(d) <=> /\ IsPrefix(x, y) /\ linesIn(a.system) = linesIn(b.system)
                            /\ ToSet(a.tools) = ToSet(b.tools) /\ a.params = b.params
       /\ isNoChange(d) => \A c \in SomeBodies :
            isNoChange(requestDiff(b, c)) =>
              /\ isNoChange(requestDiff(a, c))
              /\ requestDiff(a, c).messages.appended = d.messages.appended + requestDiff(b, c).messages.appended
       /\ \A i \in 1 .. Least(Len(x), Len(y)) : (x[i] = y[i]) = (i \notin {m.n : m \in d.messages.changed})
       /\ e.system = [added |-> d.system.removed, removed |-> d.system.added]
       /\ e.tools = [added |-> d.tools.removed, removed |-> d.tools.added, changed |-> d.tools.changed]
       /\ d.params = configDiff(("name" :> 1) @@ a.params, ("name" :> 2) @@ b.params)
  /\ \A m \in Talks : \A i \in DOMAIN m :
       LET body(parts) == Body(<<>>, [m EXCEPT ![i].parts = parts], NoTools, [x \in {} |-> 0])
           d == requestDiff(body(m[i].parts), body(<<Thought>> \o m[i].parts))
           shown == {"thinking"} \ ToSet(messageText(m[i]))
       IN d.messages.appended < 0 /\ d.messages.changed = {[n |-> i, added |-> shown, removed |-> {}]}

\* Four requests, and lists of them as a page holds: a run that grows, one read
\* from its middle, another run.
FourBodies ==
  [i \in {"1", "2", "3", "4"} |->
    Body(<<"s">>, [k \in 1 .. (CASE i = "1" -> 1 [] i = "2" -> 2 [] i = "3" -> 3 [] OTHER -> 2) |-> Says("user", <<i>>)],
         NoTools, [x \in {} |-> 0])]
Lists == {<<"1", "2">>, <<"1", "2", "3">>, <<"2", "3">>, <<"1", "3">>, <<"4", "3">>, <<"4">>}
\* What is remembered is never the diff of another pair (reqDiffs.ts:18-56).
DiffsFresh ==
  /\ \A l, m \in Lists :
       LET before == diffsBySeq(FourBodies, [x \in {} |-> 0], l)
       IN diffsBySeq(FourBodies, before.cache, m).out
            = [i \in 1 .. Len(m) - 1 |-> requestDiff(FourBodies[m[i]], FourBodies[m[i + 1]])]
  /\ \A l, m \in Lists :
       \A k \in DOMAIN l : LET v == versusBySeq(FourBodies, l, m)[k]
                           IN v.missing = (k > Len(m)) /\ (l[k] \in ToSet(m) /\ ~v.missing /\ m[k] = l[k] => isNoChange(v.diff))

Happened(turn, type, call, bad) == [turn |-> turn, type |-> type, call |-> call, bad |-> bad]
\* A turn of two calls whose results come in any order, with what costs told or not.
TwoResults(turn, told, swapped, badA, badB) ==
  LET ra == Happened(turn, "tool_result", "a", badA)  rb == Happened(turn, "tool_result", "b", badB)
  IN (IF told THEN <<Happened(turn, "llm_request", "", FALSE), Happened(turn, "context_stats", "", FALSE)>> ELSE <<>>)
       \o <<Happened(turn, "tool_call", "a", FALSE), Happened(turn, "tool_call", "b", FALSE)>>
       \o (IF swapped THEN <<rb, ra>> ELSE <<ra, rb>>)
Setup == <<Happened(0, "error", "", TRUE)>>

\* Two runs that did the same diverge nowhere: not by a setup before the first
\* turn, by the order in which results came in, or by what was only asked and
\* told; and one call's failure is never another's, in this turn or a later one
\* with the same call id (diff.ts:14-66, Diff.vue:24-31).
TurnsLineUp ==
  \A set1, set2, told1, told2, swap1, swap2, badA, badB \in BOOLEAN :
    LET trace(set, told, swap) ==
          (IF set THEN Setup ELSE <<>>) \o TwoResults(1, told, swap, badA, badB)
            \o TwoResults(2, told, ~swap, FALSE, badA) \o <<Happened(2, "done", "", FALSE)>>
        s == skeleton(trace(set1, told1, swap1))
    IN /\ s = skeleton(trace(set2, told2, swap2))
       /\ Len(s) = 2 /\ [i \in 1..2 |-> s[1][i].bad] = <<badA, badB>> /\ ~s[2][1].bad /\ s[2][2].bad = badA
       /\ Len(skeleton(Setup \o <<Happened(0, "done", "", TRUE)>>)) = 1
=============================================================================
