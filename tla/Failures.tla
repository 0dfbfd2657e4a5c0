------------------------------ MODULE Failures ------------------------------
(****************************************************************************)
(* What an evolve works from and asks for: what a trace tells of a run's    *)
(* edits and rereads (core/analyze.ts), the fixed words its proposer hears  *)
(* of the runs that failed, and the sets of tasks it is measured on with    *)
(* what they can show (core/evolve.ts).                                     *)
(*                                                                          *)
(* A trace is its calls in order, each with its result if it got one.  An   *)
(* output is the set of the phrases in it that anything looks for.          *)
(****************************************************************************)
EXTENDS Integers, Sequences, FiniteSets
LOCAL INSTANCE SequencesExt

CONSTANTS MinTrainGate, MinTest   \* MIN_TRAIN_GATE, MIN_TEST

(* ---- core/analyze.ts ---- *)

EDIT_KINDS == {"identical", "zero", "many", "notRead", "other"}
EDIT_TOOLS == {"edit_file", "write_file"}
TOOL_NAMES == EDIT_TOOLS \cup {"list_dir", "read_file", "bash"}

\* A path is its parts; "./" in front of it goes.
normPath(p) ==
  LET rest == {i \in DOMAIN p : p[i] # "." \/ i = Len(p)}
  IN SubSeq(p, CHOOSE i \in rest : \A j \in rest : i <= j, Len(p))

editKind(output) ==
  CASE "guard" \in output -> "notRead"
    [] "guard" \notin output /\ "identical" \in output -> "identical"
    [] output \cap {"guard", "identical"} = {} /\ "found 0" \in output -> "zero"
    [] output \cap {"guard", "identical", "found 0"} = {} /\ "found 2" \in output -> "many"
    [] OTHER -> "other"

Earliest(S) == CHOOSE i \in S : \A j \in S : i <= j
Edited(trace) == {i \in DOMAIN trace : trace[i].name \in EDIT_TOOLS /\ trace[i].ended # "no"}
Failed(trace) == {i \in Edited(trace) : trace[i].ended = "error"}
OfPath(trace, S, p) == {i \in S : normPath(trace[i].path) = p}
Paths(trace) == {normPath(trace[i].path) : i \in Edited(trace)}

PathEdits(trace, p) ==
  LET bad == OfPath(trace, Failed(trace), p)
  IN [calls |-> Cardinality(OfPath(trace, Edited(trace), p)), failed |-> Cardinality(bad),
      byKind |-> [k \in EDIT_KINDS |-> Cardinality({i \in bad : editKind(trace[i].output) = k})]]

\* The first of the paths with the most failed edits, if two failed.
loopFile(trace) ==
  LET bad(p) == Cardinality(OfPath(trace, Failed(trace), p))
      since(p) == Earliest(OfPath(trace, Edited(trace), p))
      worst == {p \in Paths(trace) : bad(p) >= 2 /\ \A q \in Paths(trace) : bad(q) <= bad(p)}
  IN {p \in worst : \A q \in worst : since(p) <= since(q)}

\* stubs: in order, each with its turn and the calls whose results it removed.
rereads(trace, stubs) ==
  LET eaten(p) == {s \in DOMAIN stubs : \E i \in stubs[s].items : trace[i].name = "read_file" /\ normPath(trace[i].path) = p}
      again(p) == {i \in DOMAIN trace : /\ trace[i].name = "read_file" /\ normPath(trace[i].path) = p
                                        /\ trace[i].turn >= stubs[Earliest(eaten(p))].turn}
      read == {normPath(trace[i].path) : i \in DOMAIN trace}
  IN {Earliest(again(p)) : p \in {q \in read : eaten(q) # {} /\ again(q) # {}}}

analyzeTrace(trace, stubs) ==
  LET good == Edited(trace) \ Failed(trace)
  IN [edits |-> [p \in Paths(trace) |-> PathEdits(trace, p)], loopFile |-> loopFile(trace),
      firstEdit |-> IF good = {} THEN 0 ELSE trace[Earliest(good)].turn, rereads |-> rereads(trace, stubs)]

(* ---- core/evolve.ts: what the proposer hears ---- *)

\* A check's error starts with one of these; the rest of it is the repo's.
CHECK_CLASS ==
  [exited |-> "check_failed", timed_out |-> "check_timeout", found_0 |-> "no_tests", changed |-> "protected",
   a_test |-> "test", after |-> "timeout", solution |-> "missing", unexpected |-> "unexpected"]
REASONS == {"final", "max_turns", "parse_failed", "aborted", "backend_error", "mcp_error", "repeat_loop", "proxy_stopped", "error"}
EXTS == {"ts", "js", "py"}    \* of the thirty, those that occur here

\* The kind most edits failed by; of two alike, that of the path edited first.
TopKind(trace) ==
  LET of(k) == {i \in Failed(trace) : editKind(trace[i].output) = k}
      size(k) == Cardinality(of(k))
      begun(k) == Earliest({(Len(trace) + 1) * Earliest(OfPath(trace, Edited(trace), normPath(trace[i].path))) + i : i \in of(k)})
      top == {k \in EDIT_KINDS : size(k) > 0 /\ \A l \in EDIT_KINDS : size(l) <= size(k)}
  IN IF top = {} THEN "-" ELSE CHOOSE k \in top : \A l \in top : begun(k) <= begun(l)

signatureOf(run, trace) ==
  <<IF run.reason = "" THEN "-" ELSE IF run.reason \in REASONS THEN run.reason ELSE "other",
    IF run.lastError = <<>> THEN "-" ELSE IF run.lastError[1] \in DOMAIN CHECK_CLASS THEN CHECK_CLASS[run.lastError[1]] ELSE "other",
    TopKind(trace),
    IF \E i \in DOMAIN trace : trace[i].truncated THEN "truncated" ELSE "-">>

\* An extension, or a tool, that is not ours has no name of its own.
ExtOf(p, ext) == IF ext[Last(p)] \in EXTS THEN ext[Last(p)] ELSE "other"
ToolOf(name) == IF name \in TOOL_NAMES THEN name ELSE "unknown"

Fails(items) == {i \in DOMAIN items : items[i].run.verdict = "FAIL"}
SumOf(f) ==
  LET xs == SetToSeq(DOMAIN f)
      sum[n \in 0..Len(xs)] == IF n = 0 THEN 0 ELSE sum[n - 1] + f[xs[n]]
  IN sum[Len(xs)]

\* ext: the extension of each file name.
Group(items, ext, sig) ==
  LET of == {i \in Fails(items) : signatureOf(items[i].run, items[i].trace) = sig}
      called(i, t) == Cardinality({c \in DOMAIN items[i].trace : ToolOf(items[i].trace[c].name) = t})
      touched(i, x) == Cardinality({p \in Paths(items[i].trace) : ExtOf(p, ext) = x})
  IN [signature |-> sig, count |-> Cardinality(of),
      calls |-> [t \in TOOL_NAMES \cup {"unknown"} |-> SumOf([i \in of |-> called(i, t)])],
      exts |-> [x \in EXTS \cup {"other"} |-> SumOf([i \in of |-> touched(i, x)])]]
\* Which of two groups of one size comes first is left open.
failureGroups(items, ext) ==
  {Group(items, ext, signatureOf(items[i].run, items[i].trace)) : i \in Fails(items)}

\* What an edit was refused for is a phrase with what follows it.  The report
\* shows a cost's numbers, and of the rest the phrase only.
FIXED == {"already tried", "tied to a task", "worse on gate"}
Numerals == {"12", "0.05"}
PATTERNED == [noise |-> "within noise", tokens |-> "costs more tokens", invalid |-> "invalid config"]
COST_KINDS == {"costs more tokens"}
reasonKind(reason) ==
  CASE reason.phrase \in FIXED /\ reason.rest = "" -> reason.phrase
    [] reason.phrase \in {"noise", "tokens"} /\ reason.rest \in Numerals -> PATTERNED[reason.phrase]
    [] reason.phrase = "invalid" -> PATTERNED["invalid"]
    [] OTHER -> "other"
reasonShown(reason) == IF reasonKind(reason) \in COST_KINDS THEN reason ELSE [phrase |-> reasonKind(reason), rest |-> ""]

(* ---- core/evolve.ts: the sets ---- *)

SetName == {"train", "gate", "test"}
\* hash: the first byte of a name's sha1, modulo 4.
splitSets(tasks, hash) ==
  LET setOf(t) == IF t.set # "none" THEN t.set
                  ELSE IF hash[t.name] < 2 THEN "train" ELSE IF hash[t.name] = 2 THEN "gate" ELSE "test"
  IN [s \in SetName |-> {t.name : t \in {u \in tasks : setOf(u) = s}}]

\* sizes: how many tasks each set has; with an empty one there is no evolve.
splitOf(sizes, polyglot, mode) ==
  [declarable |-> /\ mode \in {"night", "days"}
                  /\ sizes["train"] + sizes["gate"] >= MinTrainGate /\ sizes["test"] >= MinTest,
   mode |-> mode, trainGate |-> sizes["train"] + sizes["gate"], test |-> sizes["test"], polyglot |-> polyglot]

Short(n, min) == IF n < min THEN min - n ELSE 0
shortOf(m) == IF m.polyglot THEN <<0, 0>> ELSE <<Short(m.trainGate, MinTrainGate), Short(m.test, MinTest)>>
orientationOnly(mode) == mode \in {"custom", "hours"}
\* The reasons and the ways out that the label of an orientation result gives.
referenceLabel(m) ==
  LET few == m.trainGate < MinTrainGate \/ m.test < MinTest
  IN [why |-> (IF orientationOnly(m.mode) THEN {"mode"} ELSE {}) \cup (IF few THEN {"too few"} ELSE {}),
      add |-> shortOf(m)[1] + shortOf(m)[2], otherMode |-> orientationOnly(m.mode)]

(* ---- what must hold ---- *)

Ext == [x \in {"a.ts", "b.ts", "c.secret", "d.hidden"} |->
         CASE x \in {"a.ts", "b.ts"} -> "ts" [] x = "c.secret" -> "secret" [] OTHER -> "hidden"]
Call(name, path, ended, output) ==
  [name |-> name, path |-> path, ended |-> ended, output |-> output, truncated |-> FALSE, turn |-> 0]
\* bound: six calls, the third and the fifth of them the model's own path or tool
SomeCalls ==
  {Call("edit_file", <<"a.ts">>, "error", {"found 0"}), Call("edit_file", <<".", "a.ts">>, "ok", {}),
   Call("edit_file", <<"c.secret">>, "error", {"guard", "found 2"}), Call("read_file", <<".", ".", "a.ts">>, "ok", {}),
   Call("mcp_secret", <<"c.secret">>, "ok", {}), Call("write_file", <<"b.ts">>, "no", {})}
Traces == {[i \in DOMAIN t |-> [t[i] EXCEPT !.turn = i]] : t \in UNION {[1..n -> SomeCalls] : n \in 0..4}}

\* Every failed edit is of one kind and of one path, "./" or not; the file a loop
\* is on is one no other has more failed edits than, and there is one whenever two
\* edits of a file failed; a reread comes after a read of the same file that a
\* stub removed, one for each file that was read again (analyze.ts:22-25, 101-131).
TracesTold ==
  \A trace \in Traces :
    /\ LET a == analyzeTrace(trace, <<>>)
           failed(p) == a.edits[p].failed
       IN /\ SumOf([p \in DOMAIN a.edits |-> failed(p)]) = Cardinality(Failed(trace))
          /\ \A p \in DOMAIN a.edits : SumOf([k \in EDIT_KINDS |-> a.edits[p].byKind[k]]) = failed(p) /\ p[1] # "."
          /\ Cardinality(a.loopFile) <= 1
          /\ a.loopFile = {} <=> \A p \in DOMAIN a.edits : failed(p) < 2
          /\ \A p \in a.loopFile, q \in DOMAIN a.edits : failed(q) <= failed(p)
    /\ \A t \in 2..Len(trace), few \in SUBSET (1..Len(trace)) :
         LET items == few \cap 1..(t - 1)
             found == rereads(trace, <<[turn |-> t, items |-> items]>>)
             isRead(i, p) == trace[i].name = "read_file" /\ normPath(trace[i].path) = p
         IN /\ \A r \in found : \E i \in items : i < r /\ isRead(i, normPath(trace[r].path))
            /\ \A i \in items, r \in t..Len(trace) :
                 trace[i].name = "read_file" /\ isRead(r, normPath(trace[i].path))
                   => Cardinality({f \in found : isRead(f, normPath(trace[i].path))}) = 1

Run(verdict, reason, lastError) == [verdict |-> verdict, reason |-> reason, lastError |-> lastError]
SomeRuns ==
  {Run("FAIL", "final", <<"a_test", "secret name">>), Run("FAIL", "secret", <<>>), Run("FAIL", "", <<"secret">>),
   Run("PASS", "final", <<>>)}
SomeItems == [run : SomeRuns, trace : {t \in Traces : Len(t) <= 1}]
\* The same run of a repo, a model and a harness with other words of their own.
Renamed(item) ==
  LET name(p) == [i \in DOMAIN p |-> IF p[i] = "c.secret" THEN "d.hidden" ELSE p[i]]
      word(w) == CASE w = "secret" -> "hidden" [] w = "secret name" -> "hidden name" [] OTHER -> w
      tool(t) == IF t = "mcp_secret" THEN "mcp_hidden" ELSE t
  IN [run |-> [item.run EXCEPT !.reason = word(@), !.lastError = [i \in DOMAIN @ |-> word(@[i])]],
      trace |-> [i \in DOMAIN item.trace |-> [item.trace[i] EXCEPT !.path = name(@), !.name = tool(@)]]]

\* The proposer hears the same of runs that differ in the repo's and the model's
\* own words only; every FAIL run is in one group, whatever the order of the runs;
\* and a reason the report shows has no word but ours (evolve.ts:231-257, 397-412).
WordsAreOurs ==
  /\ \A x, y \in SomeItems :
       LET groups == failureGroups(<<x, y>>, Ext)
       IN /\ groups = failureGroups(<<Renamed(x), Renamed(y)>>, Ext)
          /\ groups = failureGroups(<<y, x>>, Ext)
          /\ SumOf([g \in groups |-> g.count]) = Cardinality(Fails(<<x, y>>))
  /\ \A phrase \in FIXED \cup DOMAIN PATTERNED \cup {"secret"}, rest \in Numerals \cup {"", "secret"} :
       LET shown == reasonShown([phrase |-> phrase, rest |-> rest])
       IN shown.phrase # "secret" /\ shown.rest # "secret"

\* Adding a task moves no other, unless it is given another set; each task is in
\* one set (evolve.ts:30-38).
SetsStay ==
  \A hash \in [{"t1", "t2"} -> 0..3], sets \in [1..2 -> SetName \cup {"none"}] :
    LET one == {[name |-> "t1", set |-> sets[1]]}
        both == one \cup {[name |-> "t2", set |-> sets[2]]}
    IN /\ \A s \in SetName : splitSets(one, hash)[s] = splitSets(both, hash)[s] \cap {"t1"}
       /\ \A n \in {"t1", "t2"} : Cardinality({s \in SetName : n \in splitSets(both, hash)[s]}) = 1

Sizes == [SetName -> 1..(MinTest + 1)] \cup [SetName -> {MinTrainGate}]
\* An evolve that cannot declare a winner says why, in reasons that go when what
\* the label tells to do is done (evolve.ts:43-68).
LabelTellsWhy ==
  \A sizes \in Sizes, polyglot \in BOOLEAN, mode \in {"hours", "night", "days", "custom"} :
    LET m == splitOf(sizes, polyglot, mode)
        label == referenceLabel(m)
        more == [sizes EXCEPT !["train"] = @ + shortOf(m)[1], !["test"] = @ + shortOf(m)[2]]
    IN /\ m.declarable <=> label.why = {}
       /\ ~polyglot => splitOf(more, FALSE, IF label.otherMode THEN "night" ELSE mode).declarable
=============================================================================
