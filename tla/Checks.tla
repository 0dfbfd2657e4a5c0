-------------------------------- MODULE Checks --------------------------------
(****************************************************************************)
(* The verdicts of the built-in tasks (core/tasks.ts) and of the polyglot   *)
(* exercises (core/polyglot.ts): what a bench and an evolve measure by.     *)
(*                                                                          *)
(* A file is what of it a verdict depends on: a source is "broken",         *)
(* "special" (it fits the shared test's literals only) or "fixed"; a test   *)
(* is the package's own or one the model wrote; a line is a value.          *)
(****************************************************************************)
EXTENDS Integers, Sequences, SequencesExt, FiniteSets, Functions

(* ---- pool, pool2, pool3 ---- *)

POOL == <<"clamp", "words", "titleCase", "chunk", "paginate", "parseDuration", "dedupe", "range", "formatBytes", "median">>
POOL2 == <<"clamp", "words", "titleCase", "parseDuration", "dedupe", "range", "formatBytes", "median", "chunk", "paginate">>
Imports == [u \in ToSet(POOL) |-> IF u = "titleCase" THEN {"words"} ELSE IF u = "paginate" THEN {"chunk"} ELSE {}]
firstUnits(order, size) == ToSet(SubSeq(order, 1, size))

POOL3_TESTS == {"parseDuration", "median"}
sharedTest == [u \in ToSet(POOL) |-> "shared"]
pool3Test == [u \in ToSet(POOL) |-> IF u \in POOL3_TESTS THEN "strict" ELSE "shared"]

\* node --test of one file: what is imported has to work as well.
Passes(src, test, u) ==
  CASE test[u] = "rewritten" -> TRUE
    [] test[u] = "shared" -> src[u] # "broken" /\ \A i \in Imports[u] : src[i] # "broken"
    [] test[u] = "strict" -> src[u] = "fixed" /\ \A i \in Imports[u] : src[i] # "broken"
    [] OTHER -> FALSE
\* The workdir's test/ goes, the package's own tests come in, and only they run.
Relaid(order, size, testOf, dir) == [dir EXCEPT !.test = Restrict(testOf, firstUnits(order, size)), !.added = {}]
poolCheck(order, size, testOf, dir) ==
  LET d == Relaid(order, size, testOf, dir)
  IN d.added = {} /\ \A u \in firstUnits(order, size) : Passes(d.src, d.test, u)

(* ---- sift, triage, judge ---- *)

\* Two lists that are the same in some order.
same(x, y) ==
  /\ Len(x) = Len(y)
  /\ \A v \in ToSet(x) \cup ToSet(y) :
       Cardinality({i \in DOMAIN x : x[i] = v}) = Cardinality({i \in DOMAIN y : y[i] = v})
siftCheck(rows, pass, drops) ==
  /\ same(pass, SelectSeq(rows, LAMBDA r : r.verdict = "PASS"))
  /\ same(drops, SelectSeq(rows, LAMBDA r : r.verdict = "DROP"))

\* `got` has a verdict for every post and nothing else.  Of the posts of one
\* group that are in the list exactly one is kept.
agrees(posts, got) ==
  /\ \A p \in ToSet(posts) : p.key \in {"EITHER", "DUP"} \/ got[p.id] = p.key
  /\ \A g \in {p.dup : p \in {q \in ToSet(posts) : q.key = "DUP"}} :
       Cardinality({p \in ToSet(posts) : p.key = "DUP" /\ p.dup = g /\ got[p.id] = "KEEP"}) = 1

Verdicts == {"KEEP", "DROP"}
ids(posts) == {p.id : p \in ToSet(posts)}
\* A line per post, any order: none twice, none of another post.
triageCheck(posts, written) ==
  /\ \A i \in DOMAIN written : written[i].verdict \in Verdicts
  /\ \A i, j \in DOMAIN written : written[i].id = written[j].id => i = j
  /\ {w.id : w \in ToSet(written)} = ids(posts)
  /\ agrees(posts, [n \in ids(posts) |-> (CHOOSE w \in ToSet(written) : w.id = n).verdict])
\* A key per post; of two spellings of one number the later counts.
judgeCheck(posts, answer) ==
  LET latest(n) == answer[CHOOSE i \in DOMAIN answer : answer[i].id = n /\ \A j \in i + 1 .. Len(answer) : answer[j].id # n]
  IN /\ {v.id : v \in ToSet(answer)} = ids(posts)
     /\ \A n \in ids(posts) : latest(n).verdict \in Verdicts
     /\ agrees(posts, [n \in ids(posts) |-> latest(n).verdict])

(* ---- polyglot ---- *)

\* The reporter's stack: a start cuts it to its depth and adds its name; a test's
\* path is what of it lies above the test.
Reported(events) ==
  LET stack[n \in 0 .. Len(events)] ==
        IF n = 0 THEN <<>>
        ELSE IF events[n].type = "start" THEN Append(SubSeq(stack[n - 1], 1, events[n].nesting), events[n].name)
        ELSE stack[n - 1]
      ends == SelectSeq([n \in DOMAIN events |-> n], LAMBDA n : events[n].type = "end")
  IN [k \in DOMAIN ends |-> Append(SubSeq(stack[ends[k]], 1, events[ends[k]].nesting), events[ends[k]].name)]

\* Each result in turn, the first thing wrong ends it; then a failed test, the
\* exit, and a recorded name that did not pass.
Unexpected(results, names, i) ==
  \/ ~results[i].ours
  \/ results[i].path \notin names /\ results[i].status # "skip"
  \/ results[i].path \in names /\ \E j \in 1 .. i - 1 : results[j].path = results[i].path
passed(results, names) ==
  {n \in names : /\ Cardinality({i \in DOMAIN results : results[i] = [path |-> n, status |-> "pass", ours |-> TRUE]}) = 1
                 /\ \A i \in DOMAIN results : results[i] # [path |-> n, status |-> "fail", ours |-> TRUE]}
score(results, names, exit) ==
  [passed |-> Cardinality(passed(results, names)),
   pass |-> /\ \A i \in DOMAIN results : ~Unexpected(results, names, i) /\ results[i].status # "fail"
            /\ exit = 0 /\ passed(results, names) = names]
\* A solution that is not there or ran out of time passed no test.
polyglotCheck(solution, timedOut, results, names, exit) ==
  IF ~solution \/ timedOut THEN [passed |-> 0, pass |-> FALSE] ELSE score(results, names, exit)

(* ---- what must hold ---- *)

Few == {"words", "titleCase", "median"}
Workdirs ==
  {[src |-> [u \in ToSet(POOL) |-> IF u \in Few THEN s[u] ELSE "fixed"], test |-> [u \in ToSet(POOL) |-> t], added |-> more] :
     s \in {f \in [Few -> {"broken", "special", "fixed"}] : f["words"] # "special" /\ f["titleCase"] # "special"},
     t \in {"shared", "rewritten", "failing"}, more \in {{}, {"extra"}}}

\* The verdict of a pool is that of the sources alone, whatever was done to
\* test/; each size holds what its units import; and pool3 is the stricter pool2
\* (tasks.ts:67-118, 238-243).
PristineTests ==
  /\ \A dir \in Workdirs, order \in {POOL, POOL2}, size \in 1 .. Len(POOL) :
       LET units == firstUnits(order, size) IN
       /\ poolCheck(order, size, sharedTest, dir) <=> \A u \in units : dir.src[u] # "broken"
       /\ poolCheck(order, size, pool3Test, dir) =>
            poolCheck(order, size, sharedTest, dir) /\ \A u \in units \cap POOL3_TESTS : dir.src[u] = "fixed"
       /\ UNION {Imports[u] : u \in units} \subseteq units
  /\ \A size \in 1 .. 8 : firstUnits(POOL2, size) \cap {"chunk", "paginate"} = {}

Post(id, key, dup) == [id |-> id, key |-> key, dup |-> dup]
Posts == <<Post(1, "DUP", "A"), Post(2, "DROP", ""), Post(3, "DUP", "A"), Post(4, "EITHER", "")>>
Row(id, verdict) == [id |-> id, verdict |-> verdict]
Lists3 == UNION {[1 .. n -> [id : 1 .. 3, verdict : {"PASS", "DROP"}]] : n \in 0 .. 2}

\* The same judgement has the same verdict as a file's lines in any order and as
\* an answer's keys, in a list of any size, and each size can be passed; a line
\* too many, too few or of another post never is (tasks.ts:120-234).
JudgementsAgree ==
  /\ \A size \in DOMAIN Posts :
       LET posts == SubSeq(Posts, 1, size) IN
       /\ \A got \in [ids(posts) -> Verdicts], order \in SetToSeqs(ids(posts)) :
            LET told == [i \in DOMAIN order |-> Row(order[i], got[order[i]])] IN
            /\ triageCheck(posts, told) = agrees(posts, got) /\ judgeCheck(posts, told) = agrees(posts, got)
            /\ ~triageCheck(posts, Append(told, told[1])) /\ ~triageCheck(posts, Tail(told))
            /\ ~judgeCheck(posts, Append(told, Row(9, "DROP"))) /\ ~judgeCheck(posts, Tail(told))
       /\ \E got \in [ids(posts) -> Verdicts] : agrees(posts, got)
       /\ size >= 3 => \A got \in [ids(posts) -> Verdicts] : agrees(posts, got) => got[1] # got[3]
  /\ LET rows == <<Row(1, "PASS"), Row(2, "DROP"), Row(3, "PASS")>> IN
     \A pass, drops \in Lists3 :
       siftCheck(rows, pass, drops) <=> pass \in {<<rows[1], rows[3]>>, <<rows[3], rows[1]>>} /\ drops = <<rows[2]>>

Results(most) ==
  UNION {[1 .. n -> [path : {"t1", "t2", "other"}, status : {"pass", "fail", "skip"}, ours : BOOLEAN]] : n \in 0 .. most}
\* A suite of two tests, one in a suite of its own, and their ends: each comes
\* after its suite's start and before the next start at its suite's depth.
TestStart(nesting, name) == [type |-> "start", nesting |-> nesting, name |-> name]
TestEnd(nesting, name) == [type |-> "end", nesting |-> nesting, name |-> name]
Early == <<TestStart(0, "s"), TestEnd(1, "a"), TestStart(1, "a"), TestStart(1, "in"), TestEnd(2, "b"),
           TestStart(2, "b"), TestStart(0, "c"), TestEnd(0, "c")>>
Late == <<TestStart(0, "s"), TestStart(1, "a"), TestStart(1, "in"), TestStart(2, "b"), TestEnd(2, "b"),
          TestEnd(1, "a"), TestStart(0, "c"), TestEnd(0, "c")>>

\* "PASS needs every recorded name to pass exactly once from testFile, nothing
\* else recorded, no fail, exit 0": whatever a solution made of the report, in
\* any order; a test counts as passed at most once, and its suite is the one it
\* was declared in (polyglot.ts:16-28, 65-85, 130-143).
ScoreExact ==
  /\ \A results \in Results(3), exit \in {0, 1} :
       LET s == polyglotCheck(TRUE, FALSE, results, {"t1", "t2"}, exit)
           of(n) == SelectSeq(results, LAMBDA r : r.path = n)
           one(n) == of(n) = <<[path |-> n, status |-> "pass", ours |-> TRUE]>>
       IN /\ s.pass <=> /\ one("t1") /\ one("t2") /\ exit = 0
                        /\ \A r \in ToSet(of("other")) : r.ours /\ r.status = "skip"
          /\ s.pass => s.passed = 2
          /\ s = polyglotCheck(TRUE, FALSE, Reverse(results), {"t1", "t2"}, exit)
  /\ ToSet(Reported(Early)) = ToSet(Reported(Late))
  /\ ToSet(Reported(Late)) = {<<"s", "a">>, <<"s", "in", "b">>, <<"c">>}
=============================================================================
