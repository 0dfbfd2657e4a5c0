----------------------------- MODULE Decisions -----------------------------
(****************************************************************************)
(* The numbers of evolve: the permutation test of core/stats.ts, the cost   *)
(* gates of core/evolve-cost.ts, and what core/evolve.ts decides by them: a *)
(* candidate against the current version, the winner of a round, the last   *)
(* version against the original.                                            *)
(*                                                                          *)
(* All of it is pure, so these are operators, checked over every version of *)
(* a few tasks.  A ratio is compared by cross-multiplication; a geometric   *)
(* mean of ratios (a mean of logs) is compared by its product.  A mean is   *)
(* kept in units of 1 / Unit.  The sampled half of permP and signFlipP, for *)
(* more labellings than can be enumerated, is left out.                     *)
(****************************************************************************)
EXTENDS Integers, Sequences, FiniteSets
LOCAL INSTANCE SequencesExt
LOCAL INSTANCE FiniteSetsExt
LOCAL INSTANCE Folds
LOCAL INSTANCE Combinatorics

CONSTANTS
  GateTasks,     \* gateNames
  Alpha,         \* ALPHA, a record [num, den]
  CostAlpha,     \* COST_ALPHA
  MinShared,     \* MIN_SHARED
  Unit           \* a multiple of every number of runs a mean is taken of

\* undefined where a number is optional, and a turn cap no run reaches.
NoNumber == -1
Infinity == 1000

\* x / y > num / den
Above(x, y, num, den) == x * den > y * num
Product(f, S) == MapThenFoldSet(LAMBDA x, y : x * y, 1, LAMBDA t : f[t], LAMBDA T : CHOOSE t \in T : TRUE, S)

(* ---- core/stats.ts ---- *)

sum(xs) == MapThenSumSet(LAMBDA i : xs[i], DOMAIN xs)
mean(xs) == (Unit * sum(xs)) \div Len(xs)

\* A run: its task, verdict, and the numbers it has.  values: one for each run.
groupBy(runs, values) ==
  LET tasks == {runs[i].task : i \in {j \in DOMAIN runs : values[j] # NoNumber}}
  IN [t \in tasks |-> SelectSeq([i \in DOMAIN runs |-> IF runs[i].task = t THEN values[i] ELSE NoNumber],
                                LAMBDA v : v # NoNumber)]

hit(t, obs, side) == IF side = "two" THEN (IF t < 0 THEN -t ELSE t) >= (IF obs < 0 THEN -obs ELSE obs) ELSE t >= obs

\* mean(b) - mean(a) when the values labelled b sum to bs.
stat(s, bs) ==
  (Unit * bs) \div Len(s.b) - (Unit * (sum(s.a) + sum(s.b) - bs)) \div Len(s.a)

\* The hits among all ways to pick which values of each stratum are labelled b;
\* a stratum with one value has the same statistic under each and is left out.
permP(strata, side) ==
  LET ss == {t \in DOMAIN strata : Cardinality(ToSet(strata[t].a \o strata[t].b)) > 1}
      pool(t) == strata[t].a \o strata[t].b
      picks(t) == kSubset(Len(strata[t].b), DOMAIN pool(t))
      at(f) == MapThenSumSet(LAMBDA t : stat(strata[t], MapThenSumSet(LAMBDA j : pool(t)[j], f[t])), ss)
      obs == MapThenSumSet(LAMBDA t : stat(strata[t], sum(strata[t].b)), ss)
      labellings == {f \in [ss -> UNION {picks(t) : t \in ss}] : \A t \in ss : f[t] \in picks(t)}
  IN [hits |-> Cardinality({f \in labellings : hit(at(f), obs, side)}),
      total |-> Product([t \in ss |-> choose(Len(pool(t)), Len(strata[t].b))], ss)]

\* The sign patterns under which the mean of log(up / low) is at least the one
\* observed: those whose flipped part does not weigh more than nothing.
signFlipHits(up, low, tasks) ==
  Cardinality({F \in SUBSET tasks : Product(up, F) <= Product(low, F)})

(* ---- core/evolve-cost.ts ---- *)

numbersOf(runs) ==
  LET passed == {i \in DOMAIN runs : runs[i].pass}
      measured == {i \in DOMAIN runs : runs[i].first # NoNumber}
  IN [pass |-> Cardinality(passed),
      tokens |-> IF \E i \in DOMAIN runs : runs[i].tokens = NoNumber THEN NoNumber
                 ELSE MapThenSumSet(LAMBDA i : runs[i].tokens, DOMAIN runs),
      weight |-> IF measured = {} THEN NoNumber ELSE MapThenSumSet(LAMBDA i : runs[i].first, measured)]

\* Tokens per success are more than a tenth above the base's; all tokens when
\* the base has no PASS.
TokensOver(b, c) ==
  /\ b.tokens \notin {NoNumber, 0}
  /\ c.tokens # NoNumber /\ (b.pass > 0 => c.pass > 0)
  /\ IF b.pass > 0 THEN Above(c.tokens * b.pass, b.tokens * c.pass, 11, 10)
     ELSE Above(c.tokens, b.tokens, 11, 10)
tokensGate(base, cand) == TokensOver(numbersOf(base), numbersOf(cand))

\* What turns may grow to over their mean `total / n`: +20% up to 10, at least
\* +1; +10% beyond, at least +2.  A factor.
allowedTurns(total, n) ==
  IF total <= 10 * n
  THEN IF total >= 5 * n THEN [num |-> 6, den |-> 5] ELSE [num |-> total + n, den |-> total]
  ELSE IF total >= 20 * n THEN [num |-> 11, den |-> 10] ELSE [num |-> total + 2 * n, den |-> total]
allowedTenth == [num |-> 11, den |-> 10]

Means(by) == [t \in DOMAIN by |-> mean(by[t])]
perTask(runs, cost, cap) ==
  LET counts(r) == r.pass /\ r.turns <= cap
  IN Means(groupBy(runs, [i \in DOMAIN runs |-> IF counts(runs[i]) THEN runs[i][cost] ELSE NoNumber]))

\* Of the tasks both have passed: how many, and whether the candidate is over.
Shared(b, c) == {t \in DOMAIN b \cap DOMAIN c : b[t] > 0 /\ c[t] > 0}
Tolerance(b, tasks, cost) ==
  IF cost = "turns" THEN allowedTurns(MapThenSumSet(LAMBDA t : b[t], tasks), Unit * Cardinality(tasks))
  ELSE allowedTenth
Over(up, low, tasks) ==
  /\ Cardinality(tasks) >= MinShared
  /\ Product(up, tasks) > Product(low, tasks)
  /\ Above(CostAlpha.num, CostAlpha.den, signFlipHits(up, low, tasks), 2^Cardinality(tasks))
Compared(b, c, tasks, tol) ==
  [shared |-> Cardinality(tasks),
   over |-> Over([t \in tasks |-> c[t] * tol.den], [t \in tasks |-> b[t] * tol.num], tasks)]
MeansCompared(b, c, cost) == Compared(b, c, Shared(b, c), Tolerance(b, Shared(b, c), cost))
costCheck(base, cand, cost, baseMaxTurns) ==
  MeansCompared(perTask(base, cost, Infinity), perTask(cand, cost, baseMaxTurns), cost)

(* ---- core/evolve.ts ---- *)

usable(runs) == numbersOf(runs).tokens \notin {NoNumber, 0} /\ numbersOf(runs).weight \notin {NoNumber, 0}

\* The smallest number of flips whose sign test is below Alpha.
neededFlips == CHOOSE b \in 0..10 : /\ 2^b * Alpha.num >= Alpha.den
                                    /\ \A k \in 0..10 : 2^k * Alpha.num >= Alpha.den => b <= k

PassesByTask(runs) == groupBy(runs, [i \in DOMAIN runs |-> IF runs[i].pass THEN 1 ELSE 0])
Strata(a, b) == [t \in DOMAIN a \cap DOMAIN b |-> [a |-> a[t], b |-> b[t]]]
GainOf(strata) ==
  [p |-> permP(strata, "greater"),
   improved |-> Cardinality({t \in DOMAIN strata : mean(strata[t].b) > mean(strata[t].a)})]
passGain(cur, cand) == GainOf(Strata(PassesByTask(cur), PassesByTask(cand)))

\* A gain no noise explains: p < Alpha, on as many tasks as the sign test needs.
BeyondNoise(g) == Above(Alpha.num, Alpha.den, g.p.hits, g.p.total) /\ g.improved >= neededFlips
Gains(a, b) == BeyondNoise(passGain(a, b))

costGate(orig, cand, timeBase, cap) ==
  \/ tokensGate(orig, cand)
  \/ /\ costCheck(orig, cand, "turns", cap).shared >= MinShared
     /\ \/ costCheck(orig, cand, "turns", cap).over
        \/ costCheck(orig, cand, "tokens", cap).over
        \/ costCheck(timeBase, cand, "ms", cap).over

\* First requests by task: those the candidate has none of, and the sums over
\* the tasks both have one of.
FirstsOf(o, c, tasks) ==
  [unmeasured |-> tasks \cap (DOMAIN o \ DOMAIN c),
   before |-> MapThenSumSet(LAMBDA t : mean(o[t]), DOMAIN o \cap DOMAIN c),
   after |-> MapThenSumSet(LAMBDA t : mean(c[t]), DOMAIN o \cap DOMAIN c)]
Firsts(orig, cand) ==
  FirstsOf(groupBy(orig, [i \in DOMAIN orig |-> orig[i].first]),
           groupBy(cand, [i \in DOMAIN cand |-> cand[i].first]),
           {cand[i].task : i \in DOMAIN cand})
FirstRequest(f) ==
  CASE f.unmeasured # {} -> "not measured"
    [] f.before = 0 -> "no usage"
    [] Above(f.after, f.before, 5, 4) -> "heavier"
    [] OTHER -> "accepted"

GatePasses(runs) == numbersOf(SelectSeq(runs, LAMBDA r : r.task \in GateTasks)).pass

decide(cur, cand, orig, declarable, cap) ==
  CASE ~usable(cand) \/ ~usable(orig) -> "no usage"
    [] numbersOf(cand).pass = 0 -> "0 PASS"
    [] declarable /\ ~Gains(cur, cand) -> "within noise"
    [] ~declarable /\ numbersOf(cand).pass <= numbersOf(cur).pass -> "no more PASS"
    [] GatePasses(cand) < GatePasses(cur) -> "worse on gate"
    [] costGate(orig, cand, cur, cap) -> "costs more"
    [] OTHER -> FirstRequest(Firsts(orig, cand))

\* Tokens per success times model time; among candidates of equal PASS, whose
\* only use it is, tokens times time.
price(c) == numbersOf(c.runs).tokens * MapThenSumSet(LAMBDA i : c.runs[i].ms, DOMAIN c.runs)
\* Mutant: the cheaper one, whatever it passed.
pickCheaper(a, b) == IF price(a) <= price(b) THEN a ELSE b
\* Of two accepted candidates: more PASS, then the price, then the lower index.
pickWinner(a, b) ==
  LET x == numbersOf(a.runs).pass
      y == numbersOf(b.runs).pass
  IN IF x # y THEN (IF x > y THEN a ELSE b)
     ELSE IF price(a) # price(b) THEN (IF price(a) < price(b) THEN a ELSE b)
     ELSE IF a.index < b.index THEN a ELSE b

\* Each candidate's reason, with at most one accepted.
Winner(yes) == FoldLeft(pickWinner, yes[1], yes)
Settled(cands, said) ==
  LET yes == SelectSeq(cands, LAMBDA c : \E i \in DOMAIN said : cands[i] = c /\ said[i] = "accepted")
  IN [i \in DOMAIN cands |->
       IF said[i] = "accepted" /\ cands[i].index # Winner(yes).index THEN "lost" ELSE said[i]]
decideRound(cur, cands, orig, declarable, cap) ==
  Settled(cands, [i \in DOMAIN cands |-> decide(cur, cands[i].runs, orig, declarable, cap)])

\* The last version against the original on the test tasks.
More(a, b, declarable) ==
  IF declarable THEN Gains(a, b) ELSE Above(numbersOf(b).pass, Len(b), numbersOf(a).pass, Len(a))
verdict(orig, last, declarable, cap) ==
  IF More(orig, last, declarable)
  THEN IF ~usable(orig) \/ ~usable(last) THEN "more, no usage"
       ELSE IF costGate(orig, last, orig, cap) THEN "more, costs more" ELSE "better"
  ELSE IF More(last, orig, declarable) THEN "worse" ELSE "not told apart"

(* ---- what must hold, over every version of a few tasks ---- *)

CONSTANTS
  Tasks,         \* tasks, train and gate
  Times,         \* runs per task
  Levels         \* what a version's runs may cost

\* A version's runs: which pass, and one level of cost, at which a run that
\* failed may have had no reply, so no first request.
Runs(passing, level) ==
  LET slots == SetToSeq(Tasks \X (1..Times))
  IN [i \in DOMAIN slots |->
       [task |-> slots[i][1], pass |-> slots[i] \in passing,
        tokens |-> level.tokens, turns |-> level.turns, ms |-> level.ms,
        first |-> IF level.silent /\ slots[i] \notin passing THEN NoNumber ELSE level.first]]
Versions == {Runs(p, l) : p \in SUBSET (Tasks \X (1..Times)), l \in Levels}
Cap == 4

\* The test is the textbook's: the share of all relabellings, of all strata,
\* whose statistic is at least the one observed (stats.ts:27, 29).
PermutationExact ==
  LET strata == [1..2 -> [a : [1..2 -> 0..1], b : [1..2 -> 0..1]]]
      shuffles == [1..2 -> Permutations(1..4)]
      sideB(s, p) == sum(SubSeq([j \in 1..4 |-> (s.a \o s.b)[p[j]]], 3, 4))
      at(s, f) == stat(s[1], sideB(s[1], f[1])) + stat(s[2], sideB(s[2], f[2]))
      seen(s) == stat(s[1], sum(s[1].b)) + stat(s[2], sum(s[2].b))
      far(s, f) == at(s, f) >= seen(s)
  IN \A s \in strata :
       permP(s, "greater").hits * Cardinality(shuffles)
         = Cardinality({f \in shuffles : far(s, f)}) * permP(s, "greater").total

\* An accepted candidate passes more runs than the version it replaces and its
\* ratios were numbers, whichever mode decided (evolve.ts:107, 113-117); no two
\* versions each gain on the other.
GainIsReal ==
  /\ \A cur, cand, orig \in Versions, declarable \in BOOLEAN :
       decide(cur, cand, orig, declarable, Cap) = "accepted" =>
         /\ numbersOf(cand).pass > numbersOf(cur).pass
         /\ numbersOf(orig).tokens > 0 /\ Firsts(orig, cand).before > 0
         /\ \A t \in Tasks : (\E i \in DOMAIN orig : orig[i].task = t /\ orig[i].first # NoNumber) =>
                              (\E i \in DOMAIN cand : cand[i].task = t /\ cand[i].first # NoNumber)
  /\ \A x, y \in Versions, declarable \in BOOLEAN :
       verdict(x, y, declarable, Cap) = "better" => numbersOf(y).pass > numbersOf(x).pass
  /\ \A x, y \in Versions : ~(Gains(x, y) /\ Gains(y, x))

Better(x, y) == \/ numbersOf(x.runs).pass > numbersOf(y.runs).pass
                \/ numbersOf(x.runs).pass = numbersOf(y.runs).pass /\ price(x) < price(y)
WinnerStands(c1, c2, there, back) ==
  /\ there = Reverse(back)
  /\ there # <<"accepted", "accepted">>
  /\ there[1] = "lost" => there[2] = "accepted" /\ ~Better(c1, c2)
  /\ there[2] = "lost" => there[1] = "accepted" /\ ~Better(c2, c1)

\* A round keeps one candidate at most, none better than it by PASS and then
\* price, and the same one in whatever order its candidates are listed
\* (evolve.ts:134, 143: the run loop and replay both come here).
OneWinner ==
  LET base == Runs({}, CHOOSE l \in Levels : l.tokens > 0 /\ ~l.silent)
  IN \A v, w \in Versions, declarable \in BOOLEAN :
       LET c1 == [index |-> 1, runs |-> v]
           c2 == [index |-> 2, runs |-> w]
       IN WinnerStands(c1, c2, decideRound(base, <<c1, c2>>, base, declarable, Cap),
                               decideRound(base, <<c2, c1>>, base, declarable, Cap))

\* A cost within its allowance on every shared task is never over; one beyond
\* it on every shared task is, once there are tasks enough to tell
\* (evolve-cost.ts:1, 35-36, 57-58).
CostsTold ==
  LET costs == [Tasks -> 1..4]
      version(c) == LET slots == SetToSeq(Tasks)
                    IN [i \in DOMAIN slots |-> [task |-> slots[i], pass |-> TRUE, turns |-> c[slots[i]],
                                                tokens |-> c[slots[i]], ms |-> c[slots[i]], first |-> 1]]
      total(c) == MapThenSumSet(LAMBDA t : c[t], Tasks)
      tol(cost, b) == IF cost = "turns" THEN allowedTurns(total(b), Cardinality(Tasks)) ELSE allowedTenth
  IN \A b, c \in costs, cost \in {"turns", "tokens"} :
       LET f == tol(cost, b)
           over == costCheck(version(b), version(c), cost, Cap).over
       IN /\ (\A t \in Tasks : c[t] * f.den <= b[t] * f.num) => ~over
          /\ (\A t \in Tasks : c[t] * f.den > b[t] * f.num) => over
=============================================================================
