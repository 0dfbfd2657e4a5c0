------------------------------- MODULE Edits -------------------------------
(****************************************************************************)
(* The one edit a candidate of evolve is: checkEdit and applyEdit of        *)
(* core/evolve.ts over the leaves of a harness, with the rules of           *)
(* validateConfig that tie those leaves to each other, and what the next    *)
(* proposer is told of a refused edit.                                      *)
(*                                                                          *)
(* A harness is what its leaves hold.  "tools" stands for all an edit may   *)
(* not touch, the three loop fields for the numbers an edit may set.        *)
(****************************************************************************)
EXTENDS Integers, Sequences, FiniteSets
LOCAL INSTANCE SequencesExt

CONSTANTS
  Proposals,   \* bound: the edits a proposer comes up with
  Chain        \* bound: edits of one journal

\* A number is counted in halves, so that one need not be whole.
ALLOWED == {"systemPrompt", "maxTurns", "maxRepeats", "freshContext"}
Leaves == ALLOWED \cup {"tools"}
Absent == -1
Number(n) == [text |-> "", n |-> n]
Text(t) == [text |-> t, n |-> 0]
IsText(v) == v.text # ""
Whole(v) == ~IsText(v) /\ v.n % 2 = 0

\* The paragraph is appended, a number set.
applyEdit(cfg, e) ==
  IF e.field = "systemPrompt" THEN [cfg EXCEPT !.systemPrompt = Append(@, e.value)]
  ELSE [cfg EXCEPT ![e.field] = e.value]

diffPaths(x, y) == {p \in Leaves : x[p] # y[p]}

\* Not a rule of one leaf alone: a fresh context comes before the loop is
\* called one, so it needs maxRepeats and may not be above it.
validConfig(c) ==
  /\ Whole(c.maxTurns) /\ c.maxTurns.n > 0
  /\ c.maxRepeats.n # Absent => Whole(c.maxRepeats) /\ c.maxRepeats.n >= 0
  /\ c.freshContext.n # Absent =>
       /\ c.maxRepeats.n # Absent
       /\ Whole(c.freshContext) /\ c.freshContext.n >= 2 /\ c.freshContext.n <= c.maxRepeats.n

badText(v) == ~IsText(v) \/ v.text \in {"blank", "long", "hidden"}

whyRefused(e, current, original, tried) ==
  CASE e.field \notin ALLOWED -> "field not allowed"
    [] e.field = "systemPrompt" /\ badText(e.value) -> "bad value"
    [] e.field = "systemPrompt" /\ e.value.text = "command" -> "looks like a command or an address"
    [] e.field = "systemPrompt" /\ e.value.text = "tied" -> "tied to a task"
    [] e.field # "systemPrompt" /\ IsText(e.value) -> "bad value"
    [] e.field = "maxTurns" /\ ~Whole(e.value) -> "bad value"
    [] e.field = "maxTurns" /\ e.value.n > 2 * original.maxTurns.n -> "above 2x the original"
    [] \E t \in tried : t.field = e.field /\ t.value = e.value -> "already tried"
    [] ~validConfig(applyEdit(current, e)) -> "invalid config"
    [] \/ diffPaths(applyEdit(current, e), current) \ {e.field} # {}
       \/ diffPaths(applyEdit(current, e), original) \ ALLOWED # {} -> "changes more than one field"
    [] OTHER -> "may run"

\* What a refusal leaves for the next proposer: nothing of a text that holds a
\* task's words, nor the name of a field that is free text itself.
rejected(e, reason) ==
  [field |-> IF e.field \in ALLOWED THEN e.field ELSE "other",
   value |-> IF reason = "tied to a task" \/ e.value.text = "tied" THEN Text("left out") ELSE e.value,
   reason |-> reason]

\* What a journal of one more edit leads to: it is refused, or it runs and is
\* kept or not.  An edit counts as tried whatever became of it.
Replayed(h, original) ==
  UNION {LET said == whyRefused(e, h.current, original, h.tried)
             refused == [h EXCEPT !.tried = @ \cup {e}, !.told = @ \cup {rejected(e, IF said = "may run" THEN "no gain" ELSE said)}]
             kept == [h EXCEPT !.tried = @ \cup {e}, !.current = applyEdit(h.current, e), !.kept = Append(@, e)]
         IN IF said = "may run" THEN {refused, kept} ELSE {refused} : e \in Proposals}

Journals(original) ==
  LET start == [current |-> original, tried |-> {}, told |-> {}, kept |-> <<>>]
      after[n \in 0..Chain] == IF n = 0 THEN {start} ELSE UNION {Replayed(h, original) : h \in after[n - 1]}
  IN UNION {after[n] : n \in 0..Chain}

Originals ==
  [systemPrompt : {<<>>}, tools : {Number(0)}, maxTurns : {Number(4)},
   maxRepeats : {Number(Absent), Number(4)}, freshContext : {Number(Absent), Number(4)}]

\* However many edits are kept, the harness stays one a run accepts, differs
\* from the original in allowed leaves only, keeps its prompt in front, never
\* gets more than twice the original's turns, and no edit was kept twice; no
\* task's words reach the next proposer (evolve.ts:206-213, 281-282, 521-523).
EditsContained ==
  \A original \in {o \in Originals : validConfig(o)} : \A h \in Journals(original) :
    /\ validConfig(h.current)
    /\ diffPaths(h.current, original) \subseteq {h.kept[i].field : i \in DOMAIN h.kept} \cap ALLOWED
    /\ IsPrefix(original.systemPrompt, h.current.systemPrompt)
    /\ h.current.maxTurns.n <= 2 * original.maxTurns.n
    /\ Cardinality(ToSet(h.kept)) = Len(h.kept)
    /\ \A r \in h.told : r.value.text # "tied" /\ r.field \in ALLOWED \cup {"other"}
=============================================================================
