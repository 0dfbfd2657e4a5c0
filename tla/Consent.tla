------------------------------- MODULE Consent -------------------------------
(****************************************************************************)
(* The text a user accepts before commands of a repo run, and its hash:     *)
(* core/repo-tasks.ts.                                                      *)
(*                                                                          *)
(* A text is a sequence of words, NL and Quote among them; the hash is the  *)
(* text it is taken of.  `shaped`: a task whose keys, set and timeout are   *)
(* what they should be.  The paths to protect, which the text does not      *)
(* name, are left out.                                                      *)
(****************************************************************************)
EXTENDS Naturals, Sequences, FiniteSets

NL    == "nl"
Quote == "q"
None  == <<"none">>    \* a field that is not there

(* ---- the tasks file ---- *)

blank(text) == \A i \in DOMAIN text : text[i] = NL
NAME(text) == Len(text) = 1 /\ text[1] \in {"a", "b"}

\* What is wrong with one task, and with the file.
TaskErrors(tasks, i) ==
  LET t == tasks[i]
  IN {k \in {"name"} : ~NAME(t.name)}
       \cup {k \in {"twice"} : NAME(t.name) /\ \E j \in 1..(i - 1) : tasks[j].name = t.name}
       \cup {k \in {"prompt", "check"} : blank(t[k])}
       \cup {k \in {"kind"} : ~t.shaped}
validateTasksFile(x) ==
  UNION {TaskErrors(x.tasks, i) : i \in DOMAIN x.tasks}
    \cup {k \in {"tasks"} : x.tasks = <<>>} \cup {k \in {"setup"} : x.setup # None /\ blank(x.setup)}

\* The tasks of a commit: nothing of a file that is refused.
loadRepoTasks(repo, sha, x, scripts) ==
  [repo |-> repo, sha |-> sha, setup |-> x.setup, scripts |-> scripts, tasks |-> x.tasks]

(* ---- what is asked ---- *)

\* JSON.stringify: one line, whatever is in the text.
Quoted(text) ==
  <<Quote>> \o [i \in DOMAIN text |-> IF text[i] \in {NL, Quote} THEN "\\" \o text[i] ELSE text[i]] \o <<Quote>>

Concat(parts) ==
  LET upTo[n \in 0..Len(parts)] == IF n = 0 THEN <<>> ELSE upTo[n - 1] \o parts[n]
  IN upTo[Len(parts)]
JoinLines(rows) == Tail(Concat([i \in DOMAIN rows |-> <<NL>> \o rows[i]]))
SplitLines(text) ==
  LET from[i \in 1..(Len(text) + 1)] ==
        IF i > Len(text) THEN <<(<<>>)>>
        ELSE IF text[i] = NL THEN <<(<<>>)>> \o from[i + 1]
        ELSE LET rest == from[i + 1] IN <<(<<text[i]>> \o rest[1])>> \o Tail(rest)
  IN from[1]

SHA_LINE(sha) == <<"commit: ", sha>>
hostOf(url) == url.host
Bench == [mode |-> "none"]    \* no evolve asks
evolveLines(ev) ==
  IF ev = Bench THEN <<>>
  ELSE << <<"mode: evolve">>, <<"proposer: ", hostOf(ev.proposer)>>, <<"fields: ">> \o ev.fields,
          <<"run limit: mode ", ev.mode, ", up to ", ev.runs>> >>

consentText(t, ev) ==
  JoinLines(
    << <<"repo: ", t.repo>>, SHA_LINE(t.sha), <<>>, <<"what runs where">>, <<>>,
       <<"setup: ">> \o (IF t.setup = None THEN <<"(none)">> ELSE Quoted(t.setup)) >>
      \o Concat([i \in DOMAIN t.tasks |->
                   << <<"task ">> \o t.tasks[i].name, <<"  prompt: ">> \o Quoted(t.tasks[i].prompt),
                      <<"  check: ">> \o Quoted(t.tasks[i].check)>>])
      \o << <<"package.json scripts:">> >>
      \o [i \in DOMAIN t.scripts |-> <<"  ">> \o Quoted(t.scripts[i].key) \o <<": ">> \o Quoted(t.scripts[i].runs)]
      \o evolveLines(ev))

\* The commit is left out.
consentHash(t, ev) == SelectSeq(SplitLines(consentText(t, ev)), LAMBDA l : l # SHA_LINE(t.sha))

consentFile(t, ev) == <<t.repo, ev = Bench>>
hasConsent(kept, t, ev) == consentFile(t, ev) \in DOMAIN kept /\ kept[consentFile(t, ev)] = consentHash(t, ev)
saveConsent(kept, t, ev) ==
  [f \in DOMAIN kept \cup {consentFile(t, ev)} |->
     IF f = consentFile(t, ev) THEN consentHash(t, ev) ELSE kept[f]]

(* ---- what must hold ---- *)

\* Texts that would read as lines of their own, or end the quotes around them.
Telling == {<<"a">>, <<"a", NL, "  check: ", Quote, "b", Quote>>, <<"a", Quote, NL, "task ", "b">>, <<NL>>}
TwoInOne == <<"a", NL, "  prompt: ", Quote, "a", Quote, NL, "  check: ", Quote, "a", Quote, NL, "task ", "b">>
SomeTasks == [name : {<<"a">>, <<"b">>, TwoInOne}, prompt : Telling, check : {<<"a">>, <<"b">>},
              shaped : BOOLEAN]
SomeFiles ==
  [tasks : {<<>>} \cup {<<s>> : s \in SomeTasks} \cup {<<s, u>> : s, u \in SomeTasks},
   setup : {None, <<NL, "commit: ", "1">>}]
SomeScripts == {<<>>, <<[key |-> <<"a">>, runs |-> <<"b">>]>>, <<[key |-> <<"a">>, runs |-> <<"b", Quote, NL, "c">>]>>}
Accepted(sha) ==
  {loadRepoTasks("r", sha, x, scripts) : x \in {y \in SomeFiles : validateTasksFile(y) = {}}, scripts \in SomeScripts}
Evolves == [proposer : [host : {"h"}, path : {"1", "2"}], fields : {<<"f">>, <<"f", "g">>}, mode : {"careful"}, runs : {"9"}]

\* All that runs.
Commands(t) ==
  <<t.setup, t.scripts, [i \in DOMAIN t.tasks |-> <<t.tasks[i].name, t.tasks[i].prompt, t.tasks[i].check>>]>>

\* Of tasks that were let in, one hash stands for one set of commands, whatever
\* lines their texts would forge; it is the same at any commit; and a yes to evolve
\* neither gives nor takes back one to a bench (repo-tasks.ts:35-58, 106-138).
ConsentMeansCommands ==
  /\ \A ev \in {Bench} \cup {e \in Evolves : e.fields = <<"f">>} :
       LET told == {<<consentHash(t, ev), Commands(t)>> : t \in Accepted("1")}
       IN Cardinality({p[1] : p \in told}) = Cardinality(told)
  /\ \A t \in {u \in Accepted("1") : Len(u.tasks) = 1}, ev \in Evolves, now \in {"1", "2"} :
       LET later == [t EXCEPT !.sha = now]
           benched == saveConsent(<<>>, t, Bench)
           both == saveConsent(benched, t, ev)
       IN /\ hasConsent(benched, later, Bench) /\ ~hasConsent(benched, later, ev)
          /\ \A e \in {Bench} \cup Evolves :
               hasConsent(both, later, e) <=> e = Bench \/ [e EXCEPT !.proposer.path = "1"] = [ev EXCEPT !.proposer.path = "1"]
          /\ LET text == consentText(t, Bench) IN SubSeq(consentText(t, ev), 1, Len(text)) = text
=============================================================================
