------------------------------- MODULE AppAsks -------------------------------
(****************************************************************************)
(* What the page's main window asks serve and when an answer counts         *)
(* (web/src/App.vue): the list of models of the form's host, what the       *)
(* picked model takes, and the poll of the evolve job.  Answers come late,  *)
(* in any order, or fail; meanwhile the user changes the form.              *)
(*                                                                          *)
(* A list stands for the host it came from, a model's info for the model    *)
(* and the host; `Keyed` hosts are asked only by the refresh button.        *)
(****************************************************************************)
EXTENDS Naturals, FiniteSets, Sequences

CONSTANTS
  Hosts,      \* backends, without the model
  Keyed,      \* those that do not list models by themselves
  Local,      \* those on this machine
  Telling,    \* those asked what a model takes, of the ones without a key (Ollama)
  ModelNames,
  NoModel,
  MaxChanges, \* bound: what the user does to the form
  MaxPresses, \* bound: what the user does in the Evolve tab
  MaxEvolves  \* bound: evolves that begin

ASSUME AppAssumption ==
  Keyed \cup Local \cup Telling \subseteq Hosts /\ NoModel \notin ModelNames /\ {MaxChanges, MaxPresses, MaxEvolves} \subseteq Nat

VARIABLES
  form,      \* host and model of the form
  listShown,  \* the host whose list is shown, or NoList
  info,      \* the model and host whose info is shown, or NoInfo
  formAsks,   \* lists and infos under way; an info is void once infoAsk has moved on
  changes,   \* what the user did to the form
  appMounted, \* the page is mounted
  evolving,  \* in serve: how many evolves began, whether one runs
  status,    \* the page's copy
  evolvePolls,\* polls under way: void once evolveAsk has moved on, what serve read, whether
              \* one ran when it was asked
  pollSet,   \* the next poll is set
  told,      \* the evolves whose end made the page read its lists again
  presses    \* what the user did in the Evolve tab

formVars == <<form, listShown, info, formAsks, changes>>
pollVars == <<appMounted, evolving, status, evolvePolls, pollSet, told, presses>>
appVars  == <<formVars, pollVars>>

NoList == "none"
NoInfo == [host |-> NoList, model |-> NoModel]
Unread == [began |-> 0, running |-> FALSE]

AppInit ==
  /\ form \in [host : Hosts, model : {NoModel}]
  /\ listShown = NoList /\ info = NoInfo /\ formAsks = {} /\ changes = 0
  /\ appMounted = FALSE /\ evolving = Unread /\ status = Unread
  /\ evolvePolls = {} /\ pollSet = FALSE /\ told = {} /\ presses = 0

------------------------------------------------------------------------------
\* The form: the list of models and what the picked one takes.

Change == changes < MaxChanges /\ changes' = changes + 1

AsksList(f) == {[kind |-> "list", of |-> f, void |-> FALSE]}
AsksInfo(f) ==
  IF f.model = NoModel \/ f.host \notin Keyed \cup Telling THEN {}
  ELSE {[kind |-> "info", of |-> f, void |-> FALSE]}
\* forgetInfo: an answer on its way is about what was there before.
Voided(as) == {IF a.kind = "info" THEN [a EXCEPT !.void = TRUE] ELSE a : a \in as}

\* The watches.  A change of host asks a host that lists by itself, and what was said of
\* the model stays until that list is there; with a keyed host list and info are let go.
\* A change of model lets the info go, and asks a host without a key.
FormChanges(f) ==
  LET keyed  == f.host \in Keyed
      moved  == f.host # form.host
      picked == f.model # form.model
      let    == picked \/ (moved /\ keyed)
  IN
  /\ Change /\ f # form /\ form' = f
  /\ info' = (IF let THEN NoInfo ELSE info)
  /\ listShown' = (IF moved /\ keyed THEN NoList ELSE listShown)
  /\ formAsks' = (IF let THEN Voided(formAsks) ELSE formAsks)
             \cup (IF moved /\ ~keyed THEN AsksList(f) ELSE {})
             \cup (IF picked /\ ~keyed THEN AsksInfo(f) ELSE {})

RefreshModels ==
  /\ Change /\ formAsks' = formAsks \cup AsksList(form) /\ UNCHANGED <<form, listShown, info>>

\* A list comes: it is shown, whatever it is of; a form without a model picks the first
\* of a local one, and the watch asks about it.  Else the form's model is asked about
\* here, but for a model changed in the same form (`again`: the form is another one).
ListComes(a, ok, again) ==
  LET picks == ok /\ form.model = NoModel /\ form.host \in Local \ Keyed
  IN
  /\ a.kind = "list" /\ listShown' = (IF ok THEN a.of.host ELSE NoList)
  /\ form' = (IF picks THEN [form EXCEPT !.model = CHOOSE m \in ModelNames : TRUE] ELSE form)
  /\ IF picks \/ form.model = a.of.model \/ again
     THEN info' = NoInfo /\ formAsks' = Voided(formAsks \ {a}) \cup AsksInfo(form')
     ELSE info' = info /\ formAsks' = formAsks \ {a}
  /\ UNCHANGED changes

\* Mutant: any answer counts.
AnyInfoCounts(a) == TRUE
InfoCounts(a) == ~a.void
InfoComes(a, ok) ==
  /\ a.kind = "info" /\ formAsks' = formAsks \ {a}
  /\ info' = (IF InfoCounts(a) /\ ok THEN a.of ELSE info)
  /\ UNCHANGED <<form, listShown, changes>>

FormNext ==
  /\ \/ \E f \in [host : Hosts, model : ModelNames] : FormChanges(f)
     \/ RefreshModels
     \/ \E a \in formAsks, ok \in BOOLEAN :
          InfoComes(a, ok) \/ \E again \in BOOLEAN : ListComes(a, ok, again)
  /\ UNCHANGED pollVars

------------------------------------------------------------------------------
\* pollEvolve: on mount, by the timer, and when the Evolve tab started or stopped one.

Polls ==
  /\ pollSet' = FALSE
  /\ evolvePolls' = {[p EXCEPT !.void = TRUE] : p \in evolvePolls}
              \cup {[void |-> FALSE, was |-> status.running, got |-> Unread, isRead |-> FALSE]}

Mount == ~appMounted /\ appMounted' = TRUE /\ Polls /\ UNCHANGED <<evolving, status, told, presses>>
Poll  == pollSet /\ Polls /\ UNCHANGED <<appMounted, evolving, status, told, presses>>

\* Started in this tab, or elsewhere; stopped in this tab, or it ends.
EvolveStarts ==
  /\ appMounted /\ ~evolving.running /\ evolving.began < MaxEvolves
  /\ evolving' = [began |-> evolving.began + 1, running |-> TRUE]
  /\ Polls \/ UNCHANGED <<evolvePolls, pollSet>>
  /\ UNCHANGED <<appMounted, status, told, presses>>
EvolveEnds ==
  /\ evolving.running /\ evolving' = [evolving EXCEPT !.running = FALSE]
  /\ UNCHANGED <<appMounted, status, evolvePolls, pollSet, told, presses>>
Press ==
  /\ appMounted /\ presses < MaxPresses /\ presses' = presses + 1 /\ Polls
  /\ UNCHANGED <<appMounted, evolving, status, told>>

ServeReads ==
  /\ \E p \in evolvePolls : ~p.isRead /\ evolvePolls' = (evolvePolls \ {p}) \cup {[p EXCEPT !.isRead = TRUE, !.got = evolving]}
  /\ UNCHANGED <<appMounted, evolving, status, pollSet, told, presses>>

\* Only the last ask counts.  While one runs the chain goes on; an end that was seen
\* makes the page read the harness list, and poll once more.
PollComes(ok) ==
  /\ \E p \in evolvePolls :
       /\ p.isRead /\ evolvePolls' = evolvePolls \ {p}
       /\ IF p.void THEN UNCHANGED <<status, pollSet, told>>
          ELSE /\ status' = (IF ok THEN p.got ELSE status)
               /\ told' = (IF ok /\ p.was /\ ~p.got.running THEN told \cup {p.got.began} ELSE told)
               /\ pollSet' = (status'.running \/ (ok /\ p.was))
  /\ UNCHANGED <<appMounted, evolving, presses>>

PollNext ==
  /\ Mount \/ Poll \/ EvolveStarts \/ EvolveEnds \/ Press \/ ServeReads \/ \E ok \in BOOLEAN : PollComes(ok)
  /\ UNCHANGED formVars

AppNext == FormNext \/ PollNext

\* Timers fire and serve answers; an answer may fail, but not each one.
AppFairness ==
  /\ WF_appVars(Poll /\ UNCHANGED formVars) /\ WF_appVars(ServeReads /\ UNCHANGED formVars)
  /\ SF_appVars(PollComes(TRUE) /\ UNCHANGED formVars)

AppSpec == AppInit /\ [][AppNext]_appVars /\ AppFairness

------------------------------------------------------------------------------
AppTypeOK ==
  /\ listShown \in Hosts \cup {NoList} /\ form.host \in Hosts
  /\ \A a \in formAsks : a.kind \in {"list", "info"}
  /\ status.began <= MaxEvolves /\ told \subseteq 0 .. MaxEvolves

\* What is said of a model is of the form's model and host; of another host only while
\* the form's host is asked for its list.
InfoCurrent ==
  info # NoInfo =>
    /\ info.model = form.model
    /\ info.host = form.host \/ \E a \in formAsks : a.kind = "list" /\ a.of.host = form.host
\* One chain of polls, and while the page thinks an evolve runs, there is one.
Chain == {p \in evolvePolls : ~p.void}
OneChainOfPolls ==
  /\ Cardinality(Chain) <= 1 /\ (pollSet => Chain = {})
  /\ status.running => pollSet \/ Chain # {}
\* The status never goes back.
NeverOlder ==
  \/ status'.began > status.began
  \/ status'.began = status.began /\ (status'.running => status.running)

\* Of answers in any order the page shows the one of what is in the form now, and of
\* the evolve job the newest state it was told; an end is seen, and its lists are read
\* again (App.vue:80-108, 175-187, 193-204).
AppCurrent ==
  /\ [](AppTypeOK /\ InfoCurrent /\ OneChainOfPolls)
  /\ [][NeverOlder]_appVars
  /\ \A n \in 1 .. MaxEvolves :
       status = [began |-> n, running |-> TRUE] /\ ~evolving.running ~> n \in told \/ status.began > n \/ evolving.running

=============================================================================
