------------------------------- MODULE Evolve -------------------------------
(****************************************************************************)
(* cmdEvolve of cli.ts with the journal of core/evolve.ts: sessions that    *)
(* are stopped by a signal, a spending limit, a server that refuses, or a   *)
(* kill -9 in the middle of a write, and that resume from the journal.      *)
(*                                                                          *)
(* A session keeps no state of its own: after every line it replays the     *)
(* journal.  replay is a fold over the lines, so the journal is modelled by *)
(* what replay works out of it.  A session is single-threaded and can be    *)
(* interrupted by a signal only at an await; a kill comes anywhere.  A run  *)
(* or a proposer's reply costs any of Costs, told as it ends; what a        *)
(* round's runs decide (decideRound, a pure function of its sweeps) is the  *)
(* winner its last sweep line carries, 0 for none.                          *)
(****************************************************************************)
EXTENDS Naturals, Sequences, FiniteSets

CONSTANTS
  Fields,      \* ALLOWED: the fields an edit may touch
  Edits,       \* what the proposer may reply: records [field, value]
  BadEdits,    \* those checkEdit refuses for themselves
  NoEdit,
  Rounds, Repeats,
  Train, Gate, Test,   \* tasks of each set
  Limits,      \* values of --max-usd
  Costs,       \* what one run or one reply may cost
  MaxCost,     \* none costs more
  MaxStops     \* bound: sessions that end before the report

ASSUME EvolveAssumption ==
  /\ Fields # {} /\ \A e \in Edits : e.field \in Fields
  /\ BadEdits \subseteq Edits /\ NoEdit \notin Edits
  /\ {Rounds, Repeats, Train, Gate, Test} \subseteq Nat \ {0}
  /\ Limits \subseteq Nat \ {0} /\ MaxStops \in Nat
  /\ MaxCost \in Nat \ {0} /\ Costs \subseteq 0 .. MaxCost

VARIABLES
  \* on disk
  state,       \* the journal's whole lines, as replay reads them
  torn,        \* the journal ends in a part of a line
  files,       \* vN files: 1 .. files
  testStarts,  \* bytes of the attempt's .tests file
  \* in the process
  pc,
  limit,
  round,
  doing,       \* what the sweep under way measures
  ran,         \* runs of it that have ended
  asks,        \* the proposer was asked this often for the slot
  unsaved,
  line         \* the line about to be written

\* History variables, read by properties only.
VARIABLES
  paid,        \* money of every run and reply so far
  lost,        \* ... of those told whose money a kill took before its line
  unseen,      \* ... of those in flight at a stop, never told
  topLimit,    \* highest limit a session was given
  stops,       \* sessions that ended before the report; also the bound
  killed,      \* one of them by kill -9
  cutTests     \* test sweeps that had begun a run and reached no line

disk == <<state, torn, files, testStarts>>
work == <<round, doing, ran, asks, unsaved, line>>
past == <<paid, lost, unseen, topLimit, stops, killed, cutTests>>
vars == <<disk, pc, limit, work, past>>

------------------------------------------------------------------------------
\* The journal.

Candidates == 2
Slot(r, i) == (r - 1) * Candidates + i
RoundOf(slot) == ((slot - 1) \div Candidates) + 1

NoLine == [type |-> "none", cost |-> 0]
Line(type, cost) == [type |-> type, cost |-> cost]
Proposal(slot, edit, cost) ==
  [type |-> "proposal", cost |-> cost, slot |-> slot, edit |-> edit]
Sweep(r, sweep, cands, winner, cost) ==
  [type |-> "sweep", cost |-> cost, round |-> r, sweep |-> sweep, cands |-> cands, winner |-> winner]
Candidate(slot, edit, version, cost) ==
  [type |-> "candidate", cost |-> cost, slot |-> slot, edit |-> edit, version |-> version]
TestSweep(sweep, cost) == [type |-> "testsweep", cost |-> cost, sweep |-> sweep]
Final(version) == [type |-> "final", cost |-> 0, version |-> version]

\* What replay works out of the lines read so far.
Fresh ==
  [ ok      |-> TRUE,
    started |-> FALSE,
    spent   |-> 0,             \* dollars in the lines
    feed    |-> FALSE,         \* the probe's runs are there
    slots   |-> <<>>,          \* the edit of each slot taken, NoEdit for none
    pending |-> {},            \* slots proposed and not decided
    refused |-> [f \in Fields |-> 0],
    sweeps  |-> 0,
    winner  |-> 0,
    version |-> 0,             \* 0 in a candidate line: not accepted
    tests   |-> 0,
    final   |-> FALSE ]

exhausted(s) == {f \in Fields : s.refused[f] >= 2}

\* checkEdit, with the edits tried so far.
checkEdit(s, e) ==
  e \notin BadEdits /\ \A i \in 1 .. Len(s.slots) : s.slots[i] # e

\* Slots go in order, and a round's proposals are decided before the next one.
claim(s, slot) ==
  /\ slot = Len(s.slots) + 1
  /\ \A p \in s.pending : RoundOf(p) = RoundOf(slot)

legal(s, l) ==
  \/ l.type = "start" /\ ~s.started
  \/ l.type = "cut" /\ s.started
  \/ l.type = "probe" /\ s.started /\ ~s.feed
  \/ /\ l.type = "proposal" /\ s.feed
     /\ claim(s, l.slot) /\ l.edit.field \notin exhausted(s) /\ checkEdit(s, l.edit)
  \/ /\ l.type = "sweep" /\ s.pending # {}
     /\ Len(s.slots) = l.round * Candidates
     /\ l.sweep = s.sweeps + 1 /\ l.sweep <= Repeats /\ l.cands = s.pending
  \/ /\ l.type = "candidate" /\ s.feed /\ l.slot \notin s.pending
     /\ claim(s, l.slot) /\ l.version = 0
  \/ /\ l.type = "candidate" /\ l.slot \in s.pending
     /\ s.sweeps = Repeats /\ l.edit = s.slots[l.slot]
     /\ l.version = IF s.winner = l.slot THEN s.version + 1 ELSE 0
  \/ /\ l.type = "testsweep" /\ s.pending = {} /\ s.version > 0
     /\ l.sweep = s.tests + 1 /\ l.sweep <= Repeats
  \/ /\ l.type = "final" /\ s.feed /\ s.pending = {}
     /\ l.version = s.version /\ s.tests = IF s.version > 0 THEN Repeats ELSE 0

applied(s, l) ==
  LET takes  == IF l.slot > Len(s.slots) THEN Append(s.slots, l.edit) ELSE s.slots
      left   == s.pending \ {l.slot}
      counts == IF l.version > 0 THEN [f \in Fields |-> 0]
                ELSE IF l.edit = NoEdit THEN s.refused
                ELSE [s.refused EXCEPT ![l.edit.field] = @ + 1]
  IN CASE l.type = "start"     -> [s EXCEPT !.started = TRUE]
       [] l.type = "cut"       -> s
       [] l.type = "probe"     -> [s EXCEPT !.feed = TRUE]
       [] l.type = "proposal"  -> [s EXCEPT !.slots = takes, !.pending = @ \cup {l.slot}, !.final = FALSE]
       [] l.type = "sweep"     -> [s EXCEPT !.sweeps = l.sweep, !.winner = l.winner]
       [] l.type = "candidate" -> [s EXCEPT !.slots = takes, !.pending = left, !.refused = counts,
                                            !.sweeps = IF left = {} THEN 0 ELSE @,
                                            !.version = IF l.version > 0 THEN l.version ELSE @,
                                            !.tests = IF l.version > 0 THEN 0 ELSE @,
                                            !.final = FALSE]
       [] l.type = "testsweep" -> [s EXCEPT !.tests = l.sweep, !.final = FALSE]
       [] l.type = "final"     -> [s EXCEPT !.final = TRUE]

\* The journal with one line more, replayed.
replay(s, l) ==
  IF s.ok /\ legal(s, l)
    THEN [applied(s, l) EXCEPT !.spent = @ + l.cost]
    ELSE [s EXCEPT !.ok = FALSE]

\* Every slot has its candidate line: all rounds are in the journal.
AllRounds(s) == Len(s.slots) = Rounds * Candidates /\ s.pending = {}

------------------------------------------------------------------------------
\* A session begins, and how it ends.

Init ==
  /\ state = Fresh /\ torn = FALSE /\ files = 0 /\ testStarts = 0
  /\ pc = "down" /\ limit = 0
  /\ round = 0 /\ doing = "none" /\ ran = 0 /\ asks = 0 /\ unsaved = 0 /\ line = NoLine
  /\ paid = 0 /\ lost = 0 /\ unseen = 0 /\ topLimit = 0 /\ stops = 0 /\ killed = FALSE /\ cutTests = 0

Idle == {"down", "reported", "refused"}
Awaits == {"preflight", "ready", "running", "asking"}

\* Nothing of the process outlives it.
Gone == round' = 0 /\ doing' = "none" /\ ran' = 0 /\ asks' = 0 /\ unsaved' = 0 /\ line' = NoLine

\* A test sweep with a run begun is dropped with its line unwritten.
CutsTest == doing = "test" /\ (ran > 0 \/ pc = "running")

CountStop ==
  /\ stops' = stops + 1
  /\ cutTests' = IF CutsTest THEN cutTests + 1 ELSE cutTests
  /\ UNCHANGED <<lost, topLimit, killed>>

\* A run's or a reply's cost is known only when it ends: of one in flight at a
\* stop something is spent that the program never hears of (README.md:490-491).
DropsInFlight ==
  \E c \in Costs \cup {0} :
    /\ c > 0 => pc \in {"running", "asking"}
    /\ paid' = paid + c /\ unseen' = unseen + c

\* l is written next, by code nothing but a kill can interrupt.
Write(l) == pc' = "write" /\ line' = l

\* Mutant: a stop writes nothing.
ExitSilent(money) ==
  /\ pc' = "down" /\ Gone
  /\ UNCHANGED <<disk, limit>>
  /\ CountStop

\* cutNow, with the money spent since the last line, and the exit.
Exit(money) ==
  /\ IF money > 0 THEN Write(Line("cut", money)) ELSE pc' = "down" /\ line' = NoLine
  /\ round' = 0 /\ doing' = "none" /\ ran' = 0 /\ asks' = 0 /\ unsaved' = 0
  /\ UNCHANGED <<disk, limit>>
  /\ CountStop

\* Mutant: the money not yet in the journal is not counted.
overLimitJournal(money) == state.spent >= limit

overLimit(money) == state.spent + money >= limit

\* Mutant: a torn last line is left where it is.
StartTorn(max) ==
  /\ pc \in Idle
  /\ limit' = max
  /\ Gone
  /\ topLimit' = IF max > topLimit THEN max ELSE topLimit
  /\ \/ /\ ~state.ok \/ (torn /\ ~state.started)
        /\ pc' = "refused" /\ UNCHANGED torn
     \/ /\ state.ok /\ AllRounds(state) /\ state.final
        /\ pc' = "reported" /\ UNCHANGED torn
     \/ /\ state.ok /\ ~(AllRounds(state) /\ state.final) /\ state.spent < max
        /\ torn => state.started
        /\ UNCHANGED torn
        /\ pc' = IF files > state.version THEN "refused" ELSE "preflight"
  /\ UNCHANGED <<state, files, testStarts, paid, lost, unseen, stops, killed, cutTests>>

Start(max) ==
  /\ pc \in Idle
  /\ limit' = max
  /\ Gone
  /\ topLimit' = IF max > topLimit THEN max ELSE topLimit
  /\ \/ /\ ~state.ok \/ (torn /\ ~state.started)
        /\ pc' = "refused" /\ UNCHANGED torn
     \/ /\ state.ok /\ AllRounds(state) /\ state.final
        /\ pc' = "reported" /\ UNCHANGED torn
     \/ /\ state.ok /\ ~(AllRounds(state) /\ state.final) /\ state.spent < max
        /\ torn => state.started
        /\ torn' = FALSE
        /\ pc' = IF files > state.version THEN "refused" ELSE "preflight"
  /\ UNCHANGED <<state, files, testStarts, paid, lost, unseen, stops, killed, cutTests>>

\* Both servers answer, or the session ends before it has cost anything.
Preflight ==
  /\ pc = "preflight"
  /\ IF ~state.started THEN Write(Line("start", 0)) ELSE pc' = "ready" /\ UNCHANGED line
  /\ UNCHANGED <<disk, limit, round, doing, ran, asks, unsaved, past>>

Ready ==
  /\ pc = "ready"
  /\ pc' = "round" /\ round' = 1
  /\ UNCHANGED <<disk, limit, doing, ran, asks, unsaved, line, past>>

FailsBeforeRounds ==
  /\ pc \in {"preflight", "ready"} /\ stops < MaxStops
  /\ Exit(0) /\ UNCHANGED <<paid, unseen>>

\* SIGINT, SIGTERM, SIGHUP.
Signal ==
  /\ pc \in Awaits /\ stops < MaxStops
  /\ Exit(unsaved) /\ DropsInFlight

\* kill -9: the line being written may have got to the disk in part.
Kill ==
  /\ pc \notin Idle /\ stops < MaxStops
  /\ pc' = "down" /\ Gone
  /\ torn' \in {torn, torn \/ pc = "write"}
  /\ lost' = lost + unsaved + line.cost
  /\ DropsInFlight
  /\ killed' = TRUE
  /\ stops' = stops + 1
  /\ cutTests' = IF CutsTest THEN cutTests + 1 ELSE cutTests
  /\ UNCHANGED <<state, files, testStarts, limit, topLimit>>

\* append: one line in one write; then where the session goes on.
After(l) ==
  CASE l.type = "start"     -> "ready"
    [] l.type = "cut"       -> "down"
    [] l.type = "probe"     -> "slot"
    [] l.type = "proposal"  -> "slot"
    [] l.type = "sweep"     -> "measure"
    [] l.type = "candidate" -> IF l.slot \in state.pending THEN "measure" ELSE "slot"
    [] l.type = "testsweep" -> "final"
    [] l.type = "final"     -> "reported"

\* Mutant: what was in flight is not let go once it is written.
AppendedTwice ==
  /\ pc = "write"
  /\ state' = replay(state, IF torn THEN Line("garbage", 0) ELSE line)
  /\ torn' = FALSE
  /\ pc' = IF ~state'.ok THEN "refused" ELSE After(line)
  /\ line' = line /\ doing' = "none" /\ ran' = 0
  /\ UNCHANGED <<files, testStarts, limit, round, asks, unsaved, past>>

Appended ==
  /\ pc = "write"
  /\ state' = replay(state, IF torn THEN Line("garbage", 0) ELSE line)
  /\ torn' = FALSE
  /\ pc' = IF ~state'.ok THEN "refused" ELSE After(line)
  /\ line' = NoLine /\ doing' = "none" /\ ran' = 0
  /\ UNCHANGED <<files, testStarts, limit, round, asks, unsaved, past>>

------------------------------------------------------------------------------
\* The rounds.

\* Mutant: one closed field ends the rounds.
RoundTopEarly ==
  /\ pc = "round"
  /\ IF round > Rounds \/ exhausted(state) # {}
       THEN pc' = "final" /\ UNCHANGED <<doing, ran>>
       ELSE IF state.feed THEN pc' = "slot" /\ UNCHANGED <<doing, ran>>
       ELSE pc' = "sweeping" /\ doing' = "probe" /\ ran' = 0
  /\ UNCHANGED <<disk, limit, round, asks, unsaved, line, past>>

RoundTop ==
  /\ pc = "round"
  /\ IF round > Rounds \/ exhausted(state) = Fields
       THEN pc' = "final" /\ UNCHANGED <<doing, ran>>
       ELSE IF state.feed THEN pc' = "slot" /\ UNCHANGED <<doing, ran>>
       ELSE pc' = "sweeping" /\ doing' = "probe" /\ ran' = 0
  /\ UNCHANGED <<disk, limit, round, asks, unsaved, line, past>>

NextSlot == Len(state.slots) + 1

\* Mutant: a round's candidates do not hear of each other.
closedExhausted == exhausted(state)

\* The fields closed to the proposer: for a round's second candidate, also the
\* field of its first.
closed ==
  exhausted(state) \cup
    IF NextSlot = Slot(round, 2) /\ state.slots[NextSlot - 1] # NoEdit
      THEN {state.slots[NextSlot - 1].field} ELSE {}

SlotsTaken ==
  /\ pc = "slot" /\ NextSlot > Slot(round, Candidates)
  /\ pc' = "measure"
  /\ UNCHANGED <<disk, limit, work, past>>

NothingToPropose ==
  /\ pc = "slot" /\ NextSlot <= Slot(round, Candidates) /\ closed = Fields
  /\ Write(Candidate(NextSlot, NoEdit, 0, 0))
  /\ UNCHANGED <<disk, limit, round, doing, ran, asks, unsaved, past>>

Ask ==
  /\ pc = "slot" /\ NextSlot <= Slot(round, Candidates) /\ closed # Fields
  /\ IF overLimit(0)
       THEN Exit(0) /\ UNCHANGED <<paid, unseen>>
       ELSE pc' = "asking" /\ asks' = 1
            /\ UNCHANGED <<disk, limit, round, doing, ran, unsaved, line, past>>

AskFails ==
  /\ pc = "asking" /\ stops < MaxStops
  /\ Exit(unsaved) /\ DropsInFlight

\* A first reply on a closed field is asked again; a second is refused.
Reply(e, price) ==
  LET cost    == unsaved + price
      onClosed == e # NoEdit /\ e.field \in closed
      fine    == e # NoEdit /\ ~onClosed /\ checkEdit(state, e)
  IN /\ pc = "asking"
     /\ paid' = paid + price /\ UNCHANGED unseen
     /\ IF onClosed /\ asks = 1
          THEN IF overLimit(cost) THEN Exit(cost)
               ELSE asks' = 2 /\ unsaved' = cost
                    /\ UNCHANGED <<disk, pc, limit, round, doing, ran, line, lost, topLimit,
                                   stops, killed, cutTests>>
          ELSE /\ Write(IF fine THEN Proposal(NextSlot, e, cost) ELSE Candidate(NextSlot, e, 0, cost))
               /\ asks' = 0 /\ unsaved' = 0
               /\ UNCHANGED <<disk, limit, round, doing, ran, lost, topLimit, stops, killed, cutTests>>

\* The round's proposals that have no verdict yet.
open == {p \in state.pending : RoundOf(p) = round}

\* Mutant: a round that has been done is looked at for ever.
MeasureStuck ==
  /\ pc = "measure"
  /\ IF open = {} THEN pc' = "round" /\ UNCHANGED <<round, doing, ran>>
     ELSE IF state.sweeps < Repeats
       THEN pc' = "sweeping" /\ doing' = "sweep" /\ ran' = 0 /\ UNCHANGED round
       ELSE pc' = "decide" /\ UNCHANGED <<round, doing, ran>>
  /\ UNCHANGED <<disk, limit, asks, unsaved, line, past>>

\* Measure the round's proposals, decide them, or go on to the next round.
Measure ==
  /\ pc = "measure"
  /\ IF open = {} THEN pc' = "round" /\ round' = round + 1 /\ UNCHANGED <<doing, ran>>
     ELSE IF state.sweeps < Repeats
       THEN pc' = "sweeping" /\ doing' = "sweep" /\ ran' = 0 /\ UNCHANGED round
       ELSE pc' = "decide" /\ UNCHANGED <<round, doing, ran>>
  /\ UNCHANGED <<disk, limit, asks, unsaved, line, past>>

First(S) == CHOOSE p \in S : \A q \in S : p <= q

\* writeVersion comes before the line that names the version.
Decide ==
  LET p == First(open)
      v == IF state.winner = p THEN state.version + 1 ELSE 0
  IN /\ pc = "decide"
     /\ files' = IF v > 0 THEN v ELSE files
     /\ IF v > 0 /\ files >= v THEN pc' = "refused" /\ UNCHANGED line
        ELSE Write(Candidate(p, state.slots[p], v, 0))
     /\ UNCHANGED <<state, torn, testStarts, limit, round, doing, ran, asks, unsaved, past>>

\* Mutant: the byte counts the sweeps in the journal, not those started.
FinalTestJournal ==
  /\ pc = "final"
  /\ IF state.final THEN pc' = "reported" /\ UNCHANGED <<testStarts, doing, ran, line>>
     ELSE IF state.version > 0 /\ state.tests < Repeats
       THEN /\ testStarts' = state.tests + 1
            /\ pc' = "sweeping" /\ doing' = "test" /\ ran' = 0 /\ UNCHANGED line
       ELSE Write(Final(state.version)) /\ UNCHANGED <<testStarts, doing, ran>>
  /\ UNCHANGED <<state, torn, files, limit, round, asks, unsaved, past>>

\* The final test, its byte written before its first run.
FinalTest ==
  /\ pc = "final"
  /\ IF state.final THEN pc' = "reported" /\ UNCHANGED <<testStarts, doing, ran, line>>
     ELSE IF state.version > 0 /\ state.tests < Repeats
       THEN /\ testStarts' = testStarts + 1
            /\ pc' = "sweeping" /\ doing' = "test" /\ ran' = 0 /\ UNCHANGED line
       ELSE Write(Final(state.version)) /\ UNCHANGED <<testStarts, doing, ran>>
  /\ UNCHANGED <<state, torn, files, limit, round, asks, unsaved, past>>

------------------------------------------------------------------------------
\* sweepOn: the runs of one sweep, one after another.

Total ==
  CASE doing = "probe" -> Train
    [] doing = "sweep" -> (1 + Cardinality(open)) * (Train + Gate)
    [] doing = "test"  -> 2 * Test

BeginRun ==
  /\ pc = "sweeping"
  /\ IF overLimit(unsaved)
       THEN Exit(unsaved) /\ UNCHANGED <<paid, unseen>>
       ELSE pc' = "running" /\ UNCHANGED <<disk, limit, work, past>>

\* Money moves from unsaved into the line as the sweep returns.
EndRun(winner, price) ==
  LET cost == unsaved + price IN
  /\ pc = "running"
  /\ paid' = paid + price
  /\ ran' = ran + 1
  /\ IF ran' < Total
       THEN /\ winner = 0
            /\ pc' = "sweeping" /\ unsaved' = cost /\ UNCHANGED line
       ELSE /\ winner # 0 => doing = "sweep" /\ state.sweeps + 1 = Repeats /\ winner \in open
            /\ unsaved' = 0
            /\ Write(CASE doing = "probe" -> Line("probe", cost)
                       [] doing = "sweep" -> Sweep(round, state.sweeps + 1, open, winner, cost)
                       [] doing = "test"  -> TestSweep(state.tests + 1, cost))
  /\ UNCHANGED <<disk, limit, round, doing, asks, lost, unseen, topLimit, stops, killed, cutTests>>

\* The server refused the run, or it changed the installed packages.
RunStops(price) ==
  /\ pc = "running" /\ stops < MaxStops
  /\ paid' = paid + price /\ UNCHANGED unseen
  /\ Exit(unsaved + price)

------------------------------------------------------------------------------

Next ==
  \/ \E max \in Limits : Start(max)
  \/ Preflight \/ Ready \/ FailsBeforeRounds \/ Signal \/ Kill \/ Appended
  \/ RoundTop \/ SlotsTaken \/ NothingToPropose \/ Ask \/ AskFails
  \/ \E e \in Edits \cup {NoEdit}, price \in Costs : Reply(e, price)
  \/ Measure \/ Decide \/ FinalTest \/ BeginRun
  \/ \E winner \in 0 .. Rounds * Candidates, price \in Costs : EndRun(winner, price)
  \/ \E price \in Costs : RunStops(price)

Spec == Init /\ [][Next]_vars

------------------------------------------------------------------------------
Points == Idle \cup Awaits \cup {"write", "round", "slot", "measure", "decide", "final", "sweeping"}

LineTypes == {"start", "cut", "probe", "proposal", "sweep", "candidate", "testsweep", "final"}

TypeOK ==
  /\ pc \in Points /\ torn \in BOOLEAN /\ killed \in BOOLEAN
  /\ {files, testStarts, limit, round, ran, asks, unsaved, paid, lost, unseen, topLimit, stops, cutTests} \subseteq Nat
  /\ doing \in {"none", "probe", "sweep", "test"}
  /\ (pc = "write") = (line # NoLine)
  /\ line.type \in LineTypes \cup {"none"} /\ line.cost \in Nat

\* Whatever stops a session, the next one can go on from the journal
\* (cli.ts:600-603): every line written is one that replay accepts, and a start
\* is refused only after a kill that left a torn start line or a version file
\* without its line (cli.ts:754-757, 934).
Resumable ==
  /\ state.ok
  /\ files \in {state.version, state.version + 1}
  /\ pc = "refused" => killed /\ (~state.started \/ files = state.version + 1)

\* Money that the session was told of is never lost but to a kill
\* (cli.ts:731-739): between two sessions the journal holds what every run that
\* ended and every reply cost.  What was in flight at a stop it cannot hold.
MoneyKept == pc \in Idle => state.spent + lost + unseen = paid

\* --max-usd (cli.ts:740-747, 810, 847): over all sessions, and whatever was cut
\* and measured again, no run and no request is under way once the money told of
\* has reached the session's limit, so the highest limit is overshot by less
\* than one run or reply.  The promise is about that money only: a kill may lose
\* some, and each stop may add one run or reply in flight that no session counts
\* (README.md:490-492).
LimitHolds ==
  /\ pc \in {"running", "asking"} => paid < limit + lost + unseen
  /\ paid < topLimit + MaxCost + lost + unseen
  /\ unseen <= stops * MaxCost

\* No proposal is left without a verdict by the end of the rounds
\* (cli.ts:887, evolve.ts:466): while one waits, a field is open.
PendingMeansOpen == state.pending # {} => exhausted(state) # Fields

\* A test sweep that was cut and rolled again shows in the report's count of
\* started sweeps (cli.ts:720, README.md:464-466).
RolledTestShows ==
  pc = "reported" /\ state.version > 0 /\ cutTests > 0 => testStarts > Repeats

\* The other way round, as README.md:465-466 says it: a count that differs from
\* the repeats means that a test was cut and rolled again.
CountMeansRolled ==
  pc = "reported" /\ state.version > 0 /\ testStarts # Repeats => cutTests > 0

\* A finished evolve started again prints its report without a request
\* (cli.ts:713).
FinishedIsOnlyPrinted == [][state.final => pc' # "preflight"]_vars

\* With or without stops, the journal grows as that of an evolve nothing stops.
Steps == INSTANCE EvolveSteps WITH
  slots    <- Len(state.slots),
  pending  <- state.pending,
  sweeps   <- state.sweeps,
  version  <- state.version,
  tests    <- state.tests,
  over     <- exhausted(state) = Fields,
  finished <- state.final

StopsUnseen == Steps!Spec

\* Every run ends, at its timeout at the latest, and so does every request of
\* the proposer (cli.ts:301, 849); the rest is the session's own work.
FairSpec ==
  /\ Spec
  /\ WF_vars(Preflight \/ Ready \/ Appended \/ RoundTop \/ SlotsTaken \/ NothingToPropose
             \/ Ask \/ (\E e \in Edits \cup {NoEdit}, p \in Costs : Reply(e, p)) \/ Measure \/ Decide
             \/ FinalTest \/ BeginRun \/ (\E w \in 0 .. Rounds * Candidates, p \in Costs : EndRun(w, p)))

\* A session comes to its report or to a stop.
SessionEnds == pc = "preflight" ~> pc \in Idle
=============================================================================
