---------------------------- MODULE EvolveProofs ----------------------------
(* What is proved of Evolve for any number of rounds, repeats, tasks, edits  *)
(* and limits, and any number of sessions that are stopped or killed.        *)
EXTENDS Evolve, TLAPS

\* A round has the slots from its first to its second.
LEMMA RoundBounds ==
  ASSUME NEW n \in Nat \ {0}
  PROVE  /\ RoundOf(n) \in Nat \ {0}
         /\ Slot(RoundOf(n), 1) <= n /\ n <= Slot(RoundOf(n), 2)
         /\ 2 * RoundOf(n) - 1 <= n /\ n <= 2 * RoundOf(n)
BY DEF RoundOf, Slot, Candidates

LEMMA RoundUnique ==
  ASSUME NEW n \in Nat \ {0}, NEW r \in Nat \ {0}, Slot(r, 1) <= n, n <= Slot(r, 2)
  PROVE  RoundOf(n) = r
BY DEF RoundOf, Slot, Candidates

Journals ==
  [ ok : BOOLEAN, started : BOOLEAN, spent : Nat, feed : BOOLEAN,
    slots : Seq(Edits \cup {NoEdit}), pending : SUBSET Nat, refused : [Fields -> Nat],
    sweeps : Nat, winner : Nat, version : Nat, tests : Nat, final : BOOLEAN ]

All == Rounds * Candidates

RoundsOver(s) == s.pending = {} /\ (exhausted(s) = Fields \/ Len(s.slots) = All)

\* The proposals that wait are of the newest round, and each has an edit.
PendingOfRound(s) ==
  \A p \in s.pending : /\ p \in 1 .. Len(s.slots) /\ s.slots[p] # NoEdit
                       /\ RoundOf(p) = RoundOf(Len(s.slots))

\* A field is open while a proposal waits: its own, or, if its round's second
\* slot was refused, one that the second was asked about.
FieldsOpen(s) ==
  /\ s.pending # {} => exhausted(s) # Fields
  /\ \A p \in s.pending : p = Len(s.slots) /\ p = Slot(RoundOf(p), 1) =>
       s.slots[p].field \notin exhausted(s)
  /\ \A p, q \in s.pending : p # q =>
       s.slots[p].field \notin exhausted(s) /\ s.slots[p].field # s.slots[q].field

\* Sweeps are those of a round whose slots are all taken.
SweepsOfRound(s) ==
  /\ s.sweeps <= Repeats
  /\ s.pending = {} => s.sweeps = 0
  /\ s.sweeps > 0 => Len(s.slots) = RoundOf(Len(s.slots)) * Candidates

\* A round keeps one version at most.
VersionOfRound(s) ==
  /\ s.winner <= Len(s.slots)
  /\ s.winner \in s.pending => s.sweeps = Repeats
  /\ s.pending = {} => s.version * Candidates <= Len(s.slots)
  /\ s.pending # {} => s.version <= RoundOf(Len(s.slots))
  /\ s.pending # {} /\ (s.winner \in s.pending \/ s.sweeps < Repeats) =>
       s.version < RoundOf(Len(s.slots))

\* The tests are those of the last version, after the rounds.
TestsOfLast(s) ==
  /\ s.tests <= Repeats
  /\ s.tests > 0 => s.version > 0
  /\ s.tests > 0 \/ s.final => RoundsOver(s)
  /\ s.final => s.tests = IF s.version > 0 THEN Repeats ELSE 0

RoundsSound(s) ==
  /\ Len(s.slots) <= All
  /\ PendingOfRound(s) /\ FieldsOpen(s) /\ SweepsOfRound(s) /\ VersionOfRound(s) /\ TestsOfLast(s)

JournalInv(s) ==
  /\ s \in Journals /\ s.ok
  /\ s.feed => s.started
  /\ ~s.feed => /\ s.slots = <<>> /\ s.tests = 0 /\ ~s.final
                /\ s.refused = [f \in Fields |-> 0]
  /\ RoundsSound(s)

------------------------------------------------------------------------------
\* The session.

\* Where a round stands: the rounds before it are done with.
AtRound ==
  /\ round \in Nat \ {0} /\ state.started
  /\ Len(state.slots) >= Slot(round, 1) - 1
  /\ \A p \in state.pending : RoundOf(p) >= round
  /\ round > 1 => state.feed

InRound == AtRound /\ round <= Rounds /\ state.feed

\* A slot of the round is to be taken.
AtSlot == InRound /\ (state.tests > 0 \/ state.final => Len(state.slots) = All)
FreeSlot == AtSlot /\ NextSlot <= Slot(round, Candidates)

\* All slots of the round are taken.
Taken == InRound /\ Len(state.slots) >= Slot(round, Candidates)
Measuring == Taken /\ open # {} /\ state.sweeps < Repeats
Deciding == Taken /\ open # {} /\ state.sweeps = Repeats

Probing == AtRound /\ round <= Rounds /\ ~state.feed
Over == state.started /\ state.feed /\ RoundsOver(state)
Testing == Over /\ ~state.final /\ state.version > 0 /\ state.tests < Repeats

\* The line about to be written is one that replay accepts.
StartLine == line = Line("start", 0) /\ ~state.started /\ doing = "none"
CutLine == \E c \in Nat : line = Line("cut", c) /\ state.started /\ doing = "none"
ProbeLine == \E c \in Nat : line = Line("probe", c) /\ Probing /\ doing = "probe"

ProposalLine ==
  \E e \in Edits, c \in Nat :
    /\ line = Proposal(NextSlot, e, c) /\ FreeSlot /\ doing = "none"
    /\ e.field \notin closed /\ checkEdit(state, e)

RefusalLine ==
  \E e \in Edits \cup {NoEdit}, c \in Nat :
    /\ line = Candidate(NextSlot, e, 0, c) /\ FreeSlot /\ doing = "none"
    /\ e # NoEdit => closed # Fields

SweepLine ==
  \E w, c \in Nat :
    /\ line = Sweep(round, state.sweeps + 1, open, w, c) /\ Measuring /\ doing = "sweep"
    /\ w # 0 => w \in open /\ state.sweeps + 1 = Repeats

VerdictLine ==
  \E p \in open :
    /\ line = Candidate(p, state.slots[p], IF state.winner = p THEN state.version + 1 ELSE 0, 0)
    /\ Deciding /\ doing = "none"
    /\ state.winner = p => files = state.version + 1

TestLine == \E c \in Nat : line = TestSweep(state.tests + 1, c) /\ Testing /\ doing = "test"

FinalLine ==
  /\ line = Final(state.version) /\ Over /\ ~state.final /\ doing = "none"
  /\ state.tests = IF state.version > 0 THEN Repeats ELSE 0

LineInv ==
  \/ StartLine \/ CutLine \/ ProbeLine \/ ProposalLine \/ RefusalLine
  \/ SweepLine \/ VerdictLine \/ TestLine \/ FinalLine

\* What a session knows at each point of it.
SessionInv ==
  /\ pc \notin {"sweeping", "running", "write"} => doing = "none"
  /\ pc \notin {"asking", "sweeping", "running"} => unsaved = 0
  /\ pc = "ready" => state.started
  /\ pc = "round" => AtRound
  /\ pc = "slot" => AtSlot
  /\ pc = "asking" => FreeSlot /\ closed # Fields /\ asks \in {1, 2}
  /\ pc = "measure" => Taken
  /\ pc = "decide" => Deciding
  /\ pc \in {"sweeping", "running"} =>
       \/ doing = "probe" /\ Probing
       \/ doing = "sweep" /\ Measuring
       \/ doing = "test" /\ Testing
  /\ pc = "final" => Over
  /\ pc = "reported" => state.final
  /\ pc = "write" => LineInv

\* The disk, as the next session finds it.
DiskInv ==
  /\ torn => pc \in Idle /\ killed
  /\ files \in {state.version, state.version + 1}
  /\ files = state.version + 1 /\ pc \notin Idle =>
       /\ pc = "write" /\ line.type = "candidate" /\ line.version = files
  /\ files = state.version + 1 /\ pc \in Idle => killed
  /\ pc = "refused" => killed /\ (~state.started \/ files = state.version + 1)

Inv == TypeOK /\ JournalInv(state) /\ SessionInv /\ DiskInv

\* Money told of is in the journal, in the line, unsaved, or lost; a run or a
\* request begins below the limit and so ends below it by one run's cost.
MoneyInv ==
  /\ state.spent + unsaved + line.cost + lost + unseen = paid
  /\ state.spent + unsaved + line.cost < topLimit + MaxCost
  /\ pc \notin Idle => limit <= topLimit
  /\ pc \in {"asking", "running"} => state.spent + unsaved < limit

\* Each stop drops one run or request in flight at most.
UnseenInv == unseen <= stops * MaxCost

\* Every started test sweep is in the journal, was cut, or is under way.
TestsInv ==
  state.tests + cutTests + (IF doing = "test" THEN 1 ELSE 0) <= testStarts

------------------------------------------------------------------------------
\* What replay makes of each line, field by field.

\* Two journals that differ in the money only.
SameBut(t, a) ==
  /\ t.ok = a.ok /\ t.started = a.started /\ t.feed = a.feed /\ t.slots = a.slots
  /\ t.pending = a.pending /\ t.refused = a.refused /\ t.sweeps = a.sweeps /\ t.winner = a.winner
  /\ t.version = a.version /\ t.tests = a.tests /\ t.final = a.final

\* What a legal line does, and the money it brings.
LEMMA Replayed ==
  ASSUME NEW s \in Journals, s.ok, NEW l, legal(s, l), l.cost \in Nat, applied(s, l) \in Journals,
         applied(s, l).spent = s.spent
  PROVE  /\ replay(s, l) \in Journals /\ replay(s, l).spent = s.spent + l.cost
         /\ SameBut(replay(s, l), applied(s, l))
<1> DEFINE a == applied(s, l)
           n == s.spent + l.cost
           t == replay(s, l)
<1>1. n \in Nat
  BY DEF Journals
<1>2. t = [a EXCEPT !.spent = n]
  BY DEF replay
<1> HIDE DEF a, n, t
<1>3. a \in Journals
  BY DEF a
<1>4. t \in Journals /\ t.spent = n /\ SameBut(t, a)
  BY <1>1, <1>2, <1>3 DEF Journals, SameBut
<1> QED
  BY <1>4 DEF a, n, t

\* A slot taken by a proposal.
ProposalTakes(a, s, e, slot) ==
  /\ a \in Journals /\ a.ok = s.ok /\ a.started = s.started /\ a.spent = s.spent /\ a.feed = s.feed
  /\ a.slots = Append(s.slots, e) /\ a.pending = s.pending \cup {slot} /\ a.refused = s.refused
  /\ a.sweeps = s.sweeps /\ a.winner = s.winner /\ a.version = s.version /\ a.tests = s.tests
  /\ a.final = FALSE

LEMMA ProposalApplied ==
  ASSUME NEW s \in Journals, NEW e \in Edits, NEW c \in Nat, NEW slot \in Nat, slot = Len(s.slots) + 1,
         NEW a, a = applied(s, Proposal(slot, e, c))
  PROVE  ProposalTakes(a, s, e, slot)
<1> DEFINE l == Proposal(slot, e, c)
           slots == Append(s.slots, e)
           waits == s.pending \cup {slot}
<1>1. l.type = "proposal" /\ l.slot = slot /\ l.edit = e
  BY DEF Proposal
<1>2. slots \in Seq(Edits \cup {NoEdit}) /\ waits \in SUBSET Nat /\ Len(s.slots) \in Nat
  BY DEF Journals
<1>3. a = [s EXCEPT !.slots = slots, !.pending = waits, !.final = FALSE]
  <2> HIDE DEF l
  <2>1. (IF l.slot > Len(s.slots) THEN Append(s.slots, l.edit) ELSE s.slots) = slots
    BY <1>1, <1>2
  <2>2. s.pending \cup {l.slot} = waits
    BY <1>1
  <2>3. a = applied(s, l)
    BY DEF l
  <2> QED
    BY <1>1, <2>1, <2>2, <2>3 DEF applied
<1> HIDE DEF slots, waits
<1>4. /\ a \in Journals /\ a.ok = s.ok /\ a.started = s.started /\ a.spent = s.spent /\ a.feed = s.feed
      /\ a.slots = slots /\ a.pending = waits /\ a.refused = s.refused
      /\ a.sweeps = s.sweeps /\ a.winner = s.winner /\ a.version = s.version /\ a.tests = s.tests
      /\ a.final = FALSE
  BY <1>2, <1>3 DEF Journals
<1> QED
  BY <1>4 DEF slots, waits, ProposalTakes

\* A slot taken by a refusal, or a proposal's verdict.
CandidateDecides(a, s, e, v, slot) ==
  /\ a \in Journals /\ a.ok = s.ok /\ a.started = s.started /\ a.spent = s.spent /\ a.feed = s.feed
  /\ a.slots = (IF slot > Len(s.slots) THEN Append(s.slots, e) ELSE s.slots)
  /\ a.pending = s.pending \ {slot}
  /\ a.refused = (IF v > 0 THEN [f \in Fields |-> 0] ELSE IF e = NoEdit THEN s.refused
                  ELSE [s.refused EXCEPT ![e.field] = @ + 1])
  /\ a.sweeps = (IF a.pending = {} THEN 0 ELSE s.sweeps) /\ a.winner = s.winner
  /\ a.version = (IF v > 0 THEN v ELSE s.version) /\ a.tests = (IF v > 0 THEN 0 ELSE s.tests)
  /\ a.final = FALSE

\* The journal with the decided fields, and the kinds they are of.
Decided(s, slots, waits, counts, sweeps, version, tests) ==
  [s EXCEPT !.slots = slots, !.pending = waits, !.refused = counts, !.sweeps = sweeps,
            !.version = version, !.tests = tests, !.final = FALSE]

DecidedFrom(s, slots, waits, counts, sweeps, version, tests) ==
  /\ s \in Journals /\ slots \in Seq(Edits \cup {NoEdit}) /\ waits \in SUBSET Nat
  /\ counts \in [Fields -> Nat] /\ sweeps \in Nat /\ version \in Nat /\ tests \in Nat

DecidedTo(a, s, slots, waits, counts, sweeps, version, tests) ==
  /\ a \in Journals /\ a.ok = s.ok /\ a.started = s.started /\ a.spent = s.spent /\ a.feed = s.feed
  /\ a.slots = slots /\ a.pending = waits /\ a.refused = counts
  /\ a.sweeps = sweeps /\ a.winner = s.winner /\ a.version = version /\ a.tests = tests
  /\ a.final = FALSE

\* A journal whose decided fields change stays a journal.
LEMMA DecidedRecord ==
  ASSUME NEW s, NEW slots, NEW waits, NEW counts, NEW sweeps, NEW version, NEW tests,
         DecidedFrom(s, slots, waits, counts, sweeps, version, tests)
  PROVE  DecidedTo(Decided(s, slots, waits, counts, sweeps, version, tests),
                   s, slots, waits, counts, sweeps, version, tests)
<1> DEFINE a == Decided(s, slots, waits, counts, sweeps, version, tests)
<1>1. a \in Journals
  BY Zenon DEF DecidedFrom, Decided, Journals
<1>2. /\ a.ok = s.ok /\ a.started = s.started /\ a.spent = s.spent /\ a.feed = s.feed
      /\ a.slots = slots /\ a.pending = waits /\ a.refused = counts
      /\ a.sweeps = sweeps /\ a.winner = s.winner /\ a.version = version /\ a.tests = tests
      /\ a.final = FALSE
  BY DEF DecidedFrom, Decided, Journals
<1> QED
  BY <1>1, <1>2 DEF DecidedTo

\* A proposal's line is applied as CandidateDecides says.
LEMMA CandidateApplied ==
  ASSUME NEW s \in Journals, NEW e \in Edits \cup {NoEdit}, NEW c \in Nat, NEW v \in Nat,
         NEW slot \in Nat, slot <= Len(s.slots) + 1,
         NEW a, a = applied(s, Candidate(slot, e, v, c))
  PROVE  CandidateDecides(a, s, e, v, slot)
<1> DEFINE l == Candidate(slot, e, v, c)
           slots == IF slot > Len(s.slots) THEN Append(s.slots, e) ELSE s.slots
           waits == s.pending \ {slot}
           counts == IF v > 0 THEN [f \in Fields |-> 0] ELSE IF e = NoEdit THEN s.refused
                     ELSE [s.refused EXCEPT ![e.field] = @ + 1]
           sweeps == IF waits = {} THEN 0 ELSE s.sweeps
           version == IF v > 0 THEN v ELSE s.version
           tests == IF v > 0 THEN 0 ELSE s.tests
<1>1. l.type = "candidate" /\ l.slot = slot /\ l.edit = e /\ l.version = v
  BY DEF Candidate
<1>2. slots \in Seq(Edits \cup {NoEdit}) /\ waits \in SUBSET Nat
  BY DEF Journals
<1>3. counts \in [Fields -> Nat]
  <2>1. s.refused \in [Fields -> Nat] /\ [f \in Fields |-> 0] \in [Fields -> Nat]
    BY DEF Journals
  <2>2. e # NoEdit => [s.refused EXCEPT ![e.field] = @ + 1] \in [Fields -> Nat]
    BY <2>1, EvolveAssumption
  <2> QED
    BY <2>1, <2>2
<1>4. sweeps \in Nat /\ version \in Nat /\ tests \in Nat
  BY DEF Journals
<1>5. a = [s EXCEPT !.slots = slots, !.pending = waits, !.refused = counts, !.sweeps = sweeps,
                    !.version = version, !.tests = tests, !.final = FALSE]
  <2>0. a = applied(s, l)
    OBVIOUS
  <2> HIDE DEF l
  <2> QED
    BY <1>1, <2>0 DEF applied
<1> HIDE DEF slots, waits, counts, sweeps, version, tests
<1>6. a = Decided(s, slots, waits, counts, sweeps, version, tests)
  BY <1>5 DEF Decided
<1>7. DecidedFrom(s, slots, waits, counts, sweeps, version, tests)
  BY <1>2, <1>3, <1>4 DEF DecidedFrom
<1>8. DecidedTo(a, s, slots, waits, counts, sweeps, version, tests)
  BY <1>6, <1>7, DecidedRecord
<1> QED
  BY <1>8 DEF DecidedTo, slots, waits, counts, sweeps, version, tests, CandidateDecides

\* The other lines change one thing each.
LEMMA OthersApplied ==
  ASSUME NEW s \in Journals, NEW c \in Nat
  PROVE  /\ applied(s, Line("start", c)) = [s EXCEPT !.started = TRUE]
         /\ applied(s, Line("cut", c)) = s
         /\ applied(s, Line("probe", c)) = [s EXCEPT !.feed = TRUE]
BY DEF applied, Line

------------------------------------------------------------------------------
\* Each line a session writes is legal and keeps what the journal says sound.

LEMMA ExhaustedSame ==
  ASSUME NEW s, NEW t, t.refused = s.refused
  PROVE  exhausted(t) = exhausted(s)
BY DEF exhausted

\* Nothing is closed while nothing was refused.
LEMMA NoneExhausted ==
  ASSUME NEW s, s.refused = [f \in Fields |-> 0]
  PROVE  exhausted(s) = {} /\ exhausted(s) # Fields
BY EvolveAssumption DEF exhausted

LEMMA RoundsSame ==
  ASSUME NEW s, RoundsSound(s), NEW t, t.slots = s.slots, t.pending = s.pending, t.refused = s.refused,
         t.sweeps = s.sweeps, t.winner = s.winner, t.version = s.version, t.tests = s.tests,
         t.final = s.final
  PROVE  RoundsSound(t)
<1>1. exhausted(t) = exhausted(s)
  BY ExhaustedSame
<1> QED
  BY <1>1 DEF RoundsSound, PendingOfRound, FieldsOpen, SweepsOfRound, VersionOfRound, TestsOfLast, RoundsOver

LEMMA MoneyApart ==
  ASSUME NEW a, JournalInv(a), NEW t \in Journals, SameBut(t, a)
  PROVE  JournalInv(t)
BY RoundsSame DEF JournalInv, SameBut

LEMMA JournalNumbers ==
  ASSUME NEW s, JournalInv(s)
  PROVE  /\ s.slots \in Seq(Edits \cup {NoEdit}) /\ Len(s.slots) \in Nat /\ s.sweeps \in Nat /\ s.winner \in Nat
         /\ s.version \in Nat /\ s.tests \in Nat /\ s.spent \in Nat /\ s.pending \subseteq 1 .. Len(s.slots)
         /\ Rounds \in Nat \ {0} /\ Repeats \in Nat \ {0} /\ All = 2 * Rounds /\ Candidates = 2
         /\ s.feed \in BOOLEAN /\ s.started \in BOOLEAN /\ s.final \in BOOLEAN
         /\ s.refused \in [Fields -> Nat] /\ s \in Journals /\ s.ok
<1>1. s \in Journals /\ s.ok /\ PendingOfRound(s)
  BY DEF JournalInv, RoundsSound
<1>2. /\ s.slots \in Seq(Edits \cup {NoEdit}) /\ s.sweeps \in Nat /\ s.winner \in Nat
      /\ s.version \in Nat /\ s.tests \in Nat /\ s.spent \in Nat
      /\ s.feed \in BOOLEAN /\ s.started \in BOOLEAN /\ s.final \in BOOLEAN
      /\ s.refused \in [Fields -> Nat]
  BY <1>1 DEF Journals
<1>3. Len(s.slots) \in Nat
  BY <1>2
<1>4. s.pending \subseteq 1 .. Len(s.slots)
  BY <1>1 DEF PendingOfRound
<1>5. Rounds \in Nat \ {0} /\ Repeats \in Nat \ {0}
  BY EvolveAssumption
<1>6. All = 2 * Rounds /\ Candidates = 2
  BY <1>5 DEF All, Candidates
<1> QED
  BY <1>1, <1>2, <1>3, <1>4, <1>5, <1>6

\* start and probe: what they set, and nothing of the rounds.
LEMMA StartKeeps ==
  ASSUME NEW s, JournalInv(s), ~s.started, NEW a, a = applied(s, Line("start", 0))
  PROVE  legal(s, Line("start", 0)) /\ JournalInv(a)
<1>1. s \in Journals /\ a = [s EXCEPT !.started = TRUE]
  BY OthersApplied DEF JournalInv
<1>2. /\ a \in Journals /\ a.started /\ a.ok = s.ok /\ a.feed = s.feed /\ a.slots = s.slots
      /\ a.pending = s.pending /\ a.refused = s.refused
      /\ a.sweeps = s.sweeps /\ a.winner = s.winner /\ a.version = s.version /\ a.tests = s.tests
      /\ a.final = s.final
  BY <1>1 DEF Journals
<1>3. RoundsSound(a)
  BY <1>2, RoundsSame DEF JournalInv
<1>4. JournalInv(a)
  BY <1>2, <1>3 DEF JournalInv
<1>5. legal(s, Line("start", 0))
  BY DEF legal, Line
<1> QED
  BY <1>4, <1>5

LEMMA CutKeeps ==
  ASSUME NEW s, JournalInv(s), s.started, NEW c \in Nat
  PROVE  legal(s, Line("cut", c)) /\ applied(s, Line("cut", c)) = s
BY OthersApplied DEF legal, Line, JournalInv

LEMMA ProbeKeeps ==
  ASSUME NEW s, JournalInv(s), s.started, ~s.feed, NEW c \in Nat, NEW a, a = applied(s, Line("probe", c))
  PROVE  /\ legal(s, Line("probe", c)) /\ JournalInv(a)
         /\ a.started /\ a.feed /\ a.slots = s.slots /\ a.pending = s.pending /\ a.refused = s.refused
         /\ a.sweeps = s.sweeps /\ a.winner = s.winner /\ a.version = s.version /\ a.tests = s.tests
         /\ a.final = s.final
<1>1. s \in Journals /\ a = [s EXCEPT !.feed = TRUE]
  BY OthersApplied DEF JournalInv
<1>2. /\ a \in Journals /\ a.started = s.started /\ a.ok = s.ok /\ a.feed /\ a.slots = s.slots
      /\ a.pending = s.pending /\ a.refused = s.refused
      /\ a.sweeps = s.sweeps /\ a.winner = s.winner /\ a.version = s.version /\ a.tests = s.tests
      /\ a.final = s.final
  BY <1>1 DEF Journals
<1>3. RoundsSound(a)
  BY <1>2, RoundsSame DEF JournalInv
<1>4. JournalInv(a)
  BY <1>2, <1>3 DEF JournalInv
<1>5. legal(s, Line("probe", c))
  BY DEF legal, Line
<1> QED
  BY <1>2, <1>4, <1>5

\* A slot is taken while its round is open: sweeps have not begun.
LEMMA SlotBeforeSweeps ==
  ASSUME NEW s, JournalInv(s), NEW slot, slot = Len(s.slots) + 1,
         \A p \in s.pending : RoundOf(p) = RoundOf(slot)
  PROVE  /\ s.sweeps = 0
         /\ \A p \in s.pending : /\ p = slot - 1 /\ p = Slot(RoundOf(p), 1)
                                 /\ RoundOf(Len(s.slots)) = RoundOf(slot)
<1> DEFINE n == Len(s.slots)
<1>1. n \in Nat /\ slot \in Nat \ {0} /\ s.sweeps \in Nat /\ SweepsOfRound(s) /\ PendingOfRound(s)
  BY JournalNumbers DEF JournalInv, RoundsSound
<1>2. ASSUME NEW p \in s.pending
      PROVE  p = slot - 1 /\ p = Slot(RoundOf(p), 1) /\ RoundOf(n) = RoundOf(slot) /\ n # RoundOf(n) * Candidates
  <2>1. p \in 1 .. n /\ RoundOf(p) = RoundOf(n) /\ RoundOf(p) = RoundOf(slot) /\ n \in Nat \ {0}
    BY <1>1, <1>2 DEF PendingOfRound
  <2>2. /\ Slot(RoundOf(slot), 1) <= p /\ slot <= Slot(RoundOf(slot), 2) /\ RoundOf(slot) \in Nat
    <3>1. p \in Nat \ {0}
      BY <1>1, <2>1
    <3>2. Slot(RoundOf(p), 1) <= p /\ RoundOf(p) \in Nat
      BY <3>1, RoundBounds
    <3>3. slot <= Slot(RoundOf(slot), 2)
      BY <1>1, RoundBounds
    <3> QED
      BY <2>1, <3>2, <3>3
  <2> QED
    BY <1>1, <2>1, <2>2 DEF Slot, Candidates
<1>3. s.sweeps = 0
  <2> SUFFICES ASSUME s.sweeps # 0 PROVE FALSE
    OBVIOUS
  <2>1. s.sweeps > 0 /\ s.pending # {}
    BY <1>1 DEF SweepsOfRound
  <2>2. n = RoundOf(n) * Candidates
    BY <2>1, <1>1 DEF SweepsOfRound
  <2> QED
    BY <1>2, <2>1, <2>2
<1> QED
  BY <1>2, <1>3

LEMMA ProposalKeeps ==
  ASSUME NEW s, JournalInv(s), NEW slot, slot = Len(s.slots) + 1, slot <= All,
         s.feed, s.tests = 0, ~s.final,
         NEW e \in Edits, NEW c \in Nat, e.field \notin exhausted(s), checkEdit(s, e),
         \A p \in s.pending : RoundOf(p) = RoundOf(slot) /\ s.slots[p].field # e.field,
         NEW a, a = applied(s, Proposal(slot, e, c))
  PROVE  legal(s, Proposal(slot, e, c)) /\ JournalInv(a)
<1> DEFINE n == Len(s.slots)
<1>1. /\ n \in Nat /\ slot \in Nat \ {0} /\ s \in Journals /\ s.ok /\ s.winner \in Nat /\ s.version \in Nat
      /\ s.pending \subseteq 1 .. n /\ s.slots \in Seq(Edits \cup {NoEdit}) /\ Repeats \in Nat \ {0}
      /\ e.field \in Fields /\ e # NoEdit
  BY SMTT(20), JournalNumbers, EvolveAssumption
<1>2. /\ a \in Journals /\ a.ok = s.ok /\ a.started = s.started /\ a.feed = s.feed
      /\ a.slots = Append(s.slots, e) /\ a.pending = s.pending \cup {slot} /\ a.refused = s.refused
      /\ a.sweeps = s.sweeps /\ a.winner = s.winner /\ a.version = s.version /\ a.tests = s.tests
      /\ a.final = FALSE
  <2>1. s \in Journals /\ e \in Edits /\ c \in Nat /\ slot \in Nat
    BY <1>1
  <2>2. ProposalTakes(a, s, e, slot)
    BY <2>1, ProposalApplied
  <2> QED
    BY <2>2 DEF ProposalTakes
<1>3. legal(s, Proposal(slot, e, c))
  BY DEF legal, Proposal, claim
<1>4. /\ s.sweeps = 0
      /\ \A p \in s.pending : p = slot - 1 /\ p = Slot(RoundOf(p), 1) /\ RoundOf(n) = RoundOf(slot)
  BY SlotBeforeSweeps
<1>5. /\ Len(a.slots) = slot /\ a.slots[slot] = e /\ \A p \in 1 .. n : a.slots[p] = s.slots[p]
  BY <1>1, <1>2
<1>6. exhausted(a) = exhausted(s)
  BY <1>2, ExhaustedSame
<1>7. PendingOfRound(a)
  BY <1>1, <1>2, <1>5 DEF PendingOfRound, JournalInv, RoundsSound
<1>8. FieldsOpen(a)
  <2>1. \A p \in s.pending : s.slots[p].field \notin exhausted(s)
    BY <1>1, <1>4 DEF JournalInv, RoundsSound, FieldsOpen
  <2>2. \A p \in a.pending : a.slots[p].field \notin exhausted(a)
    BY SMTT(20), <1>1, <1>2, <1>5, <1>6, <2>1
  <2>3. \A p, q \in a.pending : p # q => a.slots[p].field # a.slots[q].field
    <3> SUFFICES ASSUME NEW p \in a.pending, NEW q \in a.pending, p # q
                 PROVE  a.slots[p].field # a.slots[q].field
      OBVIOUS
    <3>1. (p \in s.pending \/ p = slot) /\ (q \in s.pending \/ q = slot)
      BY <1>2
    <3>2. ~(p \in s.pending /\ q \in s.pending)
      BY <1>4
    <3>3. \A x \in s.pending : a.slots[x].field # e.field
      BY <1>1, <1>5
    <3> QED
      BY <1>5, <3>1, <3>2, <3>3
  <2> QED
    BY <1>1, <1>2, <1>6, <2>2, <2>3 DEF FieldsOpen
<1>9. SweepsOfRound(a)
  BY <1>1, <1>2, <1>4 DEF SweepsOfRound
<1>10. VersionOfRound(a)
  <2>1. s.winner <= n /\ s.winner # slot
    BY <1>1 DEF JournalInv, RoundsSound, VersionOfRound
  <2>2. s.winner \notin a.pending
    BY <1>1, <1>2, <1>4, <2>1 DEF JournalInv, RoundsSound, VersionOfRound
  <2>3. s.version < RoundOf(slot)
    <3>1. CASE s.pending = {}
      <4>1. s.version * 2 <= n
        BY <3>1 DEF JournalInv, RoundsSound, VersionOfRound, Candidates
      <4>2. slot <= 2 * RoundOf(slot) /\ RoundOf(slot) \in Nat
        BY <1>1, RoundBounds
      <4> QED
        BY <1>1, <4>1, <4>2
    <3>2. CASE s.pending # {}
      BY <1>1, <1>4, <3>2 DEF JournalInv, RoundsSound, VersionOfRound
    <3> QED
      BY <3>1, <3>2
  <2>4. RoundOf(slot) \in Nat
    BY <1>1, RoundBounds
  <2> QED
    BY <1>1, <1>2, <1>5, <2>1, <2>2, <2>3, <2>4 DEF VersionOfRound
<1>11. TestsOfLast(a)
  BY <1>1, <1>2 DEF TestsOfLast
<1> QED
  BY <1>1, <1>2, <1>3, <1>5, <1>7, <1>8, <1>9, <1>10, <1>11 DEF JournalInv, RoundsSound

\* A slot refused leaves a field open: the refusal closes either the field of the
\* round's first proposal or one that is not that proposal's.
LEMMA RefuseKeeps ==
  ASSUME NEW s, JournalInv(s), NEW slot, slot = Len(s.slots) + 1, slot <= All,
         s.feed, s.tests = 0, ~s.final,
         NEW e \in Edits \cup {NoEdit}, NEW c \in Nat,
         \A p \in s.pending : /\ RoundOf(p) = RoundOf(slot)
                              /\ e # NoEdit => exhausted(s) \cup {s.slots[p].field} # Fields,
         NEW a, a = applied(s, Candidate(slot, e, 0, c))
  PROVE  legal(s, Candidate(slot, e, 0, c)) /\ JournalInv(a) /\ CandidateDecides(a, s, e, 0, slot)
<1> DEFINE n == Len(s.slots)
<1>1. /\ n \in Nat /\ slot \in Nat \ {0} /\ s \in Journals /\ s.ok /\ s.winner \in Nat /\ s.version \in Nat
      /\ s.pending \subseteq 1 .. n /\ s.slots \in Seq(Edits \cup {NoEdit}) /\ Repeats \in Nat \ {0}
      /\ slot \notin s.pending /\ s.refused \in [Fields -> Nat]
  BY SMTT(20), JournalNumbers
<1>2. CandidateDecides(a, s, e, 0, slot)
  <2>1. s \in Journals /\ c \in Nat /\ slot \in Nat /\ slot <= Len(s.slots) + 1 /\ 0 \in Nat
    BY <1>1
  <2> QED
    BY <2>1, CandidateApplied
<1>3. /\ s.sweeps = 0
      /\ \A p \in s.pending : p = slot - 1 /\ p = Slot(RoundOf(p), 1) /\ RoundOf(n) = RoundOf(slot)
  BY SlotBeforeSweeps
<1>4. /\ a \in Journals /\ a.ok = s.ok /\ a.started = s.started /\ a.feed = s.feed
      /\ a.slots = Append(s.slots, e) /\ a.pending = s.pending
      /\ a.refused = (IF e = NoEdit THEN s.refused ELSE [s.refused EXCEPT ![e.field] = @ + 1])
      /\ a.sweeps = 0 /\ a.winner = s.winner /\ a.version = s.version /\ a.tests = 0 /\ a.final = FALSE
  <2>1. s.pending \ {slot} = s.pending /\ slot > Len(s.slots) /\ ~(0 > 0)
    BY <1>1
  <2> QED
    BY <1>2, <1>3, <2>1 DEF CandidateDecides
<1>5. legal(s, Candidate(slot, e, 0, c))
  BY <1>1 DEF legal, Candidate, claim
<1>6. /\ Len(a.slots) = slot /\ a.slots[slot] = e /\ \A p \in 1 .. n : a.slots[p] = s.slots[p]
  BY <1>1, <1>4
<1>7. PendingOfRound(a)
  BY SMTT(20), <1>1, <1>4, <1>6 DEF PendingOfRound, JournalInv, RoundsSound
<1>8. a.pending # {} => exhausted(a) # Fields
  <2>1. CASE e = NoEdit
    <3>1. exhausted(a) = exhausted(s)
      BY <1>4, <2>1, ExhaustedSame
    <3> QED
      BY <1>4, <3>1 DEF JournalInv, RoundsSound, FieldsOpen
  <2>2. CASE e # NoEdit
    <3> SUFFICES ASSUME NEW p \in s.pending PROVE exhausted(a) # Fields
      BY <1>4
    <3>1. exhausted(a) \subseteq exhausted(s) \cup {e.field}
      <4>1. e \in Edits /\ s.refused \in [Fields -> Nat]
        BY <1>1, <2>2
      <4>2. a.refused = [s.refused EXCEPT ![e.field] = @ + 1]
        BY <1>4, <2>2
      <4>3. ASSUME NEW f \in exhausted(a), f # e.field PROVE f \in exhausted(s)
        <5>1. f \in Fields /\ a.refused[f] >= 2
          BY <4>3 DEF exhausted
        <5>2. a.refused[f] = s.refused[f]
          BY <4>1, <4>2, <4>3, <5>1
        <5> QED
          BY <5>1, <5>2 DEF exhausted
      <4> QED
        BY <4>3
    <3>2. exhausted(s) \cup {s.slots[p].field} # Fields /\ exhausted(s) \subseteq Fields
      BY <2>2 DEF exhausted
    <3>3. s.slots[p].field \notin exhausted(s)
      BY <1>1, <1>3 DEF JournalInv, RoundsSound, FieldsOpen
    <3>4. s.slots[p].field \in Fields
      BY <1>1, EvolveAssumption DEF JournalInv, RoundsSound, PendingOfRound
    <3> QED
      BY <3>1, <3>2, <3>3, <3>4
  <2> QED
    BY <2>1, <2>2
<1>9. FieldsOpen(a)
  <2>1. \A p, q \in a.pending : p = q
    BY <1>3, <1>4
  <2>2. \A p \in a.pending : p # Len(a.slots)
    BY <1>1, <1>4, <1>6
  <2> QED
    BY <1>8, <2>1, <2>2 DEF FieldsOpen
<1>10. SweepsOfRound(a)
  BY <1>1, <1>4 DEF SweepsOfRound
<1>11. VersionOfRound(a)
  <2>1. s.winner <= n /\ s.winner \notin s.pending /\ (s.pending = {} => s.version * Candidates <= n)
    BY <1>1, <1>3 DEF JournalInv, RoundsSound, VersionOfRound
  <2>2. s.pending # {} => s.version < RoundOf(slot)
    BY <1>1, <1>3 DEF JournalInv, RoundsSound, VersionOfRound
  <2>3. RoundOf(slot) \in Nat
    BY <1>1, RoundBounds
  <2> QED
    BY SMTT(20), <1>1, <1>4, <1>6, <2>1, <2>2, <2>3 DEF VersionOfRound, Candidates
<1>12. TestsOfLast(a)
  BY <1>1, <1>4 DEF TestsOfLast
<1> QED
  BY <1>1, <1>2, <1>4, <1>5, <1>6, <1>7, <1>9, <1>10, <1>11, <1>12 DEF JournalInv, RoundsSound

\* A sweep of the round's proposals.
SweepAdds(a, s, k) ==
  /\ a.spent = s.spent /\ a.started = s.started /\ a.feed = s.feed
  /\ a.slots = s.slots /\ a.pending = s.pending /\ a.refused = s.refused
  /\ a.sweeps = k /\ a.version = s.version /\ a.tests = s.tests /\ a.final = s.final

LEMMA SweepKeeps ==
  ASSUME NEW s, JournalInv(s), s.pending # {}, NEW r \in Nat, Len(s.slots) = r * Candidates,
         s.sweeps < Repeats, NEW c \in Nat, NEW w \in Nat, NEW k, k = s.sweeps + 1,
         w # 0 => w \in s.pending /\ k = Repeats,
         NEW l, l = Sweep(r, k, s.pending, w, c), NEW a, a = applied(s, l)
  PROVE  legal(s, l) /\ JournalInv(a) /\ SweepAdds(a, s, k)
<1> DEFINE n == Len(s.slots)
<1>1. /\ n \in Nat /\ s \in Journals /\ s.ok /\ s.sweeps \in Nat /\ s.version \in Nat
      /\ s.pending \subseteq 1 .. n /\ Repeats \in Nat \ {0} /\ k \in Nat
  BY SMTT(20), JournalNumbers
<1>2. a = [s EXCEPT !.sweeps = k, !.winner = w]
  <2>1. l.type = "sweep" /\ l.sweep = k /\ l.winner = w
    BY DEF Sweep
  <2> QED
    BY <2>1 DEF applied
<1>3. legal(s, l)
  BY <1>1 DEF legal, Sweep
<1>4. /\ a \in Journals /\ a.ok = s.ok /\ a.started = s.started /\ a.feed = s.feed
      /\ a.slots = s.slots /\ a.pending = s.pending /\ a.refused = s.refused
      /\ a.sweeps = k /\ a.winner = w /\ a.version = s.version /\ a.tests = s.tests
      /\ a.final = s.final /\ a.spent = s.spent
  BY <1>1, <1>2 DEF Journals
<1>5. exhausted(a) = exhausted(s)
  BY <1>4, ExhaustedSame
<1>6. n \in Nat \ {0} /\ RoundOf(n) = r
  <2>1. n \in Nat \ {0} /\ r \in Nat \ {0}
    BY <1>1 DEF Candidates
  <2>2. Slot(r, 1) <= n /\ n <= Slot(r, 2)
    BY <2>1 DEF Slot, Candidates
  <2> QED
    BY <2>1, <2>2, RoundUnique
<1>7. PendingOfRound(a) /\ FieldsOpen(a)
  BY <1>4, <1>5 DEF JournalInv, RoundsSound, PendingOfRound, FieldsOpen
<1>8. SweepsOfRound(a)
  BY <1>1, <1>4, <1>6 DEF SweepsOfRound
<1>9. VersionOfRound(a)
  <2>1. s.version < RoundOf(n)
    BY DEF JournalInv, RoundsSound, VersionOfRound
  <2>2. w \in s.pending => k = Repeats
    BY <1>1
  <2>3. w <= n
    BY <1>1
  <2>4. a.slots = s.slots /\ a.pending = s.pending /\ a.sweeps = k /\ a.winner = w /\ a.version = s.version
    BY <1>4
  <2>5. RoundOf(n) \in Nat /\ s.version \in Nat /\ s.version <= RoundOf(n)
    BY <1>1, <1>6, <2>1
  <2> HIDE DEF n
  <2>6. n = Len(a.slots)
    BY <2>4 DEF n
  <2> QED
    BY <2>1, <2>2, <2>3, <2>4, <2>5, <2>6 DEF VersionOfRound
<1>10. TestsOfLast(a)
  BY <1>4, <1>5 DEF JournalInv, RoundsSound, TestsOfLast, RoundsOver
<1> QED
  BY <1>3, <1>4, <1>7, <1>8, <1>9, <1>10 DEF JournalInv, RoundsSound, SweepAdds

\* A proposal's verdict that is due, and what the journal makes of it.
VerdictDue(s, p, e, v, a) ==
  /\ JournalInv(s) /\ p \in s.pending /\ s.sweeps = Repeats
  /\ e = s.slots[p] /\ v = (IF s.winner = p THEN s.version + 1 ELSE 0)
  /\ a = applied(s, Candidate(p, e, v, 0))
VerdictFits(s, p, e, v, a) ==
  /\ legal(s, Candidate(p, e, v, 0)) /\ JournalInv(a)
  /\ s.feed /\ s.tests = 0 /\ ~s.final /\ Len(s.slots) = RoundOf(p) * Candidates
  /\ p <= Len(s.slots) /\ v \in Nat /\ e \in Edits
  /\ CandidateDecides(a, s, e, v, p)
  /\ v > 0 => v = s.version + 1 /\ v <= RoundOf(p) /\ exhausted(a) = {}

\* A proposal's verdict.  One that is kept opens every field again; one that is
\* refused closes its own field at most, and not that of the round's other one.
LEMMA DecideKeeps ==
  ASSUME NEW s, NEW p, NEW e, NEW v, NEW a, VerdictDue(s, p, e, v, a)
  PROVE  VerdictFits(s, p, e, v, a)
<1>0. /\ JournalInv(s) /\ p \in s.pending /\ s.sweeps = Repeats
      /\ e = s.slots[p] /\ v = (IF s.winner = p THEN s.version + 1 ELSE 0)
      /\ a = applied(s, Candidate(p, e, v, 0))
  BY DEF VerdictDue
<1> DEFINE n == Len(s.slots)
<1>1. /\ n \in Nat /\ s \in Journals /\ s.ok /\ s.winner \in Nat /\ s.version \in Nat /\ s.tests \in Nat
      /\ s.pending \subseteq 1 .. n /\ s.slots \in Seq(Edits \cup {NoEdit}) /\ Repeats \in Nat \ {0}
      /\ p \in 1 .. n /\ s.refused \in [Fields -> Nat] /\ s.final \in BOOLEAN /\ v \in Nat
      /\ s.feed \in BOOLEAN
  <2>1. /\ n \in Nat /\ s \in Journals /\ s.ok /\ s.winner \in Nat /\ s.version \in Nat /\ s.tests \in Nat
        /\ s.pending \subseteq 1 .. n /\ s.slots \in Seq(Edits \cup {NoEdit}) /\ Repeats \in Nat \ {0}
        /\ s.refused \in [Fields -> Nat] /\ s.final \in BOOLEAN /\ s.feed \in BOOLEAN
    BY SMTT(20), <1>0, JournalNumbers
  <2> QED
    BY <1>0, <2>1
<1>2. RoundsSound(s) /\ PendingOfRound(s) /\ FieldsOpen(s) /\ SweepsOfRound(s) /\ VersionOfRound(s) /\ TestsOfLast(s)
  BY <1>0 DEF JournalInv, RoundsSound
<1>3. \A q \in s.pending : s.slots[q] \in Edits /\ s.slots[q].field \in Fields
  BY <1>1, <1>2, EvolveAssumption DEF PendingOfRound
<1>4. e \in Edits /\ e # NoEdit /\ e.field \in Fields
  BY <1>0, <1>3, EvolveAssumption
<1>5. CandidateDecides(a, s, e, v, p)
  <2>1. s \in Journals /\ e \in Edits \cup {NoEdit} /\ 0 \in Nat /\ v \in Nat /\ p \in Nat /\ p <= Len(s.slots) + 1
    BY <1>1, <1>4
  <2> QED
    BY <1>0, <2>1, CandidateApplied
<1>6. /\ s.tests = 0 /\ ~s.final /\ s.feed
  BY <1>0, <1>1, <1>2 DEF TestsOfLast, RoundsOver, JournalInv
<1>7. /\ a \in Journals /\ a.ok = s.ok /\ a.started = s.started /\ a.feed = s.feed
      /\ a.slots = s.slots /\ a.pending = s.pending \ {p}
      /\ a.refused = (IF v > 0 THEN [f \in Fields |-> 0] ELSE [s.refused EXCEPT ![e.field] = @ + 1])
      /\ a.sweeps = (IF a.pending = {} THEN 0 ELSE s.sweeps) /\ a.winner = s.winner
      /\ a.version = (IF v > 0 THEN v ELSE s.version) /\ a.tests = 0 /\ a.final = FALSE
  <2>1. ~(p > Len(s.slots)) /\ e # NoEdit
    BY <1>1, <1>4
  <2> QED
    BY <1>5, <1>6, <2>1 DEF CandidateDecides
<1>8. legal(s, Candidate(p, e, v, 0))
  BY <1>0, <1>1 DEF legal, Candidate
<1>9. n = RoundOf(n) * Candidates /\ n \in Nat \ {0} /\ RoundOf(n) \in Nat /\ RoundOf(p) = RoundOf(n)
  <2>1. n \in Nat \ {0}
    BY <1>1
  <2>2. RoundOf(n) \in Nat
    BY <2>1, RoundBounds
  <2>3. RoundOf(p) = RoundOf(n)
    BY <1>0, <1>2 DEF PendingOfRound
  <2>4. n = RoundOf(n) * Candidates
    BY <1>0, <1>1, <1>2 DEF SweepsOfRound
  <2> QED
    BY <2>1, <2>2, <2>3, <2>4
<1>10. v > 0 => v = s.version + 1 /\ s.winner = p /\ v <= RoundOf(n)
  BY <1>0, <1>1, <1>2, <1>9 DEF VersionOfRound
<1>11. v > 0 => exhausted(a) = {}
  BY <1>7, NoneExhausted
<1>12. \A q \in a.pending : a.slots[q].field \in Fields \ exhausted(a)
  <2> SUFFICES ASSUME NEW q \in a.pending PROVE s.slots[q].field \in Fields \ exhausted(a)
    BY <1>7
  <2>1. CASE v > 0
    BY <1>3, <1>7, <1>11, <2>1
  <2>2. CASE ~(v > 0)
    <3>1. q \in s.pending /\ q # p
      BY <1>7
    <3>2. s.slots[q].field \notin exhausted(s) /\ s.slots[q].field # e.field
      BY <1>0, <1>2, <3>1 DEF FieldsOpen
    <3>3. a.refused = [s.refused EXCEPT ![e.field] = @ + 1]
      BY <1>7, <2>2
    <3>4. a.refused[s.slots[q].field] = s.refused[s.slots[q].field]
      BY <1>1, <1>3, <3>1, <3>2, <3>3
    <3> QED
      BY <1>3, <3>1, <3>2, <3>4 DEF exhausted
  <2> QED
    BY <2>1, <2>2
<1>13. FieldsOpen(a)
  <2>1. \A q, r \in a.pending : q # r => a.slots[q].field # a.slots[r].field
    BY <1>2, <1>7 DEF FieldsOpen
  <2>2. a.pending # {} => exhausted(a) # Fields
    BY <1>12
  <2> QED
    BY <1>12, <2>1, <2>2 DEF FieldsOpen
<1>14. PendingOfRound(a)
  BY <1>2, <1>7 DEF PendingOfRound
<1>15. SweepsOfRound(a)
  BY <1>0, <1>1, <1>2, <1>7, <1>9 DEF SweepsOfRound
<1>16. VersionOfRound(a)
  <2>1. a.winner <= Len(a.slots) /\ (a.winner \in a.pending => a.sweeps = Repeats)
    BY <1>0, <1>2, <1>7 DEF VersionOfRound
  <2>2. a.version <= RoundOf(n)
    BY <1>0, <1>1, <1>2, <1>7, <1>9, <1>10 DEF VersionOfRound
  <2>3. a.pending = {} => a.version * Candidates <= Len(a.slots)
    BY SMTT(20), <1>1, <1>7, <1>9, <2>2 DEF Candidates
  <2>4. a.pending # {} /\ (a.winner \in a.pending \/ a.sweeps < Repeats) => a.version < RoundOf(Len(a.slots))
    <3> SUFFICES ASSUME a.pending # {}, a.winner \in a.pending \/ a.sweeps < Repeats
                 PROVE  a.version < RoundOf(n)
      BY <1>7
    <3>1. a.winner \in a.pending
      BY <1>0, <1>1, <1>7
    <3>2. s.winner \in s.pending /\ s.winner # p /\ ~(v > 0)
      BY <1>0, <1>7, <3>1
    <3> QED
      BY <1>2, <1>7, <3>2 DEF VersionOfRound
  <2> QED
    BY <1>7, <2>1, <2>2, <2>3, <2>4 DEF VersionOfRound
<1>17. TestsOfLast(a)
  BY <1>1, <1>7 DEF TestsOfLast
<1>18. JournalInv(a)
  BY <1>0, <1>1, <1>2, <1>6, <1>7, <1>13, <1>14, <1>15, <1>16, <1>17 DEF JournalInv, RoundsSound
<1> QED
  BY <1>1, <1>4, <1>5, <1>6, <1>8, <1>9, <1>10, <1>11, <1>18 DEF VerdictFits

\* A sweep of the final test.
LEMMA TestKeeps ==
  ASSUME NEW s, JournalInv(s), s.feed, RoundsOver(s), s.version > 0, s.tests < Repeats, ~s.final,
         NEW c \in Nat, NEW a, a = applied(s, TestSweep(s.tests + 1, c))
  PROVE  /\ legal(s, TestSweep(s.tests + 1, c)) /\ JournalInv(a)
         /\ a = [s EXCEPT !.tests = s.tests + 1, !.final = FALSE]
<1> DEFINE k == s.tests + 1
           l == TestSweep(k, c)
<1>1. s \in Journals /\ s.ok /\ s.tests \in Nat /\ Repeats \in Nat \ {0} /\ k \in Nat
  BY JournalNumbers
<1>2. legal(s, l)
  BY <1>1 DEF legal, TestSweep, RoundsOver
<1>3. a = [s EXCEPT !.tests = k, !.final = FALSE]
  <2>1. l.type = "testsweep" /\ l.sweep = k /\ a = applied(s, l)
    BY DEF TestSweep
  <2> HIDE DEF l, k
  <2> QED
    BY <2>1 DEF applied
<1> HIDE DEF k
<1>4. /\ a \in Journals /\ a.ok = s.ok /\ a.started = s.started /\ a.feed = s.feed
      /\ a.slots = s.slots /\ a.pending = s.pending /\ a.refused = s.refused
      /\ a.sweeps = s.sweeps /\ a.winner = s.winner /\ a.version = s.version /\ a.tests = k
      /\ a.final = FALSE
  BY <1>1, <1>3 DEF Journals
<1>5. exhausted(a) = exhausted(s)
  BY <1>4, ExhaustedSame
<1>6. PendingOfRound(a) /\ FieldsOpen(a) /\ SweepsOfRound(a) /\ VersionOfRound(a)
  BY <1>4, <1>5 DEF JournalInv, RoundsSound, PendingOfRound, FieldsOpen, SweepsOfRound, VersionOfRound
<1>7. TestsOfLast(a)
  BY <1>1, <1>4, <1>5 DEF TestsOfLast, RoundsOver, k
<1>8. JournalInv(a)
  BY <1>4, <1>6, <1>7 DEF JournalInv, RoundsSound
<1> QED
  BY <1>2, <1>3, <1>8 DEF k

LEMMA FinalKeeps ==
  ASSUME NEW s, JournalInv(s), s.feed, RoundsOver(s), s.tests = (IF s.version > 0 THEN Repeats ELSE 0),
         NEW a, a = applied(s, Final(s.version))
  PROVE  legal(s, Final(s.version)) /\ JournalInv(a) /\ a = [s EXCEPT !.final = TRUE]
<1>1. s \in Journals /\ s.ok /\ s.version \in Nat
  BY JournalNumbers
<1>2. legal(s, Final(s.version))
  BY <1>1 DEF legal, Final, RoundsOver
<1>3. a = [s EXCEPT !.final = TRUE]
  BY DEF applied, Final
<1>4. /\ a \in Journals /\ a.ok = s.ok /\ a.started = s.started /\ a.feed = s.feed
      /\ a.slots = s.slots /\ a.pending = s.pending /\ a.refused = s.refused
      /\ a.sweeps = s.sweeps /\ a.winner = s.winner /\ a.version = s.version /\ a.tests = s.tests
      /\ a.final = TRUE
  BY <1>1, <1>3 DEF Journals
<1>5. exhausted(a) = exhausted(s)
  BY <1>4, ExhaustedSame
<1>6. PendingOfRound(a) /\ FieldsOpen(a) /\ SweepsOfRound(a) /\ VersionOfRound(a)
  BY <1>4, <1>5 DEF JournalInv, RoundsSound, PendingOfRound, FieldsOpen, SweepsOfRound, VersionOfRound
<1>7. TestsOfLast(a)
  BY <1>1, <1>4, <1>5 DEF JournalInv, RoundsSound, TestsOfLast, RoundsOver
<1>8. JournalInv(a)
  BY <1>4, <1>6, <1>7 DEF JournalInv, RoundsSound
<1> QED
  BY <1>2, <1>3, <1>8

------------------------------------------------------------------------------
\* The session's steps that leave the journal alone.

\* What is said of the journal and the round holds as long as both stay.
LEMMA SamePlace ==
  ASSUME UNCHANGED <<state, round>>
  PROVE  /\ AtRound' = AtRound /\ InRound' = InRound /\ AtSlot' = AtSlot /\ FreeSlot' = FreeSlot
         /\ Taken' = Taken /\ Measuring' = Measuring /\ Deciding' = Deciding /\ Probing' = Probing
         /\ Over' = Over /\ Testing' = Testing /\ open' = open /\ closed' = closed /\ NextSlot' = NextSlot
<1>1. open' = open /\ NextSlot' = NextSlot /\ closed' = closed
  BY DEF open, NextSlot, closed
<1>2. AtRound' = AtRound
  BY DEF AtRound
<1>3. InRound' = InRound
  BY <1>2 DEF InRound
<1>4. AtSlot' = AtSlot
  BY <1>3 DEF AtSlot
<1>5. FreeSlot' = FreeSlot
  BY <1>1, <1>4 DEF FreeSlot
<1>6. Taken' = Taken
  BY <1>3 DEF Taken
<1>7. Measuring' = Measuring /\ Deciding' = Deciding
  BY <1>1, <1>6 DEF Measuring, Deciding
<1>8. Probing' = Probing /\ Over' = Over
  BY <1>2 DEF Probing, Over
<1>9. Testing' = Testing
  BY <1>8 DEF Testing
<1> QED
  BY <1>1, <1>2, <1>3, <1>4, <1>5, <1>6, <1>7, <1>8, <1>9

LEMMA InitSound == Init => Inv /\ MoneyInv /\ UnseenInv /\ TestsInv
<1> SUFFICES ASSUME Init PROVE Inv /\ MoneyInv /\ UnseenInv /\ TestsInv
  OBVIOUS
<1>1. /\ state \in Journals /\ state.ok /\ ~state.started /\ ~state.feed /\ state.slots = <<>>
      /\ state.pending = {} /\ state.refused = [f \in Fields |-> 0] /\ state.sweeps = 0
      /\ state.winner = 0 /\ state.version = 0 /\ state.tests = 0 /\ ~state.final /\ state.spent = 0
  BY DEF Init, Fresh, Journals
<1>2. JournalInv(state)
  <2>1. Len(state.slots) = 0 /\ All \in Nat /\ Repeats \in Nat
    BY <1>1, EvolveAssumption DEF All, Candidates
  <2>2. PendingOfRound(state) /\ FieldsOpen(state) /\ SweepsOfRound(state)
    BY <1>1, <2>1 DEF PendingOfRound, FieldsOpen, SweepsOfRound
  <2>3. VersionOfRound(state) /\ TestsOfLast(state)
    BY <1>1, <2>1 DEF VersionOfRound, TestsOfLast, Candidates
  <2> QED
    BY <1>1, <2>1, <2>2, <2>3 DEF JournalInv, RoundsSound
<1>3. TypeOK
  <2>1. NoLine.type = "none" /\ NoLine.cost = 0
    BY DEF NoLine
  <2>2. {files, testStarts, limit, round, ran, asks, unsaved, paid, lost, unseen, topLimit, stops, cutTests} \subseteq Nat
    BY DEF Init
  <2>3. pc = "down" /\ pc # "write" /\ line = NoLine /\ torn \in BOOLEAN /\ killed \in BOOLEAN /\ doing = "none"
    BY DEF Init
  <2> QED
    BY <2>1, <2>2, <2>3 DEF TypeOK, Points, Idle
<1>4. SessionInv /\ DiskInv
  BY <1>1 DEF Init, SessionInv, DiskInv, Idle
<1>5. MoneyInv /\ UnseenInv /\ TestsInv
  <2>1. MaxCost \in Nat \ {0} /\ NoLine.cost = 0 /\ pc \in Idle
    BY EvolveAssumption DEF Init, NoLine, Idle
  <2>2. 0 * MaxCost = 0
    BY <2>1
  <2> QED
    BY <1>1, <2>1, <2>2 DEF Init, MoneyInv, UnseenInv, TestsInv, Idle
<1> QED
  BY <1>2, <1>3, <1>4, <1>5 DEF Inv

LEMMA StartInv ==
  ASSUME Inv, NEW max \in Limits, Start(max)
  PROVE  Inv'
<1>1. TypeOK'
  <2>1. NoLine.type = "none" /\ NoLine.cost = 0
    BY DEF NoLine
  <2>2. max \in Nat /\ topLimit' \in Nat /\ limit' = max
    BY EvolveAssumption DEF Inv, TypeOK, Start
  <2>3. pc' \in {"refused", "reported", "preflight"} /\ pc' # "write" /\ torn' \in BOOLEAN
    BY DEF Inv, TypeOK, Start
  <2>4. /\ doing' = "none" /\ line' = NoLine /\ round' = 0 /\ ran' = 0 /\ asks' = 0 /\ unsaved' = 0
        /\ UNCHANGED <<files, testStarts, paid, lost, unseen, stops, killed, cutTests>>
    BY DEF Start, Gone
  <2> QED
    BY <2>1, <2>2, <2>3, <2>4 DEF Inv, TypeOK, Points, Idle, Awaits
<1>2. JournalInv(state')
  BY DEF Inv, Start
<1>3. SessionInv'
  BY DEF Start, Gone, Idle, SessionInv
<1>4. DiskInv'
  <2>1. state.ok /\ state.version \in Nat /\ files \in Nat /\ DiskInv
    BY JournalNumbers DEF Inv, TypeOK
  <2> QED
    BY <2>1 DEF Start, Idle, DiskInv
<1> QED
  BY <1>1, <1>2, <1>3, <1>4 DEF Inv

LEMMA PreflightInv ==
  ASSUME Inv, Preflight
  PROVE  Inv'
<1>1. JournalInv(state')
  BY DEF Inv, Preflight, disk
<1>2. SessionInv /\ DiskInv /\ TypeOK
  BY DEF Inv
<1>3. doing = "none" /\ doing' = "none" /\ unsaved' = 0 /\ state' = state
  BY <1>2 DEF SessionInv, Preflight, disk
<1>4. CASE ~state.started
  <2>1. pc' = "write" /\ line' = Line("start", 0)
    BY <1>4 DEF Preflight, Write
  <2>2. line'.type = "start" /\ line'.cost = 0
    BY <2>1 DEF Line
  <2>3. TypeOK'
    BY <1>2, <2>1, <2>2 DEF Preflight, disk, past, TypeOK, Points, NoLine, LineTypes
  <2>4. LineInv'
    BY <1>3, <1>4, <2>1 DEF LineInv, StartLine
  <2>5. SessionInv'
    BY <1>3, <2>1, <2>4 DEF SessionInv
  <2>6. DiskInv'
    BY <1>2, <2>1 DEF DiskInv, Preflight, disk, past, Idle
  <2> QED
    BY <1>1, <2>3, <2>5, <2>6 DEF Inv
<1>5. CASE state.started
  <2>1. TypeOK'
    BY <1>2, <1>5 DEF Preflight, disk, past, TypeOK, Points, Awaits
  <2>2. SessionInv'
    BY <1>3, <1>5 DEF Preflight, SessionInv
  <2>3. DiskInv'
    BY <1>2, <1>5 DEF DiskInv, Preflight, disk, past, Idle
  <2> QED
    BY <1>1, <2>1, <2>2, <2>3 DEF Inv
<1> QED
  BY <1>4, <1>5

LEMMA ReadyInv ==
  ASSUME Inv, Ready
  PROVE  Inv'
<1>1. JournalInv(state')
  BY DEF Inv, Ready, disk
<1>2. SessionInv /\ DiskInv /\ TypeOK /\ JournalInv(state)
  BY DEF Inv
<1>3. TypeOK'
  BY <1>2 DEF Ready, disk, past, TypeOK, Points
<1>4. AtRound'
  <2>1. state.started /\ state' = state /\ round' = 1
    BY <1>2 DEF SessionInv, Ready, disk
  <2>2. state.pending \subseteq 1 .. Len(state.slots) /\ Len(state.slots) \in Nat
    BY <1>2, JournalNumbers
  <2>3. \A p \in state.pending : RoundOf(p) \in Nat \ {0}
    <3> TAKE p \in state.pending
    <3>1. p \in Nat \ {0}
      BY <2>2
    <3> QED
      BY <3>1, RoundBounds
  <2> QED
    BY <2>1, <2>2, <2>3 DEF AtRound, Slot, Candidates
<1>5. SessionInv'
  BY <1>2, <1>4 DEF Ready, SessionInv
<1>6. DiskInv'
  BY <1>2 DEF DiskInv, Ready, disk, past, Idle
<1> QED
  BY <1>1, <1>3, <1>5, <1>6 DEF Inv

\* A session that stops writes its money or nothing, and leaves the disk sound.
LEMMA ExitInv ==
  ASSUME Inv, NEW m \in Nat, Exit(m), pc \notin Idle, pc # "write", m > 0 => state.started, paid' \in Nat, unseen' \in Nat
  PROVE  Inv'
<1>1. SessionInv /\ DiskInv /\ TypeOK
  BY DEF Inv
<1>2. /\ UNCHANGED <<state, torn, files, testStarts, limit, lost, topLimit, killed>>
      /\ round' = 0 /\ doing' = "none" /\ ran' = 0 /\ asks' = 0 /\ unsaved' = 0 /\ stops' = stops + 1
      /\ cutTests' \in {cutTests, cutTests + 1}
  BY DEF Exit, CountStop, disk
<1>3. JournalInv(state')
  BY <1>2 DEF Inv
<1>4. /\ torn = FALSE /\ files = state.version /\ files' # state'.version + 1
  <2>1. files \in Nat /\ torn \in BOOLEAN
    BY <1>1 DEF TypeOK
  <2> QED
    BY <1>1, <1>2, <2>1 DEF DiskInv
<1>5. stops' \in Nat /\ cutTests' \in Nat
  BY <1>1, <1>2 DEF TypeOK
<1>6. CASE m > 0
  <2>1. pc' = "write" /\ line' = Line("cut", m)
    BY <1>6 DEF Exit, Write
  <2>2. line'.type = "cut" /\ line'.cost = m /\ NoLine.type = "none"
    BY <2>1 DEF Line, NoLine
  <2>3. TypeOK'
    BY <1>1, <1>2, <1>5, <2>1, <2>2 DEF TypeOK, Points, LineTypes
  <2>4. LineInv'
    BY <1>2, <1>6, <2>1 DEF LineInv, CutLine
  <2>5. SessionInv'
    BY <1>2, <2>1, <2>4 DEF SessionInv
  <2>6. DiskInv'
    BY <1>1, <1>2, <1>4, <2>1 DEF DiskInv
  <2> QED
    BY <1>3, <2>3, <2>5, <2>6 DEF Inv
<1>7. CASE ~(m > 0)
  <2>1. pc' = "down" /\ pc' # "write" /\ line' = NoLine
    BY <1>7 DEF Exit
  <2>2. NoLine.type = "none" /\ NoLine.cost = 0
    BY DEF NoLine
  <2>3. TypeOK'
    BY <1>1, <1>2, <1>5, <2>1, <2>2 DEF TypeOK, Points, Idle
  <2>4. SessionInv'
    BY <1>2, <2>1 DEF SessionInv
  <2>5. DiskInv'
    BY <1>1, <1>2, <1>4, <2>1 DEF DiskInv
  <2> QED
    BY <1>3, <2>3, <2>4, <2>5 DEF Inv
<1> QED
  BY <1>6, <1>7

\* A session that has spent anything has started.
LEMMA SpendsStarted ==
  ASSUME Inv
  PROVE  /\ unsaved \in Nat /\ paid \in Nat /\ unseen \in Nat
         /\ unsaved > 0 => state.started
         /\ pc \in {"asking", "sweeping", "running"} => state.started
<1>1. SessionInv /\ unsaved \in Nat /\ paid \in Nat /\ unseen \in Nat
  BY DEF Inv, TypeOK
<1>2. pc \in {"asking", "sweeping", "running"} => state.started
  BY <1>1 DEF SessionInv, FreeSlot, AtSlot, InRound, AtRound, Probing, Measuring, Taken, Testing, Over
<1> QED
  BY <1>1, <1>2 DEF SessionInv

\* A run or a request costs a number, and one in flight at a stop too.
LEMMA CostIsNumber == Costs \subseteq Nat /\ MaxCost \in Nat /\ \A c \in Costs : c <= MaxCost
BY EvolveAssumption

LEMMA Drops ==
  ASSUME Inv, DropsInFlight
  PROVE  \E c \in Nat : c <= MaxCost /\ paid' = paid + c /\ unseen' = unseen + c
                       /\ paid' \in Nat /\ unseen' \in Nat
<1>1. PICK c \in Costs \cup {0} : paid' = paid + c /\ unseen' = unseen + c
  BY DEF DropsInFlight
<1>2. c \in Nat /\ c <= MaxCost
  BY <1>1, CostIsNumber
<1> QED
  BY <1>1, <1>2, SpendsStarted

LEMMA FailsInv ==
  ASSUME Inv, FailsBeforeRounds
  PROVE  Inv'
<1>1. 0 \in Nat /\ ~(0 > 0) /\ Exit(0) /\ pc \notin Idle /\ pc # "write" /\ paid' \in Nat /\ unseen' \in Nat
  BY DEF FailsBeforeRounds, Idle, Inv, TypeOK
<1> QED
  BY <1>1, ExitInv

LEMMA SignalInv ==
  ASSUME Inv, Signal
  PROVE  Inv'
<1>1. unsaved \in Nat /\ Exit(unsaved) /\ pc \notin Idle /\ pc # "write" /\ paid' \in Nat /\ unseen' \in Nat
  BY SpendsStarted, Drops DEF Signal, Idle, Awaits
<1> QED
  BY <1>1, SpendsStarted, ExitInv

LEMMA KillInv ==
  ASSUME Inv, Kill
  PROVE  Inv'
<1>1. SessionInv /\ DiskInv /\ TypeOK
  BY DEF Inv
<1>2. /\ pc' = "down" /\ pc' # "write" /\ round' = 0 /\ doing' = "none" /\ ran' = 0 /\ asks' = 0
      /\ unsaved' = 0 /\ line' = NoLine
      /\ killed' = TRUE /\ UNCHANGED <<state, files, testStarts, limit, topLimit>>
  BY DEF Kill, Gone
<1>3. TypeOK'
  <2>1. lost' \in Nat /\ stops' \in Nat /\ cutTests' \in Nat
    BY <1>1 DEF Kill, TypeOK
  <2>4. paid' \in Nat /\ unseen' \in Nat
    BY Drops DEF Kill
  <2>2. torn' \in BOOLEAN /\ killed' \in BOOLEAN
    BY <1>1, <1>2 DEF Kill, TypeOK
  <2>3. NoLine.type = "none" /\ NoLine.cost = 0
    BY DEF NoLine
  <2> QED
    BY <1>1, <1>2, <2>1, <2>2, <2>3, <2>4 DEF TypeOK, Points, Idle
<1>4. SessionInv'
  BY <1>2 DEF SessionInv
<1>5. DiskInv'
  BY <1>1, <1>2 DEF DiskInv, Idle
<1>6. JournalInv(state')
  BY <1>2 DEF Inv
<1> QED
  BY <1>3, <1>4, <1>5, <1>6 DEF Inv

\* When a session has gone through all rounds, the journal has them.
LEMMA RoundsDone ==
  ASSUME Inv, AtRound, round > Rounds
  PROVE  state.pending = {} /\ Len(state.slots) = All /\ state.feed
<1> DEFINE n == Len(state.slots)
<1>1. n \in Nat /\ state.pending \subseteq 1 .. n /\ Rounds \in Nat \ {0} /\ All = 2 * Rounds /\ n <= All
  BY JournalNumbers DEF Inv, JournalInv, RoundsSound
<1>2. round \in Nat /\ n >= Slot(round, 1) - 1 /\ \A p \in state.pending : RoundOf(p) >= round
  BY DEF AtRound
<1>3. n = All
  BY <1>1, <1>2 DEF Slot, Candidates
<1>4. ASSUME NEW p \in state.pending PROVE FALSE
  <2>1. p \in Nat \ {0} /\ p <= All
    BY <1>1, <1>3
  <2>2. RoundOf(p) \in Nat /\ 2 * RoundOf(p) - 1 <= p
    BY <2>1, RoundBounds
  <2> QED
    BY <1>1, <1>2, <2>1, <2>2
<1>5. state.feed
  BY <1>1, <1>2 DEF AtRound
<1> QED
  BY <1>3, <1>4, <1>5

LEMMA RoundTopInv ==
  ASSUME Inv, RoundTop
  PROVE  Inv'
<1>1. SessionInv /\ DiskInv /\ TypeOK /\ JournalInv(state)
  BY DEF Inv
<1>2. /\ pc = "round" /\ AtRound /\ doing = "none" /\ unsaved = 0
      /\ UNCHANGED <<state, round, torn, files, testStarts, limit, asks, unsaved, line,
                     paid, lost, unseen, topLimit, stops, killed, cutTests>>
  BY <1>1 DEF RoundTop, SessionInv, disk, past
<1>3. /\ pc' \in {"final", "slot", "sweeping"} /\ pc' # "write"
      /\ doing' \in {"none", "probe"} /\ ran' \in {ran, 0}
  BY <1>2 DEF RoundTop
<1>4. TypeOK'
  BY <1>1, <1>2, <1>3 DEF TypeOK, Points
<1>5. DiskInv'
  BY <1>1, <1>2, <1>3 DEF DiskInv, Idle
<1>6. JournalInv(state')
  BY <1>1, <1>2
<1>7. round \in Nat /\ Rounds \in Nat
  BY <1>2, JournalNumbers DEF AtRound, Inv
<1>8. SessionInv'
  <2>1. CASE round > Rounds \/ exhausted(state) = Fields
    <3>1. Over
      <4>1. CASE round > Rounds
        BY <1>2, <4>1, RoundsDone DEF Over, RoundsOver, AtRound
      <4>2. CASE exhausted(state) = Fields
        <5>1. state.pending = {}
          BY <1>1, <4>2 DEF JournalInv, RoundsSound, FieldsOpen
        <5>2. state.feed
          BY <1>1, <4>2, NoneExhausted DEF JournalInv
        <5> QED
          BY <1>2, <4>2, <5>1, <5>2 DEF Over, RoundsOver, AtRound
      <4> QED
        BY <2>1, <4>1, <4>2
    <3>2. Over'
      BY <1>2, <3>1, SamePlace
    <3> QED
      BY <1>2, <2>1, <3>2 DEF RoundTop, SessionInv
  <2>2. CASE ~(round > Rounds \/ exhausted(state) = Fields) /\ state.feed
    <3>1. AtSlot
      BY <1>1, <1>2, <1>7, <2>2 DEF AtSlot, InRound, JournalInv, RoundsSound, TestsOfLast, RoundsOver
    <3>2. AtSlot'
      BY <1>2, <3>1, SamePlace
    <3> QED
      BY <1>2, <2>2, <3>2 DEF RoundTop, SessionInv
  <2>3. CASE ~(round > Rounds \/ exhausted(state) = Fields) /\ ~state.feed
    <3>1. Probing'
      BY <1>2, <1>7, <2>3, SamePlace DEF Probing
    <3> QED
      BY <1>2, <2>3, <3>1 DEF RoundTop, SessionInv
  <2> QED
    BY <2>1, <2>2, <2>3
<1> QED
  BY <1>4, <1>5, <1>6, <1>8 DEF Inv

LEMMA SlotsTakenInv ==
  ASSUME Inv, SlotsTaken
  PROVE  Inv'
<1>1. SessionInv /\ DiskInv /\ TypeOK /\ JournalInv(state)
  BY DEF Inv
<1>2. /\ pc = "slot" /\ AtSlot /\ doing = "none" /\ unsaved = 0 /\ pc' = "measure"
      /\ UNCHANGED <<state, round, torn, files, testStarts, limit, doing, ran, asks, unsaved, line,
                     paid, lost, unseen, topLimit, stops, killed, cutTests>>
  BY <1>1 DEF SlotsTaken, SessionInv, disk, work, past
<1>3. TypeOK'
  BY <1>1, <1>2 DEF TypeOK, Points
<1>4. DiskInv'
  BY <1>1, <1>2 DEF DiskInv, Idle
<1>5. Taken
  <2>1. Len(state.slots) \in Nat /\ round \in Nat
    BY <1>1, <1>2, JournalNumbers DEF AtSlot, InRound, AtRound
  <2> QED
    BY <1>2, <2>1 DEF SlotsTaken, NextSlot, Taken, AtSlot, Slot, Candidates
<1>6. SessionInv'
  BY <1>2, <1>5, SamePlace DEF SessionInv
<1> QED
  BY <1>1, <1>2, <1>3, <1>4, <1>6 DEF Inv

LEMMA NothingInv ==
  ASSUME Inv, NothingToPropose
  PROVE  Inv'
<1>1. SessionInv /\ DiskInv /\ TypeOK /\ JournalInv(state)
  BY DEF Inv
<1>2. /\ pc = "slot" /\ AtSlot /\ doing = "none" /\ unsaved = 0 /\ pc' = "write"
      /\ line' = Candidate(NextSlot, NoEdit, 0, 0)
      /\ UNCHANGED <<state, round, torn, files, testStarts, limit, doing, ran, asks, unsaved,
                     paid, lost, unseen, topLimit, stops, killed, cutTests>>
  BY <1>1 DEF NothingToPropose, Write, SessionInv, disk, past
<1>3. line'.type = "candidate" /\ line'.cost = 0 /\ NoLine.type = "none"
  BY <1>2 DEF Candidate, NoLine
<1>4. TypeOK'
  BY <1>1, <1>2, <1>3 DEF TypeOK, Points, LineTypes
<1>5. DiskInv'
  BY <1>1, <1>2 DEF DiskInv, Idle
<1>6. FreeSlot
  BY <1>2 DEF NothingToPropose, FreeSlot
<1>7. RefusalLine'
  BY <1>2, <1>6, SamePlace DEF RefusalLine
<1>8. SessionInv'
  BY <1>2, <1>7 DEF SessionInv, LineInv
<1> QED
  BY <1>1, <1>2, <1>4, <1>5, <1>8 DEF Inv

LEMMA AskInv ==
  ASSUME Inv, Ask
  PROVE  Inv'
<1>1. SessionInv /\ DiskInv /\ TypeOK /\ JournalInv(state)
  BY DEF Inv
<1>2. CASE overLimit(0)
  <2>1. 0 \in Nat /\ ~(0 > 0) /\ Exit(0) /\ pc \notin Idle /\ pc # "write" /\ paid' \in Nat /\ unseen' \in Nat
    BY <1>1, <1>2 DEF Ask, Idle, TypeOK
  <2> QED
    BY <2>1, ExitInv
<1>3. CASE ~overLimit(0)
  <2>1. /\ pc = "slot" /\ AtSlot /\ doing = "none" /\ unsaved = 0 /\ pc' = "asking" /\ asks' = 1
        /\ UNCHANGED <<state, round, torn, files, testStarts, limit, doing, ran, unsaved, line,
                       paid, lost, unseen, topLimit, stops, killed, cutTests>>
    BY <1>1, <1>3 DEF Ask, SessionInv, disk, past
  <2>2. TypeOK'
    BY <1>1, <2>1 DEF TypeOK, Points, Awaits
  <2>3. DiskInv'
    BY <1>1, <2>1 DEF DiskInv, Idle
  <2>4. FreeSlot /\ closed # Fields
    BY <2>1 DEF Ask, FreeSlot
  <2>5. SessionInv'
    BY <2>1, <2>4, SamePlace DEF SessionInv
  <2> QED
    BY <1>1, <2>1, <2>2, <2>3, <2>5 DEF Inv
<1> QED
  BY <1>2, <1>3

LEMMA AskFailsInv ==
  ASSUME Inv, AskFails
  PROVE  Inv'
<1>1. unsaved \in Nat /\ Exit(unsaved) /\ pc \notin Idle /\ pc # "write" /\ paid' \in Nat /\ unseen' \in Nat
  BY SpendsStarted, Drops DEF AskFails, Idle
<1> QED
  BY <1>1, SpendsStarted, ExitInv

LEMMA ReplyInv ==
  ASSUME Inv, NEW e \in Edits \cup {NoEdit}, NEW price \in Costs, Reply(e, price)
  PROVE  Inv'
<1> DEFINE cost == unsaved + price
           onClosed == e # NoEdit /\ e.field \in closed
           fine == e # NoEdit /\ ~onClosed /\ checkEdit(state, e)
<1>1. SessionInv /\ DiskInv /\ TypeOK /\ JournalInv(state)
  BY DEF Inv
<1>2. /\ pc = "asking" /\ FreeSlot /\ closed # Fields /\ doing = "none" /\ state.started
      /\ cost \in Nat /\ paid' \in Nat /\ unseen' \in Nat
  BY <1>1, SpendsStarted, CostIsNumber DEF Reply, SessionInv
<1>3. CASE (onClosed /\ asks = 1) /\ overLimit(cost)
  <2>1. Exit(cost) /\ pc \notin Idle /\ pc # "write"
    BY <1>2, <1>3 DEF Reply, Idle
  <2> QED
    BY <1>2, <2>1, ExitInv
<1>4. CASE (onClosed /\ asks = 1) /\ ~overLimit(cost)
  <2>1. /\ asks' = 2 /\ unsaved' = cost
        /\ UNCHANGED <<state, torn, files, testStarts, pc, limit, round, doing, ran, line,
                       lost, unseen, topLimit, stops, killed, cutTests>>
    BY <1>4 DEF Reply, disk
  <2>2. TypeOK'
    BY <1>1, <1>2, <2>1 DEF TypeOK
  <2>3. DiskInv'
    BY <1>1, <2>1 DEF DiskInv
  <2>4. SessionInv'
    BY <1>2, <2>1, SamePlace DEF SessionInv
  <2> QED
    BY <1>1, <2>1, <2>2, <2>3, <2>4 DEF Inv
<1>5. CASE ~(onClosed /\ asks = 1)
  <2>1. /\ asks' = 0 /\ unsaved' = 0 /\ pc' = "write"
        /\ line' = IF fine THEN Proposal(NextSlot, e, cost) ELSE Candidate(NextSlot, e, 0, cost)
        /\ UNCHANGED <<state, torn, files, testStarts, limit, round, doing, ran,
                       lost, unseen, topLimit, stops, killed, cutTests>>
    BY <1>5 DEF Reply, Write, disk
  <2>2. line'.type \in {"proposal", "candidate"} /\ line'.cost = cost /\ NoLine.type = "none"
    BY <2>1 DEF Proposal, Candidate, NoLine
  <2>3. TypeOK'
    BY <1>1, <1>2, <2>1, <2>2 DEF TypeOK, Points, LineTypes
  <2>4. DiskInv'
    BY <1>1, <1>2, <2>1 DEF DiskInv, Idle
  <2>5. LineInv'
    <3>1. CASE fine
      <4>1. ProposalLine'
        BY <1>2, <2>1, <3>1, SamePlace DEF ProposalLine
      <4> QED
        BY <4>1 DEF LineInv
    <3>2. CASE ~fine
      <4>1. RefusalLine'
        BY <1>2, <2>1, <3>2, SamePlace DEF RefusalLine
      <4> QED
        BY <4>1 DEF LineInv
    <3> QED
      BY <3>1, <3>2
  <2>6. SessionInv'
    BY <1>2, <2>1, <2>5 DEF SessionInv
  <2> QED
    BY <1>1, <2>1, <2>3, <2>4, <2>6 DEF Inv
<1> QED
  BY <1>3, <1>4, <1>5

LEMMA MeasureInv ==
  ASSUME Inv, Measure
  PROVE  Inv'
<1>1. SessionInv /\ DiskInv /\ TypeOK /\ JournalInv(state)
  BY DEF Inv
<1>2. /\ pc = "measure" /\ Taken /\ doing = "none" /\ unsaved = 0
      /\ UNCHANGED <<state, torn, files, testStarts, limit, asks, unsaved, line,
                     paid, lost, unseen, topLimit, stops, killed, cutTests>>
  BY <1>1 DEF Measure, SessionInv, disk, past
<1>3. round \in Nat \ {0} /\ Len(state.slots) \in Nat /\ state.sweeps \in Nat /\ state.sweeps <= Repeats
      /\ Repeats \in Nat /\ state.pending \subseteq 1 .. Len(state.slots)
  BY <1>1, <1>2, JournalNumbers DEF Taken, InRound, AtRound, JournalInv, RoundsSound, SweepsOfRound
<1>4. DiskInv'
  <2>1. pc' \in {"round", "sweeping", "decide"}
    BY DEF Measure
  <2> QED
    BY <1>1, <1>2, <2>1 DEF DiskInv, Idle
<1>5. TypeOK'
  <2>1. pc' \in {"round", "sweeping", "decide"} /\ pc' # "write" /\ doing' \in {"none", "sweep"}
        /\ ran' \in {ran, 0} /\ round' \in {round, round + 1}
    BY <1>2 DEF Measure
  <2> QED
    BY SMTT(20), <1>1, <1>2, <1>3, <2>1 DEF TypeOK, Points
<1>6. SessionInv'
  <2>1. CASE open = {}
    <3>1. pc' = "round" /\ round' = round + 1 /\ doing' = "none"
      BY <1>2, <2>1 DEF Measure
    <3>2. \A p \in state.pending : RoundOf(p) >= round + 1
      <4> TAKE p \in state.pending
      <4>1. RoundOf(p) \in Nat
        <5>1. p \in Nat \ {0}
          BY <1>3
        <5> QED
          BY <5>1, RoundBounds
      <4>2. RoundOf(p) >= round /\ RoundOf(p) # round
        BY <1>2, <2>1 DEF open, Taken, InRound, AtRound
      <4> QED
        BY <1>3, <4>1, <4>2
    <3>3. Len(state.slots) >= Slot(round + 1, 1) - 1 /\ state.feed /\ state.started
      BY <1>2, <1>3 DEF Taken, InRound, AtRound, Slot, Candidates
    <3>4. AtRound'
      BY <1>2, <1>3, <3>1, <3>2, <3>3 DEF AtRound
    <3> QED
      BY <1>2, <3>1, <3>4 DEF SessionInv
  <2>2. CASE open # {} /\ state.sweeps < Repeats
    <3>1. pc' = "sweeping" /\ round' = round /\ doing' = "sweep"
      BY <1>2, <2>2 DEF Measure
    <3>2. Measuring
      BY <1>2, <2>2 DEF Measuring
    <3> QED
      BY <1>2, <3>1, <3>2, SamePlace DEF SessionInv
  <2>3. CASE open # {} /\ ~(state.sweeps < Repeats)
    <3>1. pc' = "decide" /\ round' = round /\ doing' = "none"
      BY <1>2, <2>3 DEF Measure
    <3>2. Deciding
      BY <1>2, <1>3, <2>3 DEF Deciding
    <3> QED
      BY <1>2, <3>1, <3>2, SamePlace DEF SessionInv
  <2> QED
    BY <2>1, <2>2, <2>3
<1> QED
  BY <1>1, <1>2, <1>4, <1>5, <1>6 DEF Inv

\* A round has two slots at most, so one of its proposals is its first.
LEMMA FirstIsOpen ==
  ASSUME Inv, AtRound, open # {}
  PROVE  First(open) \in open
<1>1. state.pending \subseteq 1 .. Len(state.slots) /\ Len(state.slots) \in Nat /\ round \in Nat \ {0}
  BY JournalNumbers DEF Inv, AtRound
<1>2. \A p \in open : p = 2 * round - 1 \/ p = 2 * round
  <2> TAKE p \in open
  <2>1. p \in Nat \ {0} /\ RoundOf(p) = round
    BY <1>1 DEF open
  <2>2. 2 * RoundOf(p) - 1 <= p /\ p <= 2 * RoundOf(p)
    BY <2>1, RoundBounds
  <2> QED
    BY <1>1, <2>1, <2>2
<1>3. \E p \in open : \A q \in open : p <= q
  <2>1. CASE 2 * round - 1 \in open
    BY <1>1, <1>2, <2>1
  <2>2. CASE 2 * round - 1 \notin open
    BY <1>1, <1>2, <2>2
  <2> QED
    BY <2>1, <2>2
<1> QED
  BY <1>3 DEF First

LEMMA DecideInv ==
  ASSUME Inv, Decide
  PROVE  Inv'
<1> DEFINE p == First(open)
           v == IF state.winner = p THEN state.version + 1 ELSE 0
<1>1. SessionInv /\ DiskInv /\ TypeOK /\ JournalInv(state)
  BY DEF Inv
<1>2. /\ pc = "decide" /\ Deciding /\ doing = "none" /\ unsaved = 0
      /\ UNCHANGED <<state, torn, testStarts, limit, round, doing, ran, asks, unsaved,
                     paid, lost, unseen, topLimit, stops, killed, cutTests>>
  BY <1>1 DEF Decide, SessionInv, past
<1>3. p \in open
  BY <1>2, FirstIsOpen DEF Deciding, Taken, InRound
<1>4. files = state.version /\ state.version \in Nat /\ torn = FALSE /\ v \in Nat
  <2>1. files \in Nat /\ torn \in BOOLEAN /\ state.version \in Nat
    BY <1>1, JournalNumbers DEF TypeOK
  <2> QED
    BY <1>1, <1>2, <2>1 DEF DiskInv, Idle
<1>5. files' = (IF v > 0 THEN v ELSE files) /\ pc' = "write" /\ line' = Candidate(p, state.slots[p], v, 0)
  <2>1. ~(v > 0 /\ files >= v)
    BY <1>4
  <2> QED
    BY <2>1 DEF Decide, Write
<1> HIDE DEF p
<1>6. line'.type = "candidate" /\ line'.cost = 0 /\ line'.version = v /\ NoLine.type = "none"
  BY <1>5 DEF Candidate, NoLine
<1>7. TypeOK'
  <2>1. files' \in Nat
    BY <1>4, <1>5
  <2> QED
    BY <1>1, <1>2, <1>5, <1>6, <2>1 DEF TypeOK, Points, LineTypes
<1>8. DiskInv'
  BY <1>1, <1>2, <1>4, <1>5, <1>6 DEF DiskInv, Idle
<1>9. VerdictLine'
  <2>1. p \in open' /\ Deciding'
    BY <1>2, <1>3, SamePlace
  <2>2. v > 0 => files' = state'.version + 1
    BY <1>2, <1>5
  <2>3. line' = Candidate(p, state'.slots[p], IF state'.winner = p THEN state'.version + 1 ELSE 0, 0)
    BY <1>2, <1>5
  <2>4. state'.winner = p => files' = state'.version + 1
    BY <1>2, <1>4, <2>2
  <2> QED
    BY <1>2, <2>1, <2>3, <2>4 DEF VerdictLine
<1>10. SessionInv'
  BY <1>2, <1>5, <1>9 DEF SessionInv, LineInv
<1> QED
  BY <1>1, <1>2, <1>7, <1>8, <1>10 DEF Inv

LEMMA FinalTestInv ==
  ASSUME Inv, FinalTest
  PROVE  Inv'
<1>1. SessionInv /\ DiskInv /\ TypeOK /\ JournalInv(state)
  BY DEF Inv
<1>2. /\ pc = "final" /\ Over /\ doing = "none" /\ unsaved = 0
      /\ UNCHANGED <<state, torn, files, limit, round, asks, unsaved,
                     paid, lost, unseen, topLimit, stops, killed, cutTests>>
  BY <1>1 DEF FinalTest, SessionInv, past
<1>3. state.version \in Nat /\ state.tests \in Nat /\ Repeats \in Nat /\ TestsOfLast(state)
  BY <1>1, JournalNumbers DEF JournalInv, RoundsSound
<1>4. CASE state.final
  <2>1. pc' = "reported" /\ UNCHANGED <<testStarts, doing, ran, line>>
    BY <1>4 DEF FinalTest
  <2>2. TypeOK'
    BY <1>1, <1>2, <2>1 DEF TypeOK, Points, Idle
  <2>3. DiskInv'
    BY <1>1, <1>2, <2>1 DEF DiskInv, Idle
  <2>4. SessionInv'
    BY <1>2, <1>4, <2>1 DEF SessionInv
  <2> QED
    BY <1>1, <1>2, <2>2, <2>3, <2>4 DEF Inv
<1>5. CASE ~state.final /\ state.version > 0 /\ state.tests < Repeats
  <2>1. testStarts' = testStarts + 1 /\ pc' = "sweeping" /\ doing' = "test" /\ ran' = 0 /\ line' = line
    BY <1>5 DEF FinalTest
  <2>2. TypeOK'
    BY <1>1, <1>2, <2>1 DEF TypeOK, Points
  <2>3. DiskInv'
    BY <1>1, <1>2, <2>1 DEF DiskInv, Idle
  <2>4. Testing
    BY <1>2, <1>5 DEF Testing
  <2>5. SessionInv'
    BY <1>2, <2>1, <2>4, SamePlace DEF SessionInv
  <2> QED
    BY <1>1, <1>2, <2>2, <2>3, <2>5 DEF Inv
<1>6. CASE ~state.final /\ ~(state.version > 0 /\ state.tests < Repeats)
  <2>1. pc' = "write" /\ line' = Final(state.version) /\ UNCHANGED <<testStarts, doing, ran>>
    BY <1>6 DEF FinalTest, Write
  <2>2. line'.type = "final" /\ line'.cost = 0 /\ NoLine.type = "none"
    BY <2>1 DEF Final, NoLine
  <2>3. TypeOK'
    BY <1>1, <1>2, <2>1, <2>2 DEF TypeOK, Points, LineTypes
  <2>4. DiskInv'
    BY <1>1, <1>2, <2>1 DEF DiskInv, Idle
  <2>5. state.tests = IF state.version > 0 THEN Repeats ELSE 0
    BY <1>3, <1>6 DEF TestsOfLast
  <2>6. FinalLine'
    BY <1>2, <1>6, <2>1, <2>5, SamePlace DEF FinalLine
  <2>7. SessionInv'
    BY <1>2, <2>1, <2>6 DEF SessionInv, LineInv
  <2> QED
    BY <1>1, <1>2, <2>3, <2>4, <2>7 DEF Inv
<1> QED
  BY <1>4, <1>5, <1>6

LEMMA BeginRunInv ==
  ASSUME Inv, BeginRun
  PROVE  Inv'
<1>1. SessionInv /\ DiskInv /\ TypeOK /\ JournalInv(state)
  BY DEF Inv
<1>2. CASE overLimit(unsaved)
  <2>1. Exit(unsaved) /\ pc \notin Idle /\ pc # "write" /\ paid' \in Nat /\ unseen' \in Nat /\ unsaved \in Nat
    BY <1>2, SpendsStarted DEF BeginRun, Idle
  <2> QED
    BY <2>1, SpendsStarted, ExitInv
<1>3. CASE ~overLimit(unsaved)
  <2>1. /\ pc = "sweeping" /\ pc' = "running"
        /\ UNCHANGED <<state, torn, files, testStarts, limit, round, doing, ran, asks, unsaved, line,
                       paid, lost, unseen, topLimit, stops, killed, cutTests>>
    BY <1>3 DEF BeginRun, disk, work, past
  <2>2. TypeOK'
    BY <1>1, <2>1 DEF TypeOK, Points, Awaits
  <2>3. DiskInv'
    BY <1>1, <2>1 DEF DiskInv, Idle
  <2>4. SessionInv'
    BY <1>1, <2>1, SamePlace DEF SessionInv
  <2> QED
    BY <1>1, <2>1, <2>2, <2>3, <2>4 DEF Inv
<1> QED
  BY <1>2, <1>3

LEMMA EndRunInv ==
  ASSUME Inv, NEW w \in 0 .. Rounds * Candidates, NEW price \in Costs, EndRun(w, price)
  PROVE  Inv'
<1> DEFINE cost == unsaved + price
<1>1. SessionInv /\ DiskInv /\ TypeOK /\ JournalInv(state)
  BY DEF Inv
<1>2. /\ pc = "running" /\ cost \in Nat /\ paid' \in Nat /\ ran' \in Nat
      /\ UNCHANGED <<state, torn, files, testStarts, limit, round, doing, asks,
                     lost, unseen, topLimit, stops, killed, cutTests>>
  BY <1>1, CostIsNumber DEF EndRun, disk, TypeOK
<1>3. w \in Nat /\ Rounds * Candidates \in Nat
  BY EvolveAssumption DEF Candidates
<1>4. CASE ran' < Total
  <2>1. pc' = "sweeping" /\ unsaved' = cost /\ line' = line
    BY <1>4 DEF EndRun
  <2>2. TypeOK'
    BY <1>1, <1>2, <2>1 DEF TypeOK, Points
  <2>3. DiskInv'
    BY <1>1, <1>2, <2>1 DEF DiskInv, Idle
  <2>4. SessionInv'
    BY <1>1, <1>2, <2>1, SamePlace DEF SessionInv
  <2> QED
    BY <1>1, <1>2, <2>2, <2>3, <2>4 DEF Inv
<1>5. CASE ~(ran' < Total)
  <2>1. /\ w # 0 => doing = "sweep" /\ state.sweeps + 1 = Repeats /\ w \in open
        /\ unsaved' = 0 /\ pc' = "write"
        /\ doing = "probe" => line' = Line("probe", cost)
        /\ doing = "sweep" => line' = Sweep(round, state.sweeps + 1, open, w, cost)
        /\ doing = "test" => line' = TestSweep(state.tests + 1, cost)
    BY <1>5 DEF EndRun, Write
  <2>2. \/ doing = "probe" /\ Probing
        \/ doing = "sweep" /\ Measuring
        \/ doing = "test" /\ Testing
    BY <1>1, <1>2 DEF SessionInv
  <2>3. line'.type \in {"probe", "sweep", "testsweep"} /\ line'.cost = cost /\ NoLine.type = "none"
    BY <2>1, <2>2 DEF Line, Sweep, TestSweep, NoLine
  <2>4. TypeOK'
    BY <1>1, <1>2, <2>1, <2>3 DEF TypeOK, Points, LineTypes
  <2>5. DiskInv'
    BY <1>1, <1>2, <2>1 DEF DiskInv, Idle
  <2>6. LineInv'
    <3>1. CASE doing = "probe" /\ Probing
      <4>1. ProbeLine'
        BY <1>2, <2>1, <3>1, SamePlace DEF ProbeLine
      <4> QED
        BY <4>1 DEF LineInv
    <3>2. CASE doing = "sweep" /\ Measuring
      <4>1. SweepLine'
        BY <1>2, <1>3, <2>1, <3>2, SamePlace DEF SweepLine
      <4> QED
        BY <4>1 DEF LineInv
    <3>3. CASE doing = "test" /\ Testing
      <4>1. TestLine'
        BY <1>2, <2>1, <3>3, SamePlace DEF TestLine
      <4> QED
        BY <4>1 DEF LineInv
    <3> QED
      BY <2>2, <3>1, <3>2, <3>3
  <2>7. SessionInv'
    BY <1>2, <2>1, <2>6 DEF SessionInv
  <2> QED
    BY <1>1, <1>2, <2>4, <2>5, <2>7 DEF Inv
<1> QED
  BY <1>4, <1>5

LEMMA RunStopsInv ==
  ASSUME Inv, NEW price \in Costs, RunStops(price)
  PROVE  Inv'
<1>1. unsaved + price \in Nat /\ Exit(unsaved + price) /\ pc \notin Idle /\ pc # "write" /\ paid' \in Nat /\ unseen' \in Nat /\ state.started
  BY SpendsStarted, CostIsNumber DEF RunStops, Idle
<1> QED
  BY <1>1, ExitInv

------------------------------------------------------------------------------
\* A line reaches the journal: by its type, the journal stays sound, the session
\* goes on where it may, and an evolve that nothing stops takes the step too.

StepsNext == Steps!Next \/ UNCHANGED Steps!vars

\* What is left to show once a line is known to be legal.
LEMMA Accepted ==
  ASSUME Inv, Appended, legal(state, line), NEW a, a = applied(state, line), JournalInv(a),
         a.spent = state.spent
  PROVE  /\ JournalInv(state') /\ SameBut(state', a) /\ exhausted(state') = exhausted(a)
         /\ state'.spent = state.spent + line.cost
         /\ pc' = After(line) /\ torn' = FALSE /\ doing' = "none" /\ unsaved' = 0
         /\ UNCHANGED <<files, round, killed>>
         /\ pc' \in Points \ {"write"} => TypeOK'
<1>1. SessionInv /\ DiskInv /\ TypeOK /\ JournalInv(state)
  BY DEF Inv
<1>2. /\ pc = "write" /\ unsaved = 0 /\ line' = NoLine /\ doing' = "none" /\ ran' = 0 /\ torn' = FALSE
      /\ UNCHANGED <<files, testStarts, limit, round, asks, unsaved, paid, lost, unseen, topLimit, stops,
                     killed, cutTests>>
  BY <1>1 DEF Appended, SessionInv, past
<1>3. state' = replay(state, line)
  <2>1. torn = FALSE
    BY <1>1, <1>2 DEF DiskInv, TypeOK, Idle
  <2> QED
    BY <2>1 DEF Appended
<1>4. state \in Journals /\ state.ok /\ a \in Journals /\ line.cost \in Nat
  BY <1>1, JournalNumbers DEF JournalInv, TypeOK
<1>5. state' \in Journals /\ state'.spent = state.spent + line.cost /\ SameBut(state', a)
  BY <1>3, <1>4, Replayed
<1>6. JournalInv(state')
  BY <1>5, MoneyApart
<1>7. pc' = After(line)
  BY <1>6 DEF Appended, JournalInv
<1>8. exhausted(state') = exhausted(a)
  BY <1>5, ExhaustedSame DEF SameBut
<1>9. pc' \in Points \ {"write"} => TypeOK'
  <2>1. NoLine.type = "none" /\ NoLine.cost = 0
    BY DEF NoLine
  <2>2. torn' \in BOOLEAN /\ killed' \in BOOLEAN
    BY <1>1, <1>2 DEF TypeOK
  <2>3. {files', testStarts', limit', round', ran', asks', unsaved', paid', lost', unseen', topLimit', stops', cutTests'}
           \subseteq Nat
    BY <1>1, <1>2 DEF TypeOK
  <2>4. ASSUME pc' \in Points \ {"write"} PROVE pc' \in Points /\ (pc' = "write") = (line' # NoLine)
    BY <1>2, <2>4
  <2> QED
    BY <1>2, <2>1, <2>2, <2>3, <2>4 DEF TypeOK
<1> QED
  BY <1>2, <1>5, <1>6, <1>7, <1>8, <1>9

\* Two journals with the same rounds are the same to an evolve nothing stops.
LEMMA StepsUnchanged ==
  ASSUME state'.slots = state.slots, state'.pending = state.pending, state'.sweeps = state.sweeps,
         state'.version = state.version, state'.tests = state.tests, state'.final = state.final,
         exhausted(state') = exhausted(state)
  PROVE  StepsNext
BY DEF StepsNext, Steps!vars

LEMMA StartLineInv ==
  ASSUME Inv, Appended, StartLine
  PROVE  Inv' /\ StepsNext
<1>1. SessionInv /\ DiskInv /\ TypeOK /\ JournalInv(state) /\ pc = "write"
  BY DEF Inv, Appended
<1> DEFINE a == applied(state, line)
<1>2. line = Line("start", 0) /\ ~state.started /\ line.type = "start"
  BY DEF StartLine, Line
<1>3. legal(state, line) /\ JournalInv(a)
  BY <1>1, <1>2, StartKeeps
<1>4. a = [state EXCEPT !.started = TRUE] /\ state \in Journals
  <2>1. state \in Journals /\ 0 \in Nat
    BY <1>1 DEF JournalInv
  <2> QED
    BY <1>2, <2>1, OthersApplied
<1>5. /\ a.started /\ a.spent = state.spent /\ a.feed = state.feed /\ a.slots = state.slots
      /\ a.pending = state.pending /\ a.refused = state.refused /\ a.sweeps = state.sweeps
      /\ a.version = state.version /\ a.tests = state.tests /\ a.final = state.final
  BY <1>4 DEF Journals
<1> HIDE DEF a
<1>6. a = applied(state, line)
  BY DEF a
<1>7. /\ JournalInv(state') /\ SameBut(state', a) /\ exhausted(state') = exhausted(a)
      /\ pc' = After(line) /\ torn' = FALSE /\ doing' = "none" /\ unsaved' = 0
      /\ UNCHANGED <<files, round, killed>>
      /\ pc' \in Points \ {"write"} => TypeOK'
  BY <1>3, <1>5, <1>6, Accepted
<1>8. pc' = "ready"
  BY <1>2, <1>7 DEF After
<1>9. SessionInv'
  BY <1>5, <1>7, <1>8 DEF SessionInv, SameBut
<1>10. DiskInv'
  <2>1. files = state.version /\ state.version \in Nat
    BY <1>1, <1>2, JournalNumbers DEF DiskInv, Idle
  <2>2. state'.version = state.version
    BY <1>5, <1>7 DEF SameBut
  <2> QED
    BY <1>7, <1>8, <2>1, <2>2 DEF DiskInv
<1>11. StepsNext
  <2>1. exhausted(a) = exhausted(state)
    BY <1>5, ExhaustedSame
  <2> QED
    BY <1>5, <1>7, <2>1, StepsUnchanged DEF SameBut
<1> QED
  BY <1>7, <1>8, <1>9, <1>10, <1>11 DEF Inv, Points, Awaits

LEMMA CutLineInv ==
  ASSUME Inv, Appended, CutLine
  PROVE  Inv' /\ StepsNext
<1>1. SessionInv /\ DiskInv /\ TypeOK /\ JournalInv(state) /\ pc = "write"
  BY DEF Inv, Appended
<1>2. PICK c \in Nat : line = Line("cut", c) /\ state.started
  BY DEF CutLine
<1>3. line.type = "cut"
  BY <1>2 DEF Line
<1>4. legal(state, line) /\ applied(state, line) = state
  BY <1>1, <1>2, CutKeeps
<1>5. /\ JournalInv(state') /\ SameBut(state', state) /\ exhausted(state') = exhausted(state)
      /\ pc' = After(line) /\ torn' = FALSE /\ doing' = "none" /\ unsaved' = 0
      /\ UNCHANGED <<files, round, killed>>
      /\ pc' \in Points \ {"write"} => TypeOK'
  BY <1>1, <1>4, Accepted
<1>6. pc' = "down"
  BY <1>3, <1>5 DEF After
<1>7. SessionInv'
  BY <1>5, <1>6 DEF SessionInv
<1>8. DiskInv'
  <2>1. files = state.version /\ state.version \in Nat
    BY <1>1, <1>3, JournalNumbers DEF DiskInv, Idle
  <2>2. state'.version = state.version
    BY <1>5 DEF SameBut
  <2> QED
    BY <1>5, <1>6, <2>1, <2>2 DEF DiskInv
<1>9. StepsNext
  BY <1>5, StepsUnchanged DEF SameBut
<1> QED
  BY <1>5, <1>6, <1>7, <1>8, <1>9 DEF Inv, Points, Idle

LEMMA ProbeLineInv ==
  ASSUME Inv, Appended, ProbeLine
  PROVE  Inv' /\ StepsNext
<1>1. SessionInv /\ DiskInv /\ TypeOK /\ JournalInv(state) /\ pc = "write"
  BY DEF Inv, Appended
<1> DEFINE a == applied(state, line)
<1>2. PICK c \in Nat : line = Line("probe", c) /\ Probing
  BY DEF ProbeLine
<1>3. line.type = "probe"
  BY <1>2 DEF Line
<1>4. AtRound /\ round <= Rounds /\ ~state.feed /\ state.started
  BY <1>2 DEF Probing, AtRound
<1>5. /\ legal(state, line) /\ JournalInv(a)
      /\ a.started /\ a.feed /\ a.slots = state.slots /\ a.pending = state.pending
      /\ a.refused = state.refused /\ a.sweeps = state.sweeps
      /\ a.version = state.version /\ a.tests = state.tests /\ a.final = state.final
  BY <1>1, <1>2, <1>4, ProbeKeeps
<1>6. a.spent = state.spent
  <2>1. state \in Journals
    BY <1>1 DEF JournalInv
  <2>2. a = [state EXCEPT !.feed = TRUE]
    BY <1>2, <2>1, OthersApplied
  <2> QED
    BY <2>1, <2>2 DEF Journals
<1> HIDE DEF a
<1>7. a = applied(state, line)
  BY DEF a
<1>8. /\ JournalInv(state') /\ SameBut(state', a) /\ exhausted(state') = exhausted(a)
      /\ pc' = After(line) /\ torn' = FALSE /\ doing' = "none" /\ unsaved' = 0
      /\ UNCHANGED <<files, round, killed>>
      /\ pc' \in Points \ {"write"} => TypeOK'
  BY <1>5, <1>6, <1>7, Accepted
<1>9. pc' = "slot"
  BY <1>3, <1>8 DEF After
<1>10. AtSlot'
  <2>1. state.tests = 0 /\ ~state.final
    BY <1>1, <1>4 DEF JournalInv
  <2> QED
    BY <1>4, <1>5, <1>8, <2>1 DEF AtSlot, InRound, AtRound, SameBut
<1>11. SessionInv'
  BY <1>8, <1>9, <1>10 DEF SessionInv
<1>12. DiskInv'
  <2>1. files = state.version /\ state.version \in Nat
    BY <1>1, <1>3, JournalNumbers DEF DiskInv, Idle
  <2>2. state'.version = state.version
    BY <1>5, <1>8 DEF SameBut
  <2> QED
    BY <1>8, <1>9, <2>1, <2>2 DEF DiskInv
<1>13. StepsNext
  <2>1. exhausted(a) = exhausted(state)
    BY <1>5, ExhaustedSame
  <2> QED
    BY <1>5, <1>8, <2>1, StepsUnchanged DEF SameBut
<1> QED
  BY <1>8, <1>9, <1>11, <1>12, <1>13 DEF Inv, Points

\* What holds where a slot is to be taken: it is the round's, and a proposal that
\* waits is the round's first, its field closed to the second.
LEMMA FreeSlotFacts ==
  ASSUME Inv, FreeSlot
  PROVE  /\ NextSlot \in Nat \ {0} /\ NextSlot <= All /\ RoundOf(NextSlot) = round
         /\ state.feed /\ state.tests = 0 /\ ~state.final /\ exhausted(state) \subseteq closed
         /\ \A p \in state.pending : /\ RoundOf(p) = round
                                     /\ closed = exhausted(state) \cup {state.slots[p].field}
<1> DEFINE n == Len(state.slots)
<1>1. /\ n \in Nat /\ state.pending \subseteq 1 .. n /\ Rounds \in Nat /\ All = 2 * Rounds
      /\ state.tests \in Nat /\ round \in Nat \ {0}
  BY JournalNumbers DEF Inv, FreeSlot, AtSlot, InRound, AtRound
<1>2. /\ AtRound /\ round <= Rounds /\ state.feed
      /\ n >= Slot(round, 1) - 1 /\ NextSlot = n + 1 /\ NextSlot <= Slot(round, 2)
      /\ state.tests > 0 \/ state.final => n = All
  BY DEF FreeSlot, AtSlot, InRound, AtRound, NextSlot, Candidates
<1>3. NextSlot \in Nat \ {0} /\ NextSlot <= All /\ NextSlot >= Slot(round, 1) /\ n # All
  BY <1>1, <1>2 DEF Slot, Candidates
<1>4. RoundOf(NextSlot) = round
  BY <1>1, <1>2, <1>3, RoundUnique
<1>5. state.tests = 0 /\ ~state.final
  BY <1>1, <1>2, <1>3
<1>6. ASSUME NEW p \in state.pending
      PROVE  RoundOf(p) = round /\ closed = exhausted(state) \cup {state.slots[p].field}
  <2>1. p \in Nat \ {0} /\ p <= n /\ RoundOf(p) >= round /\ state.slots[p] # NoEdit
    BY <1>1, <1>2 DEF AtRound, Inv, JournalInv, RoundsSound, PendingOfRound
  <2>2. RoundOf(p) \in Nat /\ 2 * RoundOf(p) - 1 <= p
    BY <2>1, RoundBounds
  <2>3. RoundOf(p) = round /\ p = n /\ NextSlot = Slot(round, 2) /\ p = NextSlot - 1
    BY <1>1, <1>2, <2>1, <2>2 DEF Slot, Candidates
  <2> QED
    BY <2>1, <2>3 DEF closed
<1>7. exhausted(state) \subseteq closed
  BY DEF closed
<1> QED
  BY <1>2, <1>3, <1>4, <1>5, <1>6, <1>7

LEMMA ProposalLineInv ==
  ASSUME Inv, Appended, ProposalLine
  PROVE  Inv' /\ StepsNext
<1>1. SessionInv /\ DiskInv /\ TypeOK /\ JournalInv(state) /\ pc = "write" /\ state \in Journals
  BY DEF Inv, Appended, JournalInv
<1> DEFINE a == applied(state, line)
           slot == NextSlot
<1>2. PICK e \in Edits, c \in Nat : /\ line = Proposal(slot, e, c) /\ FreeSlot
                                    /\ e.field \notin closed /\ checkEdit(state, e)
  BY DEF ProposalLine
<1>3. line.type = "proposal"
  BY <1>2 DEF Proposal
<1>4. /\ slot \in Nat \ {0} /\ slot <= All /\ RoundOf(slot) = round
      /\ state.feed /\ state.tests = 0 /\ ~state.final /\ exhausted(state) \subseteq closed
      /\ \A p \in state.pending : /\ RoundOf(p) = round
                                  /\ closed = exhausted(state) \cup {state.slots[p].field}
  BY <1>2, FreeSlotFacts
<1>5. slot = Len(state.slots) + 1
  BY DEF NextSlot
<1>6. e.field \notin exhausted(state)
      /\ \A p \in state.pending : RoundOf(p) = RoundOf(slot) /\ state.slots[p].field # e.field
  BY <1>2, <1>4
<1>7. legal(state, line) /\ JournalInv(a)
  <2> HIDE DEF slot
  <2> QED
    BY <1>1, <1>2, <1>4, <1>5, <1>6, ProposalKeeps
<1>8. ProposalTakes(a, state, e, slot)
  <2>1. slot \in Nat
    BY <1>4
  <2> HIDE DEF slot
  <2> QED
    BY <1>1, <1>2, <1>5, <2>1, ProposalApplied
<1>9. a = applied(state, line)
  OBVIOUS
<1> HIDE DEF a, slot
<1>10. a.spent = state.spent
  BY <1>8 DEF ProposalTakes
<1>11. /\ JournalInv(state') /\ SameBut(state', a)
       /\ pc' = After(line) /\ torn' = FALSE /\ doing' = "none" /\ unsaved' = 0
       /\ UNCHANGED <<files, round, killed>>
       /\ pc' \in Points \ {"write"} => TypeOK'
  BY <1>7, <1>9, <1>10, Accepted
<1>12. /\ state'.started = state.started /\ state'.feed /\ state'.slots = Append(state.slots, e)
       /\ state'.pending = state.pending \cup {slot} /\ state'.sweeps = state.sweeps
       /\ state'.version = state.version /\ state'.tests = 0 /\ state'.final = FALSE
  BY <1>4, <1>8, <1>11 DEF ProposalTakes, SameBut
<1>13. pc' = "slot"
  BY <1>3, <1>11 DEF After
<1>14. Len(state.slots) \in Nat /\ Len(state'.slots) = slot /\ state.version \in Nat /\ Rounds \in Nat
  <2>1. state.slots \in Seq(Edits \cup {NoEdit})
    BY <1>1, JournalNumbers
  <2> QED
    BY <1>1, <1>5, <1>12, <2>1, JournalNumbers
<1>15. AtSlot'
  <2>1. AtSlot /\ AtRound /\ InRound /\ Len(state.slots) >= Slot(round, 1) - 1 /\ round \in Nat
    BY <1>2 DEF FreeSlot, AtSlot, InRound, AtRound
  <2>2. \A p \in state'.pending : RoundOf(p) >= round
    BY <1>4, <1>12, <2>1
  <2>3. Len(state'.slots) >= Slot(round, 1) - 1
    BY <1>5, <1>14, <2>1 DEF Slot, Candidates
  <2>4. AtRound'
    BY <1>11, <1>12, <2>1, <2>2, <2>3 DEF AtRound
  <2> QED
    BY <1>11, <1>12, <2>1, <2>4 DEF AtSlot, InRound
<1>16. SessionInv'
  BY <1>11, <1>13, <1>15 DEF SessionInv
<1>17. DiskInv'
  <2>1. files = state.version
    BY <1>1, <1>3 DEF DiskInv, Idle
  <2> QED
    BY <1>11, <1>12, <1>13, <1>14, <2>1 DEF DiskInv
<1>18. StepsNext
  <2>1. \A p \in state.pending : Steps!RoundOf(p) = Steps!RoundOf(Len(state.slots) + 1)
    BY <1>4, <1>5 DEF Steps!RoundOf, RoundOf
  <2>2. state.final = FALSE /\ Len(state.slots) < Rounds * Candidates
    BY <1>1, <1>4, <1>5, <1>14, JournalNumbers DEF All
  <2>3. Steps!TakeSlot
    BY <1>4, <1>5, <1>12, <1>14, <2>1, <2>2 DEF Steps!TakeSlot
  <2> QED
    BY <2>3 DEF StepsNext, Steps!Next
<1> QED
  BY <1>11, <1>13, <1>16, <1>17, <1>18 DEF Inv, Points

LEMMA RefusalLineInv ==
  ASSUME Inv, Appended, RefusalLine
  PROVE  Inv' /\ StepsNext
<1>1. SessionInv /\ DiskInv /\ TypeOK /\ JournalInv(state) /\ pc = "write" /\ state \in Journals
  BY DEF Inv, Appended, JournalInv
<1> DEFINE a == applied(state, line)
           slot == NextSlot
<1>2. PICK e \in Edits \cup {NoEdit}, c \in Nat :
         line = Candidate(slot, e, 0, c) /\ FreeSlot /\ (e # NoEdit => closed # Fields)
  BY DEF RefusalLine
<1>3. line.type = "candidate" /\ line.slot = slot /\ line.version = 0
  BY <1>2 DEF Candidate
<1>4. /\ slot \in Nat \ {0} /\ slot <= All /\ RoundOf(slot) = round
      /\ state.feed /\ state.tests = 0 /\ ~state.final
      /\ \A p \in state.pending : /\ RoundOf(p) = round
                                  /\ closed = exhausted(state) \cup {state.slots[p].field}
  BY <1>2, FreeSlotFacts
<1>5. slot = Len(state.slots) + 1
  BY DEF NextSlot
<1>6. \A p \in state.pending : /\ RoundOf(p) = RoundOf(slot)
                               /\ e # NoEdit => exhausted(state) \cup {state.slots[p].field} # Fields
  BY <1>2, <1>4
<1>7. legal(state, line) /\ JournalInv(a) /\ CandidateDecides(a, state, e, 0, slot)
  <2> HIDE DEF slot
  <2> QED
    BY <1>1, <1>2, <1>4, <1>5, <1>6, RefuseKeeps
<1>8. /\ Len(state.slots) \in Nat /\ state.slots \in Seq(Edits \cup {NoEdit}) /\ state.version \in Nat
      /\ state.pending \subseteq 1 .. Len(state.slots) /\ Rounds \in Nat /\ state.sweeps \in Nat
  BY <1>1, JournalNumbers
<1>9. slot \notin state.pending /\ slot > Len(state.slots)
  BY <1>4, <1>5, <1>8
<1>10. state.sweeps = 0
  <2> HIDE DEF slot
  <2> QED
    BY <1>1, <1>5, <1>6, SlotBeforeSweeps
<1>11. a = applied(state, line)
  OBVIOUS
<1> HIDE DEF a, slot
<1>12. /\ a.spent = state.spent /\ a.started = state.started /\ a.feed = state.feed
       /\ a.slots = Append(state.slots, e) /\ a.pending = state.pending /\ a.sweeps = 0
       /\ a.version = state.version /\ a.tests = 0 /\ a.final = FALSE
  <2>1. state.pending \ {slot} = state.pending /\ ~(0 > 0)
    BY <1>9
  <2> QED
    BY <1>4, <1>7, <1>9, <1>10, <2>1 DEF CandidateDecides
<1>13. /\ JournalInv(state') /\ SameBut(state', a)
       /\ pc' = After(line) /\ torn' = FALSE /\ doing' = "none" /\ unsaved' = 0
       /\ UNCHANGED <<files, round, killed>>
       /\ pc' \in Points \ {"write"} => TypeOK'
  BY <1>7, <1>11, <1>12, Accepted
<1>14. /\ state'.started = state.started /\ state'.feed /\ state'.slots = Append(state.slots, e)
       /\ state'.pending = state.pending /\ state'.sweeps = state.sweeps
       /\ state'.version = state.version /\ state'.tests = 0 /\ state'.final = FALSE
  BY <1>4, <1>10, <1>12, <1>13 DEF SameBut
<1>15. pc' = "slot"
  BY <1>3, <1>9, <1>13 DEF After
<1>16. Len(state'.slots) = slot
  BY <1>5, <1>8, <1>14
<1>17. AtSlot'
  <2>1. AtSlot /\ AtRound /\ InRound /\ Len(state.slots) >= Slot(round, 1) - 1 /\ round \in Nat
    BY <1>2 DEF FreeSlot, AtSlot, InRound, AtRound
  <2>2. \A p \in state'.pending : RoundOf(p) >= round
    BY <1>4, <1>14, <2>1
  <2>3. Len(state'.slots) >= Slot(round, 1) - 1
    BY <1>5, <1>8, <1>16, <2>1 DEF Slot, Candidates
  <2>4. AtRound'
    BY <1>13, <1>14, <2>1, <2>2, <2>3 DEF AtRound
  <2> QED
    BY <1>13, <1>14, <2>1, <2>4 DEF AtSlot, InRound
<1>18. SessionInv'
  BY <1>13, <1>15, <1>17 DEF SessionInv
<1>19. DiskInv'
  <2>1. files = state.version
    BY <1>1, <1>3, <1>8 DEF DiskInv, Idle
  <2> QED
    BY <1>8, <1>13, <1>14, <1>15, <2>1 DEF DiskInv
<1>20. StepsNext
  <2>1. \A p \in state.pending : Steps!RoundOf(p) = Steps!RoundOf(Len(state.slots) + 1)
    BY <1>4, <1>5 DEF Steps!RoundOf, RoundOf
  <2>2. state.final = FALSE /\ Len(state.slots) < Rounds * Candidates
    BY <1>1, <1>4, <1>5, <1>8, JournalNumbers DEF All
  <2>3. Steps!TakeSlot
    BY <1>4, <1>5, <1>14, <1>16, <2>1, <2>2 DEF Steps!TakeSlot
  <2> QED
    BY <2>3 DEF StepsNext, Steps!Next
<1> QED
  BY <1>13, <1>15, <1>18, <1>19, <1>20 DEF Inv, Points

LEMMA SweepLineInv ==
  ASSUME Inv, Appended, SweepLine
  PROVE  Inv' /\ StepsNext
<1>1. SessionInv /\ DiskInv /\ TypeOK /\ JournalInv(state) /\ pc = "write" /\ state \in Journals
  BY DEF Inv, Appended, JournalInv
<1> DEFINE a == applied(state, line)
           n == Len(state.slots)
           k == state.sweeps + 1
<1>2. PICK w, c \in Nat : /\ line = Sweep(round, k, open, w, c) /\ Measuring
                          /\ w # 0 => w \in open /\ k = Repeats
  BY DEF SweepLine
<1>3. line.type = "sweep"
  BY <1>2 DEF Sweep
<1>4. /\ n \in Nat /\ state.pending \subseteq 1 .. n /\ Rounds \in Nat /\ state.sweeps \in Nat
      /\ state.version \in Nat /\ k \in Nat
  BY <1>1, JournalNumbers
<1>5. /\ Taken /\ AtRound /\ InRound /\ round \in Nat \ {0} /\ round <= Rounds /\ open # {}
      /\ state.sweeps < Repeats /\ n >= Slot(round, 2)
  BY <1>2 DEF Measuring, Taken, InRound, AtRound, Candidates
<1>6. n = round * Candidates /\ open = state.pending /\ state.pending # {}
  <2>1. PICK p \in state.pending : RoundOf(p) = round
    BY <1>5 DEF open
  <2>2. \A q \in state.pending : RoundOf(q) = RoundOf(n)
    BY <1>1 DEF JournalInv, RoundsSound, PendingOfRound
  <2>3. open = state.pending /\ RoundOf(n) = round
    BY <2>1, <2>2 DEF open
  <2>4. n <= 2 * RoundOf(n)
    <3>1. n \in Nat \ {0}
      BY <1>4, <2>1
    <3> QED
      BY <3>1, RoundBounds
  <2> QED
    BY <1>4, <1>5, <2>1, <2>3, <2>4 DEF Slot, Candidates
<1>7. w # 0 => w \in state.pending /\ k = Repeats
  BY <1>2, <1>6
<1>8. line = Sweep(round, k, state.pending, w, c)
  BY <1>2, <1>6
<1>9. legal(state, line) /\ JournalInv(a) /\ SweepAdds(a, state, k)
  <2>1. a = applied(state, line) /\ k = state.sweeps + 1
    OBVIOUS
  <2> HIDE DEF a, k
  <2> QED
    BY <1>1, <1>5, <1>6, <1>7, <1>8, <2>1, SweepKeeps
<1>10. a = applied(state, line)
  OBVIOUS
<1> HIDE DEF a
<1>11. /\ a.spent = state.spent /\ a.started = state.started /\ a.feed = state.feed
       /\ a.slots = state.slots /\ a.pending = state.pending /\ a.sweeps = k /\ a.refused = state.refused
       /\ a.version = state.version /\ a.tests = state.tests /\ a.final = state.final
  BY <1>9 DEF SweepAdds
<1>12. /\ JournalInv(state') /\ SameBut(state', a) /\ exhausted(state') = exhausted(a)
       /\ pc' = After(line) /\ torn' = FALSE /\ doing' = "none" /\ unsaved' = 0
       /\ UNCHANGED <<files, round, killed>>
       /\ pc' \in Points \ {"write"} => TypeOK'
  BY <1>9, <1>10, <1>11, Accepted
<1>13. /\ state'.started = state.started /\ state'.feed = state.feed /\ state'.slots = state.slots
       /\ state'.pending = state.pending /\ state'.sweeps = k
       /\ state'.version = state.version /\ state'.tests = state.tests /\ state'.final = state.final
  BY <1>11, <1>12 DEF SameBut
<1>14. pc' = "measure"
  BY <1>3, <1>12 DEF After
<1>15. Taken'
  BY <1>5, <1>12, <1>13 DEF Taken, InRound, AtRound
<1>16. SessionInv'
  BY <1>12, <1>14, <1>15 DEF SessionInv
<1>17. DiskInv'
  <2>1. files = state.version
    BY <1>1, <1>3 DEF DiskInv, Idle
  <2> QED
    BY <1>4, <1>12, <1>13, <1>14, <2>1 DEF DiskInv
<1>18. StepsNext
  <2>1. exhausted(state') = exhausted(state)
    BY <1>11, <1>12, ExhaustedSame
  <2>2. \E r \in 1 .. Rounds : Len(state.slots) = r * Candidates
    BY <1>4, <1>5, <1>6
  <2>3. Steps!Sweep
    BY <1>5, <1>6, <1>13, <2>1, <2>2 DEF Steps!Sweep
  <2> QED
    BY <2>3 DEF StepsNext, Steps!Next
<1> QED
  BY <1>12, <1>14, <1>16, <1>17, <1>18 DEF Inv, Points

LEMMA VerdictLineInv ==
  ASSUME Inv, Appended, VerdictLine
  PROVE  Inv' /\ StepsNext
<1>1. SessionInv /\ DiskInv /\ TypeOK /\ JournalInv(state) /\ pc = "write" /\ state \in Journals
  BY DEF Inv, Appended, JournalInv
<1>2. PICK p \in open :
        /\ line = Candidate(p, state.slots[p], IF state.winner = p THEN state.version + 1 ELSE 0, 0)
        /\ Deciding /\ (state.winner = p => files = state.version + 1)
  BY DEF VerdictLine
<1> DEFINE a == applied(state, line)
           e == state.slots[p]
           v == IF state.winner = p THEN state.version + 1 ELSE 0
<1>3. line.type = "candidate" /\ line.slot = p /\ line.version = v
  BY <1>2 DEF Candidate
<1>4. /\ p \in state.pending /\ RoundOf(p) = round /\ state.sweeps = Repeats
      /\ Taken /\ AtRound /\ InRound /\ round \in Nat
  BY <1>2 DEF open, Deciding, Taken, InRound, AtRound
<1>5. /\ Len(state.slots) \in Nat /\ state.version \in Nat /\ state.pending \subseteq 1 .. Len(state.slots)
      /\ Repeats \in Nat \ {0} /\ files \in Nat
  BY <1>1, JournalNumbers DEF TypeOK
<1>6. /\ legal(state, line) /\ JournalInv(a) /\ state.tests = 0 /\ ~state.final
      /\ Len(state.slots) = RoundOf(p) * Candidates
      /\ p <= Len(state.slots) /\ v \in Nat
      /\ CandidateDecides(a, state, e, v, p)
      /\ v > 0 => v = state.version + 1 /\ v <= RoundOf(p) /\ exhausted(a) = {}
  <2>1. line = Candidate(p, e, v, 0)
    BY <1>2
  <2> HIDE DEF e, v
  <2>2. e = state.slots[p] /\ v = (IF state.winner = p THEN state.version + 1 ELSE 0)
    BY DEF e, v
  <2>3. a = applied(state, Candidate(p, e, v, 0))
    BY <2>1
  <2>4. JournalInv(state) /\ p \in state.pending /\ state.sweeps = Repeats
    BY <1>1, <1>4
  <2> HIDE DEF a
  <2>5. VerdictDue(state, p, e, v, a)
    BY <2>2, <2>3, <2>4 DEF VerdictDue
  <2>6. VerdictFits(state, p, e, v, a)
    BY <2>5, DecideKeeps
  <2> QED
    BY <2>1, <2>6 DEF VerdictFits
<1>7. a = applied(state, line)
  OBVIOUS
<1>8. v > 0 => files = v
  BY <1>2
<1> HIDE DEF a, e, v
<1>9. /\ a.spent = state.spent /\ a.started = state.started /\ a.feed = state.feed
      /\ a.slots = state.slots /\ a.pending = state.pending \ {p}
      /\ a.sweeps = (IF a.pending = {} THEN 0 ELSE state.sweeps)
      /\ a.version = (IF v > 0 THEN v ELSE state.version) /\ a.tests = 0 /\ a.final = FALSE
  <2>1. ~(p > Len(state.slots))
    BY <1>4, <1>5
  <2> QED
    BY <1>6, <2>1 DEF CandidateDecides
<1>10. /\ JournalInv(state') /\ SameBut(state', a) /\ exhausted(state') = exhausted(a)
       /\ pc' = After(line) /\ torn' = FALSE /\ doing' = "none" /\ unsaved' = 0
       /\ UNCHANGED <<files, round, killed>>
       /\ pc' \in Points \ {"write"} => TypeOK'
  BY <1>6, <1>7, <1>9, Accepted
<1>11. /\ state'.started = state.started /\ state'.feed = state.feed /\ state'.slots = state.slots
       /\ state'.pending = state.pending \ {p}
       /\ state'.sweeps = (IF state'.pending = {} THEN 0 ELSE state.sweeps)
       /\ state'.version = (IF v > 0 THEN v ELSE state.version) /\ state'.tests = 0 /\ state'.final = FALSE
  BY <1>9, <1>10 DEF SameBut
<1>12. pc' = "measure"
  BY <1>3, <1>4, <1>10 DEF After
<1>13. Taken'
  BY <1>4, <1>10, <1>11 DEF Taken, InRound, AtRound
<1>14. SessionInv'
  BY <1>10, <1>12, <1>13 DEF SessionInv
<1>15. DiskInv'
  <2>1. v > 0 \/ files = state.version
    BY <1>1, <1>3, <1>5, <1>6 DEF DiskInv, Idle
  <2>2. files' = state'.version /\ state'.version \in Nat
    BY <1>5, <1>6, <1>8, <1>10, <1>11, <2>1
  <2>3. files' # state'.version + 1
    BY <2>2
  <2> QED
    BY <1>10, <1>12, <2>2, <2>3 DEF DiskInv
<1>16. StepsNext
  <2>1. state'.version \in {state.version, state.version + 1} /\ state'.version <= RoundOf(p)
    <3>1. state.version <= RoundOf(Len(state.slots)) /\ RoundOf(Len(state.slots)) = RoundOf(p)
      BY <1>1, <1>4 DEF JournalInv, RoundsSound, VersionOfRound, PendingOfRound
    <3> QED
      BY <1>6, <1>11, <3>1
  <2>2. state'.version # state.version => ~(exhausted(state') = Fields)
    BY <1>6, <1>10, <1>11, EvolveAssumption
  <2>3. Steps!RoundOf(p) = RoundOf(p)
    BY DEF Steps!RoundOf, RoundOf
  <2>4. state'.tests = state.tests /\ state'.final = state.final
    BY <1>1, <1>6, <1>11, JournalNumbers
  <2>5. (exhausted(state') = Fields) \in BOOLEAN
    OBVIOUS
  <2>6. Steps!Decide(p)
    BY <1>4, <1>11, <2>1, <2>2, <2>3, <2>4, <2>5 DEF Steps!Decide
  <2> QED
    BY <1>4, <2>6 DEF StepsNext, Steps!Next
<1> QED
  BY <1>10, <1>12, <1>14, <1>15, <1>16 DEF Inv, Points

LEMMA TestLineInv ==
  ASSUME Inv, Appended, TestLine
  PROVE  Inv' /\ StepsNext
<1>1. SessionInv /\ DiskInv /\ TypeOK /\ JournalInv(state) /\ pc = "write" /\ state \in Journals
  BY DEF Inv, Appended, JournalInv
<1> DEFINE a == applied(state, line)
           k == state.tests + 1
<1>2. PICK c \in Nat : line = TestSweep(state.tests + 1, c) /\ Testing
  BY DEF TestLine
<1>3. line.type = "testsweep"
  BY <1>2 DEF TestSweep
<1>4. /\ state.started /\ state.feed /\ RoundsOver(state) /\ ~state.final /\ state.version > 0
      /\ state.tests < Repeats /\ state.version \in Nat /\ state.tests \in Nat /\ k \in Nat
  BY <1>1, <1>2, JournalNumbers DEF Testing, Over
<1>5. legal(state, line) /\ JournalInv(a) /\ a = [state EXCEPT !.tests = state.tests + 1, !.final = FALSE]
  BY <1>1, <1>2, <1>4, TestKeeps
<1>6. a = applied(state, line)
  OBVIOUS
<1> HIDE DEF a
<1>7. /\ a.spent = state.spent /\ a.started = state.started /\ a.feed = state.feed
      /\ a.slots = state.slots /\ a.pending = state.pending /\ a.sweeps = state.sweeps
      /\ a.refused = state.refused
      /\ a.version = state.version /\ a.tests = k /\ a.final = FALSE
  BY <1>1, <1>5 DEF Journals
<1>8. /\ JournalInv(state') /\ SameBut(state', a) /\ exhausted(state') = exhausted(a)
      /\ pc' = After(line) /\ torn' = FALSE /\ doing' = "none" /\ unsaved' = 0
      /\ UNCHANGED <<files, round, killed>>
      /\ pc' \in Points \ {"write"} => TypeOK'
  BY <1>5, <1>6, <1>7, Accepted
<1>9. /\ state'.started = state.started /\ state'.feed = state.feed /\ state'.slots = state.slots
      /\ state'.pending = state.pending /\ state'.sweeps = state.sweeps
      /\ state'.version = state.version /\ state'.tests = k /\ state'.final = FALSE
  BY <1>7, <1>8 DEF SameBut
<1>10. exhausted(state') = exhausted(state)
  BY <1>7, <1>8, ExhaustedSame
<1>11. pc' = "final"
  BY <1>3, <1>8 DEF After
<1>12. Over'
  BY <1>4, <1>9, <1>10 DEF Over, RoundsOver
<1>13. SessionInv'
  BY <1>8, <1>11, <1>12 DEF SessionInv
<1>14. DiskInv'
  <2>1. files = state.version
    BY <1>1, <1>3 DEF DiskInv, Idle
  <2> QED
    BY <1>4, <1>8, <1>9, <1>11, <2>1 DEF DiskInv
<1>15. StepsNext
  <2>1. state.final = FALSE
    BY <1>1, <1>4, JournalNumbers
  <2>2. Steps!RoundsOver
    BY <1>4 DEF Steps!RoundsOver, RoundsOver, All
  <2>3. Steps!TestSweep
    BY <1>4, <1>9, <1>10, <2>1, <2>2 DEF Steps!TestSweep
  <2> QED
    BY <2>3 DEF StepsNext, Steps!Next
<1> QED
  BY <1>8, <1>11, <1>13, <1>14, <1>15 DEF Inv, Points

LEMMA FinalLineInv ==
  ASSUME Inv, Appended, FinalLine
  PROVE  Inv' /\ StepsNext
<1>1. SessionInv /\ DiskInv /\ TypeOK /\ JournalInv(state) /\ pc = "write" /\ state \in Journals
  BY DEF Inv, Appended, JournalInv
<1> DEFINE a == applied(state, line)
<1>2. /\ line = Final(state.version) /\ Over /\ ~state.final
      /\ state.tests = IF state.version > 0 THEN Repeats ELSE 0
  BY DEF FinalLine
<1>3. line.type = "final"
  BY <1>2 DEF Final
<1>4. state.feed /\ RoundsOver(state) /\ state.version \in Nat
  BY <1>1, <1>2, JournalNumbers DEF Over
<1>5. legal(state, line) /\ JournalInv(a) /\ a = [state EXCEPT !.final = TRUE]
  BY <1>1, <1>2, <1>4, FinalKeeps
<1>6. a = applied(state, line)
  OBVIOUS
<1> HIDE DEF a
<1>7. /\ a.spent = state.spent
      /\ a.slots = state.slots /\ a.pending = state.pending /\ a.sweeps = state.sweeps
      /\ a.refused = state.refused
      /\ a.version = state.version /\ a.tests = state.tests /\ a.final = TRUE
  BY <1>1, <1>5 DEF Journals
<1>8. /\ JournalInv(state') /\ SameBut(state', a) /\ exhausted(state') = exhausted(a)
      /\ pc' = After(line) /\ torn' = FALSE /\ doing' = "none" /\ unsaved' = 0
      /\ UNCHANGED <<files, round, killed>>
      /\ pc' \in Points \ {"write"} => TypeOK'
  BY <1>5, <1>6, <1>7, Accepted
<1>9. /\ state'.slots = state.slots /\ state'.pending = state.pending /\ state'.sweeps = state.sweeps
      /\ state'.version = state.version /\ state'.tests = state.tests /\ state'.final = TRUE
  BY <1>7, <1>8 DEF SameBut
<1>10. exhausted(state') = exhausted(state)
  BY <1>7, <1>8, ExhaustedSame
<1>11. pc' = "reported"
  BY <1>3, <1>8 DEF After
<1>12. SessionInv'
  BY <1>8, <1>9, <1>11 DEF SessionInv
<1>13. DiskInv'
  <2>1. files = state.version
    BY <1>1, <1>3 DEF DiskInv, Idle
  <2> QED
    BY <1>4, <1>8, <1>9, <1>11, <2>1 DEF DiskInv
<1>14. StepsNext
  <2>1. Steps!RoundsOver
    BY <1>4 DEF Steps!RoundsOver, RoundsOver, All
  <2>2. Steps!Finish
    BY <1>2, <1>9, <1>10, <2>1 DEF Steps!Finish
  <2> QED
    BY <2>2 DEF StepsNext, Steps!Next
<1> QED
  BY <1>8, <1>11, <1>12, <1>13, <1>14 DEF Inv, Points, Idle

LEMMA AppendedInv ==
  ASSUME Inv, Appended
  PROVE  Inv' /\ StepsNext
<1>1. LineInv
  BY DEF Inv, Appended, SessionInv
<1> QED
  BY <1>1, StartLineInv, CutLineInv, ProbeLineInv, ProposalLineInv, RefusalLineInv, SweepLineInv,
     VerdictLineInv, TestLineInv, FinalLineInv DEF LineInv

------------------------------------------------------------------------------
\* Every step.

LEMMA NextInv == Inv /\ [Next]_vars => Inv' /\ StepsNext
<1> SUFFICES ASSUME Inv, [Next]_vars PROVE Inv' /\ StepsNext
  OBVIOUS
<1>1. CASE Appended
  BY <1>1, AppendedInv
<1>2. CASE UNCHANGED vars
  <2>1. UNCHANGED <<state, torn, files, testStarts, pc, limit, round, doing, ran, asks, unsaved, line,
                    paid, lost, unseen, topLimit, stops, killed, cutTests>>
    BY <1>2 DEF vars, disk, work, past
  <2>2. TypeOK'
    BY <2>1 DEF Inv, TypeOK
  <2>3. LineInv' = LineInv
    BY <2>1, SamePlace DEF LineInv, StartLine, CutLine, ProbeLine, ProposalLine, RefusalLine, SweepLine,
       VerdictLine, TestLine, FinalLine
  <2>4. SessionInv'
    BY <2>1, <2>3, SamePlace DEF Inv, SessionInv
  <2>5. DiskInv'
    BY <2>1 DEF Inv, DiskInv
  <2>6. StepsNext
    BY <2>1, StepsUnchanged
  <2> QED
    BY <2>1, <2>2, <2>4, <2>5, <2>6 DEF Inv
<1>3. ASSUME Next, ~Appended PROVE Inv' /\ state' = state
  <2>1. Inv'
    BY <1>3, StartInv, PreflightInv, ReadyInv, FailsInv, SignalInv, KillInv, RoundTopInv, SlotsTakenInv,
       NothingInv, AskInv, AskFailsInv, ReplyInv, MeasureInv, DecideInv, FinalTestInv, BeginRunInv,
       EndRunInv, RunStopsInv DEF Next
  <2>2. state' = state
    BY <1>3 DEF Next, Start, Preflight, Ready, FailsBeforeRounds, Signal, Kill, RoundTop, SlotsTaken,
       NothingToPropose, Ask, AskFails, Reply, Measure, Decide, FinalTest, BeginRun, EndRun, RunStops,
       Exit, disk
  <2> QED
    BY <2>1, <2>2
<1> QED
  BY <1>1, <1>2, <1>3, StepsUnchanged

THEOREM EvolveInvariant == Spec => []Inv
<1>1. Init => Inv
  BY InitSound
<1>2. Inv /\ [Next]_vars => Inv'
  BY NextInv
<1> QED
  BY <1>1, <1>2, PTL DEF Spec

------------------------------------------------------------------------------
\* Money and test sweeps.

\* Besides the verdict on a version, only a test sweep changes the tests.
LEMMA AppliedTests ==
  ASSUME NEW s \in Journals, NEW l, l.type \in LineTypes
  PROVE  /\ DOMAIN applied(s, l) = DOMAIN s
         /\ applied(s, l).spent = s.spent
         /\ \/ applied(s, l).tests \in {s.tests, 0}
            \/ l.type = "testsweep" /\ applied(s, l).tests = l.sweep
<1> DEFINE a == applied(s, l)
<1>1. CASE l.type = "start"
  BY <1>1 DEF applied, Journals
<1>2. CASE l.type = "cut"
  BY <1>2 DEF applied, Journals
<1>3. CASE l.type = "probe"
  BY <1>3 DEF applied, Journals
<1>4. CASE l.type = "proposal"
  BY <1>4 DEF applied, Journals
<1>5. CASE l.type = "sweep"
  BY <1>5 DEF applied, Journals
<1>6. CASE l.type = "candidate"
  BY <1>6 DEF applied, Journals
<1>7. CASE l.type = "testsweep"
  BY <1>7 DEF applied, Journals
<1>8. CASE l.type = "final"
  BY <1>8 DEF applied, Journals
<1> QED
  BY <1>1, <1>2, <1>3, <1>4, <1>5, <1>6, <1>7, <1>8 DEF LineTypes

\* An appended line's money is the journal's, and a test sweep's line is counted.
LEMMA AppendedAdds ==
  ASSUME Inv, Appended, Inv'
  PROVE  /\ state'.spent = state.spent + line.cost
         /\ \/ state'.tests <= state.tests
            \/ doing = "test" /\ state'.tests = state.tests + 1
<1>1. state \in Journals /\ line.type \in LineTypes /\ torn = FALSE /\ line.cost \in Nat
  <2>1. TypeOK /\ DiskInv /\ pc = "write"
    BY DEF Inv, Appended
  <2>2. line # NoLine /\ torn = FALSE
    BY <2>1 DEF TypeOK, DiskInv, Idle
  <2>3. LineInv
    BY <2>1 DEF Inv, SessionInv
  <2>4. line.type # "none"
    BY <2>3 DEF LineInv, StartLine, CutLine, ProbeLine, ProposalLine, RefusalLine, SweepLine,
       VerdictLine, TestLine, FinalLine, Line, Proposal, Candidate, Sweep, TestSweep, Final
  <2> QED
    BY <2>1, <2>2, <2>4 DEF Inv, JournalInv, TypeOK
<1>2. state' = replay(state, line) /\ state' \in Journals /\ state'.ok
  BY <1>1 DEF Appended, Inv, JournalInv
<1>3. state' = [applied(state, line) EXCEPT !.spent = @ + line.cost]
  <2>1. state.ok /\ legal(state, line)
    <3> SUFFICES ASSUME ~(state.ok /\ legal(state, line)) PROVE FALSE
      OBVIOUS
    <3>1. state' = [state EXCEPT !.ok = FALSE]
      BY <1>2 DEF replay
    <3> QED
      BY <1>1, <1>2, <3>1 DEF Journals
  <2> QED
    BY <1>2, <2>1 DEF replay
<1> DEFINE a == applied(state, line)
<1>4. /\ DOMAIN a = DOMAIN state /\ a.spent = state.spent
      /\ \/ a.tests \in {state.tests, 0}
         \/ line.type = "testsweep" /\ a.tests = line.sweep
  BY <1>1, AppliedTests
<1>5. "spent" \in DOMAIN state /\ "tests" \in DOMAIN state /\ state.tests \in Nat
  BY <1>1 DEF Journals
<1>6. state'.spent = state.spent + line.cost /\ state'.tests = a.tests
  <2> HIDE DEF a
  <2>1. state' = [a EXCEPT !.spent = @ + line.cost]
    BY <1>3 DEF a
  <2> QED
    BY <1>4, <1>5, <2>1
<1>7. line.type = "testsweep" => doing = "test" /\ line.sweep = state.tests + 1
  <2>1. LineInv
    BY DEF Inv, Appended, SessionInv
  <2> QED
    BY <2>1 DEF LineInv, StartLine, CutLine, ProbeLine, ProposalLine, RefusalLine, SweepLine,
       VerdictLine, TestLine, FinalLine, Line, Proposal, Candidate, Sweep, TestSweep, Final
<1> QED
  BY <1>4, <1>5, <1>6, <1>7

LEMMA ExitMoney ==
  ASSUME Inv, MoneyInv, NEW m \in Nat, Exit(m), pc \notin Idle,
         state.spent + m + lost + unseen' = paid', state.spent + m < topLimit + MaxCost, unseen' \in Nat
  PROVE  MoneyInv'
<1>1. /\ state' = state /\ limit' = limit /\ unsaved' = 0 /\ UNCHANGED <<lost, topLimit>>
      /\ limit <= topLimit /\ state.spent \in Nat /\ pc' \in {"write", "down"}
      /\ limit \in Nat /\ topLimit \in Nat /\ lost \in Nat /\ MaxCost \in Nat
  BY JournalNumbers, CostIsNumber DEF Exit, CountStop, Write, disk, MoneyInv, Inv, TypeOK
<1>2. line'.cost = m
  <2>1. m > 0 => line' = Line("cut", m)
    BY DEF Exit, Write
  <2>2. ~(m > 0) => line' = NoLine
    BY DEF Exit
  <2> QED
    BY <2>1, <2>2 DEF Line, NoLine
<1> QED
  BY <1>1, <1>2 DEF MoneyInv, Idle

LEMMA MoneyStep ==
  ASSUME Inv, MoneyInv, Inv', Next
  PROVE  MoneyInv'
<1>1. /\ state.spent \in Nat /\ unsaved \in Nat /\ paid \in Nat /\ lost \in Nat /\ topLimit \in Nat
      /\ limit \in Nat /\ line.cost \in Nat /\ NoLine.cost = 0
      /\ pc # "write" => line = NoLine
      /\ pc \notin {"asking", "sweeping", "running"} => unsaved = 0
      /\ state'.spent \in Nat /\ unseen \in Nat /\ unseen' \in Nat /\ MaxCost \in Nat
  BY JournalNumbers, CostIsNumber DEF Inv, TypeOK, SessionInv, NoLine
<1>2. /\ state.spent + unsaved + line.cost + lost + unseen = paid
      /\ state.spent + unsaved + line.cost < topLimit + MaxCost
      /\ pc \notin Idle => limit <= topLimit
      /\ pc \in {"asking", "running"} => state.spent + unsaved < limit
  BY DEF MoneyInv
<1>3. ASSUME NEW max \in Limits, Start(max) PROVE MoneyInv'
  <2>1. max \in Nat /\ unsaved = 0 /\ line.cost = 0
    BY <1>1, <1>3, EvolveAssumption DEF Start, Idle
  <2>2. /\ state' = state /\ unsaved' = 0 /\ line' = NoLine /\ limit' = max /\ UNCHANGED <<paid, lost, unseen>>
        /\ topLimit' = (IF max > topLimit THEN max ELSE topLimit)
        /\ pc' \in {"refused", "reported", "preflight"}
    BY <1>3 DEF Start, Gone
  <2>3. topLimit' >= topLimit /\ topLimit' >= max /\ topLimit' \in Nat
    BY <1>1, <2>1, <2>2
  <2> QED
    BY <1>1, <1>2, <2>1, <2>2, <2>3 DEF MoneyInv
<1>4. CASE Preflight
  <2>1. pc # "write" /\ pc \notin Idle /\ unsaved = 0 /\ pc' \in {"write", "ready"}
        /\ UNCHANGED <<state, limit, unsaved, paid, lost, unseen, topLimit>>
    BY <1>1, <1>4 DEF Preflight, Idle, Write, disk, past
  <2>2. line'.cost = 0
    BY <1>1, <1>4, <2>1 DEF Preflight, Write, Line
  <2> QED
    BY <1>1, <1>2, <2>1, <2>2 DEF MoneyInv
<1>5. CASE Ready \/ RoundTop \/ SlotsTaken \/ Measure
  <2>1. /\ UNCHANGED <<state, limit, unsaved, line, paid, lost, unseen, topLimit>>
        /\ pc \notin Idle /\ pc' \notin {"asking", "running"}
    BY <1>5 DEF Ready, RoundTop, SlotsTaken, Measure, Idle, disk, work, past
  <2> QED
    BY <1>2, <2>1 DEF MoneyInv
<1>6. CASE FailsBeforeRounds
  <2>1. Exit(0) /\ UNCHANGED <<paid, unseen>> /\ unsaved = 0 /\ line.cost = 0 /\ pc \notin Idle
    BY <1>1, <1>6 DEF FailsBeforeRounds, Idle
  <2>2. state.spent + 0 + lost + unseen' = paid' /\ state.spent + 0 < topLimit + MaxCost
    BY <1>1, <1>2, <2>1
  <2> QED
    BY <1>1, <2>1, <2>2, ExitMoney
<1>7. CASE Signal \/ AskFails
  <2>1. Exit(unsaved) /\ DropsInFlight /\ line.cost = 0 /\ pc \notin Idle
    BY <1>1, <1>7 DEF Signal, AskFails, Awaits, Idle
  <2>3. PICK c \in Nat : paid' = paid + c /\ unseen' = unseen + c
    BY <2>1, Drops
  <2>2. state.spent + unsaved + lost + unseen' = paid' /\ state.spent + unsaved < topLimit + MaxCost
    BY <1>1, <1>2, <2>1, <2>3
  <2> QED
    BY <1>1, <2>1, <2>2, ExitMoney
<1>8. CASE Kill
  <2>1. /\ UNCHANGED <<state, limit, topLimit>> /\ unsaved' = 0 /\ line' = NoLine /\ pc' = "down"
        /\ lost' = lost + unsaved + line.cost /\ DropsInFlight
    BY <1>8 DEF Kill, Gone
  <2>2. PICK c \in Nat : paid' = paid + c /\ unseen' = unseen + c
    BY <2>1, Drops
  <2>3. state.spent + 0 + 0 + lost' + unseen' = paid' /\ state.spent + 0 + 0 < topLimit + MaxCost
    BY <1>1, <1>2, <2>1, <2>2
  <2> QED
    BY <1>1, <2>1, <2>3 DEF MoneyInv, Idle
<1>9. CASE Appended
  <2>1. /\ UNCHANGED <<limit, unsaved, paid, lost, unseen, topLimit>> /\ line' = NoLine /\ pc = "write"
        /\ pc' \notin {"asking", "running"}
    <3>1. pc' \in {"refused", "ready", "down", "slot", "measure", "final", "reported"}
      <4>1. line.type \in LineTypes
        <5>1. LineInv
          BY <1>9 DEF Inv, Appended, SessionInv
        <5> QED
          BY <5>1 DEF LineInv, StartLine, CutLine, ProbeLine, ProposalLine, RefusalLine, SweepLine,
             VerdictLine, TestLine, FinalLine, Line, Proposal, Candidate, Sweep, TestSweep, Final, LineTypes
      <4> QED
        BY <1>9, <4>1 DEF Appended, After, LineTypes
    <3> QED
      BY <1>9, <3>1 DEF Appended, past
  <2>2. state'.spent = state.spent + line.cost
    BY <1>9, AppendedAdds
  <2> QED
    BY <1>1, <1>2, <2>1, <2>2 DEF MoneyInv, Idle
<1>10. CASE NothingToPropose \/ Decide \/ FinalTest
  <2>1. /\ UNCHANGED <<state, limit, unsaved, paid, lost, unseen, topLimit>> /\ pc # "write" /\ pc \notin Idle
        /\ pc' \notin {"asking", "running"}
    BY <1>10 DEF NothingToPropose, Decide, FinalTest, Write, Idle, disk, past
  <2>2. line'.cost = 0
    BY <1>1, <1>10, <2>1 DEF NothingToPropose, Decide, FinalTest, Write, Candidate, Final
  <2> QED
    BY <1>1, <1>2, <2>1, <2>2 DEF MoneyInv
<1>11. CASE Ask
  <2>1. pc = "slot" /\ unsaved = 0 /\ line.cost = 0 /\ pc \notin Idle
    BY <1>1, <1>11 DEF Ask, Idle
  <2>2. CASE overLimit(0)
    <3>1. Exit(0) /\ UNCHANGED <<paid, unseen>>
      BY <1>11, <2>2 DEF Ask
    <3>2. state.spent + 0 + lost + unseen' = paid' /\ state.spent + 0 < topLimit + MaxCost
      BY <1>1, <1>2, <2>1, <3>1
    <3> QED
      BY <1>1, <2>1, <3>1, <3>2, ExitMoney
  <2>3. CASE ~overLimit(0)
    <3>1. UNCHANGED <<state, limit, unsaved, line, paid, lost, unseen, topLimit>>
      BY <1>11, <2>3 DEF Ask, disk, past
    <3>2. state.spent + 0 < limit
      BY <1>1, <2>3 DEF overLimit
    <3> QED
      BY <1>1, <1>2, <2>1, <3>1, <3>2 DEF MoneyInv
  <2> QED
    BY <2>2, <2>3
<1>12. ASSUME NEW e \in Edits \cup {NoEdit}, NEW price \in Costs, Reply(e, price) PROVE MoneyInv'
  <2> DEFINE cost == unsaved + price
             onClosed == e # NoEdit /\ e.field \in closed
             fine == e # NoEdit /\ ~onClosed /\ checkEdit(state, e)
  <2>0. /\ pc = "asking" /\ pc \notin Idle /\ line = NoLine /\ line.cost = 0 /\ paid' = paid + price
        /\ unseen' = unseen /\ price \in Nat /\ price <= MaxCost
    BY <1>1, <1>12, CostIsNumber DEF Reply, Idle
  <2>a. /\ state.spent + unsaved < topLimit /\ state.spent + unsaved + lost + unseen = paid
        /\ unseen' = unseen /\ paid' = paid + price /\ price \in Nat /\ price <= MaxCost
    BY <1>1, <1>2, <2>0
  <2>b. \A a, b, x, t, m \in Nat : a + b < t /\ x <= m => a + (b + x) < t + m
    OBVIOUS
  <2>c. cost \in Nat
    BY <1>1, <2>a
  <2>d. state.spent + cost + lost + unseen' = paid'
    BY <1>1, <2>a
  <2>1. cost \in Nat /\ state.spent + cost + lost + unseen' = paid' /\ state.spent + cost < topLimit + MaxCost
    BY <1>1, <2>a, <2>b, <2>c, <2>d
  <2>2. CASE (onClosed /\ asks = 1) /\ overLimit(cost)
    <3>1. Exit(cost)
      BY <1>12, <2>2 DEF Reply
    <3> QED
      BY <1>1, <2>0, <2>1, <3>1, ExitMoney
  <2>3. CASE (onClosed /\ asks = 1) /\ ~overLimit(cost)
    <3>1. unsaved' = cost /\ UNCHANGED <<state, pc, limit, line, lost, topLimit>>
      BY <1>12, <2>3 DEF Reply, disk
    <3>2. state.spent + cost < limit
      BY <1>1, <2>1, <2>3 DEF overLimit
    <3> HIDE DEF cost
    <3> QED
      BY <1>1, <1>2, <2>0, <2>1, <3>1, <3>2 DEF MoneyInv
  <2>4. CASE ~(onClosed /\ asks = 1)
    <3>1. /\ unsaved' = 0 /\ pc' = "write" /\ UNCHANGED <<state, limit, lost, topLimit>>
          /\ line' = IF fine THEN Proposal(NextSlot, e, cost) ELSE Candidate(NextSlot, e, 0, cost)
      BY <1>12, <2>4 DEF Reply, Write, disk
    <3>2. line'.cost = cost
      BY <3>1 DEF Proposal, Candidate
    <3> HIDE DEF cost
    <3> QED
      BY <1>1, <1>2, <2>0, <2>1, <3>1, <3>2 DEF MoneyInv
  <2> QED
    BY <2>2, <2>3, <2>4
<1>13. CASE BeginRun
  <2>1. pc = "sweeping" /\ pc \notin Idle /\ line = NoLine /\ line.cost = 0
    BY <1>1, <1>13 DEF BeginRun, Idle
  <2>2. CASE overLimit(unsaved)
    <3>1. Exit(unsaved) /\ UNCHANGED <<paid, unseen>>
      BY <1>13, <2>2 DEF BeginRun
    <3>2. state.spent + unsaved + lost + unseen' = paid' /\ state.spent + unsaved < topLimit + MaxCost
      BY <1>1, <1>2, <2>1, <3>1
    <3> QED
      BY <1>1, <2>1, <3>1, <3>2, ExitMoney
  <2>3. CASE ~overLimit(unsaved)
    <3>1. UNCHANGED <<state, limit, unsaved, line, paid, lost, unseen, topLimit>>
      BY <1>13, <2>3 DEF BeginRun, disk, work, past
    <3>2. state.spent + unsaved < limit
      BY <1>1, <2>3 DEF overLimit
    <3> QED
      BY <1>1, <1>2, <2>1, <3>1, <3>2 DEF MoneyInv
  <2> QED
    BY <2>2, <2>3
<1>14. ASSUME NEW w \in 0 .. Rounds * Candidates, NEW price \in Costs, EndRun(w, price) PROVE MoneyInv'
  <2> DEFINE cost == unsaved + price
  <2>0. /\ pc = "running" /\ pc \notin Idle /\ line = NoLine /\ line.cost = 0 /\ paid' = paid + price
        /\ UNCHANGED <<state, limit, lost, unseen, topLimit>> /\ pc' \in {"sweeping", "write"}
        /\ price \in Nat /\ price <= MaxCost
    BY <1>1, <1>14, CostIsNumber DEF EndRun, Write, Idle, disk
  <2>a. /\ state.spent + unsaved < topLimit /\ state.spent + unsaved + lost + unseen = paid
        /\ unseen' = unseen /\ paid' = paid + price /\ price \in Nat /\ price <= MaxCost
    BY <1>1, <1>2, <2>0
  <2>b. \A a, b, x, t, m \in Nat : a + b < t /\ x <= m => a + (b + x) < t + m
    OBVIOUS
  <2>c. cost \in Nat
    BY <1>1, <2>a
  <2>d. state.spent + cost + lost + unseen' = paid'
    BY <1>1, <2>a
  <2>1. cost \in Nat /\ state.spent + cost + lost + unseen' = paid' /\ state.spent + cost < topLimit + MaxCost
    BY <1>1, <2>a, <2>b, <2>c, <2>d
  <2>2. unsaved' + line'.cost = cost /\ unsaved' \in Nat /\ line'.cost \in Nat
    <3>1. CASE ran' < Total
      BY <1>14, <2>0, <2>1, <3>1 DEF EndRun
    <3>2. CASE ~(ran' < Total)
      <4>1. doing \in {"probe", "sweep", "test"}
        BY <2>0 DEF Inv, SessionInv
      <4> QED
        BY <1>14, <2>1, <3>2, <4>1 DEF EndRun, Write, Line, Sweep, TestSweep
    <3> QED
      BY <3>1, <3>2
  <2> HIDE DEF cost
  <2>3. state'.spent + unsaved' + line'.cost = state.spent + cost /\ UNCHANGED <<lost, unseen, topLimit, limit>>
    BY <1>1, <2>0, <2>1, <2>2
  <2>4. limit' <= topLimit' /\ pc' \notin {"asking", "running"}
    BY <1>2, <2>0
  <2> QED
    BY <1>1, <2>1, <2>3, <2>4 DEF MoneyInv
<1>15. ASSUME NEW price \in Costs, RunStops(price) PROVE MoneyInv'
  <2> DEFINE cost == unsaved + price
  <2>0. /\ pc = "running" /\ pc \notin Idle /\ line = NoLine /\ line.cost = 0 /\ paid' = paid + price
        /\ Exit(cost) /\ unseen' = unseen /\ price \in Nat /\ price <= MaxCost
    BY <1>1, <1>15, CostIsNumber DEF RunStops, Idle
  <2>a. /\ state.spent + unsaved < topLimit /\ state.spent + unsaved + lost + unseen = paid
        /\ unseen' = unseen /\ paid' = paid + price /\ price \in Nat /\ price <= MaxCost
    BY <1>1, <1>2, <2>0
  <2>b. \A a, b, x, t, m \in Nat : a + b < t /\ x <= m => a + (b + x) < t + m
    OBVIOUS
  <2>c. cost \in Nat
    BY <1>1, <2>a
  <2>d. state.spent + cost + lost + unseen' = paid'
    BY <1>1, <2>a
  <2>1. cost \in Nat /\ state.spent + cost + lost + unseen' = paid' /\ state.spent + cost < topLimit + MaxCost
    BY <1>1, <2>a, <2>b, <2>c, <2>d
  <2> QED
    BY <1>1, <2>0, <2>1, ExitMoney
<1> QED
  BY <1>3, <1>4, <1>5, <1>6, <1>7, <1>8, <1>9, <1>10, <1>11, <1>12, <1>13, <1>14, <1>15 DEF Next

\* What is dropped in flight grows with the stops.
LEMMA UnseenStep ==
  ASSUME Inv, UnseenInv, Inv', Next
  PROVE  UnseenInv'
<1>1. unseen \in Nat /\ stops \in Nat /\ MaxCost \in Nat
  BY CostIsNumber DEF Inv, TypeOK
<1>2. ASSUME stops' = stops + 1, NEW c \in Nat, c <= MaxCost, unseen' = unseen + c PROVE UnseenInv'
  <2>1. (stops + 1) * MaxCost = stops * MaxCost + MaxCost /\ stops * MaxCost \in Nat
    BY <1>1
  <2> QED
    BY <1>1, <1>2, <2>1 DEF UnseenInv
<1>3. ASSUME NEW m, Exit(m), unseen' = unseen PROVE UnseenInv'
  <2>1. stops' = stops + 1 /\ unseen' = unseen + 0
    BY <1>1, <1>3 DEF Exit, CountStop
  <2> QED
    BY <1>1, <1>2, <2>1
<1>4. CASE Signal \/ AskFails \/ Kill
  <2>1. stops' = stops + 1 /\ DropsInFlight
    BY <1>4 DEF Signal, AskFails, Kill, Exit, CountStop
  <2>2. PICK c \in Nat : c <= MaxCost /\ unseen' = unseen + c
    BY <2>1, Drops
  <2> QED
    BY <1>2, <2>1, <2>2
<1>5. ASSUME UNCHANGED <<stops, unseen>> PROVE UnseenInv'
  BY <1>5 DEF UnseenInv
<1>6. ASSUME NEW e \in Edits \cup {NoEdit}, NEW price \in Costs, Reply(e, price) PROVE UnseenInv'
  <2>1. \/ UNCHANGED <<stops, unseen>>
        \/ Exit(unsaved + price) /\ unseen' = unseen
    BY <1>6 DEF Reply
  <2> QED
    BY <1>3, <1>5, <2>1
<1>7. ASSUME ~Signal, ~AskFails, ~Kill,
             \A e \in Edits \cup {NoEdit}, price \in Costs : ~Reply(e, price)
      PROVE  UNCHANGED <<stops, unseen>> \/ \E m : Exit(m) /\ unseen' = unseen
  BY <1>7 DEF Next, Start, Preflight, Ready, FailsBeforeRounds, Appended, RoundTop, SlotsTaken,
     NothingToPropose, Ask, Measure, Decide, FinalTest, BeginRun, EndRun, RunStops, work, past
<1> QED
  BY <1>3, <1>4, <1>5, <1>6, <1>7

LEMMA TestsStep ==
  ASSUME Inv, TestsInv, Inv', Next
  PROVE  TestsInv'
<1>1. /\ state.tests \in Nat /\ state'.tests \in Nat /\ cutTests \in Nat /\ testStarts \in Nat
      /\ state.tests + cutTests + (IF doing = "test" THEN 1 ELSE 0) <= testStarts
  BY JournalNumbers DEF Inv, TypeOK, TestsInv
<1>2. ASSUME NEW m, Exit(m) PROVE TestsInv'
  <2>1. /\ UNCHANGED <<state, testStarts>> /\ doing' = "none"
        /\ cutTests' = IF CutsTest THEN cutTests + 1 ELSE cutTests
    BY <1>2 DEF Exit, CountStop, disk
  <2>2. CutsTest => doing = "test"
    BY DEF CutsTest
  <2> QED
    BY <1>1, <2>1, <2>2 DEF TestsInv
<1>3. CASE Kill
  <2>1. /\ UNCHANGED <<state, testStarts>> /\ doing' = "none"
        /\ cutTests' = IF CutsTest THEN cutTests + 1 ELSE cutTests
    BY <1>3 DEF Kill, Gone
  <2>2. CutsTest => doing = "test"
    BY DEF CutsTest
  <2> QED
    BY <1>1, <2>1, <2>2 DEF TestsInv
<1>4. CASE Appended
  <2>1. UNCHANGED <<testStarts, cutTests>> /\ doing' = "none"
    BY <1>4 DEF Appended, past
  <2>2. \/ state'.tests <= state.tests
        \/ doing = "test" /\ state'.tests = state.tests + 1
    BY <1>4, AppendedAdds
  <2> QED
    BY <1>1, <2>1, <2>2 DEF TestsInv
<1>5. CASE FinalTest
  <2>1. doing = "none"
    BY <1>5 DEF FinalTest, Inv, SessionInv
  <2>2. UNCHANGED <<state, cutTests>>
    BY <1>5 DEF FinalTest, past
  <2>3. \/ testStarts' = testStarts /\ doing' = "none"
        \/ testStarts' = testStarts + 1 /\ doing' = "test"
    BY <1>5, <2>1 DEF FinalTest
  <2> QED
    BY <1>1, <2>1, <2>2, <2>3 DEF TestsInv
<1>6. ASSUME ~Appended, ~FinalTest, ~Kill, \A m : ~Exit(m) PROVE TestsInv'
  <2>1. UNCHANGED <<state, testStarts, cutTests>> /\ (doing' = doing \/ doing' # "test")
    BY <1>6 DEF Next, Start, Gone, Preflight, Ready, FailsBeforeRounds, Signal, RoundTop, SlotsTaken,
       NothingToPropose, Ask, AskFails, Reply, Measure, Decide, BeginRun, EndRun, RunStops, disk, work, past
  <2> QED
    BY <1>1, <2>1 DEF TestsInv
<1> QED
  BY <1>2, <1>3, <1>4, <1>5, <1>6

LEMMA BookKept == Spec => [](Inv /\ MoneyInv /\ UnseenInv /\ TestsInv)
<1> DEFINE All3 == Inv /\ MoneyInv /\ UnseenInv /\ TestsInv
<1>1. Init => All3
  BY InitSound
<1>2. All3 /\ [Next]_vars => All3'
  <2> SUFFICES ASSUME All3, [Next]_vars PROVE All3'
    OBVIOUS
  <2>1. Inv'
    BY NextInv
  <2>2. CASE Next
    BY <2>1, <2>2, MoneyStep, UnseenStep, TestsStep
  <2>3. CASE UNCHANGED vars
    BY <2>1, <2>3 DEF MoneyInv, UnseenInv, TestsInv, vars, disk, work, past
  <2> QED
    BY <2>2, <2>3
<1> QED
  BY <1>1, <1>2, PTL DEF Spec

------------------------------------------------------------------------------
\* The properties.

\* Whatever a session does, its values are of their types (the sessions of
\* cmdEvolve).
THEOREM Typed == Spec => []TypeOK
<1>1. Inv => TypeOK
  BY DEF Inv
<1> QED
  BY <1>1, EvolveInvariant, PTL

\* Whatever stops a session, the journal replays and the next session is not
\* refused, but for what a kill left (cli.ts:600-603).
THEOREM AlwaysResumable == Spec => []Resumable
<1>1. Inv => Resumable
  BY DEF Inv, JournalInv, DiskInv, Resumable
<1> QED
  BY <1>1, EvolveInvariant, PTL

\* Between sessions the journal holds all the money but what a kill took
\* (cli.ts:731-739).
THEOREM NoMoneyLost == Spec => []MoneyKept
<1>1. Inv /\ MoneyInv /\ UnseenInv /\ TestsInv => MoneyKept
  <2> SUFFICES ASSUME Inv, MoneyInv, pc \in Idle PROVE state.spent + lost + unseen = paid
    BY DEF MoneyKept
  <2>1. unsaved = 0 /\ line = NoLine /\ state.spent \in Nat /\ lost \in Nat /\ unseen \in Nat
    BY JournalNumbers DEF Inv, TypeOK, SessionInv, Idle
  <2> QED
    BY <2>1 DEF MoneyInv, NoLine
<1> QED
  BY <1>1, BookKept, PTL

\* No run and no request is under way once the money told of has reached the
\* limit, over all sessions that money ends less than one run's cost past the
\* highest one, and each stop adds one run or reply in flight at most
\* (cli.ts:740-747).
THEOREM NeverOverLimit == Spec => []LimitHolds
<1>1. Inv /\ MoneyInv /\ UnseenInv /\ TestsInv => LimitHolds
  <2> SUFFICES ASSUME Inv, MoneyInv, UnseenInv PROVE LimitHolds
    OBVIOUS
  <2>1. /\ state.spent \in Nat /\ unsaved \in Nat /\ paid \in Nat /\ lost \in Nat /\ topLimit \in Nat
        /\ line.cost \in Nat /\ unseen \in Nat /\ limit \in Nat /\ MaxCost \in Nat
    BY JournalNumbers, CostIsNumber DEF Inv, TypeOK
  <2>2. pc \in {"running", "asking"} => line.cost = 0
    BY DEF Inv, TypeOK, NoLine
  <2>3. pc \in {"running", "asking"} => paid < limit + lost + unseen
    BY <2>1, <2>2 DEF MoneyInv
  <2>4. paid < topLimit + MaxCost + lost + unseen
    BY <2>1 DEF MoneyInv
  <2> QED
    BY <2>3, <2>4 DEF LimitHolds, UnseenInv
<1> QED
  BY <1>1, BookKept, PTL

\* While a proposal waits for its verdict a field is open, so the rounds cannot
\* end without it (cli.ts:887).
THEOREM WaitingKeepsOpen == Spec => []PendingMeansOpen
<1>1. Inv => PendingMeansOpen
  BY DEF Inv, JournalInv, RoundsSound, FieldsOpen, PendingMeansOpen
<1> QED
  BY <1>1, EvolveInvariant, PTL

\* A test sweep cut and rolled again shows in the report (cli.ts:720).
THEOREM ReportsRolledTests == Spec => []RolledTestShows
<1>1. Inv /\ MoneyInv /\ UnseenInv /\ TestsInv => RolledTestShows
  <2> SUFFICES ASSUME Inv, TestsInv, pc = "reported", state.version > 0, cutTests > 0
               PROVE  testStarts > Repeats
    BY DEF RolledTestShows
  <2>1. /\ state.tests \in Nat /\ Repeats \in Nat /\ cutTests \in Nat /\ testStarts \in Nat
        /\ doing = "none" /\ state.final
    BY JournalNumbers DEF Inv, TypeOK, SessionInv
  <2>2. state.tests = Repeats
    BY <2>1 DEF Inv, JournalInv, RoundsSound, TestsOfLast
  <2> QED
    BY <2>1, <2>2 DEF TestsInv
<1> QED
  BY <1>1, BookKept, PTL

\* With or without stops and kills, the journal grows as that of an evolve that
\* nothing ever stops: no slot, sweep, verdict or test is taken twice or left out.
THEOREM StopsLeaveNoMark == Spec => StopsUnseen
<1>1. Init => Steps!Init
  BY NoneExhausted DEF Init, Fresh, Steps!Init
<1>2. Inv /\ [Next]_vars => [Steps!Next]_(Steps!vars)
  BY NextInv DEF StepsNext
<1> QED
  BY <1>1, <1>2, EvolveInvariant, PTL DEF Spec, StopsUnseen, Steps!Spec
=============================================================================
