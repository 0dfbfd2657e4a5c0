----------------------------- MODULE ServeProofs ------------------------------
(****************************************************************************)
(* What is proved of three parts of serve: the job slot with the consent,   *)
(* the notes file, and the proxies it runs; and of the bench that it or the *)
(* command line starts; for any number of starts, children and versions of  *)
(* the tasks, of runs that note and requests that remove, of proxies and    *)
(* faults, of a bench's runs and whatever their commands may change.        *)
(*                                                                          *)
(* That one job lives is inductive with what serve takes for it: every      *)
(* child but that of the slot is dead, and an exit serve has seen is of a   *)
(* dead child.  That an evolve runs what was accepted needs the chain the   *)
(* version comes along: an ask accepts only what the user said yes to, what *)
(* it saves is what it accepts, and what is saved was accepted.             *)
(*                                                                          *)
(* That a note stays needs to know what a removal under way will write: it  *)
(* has the note too, and a torn end in it is a line that no reader takes,   *)
(* so that what is glued to it takes no note with it.                       *)
(*                                                                          *)
(* That the proxies stay within their number and their names needs that a   *)
(* slot is held from the spawn until serve saw the exit, and an exit is of  *)
(* a dead process.  That none is forced needs the signals on the way        *)
(* counted: one at most, and none before its stop was asked for, while      *)
(* serve lives and the start did not fail.                                  *)
(*                                                                          *)
(* Of a bench, BenchInv adds to BenchSound where each thing may be wrong at *)
(* all: what is left in the background lives only between the steps that    *)
(* start it and those that kill it, the packages are as installed in all    *)
(* that the fingerprint shows whenever a run may begin, the clone is as     *)
(* made when its check begins, the rows follow the place in the loop, and   *)
(* every clone on disk is one the exit hook knows or one that was said to   *)
(* be left.                                                                 *)
(****************************************************************************)
EXTENDS Jobs, Notes, Proxies, Bench, PickProofs, FiniteSetTheorems, TLAPS

------------------------------------------------------------------------------
\* The job slot and the consent.


Places == {"naming", "waiting", "loading", "consent", "saving", "spawning", "answered"}
Kinds  == BenchKinds \cup {"", "evolve"}
Tasks  == {0} \cup Versions
Statuses == {0, 201, 409, 502}
Asks == [ kind : Kinds, at : Places, accept : Tasks, tasks : Tasks, child : Nat,
          status : Statuses, dir : BOOLEAN ]
JobKinds == {"bench", "evolve"}
Procs == {"loading", "running", "dead"}
Spawned == [ kind : JobKinds, proc : Procs, exit : BOOLEAN, json : BOOLEAN,
             sigint : BOOLEAN, tasks : Tasks, dir : BOOLEAN ]

\* An ask among n children, when the user has said yes to yes.
AskRight(q, n, yes) ==
  /\ q.accept \in {0} \cup yes /\ q.child <= n
  /\ q.at \in {"consent", "saving"} => q.tasks \in Versions
  /\ q.at = "saving" => q.accept = q.tasks

\* A child, when j is in the slot.
ChildRight(p, c, j, yes) ==
  /\ p.exit => p.proc = "dead"
  /\ c # j => p.proc = "dead"
  /\ p.kind = "evolve" /\ p.proc = "running" => p.tasks \in yes

AllRight(qs, n, yes) ==
  /\ qs \in Seq(Asks)
  /\ \A a \in 1 .. Len(qs) : AskRight(qs[a], n, yes)
AsksRight == AllRight(asks, Len(spawned), accepted)
ChildrenRight ==
  /\ spawned \in Seq(Spawned)
  /\ \A c \in 1 .. Len(spawned) : ChildRight(spawned[c], c, job, accepted)
SlotRight ==
  /\ job \in 0 .. Len(spawned) /\ lastEvolve \in 0 .. Len(spawned) /\ stopping \in BOOLEAN
ConsentRight ==
  /\ head \in Versions /\ shown \subseteq Versions /\ accepted \subseteq Versions
  /\ consent \in {0} \cup accepted

JobsInv == AsksRight /\ ChildrenRight /\ SlotRight /\ ConsentRight

-----------------------------------------------------------------------------
\* A sequence with one element replaced.
LEMMA Replaced ==
  ASSUME NEW S, NEW s \in Seq(S), NEW i \in 1 .. Len(s), NEW v \in S
  PROVE  /\ [s EXCEPT ![i] = v] \in Seq(S) /\ Len([s EXCEPT ![i] = v]) = Len(s)
         /\ [s EXCEPT ![i] = v][i] = v
         /\ \A j \in 1 .. Len(s) : j # i => [s EXCEPT ![i] = v][j] = s[j]
OBVIOUS

\* A sequence with one element more.
LEMMA Added ==
  ASSUME NEW S, NEW s \in Seq(S), NEW v \in S
  PROVE  /\ Append(s, v) \in Seq(S) /\ Len(Append(s, v)) = Len(s) + 1
         /\ Append(s, v)[Len(s) + 1] = v
         /\ \A j \in 1 .. Len(s) : Append(s, v)[j] = s[j]
OBVIOUS

\* The records the steps make of an ask.
LEMMA AskRecords ==
  ASSUME NEW q \in Asks, NEW where \in Places, NEW t \in Tasks, NEW n \in Nat
  PROVE  /\ [q EXCEPT !.at = where] \in Asks
         /\ [q EXCEPT !.at = where, !.tasks = t] \in Asks
         /\ [q EXCEPT !.at = where, !.child = n, !.dir = FALSE] \in Asks
BY DEF Asks

LEMMA AskRecord ==
  ASSUME NEW kind \in Kinds, NEW where \in Places, NEW accept \in Tasks
  PROVE  Ask(kind, where, accept) \in Asks
<1>1. (kind = "again") \in BOOLEAN /\ 0 \in Tasks /\ 0 \in Statuses /\ 0 \in Nat
  BY DEF Tasks, Statuses
<1> QED
  BY <1>1 DEF Ask, Asks

\* An answered ask is right, whatever else there is.
LEMMA AnswerRecord ==
  ASSUME NEW status \in Statuses
  PROVE  Answered(status) \in Asks
<1>1. "" \in Kinds /\ "answered" \in Places /\ 0 \in Tasks
  BY DEF Kinds, Places, Tasks
<1>2. Ask("", "answered", 0) \in Asks
  BY <1>1, AskRecord
<1> QED
  BY <1>2 DEF Answered, Asks

LEMMA AnsweredRight ==
  ASSUME NEW status, NEW n \in Nat, NEW yes
  PROVE  AskRight(Answered(status), n, yes)
<1>1. /\ Answered(status).accept = 0 /\ Answered(status).child = 0
      /\ Answered(status).at = "answered"
  BY DEF Answered, Ask
<1> QED
  BY <1>1 DEF AskRight

\* What is right of an ask stays right when children and accepted versions come.
LEMMA AskStays ==
  ASSUME NEW q \in Asks, NEW n \in Nat, NEW m \in Nat, n <= m, NEW yes, NEW more, yes \subseteq more,
         AskRight(q, n, yes)
  PROVE  AskRight(q, m, more)
<1>1. q.child \in Nat /\ q.child <= n
  BY DEF AskRight, Asks
<1>2. q.child <= m
  BY <1>1
<1> QED
  BY <1>2 DEF AskRight

\* What is right of all asks stays right when children and accepted versions
\* come, when an ask comes, and when one is replaced.
LEMMA AsksStay ==
  ASSUME NEW qs, NEW n \in Nat, NEW m \in Nat, n <= m, NEW yes, NEW more, yes \subseteq more,
         AllRight(qs, n, yes)
  PROVE  AllRight(qs, m, more)
<1>1. qs \in Seq(Asks)
  BY DEF AllRight
<1>2. ASSUME NEW a \in 1 .. Len(qs) PROVE AskRight(qs[a], m, more)
  <2>1. qs[a] \in Asks
    BY <1>1
  <2>2. AskRight(qs[a], n, yes)
    BY DEF AllRight
  <2> QED
    BY <2>1, <2>2, AskStays
<1> QED
  BY <1>1, <1>2 DEF AllRight

LEMMA AskComes ==
  ASSUME NEW qs, NEW n, NEW yes, AllRight(qs, n, yes), NEW q \in Asks, AskRight(q, n, yes)
  PROVE  AllRight(Append(qs, q), n, yes)
<1> DEFINE next == Append(qs, q)
<1>1. qs \in Seq(Asks) /\ \A a \in 1 .. Len(qs) : AskRight(qs[a], n, yes)
  BY DEF AllRight
<1>2. /\ next \in Seq(Asks) /\ Len(next) = Len(qs) + 1 /\ next[Len(qs) + 1] = q
      /\ \A a \in 1 .. Len(qs) : next[a] = qs[a]
  <2>1. qs \in Seq(Asks)
    BY <1>1
  <2> QED
    BY <2>1, Added
<1> HIDE DEF next
<1>3. ASSUME NEW a \in 1 .. Len(next) PROVE AskRight(next[a], n, yes)
  <2>1. CASE a \in 1 .. Len(qs)
    BY <1>1, <1>2, <2>1
  <2>2. CASE a = Len(qs) + 1
    BY <1>2, <2>2
  <2>3. Len(qs) \in Nat /\ a \in 1 .. Len(qs) + 1
    <3>1. qs \in Seq(Asks)
      BY <1>1
    <3> QED
      BY <1>2, <3>1
  <2> QED
    BY <2>1, <2>2, <2>3
<1>4. AllRight(next, n, yes)
  BY <1>2, <1>3 DEF AllRight
<1> QED
  BY <1>4 DEF next

LEMMA AskMoves ==
  ASSUME NEW qs, NEW n, NEW yes, AllRight(qs, n, yes), NEW a \in 1 .. Len(qs), NEW q \in Asks,
         AskRight(q, n, yes)
  PROVE  AllRight([qs EXCEPT ![a] = q], n, yes)
<1> DEFINE next == [qs EXCEPT ![a] = q]
<1>1. qs \in Seq(Asks) /\ \A b \in 1 .. Len(qs) : AskRight(qs[b], n, yes)
  BY DEF AllRight
<1>2. /\ next \in Seq(Asks) /\ Len(next) = Len(qs) /\ next[a] = q
      /\ \A b \in 1 .. Len(qs) : b # a => next[b] = qs[b]
  <2>1. qs \in Seq(Asks)
    BY <1>1
  <2> QED
    BY <2>1, Replaced
<1> HIDE DEF next
<1>3. ASSUME NEW b \in 1 .. Len(next) PROVE AskRight(next[b], n, yes)
  <2>1. CASE b = a
    BY <1>2, <2>1
  <2>2. CASE b # a
    BY <1>1, <1>2, <2>2
  <2> QED
    BY <2>1, <2>2
<1>4. AllRight(next, n, yes)
  BY <1>2, <1>3 DEF AllRight
<1> QED
  BY <1>4 DEF next

\* A child whose record changes.
LEMMA ChildMoves ==
  ASSUME ChildrenRight, NEW c \in 1 .. Len(spawned), NEW p \in Spawned, job' = job, accepted' = accepted,
         ChildRight(p, c, job, accepted), spawned' = [spawned EXCEPT ![c] = p]
  PROVE  ChildrenRight' /\ Len(spawned') = Len(spawned)
<1>1. /\ spawned' \in Seq(Spawned) /\ Len(spawned') = Len(spawned) /\ spawned'[c] = p
      /\ \A d \in 1 .. Len(spawned) : d # c => spawned'[d] = spawned[d]
  BY Replaced DEF ChildrenRight
<1>2. ASSUME NEW d \in 1 .. Len(spawned') PROVE ChildRight(spawned'[d], d, job, accepted)
  BY <1>1 DEF ChildrenRight
<1> QED
  BY <1>1, <1>2 DEF ChildrenRight

\* A start spawns only when the child in the slot is dead.
LEMMA ChildComes ==
  ASSUME ChildrenRight, SlotRight, ~busy, NEW p \in Spawned, p.proc = "loading", p.exit = FALSE,
         spawned' = Append(spawned, p), job' = Len(spawned) + 1, accepted' = accepted
  PROVE  ChildrenRight' /\ Len(spawned') = Len(spawned) + 1
<1>1. /\ spawned' \in Seq(Spawned) /\ Len(spawned') = Len(spawned) + 1 /\ spawned'[Len(spawned) + 1] = p
      /\ \A d \in 1 .. Len(spawned) : spawned'[d] = spawned[d]
  BY Added DEF ChildrenRight
<1>2. Len(spawned) \in Nat
  BY DEF ChildrenRight
<1>3. ASSUME NEW d \in 1 .. Len(spawned) PROVE spawned[d].proc = "dead"
  <2>1. ChildRight(spawned[d], d, job, accepted) /\ spawned[d] \in Spawned
    BY DEF ChildrenRight
  <2>2. CASE d # job
    BY <2>1, <2>2 DEF ChildRight
  <2>3. CASE d = job
    <3>1. runningKind = "none" /\ spawned[job].kind # "none"
      BY <2>1, <2>3 DEF busy, Spawned, JobKinds
    <3>2. spawned[job].exit
      BY <1>2, <2>3, <3>1 DEF runningKind
    <3> QED
      BY <2>1, <2>3, <3>2 DEF ChildRight
  <2> QED
    BY <2>2, <2>3
<1>4. ASSUME NEW d \in 1 .. Len(spawned') PROVE ChildRight(spawned'[d], d, Len(spawned) + 1, accepted)
  <2>1. CASE d \in 1 .. Len(spawned)
    <3>1. spawned'[d] = spawned[d] /\ spawned[d].proc = "dead"
      BY <1>1, <1>3, <2>1
    <3> QED
      BY <3>1 DEF ChildRight
  <2>2. CASE d = Len(spawned) + 1
    BY <1>1, <2>2 DEF ChildRight
  <2> QED
    BY <1>1, <1>2, <2>1, <2>2
<1> QED
  BY <1>1, <1>4 DEF ChildrenRight

-----------------------------------------------------------------------------
\* The requests.

\* A request to start a bench or an evolve.
LEMMA AsksKeep ==
  ASSUME JobsInv, (\E kind \in BenchKinds : AskBench(kind)) \/ (\E accept \in {0} \cup Versions : AskEvolve(accept))
  PROVE  JobsInv'
<1>1. PICK kind \in BenchKinds \cup {"evolve"}, place \in {"naming", "loading"}, accept \in {0} \cup accepted :
        asks' = Append(asks, IF busy THEN Answered(409) ELSE Ask(kind, place, accept))
  BY DEF AskBench, AskEvolve
<1>2. accept \in {0} \cup Versions /\ Len(spawned) \in Nat
  BY DEF JobsInv, ConsentRight, ChildrenRight
<1>3. Ask(kind, place, accept) \in Asks /\ Answered(409) \in Asks
  <2>1. kind \in Kinds /\ place \in Places /\ accept \in Tasks /\ 409 \in Statuses
    <3>1. kind \in Kinds
      BY DEF Kinds
    <3>2. place \in Places /\ 409 \in Statuses
      BY DEF Places, Statuses
    <3>3. accept \in Tasks
      BY <1>2 DEF Tasks
    <3> QED
      BY <3>1, <3>2, <3>3
  <2> QED
    BY <2>1, AskRecord, AnswerRecord
<1>4. AskRight(Ask(kind, place, accept), Len(spawned), accepted) /\ AskRight(Answered(409), Len(spawned), accepted)
  <2>1. /\ Ask(kind, place, accept).accept = accept /\ Ask(kind, place, accept).child = 0
        /\ Ask(kind, place, accept).at = place
    BY DEF Ask
  <2> QED
    BY <1>2, <2>1, AnsweredRight DEF AskRight
<1>5. UNCHANGED <<job, stopping, lastEvolve, spawned, head, consent, shown, accepted>>
  BY DEF AskBench, AskEvolve
<1>6. AsksRight'
  <2>1. AllRight(asks, Len(spawned), accepted)
    BY DEF JobsInv, AsksRight
  <2>2. CASE busy
    <3>1. AllRight(Append(asks, Answered(409)), Len(spawned), accepted)
      BY <1>3, <1>4, <2>1, AskComes
    <3> QED
      BY <1>1, <1>5, <2>2, <3>1 DEF AsksRight
  <2>3. CASE ~busy
    <3>1. AllRight(Append(asks, Ask(kind, place, accept)), Len(spawned), accepted)
      BY <1>3, <1>4, <2>1, AskComes
    <3> QED
      BY <1>1, <1>5, <2>3, <3>1 DEF AsksRight
  <2> QED
    BY <2>2, <2>3
<1> QED
  BY <1>5, <1>6 DEF JobsInv, ChildrenRight, SlotRight, ConsentRight

\* A start that spawns: the slot is free, and its child takes it.
LEMMA StartBenchKeeps ==
  ASSUME JobsInv, NEW a \in 1 .. Len(asks), StartBench(a)
  PROVE  JobsInv'
<1> DEFINE n == Len(spawned)
           p == NewChild("bench", asks[a].dir)
           q == [asks[a] EXCEPT !.at = "waiting", !.child = n + 1, !.dir = FALSE]
<1>1. asks[a] \in Asks /\ n \in Nat /\ asks \in Seq(Asks) /\ spawned \in Seq(Spawned)
  BY DEF JobsInv, AsksRight, AllRight, ChildrenRight
<1>2. UNCHANGED <<lastEvolve, head, consent, shown, accepted>>
  BY DEF StartBench
<1>3. CASE busy
  <2>1. asks' = [asks EXCEPT ![a] = Answered(409)] /\ UNCHANGED <<spawned, job, stopping>>
    BY <1>3 DEF StartBench, Answer
  <2>2. Answered(409) \in Asks /\ AskRight(Answered(409), n, accepted)
    <3>1. 409 \in Statuses
      BY <1>1 DEF Statuses
    <3> QED
      BY <1>1, <3>1, AnswerRecord, AnsweredRight
  <2>3. AsksRight'
    <3>1. AllRight(asks, n, accepted)
      BY DEF JobsInv, AsksRight
    <3>2. AllRight([asks EXCEPT ![a] = Answered(409)], n, accepted)
      BY <2>2, <3>1, AskMoves
    <3> QED
      BY <1>2, <2>1, <3>2 DEF AsksRight
  <2> QED
    BY <1>2, <2>1, <2>3 DEF JobsInv, ChildrenRight, SlotRight, ConsentRight
<1>4. CASE ~busy
  <2>1. /\ spawned' = Append(spawned, p) /\ job' = n + 1 /\ stopping' = FALSE
        /\ asks' = [Moved(a, "waiting") EXCEPT ![a].child = n + 1, ![a].dir = FALSE]
    BY <1>4 DEF StartBench
  <2>2. asks' = [asks EXCEPT ![a] = q]
    BY <1>1, <2>1 DEF Moved
  <2>3. p \in Spawned /\ p.proc = "loading" /\ p.exit = FALSE
    BY <1>1 DEF NewChild, Spawned, Procs, Asks, JobKinds, Tasks
  <2>4. q \in Asks
    <3>1. "waiting" \in Places /\ n + 1 \in Nat /\ 0 \in Tasks
      BY <1>1 DEF Places, Tasks
    <3> QED
      BY <1>1, <3>1, AskRecords
  <2>5. AskRight(q, n + 1, accepted)
    <3>1. AskRight(asks[a], n, accepted)
      BY DEF JobsInv, AsksRight, AllRight
    <3>2. q.at = "waiting" /\ q.child = n + 1 /\ q.accept = asks[a].accept
      BY <1>1 DEF Asks
    <3> QED
      BY <1>1, <3>1, <3>2 DEF AskRight
  <2> HIDE DEF p, q
  <2>6. ChildrenRight' /\ Len(spawned') = n + 1
    BY <1>2, <1>4, <2>1, <2>3, ChildComes DEF JobsInv
  <2>7. AsksRight'
    <3>1. AllRight(asks, n, accepted) /\ n + 1 \in Nat /\ n <= n + 1
      BY <1>1 DEF JobsInv, AsksRight
    <3>2. AllRight(asks, n + 1, accepted)
      BY <1>1, <3>1, AsksStay
    <3>3. AllRight([asks EXCEPT ![a] = q], n + 1, accepted)
      BY <2>4, <2>5, <3>2, AskMoves
    <3> QED
      BY <1>2, <2>2, <2>6, <3>3 DEF AsksRight
  <2>8. SlotRight'
    <3> SUFFICES n + 1 \in 0 .. n + 1 /\ lastEvolve \in 0 .. n + 1 /\ stopping' \in BOOLEAN
      BY <1>2, <2>1, <2>6 DEF SlotRight
    <3>1. lastEvolve \in 0 .. n /\ stopping \in BOOLEAN
      BY DEF JobsInv, SlotRight
    <3>2. n + 1 \in 0 .. n + 1 /\ lastEvolve \in 0 .. n + 1
      BY <1>1, <3>1
    <3> QED
      BY <1>2, <2>1, <3>1, <3>2
  <2> QED
    BY <1>2, <2>6, <2>7, <2>8 DEF JobsInv, ConsentRight
<1> QED
  BY <1>3, <1>4

LEMMA StartEvolveKeeps ==
  ASSUME JobsInv, NEW a \in 1 .. Len(asks), StartEvolve(a)
  PROVE  JobsInv'
<1> DEFINE n == Len(spawned)
           p == NewChild("evolve", FALSE)
<1>1. n \in Nat /\ asks \in Seq(Asks) /\ spawned \in Seq(Spawned)
  BY DEF JobsInv, AsksRight, AllRight, ChildrenRight
<1>2. UNCHANGED <<stopping, lastEvolve, head, consent, shown, accepted>>
  BY DEF StartEvolve
<1>3. CASE busy
  <2>1. asks' = [asks EXCEPT ![a] = Answered(409)] /\ UNCHANGED <<spawned, job>>
    BY <1>3 DEF StartEvolve, Answer
  <2>2. Answered(409) \in Asks /\ AskRight(Answered(409), n, accepted)
    <3>1. 409 \in Statuses
      BY <1>1 DEF Statuses
    <3> QED
      BY <1>1, <3>1, AnswerRecord, AnsweredRight
  <2>3. AsksRight'
    <3>1. AllRight(asks, n, accepted)
      BY DEF JobsInv, AsksRight
    <3>2. AllRight([asks EXCEPT ![a] = Answered(409)], n, accepted)
      BY <2>2, <3>1, AskMoves
    <3> QED
      BY <1>2, <2>1, <3>2 DEF AsksRight
  <2> QED
    BY <1>2, <2>1, <2>3 DEF JobsInv, ChildrenRight, SlotRight, ConsentRight
<1>4. CASE ~busy
  <2>1. /\ spawned' = Append(spawned, p) /\ job' = n + 1
        /\ asks' = [asks EXCEPT ![a] = Answered(201)]
    BY <1>4 DEF StartEvolve, Answer
  <2>2. p \in Spawned /\ p.proc = "loading" /\ p.exit = FALSE
    BY DEF NewChild, Spawned, Procs, JobKinds, Tasks
  <2>3. Answered(201) \in Asks /\ AskRight(Answered(201), n + 1, accepted)
    <3>1. 201 \in Statuses /\ n + 1 \in Nat
      BY <1>1 DEF Statuses
    <3> QED
      BY <1>1, <3>1, AnswerRecord, AnsweredRight
  <2> HIDE DEF p
  <2>4. ChildrenRight' /\ Len(spawned') = n + 1
    BY <1>2, <1>4, <2>1, <2>2, ChildComes DEF JobsInv
  <2>5. AsksRight'
    <3>1. AllRight(asks, n, accepted) /\ n + 1 \in Nat /\ n <= n + 1
      BY <1>1 DEF JobsInv, AsksRight
    <3>2. AllRight(asks, n + 1, accepted)
      BY <1>1, <3>1, AsksStay
    <3>3. AllRight([asks EXCEPT ![a] = Answered(201)], n + 1, accepted)
      BY <2>3, <3>2, AskMoves
    <3> QED
      BY <1>2, <2>1, <2>4, <3>3 DEF AsksRight
  <2>6. SlotRight'
    <3> SUFFICES n + 1 \in 0 .. n + 1 /\ lastEvolve \in 0 .. n + 1 /\ stopping' \in BOOLEAN
      BY <1>2, <2>1, <2>4 DEF SlotRight
    <3>1. lastEvolve \in 0 .. n /\ stopping \in BOOLEAN
      BY DEF JobsInv, SlotRight
    <3>2. n + 1 \in 0 .. n + 1 /\ lastEvolve \in 0 .. n + 1
      BY <1>1, <3>1
    <3> QED
      BY <1>2, <2>1, <3>1, <3>2
  <2> QED
    BY <1>2, <2>4, <2>5, <2>6 DEF JobsInv, ConsentRight
<1> QED
  BY <1>3, <1>4

\* The steps of a start before it spawns, and the answer of a bench.
LEMMA StartKeeps ==
  ASSUME JobsInv, NEW a \in 1 .. Len(asks), AnswerBench(a) \/ LoadTasks(a) \/ CheckConsent(a) \/ SaveConsent(a)
  PROVE  JobsInv'
<1> DEFINE t == asks[a].tasks
<1>1. /\ asks[a] \in Asks /\ Len(spawned) \in Nat /\ asks \in Seq(Asks)
      /\ AskRight(asks[a], Len(spawned), accepted)
  BY DEF JobsInv, AsksRight, AllRight, ChildrenRight
<1>2. UNCHANGED <<job, stopping, lastEvolve, spawned, head, accepted>>
  BY DEF AnswerBench, LoadTasks, CheckConsent, SaveConsent
<1>3. ASSUME NEW q \in Asks, AskRight(q, Len(spawned), accepted), asks' = [asks EXCEPT ![a] = q],
             shown' \subseteq Versions, consent' \in {0} \cup accepted
      PROVE  JobsInv'
  <2>1. AllRight(asks, Len(spawned), accepted)
    BY DEF JobsInv, AsksRight
  <2>2. AllRight([asks EXCEPT ![a] = q], Len(spawned), accepted)
    BY <1>3, <2>1, AskMoves
  <2>3. AsksRight'
    BY <1>2, <1>3, <2>2 DEF AsksRight
  <2> QED
    BY <1>2, <1>3, <2>3 DEF JobsInv, ChildrenRight, SlotRight, ConsentRight
<1>4. shown \subseteq Versions /\ consent \in {0} \cup accepted /\ head \in Versions
  BY DEF JobsInv, ConsentRight
<1>5. ASSUME NEW status \in Statuses
      PROVE  Answered(status) \in Asks /\ AskRight(Answered(status), Len(spawned), accepted)
  BY <1>1, AnswerRecord, AnsweredRight
<1>6. CASE AnswerBench(a)
  <2>1. PICK status \in {201, 502} : asks' = [asks EXCEPT ![a] = Answered(status)]
    <3> DEFINE x == IF spawned[asks[a].child].json THEN 201 ELSE 502
    <3>1. x \in {201, 502}
      OBVIOUS
    <3>2. asks' = Answer(a, x)
      BY <1>6 DEF AnswerBench
    <3>3. asks' = [asks EXCEPT ![a] = Answered(x)]
      BY <3>2, Zenon DEF Answer
    <3> HIDE DEF x
    <3> QED
      BY <3>1, <3>3, Zenon
  <2>2. shown' \subseteq Versions /\ consent' \in {0} \cup accepted
    BY <1>4, <1>6 DEF AnswerBench
  <2>3. Answered(status) \in Asks /\ AskRight(Answered(status), Len(spawned), accepted)
    <3>1. status \in Statuses
      BY DEF Statuses
    <3> QED
      BY <1>5, <3>1
  <2> QED
    BY <1>3, <2>1, <2>2, <2>3
<1>7. CASE LoadTasks(a)
  <2> DEFINE q == [asks[a] EXCEPT !.at = "consent", !.tasks = head]
  <2>1. asks' = [asks EXCEPT ![a] = q] /\ UNCHANGED <<shown, consent>>
    BY <1>1, <1>7 DEF LoadTasks, Moved
  <2>2. q \in Asks
    BY <1>1, <1>4, AskRecords DEF Places, Tasks
  <2>3. q.at = "consent" /\ q.tasks = head /\ q.accept = asks[a].accept /\ q.child = asks[a].child
    BY <1>1 DEF Asks
  <2>4. AskRight(q, Len(spawned), accepted)
    BY <1>1, <1>4, <2>3 DEF AskRight
  <2> HIDE DEF q
  <2> QED
    BY <1>3, <1>4, <2>1, <2>2, <2>4
<1>8. CASE CheckConsent(a)
  <2>1. asks[a].at = "consent" /\ t \in Versions /\ consent' = consent
    BY <1>1, <1>8 DEF CheckConsent, AskAt, AskRight
  <2>2. CASE asks[a].accept = t /\ asks' = Moved(a, "saving") /\ UNCHANGED shown
    <3> DEFINE q == [asks[a] EXCEPT !.at = "saving"]
    <3>1. asks' = [asks EXCEPT ![a] = q] /\ q \in Asks
      BY <1>1, <2>2, AskRecords DEF Moved, Places, Tasks
    <3>2. q.at = "saving" /\ q.tasks = t /\ q.accept = asks[a].accept /\ q.child = asks[a].child
      BY <1>1 DEF Asks
    <3>3. AskRight(q, Len(spawned), accepted)
      BY <1>1, <2>1, <2>2, <3>2 DEF AskRight
    <3> HIDE DEF q
    <3> QED
      BY <1>3, <1>4, <2>1, <2>2, <3>1, <3>3
  <2>3. CASE asks' = Moved(a, "spawning") /\ UNCHANGED shown
    <3> DEFINE q == [asks[a] EXCEPT !.at = "spawning"]
    <3>1. asks' = [asks EXCEPT ![a] = q] /\ q \in Asks
      BY <1>1, <2>3, AskRecords DEF Moved, Places, Tasks
    <3>2. q.at = "spawning" /\ q.accept = asks[a].accept /\ q.child = asks[a].child
      BY <1>1 DEF Asks
    <3>3. AskRight(q, Len(spawned), accepted)
      BY <1>1, <3>2 DEF AskRight
    <3> HIDE DEF q
    <3> QED
      BY <1>3, <1>4, <2>1, <2>3, <3>1, <3>3
  <2>4. CASE asks' = Answer(a, 409) /\ shown' = shown \cup {t}
    <3>1. shown' \subseteq Versions /\ consent' \in {0} \cup accepted
      BY <1>4, <2>1, <2>4
    <3>2. Answered(409) \in Asks /\ AskRight(Answered(409), Len(spawned), accepted)
      <4>1. 409 \in Statuses
        BY DEF Statuses
      <4> QED
        BY <1>5, <4>1
    <3>3. asks' = [asks EXCEPT ![a] = Answered(409)]
      BY <2>4 DEF Answer
    <3> QED
      BY <1>3, <3>1, <3>2, <3>3
  <2> QED
    BY <1>8, <2>2, <2>3, <2>4 DEF CheckConsent
<1>9. CASE SaveConsent(a)
  <2> DEFINE q == [asks[a] EXCEPT !.at = "spawning"]
  <2>1. /\ asks[a].at = "saving" /\ consent' = t /\ shown' = shown
        /\ asks' = Moved(a, "spawning")
    BY <1>9 DEF SaveConsent, AskAt
  <2>2. consent' \in {0} \cup accepted
    BY <1>1, <2>1 DEF AskRight
  <2>3. asks' = [asks EXCEPT ![a] = q] /\ q \in Asks
    BY <1>1, <2>1, AskRecords DEF Moved, Places, Tasks
  <2>4. q.at = "spawning" /\ q.accept = asks[a].accept /\ q.child = asks[a].child
    BY <1>1 DEF Asks
  <2>5. AskRight(q, Len(spawned), accepted)
    BY <1>1, <2>4 DEF AskRight
  <2> HIDE DEF q
  <2> QED
    BY <1>3, <1>4, <2>1, <2>2, <2>3, <2>5
<1> QED
  BY <1>6, <1>7, <1>8, <1>9

-----------------------------------------------------------------------------
\* Stop, the user's yes, and the commits.
LEMMA StopKeeps ==
  ASSUME JobsInv, NEW kind \in {"bench", "evolve"}, StopJob(kind)
  PROVE  JobsInv'
<1> DEFINE p == [spawned[job] EXCEPT !.sigint = TRUE]
<1>1. spawned \in Seq(Spawned) /\ Len(spawned) \in Nat /\ job \in 1 .. Len(spawned)
  BY DEF JobsInv, ChildrenRight, SlotRight, StopJob, runningKind
<1>2. /\ spawned' = [spawned EXCEPT ![job] = p] /\ stopping' \in BOOLEAN
      /\ UNCHANGED <<asks, job, lastEvolve, head, consent, shown, accepted>>
  <2>1. (stopping \/ kind = "bench") \in BOOLEAN
    OBVIOUS
  <2> QED
    BY <1>1, <2>1 DEF StopJob
<1>3. p \in Spawned /\ ChildRight(p, job, job, accepted)
  <2>1. spawned[job] \in Spawned /\ ChildRight(spawned[job], job, job, accepted)
    BY <1>1 DEF JobsInv, ChildrenRight
  <2>2. p \in Spawned
    BY <2>1 DEF Spawned
  <2>3. /\ p.exit = spawned[job].exit /\ p.proc = spawned[job].proc
        /\ p.kind = spawned[job].kind /\ p.tasks = spawned[job].tasks
    BY <2>1 DEF Spawned
  <2> HIDE DEF p
  <2> QED
    BY <2>1, <2>2, <2>3 DEF ChildRight
<1> HIDE DEF p
<1>4. ChildrenRight' /\ Len(spawned') = Len(spawned)
  BY <1>1, <1>2, <1>3, ChildMoves DEF JobsInv
<1> QED
  BY <1>2, <1>4 DEF JobsInv, AsksRight, SlotRight, ConsentRight

LEMMA UserKeeps ==
  ASSUME JobsInv, (\E v \in Versions : Accept(v)) \/ Commit
  PROVE  JobsInv'
<1>1. UNCHANGED <<asks, job, stopping, lastEvolve, spawned, consent, shown>>
  BY DEF Accept, Commit
<1>2. accepted \subseteq accepted' /\ accepted' \subseteq Versions /\ head' \in Versions
  BY DEF JobsInv, ConsentRight, Accept, Commit
<1>3. AsksRight'
  <2>1. Len(spawned) \in Nat /\ Len(spawned) <= Len(spawned) /\ AllRight(asks, Len(spawned), accepted)
    BY DEF JobsInv, AsksRight, ChildrenRight
  <2>2. AllRight(asks, Len(spawned), accepted')
    BY <1>2, <2>1, AsksStay
  <2> QED
    BY <1>1, <2>2 DEF AsksRight
<1>4. ChildrenRight'
  <2>1. spawned \in Seq(Spawned)
    BY DEF JobsInv, ChildrenRight
  <2>2. ASSUME NEW c \in 1 .. Len(spawned) PROVE ChildRight(spawned[c], c, job, accepted')
    <3>1. ChildRight(spawned[c], c, job, accepted)
      BY DEF JobsInv, ChildrenRight
    <3> QED
      BY <1>2, <3>1 DEF ChildRight
  <2> QED
    BY <1>1, <2>1, <2>2 DEF ChildrenRight
<1>5. SlotRight' /\ ConsentRight'
  BY <1>1, <1>2 DEF JobsInv, SlotRight, ConsentRight
<1> QED
  BY <1>3, <1>4, <1>5 DEF JobsInv

-----------------------------------------------------------------------------
\* The children: an evolve runs under the consent that is saved, and only the
\* child of the slot is alive to take a step.
LEMMA ChildKeeps ==
  ASSUME JobsInv, NEW c \in 1 .. Len(spawned), NEW p \in Spawned,
         ChildRight(p, c, job, accepted), spawned' = [spawned EXCEPT ![c] = p],
         UNCHANGED <<asks, job, stopping, head, consent, shown, accepted>>,
         lastEvolve' \in {lastEvolve, c}
  PROVE  JobsInv'
<1>1. ChildrenRight' /\ Len(spawned') = Len(spawned)
  BY ChildMoves DEF JobsInv
<1>2. SlotRight'
  <2>1. c \in 0 .. Len(spawned) /\ lastEvolve \in 0 .. Len(spawned)
    BY DEF JobsInv, SlotRight
  <2> QED
    BY <1>1, <2>1 DEF JobsInv, SlotRight
<1> QED
  BY <1>1, <1>2 DEF JobsInv, AsksRight, ConsentRight

\* The records the steps make of a child.
LEMMA ChildRecords ==
  ASSUME NEW p \in Spawned, NEW state \in Procs, NEW t \in Tasks
  PROVE  /\ [p EXCEPT !.proc = state] \in Spawned
         /\ [p EXCEPT !.proc = state, !.json = TRUE] \in Spawned
         /\ [p EXCEPT !.tasks = t] \in Spawned
         /\ [p EXCEPT !.exit = TRUE, !.dir = FALSE] \in Spawned
BY DEF Spawned

LEMMA ChildStepKeeps ==
  ASSUME JobsInv, NEW c \in 1 .. Len(spawned),
         BenchRuns(c) \/ EvolveLoads(c) \/ EvolveAsks(c) \/ JobEnds(c) \/ SeeJobExit(c)
  PROVE  JobsInv'
<1>1. /\ spawned \in Seq(Spawned) /\ spawned[c] \in Spawned /\ Len(spawned) \in Nat
      /\ ChildRight(spawned[c], c, job, accepted)
  BY DEF JobsInv, ChildrenRight
<1>2. {"running", "dead"} \subseteq Procs /\ head \in Tasks
  BY DEF Procs, Tasks, JobsInv, ConsentRight
<1>3. CASE BenchRuns(c)
  <2> DEFINE p == [spawned[c] EXCEPT !.proc = "running", !.json = TRUE]
  <2>1. /\ spawned' = [spawned EXCEPT ![c] = p] /\ lastEvolve' = lastEvolve
        /\ UNCHANGED <<asks, job, stopping, head, consent, shown, accepted>>
        /\ spawned[c].kind = "bench" /\ spawned[c].proc = "loading"
    BY <1>3 DEF BenchRuns, JobChild
  <2>2. p \in Spawned
    BY <1>1, <1>2, ChildRecords
  <2>3. p.exit = spawned[c].exit /\ p.kind = "bench"
    BY <1>1, <2>1 DEF Spawned
  <2>4. ChildRight(p, c, job, accepted)
    BY <1>1, <2>1, <2>3 DEF ChildRight
  <2> HIDE DEF p
  <2> QED
    BY <2>1, <2>2, <2>4, ChildKeeps
<1>4. CASE EvolveLoads(c)
  <2> DEFINE p == [spawned[c] EXCEPT !.tasks = head]
  <2>1. /\ spawned' = [spawned EXCEPT ![c] = p] /\ lastEvolve' = lastEvolve
        /\ UNCHANGED <<asks, job, stopping, head, consent, shown, accepted>>
        /\ spawned[c].proc = "loading"
    BY <1>4 DEF EvolveLoads, JobChild
  <2>2. p \in Spawned
    BY <1>1, <1>2, ChildRecords
  <2>3. p.exit = spawned[c].exit /\ p.proc = "loading"
    BY <1>1, <2>1 DEF Spawned
  <2>4. ChildRight(p, c, job, accepted)
    BY <1>1, <2>1, <2>3 DEF ChildRight
  <2> HIDE DEF p
  <2> QED
    BY <2>1, <2>2, <2>4, ChildKeeps
<1>5. CASE EvolveAsks(c)
  <2> DEFINE state == IF consent = spawned[c].tasks THEN "running" ELSE "dead"
             p     == [spawned[c] EXCEPT !.proc = state]
  <2>1. /\ spawned' = [spawned EXCEPT ![c] = p] /\ lastEvolve' = lastEvolve
        /\ UNCHANGED <<asks, job, stopping, head, consent, shown, accepted>>
        /\ spawned[c].proc = "loading" /\ spawned[c].tasks # 0
    BY <1>5 DEF EvolveAsks, JobChild
  <2>2. state \in {"running", "dead"} /\ (state = "running" => spawned[c].tasks \in accepted)
    BY <2>1 DEF JobsInv, ConsentRight
  <2> HIDE DEF state
  <2>3. p \in Spawned
    BY <1>1, <1>2, <2>2, ChildRecords
  <2>4. p.exit = spawned[c].exit /\ p.proc = state /\ p.tasks = spawned[c].tasks
    BY <1>1 DEF Spawned
  <2> HIDE DEF p
  <2>5. ChildRight(p, c, job, accepted)
    BY <1>1, <2>1, <2>2, <2>4 DEF ChildRight
  <2> QED
    BY <2>1, <2>3, <2>5, ChildKeeps
<1>6. CASE JobEnds(c)
  <2> DEFINE p == [spawned[c] EXCEPT !.proc = "dead"]
  <2>1. /\ spawned' = [spawned EXCEPT ![c] = p] /\ lastEvolve' = lastEvolve
        /\ UNCHANGED <<asks, job, stopping, head, consent, shown, accepted>>
    BY <1>6 DEF JobEnds, JobChild
  <2>2. p \in Spawned
    BY <1>1, <1>2, ChildRecords
  <2>3. p.proc = "dead"
    BY <1>1 DEF Spawned
  <2> HIDE DEF p
  <2>4. ChildRight(p, c, job, accepted)
    BY <2>3 DEF ChildRight
  <2> QED
    BY <2>1, <2>2, <2>4, ChildKeeps
<1>7. CASE SeeJobExit(c)
  <2> DEFINE p == [spawned[c] EXCEPT !.exit = TRUE, !.dir = FALSE]
  <2>1. /\ spawned' = [spawned EXCEPT ![c] = p] /\ lastEvolve' \in {lastEvolve, c}
        /\ UNCHANGED <<asks, job, stopping, head, consent, shown, accepted>>
        /\ spawned[c].proc = "dead"
    BY <1>1, <1>7 DEF SeeJobExit
  <2>2. p \in Spawned
    BY <1>1, <1>2, ChildRecords
  <2>3. p.proc = "dead"
    BY <1>1, <2>1 DEF Spawned
  <2> HIDE DEF p
  <2>4. ChildRight(p, c, job, accepted)
    BY <2>3 DEF ChildRight
  <2> QED
    BY <2>1, <2>2, <2>4, ChildKeeps
<1> QED
  BY <1>3, <1>4, <1>5, <1>6, <1>7

-----------------------------------------------------------------------------
\* Serve's slot and consent agree with the children that live, in every state
\* (server/index.ts:65-104, 245-297).
THEOREM JobsInvariant == JobsSpec => []JobsInv
<1>1. JobsInit => JobsInv
  <2> SUFFICES ASSUME JobsInit PROVE JobsInv
    OBVIOUS
  <2>1. asks = <<>> /\ spawned = <<>> /\ Len(<<>>) = 0
    BY DEF JobsInit
  <2>2. asks \in Seq(Asks) /\ spawned \in Seq(Spawned) /\ 1 .. 0 = {}
    BY <2>1
  <2>3. AsksRight /\ ChildrenRight
    BY <2>1, <2>2 DEF AsksRight, AllRight, ChildrenRight
  <2>4. SlotRight
    <3>1. Len(spawned) = 0 /\ 0 \in 0 .. 0 /\ FALSE \in BOOLEAN
      BY <2>1
    <3> QED
      BY <3>1 DEF JobsInit, SlotRight
  <2>5. ConsentRight
    BY JobsAssumption DEF JobsInit, ConsentRight
  <2> QED
    BY <2>3, <2>4, <2>5 DEF JobsInv
<1>2. JobsInv /\ [JobsNext]_jobsVars => JobsInv'
  <2> SUFFICES ASSUME JobsInv, [JobsNext]_jobsVars PROVE JobsInv'
    OBVIOUS
  <2>1. asks \in Seq(Asks) /\ spawned \in Seq(Spawned)
    BY DEF JobsInv, AsksRight, AllRight, ChildrenRight
  <2>2. DOMAIN asks = 1 .. Len(asks) /\ DOMAIN spawned = 1 .. Len(spawned)
    BY <2>1
  <2>3. CASE UNCHANGED jobsVars
    BY <2>3 DEF jobsVars, JobsInv, AsksRight, ChildrenRight, SlotRight, ConsentRight
  <2>4. CASE JobsNext
    BY <2>2, <2>4, AsksKeep, StartBenchKeeps, StartEvolveKeeps, StartKeeps, StopKeeps, UserKeeps,
       ChildStepKeeps DEF JobsNext
  <2> QED
    BY <2>3, <2>4
<1> QED
  BY <1>1, <1>2, PTL DEF JobsSpec

\* One bench or evolve lives at a time, and no evolve runs tasks the user did
\* not accept, for every number of starts and versions (server/index.ts:65-104,
\* 245-297).
THEOREM OneJobAndConsent == JobsSpec => []JobsSafe
<1>1. JobsInv => JobsSafe
  <2> SUFFICES ASSUME JobsInv PROVE JobsSafe
    OBVIOUS
  <2>1. asks \in Seq(Asks) /\ spawned \in Seq(Spawned)
    BY DEF JobsInv, AsksRight, AllRight, ChildrenRight
  <2>2. DOMAIN asks = 1 .. Len(asks) /\ DOMAIN spawned = 1 .. Len(spawned) /\ Len(spawned) \in Nat
    BY <2>1
  <2>3. JobsTypeOK
    <3>1. /\ job \in {0} \cup DOMAIN spawned /\ lastEvolve \in {0} \cup DOMAIN spawned
          /\ stopping \in BOOLEAN
      BY <2>2 DEF JobsInv, SlotRight
    <3>2. head \in Versions /\ consent \in {0} \cup Versions
      BY DEF JobsInv, ConsentRight
    <3>3. ASSUME NEW a \in DOMAIN asks
          PROVE  asks[a].status \in {0, 201, 409, 502} /\ asks[a].child \in {0} \cup DOMAIN spawned
      <4>1. asks[a] \in Asks
        BY <2>1, <2>2
      <4>2. asks[a].status \in {0, 201, 409, 502} /\ asks[a].child \in Nat
        BY <4>1 DEF Asks, Statuses
      <4>3. asks[a].child <= Len(spawned)
        BY <2>2 DEF JobsInv, AsksRight, AllRight, AskRight
      <4> QED
        BY <2>2, <4>2, <4>3
    <3> QED
      BY <3>1, <3>2, <3>3 DEF JobsTypeOK
  <2>4. OneJob
    <3> DEFINE alive == {c \in DOMAIN spawned : spawned[c].proc # "dead"}
    <3>1. alive \subseteq {job}
      BY <2>2 DEF JobsInv, ChildrenRight, ChildRight
    <3>2. IsFiniteSet({job}) /\ Cardinality({job}) = 1
      BY FS_Singleton
    <3>3. Cardinality(alive) <= Cardinality({job})
      BY <3>1, <3>2, FS_Subset
    <3> QED
      BY <3>2, <3>3 DEF OneJob
  <2>5. AcceptedOnly
    BY <2>2 DEF JobsInv, ChildrenRight, ChildRight, AcceptedOnly
  <2> QED
    BY <2>3, <2>4, <2>5 DEF JobsSafe
<1> QED
  BY <1>1, JobsInvariant, PTL

------------------------------------------------------------------------------
\* The notes file.


Lines    == Writers \cup {Junk}
WriterAt == {"running", "noting", "looked", "appended", "untold", "told", "done", "killed"}
RemoverAt == {"idle", "read", "removed", "failed"}

NotesTyped ==
  /\ lines \in Seq(Lines) /\ ended \in BOOLEAN
  /\ writer \in [Writers -> WriterAt] /\ sawEnded \in [Writers -> BOOLEAN]
  /\ remover \in [Removers -> RemoverAt]
  /\ kept \in [Removers -> Seq(Lines)] /\ keptEnded \in [Removers -> BOOLEAN]

\* What has no newline ends in a part of a line.
TornAtEnd(ls, e) == ~e => Len(ls) \in 1 .. Len(ls) /\ ls[Len(ls)] = Junk
TornRight ==
  /\ TornAtEnd(lines, ended)
  /\ \A d \in Reading : TornAtEnd(kept[d], keptEnded[d])

\* A note that is owed is in the file, and in what each removal will write.
Holds(ls, n) == \E i \in 1 .. Len(ls) : ls[i] = n
Owed == {w \in Writers : writer[w] \in {"appended", "told"} /\ w \notin asked \cup raced}
OwedKept == \A w \in Owed : Holds(lines, w) /\ \A d \in Reading : Holds(kept[d], w)

NotesInv == NotesTyped /\ TornRight /\ OwedKept

\* One line more.
LEMMA LineMore ==
  ASSUME NEW ls \in Seq(Lines), NEW l \in Lines
  PROVE  /\ Append(ls, l) \in Seq(Lines) /\ Holds(Append(ls, l), l)
         /\ \A n : Holds(ls, n) => Holds(Append(ls, l), n)
         /\ Len(Append(ls, l)) \in 1 .. Len(Append(ls, l)) /\ Append(ls, l)[Len(Append(ls, l))] = l
<1> DEFINE m == Append(ls, l)
<1>1. /\ m \in Seq(Lines) /\ Len(m) = Len(ls) + 1 /\ Len(ls) \in Nat /\ m[Len(ls) + 1] = l
      /\ \A i \in 1 .. Len(ls) : m[i] = ls[i]
  OBVIOUS
<1> HIDE DEF m
<1>2. Len(m) \in 1 .. Len(m) /\ m[Len(m)] = l
  BY <1>1
<1>3. Holds(m, l)
  BY <1>2 DEF Holds
<1>4. ASSUME NEW n, Holds(ls, n) PROVE Holds(m, n)
  <2>1. PICK i \in 1 .. Len(ls) : ls[i] = n
    BY <1>4 DEF Holds
  <2>2. i \in 1 .. Len(m) /\ m[i] = n
    BY <1>1, <2>1
  <2> QED
    BY <2>2 DEF Holds
<1> QED
  BY <1>1, <1>2, <1>3, <1>4 DEF m

\* A line onto the file as it is: onto a torn end it is lost, and nothing else is.
LEMMA LineGlued ==
  ASSUME NotesTyped, TornRight, NEW l \in Lines
  PROVE  /\ Appended(l) \in Seq(Lines)
         /\ \A n \in Writers : Holds(lines, n) => Holds(Appended(l), n)
         /\ Len(Appended(l)) \in 1 .. Len(Appended(l)) /\ Appended(l)[Len(Appended(l))] \in {l, Junk}
         /\ ended => Holds(Appended(l), l)
<1>1. lines \in Seq(Lines) /\ ended \in BOOLEAN /\ Junk \in Lines /\ Len(lines) \in Nat
  BY DEF NotesTyped, Lines
<1>2. CASE ended
  <2>1. Appended(l) = Append(lines, l)
    BY <1>2 DEF Appended
  <2> QED
    BY <1>1, <2>1, LineMore
<1>3. CASE ~ended
  <2> DEFINE m == [lines EXCEPT ![Len(lines)] = Junk]
  <2>1. Appended(l) = m
    BY <1>3 DEF Appended
  <2>2. Len(lines) \in 1 .. Len(lines) /\ lines[Len(lines)] = Junk
    BY <1>3 DEF TornRight, TornAtEnd
  <2>3. m = lines
    BY <1>1, <2>2
  <2> HIDE DEF m
  <2> QED
    BY <1>1, <1>3, <2>1, <2>2, <2>3
<1> QED
  BY <1>1, <1>2, <1>3

\* A run's steps that leave the file.
LEMMA WriterSteps ==
  ASSUME NotesInv, NEW w \in Writers, RunEnds(w) \/ NoNote(w) \/ LookAtEnd(w) \/ TellNote(w)
  PROVE  NotesInv'
<1>1. UNCHANGED <<lines, ended, remover, kept, keptEnded, asked, raced>>
  BY DEF RunEnds, NoNote, LookAtEnd, TellNote
<1>2. PICK place \in WriterAt : /\ writer' = [writer EXCEPT ![w] = place]
                                /\ place \in {"appended", "told"} => writer[w] = "appended"
  <2>1. \A s \in {"noting", "done", "untold", "looked", "told"} : s \in WriterAt
    BY DEF WriterAt
  <2>2. CASE RunEnds(w)
    BY <2>1, <2>2 DEF RunEnds
  <2>3. CASE NoNote(w)
    BY <2>1, <2>3 DEF NoNote
  <2>4. CASE LookAtEnd(w)
    BY <2>1, <2>4 DEF LookAtEnd
  <2>5. CASE TellNote(w)
    <3>1. writer \in [Writers -> WriterAt]
      BY DEF NotesInv, NotesTyped
    <3> QED
      BY <2>1, <2>5, <3>1 DEF TellNote
  <2> QED
    BY <2>2, <2>3, <2>4, <2>5
<1>3. sawEnded' \in [Writers -> BOOLEAN]
  BY DEF NotesInv, NotesTyped, RunEnds, NoNote, LookAtEnd, TellNote
<1>4. NotesTyped'
  BY <1>1, <1>2, <1>3 DEF NotesInv, NotesTyped
<1>5. Owed' \subseteq Owed /\ Reading' = Reading
  BY <1>1, <1>2 DEF NotesInv, NotesTyped, Owed, Reading
<1>6. TornRight' /\ OwedKept'
  BY <1>1, <1>5 DEF NotesInv, TornRight, OwedKept
<1> QED
  BY <1>4, <1>6 DEF NotesInv

LEMMA AppendKeeps ==
  ASSUME NotesInv, NEW w \in Writers, AppendNote(w)
  PROVE  NotesInv'
<1>1. /\ writer' = [writer EXCEPT ![w] = "appended"] /\ ended' = TRUE
      /\ UNCHANGED <<sawEnded, remover, kept, keptEnded, asked>>
      /\ lines' = IF sawEnded[w] THEN Appended(w) ELSE Append(lines, w)
      /\ raced' = IF Reading # {} \/ (sawEnded[w] /\ ~ended) THEN raced \cup {w} ELSE raced
  BY DEF AppendNote
<1>2. w \in Lines /\ lines \in Seq(Lines) /\ sawEnded[w] \in BOOLEAN /\ NotesTyped /\ TornRight
  BY DEF NotesInv, NotesTyped, Lines
<1>3. /\ lines' \in Seq(Lines)
      /\ \A n \in Writers : Holds(lines, n) => Holds(lines', n)
      /\ ~sawEnded[w] \/ ended => Holds(lines', w)
  <2>1. CASE sawEnded[w]
    BY <1>1, <1>2, <2>1, LineGlued
  <2>2. CASE ~sawEnded[w]
    BY <1>1, <1>2, <2>2, LineMore
  <2> QED
    BY <2>1, <2>2
<1>4. NotesTyped'
  <2>1. "appended" \in WriterAt
    BY DEF WriterAt
  <2> QED
    BY <1>1, <1>2, <1>3, <2>1 DEF NotesTyped
<1>5. Reading' = Reading
  BY <1>1 DEF Reading
<1>6. TornRight'
  BY <1>1, <1>2, <1>5 DEF TornRight, TornAtEnd
<1>7. ASSUME NEW v \in Owed' PROVE Holds(lines', v) /\ \A d \in Reading : Holds(kept[d], v)
  <2>1. v \in Writers /\ v \notin asked \cup raced'
    BY <1>1, <1>7 DEF Owed
  <2>2. CASE v = w
    BY <1>1, <1>3, <2>1, <2>2
  <2>3. CASE v # w
    <3>1. v \in Owed
      BY <1>1, <1>2, <1>7, <2>1, <2>3 DEF Owed, NotesTyped
    <3> QED
      BY <1>3, <2>1, <3>1 DEF NotesInv, OwedKept
  <2> QED
    BY <2>2, <2>3
<1>8. OwedKept'
  BY <1>1, <1>5, <1>7 DEF OwedKept
<1> QED
  BY <1>4, <1>6, <1>8 DEF NotesInv

LEMMA KillKeeps ==
  ASSUME NotesInv, NEW w \in Writers, KillRun(w)
  PROVE  NotesInv'
<1>1. /\ writer' = [writer EXCEPT ![w] = "killed"]
      /\ UNCHANGED <<sawEnded, remover, kept, keptEnded, asked, raced>>
      /\ \/ UNCHANGED <<lines, ended>>
         \/ ended' = FALSE /\ lines' = IF sawEnded[w] THEN Appended(Junk) ELSE Append(lines, Junk)
  BY DEF KillRun
<1>2. Junk \in Lines /\ lines \in Seq(Lines) /\ sawEnded[w] \in BOOLEAN /\ NotesTyped /\ TornRight
  BY DEF NotesInv, NotesTyped, Lines
<1>3. /\ lines' \in Seq(Lines) /\ ended' \in BOOLEAN /\ TornAtEnd(lines', ended')
      /\ \A n \in Writers : Holds(lines, n) => Holds(lines', n)
  <2>1. CASE UNCHANGED <<lines, ended>>
    BY <1>2, <2>1 DEF NotesTyped, TornRight
  <2>2. CASE ended' = FALSE /\ sawEnded[w] /\ lines' = Appended(Junk)
    BY <1>2, <2>2, LineGlued DEF TornAtEnd
  <2>3. CASE ended' = FALSE /\ lines' = Append(lines, Junk)
    BY <1>2, <2>3, LineMore DEF TornAtEnd
  <2> QED
    BY <1>1, <2>1, <2>2, <2>3
<1>4. NotesTyped'
  <2>1. "killed" \in WriterAt
    BY DEF WriterAt
  <2> QED
    BY <1>1, <1>2, <1>3, <2>1 DEF NotesTyped
<1>5. Reading' = Reading /\ Owed' \subseteq Owed
  BY <1>1, <1>2 DEF Reading, Owed, NotesTyped
<1>6. TornRight'
  BY <1>1, <1>2, <1>3, <1>5 DEF TornRight
<1>7. OwedKept'
  <2>1. Owed \subseteq Writers
    BY DEF Owed
  <2> QED
    BY <1>1, <1>3, <1>5, <2>1 DEF NotesInv, OwedKept
<1> QED
  BY <1>4, <1>6, <1>7 DEF NotesInv

\* What a removal keeps has every note but those it was asked to remove, and a
\* torn end as it was.
LEMMA ReadKeepsNotes ==
  ASSUME NotesInv, NEW d \in Removers, ReadToRemove(d)
  PROVE  NotesInv'
<1>1. PICK gone \in SUBSET Writers :
        LET stays == Pick(lines, {i \in 1 .. Len(lines) : lines[i] \notin gone})
        IN  /\ remover[d] = "idle" /\ gone # {} /\ asked' = asked \cup gone
            /\ IF stays = lines
               THEN UNCHANGED <<remover, kept, keptEnded>>
               ELSE /\ remover' = [remover EXCEPT ![d] = "read"]
                    /\ kept' = [kept EXCEPT ![d] = stays]
                    /\ keptEnded' = [keptEnded EXCEPT ![d] = ended]
            /\ UNCHANGED <<lines, ended, writer, sawEnded, raced>>
  BY DEF ReadToRemove
<1> DEFINE I     == {i \in 1 .. Len(lines) : lines[i] \notin gone}
           stays == Pick(lines, I)
<1>2. lines \in Seq(Lines) /\ Len(lines) \in Nat /\ NotesTyped
  BY DEF NotesInv, NotesTyped
<1>3. Filter(stays, lines, I, Len(lines), Lines)
  <2>1. I \subseteq 1 .. Len(lines)
    OBVIOUS
  <2> HIDE DEF I
  <2> QED
    BY <1>2, <2>1, PickFilters
<1>4. /\ asked' = asked \cup gone /\ UNCHANGED <<lines, ended, writer, sawEnded, raced>>
      /\ \/ UNCHANGED <<remover, kept, keptEnded>>
         \/ /\ remover' = [remover EXCEPT ![d] = "read"]
            /\ kept' = [kept EXCEPT ![d] = stays]
            /\ keptEnded' = [keptEnded EXCEPT ![d] = ended]
  BY <1>1
<1> HIDE DEF stays
<1>5. stays \in Seq(Lines) /\ \A n \in Writers : Holds(lines, n) /\ n \notin gone => Holds(stays, n)
  <2>1. stays \in Seq(Lines)
    BY <1>3 DEF Filter
  <2>2. ASSUME NEW n \in Writers, Holds(lines, n), n \notin gone PROVE Holds(stays, n)
    <3>1. PICK i \in 1 .. Len(lines) : lines[i] = n
      BY <2>2 DEF Holds
    <3>2. i \in I /\ i <= Len(lines)
      BY <1>2, <2>2, <3>1
    <3>3. PICK a \in 1 .. Len(stays) : stays[a] = lines[i]
      BY <1>3, <3>2 DEF Filter
    <3> QED
      BY <3>1, <3>3 DEF Holds
  <2> QED
    BY <2>1, <2>2
<1>6. TornAtEnd(stays, ended)
  <2> SUFFICES ASSUME ~ended PROVE Len(stays) \in 1 .. Len(stays) /\ stays[Len(stays)] = Junk
    BY DEF TornAtEnd
  <2>1. Len(lines) \in 1 .. Len(lines) /\ lines[Len(lines)] = Junk
    BY DEF NotesInv, TornRight, TornAtEnd
  <2>2. Len(lines) \in I
    BY <2>1, NotesAssumption
  <2> QED
    BY <1>3, <2>1, <2>2 DEF Filter
<1>7. Owed' = Owed \ gone
  BY <1>4 DEF Owed
<1>8. CASE UNCHANGED <<remover, kept, keptEnded>>
  <2>1. Reading' = Reading
    BY <1>8 DEF Reading
  <2>2. NotesTyped' /\ TornRight' /\ OwedKept'
    BY <1>4, <1>7, <1>8, <2>1 DEF NotesInv, NotesTyped, TornRight, OwedKept
  <2> QED
    BY <2>2 DEF NotesInv
<1>9. CASE /\ remover' = [remover EXCEPT ![d] = "read"]
           /\ kept' = [kept EXCEPT ![d] = stays]
           /\ keptEnded' = [keptEnded EXCEPT ![d] = ended]
  <2>1. "read" \in RemoverAt
    BY DEF RemoverAt
  <2>2. NotesTyped'
    BY <1>2, <1>4, <1>5, <1>9, <2>1 DEF NotesTyped
  <2>3. \A e \in Reading' : (e = d /\ kept'[e] = stays /\ keptEnded'[e] = ended)
                            \/ (e \in Reading /\ kept'[e] = kept[e] /\ keptEnded'[e] = keptEnded[e])
    BY <1>2, <1>9 DEF Reading, NotesTyped
  <2>4. TornRight'
    BY <1>4, <1>6, <2>3 DEF NotesInv, TornRight
  <2>5. ASSUME NEW w \in Owed' PROVE Holds(lines, w) /\ \A e \in Reading' : Holds(kept'[e], w)
    <3>1. w \in Owed /\ w \in Writers /\ w \notin gone
      BY <1>7 DEF Owed
    <3>2. Holds(lines, w) /\ \A e \in Reading : Holds(kept[e], w)
      BY <3>1 DEF NotesInv, OwedKept
    <3>3. Holds(stays, w)
      BY <1>5, <3>1, <3>2
    <3> QED
      BY <2>3, <3>2, <3>3
  <2>6. OwedKept'
    BY <1>4, <2>5 DEF OwedKept
  <2> QED
    BY <2>2, <2>4, <2>6 DEF NotesInv
<1> QED
  BY <1>4, <1>8, <1>9

LEMMA RemovalEnds ==
  ASSUME NotesInv, NEW d \in Removers, RenameOver(d) \/ GiveUp(d)
  PROVE  NotesInv'
<1>1. /\ d \in Reading /\ UNCHANGED <<writer, sawEnded, kept, keptEnded, asked, raced>>
      /\ \/ lines' = kept[d] /\ ended' = keptEnded[d]
         \/ UNCHANGED <<lines, ended>>
  BY DEF RenameOver, GiveUp, Reading
<1>2. PICK place \in {"removed", "failed"} : remover' = [remover EXCEPT ![d] = place]
  BY DEF RenameOver, GiveUp
<1>3. NotesTyped
  BY DEF NotesInv
<1>4. Reading' \subseteq Reading /\ Owed' = Owed
  BY <1>1, <1>2, <1>3 DEF Reading, Owed, NotesTyped
<1>5. NotesTyped'
  <2>1. place \in RemoverAt
    BY DEF RemoverAt
  <2> QED
    BY <1>1, <1>2, <1>3, <2>1 DEF NotesTyped
<1>6. TornRight'
  BY <1>1, <1>4 DEF NotesInv, TornRight
<1>7. OwedKept'
  BY <1>1, <1>4 DEF NotesInv, OwedKept
<1> QED
  BY <1>5, <1>6, <1>7 DEF NotesInv

\* What a file holds of the notes that are owed, whatever runs append to it, are
\* killed, or remove from it (notes.ts:40-63, notes-run.ts:46-73).
THEOREM NotesInvariant == NotesSpec => []NotesInv
<1>1. NotesInit => NotesInv
  <2> SUFFICES ASSUME NotesInit PROVE NotesInv
    OBVIOUS
  <2>1. <<>> \in Seq(Lines) /\ "running" \in WriterAt /\ "idle" \in RemoverAt
    BY DEF WriterAt, RemoverAt
  <2>2. NotesTyped
    BY <2>1 DEF NotesInit, NotesTyped
  <2>3. Reading = {} /\ Owed = {}
    BY DEF NotesInit, Reading, Owed
  <2>4. TornRight /\ OwedKept
    BY <2>3 DEF NotesInit, TornRight, TornAtEnd, OwedKept
  <2> QED
    BY <2>2, <2>4 DEF NotesInv
<1>2. NotesInv /\ [NotesNext]_notesVars => NotesInv'
  <2> SUFFICES ASSUME NotesInv, [NotesNext]_notesVars PROVE NotesInv'
    OBVIOUS
  <2>1. CASE UNCHANGED notesVars
    BY <2>1 DEF notesVars, NotesInv, NotesTyped, TornRight, OwedKept, Owed, Reading
  <2>2. CASE NotesNext
    BY <2>2, WriterSteps, AppendKeeps, KillKeeps, ReadKeepsNotes, RemovalEnds DEF NotesNext
  <2> QED
    BY <2>1, <2>2
<1> QED
  BY <1>1, <1>2, PTL DEF NotesSpec

\* A note the run told of is in the file until somebody asks for its removal, for
\* any number of runs and removals (notes.ts:40-63, notes-run.ts:46-73).
THEOREM NotesStay == NotesSpec => []NotesKept
<1>1. NotesInv => NotesKept
  <2> SUFFICES ASSUME NotesInv PROVE NotesKept
    OBVIOUS
  <2>1. NotesTypeOK
    BY DEF NotesInv, NotesTyped, NotesTypeOK, Lines, WriterAt, RemoverAt
  <2> QED
    BY <2>1 DEF NotesInv, OwedKept, Owed, Holds, InFile, NotesKept
<1> QED
  BY <1>1, NotesInvariant, PTL

------------------------------------------------------------------------------
\* The proxies.

\* A child as serve and the system keep it.
ProcStates == {"booting", "up", "stopping", "dead"}
FirstLines == {"nothing", "ready", "other"}
Pending    == {0, 1, 2}
Ends       == {"", "crashed", "killed", "unready", "forced", "graceful"}
PlacesOf   == {"starting", "listed", "gone"}
Phases     == {"wait", "settle", "run", "failed"}
Childs ==
  [ name : Names, proc : ProcStates, said : FirstLines, sigints : Pending, stuck : BOOLEAN, ended : Ends,
    place : PlacesOf, phase : Phases, exit : BOOLEAN, stopping : BOOLEAN, timer : BOOLEAN ]
Times == {"up", "closing", "dead"}

\* It holds a slot and its name.
HoldsSlot(p) == p.place = "starting" \/ (p.place = "listed" /\ ~p.exit)

\* An exit was seen of a dead process only.  Until serve is dead, one whose start
\* did not fail gets one signal at most, and stops by that one alone.
ProxyRight(p, now) ==
  /\ p.exit \/ p.place = "gone" => p.proc = "dead"
  /\ p.place = "gone" => p.sigints = 0
  /\ p.place = "starting" => ~p.stopping
  /\ p.place = "listed" => p.phase = "run"
  /\ p.phase = "failed" /\ now = "up" => p.sigints \in {0, 1}
  /\ p.phase # "failed" /\ now # "dead" =>
       /\ p.ended # "forced" /\ p.sigints \in {0, 1}
       /\ p.sigints = 1 => p.proc # "stopping"
       /\ now = "up" /\ ~p.stopping => p.sigints = 0 /\ p.proc # "stopping"

HoldersOf(cs) == {c \in 1 .. Len(cs) : HoldsSlot(cs[c])}

SlotsRight(cs, most) ==
  /\ IsFiniteSet(HoldersOf(cs)) /\ Cardinality(HoldersOf(cs)) <= most
  /\ \A c, d \in HoldersOf(cs) : cs[c].name = cs[d].name => c = d

ProxiesInv ==
  /\ MAX \in Nat /\ serve \in Times
  /\ children \in Seq(Childs)
  /\ \A c \in 1 .. Len(children) : ProxyRight(children[c], serve)
  /\ SlotsRight(children, MAX)

------------------------------------------------------------------------------
\* Slots and names stay bounded while nobody takes one.
LEMMA HoldersFewer ==
  ASSUME NEW cs \in Seq(Childs), NEW ds \in Seq(Childs), NEW most \in Nat, SlotsRight(cs, most),
         Len(ds) = Len(cs),
         \A c \in 1 .. Len(cs) : ds[c].name = cs[c].name /\ (HoldsSlot(ds[c]) => HoldsSlot(cs[c]))
  PROVE  SlotsRight(ds, most)
<1>1. HoldersOf(ds) \subseteq HoldersOf(cs)
  BY DEF HoldersOf
<1>2. IsFiniteSet(HoldersOf(cs)) /\ Cardinality(HoldersOf(cs)) <= most
  BY DEF SlotsRight
<1>3. /\ IsFiniteSet(HoldersOf(ds)) /\ Cardinality(HoldersOf(ds)) <= Cardinality(HoldersOf(cs))
      /\ Cardinality(HoldersOf(ds)) \in Nat /\ Cardinality(HoldersOf(cs)) \in Nat
  BY <1>1, <1>2, FS_Subset, FS_CardinalityType
<1>4. Cardinality(HoldersOf(ds)) <= most
  BY <1>2, <1>3
<1>5. ASSUME NEW c \in HoldersOf(ds), NEW d \in HoldersOf(ds), ds[c].name = ds[d].name PROVE c = d
  <2>1. c \in 1 .. Len(cs) /\ d \in 1 .. Len(cs)
    BY DEF HoldersOf
  <2>2. cs[c].name = cs[d].name
    BY <1>5, <2>1
  <2> QED
    BY <1>1, <2>2 DEF SlotsRight
<1> QED
  BY <1>3, <1>4, <1>5 DEF SlotsRight

\* One child changes, and takes no slot.
LEMMA OneChanges ==
  ASSUME ProxiesInv, NEW c \in Ids, NEW p \in Childs, ProxyRight(p, serve), p.name = children[c].name,
         HoldsSlot(p) => HoldsSlot(children[c]), Becomes(c, p)
  PROVE  ProxiesInv'
<1> DEFINE next == [children EXCEPT ![c] = p]
<1>1. children \in Seq(Childs) /\ c \in 1 .. Len(children) /\ MAX \in Nat /\ SlotsRight(children, MAX)
  BY DEF ProxiesInv, Ids
<1>2. /\ next \in Seq(Childs) /\ Len(next) = Len(children) /\ next[c] = p
      /\ \A d \in 1 .. Len(children) : d # c => next[d] = children[d]
  BY <1>1
<1>3. children' = next /\ MAX' = MAX /\ serve' = serve
  BY DEF Becomes
<1> HIDE DEF next
<1>4. ASSUME NEW d \in 1 .. Len(next)
      PROVE  /\ ProxyRight(next[d], serve) /\ next[d].name = children[d].name
             /\ HoldsSlot(next[d]) => HoldsSlot(children[d])
  <2>1. CASE d = c
    BY <1>2, <2>1
  <2>2. CASE d # c
    <3>1. next[d] = children[d] /\ d \in 1 .. Len(children)
      BY <1>2, <2>2
    <3>2. ProxyRight(children[d], serve)
      BY <3>1 DEF ProxiesInv
    <3> QED
      BY <3>1, <3>2
  <2> QED
    BY <2>1, <2>2
<1>5. SlotsRight(next, MAX)
  BY <1>1, <1>2, <1>4, HoldersFewer
<1> QED
  BY <1>2, <1>3, <1>4, <1>5 DEF ProxiesInv

\* All children may change, and none takes a slot.
LEMMA AllChange ==
  ASSUME ProxiesInv, NEW cs, NEW now \in Times, DOMAIN cs = 1 .. Len(children),
         children' = cs, serve' = now, MAX' = MAX, cs = [c \in 1 .. Len(children) |-> cs[c]],
         \A c \in 1 .. Len(children) : /\ cs[c] \in Childs /\ ProxyRight(cs[c], now)
                                       /\ cs[c].name = children[c].name
                                       /\ HoldsSlot(cs[c]) => HoldsSlot(children[c])
  PROVE  ProxiesInv'
<1>1. children \in Seq(Childs) /\ MAX \in Nat /\ SlotsRight(children, MAX) /\ Len(children) \in Nat
  BY DEF ProxiesInv
<1>2. cs \in Seq(Childs) /\ Len(cs) = Len(children)
  BY <1>1
<1>3. SlotsRight(cs, MAX)
  BY <1>1, <1>2, HoldersFewer
<1> QED
  BY <1>1, <1>2, <1>3 DEF ProxiesInv

------------------------------------------------------------------------------
\* A start takes a slot and a name that are free.
LEMMA StartProxyKeeps ==
  ASSUME ProxiesInv, NEW n \in Names, StartProxy(n)
  PROVE  ProxiesInv'
<1> DEFINE k == Len(children)
           next == Append(children, Child(n))
<1>1. /\ children \in Seq(Childs) /\ MAX \in Nat /\ SlotsRight(children, MAX) /\ k \in Nat
      /\ serve = "up" /\ serve' = serve /\ MAX' = MAX /\ children' = next
  BY DEF ProxiesInv, StartProxy
<1>2. Child(n) \in Childs /\ ProxyRight(Child(n), serve) /\ Child(n).name = n /\ HoldsSlot(Child(n))
  <2>1. Child(n) \in Childs
    BY DEF Child, Childs, ProcStates, FirstLines, Pending, Ends, PlacesOf, Phases
  <2>2. ProxyRight(Child(n), serve)
    <3>1. /\ Child(n).exit = FALSE /\ Child(n).place = "starting" /\ Child(n).phase = "wait" /\ Child(n).sigints = 0
          /\ Child(n).stopping = FALSE /\ Child(n).proc = "booting" /\ Child(n).ended = ""
      BY DEF Child
    <3> QED
      BY <3>1 DEF ProxyRight
  <2> QED
    BY <2>1, <2>2 DEF Child, HoldsSlot
<1>3. /\ next \in Seq(Childs) /\ Len(next) = k + 1 /\ next[k + 1] = Child(n)
      /\ \A c \in 1 .. k : next[c] = children[c]
  BY <1>1, <1>2
<1>4. /\ HoldersOf(children) = starting \cup live /\ starting \cap live = {}
      /\ n \notin {children[c].name : c \in HoldersOf(children)}
  <2>1. DOMAIN children = 1 .. Len(children)
    BY <1>1
  <2>2. HoldersOf(children) = starting \cup live /\ starting \cap live = {}
    BY <2>1 DEF HoldersOf, HoldsSlot, starting, live, listed, Ids
  <2> QED
    BY <2>2 DEF StartProxy
<1>5. IsFiniteSet(HoldersOf(children)) /\ Cardinality(HoldersOf(children)) < MAX
  <2>1. IsFiniteSet(HoldersOf(children))
    BY <1>1 DEF SlotsRight
  <2>2. IsFiniteSet(starting) /\ IsFiniteSet(live)
    BY <1>4, <2>1, FS_Subset
  <2>3. Cardinality(HoldersOf(children)) = Cardinality(starting) + Cardinality(live) - Cardinality({})
    BY <1>4, <2>2, FS_Union
  <2>4. Cardinality({}) = 0 /\ Cardinality(starting) \in Nat /\ Cardinality(live) \in Nat
    BY <2>2, FS_EmptySet, FS_CardinalityType
  <2>5. Cardinality(live) + Cardinality(starting) < MAX
    BY DEF StartProxy
  <2> QED
    BY <2>1, <2>3, <2>4, <2>5
<1> HIDE DEF next, k
<1>6. HoldersOf(next) = HoldersOf(children) \cup {k + 1} /\ k + 1 \notin HoldersOf(children)
  <2>1. 1 .. Len(next) = 1 .. k \cup {k + 1}
    BY <1>1, <1>3
  <2>2. k + 1 \notin 1 .. k /\ Len(children) = k
    BY <1>1 DEF k
  <2> QED
    BY <1>2, <1>3, <2>1, <2>2 DEF HoldersOf
<1>7. IsFiniteSet(HoldersOf(next)) /\ Cardinality(HoldersOf(next)) <= MAX
  <2>1. /\ IsFiniteSet(HoldersOf(next)) /\ Cardinality(HoldersOf(next)) = Cardinality(HoldersOf(children)) + 1
        /\ Cardinality(HoldersOf(children)) \in Nat
    BY <1>5, <1>6, FS_AddElement, FS_CardinalityType
  <2> QED
    BY <1>1, <1>5, <2>1
<1>8. ASSUME NEW c \in HoldersOf(next), NEW d \in HoldersOf(next), next[c].name = next[d].name PROVE c = d
  <2>1. \A e \in HoldersOf(children) : e \in 1 .. k /\ next[e] = children[e] /\ children[e].name # n
    <3>1. HoldersOf(children) \subseteq 1 .. k
      BY DEF HoldersOf, k
    <3> QED
      BY <1>3, <1>4, <3>1
  <2>2. CASE c \in HoldersOf(children) /\ d \in HoldersOf(children)
    BY <1>1, <1>8, <2>1, <2>2 DEF SlotsRight
  <2>3. CASE c = k + 1 \/ d = k + 1
    BY <1>2, <1>3, <1>6, <1>8, <2>1, <2>3
  <2> QED
    BY <1>6, <2>2, <2>3
<1>9. SlotsRight(next, MAX)
  BY <1>7, <1>8 DEF SlotsRight
<1>10. ASSUME NEW c \in 1 .. Len(next) PROVE ProxyRight(next[c], serve)
  <2>1. c \in 1 .. k \/ c = k + 1
    BY <1>1, <1>3
  <2>2. ASSUME NEW d \in 1 .. k PROVE ProxyRight(children[d], serve)
    BY DEF ProxiesInv, k
  <2> QED
    BY <1>2, <1>3, <2>1, <2>2
<1> QED
  BY <1>1, <1>3, <1>9, <1>10 DEF ProxiesInv

------------------------------------------------------------------------------
\* The steps of one child: what they make of its record is right, and takes no slot.
StaysRight(p, q, now) == q \in Childs /\ ProxyRight(q, now) /\ q.name = p.name /\ (HoldsSlot(q) => HoldsSlot(p))

\* What the invariant says of one child.
LEMMA AtChild ==
  ASSUME ProxiesInv, NEW c \in Ids
  PROVE  children[c] \in Childs /\ ProxyRight(children[c], serve) /\ serve \in Times
BY DEF ProxiesInv, Ids

\* A step that makes of one child what stays right.
LEMMA StepKeeps ==
  ASSUME ProxiesInv, NEW c \in Ids, NEW q, StaysRight(children[c], q, serve), Becomes(c, q)
  PROVE  ProxiesInv'
BY OneChanges DEF StaysRight

\* A signal that is handled.
LEMMA OneLess ==
  ASSUME NEW p \in Childs, p.sigints > 0
  PROVE  /\ p.sigints - 1 \in Pending /\ p.sigints \in {1, 2} /\ p.sigints - 1 \in {0, 1}
         /\ p.sigints = 1 => p.sigints - 1 = 0
<1>1. p.sigints \in Pending
  BY DEF Childs
<1> QED
  BY <1>1 DEF Pending

\* The ready line.
LEMMA Settling ==
  ASSUME NEW p \in Childs, NEW now \in Times, ProxyRight(p, now), p.place = "starting",
         p.phase = "wait"
  PROVE  StaysRight(p, [p EXCEPT !.phase = "settle"], now)
<1> DEFINE q == [p EXCEPT !.phase = "settle"]
<1>1. "settle" \in Phases
  BY DEF Phases
<1>2. q \in Childs
  BY Zenon, <1>1 DEF Childs
<1>3. /\ q.phase = "settle" /\ q.name = p.name /\ q.proc = p.proc /\ q.sigints = p.sigints
      /\ q.ended = p.ended /\ q.place = p.place /\ q.exit = p.exit /\ q.stopping = p.stopping
  BY DEF Childs
<1> HIDE DEF q
<1>4. ProxyRight(q, now)
  BY <1>3 DEF ProxyRight
<1>5. StaysRight(p, q, now)
  BY <1>2, <1>3, <1>4 DEF StaysRight, HoldsSlot
<1> QED
  BY <1>5 DEF q

\* A line that fails the start, or none.
LEMMA Failing ==
  ASSUME NEW p \in Childs, NEW now \in Times, ProxyRight(p, now), p.place = "starting",
         p.phase = "wait"
  PROVE  StaysRight(p, [p EXCEPT !.phase = "failed"], now)
<1> DEFINE q == [p EXCEPT !.phase = "failed"]
<1>1. "failed" \in Phases
  BY DEF Phases
<1>2. q \in Childs
  BY Zenon, <1>1 DEF Childs
<1>3. /\ q.phase = "failed" /\ q.name = p.name /\ q.proc = p.proc /\ q.sigints = p.sigints
      /\ q.ended = p.ended /\ q.place = p.place /\ q.exit = p.exit /\ q.stopping = p.stopping
  BY DEF Childs
<1> HIDE DEF q
<1>4. ProxyRight(q, now)
  BY <1>3 DEF ProxyRight
<1>5. StaysRight(p, q, now)
  BY <1>2, <1>3, <1>4 DEF StaysRight, HoldsSlot
<1> QED
  BY <1>5 DEF q

\* A start that fails is stopped.
LEMMA FailingStopped ==
  ASSUME NEW p \in Childs, NEW now \in Times, ProxyRight(p, now), p.place = "starting",
         p.phase = "wait", now = "up"
  PROVE  StaysRight(p, [p EXCEPT !.phase = "failed", !.sigints = 1, !.timer = TRUE], now)
<1> DEFINE q == [p EXCEPT !.phase = "failed", !.sigints = 1, !.timer = TRUE]
<1>1. "failed" \in Phases /\ 1 \in Pending
  BY DEF Phases, Pending
<1>2. q \in Childs
  BY Zenon, <1>1 DEF Childs
<1>3. /\ q.phase = "failed" /\ q.sigints = 1 /\ q.name = p.name /\ q.proc = p.proc
      /\ q.ended = p.ended /\ q.place = p.place /\ q.exit = p.exit /\ q.stopping = p.stopping
  BY DEF Childs
<1> HIDE DEF q
<1>4. ProxyRight(q, now)
  BY <1>3 DEF ProxyRight
<1>5. StaysRight(p, q, now)
  BY <1>2, <1>3, <1>4 DEF StaysRight, HoldsSlot
<1> QED
  BY <1>5 DEF q

\* It is listed.
LEMMA Listing ==
  ASSUME NEW p \in Childs, NEW now \in Times, ProxyRight(p, now), p.place = "starting",
         p.phase = "settle", now = "up"
  PROVE  StaysRight(p, [p EXCEPT !.phase = "run", !.place = "listed"], now)
<1> DEFINE q == [p EXCEPT !.phase = "run", !.place = "listed"]
<1>1. "run" \in Phases /\ "listed" \in PlacesOf
  BY DEF Phases, PlacesOf
<1>2. q \in Childs
  BY Zenon, <1>1 DEF Childs
<1>3. /\ q.phase = "run" /\ q.place = "listed" /\ q.name = p.name /\ q.proc = p.proc
      /\ q.sigints = p.sigints /\ q.ended = p.ended /\ q.exit = p.exit
      /\ q.stopping = p.stopping
  BY DEF Childs
<1> HIDE DEF q
<1>4. ProxyRight(q, now)
  BY <1>3 DEF ProxyRight
<1>5. StaysRight(p, q, now)
  BY <1>2, <1>3, <1>4 DEF StaysRight, HoldsSlot
<1> QED
  BY <1>5 DEF q

\* Its end is awaited.
LEMMA NotListing ==
  ASSUME NEW p \in Childs, NEW now \in Times, ProxyRight(p, now), p.place = "starting",
         p.phase = "settle"
  PROVE  StaysRight(p, [p EXCEPT !.phase = "run"], now)
<1> DEFINE q == [p EXCEPT !.phase = "run"]
<1>1. "run" \in Phases
  BY DEF Phases
<1>2. q \in Childs
  BY Zenon, <1>1 DEF Childs
<1>3. /\ q.phase = "run" /\ q.name = p.name /\ q.proc = p.proc /\ q.sigints = p.sigints
      /\ q.ended = p.ended /\ q.place = p.place /\ q.exit = p.exit /\ q.stopping = p.stopping
  BY DEF Childs
<1> HIDE DEF q
<1>4. ProxyRight(q, now)
  BY <1>3 DEF ProxyRight
<1>5. StaysRight(p, q, now)
  BY <1>2, <1>3, <1>4 DEF StaysRight, HoldsSlot
<1> QED
  BY <1>5 DEF q

\* Its exit is seen.
LEMMA Exiting ==
  ASSUME NEW p \in Childs, NEW now \in Times, ProxyRight(p, now), p.proc = "dead"
  PROVE  StaysRight(p, [p EXCEPT !.exit = TRUE, !.timer = FALSE], now)
<1> DEFINE q == [p EXCEPT !.exit = TRUE, !.timer = FALSE]
<1>1. q \in Childs
  BY Zenon DEF Childs
<1>2. /\ q.exit = TRUE /\ q.name = p.name /\ q.proc = p.proc /\ q.sigints = p.sigints
      /\ q.ended = p.ended /\ q.place = p.place /\ q.phase = p.phase /\ q.stopping = p.stopping
  BY DEF Childs
<1> HIDE DEF q
<1>3. ProxyRight(q, now)
  BY <1>2 DEF ProxyRight
<1>4. StaysRight(p, q, now)
  BY <1>1, <1>2, <1>3 DEF StaysRight, HoldsSlot
<1> QED
  BY <1>4 DEF q

\* A SIGKILL ends it.
LEMMA Killing ==
  ASSUME NEW p \in Childs, NEW now \in Times, ProxyRight(p, now), p.proc # "dead"
  PROVE  StaysRight(p, [p EXCEPT !.timer = FALSE, !.proc = "dead", !.ended = "killed"], now)
<1> DEFINE q == [p EXCEPT !.timer = FALSE, !.proc = "dead", !.ended = "killed"]
<1>1. "dead" \in ProcStates /\ "killed" \in Ends
  BY DEF ProcStates, Ends
<1>2. q \in Childs
  BY Zenon, <1>1 DEF Childs
<1>3. /\ q.proc = "dead" /\ q.ended = "killed" /\ q.name = p.name /\ q.sigints = p.sigints
      /\ q.place = p.place /\ q.phase = p.phase /\ q.exit = p.exit /\ q.stopping = p.stopping
  BY DEF Childs
<1> HIDE DEF q
<1>4. ProxyRight(q, now)
  BY <1>3 DEF ProxyRight
<1>5. StaysRight(p, q, now)
  BY <1>2, <1>3, <1>4 DEF StaysRight, HoldsSlot
<1> QED
  BY <1>5 DEF q

\* A SIGKILL finds it dead.
LEMMA KillingDead ==
  ASSUME NEW p \in Childs, NEW now \in Times, ProxyRight(p, now), p.proc = "dead"
  PROVE  StaysRight(p, [p EXCEPT !.timer = FALSE], now)
<1> DEFINE q == [p EXCEPT !.timer = FALSE]
<1>1. q \in Childs
  BY Zenon DEF Childs
<1>2. /\ q.name = p.name /\ q.proc = p.proc /\ q.sigints = p.sigints /\ q.ended = p.ended
      /\ q.place = p.place /\ q.phase = p.phase /\ q.exit = p.exit /\ q.stopping = p.stopping
  BY DEF Childs
<1> HIDE DEF q
<1>3. ProxyRight(q, now)
  BY <1>2 DEF ProxyRight
<1>4. StaysRight(p, q, now)
  BY <1>1, <1>2, <1>3 DEF StaysRight, HoldsSlot
<1> QED
  BY <1>4 DEF q

\* One that is listed is stopped, by Stop or by close().
LEMMA Halting ==
  ASSUME NEW p \in Childs, NEW now \in {"up", "closing"}, ProxyRight(p, "up"), p.place = "listed",
         ~p.exit, ~p.stopping
  PROVE  StaysRight(p, [p EXCEPT !.sigints = 1, !.timer = TRUE, !.stopping = TRUE], now)
<1> DEFINE q == [p EXCEPT !.sigints = 1, !.timer = TRUE, !.stopping = TRUE]
<1>1. 1 \in Pending
  BY DEF Pending
<1>2. q \in Childs
  BY Zenon, <1>1 DEF Childs
<1>3. /\ q.sigints = 1 /\ q.stopping = TRUE /\ q.name = p.name /\ q.proc = p.proc
      /\ q.ended = p.ended /\ q.place = p.place /\ q.phase = p.phase /\ q.exit = p.exit
  BY DEF Childs
<1> HIDE DEF q
<1>4. ProxyRight(q, now)
  BY <1>3 DEF ProxyRight
<1>5. StaysRight(p, q, now)
  BY <1>2, <1>3, <1>4 DEF StaysRight, HoldsSlot
<1> QED
  BY <1>5 DEF q

\* close() signals one that starts.
LEMMA ClosingStart ==
  ASSUME NEW p \in Childs, NEW now \in {"closing"}, ProxyRight(p, "up"), p.place = "starting"
  PROVE  StaysRight(p, [p EXCEPT !.sigints = p.sigints + 1, !.timer = TRUE], now)
<1> DEFINE q == [p EXCEPT !.sigints = p.sigints + 1, !.timer = TRUE]
<1>1. p.sigints + 1 \in Pending /\ (p.phase # "failed" => p.sigints = 0)
  BY DEF Pending, Childs, ProxyRight
<1>2. q \in Childs
  BY Zenon, <1>1 DEF Childs
<1>3. /\ q.sigints = p.sigints + 1 /\ q.name = p.name /\ q.proc = p.proc /\ q.ended = p.ended
      /\ q.place = p.place /\ q.phase = p.phase /\ q.exit = p.exit /\ q.stopping = p.stopping
  BY DEF Childs
<1> HIDE DEF q
<1>4. ProxyRight(q, now)
  BY <1>1, <1>3 DEF ProxyRight
<1>5. StaysRight(p, q, now)
  BY <1>2, <1>3, <1>4 DEF StaysRight, HoldsSlot
<1> QED
  BY <1>5 DEF q

\* serve dies, with its timers.
LEMMA LosingServe ==
  ASSUME NEW p \in Childs, NEW now \in {"dead"}, NEW before, ProxyRight(p, before)
  PROVE  StaysRight(p, [p EXCEPT !.timer = FALSE], now)
<1> DEFINE q == [p EXCEPT !.timer = FALSE]
<1>1. q \in Childs
  BY Zenon DEF Childs
<1>2. /\ q.name = p.name /\ q.proc = p.proc /\ q.sigints = p.sigints /\ q.ended = p.ended
      /\ q.place = p.place /\ q.phase = p.phase /\ q.exit = p.exit /\ q.stopping = p.stopping
  BY DEF Childs
<1> HIDE DEF q
<1>3. ProxyRight(q, now)
  BY <1>2 DEF ProxyRight
<1>4. StaysRight(p, q, now)
  BY <1>1, <1>2, <1>3 DEF StaysRight, HoldsSlot
<1> QED
  BY <1>4 DEF q

\* It listens, and says a first line.
LEMMA Booting ==
  ASSUME NEW p \in Childs, NEW now \in Times, ProxyRight(p, now), p.proc = "booting",
         NEW line \in FirstLines
  PROVE  StaysRight(p, [p EXCEPT !.proc = "up", !.said = line], now)
<1> DEFINE q == [p EXCEPT !.proc = "up", !.said = line]
<1>1. "up" \in ProcStates /\ line \in FirstLines
  BY DEF ProcStates, FirstLines
<1>2. q \in Childs
  BY Zenon, <1>1 DEF Childs
<1>3. /\ q.proc = "up" /\ q.said = line /\ q.name = p.name /\ q.sigints = p.sigints
      /\ q.ended = p.ended /\ q.place = p.place /\ q.phase = p.phase /\ q.exit = p.exit
      /\ q.stopping = p.stopping
  BY DEF Childs
<1> HIDE DEF q
<1>4. ProxyRight(q, now)
  BY <1>3 DEF ProxyRight
<1>5. StaysRight(p, q, now)
  BY <1>2, <1>3, <1>4 DEF StaysRight, HoldsSlot
<1> QED
  BY <1>5 DEF q

\* It crashes, or ends its graceful stop.
LEMMA Crashing ==
  ASSUME NEW p \in Childs, NEW now \in Times, ProxyRight(p, now), NEW how \in Ends, how # "forced"
  PROVE  StaysRight(p, [p EXCEPT !.proc = "dead", !.ended = how], now)
<1> DEFINE q == [p EXCEPT !.proc = "dead", !.ended = how]
<1>1. "dead" \in ProcStates /\ how \in Ends
  BY DEF ProcStates, Ends
<1>2. q \in Childs
  BY Zenon, <1>1 DEF Childs
<1>3. /\ q.proc = "dead" /\ q.ended = how /\ q.name = p.name /\ q.sigints = p.sigints
      /\ q.place = p.place /\ q.phase = p.phase /\ q.exit = p.exit /\ q.stopping = p.stopping
  BY DEF Childs
<1> HIDE DEF q
<1>4. ProxyRight(q, now)
  BY <1>3 DEF ProxyRight
<1>5. StaysRight(p, q, now)
  BY <1>2, <1>3, <1>4 DEF StaysRight, HoldsSlot
<1> QED
  BY <1>5 DEF q

\* It hangs.
LEMMA Sticking ==
  ASSUME NEW p \in Childs, NEW now \in Times, ProxyRight(p, now)
  PROVE  StaysRight(p, [p EXCEPT !.stuck = TRUE], now)
<1> DEFINE q == [p EXCEPT !.stuck = TRUE]
<1>1. q \in Childs
  BY Zenon DEF Childs
<1>2. /\ q.name = p.name /\ q.proc = p.proc /\ q.sigints = p.sigints /\ q.ended = p.ended
      /\ q.place = p.place /\ q.phase = p.phase /\ q.exit = p.exit /\ q.stopping = p.stopping
  BY DEF Childs
<1> HIDE DEF q
<1>3. ProxyRight(q, now)
  BY <1>2 DEF ProxyRight
<1>4. StaysRight(p, q, now)
  BY <1>1, <1>2, <1>3 DEF StaysRight, HoldsSlot
<1> QED
  BY <1>4 DEF q

\* A signal before its handlers are set.
LEMMA Unready ==
  ASSUME NEW p \in Childs, NEW now \in Times, ProxyRight(p, now), p.sigints > 0, p.proc = "booting"
  PROVE  StaysRight(p, [p EXCEPT !.sigints = p.sigints - 1, !.proc = "dead", !.ended = "unready"], now)
<1> DEFINE q == [p EXCEPT !.sigints = p.sigints - 1, !.proc = "dead", !.ended = "unready"]
<1>1. /\ p.sigints - 1 \in Pending /\ "dead" \in ProcStates /\ "unready" \in Ends
      /\ p.sigints \in {1, 2} /\ p.sigints - 1 \in {0, 1} /\ (p.sigints = 1 => p.sigints - 1 = 0)
  BY OneLess DEF Pending, ProcStates, Ends
<1>2. q \in Childs
  BY Zenon, <1>1 DEF Childs
<1>3. /\ q.sigints = p.sigints - 1 /\ q.proc = "dead" /\ q.ended = "unready" /\ q.name = p.name
      /\ q.place = p.place /\ q.phase = p.phase /\ q.exit = p.exit /\ q.stopping = p.stopping
  BY DEF Childs
<1> HIDE DEF q
<1>4. ProxyRight(q, now)
  BY <1>1, <1>3 DEF ProxyRight
<1>5. StaysRight(p, q, now)
  BY <1>2, <1>3, <1>4 DEF StaysRight, HoldsSlot
<1> QED
  BY <1>5 DEF q

\* A signal makes it stop.
LEMMA Stopping ==
  ASSUME NEW p \in Childs, NEW now \in Times, ProxyRight(p, now), p.sigints > 0, p.proc = "up"
  PROVE  StaysRight(p, [p EXCEPT !.sigints = p.sigints - 1, !.proc = "stopping"], now)
<1> DEFINE q == [p EXCEPT !.sigints = p.sigints - 1, !.proc = "stopping"]
<1>1. /\ p.sigints - 1 \in Pending /\ "stopping" \in ProcStates
      /\ p.sigints \in {1, 2} /\ p.sigints - 1 \in {0, 1} /\ (p.sigints = 1 => p.sigints - 1 = 0)
  BY OneLess DEF Pending, ProcStates
<1>2. q \in Childs
  BY Zenon, <1>1 DEF Childs
<1>3. /\ q.sigints = p.sigints - 1 /\ q.proc = "stopping" /\ q.name = p.name
      /\ q.ended = p.ended /\ q.place = p.place /\ q.phase = p.phase /\ q.exit = p.exit
      /\ q.stopping = p.stopping
  BY DEF Childs
<1> HIDE DEF q
<1>4. ProxyRight(q, now)
  BY <1>1, <1>3 DEF ProxyRight
<1>5. StaysRight(p, q, now)
  BY <1>2, <1>3, <1>4 DEF StaysRight, HoldsSlot
<1> QED
  BY <1>5 DEF q

\* A second signal forces it.
LEMMA Forcing ==
  ASSUME NEW p \in Childs, NEW now \in Times, ProxyRight(p, now), p.sigints > 0, p.proc = "stopping"
  PROVE  StaysRight(p, [p EXCEPT !.sigints = p.sigints - 1, !.proc = "dead", !.ended = "forced"], now)
<1> DEFINE q == [p EXCEPT !.sigints = p.sigints - 1, !.proc = "dead", !.ended = "forced"]
<1>1. /\ p.sigints - 1 \in Pending /\ "dead" \in ProcStates /\ "forced" \in Ends
      /\ p.sigints \in {1, 2} /\ p.sigints - 1 \in {0, 1} /\ (p.sigints = 1 => p.sigints - 1 = 0)
  BY OneLess DEF Pending, ProcStates, Ends
<1>2. q \in Childs
  BY Zenon, <1>1 DEF Childs
<1>3. /\ q.sigints = p.sigints - 1 /\ q.proc = "dead" /\ q.ended = "forced" /\ q.name = p.name
      /\ q.place = p.place /\ q.phase = p.phase /\ q.exit = p.exit /\ q.stopping = p.stopping
  BY DEF Childs
<1> HIDE DEF q
<1>4. ProxyRight(q, now)
  BY <1>1, <1>3 DEF ProxyRight
<1>5. StaysRight(p, q, now)
  BY <1>2, <1>3, <1>4 DEF StaysRight, HoldsSlot
<1> QED
  BY <1>5 DEF q

\* It sees that serve is gone.
LEMMA Orphaned ==
  ASSUME NEW p \in Childs, NEW now \in {"dead"}, ProxyRight(p, now), p.proc = "up"
  PROVE  StaysRight(p, [p EXCEPT !.proc = "stopping"], now)
<1> DEFINE q == [p EXCEPT !.proc = "stopping"]
<1>1. "stopping" \in ProcStates
  BY DEF ProcStates
<1>2. q \in Childs
  BY Zenon, <1>1 DEF Childs
<1>3. /\ q.proc = "stopping" /\ q.name = p.name /\ q.sigints = p.sigints /\ q.ended = p.ended
      /\ q.place = p.place /\ q.phase = p.phase /\ q.exit = p.exit /\ q.stopping = p.stopping
  BY DEF Childs
<1> HIDE DEF q
<1>4. ProxyRight(q, now)
  BY <1>3 DEF ProxyRight
<1>5. StaysRight(p, q, now)
  BY <1>2, <1>3, <1>4 DEF StaysRight, HoldsSlot
<1> QED
  BY <1>5 DEF q

\* The entry serve drops, of a process that is dead.
LEMMA Dropping ==
  ASSUME NEW p \in Childs, NEW now, ProxyRight(p, now), p.proc = "dead"
  PROVE  StaysRight(p, Gone(p), now)
<1> DEFINE q == Gone(p)
<1>1. /\ q.name = p.name /\ q.place = "gone" /\ q.proc = "dead" /\ q.ended = p.ended
      /\ q.phase = p.phase /\ q.sigints = 0 /\ q.stopping = FALSE
  BY DEF Gone, Child
<1>2. q \in Childs
  BY DEF Gone, Child, Childs, ProcStates, FirstLines, Pending, PlacesOf
<1> HIDE DEF q
<1>3. ProxyRight(q, now)
  BY <1>1 DEF ProxyRight
<1>4. StaysRight(p, q, now)
  BY <1>1, <1>2, <1>3 DEF StaysRight, HoldsSlot
<1> QED
  BY <1>4 DEF q

\* Two changes of a child, one after the other.
LEMMA StaysTwice ==
  ASSUME NEW p, NEW q, NEW r, NEW now, StaysRight(p, q, now), StaysRight(q, r, now)
  PROVE  StaysRight(p, r, now)
BY DEF StaysRight

\* A child that does not change.
LEMMA StaysSame ==
  ASSUME NEW p \in Childs, NEW now, ProxyRight(p, now)
  PROVE  StaysRight(p, p, now)
BY DEF StaysRight

\* halt: a second stop does nothing.
LEMMA HaltRight ==
  ASSUME NEW p \in Childs, NEW now \in {"up", "closing"}, ProxyRight(p, "up"), p.place = "listed",
         ~p.exit
  PROVE  StaysRight(p, halt(p), now)
<1>1. p.phase # "failed" /\ p.stopping \in BOOLEAN
  BY DEF ProxyRight, Childs
<1>2. ASSUME p.stopping PROVE StaysRight(p, halt(p), now)
  <2>1. halt(p) = p
    BY <1>2 DEF halt
  <2>2. ProxyRight(p, now)
    BY <1>1, <1>2 DEF ProxyRight
  <2> QED
    BY <2>1, <2>2, StaysSame
<1>3. ASSUME ~p.stopping PROVE StaysRight(p, halt(p), now)
  <2>1. p.sigints = 0
    BY <1>1, <1>3 DEF ProxyRight
  <2>2. kill(p) = [p EXCEPT !.sigints = 1, !.timer = TRUE]
    BY <2>1 DEF kill
  <2>3. halt(p) = [p EXCEPT !.sigints = 1, !.timer = TRUE, !.stopping = TRUE]
    BY <1>3, <2>2 DEF halt
  <2>4. StaysRight(p, [p EXCEPT !.sigints = 1, !.timer = TRUE, !.stopping = TRUE], now)
    BY <1>3, Halting
  <2> QED
    BY <2>3, <2>4
<1> QED
  BY <1>1, <1>2, <1>3

------------------------------------------------------------------------------
\* Events of serve's loop.

\* serve reads the ready line, or a line that fails the start.
LEMMA ReadFirstLineKeeps ==
  ASSUME ProxiesInv, NEW c \in Ids, ReadFirstLine(c)
  PROVE  ProxiesInv'
<1> DEFINE p == children[c]
           failed == [p EXCEPT !.phase = "failed"]
           q == IF p.said = "ready" THEN [p EXCEPT !.phase = "settle"]
                ELSE IF ~p.exit /\ serve = "up" THEN kill(failed) ELSE failed
<1>1. p \in Childs /\ ProxyRight(p, serve) /\ serve \in Times
  BY AtChild
<1>2. serve # "dead" /\ p.place = "starting" /\ p.phase = "wait" /\ Becomes(c, q)
  BY DEF ReadFirstLine
<1> HIDE DEF p
<1>3. StaysRight(p, [p EXCEPT !.phase = "settle"], serve)
  BY <1>1, <1>2, Settling
<1>4. StaysRight(p, failed, serve)
  BY <1>1, <1>2, Failing
<1>5. ASSUME serve = "up" PROVE StaysRight(p, kill(failed), serve)
  <2>1. p.sigints = 0
    BY <1>1, <1>2, <1>5 DEF ProxyRight
  <2>2. kill(failed) = [p EXCEPT !.phase = "failed", !.sigints = 1, !.timer = TRUE]
    <3>1. failed.sigints = 0
      BY <1>1, <2>1 DEF Childs
    <3> HIDE DEF failed
    <3>2. kill(failed) = [failed EXCEPT !.sigints = 1, !.timer = TRUE]
      BY <3>1 DEF kill
    <3> QED
      BY <3>2 DEF failed
  <2>3. StaysRight(p, [p EXCEPT !.phase = "failed", !.sigints = 1, !.timer = TRUE], serve)
    BY <1>1, <1>2, <1>5, FailingStopped
  <2> QED
    BY <2>2, <2>3
<1> HIDE DEF failed
<1>6. StaysRight(p, q, serve)
  BY <1>3, <1>4, <1>5
<1> QED
  BY <1>2, <1>6, StepKeeps DEF p

\* The settle time is over: the proxy is listed, unless serve closes.
LEMMA SettledKeeps ==
  ASSUME ProxiesInv, NEW c \in Ids, Settled(c)
  PROVE  ProxiesInv'
<1> DEFINE p == children[c]
           q == [p EXCEPT !.phase = "run", !.place = IF serve = "up" THEN "listed" ELSE @]
<1>1. p \in Childs /\ ProxyRight(p, serve) /\ serve \in Times
  BY AtChild
<1>2. p.place = "starting" /\ p.phase = "settle" /\ Becomes(c, q)
  BY DEF Settled
<1> HIDE DEF p
<1>3. ASSUME serve = "up" PROVE StaysRight(p, q, serve)
  <2>1. q = [p EXCEPT !.phase = "run", !.place = "listed"]
    BY <1>3
  <2>2. StaysRight(p, [p EXCEPT !.phase = "run", !.place = "listed"], serve)
    BY <1>1, <1>2, <1>3, Listing
  <2> QED
    BY <2>1, <2>2
<1>4. ASSUME serve # "up" PROVE StaysRight(p, q, serve)
  <2>1. q = [p EXCEPT !.phase = "run"]
    BY <1>1, <1>4 DEF Childs
  <2>2. StaysRight(p, [p EXCEPT !.phase = "run"], serve)
    BY <1>1, <1>2, NotListing
  <2> QED
    BY <2>1, <2>2
<1>5. StaysRight(p, q, serve)
  BY <1>3, <1>4
<1> QED
  BY <1>2, <1>5, StepKeeps DEF p

\* The exit of the child comes, and with it the slot is free.
LEMMA SeeExitKeeps ==
  ASSUME ProxiesInv, NEW c \in Ids, SeeExit(c)
  PROVE  ProxiesInv'
<1> DEFINE p == children[c]
           q == IF p.place = "listed" /\ p.stopping THEN Gone(p) ELSE [p EXCEPT !.exit = TRUE, !.timer = FALSE]
<1>1. p \in Childs /\ ProxyRight(p, serve) /\ serve \in Times
  BY AtChild
<1>2. p.proc = "dead" /\ Becomes(c, q)
  BY DEF SeeExit
<1> HIDE DEF p
<1>3. StaysRight(p, Gone(p), serve)
  BY <1>1, <1>2, Dropping
<1>4. StaysRight(p, [p EXCEPT !.exit = TRUE, !.timer = FALSE], serve)
  BY <1>1, <1>2, Exiting
<1>5. StaysRight(p, q, serve)
  BY <1>3, <1>4
<1> QED
  BY <1>2, <1>5, StepKeeps DEF p

\* The stderr of the child closes: a start that failed is over.
LEMMA SeeCloseKeeps ==
  ASSUME ProxiesInv, NEW c \in Ids, SeeClose(c)
  PROVE  ProxiesInv'
<1> DEFINE p == children[c]
           failed == [p EXCEPT !.phase = "failed"]
           q == Gone(IF p.phase = "wait" THEN failed ELSE p)
<1>1. p \in Childs /\ ProxyRight(p, serve) /\ serve \in Times
  BY AtChild
<1>2. p.exit /\ p.place = "starting" /\ Becomes(c, q)
  BY DEF SeeClose
<1> HIDE DEF p
<1>3. p.proc = "dead"
  BY <1>1, <1>2 DEF ProxyRight
<1>4. StaysRight(p, Gone(p), serve)
  BY <1>1, <1>3, Dropping
<1>5. ASSUME p.phase = "wait" PROVE StaysRight(p, Gone(failed), serve)
  <2>1. StaysRight(p, failed, serve)
    BY <1>1, <1>2, <1>5, Failing
  <2>2. failed.proc = "dead"
    BY <1>1, <1>3 DEF Childs
  <2> HIDE DEF failed
  <2>3. StaysRight(failed, Gone(failed), serve)
    BY <2>1, <2>2, Dropping DEF StaysRight
  <2> QED
    BY <2>1, <2>3, StaysTwice
<1> HIDE DEF failed
<1>6. StaysRight(p, q, serve)
  BY <1>4, <1>5
<1> QED
  BY <1>2, <1>6, StepKeeps DEF p

\* A stop that is asked for.
LEMMA StopProxyKeeps ==
  ASSUME ProxiesInv, NEW c \in Ids, StopProxy(c)
  PROVE  ProxiesInv'
<1> DEFINE p == children[c]
           q == IF p.exit THEN Gone(p) ELSE halt(p)
<1>1. p \in Childs /\ ProxyRight(p, serve)
  BY AtChild
<1>2. serve = "up" /\ p.place = "listed" /\ Becomes(c, q)
  BY DEF StopProxy
<1> HIDE DEF p
<1>3. ASSUME p.exit PROVE StaysRight(p, Gone(p), serve)
  <2>1. p.proc = "dead"
    BY <1>1, <1>3 DEF ProxyRight
  <2> QED
    BY <1>1, <2>1, Dropping
<1>4. ASSUME ~p.exit PROVE StaysRight(p, halt(p), serve)
  BY <1>1, <1>2, <1>4, HaltRight
<1>5. StaysRight(p, q, serve)
  BY <1>3, <1>4
<1> QED
  BY <1>2, <1>5, StepKeeps DEF p

\* The SIGKILL of a child that did not end in time.
LEMMA KillTimerKeeps ==
  ASSUME ProxiesInv, NEW c \in Ids, KillTimer(c)
  PROVE  ProxiesInv'
<1> DEFINE p == children[c]
           q == [p EXCEPT !.timer = FALSE, !.proc = "dead", !.ended = IF p.proc = "dead" THEN @ ELSE "killed"]
<1>1. p \in Childs /\ ProxyRight(p, serve) /\ serve \in Times
  BY AtChild
<1>2. Becomes(c, q)
  BY DEF KillTimer
<1> HIDE DEF p
<1>3. ASSUME p.proc = "dead" PROVE StaysRight(p, q, serve)
  <2>1. q = [p EXCEPT !.timer = FALSE]
    BY <1>1, <1>3 DEF Childs
  <2>2. StaysRight(p, [p EXCEPT !.timer = FALSE], serve)
    BY <1>1, <1>3, KillingDead
  <2> QED
    BY <2>1, <2>2
<1>4. ASSUME p.proc # "dead" PROVE StaysRight(p, q, serve)
  <2>1. q = [p EXCEPT !.timer = FALSE, !.proc = "dead", !.ended = "killed"]
    BY <1>4
  <2>2. StaysRight(p, [p EXCEPT !.timer = FALSE, !.proc = "dead", !.ended = "killed"], serve)
    BY <1>1, <1>4, Killing
  <2> QED
    BY <2>1, <2>2
<1>5. StaysRight(p, q, serve)
  BY <1>3, <1>4
<1> QED
  BY <1>2, <1>5, StepKeeps DEF p

\* close(): every one that lives is signalled, and none that was stopped before.
LEMMA CloseProxiesKeeps ==
  ASSUME ProxiesInv, CloseProxies
  PROVE  ProxiesInv'
<1> DEFINE cs == [c \in Ids |->
                    CASE c \in live -> halt(children[c])
                      [] c \in starting /\ ~children[c].exit -> kill(children[c])
                      [] OTHER -> children[c]]
<1>1. /\ children' = cs /\ serve = "up" /\ serve' = "closing" /\ MAX' = MAX /\ "closing" \in Times
      /\ Ids = 1 .. Len(children)
  BY DEF CloseProxies, Times, ProxiesInv, Ids
<1>2. ASSUME NEW c \in 1 .. Len(children)
      PROVE  StaysRight(children[c], cs[c], "closing")
  <2> DEFINE p == children[c]
  <2>1. p \in Childs /\ ProxyRight(p, "up") /\ c \in Ids
    BY <1>1, AtChild
  <2>2. /\ c \in live <=> p.place = "listed" /\ ~p.exit
        /\ c \in starting <=> p.place = "starting"
    BY <2>1 DEF live, listed, starting
  <2>3. cs[c] = IF c \in live THEN halt(p) ELSE IF c \in starting /\ ~p.exit THEN kill(p) ELSE p
    BY <2>1, <2>2
  <2> HIDE DEF p, cs
  <2>4. ASSUME c \in live PROVE StaysRight(p, halt(p), "closing")
    BY <2>1, <2>2, <2>4, HaltRight
  <2>5. ASSUME c \in starting PROVE StaysRight(p, kill(p), "closing")
    <3>1. kill(p) = [p EXCEPT !.sigints = p.sigints + 1, !.timer = TRUE]
      BY DEF kill
    <3>2. StaysRight(p, [p EXCEPT !.sigints = p.sigints + 1, !.timer = TRUE], "closing")
      BY <2>1, <2>2, <2>5, ClosingStart
    <3> QED
      BY <3>1, <3>2
  <2>6. ASSUME c \notin live, ~(c \in starting /\ ~p.exit) PROVE StaysRight(p, p, "closing")
    <3>1. ProxyRight(p, "closing")
      BY <2>1 DEF ProxyRight
    <3> QED
      BY <2>1, <3>1, StaysSame
  <2>7. StaysRight(p, cs[c], "closing")
    BY <2>3, <2>4, <2>5, <2>6
  <2> QED
    BY <2>7 DEF p
<1>3. DOMAIN cs = 1 .. Len(children) /\ cs = [c \in 1 .. Len(children) |-> cs[c]]
  BY <1>1
<1> HIDE DEF cs
<1> QED
  BY <1>1, <1>2, <1>3, AllChange DEF StaysRight

\* serve dies at any moment.
LEMMA ServeDiesKeeps ==
  ASSUME ProxiesInv, ServeDies
  PROVE  ProxiesInv'
<1> DEFINE cs == [c \in Ids |-> [children[c] EXCEPT !.timer = FALSE]]
<1>1. /\ children' = cs /\ serve' = "dead" /\ MAX' = MAX /\ "dead" \in Times
      /\ Ids = 1 .. Len(children)
  BY DEF ServeDies, Times, ProxiesInv, Ids
<1>2. ASSUME NEW c \in 1 .. Len(children)
      PROVE  StaysRight(children[c], cs[c], "dead")
  <2>1. children[c] \in Childs /\ ProxyRight(children[c], serve)
    BY <1>1, AtChild
  <2>2. StaysRight(children[c], [children[c] EXCEPT !.timer = FALSE], "dead")
    BY <2>1, LosingServe
  <2> QED
    BY <1>1, <2>2
<1>3. DOMAIN cs = 1 .. Len(children) /\ cs = [c \in 1 .. Len(children) |-> cs[c]]
  BY <1>1
<1> HIDE DEF cs
<1> QED
  BY <1>1, <1>2, <1>3, AllChange DEF StaysRight

------------------------------------------------------------------------------
\* The child's own steps.
LEMMA ProxyStepKeeps ==
  ASSUME ProxiesInv, NEW c \in Ids,
         Boots(c) \/ Crashes(c) \/ GetsStuck(c) \/ Sigint(c) \/ StopEnds(c) \/ ParentGone(c)
  PROVE  ProxiesInv'
<1> DEFINE p == children[c]
<1>1. p \in Childs /\ ProxyRight(p, serve) /\ serve \in Times
  BY AtChild
<1>2. ASSUME Boots(c) PROVE ProxiesInv'
  <2>1. PICK line \in FirstLines : p.proc = "booting" /\ Becomes(c, [p EXCEPT !.proc = "up", !.said = line])
    BY <1>2 DEF Boots, FirstLines
  <2>2. StaysRight(p, [p EXCEPT !.proc = "up", !.said = line], serve)
    BY <1>1, <2>1, Booting
  <2> QED
    BY <2>1, <2>2, StepKeeps
<1>3. ASSUME NEW how \in {"crashed", "graceful"}, Dies(c, how) PROVE ProxiesInv'
  <2>1. Becomes(c, [p EXCEPT !.proc = "dead", !.ended = how])
    BY <1>3 DEF Dies
  <2>2. StaysRight(p, [p EXCEPT !.proc = "dead", !.ended = how], serve)
    BY <1>1, <1>3, Crashing DEF Ends
  <2> QED
    BY <2>1, <2>2, StepKeeps
<1>4. ASSUME GetsStuck(c) PROVE ProxiesInv'
  <2>1. Becomes(c, [p EXCEPT !.stuck = TRUE])
    BY <1>4 DEF GetsStuck
  <2>2. StaysRight(p, [p EXCEPT !.stuck = TRUE], serve)
    BY <1>1, Sticking
  <2> QED
    BY <2>1, <2>2, StepKeeps
<1>5. ASSUME Sigint(c) PROVE ProxiesInv'
  <2> DEFINE less == [p EXCEPT !.sigints = @ - 1]
             q == CASE less.proc = "booting" -> [less EXCEPT !.proc = "dead", !.ended = "unready"]
                    [] less.proc = "up"      -> [less EXCEPT !.proc = "stopping"]
                    [] OTHER                 -> [less EXCEPT !.proc = "dead", !.ended = "forced"]
  <2>1. p.sigints > 0 /\ less.proc # "dead" /\ Becomes(c, q)
    BY <1>5 DEF Sigint
  <2>2. less.proc = p.proc /\ p.proc \in ProcStates
    BY <1>1 DEF Childs
  <2> HIDE DEF p
  <2>3. ASSUME p.proc = "booting" PROVE StaysRight(p, q, serve)
    <3>1. q = [p EXCEPT !.sigints = p.sigints - 1, !.proc = "dead", !.ended = "unready"]
      BY <2>2, <2>3
    <3> HIDE DEF q
    <3>2. StaysRight(p, [p EXCEPT !.sigints = p.sigints - 1, !.proc = "dead", !.ended = "unready"], serve)
      BY <1>1, <2>1, <2>3, Unready
    <3> QED
      BY <3>1, <3>2
  <2>4. ASSUME p.proc = "up" PROVE StaysRight(p, q, serve)
    <3>1. q = [p EXCEPT !.sigints = p.sigints - 1, !.proc = "stopping"]
      BY <2>2, <2>4
    <3> HIDE DEF q
    <3>2. StaysRight(p, [p EXCEPT !.sigints = p.sigints - 1, !.proc = "stopping"], serve)
      BY <1>1, <2>1, <2>4, Stopping
    <3> QED
      BY <3>1, <3>2
  <2>5. ASSUME p.proc = "stopping" PROVE StaysRight(p, q, serve)
    <3>1. q = [p EXCEPT !.sigints = p.sigints - 1, !.proc = "dead", !.ended = "forced"]
      BY <2>2, <2>5
    <3> HIDE DEF q
    <3>2. StaysRight(p, [p EXCEPT !.sigints = p.sigints - 1, !.proc = "dead", !.ended = "forced"], serve)
      BY <1>1, <2>1, <2>5, Forcing
    <3> QED
      BY <3>1, <3>2
  <2>6. p.proc \in {"booting", "up", "stopping"}
    BY <2>1, <2>2 DEF ProcStates
  <2> HIDE DEF q, less
  <2>7. StaysRight(p, q, serve)
    BY <2>3, <2>4, <2>5, <2>6
  <2> QED
    BY <2>1, <2>7, StepKeeps DEF p
<1>6. ASSUME ParentGone(c) PROVE ProxiesInv'
  <2>1. p.proc = "up" /\ serve \in {"dead"} /\ Becomes(c, [p EXCEPT !.proc = "stopping"])
    BY <1>6 DEF ParentGone
  <2>2. StaysRight(p, [p EXCEPT !.proc = "stopping"], serve)
    BY <1>1, <2>1, Orphaned
  <2> QED
    BY <2>1, <2>2, StepKeeps
<1> QED
  BY <1>2, <1>3, <1>4, <1>5, <1>6 DEF Crashes, StopEnds

------------------------------------------------------------------------------
\* The invariant of the proxies: a slot and a name are held from the start until
\* the end is seen, and a signal is sent once.
THEOREM ProxiesInvariant == ProxiesSpec => []ProxiesInv
<1>1. ASSUME ProxiesInit PROVE ProxiesInv
  <2>1. children = <<>> /\ HoldersOf(children) = {} /\ children \in Seq(Childs) /\ Len(children) = 0
    BY <1>1 DEF ProxiesInit, HoldersOf
  <2>2. SlotsRight(children, MAX) /\ MAX \in Nat
    BY <1>1, <2>1, FS_EmptySet, ProxiesAssumption DEF ProxiesInit, SlotsRight
  <2>3. serve \in Times
    BY <1>1 DEF ProxiesInit, Times
  <2> QED
    BY <2>1, <2>2, <2>3 DEF ProxiesInv
<1>2. ASSUME ProxiesInv, [ProxiesNext]_proxiesVars PROVE ProxiesInv'
  <2>1. CASE ProxiesNext
    <3>1. ASSUME NEW n \in Names, StartProxy(n) PROVE ProxiesInv'
      BY <1>2, <3>1, StartProxyKeeps
    <3>2. ASSUME NEW c \in Ids, \/ ReadFirstLine(c) \/ Settled(c) \/ SeeExit(c) \/ SeeClose(c) \/ StopProxy(c)
                                \/ KillTimer(c)
          PROVE  ProxiesInv'
      BY <1>2, <3>2, ReadFirstLineKeeps, SettledKeeps, SeeExitKeeps, SeeCloseKeeps, StopProxyKeeps,
         KillTimerKeeps
    <3>3. ASSUME NEW c \in Ids, Boots(c) \/ Crashes(c) \/ GetsStuck(c) \/ Sigint(c) \/ StopEnds(c) \/ ParentGone(c)
          PROVE  ProxiesInv'
      BY <1>2, <3>3, ProxyStepKeeps
    <3>4. ASSUME CloseProxies \/ ServeDies PROVE ProxiesInv'
      BY <1>2, <3>4, CloseProxiesKeeps, ServeDiesKeeps
    <3> QED
      BY <2>1, <3>1, <3>2, <3>3, <3>4 DEF ProxiesNext
  <2>2. CASE UNCHANGED proxiesVars
    BY <1>2, <2>2 DEF proxiesVars, ProxiesInv
  <2> QED
    BY <1>2, <2>1, <2>2
<1> QED
  BY <1>1, <1>2, PTL DEF ProxiesSpec

\* However starts, failures, stops and exits interleave, at most MAX proxies run, no
\* two of one name, and none that was listed is ended by a second signal of serve
\* (proxies.ts:30-56, 97).
THEOREM ProxiesStaySafe == ProxiesSpec => []ProxiesSafe
<1>1. ASSUME ProxiesInv PROVE ProxiesSafe
  <2>1. /\ Ids = 1 .. Len(children) /\ MAX \in Nat /\ serve \in {"up", "closing", "dead"}
        /\ \A c \in Ids : children[c] \in Childs /\ ProxyRight(children[c], serve)
    BY <1>1 DEF ProxiesInv, Ids, Times
  <2>2. ProxiesTypeOK
    <3>1. ASSUME NEW c \in Ids
          PROVE  /\ children[c].name \in Names /\ children[c].sigints \in 0 .. 2
                 /\ children[c].proc \in {"booting", "up", "stopping", "dead"}
                 /\ children[c].place \in {"starting", "listed", "gone"}
                 /\ children[c].phase \in {"wait", "settle", "run", "failed"}
      <4>1. /\ children[c].name \in Names /\ children[c].sigints \in Pending /\ children[c].proc \in ProcStates
            /\ children[c].place \in PlacesOf /\ children[c].phase \in Phases
        BY <2>1 DEF Childs
      <4> QED
        BY <4>1 DEF Pending, ProcStates, PlacesOf, Phases
    <3> QED
      BY <2>1, <3>1 DEF ProxiesTypeOK
  <2>3. ProxiesBounded
    <3> DEFINE processes == {c \in Ids : Running(c)}
    <3>1. processes \subseteq HoldersOf(children)
      <4>1. ASSUME NEW c \in Ids, Running(c) PROVE HoldsSlot(children[c])
        <5>1. children[c] \in Childs /\ children[c].place \in PlacesOf /\ ProxyRight(children[c], serve)
          BY <2>1 DEF Childs
        <5>2. ~children[c].exit /\ children[c].place # "gone"
          BY <4>1, <5>1 DEF Running, ProxyRight
        <5> QED
          BY <5>1, <5>2 DEF HoldsSlot, PlacesOf
      <4> QED
        BY <2>1, <4>1 DEF HoldersOf
    <3>2. IsFiniteSet(HoldersOf(children)) /\ Cardinality(HoldersOf(children)) <= MAX
      BY <1>1 DEF ProxiesInv, SlotsRight
    <3>3. /\ Cardinality(processes) <= Cardinality(HoldersOf(children))
          /\ Cardinality(processes) \in Nat /\ Cardinality(HoldersOf(children)) \in Nat
      BY <3>1, <3>2, FS_Subset, FS_CardinalityType
    <3>4. Cardinality(processes) <= MAX
      BY <2>1, <3>2, <3>3
    <3>5. \A c, d \in processes : children[c].name = children[d].name => c = d
      BY <1>1, <3>1 DEF ProxiesInv, SlotsRight
    <3> QED
      BY <3>4, <3>5 DEF ProxiesBounded
  <2>4. NeverForced
    BY <2>1 DEF NeverForced, ProxyRight
  <2> QED
    BY <2>2, <2>3, <2>4 DEF ProxiesSafe
<1> QED
  BY <1>1, ProxiesInvariant, PTL

------------------------------------------------------------------------------
\* A bench.

Verdicts == {"PASS", "FAIL"}
Rows     == [verdict : Verdicts, began : SUBSET Packages, fair : BOOLEAN]
Flags    == [complete : BOOLEAN, stopped : BOOLEAN]
Files    == [rows : Nat, complete : BOOLEAN, stopped : BOOLEAN, there : BOOLEAN]

\* Before the first run, between two runs, in one.
Before  == {"preflight", "cloning", "setup", "setup done", "opening"}
Between == {"fingerprint", "next", "modules", "finish"}
Within  == {"preparing", "unprepared", "agent", "ran", "stopped", "protected", "link",
            "command", "tidy", "dispose", "record"}
Exits   == {"refused", "thrown", "done", "signal", "default", "killed"}

StepTyped   == /\ setup \in BOOLEAN /\ at \in Before \cup Between \cup Within
               /\ strays \in BOOLEAN /\ exited \in {"", "leaving"} \cup Exits
RowsTyped   == run \in 0 .. Runs /\ row \in Rows /\ rows \in Seq(Rows)
FileTyped   == flags \in Flags /\ json \in Files
ClonesTyped == dirs \subseteq 0 .. Runs /\ LIVE \subseteq 0 .. Runs /\ left \subseteq 0 .. Runs
BenchTyped  == StepTyped /\ RowsTyped /\ FileTyped /\ ClonesTyped /\ changed \subseteq Changes

\* How many rows there are, and which of them the file has.
ThrownAtSave == exited = "thrown" /\ at = "record"
NoRows   == at \in Before => run = 0 /\ rows = <<>>
AllRows  == at \in Between => Len(rows) = run
OneBehind == at \in Within => run > 0 /\ Len(rows) = (IF ThrownAtSave THEN run ELSE run - 1)
RowsSaved == json.rows = Len(rows) \/ (ThrownAtSave /\ json.rows + 1 = Len(rows))
Counted  == NoRows /\ AllRows /\ OneBehind /\ RowsSaved

\* When the bench, and its file, may say it is complete.
FlagsRight == flags.complete => run = Runs /\ (at = "finish" \/ exited = "thrown")
FileRight  == json.complete => flags.complete /\ json.rows = Runs
Finished   == at = "finish" => json.complete \/ "modules" \in changed
DoneLast   == exited = "done" => at = "finish"
Said       == FlagsRight /\ FileRight /\ Finished /\ DoneLast

\* What is as the harness made it, and when.
StraysKilled == strays => at \in {"setup done", "ran", "stopped", "tidy"}
ModulesAsInstalled == at = "next" => "modules" \notin changed
RowPure == at \in Within => row.began \subseteq {"unseen"}
RowFair == at \in Within /\ row.verdict = "PASS" => row.fair
ProtectedAsMade == at \in {"link", "command"} => "protected" \notin changed
LinkAsMade == at = "command" => "link" \notin changed
AsMade == /\ StraysKilled /\ ModulesAsInstalled /\ RowPure /\ RowFair
          /\ ProtectedAsMade /\ LinkAsMade

\* Every clone on disk is known or said to be left.
ClonesKnown == dirs \subseteq LIVE \cup left

BenchInv ==
  BenchTyped /\ Counted /\ Said /\ AsMade /\ RowsFair /\ ClonesKnown /\ NothingLeft

-----------------------------------------------------------------------------
\* Which steps change what.

LEMMA RowSteps == BenchNext => row' = row \/ Prepare \/ runCheck
<1> USE DEF exits, files, clones, model, proc
<1> QED
  BY DEF BenchNext, preflight, SetupCloned, SetupRan, KillSetup, FirstSave, modulesManifest,
         Prepared, execRun, KillLeftovers, protectedChanged, modulesTampered, Tidy, finishRun,
         Record, ModulesChecked, Complete, finish, CtrlC, LeaveBench, Kill9, StrayWrites

LEMMA RunSteps == BenchNext => run' = run \/ Prepare
<1> USE DEF exits, files, clones, model, proc
<1> QED
  BY DEF BenchNext, preflight, SetupCloned, SetupRan, KillSetup, FirstSave, modulesManifest,
         Prepared, execRun, KillLeftovers, protectedChanged, modulesTampered, runCheck, Tidy, finishRun,
         Record, ModulesChecked, Complete, finish, CtrlC, LeaveBench, Kill9, StrayWrites

LEMMA RowsSteps == BenchNext => rows' = rows \/ Record
<1> USE DEF exits, files, clones, model, proc
<1> QED
  BY DEF BenchNext, preflight, SetupCloned, SetupRan, KillSetup, FirstSave, modulesManifest, Prepare,
         Prepared, execRun, KillLeftovers, protectedChanged, modulesTampered, runCheck, Tidy, finishRun,
         ModulesChecked, Complete, finish, CtrlC, LeaveBench, Kill9, StrayWrites

LEMMA FileSteps ==
  BenchNext => UNCHANGED files \/ FirstSave \/ Record \/ Complete \/ CtrlC
<1> USE DEF exits, files, clones, model, proc
<1> QED
  BY DEF BenchNext, preflight, SetupCloned, SetupRan, KillSetup, modulesManifest, Prepare,
         Prepared, execRun, KillLeftovers, protectedChanged, modulesTampered, runCheck, Tidy, finishRun,
         ModulesChecked, finish, LeaveBench, Kill9, StrayWrites

LEMMA ChangedSteps ==
  BenchNext => changed' = changed \/ modulesManifest \/ Prepare \/ execRun \/ runCheck \/ StrayWrites
<1> USE DEF exits, files, clones, model, proc
<1> QED
  BY DEF BenchNext, preflight, SetupCloned, SetupRan, KillSetup, FirstSave,
         Prepared, KillLeftovers, protectedChanged, modulesTampered, Tidy, finishRun,
         Record, ModulesChecked, Complete, finish, CtrlC, LeaveBench, Kill9

LEMMA CloneSteps ==
  BenchNext => UNCHANGED clones \/ removeClone \/ removeAllClones \/ preflight \/ Prepare
<1> USE DEF exits, files, model, proc
<1> QED
  BY DEF BenchNext, clones, SetupCloned, SetupRan, KillSetup, FirstSave, modulesManifest,
         Prepared, execRun, KillLeftovers, protectedChanged, modulesTampered, runCheck, Tidy, finishRun,
         Record, ModulesChecked, Complete, finish, CtrlC, LeaveBench, Kill9, StrayWrites

\* Only Prepare begins a run.
LEMMA EnterRun == BenchNext /\ at' \in Within => at \in Within \/ Prepare
<1> USE DEF exits, files, clones, model, proc, BenchAt, Within
<1> QED
  BY DEF BenchNext, preflight, SetupCloned, SetupRan, KillSetup, FirstSave, modulesManifest,
         Prepared, execRun, KillLeftovers, protectedChanged, modulesTampered, runCheck, Tidy, finishRun,
         Record, ModulesChecked, Complete, finish, CtrlC, LeaveBench, Kill9, StrayWrites

\* A save writes what there is.
LEMMA SavedIs ==
  ASSUME NEW r \in Seq(Rows), NEW f \in Flags
  PROVE  /\ Saved(r, f) \in Files /\ Saved(r, f).rows = Len(r)
         /\ Saved(r, f).complete = f.complete
BY DEF Saved, Flags, Files

\* The bench's row is recorded.
LEMMA RowRecorded ==
  ASSUME RowsTyped, Record
  PROVE  /\ rows' \in Seq(Rows) /\ Len(rows') = Len(rows) + 1 /\ rows'[Len(rows) + 1] = row
         /\ \A i \in 1 .. Len(rows) : rows'[i] = rows[i]
BY DEF RowsTyped, Record

-----------------------------------------------------------------------------
\* Types.

LEMMA StepTypedKept == StepTyped /\ BenchNext => StepTyped'
<1> USE DEF StepTyped, exits, removeClone, removeAllClones, files, clones, model, proc, BenchAt, Alive, Works,
            Before, Between, Within, Exits
<1> QED
  BY DEF BenchNext, preflight, SetupCloned, SetupRan, KillSetup, FirstSave, modulesManifest, Prepare,
         Prepared, execRun, KillLeftovers, protectedChanged, modulesTampered, runCheck, Tidy, finishRun,
         Record, ModulesChecked, Complete, finish, CtrlC, LeaveBench, Kill9, StrayWrites

LEMMA RowsTypedKept == RowsTyped /\ BenchNext => RowsTyped'
<1> SUFFICES ASSUME RowsTyped, BenchNext PROVE RowsTyped'
  OBVIOUS
<1>1. run' \in 0 .. Runs
  BY BenchAssumption, RunSteps DEF RowsTyped, Prepare
<1>2. row' \in Rows
  <2>1. CASE row' = row
    BY <2>1 DEF RowsTyped
  <2>2. CASE Prepare
    BY <2>2 DEF Prepare, NewRow, Rows, Verdicts, Packages
  <2>3. CASE runCheck
    <3>1. PICK v \in Verdicts : row' = [row EXCEPT !.verdict = v, !.fair = changed \cap {"protected", "link"} = {}]
      BY <2>3 DEF runCheck, Verdicts
    <3> QED
      BY <3>1 DEF RowsTyped, Rows
  <2> QED
    BY <2>1, <2>2, <2>3, RowSteps
<1>3. rows' \in Seq(Rows)
  BY RowsSteps, RowRecorded DEF RowsTyped
<1> QED
  BY <1>1, <1>2, <1>3 DEF RowsTyped

LEMMA FileTypedKept == RowsTyped /\ FileTyped /\ BenchNext => FileTyped'
<1> SUFFICES ASSUME RowsTyped, FileTyped, BenchNext PROVE FileTyped'
  OBVIOUS
<1>1. rows' \in Seq(Rows) /\ rows \in Seq(Rows)
  BY RowsTypedKept DEF RowsTyped
<1>2. flags' \in Flags
  <2>1. flags' \in {flags, [flags EXCEPT !.complete = TRUE], [flags EXCEPT !.stopped = TRUE]}
    BY FileSteps DEF files, FirstSave, Record, Complete, CtrlC, exits
  <2> QED
    BY <2>1 DEF FileTyped, Flags
<1>3. json' \in {json, Saved(rows, flags), Saved(rows', flags), Saved(rows, flags')}
  BY FileSteps DEF files, FirstSave, Record, Complete, CtrlC, exits
<1> QED
  BY <1>1, <1>2, <1>3, SavedIs DEF FileTyped

LEMMA ClonesTypedKept == RowsTyped /\ ClonesTyped /\ BenchNext => ClonesTyped'
<1> SUFFICES ASSUME RowsTyped, ClonesTyped, BenchNext PROVE ClonesTyped'
  OBVIOUS
<1>1. run \in 0 .. Runs /\ 0 \in 0 .. Runs /\ run' \in 0 .. Runs
  BY BenchAssumption, RowsTypedKept DEF RowsTyped
<1>2. /\ dirs' \subseteq dirs \cup {0, run'} /\ LIVE' \subseteq LIVE \cup {0, run'}
      /\ left' \subseteq left \cup {run}
  <2>1. CASE UNCHANGED clones
    BY <2>1 DEF clones
  <2>2. CASE removeClone
    BY <2>2 DEF removeClone
  <2>3. CASE removeAllClones
    BY <2>3 DEF removeAllClones
  <2>4. CASE preflight
    <3>1. CASE exits("refused")
      BY <3>1 DEF exits, removeAllClones
    <3>2. CASE ~exits("refused")
      BY <2>4, <3>2 DEF preflight
    <3> QED
      BY <3>1, <3>2
  <2>5. CASE Prepare
    BY <2>5 DEF Prepare
  <2> QED
    BY <2>1, <2>2, <2>3, <2>4, <2>5, CloneSteps
<1> QED
  BY <1>1, <1>2 DEF ClonesTyped

LEMMA ChangedTypedKept == changed \subseteq Changes /\ BenchNext => changed' \subseteq Changes
BY ChangedSteps DEF modulesManifest, Prepare, execRun, runCheck, Works, StrayWrites

LEMMA TypedKept == BenchTyped /\ BenchNext => BenchTyped'
BY StepTypedKept, RowsTypedKept, FileTypedKept, ClonesTypedKept, ChangedTypedKept DEF BenchTyped

-----------------------------------------------------------------------------
\* The rows and the file.

LEMMA CountedKept == BenchTyped /\ Counted /\ BenchNext => Counted'
<1> SUFFICES ASSUME BenchTyped, Counted, BenchNext PROVE Counted'
  OBVIOUS
<1> USE DEF exits, removeClone, removeAllClones, files, clones, model, proc, BenchAt, Alive, Before, Between, Within
<1>0. /\ run \in Nat /\ Len(rows) \in Nat /\ rows \in Seq(Rows) /\ flags \in Flags /\ flags' \in Flags
      /\ at \in Before \cup Between \cup Within
  <2>1. BenchTyped'
    BY TypedKept
  <2>2. flags' \in Flags
    BY <2>1 DEF BenchTyped, FileTyped
  <2>3. rows \in Seq(Rows) /\ run \in 0 .. Runs
    BY DEF BenchTyped, RowsTyped
  <2>4. Len(rows) \in Nat /\ run \in Nat
    BY <2>3, BenchAssumption
  <2>5. flags \in Flags /\ at \in Before \cup Between \cup Within
    BY DEF BenchTyped, FileTyped, StepTyped
  <2> QED
    BY <2>2, <2>3, <2>4, <2>5
<1>1. CASE Prepare
  <2>1. at = "next" /\ at' = "preparing" /\ run' = run + 1 /\ rows' = rows /\ json' = json
    BY <1>1 DEF Prepare
  <2>2. Len(rows) = run /\ json.rows = Len(rows)
    BY <2>1 DEF Counted, AllRows, RowsSaved, ThrownAtSave
  <2>3. ~ThrownAtSave'
    BY <2>1 DEF ThrownAtSave
  <2> QED
    BY <1>0, <2>1, <2>2, <2>3 DEF Counted, NoRows, AllRows, OneBehind, RowsSaved
<1>2. CASE Record
  <2>1. Len(rows') = Len(rows) + 1 /\ rows' \in Seq(Rows) /\ at = "record" /\ exited # "thrown" /\ run' = run
    BY <1>2, RowRecorded DEF Record, BenchTyped
  <2>2. Len(rows) = run - 1 /\ json.rows = Len(rows)
    BY <2>1 DEF Counted, OneBehind, RowsSaved, ThrownAtSave
  <2>3. CASE json' = Saved(rows', flags) /\ at' = "modules"
    BY <1>0, <2>1, <2>2, <2>3, SavedIs DEF Counted, NoRows, AllRows, OneBehind, RowsSaved
  <2>4. CASE exited' = "thrown" /\ at' = at /\ json' = json
    BY <1>0, <2>1, <2>2, <2>4 DEF Counted, NoRows, AllRows, OneBehind, RowsSaved, ThrownAtSave
  <2> QED
    BY <1>2, <2>3, <2>4 DEF Record
<1>3. CASE ~Prepare /\ ~Record
  <2>0. rows' = rows /\ run' = run
    BY <1>3, RunSteps, RowsSteps
  <2>1. json' = json \/ json' = Saved(rows, flags) \/ json' = Saved(rows, flags')
    BY <1>3, <2>0, FileSteps DEF FirstSave, Complete, CtrlC
  <2>2. json'.rows = Len(rows) \/ json' = json
    BY <1>0, <2>1, SavedIs
  <2>3. ~ThrownAtSave
    BY DEF ThrownAtSave, BenchNext, preflight, SetupCloned, SetupRan, KillSetup, FirstSave, modulesManifest,
           Prepare, Prepared, execRun, KillLeftovers, protectedChanged, modulesTampered, runCheck, Tidy,
           finishRun, Record, ModulesChecked, Complete, finish, CtrlC, LeaveBench, Kill9, StrayWrites
  <2>4. ~ThrownAtSave'
    BY <1>3, <2>3
    DEF ThrownAtSave, BenchNext, preflight, SetupCloned, SetupRan, KillSetup, FirstSave, modulesManifest,
        Prepared, execRun, KillLeftovers, protectedChanged, modulesTampered, runCheck, Tidy,
        finishRun, ModulesChecked, Complete, finish, CtrlC, LeaveBench, Kill9, StrayWrites
  <2>5. \/ at' = at
        \/ at \in Before /\ at' \in Before \cup Between
        \/ at \in Between /\ at' \in Between
        \/ at \in Within /\ at' \in Within
    BY <1>3
    DEF BenchNext, preflight, SetupCloned, SetupRan, KillSetup, FirstSave, modulesManifest,
        Prepared, execRun, KillLeftovers, protectedChanged, modulesTampered, runCheck, Tidy,
        finishRun, ModulesChecked, Complete, finish, CtrlC, LeaveBench, Kill9, StrayWrites
  <2> QED
    BY <1>0, <2>0, <2>2, <2>3, <2>4, <2>5 DEF Counted, NoRows, AllRows, OneBehind, RowsSaved
<1> QED
  BY <1>1, <1>2, <1>3

\* What the bench and its file say of themselves.
LEMMA SaidKept == BenchTyped /\ Counted /\ Said /\ BenchNext => Said'
<1> SUFFICES ASSUME BenchTyped, Counted, Said, BenchNext PROVE Said'
  OBVIOUS
<1> USE DEF exits, removeClone, removeAllClones, files, clones, model, proc, BenchAt, Alive
<1>0. rows \in Seq(Rows) /\ flags \in Flags /\ flags' \in Flags /\ Len(rows) \in Nat
  <2>1. BenchTyped'
    BY TypedKept
  <2>2. rows \in Seq(Rows) /\ flags \in Flags
    BY DEF BenchTyped, RowsTyped, FileTyped
  <2>3. flags' \in Flags
    BY <2>1 DEF BenchTyped, FileTyped
  <2> QED
    BY <2>2, <2>3
<1>1. CASE UNCHANGED files /\ ~Complete
  <2>1. FlagsRight'
    BY <1>1
    DEF Said, FlagsRight, BenchNext, preflight, SetupCloned, SetupRan, KillSetup, FirstSave, modulesManifest,
        Prepare, Prepared, execRun, KillLeftovers, protectedChanged, modulesTampered, runCheck, Tidy,
        finishRun, Record, ModulesChecked, Complete, finish, CtrlC, LeaveBench, Kill9, StrayWrites
  <2>2. FileRight'
    BY <1>1 DEF Said, FileRight
  <2>3. Finished'
    <3>1. at' = "finish" => at = "finish" \/ (at = "modules" /\ "modules" \in changed)
      BY <1>1
      DEF BenchNext, preflight, SetupCloned, SetupRan, KillSetup, FirstSave, modulesManifest,
        Prepare, Prepared, execRun, KillLeftovers, protectedChanged, modulesTampered, runCheck, Tidy,
        finishRun, Record, ModulesChecked, finish, CtrlC, LeaveBench, Kill9, StrayWrites
    <3>2. at \in {"finish", "modules"} => changed \subseteq changed'
      BY ChangedSteps DEF modulesManifest, Prepare, execRun, runCheck, StrayWrites
    <3> QED
      BY <1>1, <3>1, <3>2 DEF Said, Finished
  <2>4. DoneLast'
    BY <1>1
    DEF Said, DoneLast, BenchNext, preflight, SetupCloned, SetupRan, KillSetup, FirstSave, modulesManifest,
        Prepare, Prepared, execRun, KillLeftovers, protectedChanged, modulesTampered, runCheck, Tidy,
        finishRun, Record, ModulesChecked, Complete, finish, CtrlC, LeaveBench, Kill9, StrayWrites
  <2> QED
    BY <2>1, <2>2, <2>3, <2>4 DEF Said
<1>2. CASE FirstSave \/ Record
  <2>1. /\ exited \in {"", "leaving"} /\ flags' = flags /\ at \in {"opening", "record"}
        /\ at' \in {"opening", "record", "fingerprint", "modules"} /\ exited' # "done" /\ run' = run
    BY <1>2 DEF FirstSave, Record
  <2>2. ~flags.complete
    BY <2>1 DEF Said, FlagsRight
  <2>3. json' = json \/ json' = Saved(rows', flags)
    BY <1>2 DEF FirstSave, Record
  <2>4. rows' \in Seq(Rows)
    BY RowsTypedKept DEF BenchTyped, RowsTyped
  <2>5. json'.complete => json.complete
    BY <1>0, <2>2, <2>3, <2>4, SavedIs
  <2>6. ~json'.complete
    BY <2>2, <2>5 DEF Said, FileRight
  <2> QED
    BY <2>1, <2>2, <2>6 DEF Said, FlagsRight, FileRight, Finished, DoneLast
<1>3. CASE Complete
  <2>1. /\ exited \in {"", "leaving"} /\ run = Runs /\ run' = run /\ rows' = rows /\ at = "next"
        /\ flags' = [flags EXCEPT !.complete = TRUE]
        /\ \/ json' = Saved(rows, flags') /\ at' = "finish" /\ exited' = exited
           \/ json' = json /\ at' = at /\ exited' = "thrown"
    BY <1>3 DEF Complete
  <2>2. Len(rows) = Runs /\ flags'.complete = TRUE
    BY <1>0, <2>1 DEF Counted, AllRows, Between, Flags
  <2>3. CASE json' = Saved(rows, flags') /\ at' = "finish" /\ exited' = exited
    <3>1. json'.complete = TRUE /\ json'.rows = Runs
      BY <1>0, <2>2, <2>3, SavedIs
    <3> QED
      BY <2>1, <2>2, <2>3, <3>1 DEF Said, FlagsRight, FileRight, Finished, DoneLast
  <2>4. CASE json' = json /\ at' = at /\ exited' = "thrown"
    BY <2>1, <2>2, <2>4 DEF Said, FlagsRight, FileRight, Finished, DoneLast
  <2> QED
    BY <2>1, <2>3, <2>4
<1>4. CASE CtrlC /\ ~UNCHANGED files
  <2>1. /\ exited = "" /\ exited' = "leaving" /\ flags' = [flags EXCEPT !.stopped = TRUE]
        /\ json' \in {json, Saved(rows, flags')} /\ at' = at /\ run' = run /\ changed' = changed
    BY <1>4 DEF CtrlC
  <2>2. flags'.complete = flags.complete
    BY <1>0, <2>1 DEF Flags
  <2>3. FlagsRight'
    BY <2>1, <2>2 DEF Said, FlagsRight
  <2>4. json' = json \/ (json'.complete = flags.complete /\ json'.rows = Len(rows))
    BY <1>0, <2>1, <2>2, SavedIs
  <2>5. flags.complete => Len(rows) = Runs /\ at = "finish"
    BY <2>1 DEF Said, FlagsRight, Counted, AllRows, Between
  <2>6. FileRight'
    BY <2>2, <2>4, <2>5 DEF Said, FileRight
  <2>7. Finished'
    BY <2>1, <2>4 DEF Said, Finished, FileRight
  <2>8. DoneLast'
    BY <2>1 DEF DoneLast
  <2> QED
    BY <2>3, <2>6, <2>7, <2>8 DEF Said
<1> QED
  BY <1>1, <1>2, <1>3, <1>4, FileSteps

-----------------------------------------------------------------------------
\* What is as made.

LEMMA StraysKept == BenchTyped /\ StraysKilled /\ BenchNext => StraysKilled'
<1> USE DEF StraysKilled, exits, removeClone, removeAllClones, files, clones, model, proc, BenchAt, Alive, Works
<1> QED
  BY DEF BenchTyped, StepTyped, BenchNext, preflight, SetupCloned, SetupRan, KillSetup, FirstSave, modulesManifest,
        Prepare, Prepared, execRun, KillLeftovers, protectedChanged, modulesTampered, runCheck, Tidy,
        finishRun, Record, ModulesChecked, Complete, finish, CtrlC, LeaveBench, Kill9, StrayWrites

LEMMA MadeKept == BenchTyped /\ AsMade /\ BenchNext => AsMade'
<1> SUFFICES ASSUME BenchTyped, AsMade, BenchNext PROVE AsMade'
  OBVIOUS
<1> USE DEF exits, removeClone, removeAllClones, files, clones, model, proc, BenchAt, Alive
<1>1. StraysKilled'
  BY StraysKept DEF AsMade
<1>2. ModulesAsInstalled'
  BY DEF AsMade, StraysKilled, ModulesAsInstalled, BenchNext, preflight, SetupCloned, SetupRan, KillSetup, FirstSave, modulesManifest,
        Prepare, Prepared, execRun, KillLeftovers, protectedChanged, modulesTampered, runCheck, Tidy,
        finishRun, Record, ModulesChecked, Complete, finish, CtrlC, LeaveBench, Kill9, StrayWrites
<1>3. ProtectedAsMade'
  BY DEF AsMade, StraysKilled, ProtectedAsMade, BenchNext, preflight, SetupCloned, SetupRan, KillSetup, FirstSave, modulesManifest,
        Prepare, Prepared, execRun, KillLeftovers, protectedChanged, modulesTampered, runCheck, Tidy,
        finishRun, Record, ModulesChecked, Complete, finish, CtrlC, LeaveBench, Kill9, StrayWrites
<1>4. LinkAsMade'
  BY DEF AsMade, StraysKilled, LinkAsMade, BenchNext, preflight, SetupCloned, SetupRan, KillSetup, FirstSave, modulesManifest,
        Prepare, Prepared, execRun, KillLeftovers, protectedChanged, modulesTampered, runCheck, Tidy,
        finishRun, Record, ModulesChecked, Complete, finish, CtrlC, LeaveBench, Kill9, StrayWrites
<1>5. CASE row' = row /\ ~Prepare
  <2>1. at' \in Within => at \in Within
    BY <1>5, EnterRun
  <2> QED
    BY <1>1, <1>2, <1>3, <1>4, <1>5, <2>1 DEF AsMade, RowPure, RowFair
<1>6. CASE Prepare
  <2>1. row'.began \subseteq {"unseen"} /\ row'.verdict = "FAIL"
    BY <1>6 DEF Prepare, NewRow, AsMade, ModulesAsInstalled, Packages
  <2> QED
    BY <1>1, <1>2, <1>3, <1>4, <2>1 DEF AsMade, RowPure, RowFair
<1>7. CASE runCheck
  <2>1. at = "command" /\ row \in Rows
    BY <1>7 DEF runCheck, BenchTyped, RowsTyped
  <2>2. changed \cap {"protected", "link"} = {}
    BY <2>1 DEF AsMade, ProtectedAsMade, LinkAsMade
  <2>3. PICK v \in Verdicts : row' = [row EXCEPT !.verdict = v, !.fair = TRUE]
    BY <1>7, <2>2 DEF runCheck, Verdicts
  <2>4. row'.fair = TRUE /\ row'.began = row.began /\ row.began \subseteq {"unseen"}
    BY <2>1, <2>3 DEF Rows, AsMade, RowPure, Within
  <2> QED
    BY <1>1, <1>2, <1>3, <1>4, <2>4 DEF AsMade, RowPure, RowFair
<1> QED
  BY <1>5, <1>6, <1>7, RowSteps

\* A row is recorded as it was made.
LEMMA RowsFairKept == BenchTyped /\ AsMade /\ RowsFair /\ BenchNext => RowsFair'
<1> SUFFICES ASSUME BenchTyped, AsMade, RowsFair, BenchNext PROVE RowsFair'
  OBVIOUS
<1>1. CASE rows' = rows
  BY <1>1 DEF RowsFair
<1>2. CASE Record
  <2>1. at = "record" /\ rows \in Seq(Rows)
    BY <1>2 DEF Record, BenchAt, BenchTyped, RowsTyped
  <2>2. row.began \subseteq {"unseen"} /\ (row.verdict = "PASS" => row.fair)
    BY <2>1 DEF AsMade, RowPure, RowFair, Within
  <2>3. /\ rows' \in Seq(Rows) /\ Len(rows') = Len(rows) + 1 /\ rows'[Len(rows) + 1] = row
        /\ \A i \in 1 .. Len(rows) : rows'[i] = rows[i]
    BY <1>2, RowRecorded DEF BenchTyped
  <2>4. ASSUME NEW i \in 1 .. Len(rows')
        PROVE  rows'[i].began \subseteq {"unseen"} /\ (rows'[i].verdict = "PASS" => rows'[i].fair)
    <3>1. CASE i \in 1 .. Len(rows)
      BY <2>1, <2>3, <3>1 DEF RowsFair
    <3>2. CASE i = Len(rows) + 1
      BY <2>2, <2>3, <3>2
    <3> QED
      BY <2>1, <2>3, <3>1, <3>2
  <2>5. DOMAIN rows' = 1 .. Len(rows')
    BY <2>3
  <2> QED
    BY <2>4, <2>5 DEF RowsFair
<1> QED
  BY <1>1, <1>2, RowsSteps

-----------------------------------------------------------------------------
\* The clones and the background children.

LEMMA ClonesKept == ClonesKnown /\ BenchNext => ClonesKnown'
<1> USE DEF ClonesKnown, exits, removeClone, removeAllClones, files, clones, model, proc
<1> QED
  BY DEF BenchNext, preflight, SetupCloned, SetupRan, KillSetup, FirstSave, modulesManifest,
        Prepare, Prepared, execRun, KillLeftovers, protectedChanged, modulesTampered, runCheck, Tidy,
        finishRun, Record, ModulesChecked, Complete, finish, CtrlC, LeaveBench, Kill9, StrayWrites

\* An exit that runs the hooks leaves nothing.
LEMMA NothingLeftKept == ClonesKnown /\ NothingLeft /\ BenchNext => NothingLeft'
<1> SUFFICES ASSUME ClonesKnown, NothingLeft, BenchNext PROVE NothingLeft'
  OBVIOUS
<1>1. exited \in {"", "leaving"}
  BY DEF BenchNext, preflight, SetupCloned, SetupRan, KillSetup, FirstSave, modulesManifest,
        Prepare, Prepared, execRun, KillLeftovers, protectedChanged, modulesTampered, runCheck, Tidy,
        finishRun, Record, ModulesChecked, Complete, finish, CtrlC, LeaveBench, Kill9, StrayWrites,
        BenchAt, Alive
<1>2. \/ exited' \in {"", "leaving", "default", "killed"}
      \/ removeAllClones /\ strays' = FALSE
  BY <1>1 DEF BenchNext, preflight, SetupCloned, SetupRan, KillSetup, FirstSave, modulesManifest,
        Prepare, Prepared, execRun, KillLeftovers, protectedChanged, modulesTampered, runCheck, Tidy,
        finishRun, Record, ModulesChecked, Complete, finish, CtrlC, LeaveBench, Kill9, StrayWrites,
        exits, files, clones, model, proc
<1> QED
  BY <1>1, <1>2 DEF NothingLeft, ClonesKnown, removeAllClones

-----------------------------------------------------------------------------
\* A bench keeps its invariant at every step (cli.ts, repo-clone.ts).
THEOREM BenchInvariant == BenchSpec => []BenchInv
<1>1. BenchInit => BenchInv
  <2> SUFFICES ASSUME BenchInit PROVE BenchInv
    OBVIOUS
  <2>1. StepTyped /\ ClonesTyped /\ changed \subseteq Changes
    BY DEF BenchInit, StepTyped, ClonesTyped, Before
  <2>2. RowsTyped
    <3>1. row \in Rows
      BY DEF BenchInit, Rows, Verdicts
    <3>2. run = 0 /\ rows = <<>>
      BY DEF BenchInit
    <3>3. 0 \in 0 .. Runs
      BY BenchAssumption
    <3>4. <<>> \in Seq(Rows)
      OBVIOUS
    <3> QED
      BY <3>1, <3>2, <3>3, <3>4 DEF RowsTyped
  <2>3. FileTyped
    BY DEF BenchInit, FileTyped, Flags, Files, NoJson
  <2>4. Counted
    BY DEF BenchInit, Counted, NoRows, AllRows, OneBehind, RowsSaved, Before, Between, Within, NoJson
  <2>5. Said
    BY DEF BenchInit, Said, FlagsRight, FileRight, Finished, DoneLast, NoJson
  <2>6. AsMade
    BY DEF BenchInit, AsMade, StraysKilled, ModulesAsInstalled, RowPure, RowFair, ProtectedAsMade, LinkAsMade
  <2>7. RowsFair
    <3>1. rows = <<>>
      BY DEF BenchInit
    <3>2. \A i \in DOMAIN <<>> : FALSE
      OBVIOUS
    <3> QED
      BY <3>1, <3>2 DEF RowsFair
  <2>8. ClonesKnown /\ NothingLeft
    BY DEF BenchInit, ClonesKnown, NothingLeft
  <2> QED
    BY <2>1, <2>2, <2>3, <2>4, <2>5, <2>6, <2>7, <2>8 DEF BenchInv, BenchTyped
<1>2. BenchInv /\ [BenchNext]_benchVars => BenchInv'
  <2> SUFFICES ASSUME BenchInv, [BenchNext]_benchVars PROVE BenchInv'
    OBVIOUS
  <2>1. CASE BenchNext
    BY <2>1, TypedKept, CountedKept, SaidKept, MadeKept, RowsFairKept, ClonesKept, NothingLeftKept
    DEF BenchInv
  <2>2. CASE UNCHANGED benchVars
    <3> USE <2>2 DEF benchVars
    <3>1. BenchTyped'
      BY DEF BenchInv, BenchTyped, StepTyped, RowsTyped, FileTyped, ClonesTyped
    <3>2. Counted'
      BY DEF BenchInv, Counted, NoRows, AllRows, OneBehind, RowsSaved, ThrownAtSave
    <3>3. Said'
      BY DEF BenchInv, Said, FlagsRight, FileRight, Finished, DoneLast
    <3>4. AsMade'
      BY DEF BenchInv, AsMade, StraysKilled, ModulesAsInstalled, RowPure, RowFair, ProtectedAsMade, LinkAsMade
    <3>5. RowsFair' /\ ClonesKnown' /\ NothingLeft'
      BY DEF BenchInv, RowsFair, ClonesKnown, NothingLeft
    <3> QED
      BY <3>1, <3>2, <3>3, <3>4, <3>5 DEF BenchInv
  <2> QED
    BY <2>1, <2>2
<1> QED
  BY <1>1, <1>2, PTL DEF BenchSpec

\* Whatever the model's commands, its background children and earlier runs
\* change, however many runs there are and wherever the bench is stopped: its
\* rows are fair (but for what of the packages the fingerprint does not look
\* at), its file follows, and nothing is left (cli.ts:335-408, 543-592,
\* repo-clone.ts:18-29, 164-186).
THEOREM BenchHolds == BenchSpec => []BenchSound
<1>1. BenchInv => BenchSound
  <2> SUFFICES ASSUME BenchInv PROVE BenchSound
    OBVIOUS
  <2>1. rows \in Seq(Rows) /\ Len(rows) \in Nat /\ run \in 0 .. Runs /\ Runs \in Nat /\ json.rows \in Nat
    BY BenchAssumption DEF BenchInv, BenchTyped, RowsTyped, FileTyped, Files
  <2>2. Len(rows) <= run
    <3>1. CASE at \in Before
      BY <2>1, <3>1 DEF BenchInv, Counted, NoRows
    <3>2. CASE at \in Between
      BY <2>1, <3>2 DEF BenchInv, Counted, AllRows
    <3>3. CASE at \in Within
      <4>1. Len(rows) = run \/ Len(rows) = run - 1
        BY <3>3 DEF BenchInv, Counted, OneBehind
      <4> QED
        BY <2>1, <4>1
    <3> QED
      BY <3>1, <3>2, <3>3 DEF BenchInv, BenchTyped, StepTyped
  <2>3. json.rows <= Len(rows) /\ json.rows + 1 >= Len(rows)
    BY <2>1 DEF BenchInv, Counted, RowsSaved
  <2>4. BenchTypeOK
    BY <2>1, <2>2, <2>3 DEF BenchInv, BenchTyped, StepTyped, ClonesTyped, BenchTypeOK, Exits
  <2>5. exited = "done" => json.rows = Len(rows) /\ (json.complete \/ "modules" \in changed)
    BY DEF BenchInv, Said, Finished, DoneLast, Counted, RowsSaved, ThrownAtSave
  <2>6. json.complete => json.rows = Runs
    BY DEF BenchInv, Said, FileRight
  <2>7. FileFollows
    BY <2>3, <2>5, <2>6 DEF FileFollows
  <2> QED
    BY <2>4, <2>7 DEF BenchInv, BenchSound
<1> QED
  BY <1>1, BenchInvariant, PTL
==============================================================================
