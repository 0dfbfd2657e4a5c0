---------------------------- MODULE EvolveSteps ----------------------------
(****************************************************************************)
(* What an evolve promises of its measurements: the steps of an evolve that *)
(* nothing ever stops.  Each slot is proposed or refused once, each sweep   *)
(* of a round is measured once and on both of its slots, each proposal gets *)
(* one verdict and a round keeps at most one of them, and only when the     *)
(* rounds are over is the last version measured, once.  An evolve that is   *)
(* stopped, killed and resumed shall be one of these.                       *)
(****************************************************************************)
EXTENDS Naturals

CONSTANTS Rounds, Repeats, Candidates

VARIABLES
  slots,     \* slots proposed or refused so far, in order of (round, index)
  pending,   \* slots proposed and not decided
  sweeps,    \* sweeps of the open round
  version,   \* versions kept so far
  tests,     \* test sweeps of the last version
  over,      \* every field is closed: no round follows
  finished

vars == <<slots, pending, sweeps, version, tests, over, finished>>

RoundOf(slot) == ((slot - 1) \div Candidates) + 1

Init ==
  /\ slots = 0 /\ pending = {} /\ sweeps = 0 /\ version = 0 /\ tests = 0
  /\ over = FALSE /\ finished = FALSE

TakeSlot ==
  /\ ~finished /\ tests = 0 /\ slots < Rounds * Candidates
  /\ \A p \in pending : RoundOf(p) = RoundOf(slots + 1)
  /\ slots' = slots + 1
  /\ \/ pending' = pending \cup {slots'}       \* proposed
     \/ pending' = pending                     \* refused before any run
  /\ over' \in BOOLEAN
  /\ UNCHANGED <<sweeps, version, tests, finished>>

Sweep ==
  /\ pending # {} /\ sweeps < Repeats
  /\ \E r \in 1 .. Rounds : slots = r * Candidates
  /\ sweeps' = sweeps + 1
  /\ UNCHANGED <<slots, pending, version, tests, over, finished>>

Decide(p) ==
  /\ p \in pending /\ sweeps = Repeats
  /\ pending' = pending \ {p}
  /\ sweeps' = IF pending' = {} THEN 0 ELSE sweeps
  /\ version' \in {version, version + 1} /\ version' <= RoundOf(p)
  /\ over' \in BOOLEAN /\ (version' # version => ~over')
  /\ UNCHANGED <<slots, tests, finished>>

RoundsOver == pending = {} /\ (over \/ slots = Rounds * Candidates)

TestSweep ==
  /\ RoundsOver /\ ~finished /\ version > 0 /\ tests < Repeats
  /\ tests' = tests + 1
  /\ UNCHANGED <<slots, pending, sweeps, version, over, finished>>

Finish ==
  /\ RoundsOver /\ ~finished /\ tests = (IF version > 0 THEN Repeats ELSE 0)
  /\ finished' = TRUE
  /\ UNCHANGED <<slots, pending, sweeps, version, tests, over>>

Next == TakeSlot \/ Sweep \/ (\E p \in pending : Decide(p)) \/ TestSweep \/ Finish

Spec == Init /\ [][Next]_vars
============================================================================
