-------------------------------- MODULE Shelf --------------------------------
(****************************************************************************)
(* What serve keeps of files it is asked about at every poll                *)
(* (server/runs.ts): of a bench file, what was parsed of it, under its size *)
(* and mtime; of a trace, its analysis, under its size alone.               *)
(*                                                                          *)
(* A file is the number of its last write, its size and whether it is a     *)
(* bench; no two writes have one mtime.  A bench file is replaced as a      *)
(* whole, here always at the size it had; a trace grows.                    *)
(* A file put there by hand may be read torn, and may be none.  Asks        *)
(* overlap at every await.                                                  *)
(****************************************************************************)
EXTENDS Naturals

CONSTANTS
  Pollers,    \* asks that may be under way at once
  MaxWrites   \* bound

ASSUME ShelfAssumption == MaxWrites \in Nat

VARIABLES
  shelved,   \* "bench" or "trace"
  file,
  kept,      \* the entry of the cache
  poll       \* each ask: where it stands, the key its stat gave, its answer, the file as it began

shelfVars == <<shelved, file, kept, poll>>

NoKey   == <<>>
Nothing == [wrote |-> 0, form |-> "none"]
Idle    == [at |-> "idle", key |-> NoKey, got |-> Nothing, began |-> 0]
Key     == IF shelved = "bench" THEN <<file.wrote, file.size>> ELSE <<file.size>>
Content == [wrote |-> file.wrote, form |-> file.form]

ShelfInit ==
  /\ shelved \in {"bench", "trace"} /\ file = [wrote |-> 1, size |-> 1, form |-> "right"]
  /\ kept = [key |-> NoKey, result |-> Nothing] /\ poll = [p \in Pollers |-> Idle]

Write ==
  /\ file.wrote < MaxWrites
  /\ \E reads \in (IF shelved = "trace" THEN {"right"} ELSE {"right", "other", "torn"}) :
       file' = [wrote |-> file.wrote + 1, form |-> reads,
                size |-> IF shelved = "trace" THEN file.size + 1 ELSE file.size]
  /\ UNCHANGED <<shelved, kept, poll>>

Step(p, from, to) == poll[p].at = from /\ poll' = [poll EXCEPT ![p] = to] /\ UNCHANGED <<shelved, file>>

Asked(p) == Step(p, "idle", [Idle EXCEPT !.at = "asked", !.began = file.wrote]) /\ UNCHANGED kept
Stat(p)  == Step(p, "asked", [poll[p] EXCEPT !.at = "told", !.key = Key]) /\ UNCHANGED kept
\* Nothing is awaited between the stat's answer and the look.
Hit(p) ==
  /\ kept.key = poll[p].key
  /\ Step(p, "told", [poll[p] EXCEPT !.at = "answered", !.got = kept.result]) /\ UNCHANGED kept
Miss(p) ==
  /\ kept.key # poll[p].key
  /\ Step(p, "told", [poll[p] EXCEPT !.at = "missed"]) /\ UNCHANGED kept
ReadFile(p) == Step(p, "missed", [poll[p] EXCEPT !.at = "read", !.got = Content]) /\ UNCHANGED kept
\* What does not parse is not kept; what is no bench is, as that.
Keep(p) ==
  /\ Step(p, "read", [poll[p] EXCEPT !.at = "answered"])
  /\ kept' = IF poll[p].got.form = "torn" THEN kept ELSE [key |-> poll[p].key, result |-> poll[p].got]
Returned(p) == Step(p, "answered", Idle) /\ UNCHANGED kept

ShelfNext ==
  \/ Write
  \/ \E p \in Pollers : Asked(p) \/ Stat(p) \/ Hit(p) \/ Miss(p) \/ ReadFile(p) \/ Keep(p) \/ Returned(p)

------------------------------------------------------------------------------
(* The run a bench is at: the newest of its traces that are not renamed yet.  *)
(* `renamed` and `after` went while the directory was read and after.         *)

NoRun == [bench |-> "", started |-> 0]
benchOpen(b, parts, renamed, after) ==
  LET own == {p \in parts \ renamed : p.bench = b.file /\ p.started >= b.date}
      best == CHOOSE p \in own : \A q \in own : p.started >= q.started
  IN IF b.over \/ own = {} \/ best \in after THEN NoRun ELSE best

\* Traces that killed benches left are not taken for a run of a bench that began
\* after them at the same file; a run that ends as it is looked for shows none, and
\* never one before it (runs.ts:304-339).
LiveIsOwn ==
  LET left(date) == [bench : {"b"}, started : 1 .. (date - 1)] \cup [bench : {"c"}, started : 1 .. 3]
      runs(date) == [bench : {"b"}, started : date .. 3]
  IN \A date \in 1 .. 3, over \in BOOLEAN : \A at \in SUBSET runs(date), orphans \in SUBSET left(date) :
       \A renamed \in {{}, at}, after \in SUBSET at :
         LET live == benchOpen([file |-> "b", date |-> date, over |-> over], orphans \cup at, renamed, after)
         IN /\ live # NoRun => ~over /\ live \in at \ after /\ \A r \in at : r.started <= live.started
            /\ ~over /\ at # {} /\ renamed \cup after = {} => live # NoRun

\* An answer is of the file as it was when it was asked for or later, however many
\* asks read it and write the cache between; never of a torn one kept by another
\* (runs.ts:245-271, 282-302).
ShelfFresh ==
  \A p \in Pollers :
    poll[p].at = "answered" => poll[p].got.wrote >= poll[p].began /\ kept.result.form # "torn"
=============================================================================
