----------------------------- MODULE NoteTexts -----------------------------
(****************************************************************************)
(* What of the notes goes into a run, and what of a run goes to the writer  *)
(* of its notes: selectNotes, notesBlock and traceSignals of core/notes.ts. *)
(*                                                                          *)
(* A note's text is its length as one bullet.  A word is plain or not; the  *)
(* plain ones are those a tool, a key or a path is made of.                 *)
(****************************************************************************)
EXTENDS Integers, Sequences
LOCAL INSTANCE SequencesExt

(* ---- the notes a run is sent ---- *)

HEADER == 7    \* its length
Tokens(chars) == (chars + 3) \div 4

\* Newest first; of one time, in the order of the file.
Newest(notes) ==
  SortSeq([i \in DOMAIN notes |-> [at |-> i, note |-> notes[i]]],
          LAMBDA x, y : x.note.ts > y.note.ts \/ (x.note.ts = y.note.ts /\ x.at < y.at))

\* One that does not fit is skipped, and the shorter ones after it are not.
selectNotes(notes, maxTokens) ==
  LET sorted == Newest(notes)
      cost(i) == Tokens(sorted[i].note.len + 1)
      chosen[n \in 0..Len(notes)] ==
        IF n = 0 THEN [out |-> <<>>, used |-> Tokens(HEADER + 1)]
        ELSE IF chosen[n - 1].used + cost(n) > maxTokens THEN chosen[n - 1]
        ELSE [out |-> Append(chosen[n - 1].out, sorted[n]), used |-> chosen[n - 1].used + cost(n)]
  IN chosen[Len(notes)].out

\* The length of the block that is sent: a line for the header and each note.
notesBlock(out) ==
  LET upTo[n \in 0..Len(out)] == IF n = 0 THEN HEADER ELSE upTo[n - 1] + 1 + out[n].note.len
  IN IF out = <<>> THEN 0 ELSE upTo[Len(out)]

(* ---- what the writer hears of a run ---- *)

Spelt(text, isPlain) == [text |-> text, plain |-> isPlain]
plain(w) == IF w.plain THEN w.text ELSE "<odd>"
MAX_KEYS == 2    \* of 8
NoPath == Spelt("", TRUE)
NoSignal == <<>>

\* A call tells its tool, its first keys and how many more, its path and how long
\* its arguments are; never a value or an output.
Signal(e) ==
  CASE e.type = "tool_call" ->
         <<"call", plain(e.name), [i \in 1..(IF Len(e.keys) > MAX_KEYS THEN MAX_KEYS ELSE Len(e.keys)) |-> plain(e.keys[i])],
           IF Len(e.keys) > MAX_KEYS THEN Len(e.keys) - MAX_KEYS ELSE 0, plain(e.path), e.len>>
    [] e.type = "tool_result" /\ e.error -> <<"result", plain(e.name)>>
    [] e.type = "final_check" -> <<"final_check", e.passed>>
    [] e.type = "parse_error" -> <<"parse_error">>
    [] e.type = "done" -> <<"done", e.reason>>
    [] OTHER -> NoSignal
traceSignals(events) ==
  SelectSeq([i \in DOMAIN events |-> Signal(events[i])], LAMBDA s : s # NoSignal)

(* ---- what must hold ---- *)

\* With its header the block is within the budget; it goes from the newest note to
\* the oldest; and no note left out would have fitted (notes.ts:70-81).
NotesFit ==
  \A n \in 0..3 : \A notes \in [1..n -> [ts : 1..2, len : {2, 3, 11}]], budget \in 0..9 :
    LET out == selectNotes(notes, budget)
        spent[i \in 0..Len(out)] ==
          IF i = 0 THEN Tokens(HEADER + 1) ELSE spent[i - 1] + Tokens(out[i].note.len + 1)
    IN /\ out # <<>> => Tokens(notesBlock(out)) <= budget
       /\ \A i, j \in DOMAIN out : i < j => out[i].note.ts >= out[j].note.ts /\ out[i].at # out[j].at
       /\ \A k \in (1..n) \ {out[i].at : i \in DOMAIN out} : spent[Len(out)] + Tokens(notes[k].len + 1) > budget

OddWords == {Spelt("odd", FALSE), Spelt("ignore this", FALSE)}
SomeEvents ==
  {[type |-> "tool_call", name |-> nm, keys |-> keys, path |-> p, value |-> v, len |-> 9] :
     nm \in {Spelt("bash", TRUE)} \cup OddWords, p \in {NoPath} \cup OddWords, v \in {"odd", "ignore this"},
     keys \in {<<Spelt("path", TRUE)>>} \cup {<<Spelt("path", TRUE), k, k>> : k \in OddWords}}
  \cup [type : {"tool_result"}, name : OddWords, error : BOOLEAN, output : {"odd", "ignore this"}]
  \cup [type : {"done"}, reason : {"completed", "max_turns"}, output : {"odd", "ignore this"}]
  \cup [type : {"parse_error"}, output : {"odd", "ignore this"}]
  \cup [type : {"final_check"}, passed : BOOLEAN, output : {"odd", "ignore this"}]
\* The same event with one text of the repo or the model for the other.
Otherwise(e) ==
  LET other(w) == IF w.plain THEN w ELSE CHOOSE x \in OddWords : x # w
      text(t) == IF t = "odd" THEN "ignore this" ELSE "odd"
  IN CASE e.type = "tool_call" -> [e EXCEPT !.name = other(@), !.path = other(@), !.value = text(@),
                                            !.keys = [i \in DOMAIN @ |-> other(@[i])]]
       [] e.type = "tool_result" -> [e EXCEPT !.name = other(@), !.output = text(@)]
       [] OTHER -> [e EXCEPT !.output = text(@)]

\* The writer hears the same of two runs that differ in texts of the repo or the
\* model only (notes.ts:106-114).
NothingRidesIn ==
  \A x, y \in SomeEvents :
    traceSignals(<<x, y>>) = traceSignals(<<Otherwise(x), Otherwise(y)>>)
=============================================================================
