-------------------------------- MODULE Notes --------------------------------
(****************************************************************************)
(* The notes file of one folder: appendNotes and removeNotes of             *)
(* core/notes.ts, and the run that writes a note, withNotes of              *)
(* core/notes-run.ts.                                                       *)
(*                                                                          *)
(* Runs of several processes append, the page removes, nothing locks: each  *)
(* operation reads the file and writes it later.  A killed append leaves a  *)
(* part of a line.  A line is a note, or junk that no reader takes.         *)
(****************************************************************************)
EXTENDS Naturals, Sequences, Picks

CONSTANTS
  Writers,    \* runs with notes on; each writes one note, named after it
  Removers    \* requests of the page that delete notes

\* A line that no reader takes.
Junk == "junk"

ASSUME NotesAssumption == Writers \cap Removers = {} /\ Junk \notin Writers

VARIABLES
  \* the file: its lines, and whether the last has its newline
  lines,
  ended,
  \* a run: where withNotes is, and what it read
  writer,
  sawEnded,
  \* a removal: where it is, what it kept of what it read
  remover,
  kept,
  keptEnded,
  \* history
  asked,      \* notes somebody asked to remove
  raced       \* notes appended while another wrote the same file

notesVars == <<lines, ended, writer, sawEnded, remover, kept, keptEnded, asked, raced>>

NotesInit ==
  /\ lines = <<>> /\ ended = TRUE
  /\ writer = [w \in Writers |-> "running"] /\ sawEnded = [w \in Writers |-> TRUE]
  /\ remover = [d \in Removers |-> "idle"]
  /\ kept = [d \in Removers |-> <<>>] /\ keptEnded = [d \in Removers |-> TRUE]
  /\ asked = {} /\ raced = {}

InFile(n)   == \E i \in 1 .. Len(lines) : lines[i] = n
Reading     == {d \in Removers : remover[d] = "read"}

\* A line after one without its newline is glued to it, and neither is a note.
Appended(l) == IF ended THEN Append(lines, l) ELSE [lines EXCEPT ![Len(lines)] = Junk]

------------------------------------------------------------------------------
\* withNotes: the run's done is held; a run that has something to note asks for
\* the note, others end at once.
RunEnds(w) ==
  /\ writer[w] = "running"
  /\ \E next \in {"noting", "done"} : writer' = [writer EXCEPT ![w] = next]
  /\ UNCHANGED <<lines, ended, sawEnded, remover, kept, keptEnded, asked, raced>>

\* writeNotes: the reply has no note, the call or the append fails: told as such.
NoNote(w) ==
  /\ writer[w] \in {"noting", "looked"} /\ writer' = [writer EXCEPT ![w] = "untold"]
  /\ UNCHANGED <<lines, ended, sawEnded, remover, kept, keptEnded, asked, raced>>

\* appendNotes: the last byte is read, then the lines are appended, after a
\* newline if there was none.
LookAtEnd(w) ==
  /\ writer[w] = "noting" /\ writer' = [writer EXCEPT ![w] = "looked"]
  /\ sawEnded' = [sawEnded EXCEPT ![w] = ended]
  /\ UNCHANGED <<lines, ended, remover, kept, keptEnded, asked, raced>>
\* Mutant: no newline before it.
AppendGlued(w) ==
  /\ writer[w] = "looked" /\ writer' = [writer EXCEPT ![w] = "appended"]
  /\ lines' = Appended(w) /\ ended' = TRUE
  /\ raced' = IF Reading # {} \/ (sawEnded[w] /\ ~ended) THEN raced \cup {w} ELSE raced
  /\ UNCHANGED <<sawEnded, remover, kept, keptEnded, asked>>
AppendNote(w) ==
  /\ writer[w] = "looked" /\ writer' = [writer EXCEPT ![w] = "appended"]
  /\ lines' = IF sawEnded[w] THEN Appended(w) ELSE Append(lines, w)
  /\ ended' = TRUE
  /\ raced' = IF Reading # {} \/ (sawEnded[w] /\ ~ended) THEN raced \cup {w} ELSE raced
  /\ UNCHANGED <<sawEnded, remover, kept, keptEnded, asked>>

\* note_written says which notes there are, and only then comes done.
TellNote(w) ==
  /\ writer[w] \in {"appended", "untold"}
  /\ writer' = [writer EXCEPT ![w] = IF @ = "appended" THEN "told" ELSE "done"]
  /\ UNCHANGED <<lines, ended, sawEnded, remover, kept, keptEnded, asked, raced>>

\* The process of a run is killed: between two steps, or in the append, which
\* leaves a part of the line.
KillRun(w) ==
  /\ writer[w] \in {"running", "noting", "looked", "appended"}
  /\ writer' = [writer EXCEPT ![w] = "killed"]
  /\ \/ UNCHANGED <<lines, ended>>
     \/ /\ writer[w] = "looked" /\ ended' = FALSE
        /\ lines' = IF sawEnded[w] THEN Appended(Junk) ELSE Append(lines, Junk)
  /\ UNCHANGED <<sawEnded, remover, kept, keptEnded, asked, raced>>

------------------------------------------------------------------------------
\* removeNotes: read and filter, then write aside and rename over.  What is not a
\* note stays.  Nothing to remove is nothing to write.
ReadToRemove(d) ==
  \E gone \in SUBSET Writers :
    LET stays == Pick(lines, {i \in 1 .. Len(lines) : lines[i] \notin gone}) IN
    /\ remover[d] = "idle" /\ gone # {}
    /\ asked' = asked \cup gone
    /\ IF stays = lines
       THEN UNCHANGED <<remover, kept, keptEnded>>
       ELSE /\ remover' = [remover EXCEPT ![d] = "read"]
            /\ kept' = [kept EXCEPT ![d] = stays]
            /\ keptEnded' = [keptEnded EXCEPT ![d] = ended]
    /\ UNCHANGED <<lines, ended, writer, sawEnded, raced>>
RenameOver(d) ==
  /\ remover[d] = "read" /\ remover' = [remover EXCEPT ![d] = "removed"]
  /\ lines' = kept[d] /\ ended' = keptEnded[d]
  /\ UNCHANGED <<writer, sawEnded, kept, keptEnded, asked, raced>>

\* The write aside fails, or serve is killed: the old file is there.
GiveUp(d) ==
  /\ remover[d] = "read" /\ remover' = [remover EXCEPT ![d] = "failed"]
  /\ UNCHANGED <<lines, ended, writer, sawEnded, kept, keptEnded, asked, raced>>

NotesNext ==
  \/ \E w \in Writers :
       RunEnds(w) \/ NoNote(w) \/ LookAtEnd(w) \/ AppendNote(w) \/ TellNote(w) \/ KillRun(w)
  \/ \E d \in Removers : ReadToRemove(d) \/ RenameOver(d) \/ GiveUp(d)

NotesSpec == NotesInit /\ [][NotesNext]_notesVars

------------------------------------------------------------------------------
NotesTypeOK ==
  /\ lines \in Seq(Writers \cup {Junk}) /\ ended \in BOOLEAN
  /\ \A w \in Writers :
       writer[w] \in {"running", "noting", "looked", "appended", "untold", "told", "done", "killed"}
  /\ \A d \in Removers : remover[d] \in {"idle", "read", "removed", "failed"}

\* A note the run told of is in the file until somebody asks for its removal,
\* though other runs are killed in their appends and other notes are removed
\* (notes.ts:40-63, notes-run.ts:46-73).  The code has no lock: a note appended
\* between the read and the rename of a removal, or onto a line torn since the
\* file was looked at, goes with it, though notes.ts:48 says that every other line
\* stays.
NotesKept ==
  /\ NotesTypeOK
  /\ \A w \in Writers :
       writer[w] = "told" /\ w \notin asked \cup raced => InFile(w)
=============================================================================
