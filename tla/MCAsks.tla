------------------------------- MODULE MCAsks -------------------------------
(* The run of MCAgentLoop that may be asked, with what its requests carry    *)
(* and how its replies are read.                                             *)
EXTENDS MCAgentLoop, Adapters, Formats, Knobs, NoteTexts

=============================================================================
