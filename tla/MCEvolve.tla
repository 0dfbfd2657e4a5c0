------------------------------ MODULE MCEvolve ------------------------------
(* Small evolves for TLC: two fields, one of which the proposer has a good   *)
(* and a bad value for.                                                      *)
EXTENDS Evolve

CONSTANTS f1, f2

TwoFields == {f1, f2}
TwoFieldEdits == [field : {f1, f2}, value : {1}] \cup {[field |-> f1, value |-> 2]}
TwoFieldBad == {[field |-> f1, value |-> 2]}

OneField == {f1}
OneFieldEdits == [field : {f1}, value : {1, 2}]
OneFieldBad == {[field |-> f1, value |-> 2]}
=============================================================================
