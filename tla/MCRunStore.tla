----------------------------- MODULE MCRunStore -----------------------------
(* Two runs that want one directory; the readers watch the first.            *)
EXTENDS RunStore

CONSTANTS r1, r2, d1, d2, dir

OneDir == [r \in Runs |-> dir]
WatchFirst == [d \in Readers |-> r1]
=============================================================================
