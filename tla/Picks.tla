-------------------------------- MODULE Picks --------------------------------
(* Some elements of a sequence: what JavaScript's filter does, in a form that *)
(* can be proved about.                                                       *)
EXTENDS Naturals, Sequences

\* The elements of es at the indices in I, in order: a filter, as a recursive
\* function.
Pick(es, I) ==
  LET F[i \in 0 .. Len(es)] ==
        IF i = 0 THEN <<>> ELSE IF i \in I THEN Append(F[i - 1], es[i]) ELSE F[i - 1]
  IN F[Len(es)]
=============================================================================
