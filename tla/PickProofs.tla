----------------------------- MODULE PickProofs ------------------------------
(* What Pick computes of every sequence, by induction on its length: the     *)
(* induction is a well-founded one over the numbers, since a set of numbers   *)
(* that is not empty has a least.                                             *)
EXTENDS Picks, TLAPS, WellFoundedInduction

------------------------------------------------------------------------------
\* Induction: a set of numbers that is not empty has a least one.

Less == {ss \in Nat \X Nat : ss[1] < ss[2]}

LEMMA LessWF == IsWellFoundedOn(Less, Nat)
BY Zenon, NatLessThanWellFounded DEF OpToRel, Less

LEMMA LeastNatural ==
  ASSUME NEW T, T \subseteq Nat, T # {}
  PROVE  \E x \in T : \A y \in T : x <= y
<1>2. PICK x \in T : \A y \in T : ~ (<<y, x>> \in Less)
  BY LessWF, WFMin
<1>3. ASSUME NEW y \in T PROVE x <= y
  <2>1. x \in Nat /\ y \in Nat
    OBVIOUS
  <2>2. ~ (<<y, x>> \in Less)
    BY <1>2
  <2>3. ~(y < x)
    BY <2>1, <2>2 DEF Less
  <2> QED
    BY <2>1, <2>3
<1> QED
  BY <1>2, <1>3

------------------------------------------------------------------------------
\* Pick: a filter of a sequence.

\* F computes the filter of es at the indices I, up to n.
Steps(F, es, I, n) ==
  F = [i \in 0 .. n |->
         IF i = 0 THEN <<>> ELSE IF i \in I THEN Append(F[i - 1], es[i]) ELSE F[i - 1]]

\* o is the elements of es at the indices up to n that I has, in their order.
Filter(o, es, I, n, S) ==
  /\ o \in Seq(S)
  /\ \A i \in I : i <= n => \E a \in 1 .. Len(o) : o[a] = es[i]
  /\ \A a \in 1 .. Len(o) : \E i \in I : i <= n /\ o[a] = es[i]
  /\ \A a, b \in 1 .. Len(o) : a < b => \E i, j \in I : i < j /\ j <= n /\ o[a] = es[i] /\ o[b] = es[j]
  /\ n \in I => Len(o) \in 1 .. Len(o) /\ o[Len(o)] = es[n]

\* Some F computes it and gives the filter at every index up to n.
Computes(es, I, n, S) ==
  \E F : Steps(F, es, I, n) /\ \A k \in 0 .. n : Filter(F[k], es, I, k, S)

\* The induction of Pick: its first value, one step more, all of them.
LEMMA ComputesZero ==
  ASSUME NEW S, NEW es \in Seq(S), NEW I, I \subseteq 1 .. Len(es)
  PROVE  Computes(es, I, 0, S)
<1> DEFINE F == [i \in 0 .. 0 |-> <<>>]
<1>1. 0 .. 0 = {0} /\ F[0] = <<>>
  OBVIOUS
<1>2. Steps(F, es, I, 0)
  BY <1>1 DEF Steps
<1>3. Filter(<<>>, es, I, 0, S)
  BY DEF Filter
<1>4. \A k \in 0 .. 0 : Filter(F[k], es, I, k, S)
  BY <1>1, <1>3
<1> QED
  BY <1>2, <1>4, Zenon DEF Computes

LEMMA FilterGrows ==
  ASSUME NEW S, NEW es \in Seq(S), NEW I, I \subseteq 1 .. Len(es),
         NEW n \in Nat, n < Len(es), NEW o, Filter(o, es, I, n, S)
  PROVE  Filter(IF n + 1 \in I THEN Append(o, es[n + 1]) ELSE o, es, I, n + 1, S)
<1>1. CASE n + 1 \notin I
  <2>1. ASSUME NEW i \in I PROVE i <= n + 1 <=> i <= n
    BY <1>1, <2>1
  <2>2. /\ o \in Seq(S)
        /\ \A i \in I : i <= n + 1 => \E a \in 1 .. Len(o) : o[a] = es[i]
    BY <2>1 DEF Filter
  <2>3. \A a \in 1 .. Len(o) : \E i \in I : i <= n + 1 /\ o[a] = es[i]
    BY <2>1 DEF Filter
  <2>4. ASSUME NEW a \in 1 .. Len(o), NEW b \in 1 .. Len(o), a < b
        PROVE  \E i, j \in I : i < j /\ j <= n + 1 /\ o[a] = es[i] /\ o[b] = es[j]
    <3>1. PICK i \in I, j \in I : i < j /\ j <= n /\ o[a] = es[i] /\ o[b] = es[j]
      BY <2>4 DEF Filter
    <3> QED
      BY <2>1, <3>1
  <2>5. Filter(o, es, I, n + 1, S)
    BY <1>1, <2>2, <2>3, <2>4 DEF Filter
  <2> QED
    BY <1>1, <2>5
<1>2. CASE n + 1 \in I
  <2> DEFINE p == Append(o, es[n + 1])
  <2>1. es[n + 1] \in S /\ o \in Seq(S)
    BY DEF Filter
  <2>2. p \in Seq(S) /\ Len(p) = Len(o) + 1 /\ Len(o) \in Nat
    BY <2>1
  <2>3. /\ \A a \in 1 .. Len(o) : p[a] = o[a]
        /\ p[Len(o) + 1] = es[n + 1]
    BY <2>1
  <2> HIDE DEF p
  <2>4. \A i \in I : i <= n + 1 => \E a \in 1 .. Len(p) : p[a] = es[i]
    <3> SUFFICES ASSUME NEW i \in I, i <= n + 1 PROVE \E a \in 1 .. Len(p) : p[a] = es[i]
      OBVIOUS
    <3>1. CASE i = n + 1
      <4>1. Len(o) + 1 \in 1 .. Len(p)
        BY <2>2
      <4> QED
        BY <3>1, <4>1, <2>3
    <3>2. CASE i # n + 1
      <4>1. i <= n
        BY <3>2
      <4>2. PICK a \in 1 .. Len(o) : o[a] = es[i]
        BY <4>1 DEF Filter
      <4> QED
        BY <4>2, <2>2, <2>3
    <3> QED
      BY <3>1, <3>2
  <2>5. \A a \in 1 .. Len(p) : \E i \in I : i <= n + 1 /\ p[a] = es[i]
    <3> SUFFICES ASSUME NEW a \in 1 .. Len(p) PROVE \E i \in I : i <= n + 1 /\ p[a] = es[i]
      OBVIOUS
    <3>1. CASE a = Len(o) + 1
      BY <3>1, <1>2, <2>3
    <3>2. CASE a # Len(o) + 1
      <4>1. a \in 1 .. Len(o)
        BY <3>2, <2>2
      <4>2. PICK i \in I : i <= n /\ o[a] = es[i]
        BY <4>1 DEF Filter
      <4> QED
        BY <4>1, <4>2, <2>3
    <3> QED
      BY <3>1, <3>2
  <2>6. \A a, b \in 1 .. Len(p) : a < b =>
           \E i, j \in I : i < j /\ j <= n + 1 /\ p[a] = es[i] /\ p[b] = es[j]
    <3> SUFFICES ASSUME NEW a \in 1 .. Len(p), NEW b \in 1 .. Len(p), a < b
                 PROVE  \E i, j \in I : i < j /\ j <= n + 1 /\ p[a] = es[i] /\ p[b] = es[j]
      OBVIOUS
    <3>0. a \in 1 .. Len(o)
      BY <2>2
    <3>1. CASE b = Len(o) + 1
      <4>1. PICK i \in I : i <= n /\ o[a] = es[i]
        BY <3>0 DEF Filter
      <4>2. i < n + 1
        BY <4>1
      <4> QED
        BY <3>0, <3>1, <4>1, <4>2, <1>2, <2>3
    <3>2. CASE b # Len(o) + 1
      <4>1. b \in 1 .. Len(o)
        BY <3>2, <2>2
      <4>2. PICK i \in I, j \in I : i < j /\ j <= n /\ o[a] = es[i] /\ o[b] = es[j]
        BY <3>0, <4>1 DEF Filter
      <4>3. j <= n + 1
        BY <4>2
      <4> QED
        BY <3>0, <4>1, <4>2, <4>3, <2>3
    <3> QED
      BY <3>1, <3>2
  <2>7. Len(p) \in 1 .. Len(p) /\ p[Len(p)] = es[n + 1]
    BY <2>2, <2>3
  <2>8. Filter(p, es, I, n + 1, S)
    BY <2>2, <2>4, <2>5, <2>6, <2>7 DEF Filter
  <2> QED
    BY <1>2, <2>8 DEF p
<1> QED
  BY <1>1, <1>2

LEMMA ComputesNext ==
  ASSUME NEW S, NEW es \in Seq(S), NEW I, I \subseteq 1 .. Len(es),
         NEW n \in Nat, n < Len(es), Computes(es, I, n, S)
  PROVE  Computes(es, I, n + 1, S)
<1>1. PICK F : Steps(F, es, I, n) /\ \A k \in 0 .. n : Filter(F[k], es, I, k, S)
  BY Zenon DEF Computes
<1> DEFINE x == IF n + 1 \in I THEN Append(F[n], es[n + 1]) ELSE F[n]
           G == [i \in 0 .. n + 1 |-> IF i = n + 1 THEN x ELSE F[i]]
<1>2. /\ G[n + 1] = x
      /\ \A i \in 0 .. n : G[i] = F[i]
  OBVIOUS
<1>3. Filter(x, es, I, n + 1, S)
  <2>1. n \in 0 .. n
    OBVIOUS
  <2>2. Filter(F[n], es, I, n, S)
    BY <1>1, <2>1
  <2> QED
    BY <2>2, FilterGrows
<1>4. \A k \in 0 .. n + 1 : Filter(G[k], es, I, k, S)
  <2> HIDE DEF x, G
  <2>1. \A k \in 0 .. n + 1 : k = n + 1 \/ k \in 0 .. n
    OBVIOUS
  <2> QED
    BY <1>1, <1>2, <1>3, <2>1
<1>5. \A i \in 0 .. n + 1 :
        G[i] = IF i = 0 THEN <<>> ELSE IF i \in I THEN Append(G[i - 1], es[i]) ELSE G[i - 1]
  <2> TAKE i \in 0 .. n + 1
  <2>1. CASE i = n + 1
    <3>1. i # 0 /\ i - 1 = n /\ n \in 0 .. n
      BY <2>1
    <3> QED
      BY <2>1, <3>1, <1>2
  <2>2. CASE i # n + 1 /\ i # 0
    <3>1. i \in 0 .. n /\ i - 1 \in 0 .. n
      BY <2>2
    <3>2. F[i] = IF i \in I THEN Append(F[i - 1], es[i]) ELSE F[i - 1]
      BY <1>1, <3>1, <2>2, Zenon DEF Steps
    <3> HIDE DEF G
    <3> QED
      BY <2>2, <3>1, <3>2, <1>2
  <2>3. CASE i = 0
    <3>1. 0 \in 0 .. n /\ 0 # n + 1
      OBVIOUS
    <3>2. F[0] = <<>>
      BY <1>1, <3>1, Zenon DEF Steps
    <3> QED
      BY <2>3, <3>1, <3>2, <1>2
  <2> QED
    BY <2>1, <2>2, <2>3
<1>6. Steps(G, es, I, n + 1)
  <2>1. G = [i \in 0 .. n + 1 |-> G[i]]
    OBVIOUS
  <2> HIDE DEF G
  <2>2. [i \in 0 .. n + 1 |-> G[i]] =
        [i \in 0 .. n + 1 |-> IF i = 0 THEN <<>> ELSE IF i \in I THEN Append(G[i - 1], es[i]) ELSE G[i - 1]]
    BY <1>5, Zenon
  <2> QED
    BY <2>1, <2>2, Zenon DEF Steps
<1> HIDE DEF G
<1> QED
  BY <1>4, <1>6, Zenon DEF Computes

LEMMA ComputesAll ==
  ASSUME NEW S, NEW es \in Seq(S), NEW I, I \subseteq 1 .. Len(es)
  PROVE  Computes(es, I, Len(es), S)
<1> DEFINE Bad == {n \in 0 .. Len(es) : ~Computes(es, I, n, S)}
<1>1. SUFFICES ASSUME Bad # {} PROVE FALSE
  BY Len(es) \in Nat
<1>2. PICK n \in Bad : \A m \in Bad : n <= m
  <2>1. Bad \subseteq Nat
    OBVIOUS
  <2> HIDE DEF Bad
  <2> QED
    BY <1>1, <2>1, LeastNatural
<1>3. n # 0
  BY <1>2, ComputesZero
<1>4. n - 1 \in Nat /\ n - 1 < Len(es) /\ n - 1 \in 0 .. Len(es) /\ ~(n <= n - 1) /\ n - 1 + 1 = n
  BY <1>2, <1>3
<1>5. Computes(es, I, n - 1, S)
  BY <1>2, <1>4
<1>6. Computes(es, I, n - 1 + 1, S)
  BY <1>4, <1>5, ComputesNext
<1> QED
  BY <1>2, <1>4, <1>6

\* What Pick gives.
LEMMA PickFilters ==
  ASSUME NEW S, NEW es \in Seq(S), NEW I, I \subseteq 1 .. Len(es)
  PROVE  Filter(Pick(es, I), es, I, Len(es), S)
<1> DEFINE H == CHOOSE F : Steps(F, es, I, Len(es))
<1>1. PICK F : Steps(F, es, I, Len(es)) /\ \A k \in 0 .. Len(es) : Filter(F[k], es, I, k, S)
  BY ComputesAll, Zenon DEF Computes
<1>2. Steps(H, es, I, Len(es))
  BY <1>1, Zenon
<1>3. Pick(es, I) = H[Len(es)]
  BY Zenon DEF Pick, Steps
<1> HIDE DEF H
<1>4. \A k \in 0 .. Len(es) : H[k] = F[k]
  <2> DEFINE Bad == {n \in 0 .. Len(es) : H[n] # F[n]}
  <2>1. SUFFICES ASSUME Bad # {} PROVE FALSE
    OBVIOUS
  <2>2. PICK n \in Bad : \A m \in Bad : n <= m
    <3>1. Bad \subseteq Nat
      OBVIOUS
    <3> HIDE DEF Bad
    <3> QED
      BY <2>1, <3>1, LeastNatural
  <2>3. n \in 0 .. Len(es) /\ H[n] # F[n]
    BY <2>2
  <2>4. /\ F[n] = IF n = 0 THEN <<>> ELSE IF n \in I THEN Append(F[n - 1], es[n]) ELSE F[n - 1]
        /\ H[n] = IF n = 0 THEN <<>> ELSE IF n \in I THEN Append(H[n - 1], es[n]) ELSE H[n - 1]
    BY <1>1, <1>2, <2>3, Zenon DEF Steps
  <2>5. CASE n = 0
    BY <2>3, <2>4, <2>5
  <2>6. CASE n # 0
    <3>1. n - 1 \in 0 .. Len(es) /\ ~(n <= n - 1)
      BY <2>3, <2>6
    <3>2. H[n - 1] = F[n - 1]
      BY <2>2, <3>1
    <3> QED
      BY <2>3, <2>4, <2>6, <3>2
  <2> QED
    BY <2>5, <2>6
<1> QED
  BY <1>1, <1>3, <1>4, Len(es) \in Nat
=============================================================================
